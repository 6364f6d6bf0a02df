------------------------------ MODULE Downloads ------------------------------
(* The two downloaders of scripts/, which share nothing: part says which of *)
(* them runs, the other stays as it was constructed.                        *)
EXTENDS Downloader

CONSTANTS Chapters, Directories, NextPage, Blank, NoPage, Limits, InterruptSave

VARIABLES
    part,
    progress, output, npc, list, index, completed, texts, page, parts, visited

novelVars == <<progress, output, npc, list, index, completed, texts, page, parts, visited>>
bothVars == <<part, vars, novelVars>>

Novel == INSTANCE NovelDownload WITH pc <- npc, done <- completed

ASSUME ChaptersAssumption == Novel!NovelAssumption

-----------------------------------------------------------------------------
BothInit == part \in {"mcu", "novel"} /\ Init /\ Novel!Init

McuStep(A) == part = "mcu" /\ A /\ UNCHANGED <<part, novelVars>>
NovelStep(A) == part = "novel" /\ A /\ UNCHANGED <<part, vars>>

BothNext == McuStep(Next) \/ NovelStep(Novel!Next)

(* Requests time out, so that each download takes its next step.            *)
BothSpec ==
    /\ BothInit /\ [][BothNext]_bothVars
    /\ WF_bothVars(McuStep(Step)) /\ WF_bothVars(NovelStep(Novel!Step))

-----------------------------------------------------------------------------
(* A chapter in progress.json is whole, later runs keep it, and a run that  *)
(* ends well leaves every chapter of its list in the text, once and in      *)
(* order, whatever was interrupted or failed before                         *)
(* (download_22biqu_novel.py 282-379).                                      *)
NovelIsKept ==
    part = "novel" =>
        Novel!TypeOK /\ Novel!SavedAreWhole /\ Novel!TextIsComplete /\ Novel!KeepsTheSaved

(* Every download ends unless the process dies: attempts are counted, no    *)
(* path is unpacked twice and no page is fetched twice (base_tas.py 861,    *)
(* 888-894, download_22biqu_novel.py 292-293).                              *)
DownloadsEnd ==
    /\ part = "mcu" => DownloadEnds
    /\ part = "novel" => Novel!RunEnds
=============================================================================
