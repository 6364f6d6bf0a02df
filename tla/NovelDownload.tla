---------------------------- MODULE NovelDownload ----------------------------
(***************************************************************************)
(* download_22biqu_novel.py: fetch a directory of chapters, fetch the pages *)
(* of each chapter, and keep progress.json and the text on disk so that an  *)
(* interrupted download can go on in a later run.                           *)
(*                                                                         *)
(* A page is <<chapter, part>>; part 1 is the chapter's own URL, part n the *)
(* URL with the suffix _n.                                                  *)
(***************************************************************************)
EXTENDS Integers, Sequences, FiniteSets

CONSTANTS
    Chapters,     \* the chapters of the site
    Directories,  \* what the directory pages may list: [body, links] per page
    NextPage,     \* the next link of a page: a page, or NoPage
    Blank,        \* the pages that have no text
    NoPage,
    Limits,       \* the --limit options
    InterruptSave \* TRUE: Ctrl-C may also come while progress.json is written

IsSequence(s) == Len(s) \in Nat /\ DOMAIN s = 1..Len(s)
NovelAssumption ==
    /\ NoPage \notin DOMAIN NextPage /\ Blank \subseteq DOMAIN NextPage
    /\ IsFiniteSet(DOMAIN NextPage) /\ \A c \in Chapters : <<c, 1>> # NoPage
    /\ \A pages \in Directories :
         IsSequence(pages) /\ \A i \in DOMAIN pages : IsSequence(pages[i])
    /\ Limits \subseteq Nat /\ InterruptSave \in BOOLEAN

VARIABLES
    progress,  \* progress.json: [state, done, texts]
    output,    \* the text file: a sequence of [chapter, text]
    pc,        \* the step of download_novel
    list,      \* chapters
    index,     \* the chapter of the loop
    done,      \* completed_urls
    texts,     \* chapter_texts: chapter -> the pages its text was made of
    page, parts, visited   \* locals of download_chapter

vars == <<progress, output, pc, list, index, done, texts, page, parts, visited>>
locals == <<page, parts, visited>>

Running == {"directory", "resume", "loop", "page", "save", "saving", "write", "last"}
NoTexts == <<>>
File(state, d, t) == [state |-> state, done |-> d, texts |-> t]
Valid(p) == p.state = "whole"

Init ==
    /\ progress = File("none", {}, NoTexts)
    /\ output = <<>>
    /\ pc = "idle"
    /\ list = <<>>
    /\ index = 0
    /\ done = {}
    /\ texts = NoTexts
    /\ page = NoPage /\ parts = <<>> /\ visited = {}

-----------------------------------------------------------------------------
(* The elements of s at the positions in K, in their order.                 *)
Kept(s, K) ==
    LET upTo[i \in 0..Len(s)] ==
          IF i = 0 THEN <<>>
          ELSE IF i \in K THEN Append(upTo[i - 1], s[i]) ELSE upTo[i - 1]
    IN  upTo
At(s, K) == Kept(s, K)[Len(s)]

\* Each element once, where it stands first.
Distinct(s) == At(s, {i \in 1..Len(s) : \A j \in 1..(i - 1) : s[j] # s[i]})

(* extract_chapters: the links after the heading of the body, or all links  *)
(* where no chapter stands after it.                                        *)
Targets(links) == [i \in 1..Len(links) |-> links[i].to]
Extract(links) ==
    LET chapters == {i \in 1..Len(links) : links[i].to \in Chapters}
        body == {i \in chapters : \E j \in 1..i : links[j].body}
    IN  Distinct(At(Targets(links), IF body # {} THEN body ELSE chapters))

Joined(pages) ==
    LET upTo[i \in 0..Len(pages)] ==
          IF i = 0 THEN <<>> ELSE upTo[i - 1] \o Extract(pages[i])
    IN  upTo
Join(pages) == Distinct(Joined(pages)[Len(pages)])

(* is_same_chapter_page: only a page of this chapter with a suffix.         *)
FollowUp(first, next) ==
    next # NoPage /\ next[1] = first[1] /\ next[2] > 1

-----------------------------------------------------------------------------
Smaller(a, b) == IF a < b THEN a ELSE b

Start ==
    /\ pc \in {"idle", "done", "failed", "interrupted"}
    /\ pc' = "directory"
    /\ UNCHANGED <<progress, output, list, index, done, texts, locals>>

Fail == pc' = "failed" /\ UNCHANGED <<progress, output, list, index, done, texts, locals>>

(* The directory pages, each of which may fail to load.                     *)
FetchDirectory ==
    /\ pc = "directory"
    /\ \/ Fail
       \/ \E pages \in Directories, limit \in Limits :
            LET found == Join(pages) IN
            /\ found # <<>>
            /\ list' = SubSeq(found, 1, Smaller(limit, Len(found)))
            /\ pc' = "resume"
            /\ UNCHANGED <<progress, output, index, done, texts, locals>>

\* Faulty: the chapters of earlier runs are not taken over.
LoadNothing ==
    /\ pc = "resume"
    /\ done' = {} /\ texts' = NoTexts /\ index' = 1 /\ pc' = "loop"
    /\ UNCHANGED <<progress, output, list, locals>>

(* load_progress: no file is an empty one, a half one raises.               *)
LoadProgress ==
    /\ pc = "resume"
    /\ \/ /\ progress.state # "half"
          /\ done' = progress.done
          /\ texts' = progress.texts
          /\ index' = 1
          /\ pc' = "loop"
          /\ UNCHANGED <<progress, output, list, locals>>
       \/ progress.state = "half" /\ Fail

NextChapter ==
    /\ pc = "loop"
    /\ \/ /\ index <= Len(list)
          /\ list[index] \in done /\ list[index] \in DOMAIN texts
          /\ index' = index + 1
          /\ UNCHANGED <<pc, locals>>
       \/ /\ index <= Len(list)
          /\ ~(list[index] \in done /\ list[index] \in DOMAIN texts)
          /\ page' = <<list[index], 1>>
          /\ parts' = <<>>
          /\ visited' = {}
          /\ pc' = "page"
          /\ UNCHANGED index
       \/ /\ index > Len(list)
          /\ pc' = "last"
          /\ UNCHANGED <<index, locals>>
    /\ UNCHANGED <<progress, output, list, done, texts>>

\* Faulty: pages are not remembered.
FetchPageAgain ==
    /\ pc = "page"
    /\ \/ /\ page # NoPage
          /\ page' = IF FollowUp(<<list[index], 1>>, NextPage[page]) THEN NextPage[page]
                                                                     ELSE NoPage
          /\ UNCHANGED <<pc, done, texts, parts, visited>>
       \/ /\ page = NoPage
          /\ texts' = [c \in DOMAIN texts \cup {list[index]} |->
                         IF c = list[index] THEN parts ELSE texts[c]]
          /\ done' = done \cup {list[index]}
          /\ pc' = "save"
          /\ UNCHANGED locals
    /\ UNCHANGED <<progress, output, list, index>>

(* One turn of the loop of download_chapter.                                *)
FetchPage ==
    /\ pc = "page"
    /\ \/ /\ page \in DOMAIN NextPage \ visited
          /\ visited' = visited \cup {page}
          /\ parts' = IF page \in Blank THEN parts ELSE Append(parts, page)
          /\ page' = IF FollowUp(<<list[index], 1>>, NextPage[page]) THEN NextPage[page]
                                                                     ELSE NoPage
          /\ UNCHANGED <<progress, output, pc, list, index, done, texts>>
       \/ page # NoPage /\ Fail
       \/ /\ page = NoPage
          /\ texts' = [c \in DOMAIN texts \cup {list[index]} |->
                         IF c = list[index] THEN parts ELSE texts[c]]
          /\ done' = done \cup {list[index]}
          /\ pc' = "save"
          /\ UNCHANGED <<progress, output, list, index, locals>>

(* save_progress truncates the file, then writes it.                        *)
OpenProgress ==
    /\ pc = "save"
    /\ progress' = File("half", {}, NoTexts)
    /\ pc' = "saving"
    /\ UNCHANGED <<output, list, index, done, texts, locals>>

SaveProgress ==
    /\ pc = "saving"
    /\ progress' = File("whole", done, texts)
    /\ pc' = "write"
    /\ UNCHANGED <<output, list, index, done, texts, locals>>

(* write_novel_text: the chapters of the list that have a text, in order.   *)
Has(c) == c \in DOMAIN texts /\ texts[c] # <<>>
TextFile ==
    LET told == At(list, {i \in 1..Len(list) : Has(list[i])}) IN
    [i \in 1..Len(told) |-> [chapter |-> told[i], text |-> texts[told[i]]]]

WriteText ==
    /\ pc \in {"write", "last"}
    /\ output' = TextFile
    /\ pc' = IF pc = "write" THEN "loop" ELSE "done"
    /\ index' = IF pc = "write" THEN index + 1 ELSE index
    /\ UNCHANGED <<progress, list, done, texts, locals>>

(* Ctrl-C, between any two steps.                                           *)
Interrupt ==
    /\ pc \in Running
    /\ pc = "saving" => InterruptSave
    /\ pc' = "interrupted"
    /\ output' \in IF pc \in {"write", "last"} THEN {output, <<>>} ELSE {output}
    /\ UNCHANGED <<progress, list, index, done, texts, locals>>

Step == FetchDirectory \/ LoadProgress \/ NextChapter \/ FetchPage
          \/ OpenProgress \/ SaveProgress \/ WriteText

Next == Start \/ Step \/ Interrupt

Spec == Init /\ [][Next]_vars /\ WF_vars(Step)

-----------------------------------------------------------------------------
TypeOK ==
    /\ progress.state \in {"none", "half", "whole"}
    /\ progress.done \subseteq Chapters
    /\ pc \in Running \cup {"idle", "done", "failed", "interrupted"}
    /\ index \in Nat
    /\ \A i \in DOMAIN list : list[i] \in Chapters
    /\ done \subseteq Chapters
    /\ DOMAIN texts \subseteq Chapters

(* The walks through the pages of a chapter: from its first along its own   *)
(* links to the end.  There is one, or none where they lead in a circle.    *)
PagesIn(c) == {p \in DOMAIN NextPage : p[1] = c}
IsWalk(c, w) ==
    /\ w[1] = <<c, 1>>
    /\ \A i \in 2..Len(w) : FollowUp(<<c, 1>>, NextPage[w[i - 1]]) /\ w[i] = NextPage[w[i - 1]]
    /\ ~FollowUp(<<c, 1>>, NextPage[w[Len(w)]])
Walks(c) ==
    {w \in UNION {[1..n -> PagesIn(c)] : n \in 1..Cardinality(PagesIn(c))} : IsWalk(c, w)}

\* Those of them that have text.
WithText(w) == At(w, {i \in 1..Len(w) : w[i] \notin Blank})
PagesOf(c) == WithText(CHOOSE w \in Walks(c) : TRUE)

(* Whatever was interrupted or failed before, a chapter in progress.json is *)
(* a whole one: all its pages, in order, and no page of another chapter     *)
(* (download_22biqu_novel.py 282-301, 364-372).                             *)
SavedAreWhole ==
    Valid(progress) =>
        /\ progress.done = DOMAIN progress.texts
        /\ \A c \in progress.done : Walks(c) # {} /\ progress.texts[c] = PagesOf(c)

(* A run that ends well leaves a text with every chapter of its list that   *)
(* has one, each once, in the order of the directory (304-315, 363-379).    *)
TextIsComplete ==
    pc = "done" =>
        /\ \A i \in 1..Len(list) : Walks(list[i]) # {}
        /\ [i \in DOMAIN output |-> output[i].chapter]
             = At(list, {i \in 1..Len(list) : PagesOf(list[i]) # <<>>})
        /\ \A i \in DOMAIN output : output[i].text = PagesOf(output[i].chapter)
        /\ \A i, j \in DOMAIN output : i # j => output[i].chapter # output[j].chapter

(* What progress.json holds is never lost by a later run, whatever its      *)
(* list or limit: from the load on, the run knows all of it with the same   *)
(* texts, and writes it back (352-354, 364-373).                            *)
KeepsTheSaved ==
    pc \in Running \ {"directory", "resume"} /\ Valid(progress) =>
        /\ progress.done \subseteq done
        /\ \A c \in progress.done : c \in DOMAIN texts /\ texts[c] = progress.texts[c]

(* Every run ends, also where the pages of a chapter lead in a circle       *)
(* (292-293).                                                               *)
RunEnds == (pc \in Running) ~> (pc \notin Running)

(* "已中断；下次重跑会根据 progress.json 继续。" (414: interrupted; the next run       *)
(* goes on from progress.json): what an interruption leaves can be loaded.  *)
NextRunGoesOn == pc = "interrupted" => progress.state # "half"
=============================================================================
