----------------------------- MODULE ElfObject -----------------------------
(***************************************************************************)
(* elfio.hpp and elfio_segment.hpp: elfio objects over the files they are   *)
(* loaded from and saved to.  Sections and segments keep a pointer to the   *)
(* stream they were loaded from; only the object that called load(file)     *)
(* owns it, and only as long as it has not loaded, or been destroyed, again.*)
(*                                                                         *)
(* The NULL section and the section of names are left out: names says       *)
(* whether they are there.  ElfSection models the edits of one section and  *)
(* ElfLayout the places save() gives them; here they lie one after the      *)
(* other.                                                                   *)
(*                                                                         *)
(* Every call is allowed at any time.  What an object does not survive is   *)
(* noted in risk, an observation that decides nothing:                      *)
(*   "stream"  its lazy parts lost their stream or their place in the file: *)
(*             it was moved, saved, loaded again from a missing file, or    *)
(*             somebody saved over its file; or a segment without bytes was *)
(*             given a section;                                             *)
(*   "names"   what it loaded last was not an ELF file with sections.       *)
(***************************************************************************)
EXTENDS Integers, Sequences, FiniteSets

CONSTANTS
    Objs,     \* the elfio objects
    Files,    \* names of files
    Disk,     \* what the files hold at first: file -> a content, or Missing
    Missing, NoStream,
    Texts,    \* what sections hold: that of the files, "none", "empty", "new", "hole", "junk"
    LazyModes,\* the values callers give is_lazy
    MaxParts, \* bound: sections that are added; sections and segments that are asked for
    MaxSaves  \* bound: calls of save

(* A file that an ELF file can be: a place holds one thing, segments list    *)
(* the sections they span, which an empty one has no bytes for.             *)
SoundFile(c) ==
    /\ c.len \in Nat
    /\ c.secs \in Seq([off : Nat, size : Nat, bytes : Texts])
    /\ c.segs \in Seq([off : Nat, size : Nat, list : Seq(Nat)])
    /\ \A i, k \in DOMAIN c.secs :
         /\ c.secs[i].off = c.secs[k].off /\ c.secs[i].size = c.secs[k].size /\ c.secs[i].size > 0
         => c.secs[i].bytes = c.secs[k].bytes
    /\ \A g \in DOMAIN c.segs : \A k \in DOMAIN c.segs[g].list :
         /\ c.segs[g].list[k] \in DOMAIN c.secs
         /\ c.segs[g].size = 0 => c.secs[c.segs[g].list[k]].size = 0

ObjectAssumption ==
    /\ IsFiniteSet(Objs) /\ NoStream \notin [id : Nat, file : Files]
    /\ Disk = [f \in Files |-> Disk[f]]
    /\ \A f \in Files : Disk[f] # Missing => SoundFile(Disk[f])
    /\ {"none", "empty", "new", "hole", "segment", "junk"} \subseteq Texts
    /\ LazyModes \subseteq BOOLEAN /\ MaxParts \in Nat /\ MaxSaves \in Nat

VARIABLES
    objs,  \* object -> [alive, header, parts, names, secs, segs, own, risk]
    fs,    \* the files, as Disk
    crash, \* {[why, by]} once a stream that is gone was read ("stream") or sections_
           \* was indexed where nothing is ("names"), else {} (observation)
    saves

vars == <<objs, fs, crash, saves>>

-----------------------------------------------------------------------------
(* Contents of files: [kind, len, secs, segs], kind "elf", "cut" (the header *)
(* is not all there), "entries" (section headers too short) or "other";      *)
(* bytes is what a section holds.                                            *)
HeaderLen == 1
FileBytes(c, off, size) ==
    IF \E i \in DOMAIN c.secs : c.secs[i].off = off /\ c.secs[i].size = size
      THEN (CHOOSE s \in {c.secs[i] : i \in DOMAIN c.secs} : s.off = off /\ s.size = size).bytes
      ELSE "junk"

\* The stream src is that of some object.
Live(src) == \E o \in Objs : objs[o].own # NoStream /\ objs[o].own.id = src

\* What reading off and size from it gives; "none" for a short read.
Streamed(src, off, size) ==
    LET f == (CHOOSE o \in Objs : objs[o].own # NoStream /\ objs[o].own.id = src)
        file == objs[f].own.file
    IN  IF fs[file] = Missing \/ off + size > fs[file].len THEN "none"
        ELSE FileBytes(fs[file], off, size)

Outside(p) == p.off > p.ssize \/ p.size > p.ssize - p.off

\* section_impl::load_data, where the stream gives got.
SectionLoaded(s, got) ==
    LET holds == IF s.bytes # "none" THEN s.bytes ELSE IF s.size = 0 THEN "empty" ELSE got
    IN  IF Outside(s) \/ holds = "none" THEN [s EXCEPT !.can = FALSE]
        ELSE [s EXCEPT !.loaded = TRUE, !.bytes = holds]

\* section_impl::get_data: whether it asks load_data.
Asked(s) == ~s.loaded /\ s.can

Reads(p) == ~Outside(p) /\ p.bytes = "none" /\ p.size > 0

\* segment_impl::load_data.
SegmentLoaded(g, got) ==
    IF g.size = 0 THEN g
    ELSE IF Outside(g) \/ got = "none" THEN [g EXCEPT !.bytes = "none"]
    ELSE [g EXCEPT !.loaded = TRUE, !.bytes = got]

SegmentReads(g) == ~g.loaded /\ g.size > 0 /\ ~Outside(g)

-----------------------------------------------------------------------------
Gone == [alive |-> FALSE, header |-> FALSE, parts |-> FALSE, names |-> FALSE,
         secs |-> <<>>, segs |-> <<>>, own |-> NoStream, risk |-> {}]

\* elfio(): create() with no stream.
Constructed == [Gone EXCEPT !.alive = TRUE, !.header = TRUE, !.parts = TRUE, !.names = TRUE]

Init ==
    /\ objs = [o \in Objs |-> Constructed]
    /\ fs = Disk /\ crash = {} /\ saves = 0

Lazily(ob) ==
    (\E i \in DOMAIN ob.secs : ob.secs[i].lazy) \/ (\E g \in DOMAIN ob.segs : ob.segs[g].lazy)
MayCall(o) == objs[o].alive /\ objs[o].parts /\ crash = {}
Crash(why, o) == {[why |-> why, by |-> o]}

Noted(ob, why, happened) == [ob EXCEPT !.risk = IF happened THEN @ \cup {why} ELSE @]

Create(o) ==
    /\ MayCall(o)
    /\ objs' = [objs EXCEPT ![o] = [@ EXCEPT !.header = TRUE, !.names = TRUE,
                                              !.secs = <<>>, !.segs = <<>>, !.risk = {}]]
    /\ UNCHANGED <<fs, crash, saves>>

\* load(stream) begins by dropping what was there.
Cleared(ob) == [ob EXCEPT !.secs = <<>>, !.segs = <<>>, !.names = FALSE, !.risk = {"names"}]

\* The streams that an object owns or reads, and one that none does.
Streams(ob) ==
    (IF ob.own = NoStream THEN {} ELSE {ob.own.id})
      \cup {ob.secs[i].src : i \in DOMAIN ob.secs} \cup {ob.segs[i].src : i \in DOMAIN ob.segs}

Fresh ==
    LET used == UNION {Streams(objs[p]) : p \in Objs}
    IN  CHOOSE n \in 1..(1 + Cardinality(used)) : n \notin used

\* load_sections, one of them, from a content c; lazily or at once.
FromFile(c, s, lazy, src) ==
    LET raw == [off |-> s.off, size |-> s.size, bytes |-> "none", loaded |-> FALSE,
                can |-> TRUE, lazy |-> lazy, src |-> src, ssize |-> c.len, meant |-> s.bytes]
        got == IF s.off + s.size > c.len THEN "none" ELSE FileBytes(c, s.off, s.size)
    IN  IF lazy THEN raw ELSE SectionLoaded(raw, got)

SegmentFromFile(c, g, lazy, src) ==
    LET raw == [off |-> g.off, size |-> g.size, bytes |-> "none", loaded |-> FALSE,
                lazy |-> lazy, src |-> src, ssize |-> c.len,
                list |-> IF c.kind = "entries" THEN <<>> ELSE g.list]
        got == IF g.off + g.size > c.len THEN "none" ELSE "segment"
    IN  IF lazy THEN raw ELSE SegmentLoaded(raw, got)

\* Whether segment_impl::load succeeds.
SegmentGood(c, g, lazy) == lazy \/ g.size = 0 \/ g.off + g.size <= c.len

\* load_segments stops at the first that cannot be loaded.
GoodSegments(c, lazy) ==
    LET bad == {i \in DOMAIN c.segs : ~SegmentGood(c, c.segs[i], lazy)}
    IN  IF bad = {} THEN c.segs
        ELSE SubSeq(c.segs, 1, (CHOOSE i \in bad : \A k \in bad : i <= k) - 1)

\* load(stream) from a file that holds c.
Loaded(ob, c, lazy, src) ==
    LET base == Cleared(ob)
        secs == IF c.kind = "entries" THEN <<>>
                ELSE [i \in DOMAIN c.secs |-> FromFile(c, c.secs[i], lazy, src)]
        good == GoodSegments(c, lazy)
        segs == [i \in DOMAIN good |-> SegmentFromFile(c, good[i], lazy, src)]
    IN  IF c.kind \in {"other", "cut"} THEN base
        ELSE [base EXCEPT !.header = TRUE, !.names = c.kind = "elf",
                          !.secs = secs, !.segs = segs,
                          !.risk = IF c.kind = "elf" THEN {} ELSE {"names"}]

\* load(file_name, is_lazy): the stream of an earlier load is closed first.
LoadFile(o, f, lazy) ==
    /\ MayCall(o)
    /\ LET src == Fresh
           ob == IF fs[f] = Missing THEN Noted(objs[o], "stream", Lazily(objs[o]))
                                    ELSE Loaded(objs[o], fs[f], lazy, src)
       IN  objs' = [objs EXCEPT ![o] =
                     [ob EXCEPT !.own = IF lazy /\ fs[f] # Missing
                                          THEN [id |-> src, file |-> f] ELSE NoStream]]
    /\ UNCHANGED <<fs, crash, saves>>

-----------------------------------------------------------------------------
\* section->get_data()
GetData(o, i) ==
    /\ MayCall(o) /\ i \in DOMAIN objs[o].secs
    /\ LET s == objs[o].secs[i] IN
       /\ Asked(s)
       /\ IF Reads(s) /\ ~Live(s.src)
            THEN crash' = Crash("stream", o) /\ UNCHANGED objs
            ELSE /\ UNCHANGED crash
                 /\ objs' = [objs EXCEPT ![o].secs[i] =
                      SectionLoaded(s, IF Reads(s) THEN Streamed(s.src, s.off, s.size) ELSE "none")]
    /\ UNCHANGED <<fs, saves>>

\* section->free_data()
FreeData(o, i) ==
    /\ MayCall(o) /\ i \in DOMAIN objs[o].secs /\ objs[o].secs[i].lazy
    /\ objs' = [objs EXCEPT ![o].secs[i] = [@ EXCEPT !.bytes = "none", !.loaded = FALSE]]
    /\ UNCHANGED <<fs, crash, saves>>

\* segment->get_data()
GetSegmentData(o, g) ==
    /\ MayCall(o) /\ g \in DOMAIN objs[o].segs
    /\ LET s == objs[o].segs[g] IN
       /\ ~s.loaded
       /\ IF SegmentReads(s) /\ ~Live(s.src)
            THEN crash' = Crash("stream", o) /\ UNCHANGED objs
            ELSE /\ UNCHANGED crash
                 /\ objs' = [objs EXCEPT ![o].segs[g] = SegmentLoaded(s,
                      IF SegmentReads(s) /\ Streamed(s.src, s.off, s.size) # "none"
                        THEN "segment" ELSE "none")]
    /\ UNCHANGED <<fs, saves>>

\* segment->free_data()
FreeSegmentData(o, g) ==
    /\ MayCall(o) /\ g \in DOMAIN objs[o].segs /\ objs[o].segs[g].lazy
    /\ objs' = [objs EXCEPT ![o].segs[g] = [@ EXCEPT !.bytes = "none", !.loaded = FALSE]]
    /\ UNCHANGED <<fs, crash, saves>>

\* sections.add(name) and set_data on it.
AddSection(o) ==
    /\ MayCall(o) /\ objs[o].header /\ Len(objs[o].secs) < MaxParts
    /\ IF objs[o].names
         THEN /\ UNCHANGED crash
              /\ objs' = [objs EXCEPT ![o].secs = Append(@,
                   [off |-> 0, size |-> 1, bytes |-> "new", loaded |-> FALSE, can |-> TRUE,
                    lazy |-> FALSE, src |-> 0, ssize |-> 1, meant |-> "new"])]
         ELSE crash' = Crash("names", o) /\ UNCHANGED objs
    /\ UNCHANGED <<fs, saves>>

\* segment->add_section(section)
AddToSegment(o, g, i) ==
    /\ MayCall(o) /\ g \in DOMAIN objs[o].segs /\ i \in DOMAIN objs[o].secs
    /\ LET ob == objs[o]
           s == ob.segs[g]
       IN  /\ \A k \in DOMAIN s.list : s.list[k] # i
           /\ objs' = [objs EXCEPT ![o] =
                Noted([ob EXCEPT !.segs[g].list = Append(s.list, i)], "stream", ~s.loaded)]
    /\ UNCHANGED <<fs, crash, saves>>

-----------------------------------------------------------------------------
\* The move constructor and the move assignment: other keeps only its stream.
MovedFrom(ob) == [Gone EXCEPT !.alive = TRUE, !.own = ob.own]

Move(to, from) ==
    /\ crash = {} /\ to # from /\ objs[from].alive /\ objs[from].parts
    /\ objs' = [objs EXCEPT
         ![to] = Noted([objs[from] EXCEPT !.own = IF objs[to].alive THEN objs[to].own ELSE NoStream],
                       "stream", Lazily(objs[from])),
         ![from] = MovedFrom(objs[from])]
    /\ UNCHANGED <<fs, crash, saves>>

Destroy(o) ==
    /\ crash = {} /\ objs[o].alive
    /\ objs' = [objs EXCEPT ![o] = Gone]
    /\ UNCHANGED <<fs, crash, saves>>

Construct(o) ==
    /\ crash = {} /\ ~objs[o].alive
    /\ objs' = [objs EXCEPT ![o] = Constructed]
    /\ UNCHANGED <<fs, crash, saves>>

-----------------------------------------------------------------------------
\* The bytes of the sections in S.
Room(secs, S) == Cardinality(UNION {{i} \X (1..secs[i].size) : i \in S})

\* Faulty: current_file_pos is not moved on.
OffsetSame(secs, i) == HeaderLen

OffsetIn(secs, i) == HeaderLen + Room(secs, 1..(i - 1))

\* The sections at their new places; those that hold bytes are asked for them.
Placed(secs) ==
    [i \in DOMAIN secs |->
       LET s == [secs[i] EXCEPT !.off = OffsetIn(secs, i)]
       IN  IF s.bytes # "none" /\ s.size > 0 /\ Asked(s) THEN SectionLoaded(s, "none") ELSE s]

\* A segment takes the place of its first section and the room of all of them.
PlacedSegment(g, secs) ==
    [g EXCEPT !.off = IF g.list = <<>> THEN HeaderLen ELSE OffsetIn(secs, g.list[1]),
              !.size = Room(secs, {g.list[k] : k \in DOMAIN g.list})]

\* What is in the file after the save.
Written(ob) ==
    [kind |-> "elf", len |-> HeaderLen + Room(ob.secs, DOMAIN ob.secs),
     secs |-> [i \in DOMAIN ob.secs |->
                 [off |-> ob.secs[i].off, size |-> ob.secs[i].size,
                  bytes |-> IF ob.secs[i].bytes = "none" THEN "hole" ELSE ob.secs[i].bytes]],
     segs |-> [g \in DOMAIN ob.segs |->
                 [off |-> ob.segs[g].off, size |-> ob.segs[g].size, list |-> ob.segs[g].list]]]

Laid(ob) ==
    LET secs == Placed(ob.secs)
    IN  [ob EXCEPT !.secs = secs,
                   !.segs = [g \in DOMAIN ob.segs |-> PlacedSegment(ob.segs[g], secs)]]

\* The file of an object without a header is opened, and left empty.
Empty == [kind |-> "other", len |-> 0, secs |-> <<>>, segs |-> <<>>]

\* save(file_name)
Save(o, f) ==
    /\ objs[o].alive /\ crash = {} /\ saves < MaxSaves
    /\ saves' = saves + 1
    /\ LET ob == objs[o]
           laid == IF ob.header THEN Laid(ob) ELSE ob
           reads(p) == objs[p].own # NoStream /\ objs[p].own.file = f
       IN  /\ fs' = [fs EXCEPT ![f] = IF ob.header THEN Written(laid) ELSE Empty]
           /\ objs' = [p \in Objs |-> Noted(IF p = o THEN laid ELSE objs[p], "stream",
                                            Lazily(objs[p]) /\ (p = o \/ reads(p)))]
    /\ UNCHANGED crash

Next ==
    \/ \E o \in Objs : Create(o) \/ Destroy(o) \/ Construct(o) \/ AddSection(o)
    \/ \E o \in Objs, f \in Files, lazy \in LazyModes : LoadFile(o, f, lazy)
    \/ \E o \in Objs, i \in 1..MaxParts : GetData(o, i) \/ FreeData(o, i)
    \/ \E o \in Objs, g \in 1..MaxParts : GetSegmentData(o, g) \/ FreeSegmentData(o, g)
    \/ \E o \in Objs, g \in 1..MaxParts, i \in 1..MaxParts : AddToSegment(o, g, i)
    \/ \E a, b \in Objs : Move(a, b)
    \/ \E o \in Objs, f \in Files : Save(o, f)

Spec == Init /\ [][Next]_vars

-----------------------------------------------------------------------------
\* Objects, sections, segments and files are of their shapes.
TypeOK ==
    /\ crash \subseteq [why : {"stream", "names"}, by : Objs] /\ saves \in 0..MaxSaves
    /\ \A o \in Objs :
         /\ objs[o].header => objs[o].parts
         /\ objs[o].names => objs[o].header
         /\ objs[o].own # NoStream => objs[o].own.file \in Files
         /\ \A i \in DOMAIN objs[o].secs : objs[o].secs[i].off \in Nat /\ objs[o].secs[i].size \in Nat
         /\ \A g \in DOMAIN objs[o].segs :
              \A k \in DOMAIN objs[o].segs[g].list : objs[o].segs[g].list[k] \in DOMAIN objs[o].secs
    /\ \A f \in Files : fs[f] # Missing => fs[f].len \in Nat

(* get_data() goes to a stream that is gone only in an object of which that *)
(* is known, never because of what was done to another: what was loaded at  *)
(* once needs no stream any more, what is loaded lazily is read while its   *)
(* object has it; and sections_ is indexed where nothing is only after the  *)
(* object loaded something without.                                         *)
NoCrash == \A c \in crash : c.why \in objs[c.by].risk

(* What get_data() gives of a section is what the file held when it was     *)
(* loaded, whatever was done to other objects since.                        *)
ReadsRight ==
    \A o \in Objs : "stream" \notin objs[o].risk =>
      \A i \in DOMAIN objs[o].secs :
        LET s == objs[o].secs[i] IN s.bytes \in {"none", "empty", s.meant}

\* What an object holds of a file is from one load.
OneLoad ==
    \A o \in Objs : \A i, k \in DOMAIN objs[o].secs :
      LET a == objs[o].secs[i]
          b == objs[o].secs[k]
      IN  a.src # 0 /\ b.src # 0 => a.src = b.src

\* No two objects hold the sections of one load.
NotShared ==
    \A o, p \in Objs :
      o # p => {objs[o].secs[i].src : i \in DOMAIN objs[o].secs} \cap
               {objs[p].secs[i].src : i \in DOMAIN objs[p].secs} \subseteq {0}
=============================================================================
