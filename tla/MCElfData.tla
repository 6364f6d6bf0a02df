----------------------------- MODULE MCElfData -----------------------------
(* Sections, objects and archives for TLC: the files they are read from.    *)
EXTENDS ElfData, TLC

Symmetric == Permutations(Objs) \cup Permutations(Accs)

(* A file of six bytes with a section in its middle, one at its end, one    *)
(* that is cut, an empty one and one without data.                          *)
SectionIn(offset, sz, nobits) ==
    [bytes |-> <<"a", "b", "z", "b", "a", "z">>, offset |-> offset, size |-> sz, nobits |-> nobits]
SectionFiles == {SectionIn(2, 2, FALSE), SectionIn(1, 5, FALSE), SectionIn(4, 4, FALSE),
                 SectionIn(6, 0, FALSE), SectionIn(3, 4, TRUE)}
Settings == {<<"a">>, <<"b", "a">>}
Added == {<<"b">>, <<>>}

(* A file with a section, one beyond its end and a segment without bytes;   *)
(* and a name under which there is none yet.                                *)
MCDisk == [f \in DiskFiles |->
  CASE f = "a" -> [kind |-> "elf", len |-> 3,
                   secs |-> <<[off |-> 2, size |-> 1, bytes |-> "text"],
                              [off |-> 9, size |-> 1, bytes |-> "lost"]>>,
                   segs |-> <<[off |-> 2, size |-> 0, list |-> <<>>]>>]
    [] f = "b" -> Missing]

(* Names at, below and over the 16 characters of the header; contents of    *)
(* even and odd size; two archives with symbols and a long name, one that   *)
(* is full and one that members can be added to, and broken ones: a cut     *)
(* header, a cut directory of names, a cut symbol table, a place outside    *)
(* the directory, and, where the archives are saved to, a size that is no   *)
(* number.                                                                  *)
MCNameLength == ("s15" :> 15) @@ ("l16" :> 16) @@ ("l21" :> 21)
MCSymbolLength == ("x" :> 1) @@ ("yy" :> 2)
MCSize == ("odd" :> 5) @@ ("even" :> 4)

Entry(kind, short, sz, content, list, names) ==
    [kind |-> kind, short |-> short, size |-> sz, data |-> content,
     table |-> list, names |-> names, bad |-> FALSE, cut |-> FALSE]
Short(n) == [long |-> FALSE, name |-> n, at |-> 0]
Long(place) == [long |-> TRUE, name |-> NoName, at |-> place]
Mem(short, c) == Entry("member", short, MCSize[c], c, <<>>, <<>>)
OneName(n) == Entry("names", Short(NoName), MCNameLength[n] + 2, Garbage, <<>>, <<n>>)
OneSymbol(s, n) ==
    Entry("symbols", Short(NoName), 10, Garbage, <<[symbol |-> s, at |-> n]>>, <<>>)
File(magic, entries) == [magic |-> magic, entries |-> entries]

\* 8 + (60 + 10) + (60 + 18) = 156; the first member takes 60 + 6.
Whole == File(TRUE, <<OneSymbol("x", 222), OneName("l16"), Mem(Short("s15"), "odd"), Mem(Long(0), "even")>>)
One == File(TRUE, <<OneSymbol("x", 156), OneName("l16"), Mem(Long(0), "even")>>)
CutHeader == File(TRUE, <<OneSymbol("x", 78), Mem(Short("s15"), "odd"),
                             Entry("part", Short(NoName), 0, Garbage, <<>>, <<>>)>>)
Outside == File(TRUE, <<OneName("l16"), Mem(Long(18), "even")>>)
BadSize == File(TRUE, <<[OneSymbol("x", 8) EXCEPT !.bad = TRUE]>>)

CutNames == File(TRUE, <<[OneName("l16") EXCEPT !.cut = TRUE]>>)
CutSymbols == File(TRUE, <<Mem(Short("s15"), "odd"), [OneSymbol("x", 8) EXCEPT !.cut = TRUE]>>)

MCGiven == ("whole" :> Whole) @@ ("one" :> One) @@ ("cutnames" :> CutNames)
    @@ ("part" :> CutHeader) @@ ("outside" :> Outside) @@ ("cutsymbols" :> CutSymbols)
    @@ ("out" :> BadSize)

(* Tables of each kind, without entries and with some, in either byte       *)
(* order; one of notes whose first has a name and a description that are    *)
(* padded, and one whose first has no name; .dynamic behind whose end there *)
(* is room; versions where .dynamic gives their number before its end, and  *)
(* only behind it.                                                          *)
Cells == 0..255
MCSwap == [v \in Cells |-> (v % 16) * 16 + v \div 16]
Dyn(t, v) == [tag |-> t, value |-> v]
NoteOf(t, n, d) == [type |-> t, name |-> n, desc |-> d]
At(p) == [i \in DOMAIN p |-> [at |-> p[i][1], entry |-> p[i][2]]]
TableOf(kind, foreign, sized, dynamic, data_, entries) ==
    [kind |-> kind, foreign |-> foreign, sized |-> sized, dynamic |-> dynamic, cells |-> data_, table |-> At(entries)]
Empty(kind) == TableOf(kind, FALSE, FALSE, <<>>, <<>>, <<>>)
Versions(dynamic) ==
    TableOf("versions", FALSE, FALSE, dynamic, <<5, 3, 11, 21, 22, 0, 3, 12, 23>>,
            << <<0, [file |-> 11, name |-> 21]>>, <<5, [file |-> 12, name |-> 23]>> >>)

MCLoaded ==
    {Empty(k) : k \in {"array", "versym", "dynamic", "note", "modinfo"}} \cup
    {TableOf("array", TRUE, FALSE, <<>>, <<16>>, << <<0, 1>> >>),
     TableOf("versym", FALSE, FALSE, <<>>, <<0, 2>>, << <<0, 0>>, <<1, 2>> >>),
     TableOf("dynamic", FALSE, TRUE, <<>>, <<>>, <<>>),
     TableOf("dynamic", TRUE, TRUE, <<>>, <<16, 80>>, << <<0, Dyn(1, 5)>> >>),
     TableOf("dynamic", TRUE, TRUE, <<>>, <<16, 80, 0, 0>>, << <<0, Dyn(1, 5)>>, <<2, Dyn(0, 0)>> >>),
     TableOf("note", TRUE, FALSE, <<>>,
             <<64, 0, 0, 0, 32, 0, 0, 0, 16, 0, 0, 0, 71, 78, 85, 0, 1, 2, 0, 0>>,
             << <<0, NoteOf(1, <<71, 78, 85>>, <<1, 2>>)>> >>),
     TableOf("note", FALSE, FALSE, <<>>,
             <<0, 0, 0, 0, 2, 0, 0, 0, 1, 0, 0, 0, 1, 2, 0, 0,
               2, 0, 0, 0, 0, 0, 0, 0, 3, 0, 0, 0, 65, 0, 0, 0>>,
             << <<16, NoteOf(3, <<65>>, <<>>)>> >>),
     TableOf("modinfo", FALSE, FALSE, <<>>, <<0, 97, 61, 98, 0, 0, 61, 0>>,
             << <<1, [field |-> <<97>>, value |-> <<98>>]>>, <<6, [field |-> <<>>, value |-> <<>>]>> >>),
     Versions(<<Dyn(1, 5), Dyn(9, 2), Dyn(0, 0), Dyn(9, 1)>>),
     Versions(<<Dyn(1, 5), Dyn(0, 0), Dyn(9, 1)>>)}

MCEntries == {Dyn(0, 1), Dyn(1, 3)}
MCNotes == {NoteOf(1, <<>>, <<>>), NoteOf(2, <<65, 66, 67>>, <<7, 8, 9, 10, 11>>)}
MCAttributes == {[field |-> <<97>>, value |-> <<61, 98>>], [field |-> <<>>, value |-> <<>>]}
=============================================================================
