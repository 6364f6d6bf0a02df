----------------------------- MODULE MCElfWrite -----------------------------
(* Objects and symbol tables for TLC.                                       *)
EXTENDS ElfWrite, TLC

-----------------------------------------------------------------------------
(* Sections with a mix of types, sizes, alignments and addresses; segments  *)
(* nested, side by side, of the program headers, at offset 0.               *)
SecOf(type, size, align, addrSet, addr) ==
    [type |-> type, size |-> size, align |-> align, addr |-> addr, addrSet |-> addrSet,
     offset |-> 0, alloc |-> TRUE, tls |-> FALSE]
SegOf(type, align, vaddr, offsetSet, list) ==
    [type |-> type, align |-> align, vaddr |-> vaddr, filesz |-> 0, memsz |-> 0, offset |-> 0,
     offsetSet |-> offsetSet, list |-> list]

MCSections == 1..3
MCSegments == 1..2

\* The segment's address is 32; a section set at 40 or 96 comes behind it.
First == {SecOf("bits", 3, 4, FALSE, 0), SecOf("bits", 3, 4, TRUE, 32),
          SecOf("bits", 2, 1, TRUE, 96)}
Second == {SecOf("bits", 5, 8, FALSE, 0), SecOf("bits", 5, 8, TRUE, 40),
           SecOf("bits", 5, 1, TRUE, 100), SecOf("bits", 0, 1, TRUE, 40),
           SecOf("nobits", 4, 8, FALSE, 0), SecOf("nobits", 4, 8, TRUE, 64)}
Third == {SecOf("bits", 2, 2, FALSE, 0), SecOf("null", 0, 0, FALSE, 0),
          SecOf("nobits", 6, 4, FALSE, 0), SecOf("bits", 2, 2, TRUE, 104)}

One == {SegOf("load", 16, 32, FALSE, l) : l \in {<<1, 2>>, <<1, 2, 3>>, <<1>>}}
    \cup {SegOf("load", 16, 0, TRUE, <<1, 2>>)}
Two == {SegOf("load", 0, 40, FALSE, <<2>>), SegOf("tls", 4, 36, FALSE, <<2>>),
        SegOf("phdr", 4, 0, FALSE, <<>>), SegOf("load", 8, 104, FALSE, <<3>>),
        SegOf("load", 8, 0, TRUE, <<>>)}

ObjectsOf(firsts, seconds, thirds, ones, twos) ==
    {[sec |-> (1 :> a) @@ (2 :> b) @@ (3 :> c), seg |-> (1 :> g) @@ (2 :> h)] :
       a \in firsts, b \in seconds, c \in thirds, g \in ones, h \in twos}

\* Sections without data come last in their segment, as linkers put them.
NoBitsLast(o) ==
    \A g \in MCSegments : \A i \in DOMAIN o.seg[g].list :
      o.sec[o.seg[g].list[i]].type = "nobits" =>
        \A k \in (i + 1)..Len(o.seg[g].list) : o.sec[o.seg[g].list[k]].type # "bits"

MCObjects == {o \in ObjectsOf(First, Second, Third, One, Two) : NoBitsLast(o)}
\* Fewer objects, for the runs that edit them.
MCEdited == {o \in MCObjects : o.sec[1].align = 4 /\ o.sec[3].type = "bits"
                               /\ o.sec[2].size \in {0, 5}}

-----------------------------------------------------------------------------
(* An empty table, one whose second symbol has no name, and one of three    *)
(* symbols with either hash table: "a" and "b" share a bucket, "c" passes   *)
(* the Bloom filter without being there.                                    *)
MCHashOf == ("a" :> 2) @@ ("b" :> 4) @@ ("c" :> 5)
MCNames == DOMAIN MCHashOf

S(name, value, bind, id) == [name |-> name, value |-> value, bind |-> bind, id |-> id]
NoSymbol == [name |-> "none", value |-> 0, bind |-> "local", id |-> 0]
Three == <<NoSymbol, S("a", 8, "global", 1), S("b", 4, "local", 2)>>

SysV == [kind |-> "sysv", nbucket |-> 2, nchain |-> 3, bucket |-> (0 :> 1) @@ (1 :> 0),
         chain |-> (0 :> 0) @@ (1 :> 2) @@ (2 :> 0)]
Gnu == [kind |-> "gnu", nbucket |-> 2, symoffset |-> 1, nbloom |-> 1, shift |-> 2,
        bloom |-> (0 :> {0, 1, 2, 4, 5}), bucket |-> (0 :> 1) @@ (1 :> 0),
        chain |-> (1 :> 2) @@ (2 :> 5)]

MCLoaded == {[syms |-> <<>>, hash |-> NoHash, rela |-> TRUE],
             [syms |-> <<NoSymbol, S("a", 8, "global", 1), S("none", 4, "local", 2)>>,
              hash |-> NoHash, rela |-> FALSE],
             [syms |-> Three, hash |-> SysV, rela |-> FALSE],
             [syms |-> Three, hash |-> Gnu, rela |-> TRUE]}
=============================================================================
