----------------------------- MODULE ElfSymbols -----------------------------
(***************************************************************************)
(* elfio_symbols.hpp and elfio_relocation.hpp: one symbol table, its hash   *)
(* table and a relocation section that refers to its symbols by index.      *)
(* Symbols are added, found by name, and arranged with the locals in front  *)
(* while the callback keeps the relocations up to date.                     *)
(*                                                                         *)
(* Indices count from 0; syms[i] is symbol i - 1.  Names stand for their    *)
(* places in the string table, which ElfSection models.                     *)
(***************************************************************************)
EXTENDS Integers, Sequences, FiniteSets

CONSTANTS
    Names,     \* the names of symbols
    HashOf,    \* name -> the hash of it, by either function
    Loaded,    \* what is loaded: [syms, hash, rela], hash a table or NoHash,
               \* rela TRUE if the relocation section holds addends (SHT_RELA)
    NoHash, NoName,
    Values, Offsets, Addends,
    Types,     \* the types of relocations that are made
    Callback,  \* TRUE: arrange_local_symbols is given swap_symbols
    TypeSpan,  \* the values of a relocation type: 2^8 or 2^32
    InfoSpan,  \* the values of r_info: 2^32 or 2^64
    WordBits,  \* the bits of a word of the Bloom filter: 32 or 64
    MaxSymbols, MaxRelocs  \* bounds

SymbolsAssumption ==
    /\ Names = DOMAIN HashOf /\ NoName \notin Names
    /\ Callback \in BOOLEAN
    /\ TypeSpan \in Nat /\ TypeSpan > 10 /\ Types \subseteq 0..(TypeSpan - 1)
    /\ Values \subseteq Nat
    /\ InfoSpan \in Nat /\ MaxSymbols \in Nat /\ MaxSymbols * TypeSpan <= InfoSpan
    /\ \A n \in Names : HashOf[n] \in Nat

(* A table that is loaded is as an assembler or linker leaves it: the null  *)
(* symbol in front, the others with or without names, numbered as they come.*)
IsTable(s) ==
    /\ s \in Seq([name : Names \cup {NoName}, value : Nat, bind : {"local", "global"}, id : Nat])
    /\ Len(s) <= MaxSymbols
    /\ \A i \in DOMAIN s :
         /\ s[i].id = i - 1
         /\ i = 1 => s[i].name = NoName /\ s[i].bind = "local"

(* The chains of a hash table come to an end inside of it: at index 0 in a  *)
(* sysv table, at an entry with the end bit in a gnu table.                 *)
SysvEnds(h) ==
    /\ h.nchain \in Nat /\ h.nchain > 0 /\ h.nbucket \in Nat /\ h.nbucket > 0
    /\ h.bucket \in [0..(h.nbucket - 1) -> 0..(h.nchain - 1)]
    /\ \E left \in [0..(h.nchain - 1) -> 0..(h.nchain - 1)] :
         \A y \in 1..(h.nchain - 1) :
           h.chain[y] \in 0..(h.nchain - 1) /\ left[h.chain[y]] < left[y]

GnuEnds(h) ==
    LET last == h.symoffset + Cardinality(DOMAIN h.chain) - 1 IN
    /\ h.symoffset \in Nat /\ h.nbucket \in Nat /\ h.nbucket > 0
    /\ IsFiniteSet(DOMAIN h.chain) /\ h.chain \in [h.symoffset..last -> Nat]
    /\ DOMAIN h.chain # {} => h.chain[last] % 2 = 1
    /\ \A b \in 0..(h.nbucket - 1) :
         h.bucket[b] >= h.symoffset => h.bucket[b] \in DOMAIN h.chain

ChainsEnd(h) ==
    \/ h.kind = "sysv" /\ SysvEnds(h)
    \/ h.kind = "gnu" /\ GnuEnds(h)

LoadedAssumption ==
    \A o \in Loaded :
      /\ IsTable(o.syms)
      /\ o.hash = NoHash \/ ChainsEnd(o.hash)

VARIABLES
    syms,     \* the symbol section: [name, value, bind, id]
    info,     \* its sh_info
    hash,     \* the hash section
    rela,     \* its type is SHT_RELA
    relocs,   \* the relocation section: [offset, info, addend], with the id meant
    phase,    \* "idle", "arranging"
    first,    \* first_not_local
    arranged, \* nothing was added since it was arranged (observation)
    answer    \* the index the last add_symbol returned (observation)

vars == <<syms, info, hash, rela, relocs, phase, first, arranged, answer>>

Count == Len(syms)
Sym(i) == syms[i + 1]
Local(i) == Sym(i).bind = "local"
NullSymbol == [name |-> NoName, value |-> 0, bind |-> "local", id |-> 0]

Init ==
    /\ \E o \in Loaded : syms = o.syms /\ hash = o.hash /\ rela = o.rela
    /\ info = 0 /\ relocs = <<>> /\ phase = "idle" /\ first = 1
    /\ arranged = FALSE /\ answer = 0

-----------------------------------------------------------------------------
(* add_symbol puts the null symbol in front of the first one.               *)
WithNull(s) == IF s = <<>> THEN <<NullSymbol>> ELSE s

\* What add_symbol leaves; its id is its place in the order of addition.
Added(name, value, bind) ==
    Append(WithNull(syms), [name |-> name, value |-> value, bind |-> bind,
                            id |-> Len(WithNull(syms))])

\* The index of the last symbol, which add_symbol returns.
LastIndex(s) == Len(s) - 1

AddSymbol(name, value, bind) ==
    /\ phase = "idle" /\ Len(WithNull(syms)) < MaxSymbols
    /\ syms' = Added(name, value, bind)
    /\ answer' = LastIndex(syms')
    /\ arranged' = FALSE
    /\ UNCHANGED <<info, hash, rela, relocs, phase, first>>

-----------------------------------------------------------------------------
(* r_info holds the symbol and the type.                                    *)
R_INFO(sym, type) == (sym * TypeSpan + type) % InfoSpan
SymOf(r) == r.info \div TypeSpan
TypeOf(r) == r.info % TypeSpan
AddendOf(r) == IF rela THEN r.addend ELSE 0

Entry(offset, sym, type, addend, meant) ==
    [offset |-> offset, info |-> R_INFO(sym, type), addend |-> addend, meant |-> meant]

\* add_entry for a symbol that is there, in the form the section holds.
AddEntry(offset, sym, type, addend) ==
    /\ phase = "idle" /\ sym < Count /\ Len(relocs) < MaxRelocs
    /\ relocs' = Append(relocs, Entry(offset, sym, type, addend, Sym(sym).id))
    /\ UNCHANGED <<syms, info, hash, rela, phase, first, arranged, answer>>

(* add_entry that adds the symbol, too; it makes entries without an addend, *)
(* which are of the wrong size for a section that holds addends.            *)
AddNamed(name, value, offset, type) ==
    /\ phase = "idle" /\ ~rela
    /\ Len(WithNull(syms)) < MaxSymbols /\ Len(relocs) < MaxRelocs
    /\ syms' = Added(name, value, "global")
    /\ relocs' = Append(relocs, Entry(offset, LastIndex(syms'), type, 0, Len(syms') - 1))
    /\ arranged' = FALSE
    /\ UNCHANGED <<info, hash, rela, phase, first, answer>>

\* Faulty: the entries of the second symbol are not changed.
SwappedHalf(r, a, b) ==
    IF SymOf(r) = a THEN [r EXCEPT !.info = R_INFO(b, TypeOf(r))] ELSE r

\* swap_symbols, on one entry.
Swapped(r, a, b) ==
    IF SymOf(r) = a THEN [r EXCEPT !.info = R_INFO(b, TypeOf(r))]
    ELSE IF SymOf(r) = b THEN [r EXCEPT !.info = R_INFO(a, TypeOf(r))] ELSE r

(* What get_entry works out for an entry, from the value of its symbol, the  *)
(* addend and the offset: R_386_32, PC32, GLOB_DAT and JMP_SLOT, RELATIVE.   *)
CalcValue(r) ==
    CASE TypeOf(r) = 1 -> Sym(SymOf(r)).value + AddendOf(r)
      [] TypeOf(r) = 2 -> Sym(SymOf(r)).value + AddendOf(r) - r.offset
      [] TypeOf(r) \in {6, 7} -> Sym(SymOf(r)).value
      [] TypeOf(r) = 8 -> AddendOf(r)
      [] TypeOf(r) \notin {1, 2, 6, 7, 8} -> 0

-----------------------------------------------------------------------------
(* arrange_local_symbols *)
Arrange ==
    /\ phase = "idle"
    /\ phase' = "arranging" /\ first' = 1
    /\ UNCHANGED <<syms, info, hash, rela, relocs, arranged, answer>>

From(n, P(_)) ==
    IF \E i \in n..(Count - 1) : P(i)
      THEN CHOOSE i \in n..(Count - 1) : P(i) /\ \A k \in n..(i - 1) : ~P(k)
      ELSE IF n > Count THEN n ELSE Count

FirstNotLocal == From(first, LAMBDA i : ~Local(i))
NextLocal(from) == From(from, Local)

\* Faulty: the pointers are swapped, not the symbols.
ExchangedPointers(a, b) == syms

Exchanged(a, b) == [syms EXCEPT ![a + 1] = Sym(b), ![b + 1] = Sym(a)]

\* One round of the loop: a symbol that is not local, a local one behind it.
ArrangeStep ==
    /\ phase = "arranging"
    /\ LET a == FirstNotLocal
           b == NextLocal(a + 1)
       IN
       /\ first' = a
       /\ IF a < Count /\ b < Count
            THEN /\ syms' = Exchanged(a, b)
                 /\ relocs' = (IF Callback
                                THEN [i \in DOMAIN relocs |-> Swapped(relocs[i], a, b)]
                                ELSE relocs)
                 /\ UNCHANGED <<info, phase, arranged>>
            ELSE /\ info' = a /\ phase' = "idle" /\ arranged' = TRUE
                 /\ UNCHANGED <<syms, relocs>>
    /\ UNCHANGED <<hash, rela, answer>>

-----------------------------------------------------------------------------
(* get_symbol by name; a result is the index found, Count for none.         *)
Named(i, n) == i < Count /\ Sym(i).name = n

\* hash_lookup: along the chain of the bucket.
HashLookup(n) ==
    LET walk[y \in 0..(hash.nchain - 1)] ==
          IF Named(y, n) THEN y
          ELSE IF y = 0 THEN Count
          ELSE walk[hash.chain[y]]
    IN  walk[hash.bucket[HashOf[n] % hash.nbucket]]

InBloom(h) ==
    {h % WordBits, (h \div hash.shift) % WordBits} \subseteq
      hash.bloom[(h \div WordBits) % hash.nbloom]

\* gnu_hash_lookup: through the filter, then along the chain to its end bit.
GnuLookup(n) ==
    LET h == HashOf[n]
        start == hash.bucket[h % hash.nbucket]
        walk[y \in DOMAIN hash.chain] ==
          IF hash.chain[y] \div 2 = h \div 2 /\ Named(y, n) THEN y
          ELSE IF hash.chain[y] % 2 = 1 THEN Count
          ELSE walk[y + 1]
    IN  IF InBloom(h) /\ start >= hash.symoffset THEN walk[start] ELSE Count

\* Where the hash table does not lead to it every symbol is looked at.
ByName(n) ==
    LET hashed == CASE hash = NoHash -> Count
                    [] hash # NoHash /\ hash.kind = "sysv" -> HashLookup(n)
                    [] hash # NoHash /\ hash.kind = "gnu" -> GnuLookup(n)
    IN  IF hashed < Count THEN hashed ELSE From(0, LAMBDA i : Sym(i).name = n)

-----------------------------------------------------------------------------
Next ==
    \/ \E n \in Names, v \in Values, b \in {"local", "global"} : AddSymbol(n, v, b)
    \/ \E o \in Offsets, s \in 0..(MaxSymbols - 1), t \in Types, a \in Addends : AddEntry(o, s, t, a)
    \/ \E n \in Names, v \in Values, o \in Offsets, t \in Types : AddNamed(n, v, o, t)
    \/ Arrange
    \/ ArrangeStep

\* arrange_local_symbols is one call: once begun it goes on.
Spec == Init /\ [][Next]_vars /\ WF_vars(ArrangeStep)

-----------------------------------------------------------------------------
\* Every section keeps its shape; the first symbol is the null symbol.
TypeOK ==
    /\ \A i \in DOMAIN syms :
         /\ syms[i].name \in Names \cup {NoName} /\ syms[i].bind \in {"local", "global"}
         /\ i = 1 => syms[i].name = NoName
    /\ info \in Nat /\ first \in Nat /\ phase \in {"idle", "arranging"}
    /\ \A i \in DOMAIN relocs : relocs[i].info \in 0..(InfoSpan - 1)
    /\ arranged \in BOOLEAN /\ answer \in Nat

(* Each relocation refers to the symbol it was made for, also between two   *)
(* swaps of an arrangement: what get_entry works out for it is what it was  *)
(* when it was added.                                                       *)
RelocsFollow ==
    \A i \in DOMAIN relocs :
      /\ SymOf(relocs[i]) < Count
      /\ Sym(SymOf(relocs[i])).id = relocs[i].meant

(* What get_entry works out for a relocation is the same before and after   *)
(* each swap of an arrangement.                                             *)
CalcKept ==
    [][Arrange \/ ArrangeStep =>
         \A i \in DOMAIN relocs : CalcValue(relocs[i])' = CalcValue(relocs[i])]_vars

(* After an arrangement the symbols before sh_info are local, those from it *)
(* on are not.                                                              *)
LocalsFirst ==
    arranged => \A i \in 0..(Count - 1) : (i < info) <=> Local(i)

\* No symbol is lost or doubled: each addition is still there, once.
NoneLost ==
    \A id \in 0..(Count - 1) : Cardinality({i \in DOMAIN syms : syms[i].id = id}) = 1

\* The index add_symbol returns is that of the symbol added last.
AnswerIsIt == [][answer' # answer => answer' < Count' /\ Sym(answer)'.id = Count' - 1]_vars

(* A name some symbol has is found, and what is found has the name, also    *)
(* through a hash table that was made before symbols were added or moved.   *)
FoundByName ==
    \A n \in Names :
      IF \E i \in DOMAIN syms : syms[i].name = n THEN Named(ByName(n), n) ELSE ByName(n) >= Count

\* An arrangement comes to its end.
ArrangeEnds == phase = "arranging" ~> phase = "idle"
=============================================================================
