--------------------------- MODULE VariableLookup ---------------------------
(***************************************************************************)
(* How a name becomes an address: write_member_index_json adds the symbols  *)
(* to what DWARF lists; Python (VariableIndex of base_tas.py) looks only    *)
(* there; the GUI (add_watch_expr of main.cpp) looks there and then asks    *)
(* the handle it opened on the same file, which goes through the debug      *)
(* information for a path and through the symbol table for a plain name.    *)
(*                                                                         *)
(* A query is an expression: root.fields[index].                            *)
(***************************************************************************)
EXTENDS Dwarf

CONSTANT Tables  \* the tables of symbols a file may have beside its units

VARIABLES
    symbols,  \* [name, value, size, local, type, defined], in the table's order
    entries,  \* the entries of the index file
    told,     \* [query, answer]: the last of VariableIndex.resolve (observation)
    watched   \* [query, answer]: the last of add_watch_expr

lookup == <<vars, symbols, entries, told, watched>>

Path(q) == <<q.root>> \o q.fields
Set(s) == {s[i] : i \in DOMAIN s}
Expressions(items) == {it.expr : it \in Set(items)}
VariableSymbol(s) == s.defined /\ s.size # 0 /\ s.type = "object"

\* Faulty: every symbol is added, also the second of one name.
AllSymbols(items, s) ==
    IF ~VariableSymbol(s) THEN items
    ELSE Append(items, [member |-> s.name, expr |-> <<s.name>>, address |-> s.value, size |-> s.size])

\* add_symbol_variables_to_index, for one symbol.
AddSymbol(items, s) ==
    IF ~VariableSymbol(s) \/ <<s.name>> \in Expressions(items) THEN items
    ELSE Append(items, [member |-> s.name, expr |-> <<s.name>>, address |-> s.value, size |-> s.size])

WriteIndex ==
    /\ Export
    /\ entries' = FoldLeft(AddSymbol, listed', symbols)
    /\ UNCHANGED <<symbols, told, watched>>

-----------------------------------------------------------------------------
\* find, by path or by last member.
Matches(q) ==
    {it \in Set(entries) : IF q.fields # <<>> THEN it.expr = Path(q) ELSE it.member = q.root}

(* VariableIndex.resolve; find turns each match into an address first.      *)
OneMatch(q) ==
    IF Matches(q) = {} THEN NotFound
    ELSE IF \E it \in Matches(q) : Indexed(it.address, it.size, q.index).kind = "index" THEN Error("index")
    ELSE IF Cardinality(Matches(q)) > 1 THEN Error("ambiguous")
    ELSE LET it == CHOOSE it \in Matches(q) : TRUE IN Indexed(it.address, it.size, q.index)

PythonResolve(q) ==
    /\ entries # <<>>
    /\ told' = {[query |-> q, answer |-> OneMatch(q)]}
    /\ UNCHANGED <<vars, symbols, entries, watched>>

-----------------------------------------------------------------------------
(* resolve_symbol, without zero sizes and untyped symbols; the sort puts    *)
(* what came to address 0, and then local symbols, last and is not stable.  *)
SymbolAnswers(q) ==
    LET found == {s \in Set(symbols) : VariableSymbol(s) /\ s.name = q.root}
        answer(s) == Indexed(s.value, s.size, q.index)
        zero(s) == answer(s).address = 0
        before(s, r) == (~zero(s) /\ zero(r)) \/ (zero(s) = zero(r) /\ ~s.local /\ r.local)
    IN  IF q.fields # <<>> \/ found = {} THEN {NotFound}
        ELSE IF \E s \in found : answer(s).kind = "index" THEN {Error("index")}
        ELSE {answer(s) : s \in {s \in found : ~ \E r \in found : before(r, s)}}

\* ResolverHandle::resolve; what DWARF throws is not caught in between.
Live(q) ==
    LET dwarf == IF q.fields = <<>> THEN {[t |-> tried, cache |-> cache, answer |-> NotFound]}
                 ELSE Outcomes(q)
    IN  UNION {IF r.answer.kind = "none" THEN {[r EXCEPT !.answer = a] : a \in SymbolAnswers(q)} ELSE {r} :
                 r \in dwarf}

\* The entries whose expression or last member is the text that was typed.
Exact(q) ==
    IF q.index # NoIndex THEN {}
    ELSE {it \in Set(entries) : it.expr = Path(q) \/ (q.fields = <<>> /\ it.member = q.root)}

Chosen(q) == IF Cardinality(Exact(q)) = 1 THEN Exact(q) ELSE {it \in Exact(q) : it.expr = Path(q)}

AddWatch(q) ==
    /\ entries # <<>>
    /\ \/ /\ Exact(q) # {}
          /\ \E a \in IF Chosen(q) = {} THEN {Error("ambiguous")}
                   ELSE {Ref(it.address, it.size) : it \in Chosen(q)} :
               watched' = {[query |-> q, answer |-> a]}
          /\ UNCHANGED <<tried, cache>>
       \/ /\ Exact(q) = {}
          /\ \E r \in Live(q) : /\ tried' = r.t /\ cache' = r.cache
                                /\ watched' = {[query |-> q, answer |-> r.answer]}
    /\ UNCHANGED <<cus, listed, answers, symbols, entries, told>>

LookupInit ==
    /\ Init
    /\ symbols \in Tables /\ entries = <<>>
    /\ told = {} /\ watched = {}

LookupNext == WriteIndex \/ \E q \in Queries : PythonResolve(q) \/ AddWatch(q)
LookupSpec == LookupInit /\ [][LookupNext]_lookup

-----------------------------------------------------------------------------
\* The index is about the file, and every answer is of a known kind.
LookupTypeOK ==
    /\ Expressions(listed) \subseteq Expressions(entries)
    /\ \A w \in told \cup watched :
         /\ w.query \in Queries
         /\ w.answer.kind \in {"ref", "none", "index", "member", "parse", "ambiguous"}

(* Every variable that DWARF or the symbol table places is in the index,    *)
(* once, and where one of the two puts it: DWARF, when it lists the name.   *)
EntriesRight ==
    entries # <<>> =>
      /\ \A i, k \in DOMAIN entries : entries[i].expr = entries[k].expr => i = k
      /\ \A s \in Set(symbols) : VariableSymbol(s) => <<s.name>> \in Expressions(entries)
      /\ \A it \in Set(entries) :
           IF it.expr \in Expressions(listed) THEN it \in Set(listed)
           ELSE \E s \in Set(symbols) :
                  VariableSymbol(s) /\ it.expr = <<s.name>> /\ it.address = s.value /\ it.size = s.size

(* What Python finds under an expression, the GUI adds to the watch list:   *)
(* the same place and size.                                                 *)
GuiFollowsPython ==
    \A a \in told, b \in watched :
      a.query = b.query /\ a.query.index = NoIndex /\ a.answer.kind = "ref" => b.answer = a.answer

(* Of names that one variable and at most one symbol bear, and the symbol   *)
(* where the variable is and of its size, if DWARF gives one, both find the *)
(* same byte, though one of them looks in the index and the other in the    *)
(* debug information or the symbols.                                        *)
Consistent(name) ==
    LET placed == {o \in UNION {VariablesIn(c, name) : c \in Units} : Die(o).loc # NoLoc}
        named == {s \in Set(symbols) : VariableSymbol(s) /\ s.name = name}
    IN  /\ Alone(name)
        /\ Cardinality(named) <= 1
        /\ \A o \in placed, s \in named :
             s.value = Die(o).loc /\ (SizeMeant(o) = 0 \/ s.size = SizeMeant(o))

SameByte ==
    \A a \in told, b \in watched :
      /\ a.query = b.query /\ Consistent(a.query.root)
      /\ a.answer.kind = "ref" /\ b.answer.kind = "ref"
      => a.answer = b.answer

(* No answer to an index is a byte outside of everything that bears the     *)
(* name.  Of what has no size (an array, without one in DWARF) neither      *)
(* program knows the end: there it is not before the first byte.            *)
InBounds ==
    \A w \in told \cup watched :
      LET q == w.query
          within(address, size) ==
            /\ w.answer.address >= address
            /\ size = 0 \/ w.answer.address < address + size
      IN  q.index # NoIndex /\ w.answer.kind = "ref" =>
            \/ \E it \in Matches(q) : within(it.address, it.size)
            \/ \E s \in Set(symbols) :
                 VariableSymbol(s) /\ s.name = q.root /\ within(s.value, s.size)
            \/ \E m \in Meant : m.expr = Path(q) /\ within(m.address, m.size)

(* README.md on an ambiguous name: the full path is to be used instead.     *)
(* The full path of a variable itself is its name.                          *)
FullPathResolves ==
    \A w \in told : Path(w.query) \in Expressions(entries) => w.answer.kind # "ambiguous"

(* elf_index.hpp on resolve: a full path, leaf member or array index is     *)
(* resolved live.                                                           *)
LeafResolves ==
    \A w \in watched :
      Cardinality(Matches(w.query)) = 1 /\ (\A it \in Matches(w.query) : Len(it.expr) > 1)
      => w.answer.kind # "none"
=============================================================================
