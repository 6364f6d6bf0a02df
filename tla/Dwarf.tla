------------------------------- MODULE Dwarf -------------------------------
(***************************************************************************)
(* DwarfResolver of tc397_elfio_resolver.cpp, behind one open handle: units *)
(* of debug information are parsed when something in them is asked for, and *)
(* variables are looked up by name and followed through their members; or   *)
(* everything is parsed and every path is listed.                           *)
(*                                                                         *)
(* A unit is the sequence of its entries as they lie in .debug_info, an     *)
(* offset the pair of a unit and a position in it.  How attributes are      *)
(* encoded is left out; an entry tagged "bad" is one that parse_cu throws   *)
(* at, "null" the entry that ends the children of another.                  *)
(***************************************************************************)
EXTENDS Integers, Sequences, FiniteSets, SequencesExt

CONSTANTS
    Programs,   \* the sequences of units a handle may be opened on
    Queries,    \* what is asked: [root, fields, index]
    Depth,      \* max_depth
    Ends(_, _), \* Ends(text, name): text is name or ends with it
    NoName, NoRef, NoLoc, NoSize, NoIndex,
    MaxChain    \* bound: the typedefs between a variable and its type

ASSUME DwarfAssumption == Depth \in Nat \ {0} /\ MaxChain \in Nat

VARIABLES
    cus,     \* the units of the ELF file
    listed,  \* what was last exported of it
    tried,   \* the units parse_cu was called for
    cache,   \* variable_cache: name -> offset or NoRef, for the names asked
    answers  \* query -> the answers it was given (observation)

vars == <<cus, listed, tried, cache, answers>>

Units == DOMAIN cus
Qualifiers == {"typedef", "qualifier"}
Aggregates == {"struct"}
Die(o) == cus[o[1]][o[2]]
Broken(c) == \E i \in DOMAIN cus[c] : cus[c][i].tag = "bad"

\* How far parse_cu comes in a unit.
ParsedLen(c) ==
    LET bad == {i \in DOMAIN cus[c] : cus[c][i].tag = "bad"}
    IN  IF bad = {} THEN Len(cus[c]) ELSE (CHOOSE i \in bad : \A k \in bad : i <= k) - 1

(* parse_cu: the children of each entry, by the stack of open ones.         *)
Opened(s, i, e) ==
    IF e.tag = "null" THEN [s EXCEPT !.stack = IF @ = <<>> THEN @ ELSE Front(@)]
    ELSE [stack |-> IF e.kids THEN Append(s.stack, i) ELSE s.stack,
          kids |-> IF s.stack = <<>> THEN s.kids
                   ELSE [s.kids EXCEPT ![Last(s.stack)] = Append(@, i)]]

Kids(c) ==
    LET f[i \in 0..ParsedLen(c)] ==
          IF i = 0 THEN [stack |-> <<>>, kids |-> [k \in 1..ParsedLen(c) |-> <<>>]]
          ELSE Opened(f[i - 1], i, cus[c][i])
    IN  f[ParsedLen(c)].kids

Children(o) ==
    LET kids == Kids(o[1])[o[2]]
    IN  [k \in DOMAIN kids |-> <<o[1], kids[k]>>]

\* What dies holds when the units of t were tried.
Known(t, o) == o[1] \in t /\ o[2] <= ParsedLen(o[1]) /\ Die(o).tag # "null"

-----------------------------------------------------------------------------
(* Each lookup goes on from the units tried so far and may throw:           *)
(* [t, at, ok], at NoRef for a null pointer.                                *)
Got(t, at) == [t |-> t, at |-> at, ok |-> TRUE]
Threw(t) == [t |-> t, at |-> NoRef, ok |-> FALSE]

GetDie(t, o) ==
    CASE Known(t, o) -> Got(t, o)
      [] ~Known(t, o) /\ Broken(o[1]) -> Threw(t \cup {o[1]})
      [] ~Known(t, o) /\ ~Broken(o[1]) ->
           Got(t \cup {o[1]}, IF Known(t \cup {o[1]}, o) THEN o ELSE NoRef)

\* resolve_type: through typedefs and qualifiers.
RefDie(t, ref) == IF ref = NoRef THEN Got(t, NoRef) ELSE GetDie(t, ref)
Past(s) ==
    IF ~s.ok \/ s.at = NoRef \/ Die(s.at).tag \notin Qualifiers THEN s
    ELSE RefDie(s.t, Die(s.at).type)

ResolveType(t, ref) ==
    LET f[n \in 0..MaxChain] == IF n = 0 THEN RefDie(t, ref) ELSE Past(f[n - 1])
    IN  f[MaxChain]

IsAggregate(at) == at # NoRef /\ Die(at).tag \in Aggregates
SizeOf(at) == IF at = NoRef \/ Die(at).size = NoSize THEN 0 ELSE Die(at).size
MemberSize(m, type) == IF Die(m).size # NoSize THEN Die(m).size ELSE SizeOf(type)

(* find_variable: the units the name occurs in, in their order, up to one   *)
(* that has a variable of the name; which one of several it has is left to  *)
(* the order of a hash table.                                               *)
Occurs(name) == {c \in Units : \E i \in DOMAIN cus[c] : Ends(cus[c][i].name, name)}
VariablesIn(c, name) ==
    {o \in {<<c, i>> : i \in DOMAIN cus[c]} : Die(o).tag = "variable" /\ Die(o).name = name}

FindVariable(name) ==
    LET ends == {c \in Occurs(name) : Broken(c) \/ VariablesIn(c, name) # {}}
    IN  IF name \in DOMAIN cache THEN {Got(tried, cache[name])}
        ELSE IF ends = {} THEN {Got(tried \cup Occurs(name), NoRef)}
        ELSE LET c == CHOOSE c \in ends : \A d \in ends : c <= d
                 t == tried \cup {d \in Occurs(name) : d <= c}
             IN  IF Broken(c) THEN {Threw(t)} ELSE {Got(t, o) : o \in VariablesIn(c, name)}

MemberNamed(at, name) ==
    LET kids == Children(at)
        named == {k \in DOMAIN kids : Die(kids[k]).tag = "member" /\ Die(kids[k]).name = name}
    IN  IF named = {} THEN NoRef ELSE kids[CHOOSE k \in named : \A j \in named : k <= j]

Ref(address, size) == [kind |-> "ref", address |-> address, size |-> size]
NotFound == [kind |-> "none", address |-> 0, size |-> 0]
Error(why) == [kind |-> why, address |-> 0, size |-> 0]

Indexed(base, size, index) ==
    IF index = NoIndex THEN Ref(base, size)
    ELSE IF size # 0 /\ index >= size THEN Error("index")
    ELSE Ref(base + index, 1)

\* Faulty: a member lies at its offset in the variable, not in its parent.
OffsetOnly(parent, m) == Die(m).at

OffsetOf(parent, m) == parent + Die(m).at

(* resolve() from the variable at o on: [t, answer].  The way to a member   *)
(* stops at the first error.                                                *)
Into(s, m, type) ==
    IF m = NoRef THEN [s EXCEPT !.stop = Error("member")]
    ELSE IF ~type.ok THEN [s EXCEPT !.stop = Error("parse"), !.t = type.t]
    ELSE [s EXCEPT !.t = type.t, !.at = type.at, !.off = OffsetOf(@, m), !.size = MemberSize(m, type.at)]

EnterMember(s, m) == Into(s, m, ResolveType(s.t, Die(m).type))
Enter(s, name) ==
    IF s.stop.kind # "ref" THEN s
    ELSE IF s.at = NoRef THEN [s EXCEPT !.stop = NotFound]
    ELSE EnterMember(s, MemberNamed(s.at, name))

StartAt(type) ==
    [t |-> type.t, at |-> type.at, off |-> 0, size |-> SizeOf(type.at),
     stop |-> IF ~type.ok THEN Error("parse") ELSE IF type.at = NoRef THEN NotFound ELSE Ref(0, 0)]

Ended(s, loc, index) ==
    [t |-> s.t,
     answer |-> IF s.stop.kind # "ref" THEN s.stop ELSE Indexed(loc + s.off, s.size, index)]

ResolveFrom(t, o, fields, index) ==
    IF Die(o).loc = NoLoc THEN [t |-> t, answer |-> NotFound]
    ELSE Ended(FoldLeft(Enter, StartAt(ResolveType(t, Die(o).type)), fields), Die(o).loc, index)

-----------------------------------------------------------------------------
Init ==
    /\ cus \in Programs /\ listed = <<>>
    /\ tried = {} /\ cache = [n \in {} |-> NoRef]
    /\ answers = [q \in Queries |-> {}]

Remember(name, at) == [n \in DOMAIN cache \cup {name} |-> IF n = name THEN at ELSE cache[n]]

(* DwarfResolver::resolve, of one handle: what it may come to.              *)
ResolveIn(v, q) ==
    IF v.ok /\ v.at # NoRef THEN ResolveFrom(v.t, v.at, q.fields, q.index)
    ELSE [t |-> v.t, answer |-> IF v.ok THEN NotFound ELSE Error("parse")]

Outcome(done, seen) == [t |-> done.t, answer |-> done.answer, cache |-> seen]
Outcomes(q) ==
    {Outcome(ResolveIn(v, q), IF v.ok THEN Remember(q.root, v.at) ELSE cache) :
       v \in FindVariable(q.root)}

Resolve(q) ==
    /\ q.fields # <<>>
    /\ \E r \in Outcomes(q) : /\ tried' = r.t /\ cache' = r.cache
                              /\ answers' = [answers EXCEPT ![q] = @ \cup {r.answer}]
    /\ UNCHANGED <<cus, listed>>

-----------------------------------------------------------------------------
(* build_member_index, for units that can all be parsed.                    *)
Whole == \A c \in Units : ~Broken(c)

Variables ==
    LET placed(o) == Die(o).tag = "variable" /\ Die(o).name # NoName /\ Die(o).loc # NoLoc
        of(c) == SelectSeq([i \in DOMAIN cus[c] |-> <<c, i>>], placed)
    IN  FlattenSeq([c \in Units |-> of(c)])

TypeAt(o) == ResolveType(Units, Die(o).type).at

Item(expr, root, off, size) ==
    [member |-> Last(expr), expr |-> expr, address |-> Die(root).loc + off, size |-> size]

(* collect_member_paths, a level of members at a time (the items are sorted *)
(* afterwards); the stack holds the types whose members are being walked.   *)
Collected(root) ==
    LET named(at) == SelectSeq(Children(at), LAMBDA m : Die(m).tag = "member" /\ Die(m).name # NoName)
        into(w) ==
          IF ~IsAggregate(w.at) \/ w.at \in w.stack THEN <<>>
          ELSE [k \in DOMAIN named(w.at) |->
                  LET m == named(w.at)[k]
                      path == Append(w.item.expr, Die(m).name)
                      off == OffsetOf(w.off, m)
                  IN  [item |-> Item(path, root, off, MemberSize(m, TypeAt(m))), off |-> off,
                       at |-> TypeAt(m), stack |-> w.stack \cup {w.at}]]
        levels[d \in 0..Depth] ==
          IF d = 0 THEN <<[item |-> Item(<<Die(root).name>>, root, 0, 0), off |-> 0,
                           at |-> TypeAt(root), stack |-> {}]>>
          ELSE FlattenSeq([k \in DOMAIN levels[d - 1] |-> into(levels[d - 1][k])])
        walked == FlattenSeq([d \in 1..Depth |-> levels[d]])
    IN  [k \in DOMAIN walked |-> walked[k].item]

Listed(root) ==
    LET type == TypeAt(root)
    IN  <<Item(<<Die(root).name>>, root, 0, MemberSize(root, type))>> \o Collected(root)

\* seen_expressions: the first item of each expression stays.
Firsts(items) ==
    LET add(kept, item) ==
          IF \E k \in DOMAIN kept : kept[k].expr = item.expr THEN kept ELSE Append(kept, item)
    IN  FoldLeft(add, <<>>, items)

Listing ==
    LET all == Variables
    IN  Firsts(FlattenSeq([i \in DOMAIN all |-> Listed(all[i])]))

\* write_member_index_json: by a resolver of its own, which throws at a unit it cannot parse.
Export ==
    /\ Whole
    /\ listed' = Listing
    /\ UNCHANGED <<cus, tried, cache, answers>>

Next == Export \/ \E q \in Queries : Resolve(q)
Spec == Init /\ [][Next]_vars

-----------------------------------------------------------------------------
(* What the debug information means, without stacks and caches: the parent  *)
(* of an entry is the nearest open one before it; a path is a chain of      *)
(* members.                                                                 *)
DepthOf(c, i) ==
    Cardinality({k \in 1..(i - 1) : cus[c][k].tag # "null" /\ cus[c][k].kids})
      - Cardinality({k \in 1..(i - 1) : cus[c][k].tag = "null"})

IsChild(c, i, k) ==
    /\ i < k /\ cus[c][i].tag # "null" /\ cus[c][i].kids /\ cus[c][k].tag # "null"
    /\ DepthOf(c, k) = DepthOf(c, i) + 1
    /\ \A j \in (i + 1)..k : DepthOf(c, j) > DepthOf(c, i)

TypeMeant(o) ==
    LET f[n \in 0..MaxChain] ==
          IF n = 0 THEN Die(o).type
          ELSE IF f[n - 1] = NoRef \/ Die(f[n - 1]).tag \notin Qualifiers THEN f[n - 1]
          ELSE Die(f[n - 1]).type
    IN  f[MaxChain]

MembersOf(at) ==
    IF at = NoRef THEN {}
    ELSE {m \in {<<at[1], k>> : k \in DOMAIN cus[at[1]]} :
            IsChild(at[1], at[2], m[2]) /\ Die(m).tag = "member" /\ Die(m).name # NoName}

\* The chains of n members from the type of o on.
ChainsOf(o) ==
    LET f[n \in 0..Depth] ==
          IF n = 0 THEN {<<o>>}
          ELSE UNION {{Append(ch, m) : m \in MembersOf(TypeMeant(Last(ch)))} : ch \in f[n - 1]}
    IN  UNION {f[n] : n \in 0..Depth}

PathOf(chain) == [k \in DOMAIN chain |-> Die(chain[k]).name]
SizeMeant(o) ==
    IF Die(o).size # NoSize THEN Die(o).size ELSE SizeOf(TypeMeant(o))

AddressMeant(chain) ==
    LET f[k \in 1..Len(chain)] == IF k = 1 THEN Die(chain[1]).loc ELSE f[k - 1] + Die(chain[k]).at
    IN  f[Len(chain)]

Meant ==
    UNION {{[expr |-> PathOf(ch), address |-> AddressMeant(ch), size |-> SizeMeant(Last(ch))] :
              ch \in ChainsOf(Variables[v])} : v \in DOMAIN Variables}

\* Only one entry is a variable of the name.
Alone(name) == Cardinality(UNION {VariablesIn(c, name) : c \in Units}) = 1

-----------------------------------------------------------------------------
\* What is tried and cached is of the file.
TypeOK ==
    /\ tried \subseteq Units
    /\ \A n \in DOMAIN cache : cache[n] # NoRef => Die(cache[n]).name = n
    /\ \A q \in Queries : \A a \in answers[q] : a.kind \in {"ref", "none", "index", "member", "parse"}

\* parse_cu gives each entry the children the order of the entries means.
ChildrenRight ==
    \A c \in Units : \A i \in 1..ParsedLen(c) :
      {Kids(c)[i][k] : k \in DOMAIN Kids(c)[i]} = {k \in 1..ParsedLen(c) : IsChild(c, i, k)}

(* The index lists every path up to its depth, once, where and as long as   *)
(* the debug information says.                                              *)
IndexComplete ==
    listed # <<>> =>
      LET meant == Meant
          items == {[expr |-> listed[i].expr, address |-> listed[i].address, size |-> listed[i].size] :
                      i \in DOMAIN listed}
      IN  /\ items \subseteq meant
          /\ \A m \in meant : \E it \in items : it.expr = m.expr
          /\ \A i, k \in DOMAIN listed : listed[i].expr = listed[k].expr => i = k

(* An address that resolve() gives is that of some variable of the name and *)
(* the members of the path, also after a unit could not be parsed.          *)
AnswersRight ==
    LET meant == Meant
    IN  \A q \in Queries : \A a \in answers[q] :
          a.kind = "ref" =>
            \E m \in meant : /\ m.expr = <<q.root>> \o q.fields
                             /\ a = Indexed(m.address, m.size, q.index)

\* A query has one answer, whatever was asked before it.
SameAnswer == Whole => \A q \in Queries : Cardinality(answers[q]) <= 1

\* What resolve() says of a path that is listed is what the listing says.
Agrees(item) ==
    \A q \in Queries :
      <<q.root>> \o q.fields = item.expr =>
        \A a \in answers[q] : a = Indexed(item.address, item.size, q.index)

(* A path that is listed can be resolved, to the same place, when only one  *)
(* entry speaks of a variable of its name.                                  *)
AloneResolves == \A i \in DOMAIN listed : Alone(listed[i].expr[1]) => Agrees(listed[i])

(* docs/TC397_ELF_DAP_PATENT_DRAFT.md names paths of members among what can *)
(* be asked for; here, of every path that is listed.                        *)
IndexResolves == \A i \in DOMAIN listed : Agrees(listed[i])
=============================================================================
