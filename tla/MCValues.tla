------------------------------ MODULE MCValues ------------------------------
(* From a name to a place in memory: index file, live lookup and symbols,   *)
(* as Python and the GUI ask them; the resolver behind one handle, asked    *)
(* more and on more files; the text of the index and of an answer.  part    *)
(* says which of the three.                                                 *)
EXTENDS VariableLookup, TLC

VARIABLES
    part,
    kept, text, source, whole, asked, result    \* IndexText

textVars == <<kept, text, source, whole, asked, result>>
valueVars == <<part, lookup, textVars>>

-----------------------------------------------------------------------------
(* Files of one or two units.                                               *)
None == -1
NoReference == <<>>
EndsWith(full, name) == full = name \/ <<full, name>> = <<"xs", "s">>

E(tag, name, kids, type, at, size, loc) ==
    [tag |-> tag, name |-> name, kids |-> kids, type |-> type, at |-> at, size |-> size, loc |-> loc]

Unit == E("unit", "", TRUE, NoReference, 0, None, None)
Null == E("null", "", FALSE, NoReference, 0, None, None)
Bad == E("bad", "", FALSE, NoReference, 0, None, None)
Base(size) == E("base", "", FALSE, NoReference, 0, size, None)
Struct(size) == E("struct", "", TRUE, NoReference, 0, size, None)
Array == E("array", "", FALSE, NoReference, 0, None, None)
Alias(type) == E("typedef", "", FALSE, type, 0, None, None)
Member(name, type, at) == E("member", name, FALSE, type, at, None, None)
Variable(name, type, loc) == E("variable", name, FALSE, type, 0, None, loc)

\* A structure in a structure, behind two typedefs.
Nested ==
    << <<Unit, Base(1),
         Struct(4), Member("a", <<1, 2>>, 0), Member("", <<1, 2>>, 1), Member("t", <<1, 9>>, 2), Null,
         Alias(<<1, 3>>),
         Struct(2), Member("a", <<1, 2>>, 0), Member("b", <<1, 2>>, 1), Null,
         Alias(<<1, 8>>), Variable("s", <<1, 13>>, 16), Variable("xs", <<1, 2>>, 20), Null>> >>

\* A type that another unit has; a variable of a longer name before.
Across ==
    << <<Unit, Base(1), Variable("xs", <<2, 2>>, 32), Null>>,
       <<Unit, Struct(4), Member("t", <<2, 6>>, 2), Member("a", <<1, 2>>, 1), Null,
         Struct(2), Member("a", <<1, 2>>, 0), Member("b", <<1, 2>>, 1), Null,
         Variable("s", <<2, 2>>, 16), Null>> >>

\* Two static variables of one name, in one unit and in two.
Statics ==
    << <<Unit, Base(1), Struct(2), Member("a", <<1, 2>>, 1), Null,
         Variable("s", <<1, 3>>, 16), Variable("s", <<1, 3>>, 24), Null>> >>
Twins ==
    << <<Unit, Base(1), Struct(2), Member("a", <<1, 2>>, 1), Null, Variable("s", <<1, 3>>, 16), Null>>,
       <<Unit, Struct(2), Member("b", <<1, 2>>, 1), Null, Variable("s", <<2, 2>>, 24), Null>> >>

\* A declaration without a place, and the definition in a later unit.
Extern ==
    << <<Unit, Variable("s", <<2, 3>>, None), Null>>,
       <<Unit, Base(1), Struct(2), Member("a", <<2, 2>>, 1), Null, Variable("s", <<2, 3>>, 16), Null>> >>

\* b is a variable and a member of s.
Both == << <<Unit, Base(1), Struct(3), Member("a", <<1, 2>>, 0), Member("b", <<1, 7>>, 1), Null,
             Base(2), Variable("s", <<1, 3>>, 16), Variable("b", <<1, 2>>, 20), Null>> >>

\* Arrays, as a member and as a variable: compilers give them no size.
Arrays == << <<Unit, Array, Struct(4), Member("a", <<1, 7>>, 0), Member("b", <<1, 2>>, 1), Null,
               Base(1), Variable("s", <<1, 3>>, 16), Variable("c", <<1, 2>>, 12), Null>> >>

(* For the lookups, each with tables of symbols that place the variables as *)
(* DWARF does, not at all, or twice.                                        *)
LookupPrograms == {Nested, Twins, Both, Arrays}

Sym(name, value, size, local) ==
    [name |-> name, value |-> value, size |-> size, local |-> local, type |-> "object", defined |-> TRUE]

MCTables ==
    {<<>>,
     <<Sym("s", 16, 4, FALSE)>>,
     <<Sym("s", 16, 2, TRUE), Sym("s", 24, 2, TRUE), [Sym("b", 40, 2, FALSE) EXCEPT !.defined = FALSE]>>,
     <<Sym("c", 8, 1, TRUE), Sym("c", 12, 2, FALSE), Sym("s", 16, 3, FALSE), Sym("b", 20, 1, FALSE)>>,
     <<[Sym("s", 16, 0, FALSE) EXCEPT !.type = "notype"], Sym("c", 0, 2, FALSE), Sym("c", 12, 2, TRUE)>>,
     <<Sym("c", 12, 3, FALSE), Sym("s", 16, 4, FALSE)>>}

Q(root, fields, index) == [root |-> root, fields |-> fields, index |-> index]
LookupQueries ==
    {Q("s", <<>>, None), Q("s", <<>>, 1), Q("s", <<"b">>, None), Q("s", <<"b">>, 1),
     Q("b", <<>>, None), Q("b", <<>>, 0), Q("c", <<>>, 0), Q("c", <<>>, 1)}

(* For the resolver alone, each file also with a unit that cannot be parsed *)
(* from some entry on.                                                      *)
WholePrograms == {Nested, Across, Statics, Twins, Extern}
HandlePrograms ==
    WholePrograms \cup
    UNION {{[p EXCEPT ![c] = [@ EXCEPT ![i] = Bad]] : i \in {3, 5, 6, 9} \cap (DOMAIN p[c])} :
             <<p, c>> \in {<<p, c>> \in WholePrograms \X {1, 2} : c \in DOMAIN p}}
HandleQueries ==
    {Q("s", <<"a">>, None), Q("s", <<"t">>, 1), Q("s", <<"t">>, 2), Q("s", <<"t", "b">>, None),
     Q("s", <<"b">>, None), Q("xs", <<"t", "a">>, 0), Q("xs", <<"a">>, None)}

Handle == INSTANCE Dwarf WITH Programs <- HandlePrograms, Queries <- HandleQueries

(* Indexes of no, one and more entries, with names that are escaped or      *)
(* look like the text around them; answers that fill the buffer, and not.   *)
ItemOf(m, e, b, a, at, s, g, t) ==
    [member |-> m, expression |-> e, base |-> b, address |-> a, at |-> at, size |-> s,
     signed |-> g, type |-> t]
ItemSA == ItemOf(<<"a">>, <<"s", ".", "a">>, <<"s">>, 160, 0, 1, "true", <<"\"", "ctl">>)
ItemTA == ItemOf(<<"a">>, <<"t", ".", "a">>, <<"t">>, 1234, 4, 4, "null", <<>>)
ItemB == ItemOf(<<"b", "{">>, <<"b", ",", "]">>, <<"b">>, 0, 0, 12, "false", <<"\\", "newline">>)

IndexOf(p, v, items) == [path |-> p, depth |-> 8, version |-> v, items |-> items]
TextIndexes ==
    {IndexOf(<<"C", ":", "\\", "u">>, <<>>, i) :
       i \in {<<>>, <<ItemSA>>, <<ItemB>>, <<ItemSA, ItemTA>>, <<ItemSA, ItemTA, ItemB>>}}
    \cup {IndexOf(<<"p", "\"">>, <<"v", "1">>, <<ItemTA, ItemB>>), IndexOf(<<>>, <<>>, <<ItemTA>>)}
TextAnswers ==
    {[expression |-> e, base |-> e, address |-> 1610612736, size |-> 2, signed |-> "true",
      source |-> <<"d">>, type |-> t, member |-> <<"m">>] :
       e \in {<<"s">>, <<"s", "\\", "x">>},
       t \in {<<>>, <<"y", "ctl">>, <<"a", "b", "c", "d", "e", "f", "g", "h">>}}

Controls == "ctl" :> <<"0", "0", "0", "1">>
Escapes == ("\\" :> "\\") @@ ("\"" :> "\"") @@ ("newline" :> "n")

Text == INSTANCE IndexText WITH
    Indexes <- TextIndexes, Answers <- TextAnswers, OutSize <- 100,
    Shorts <- Escapes, Hex <- Controls

-----------------------------------------------------------------------------
NoFile ==
    /\ cus = <<>> /\ listed = <<>> /\ tried = {} /\ cache = [n \in {} |-> NoRef]
    /\ answers = [q \in Queries \cup HandleQueries |-> {}]
NoLookup == symbols = <<>> /\ entries = <<>> /\ told = {} /\ watched = {}

NoText ==
    /\ kept = {} /\ text = <<>> /\ source = "none" /\ whole = FALSE
    /\ asked = {} /\ result = Text!NotRead

ValueInit ==
    \/ part = "lookup" /\ LookupInit /\ NoText
    \/ part = "handle" /\ Handle!Init /\ NoLookup /\ NoText
    \/ part = "text" /\ Text!Init /\ NoFile /\ NoLookup

ValueNext ==
    /\ UNCHANGED part
    /\ \/ part = "lookup" /\ LookupNext /\ UNCHANGED textVars
       \/ /\ part = "handle" /\ Handle!Next
          /\ UNCHANGED <<symbols, entries, told, watched, textVars>>
       \/ part = "text" /\ Text!Next /\ UNCHANGED lookup

ValueSpec == ValueInit /\ [][ValueNext]_valueVars

-----------------------------------------------------------------------------
(* The index has each variable of DWARF and of the symbols once, where one  *)
(* of the two puts it; Python and the GUI, who look it up in different      *)
(* places, find the same byte, and no index leads out of what it is of      *)
(* (base_tas.py 443-516, main.cpp 89-155, tc397_elfio_resolver.cpp).        *)
LookupsAgree ==
    part = "lookup" =>
        LookupTypeOK /\ EntriesRight /\ GuiFollowsPython /\ SameByte /\ InBounds

(* What a handle answers is what the debug information means, whatever was  *)
(* asked before it and whichever unit cannot be parsed; the listing has     *)
(* every path, and what it lists alone is also found                        *)
(* (tc397_elfio_resolver.cpp).                                              *)
HandleAnswersRight ==
    part = "handle" =>
        /\ Handle!TypeOK
        /\ Handle!AnswersRight /\ Handle!SameAnswer /\ Handle!AloneResolves
        /\ Handle!IndexComplete /\ Handle!ChildrenRight

(* What the resolver writes the GUI reads, whatever the names hold; of an   *)
(* index that is cut it takes all or nothing, and an answer that does not   *)
(* fit its buffer it refuses (tc397_elfio_resolver.cpp 230-352,             *)
(* elf_index.cpp 38-320).                                                   *)
TextReadsBack == part = "text" => Text!TextReadsBack
=============================================================================
