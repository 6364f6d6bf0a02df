------------------------------ MODULE MCBench ------------------------------
EXTENDS Bench, TLC

(* Records of up to three signals of one or two bytes, followed by nothing, *)
(* the zero id, a cut header, a cut value or an unknown type; transactions  *)
(* of six bytes, so that every record takes two or more.                    *)
MCTypes == (3 :> [size |-> 2, signed |-> FALSE])
           @@ (5 :> [size |-> 1, signed |-> FALSE])
           @@ (6 :> [size |-> 1, signed |-> TRUE])
U8(id) == [id |-> id, type |-> 5, value |-> <<0>>]
I8(id) == [id |-> id, type |-> 6, value |-> <<0>>]
U16(id) == [id |-> id, type |-> 3, value |-> <<0, 1>>]

SomeLists == [r \in BOOLEAN |->
    IF r THEN {<<U8(1), U8(2)>>} ELSE {<<>>, <<U8(1), I8(2), U8(1)>>, <<U16(256), U8(1)>>}]
SomeTails == [r \in BOOLEAN |->
    IF r THEN {<<>>}
    ELSE {<<0, 0, 0, 0, 1>>, <<7, 0, 3>>, <<7, 0, 3, 3, 1>>, <<7, 0, 3, 8, 1>>}]
SomeIds == [r \in BOOLEAN |-> IF r THEN {1, 2} ELSE {0, 1, 2, 7, 256}]
SomeValues == [r \in BOOLEAN |->
    IF r THEN {[num |-> 1]} ELSE {[raw |-> <<1>>], [raw |-> <<1, 1>>], [num |-> -1]}]

(* Variants of two platforms and two models, with candidates that do not    *)
(* resolve or cannot hold a value, values that repeat and negative ones.    *)
Holds == [u8 |-> {0, 1}, s8 |-> {-1, 0, 1}]

V(platform, model, vals, candidates, family, topic) ==
    [platform |-> platform, model |-> model, values |-> vals, candidates |-> candidates,
     family |-> family, interface |-> "i", topic |-> topic]

Testcases ==
    {[direction |-> d, variants |->
        <<V("L3", "R1", <<1, 0>>, <<"absent", "u8">>, "bus", FALSE),
          V("P", "R2", <<0, 1>>, <<"u8">>, "someip", FALSE)>>] : d \in {"READ", "WRITE"}} \cup
    {[direction |-> "WRITE", variants |->
        <<V("P", "R1", <<0>>, <<"s8">>, "bus", TRUE),
          V("P", "R2", <<1, -1>>, <<"u8", "s8">>, "someip", FALSE),
          V("P", "R2", <<0, 0, 1>>, <<"s8">>, "bus", FALSE)>>],
     [direction |-> "WRITE", variants |->
        <<V("P", "R1", <<-1>>, <<"u8", "absent">>, "bus", FALSE),
          V("L3", "R2", <<>>, <<"u8">>, "bus", FALSE)>>],
     [direction |-> "READ", variants |->
        <<V("P", "R1", <<1, -1>>, <<"s8", "u8">>, "bus", TRUE),
          V("P", "R2", <<1>>, <<"absent">>, "bus", FALSE)>>]}

Rule(model, contains) == [model |-> model, contains |-> contains]
Config(platform, rules, default, hints) ==
    [platform |-> platform, rules |-> rules, default |-> default, hints |-> hints]

TestConfigs ==
    {Config("P", <<Rule("R2", {"h2"})>>, "R1", <<"h2">>),
     Config("P", <<Rule("R2", {"h2"})>>, "R1", <<"h1">>),
     Config("P", <<>>, None, <<"h1">>),
     Config("P", <<>>, None, <<>>),
     Config("L3", <<Rule("R2", {"h2"}), Rule("R1", {"h1"})>>, None, <<"h1", "h2">>),
     Config("none", <<>>, None, <<>>)}

Resembling == {<<"h1", "R1">>, <<"h2", "R2">>}
=============================================================================
