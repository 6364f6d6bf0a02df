----------------------------- MODULE MCDownload -----------------------------
(* For the MCU: two versions; a package with the ELF in a nested archive,   *)
(* one with it at the top beside an archive that holds itself, one with two *)
(* ELFs, and answers that leave the choice between them.                    *)
EXTENDS Downloads, TLC

F(name, what, from) == [name |-> name, what |-> what, from |-> from]
R(id, version, mcu, size) ==
    [id |-> id, version |-> version, packed |-> TRUE, mcu |-> mcu,
     base |-> TRUE, perf |-> FALSE, size |-> size]

MCMembers ==
    [p1 |-> {F("n.zip", "zip", "n1"), F("map", "text", "v1")},
     n1 |-> {F("mcu_a.elf", "elf", "v1")},
     p2 |-> {F("mcu_b.elf", "elf", "v2"), F("pkg.zip", "zip", "n2")},
     n2 |-> {F("pkg.zip", "zip", "n2")},
     pp |-> {F("mcu_a.elf", "elf", "v1"), F("mcu_b.elf", "elf", "v2")},
     n |-> {}]
MCCatalogs ==
    {<<>>,
     <<R("p2", "v2", FALSE, 9), R("p1", "v1", FALSE, 1), R("n", "v1", FALSE, 0)>>,
     <<R("pp", "v1", FALSE, 2), R("p1", "v1", TRUE, 1), R("p2", "v2", TRUE, 1)>>,
     <<R("pp", "v1", TRUE, 2), R("p1", "v1", TRUE, 1)>>}
MCOldFiles ==
    {{}, {F("mcu_a.elf", "elf", "v0"), F("mcu_a.json", "text", "v0")}}

(* Four chapters: one of three pages, the last blank, that leads on to the  *)
(* next chapter, one of one page, one whose pages lead in a circle, and one *)
(* without text.  Two directory pages with the latest chapters ahead of the *)
(* body; or links without a body; or no chapter.                            *)
SomeChapters == {"c1", "c2", "c3", "c4"}
L(body, to) == [body |-> body, to |-> to]
SomeDirectories ==
    {<< <<L(FALSE, "c3"), L(TRUE, "c1"), L(TRUE, "other"), L(TRUE, "c4"), L(TRUE, "c2")>>,
        <<L(FALSE, "c3"), L(TRUE, "c2"), L(TRUE, "c1")>> >>,
     << <<L(FALSE, "c2"), L(FALSE, "other"), L(FALSE, "c1"), L(FALSE, "c3")>> >>,
     << <<L(TRUE, "other")>> >>}
NoNext == <<"none", 0>>
BlankPages == {<<"c4", 1>>, <<"c1", 3>>}
Links ==
    (<<"c1", 1>> :> <<"c1", 2>>) @@ (<<"c1", 2>> :> <<"c1", 3>>)
      @@ (<<"c1", 3>> :> <<"c2", 1>>) @@ (<<"c4", 1>> :> <<"c2", 1>>)
      @@ (<<"c2", 1>> :> NoNext)
      @@ (<<"c3", 1>> :> <<"c3", 2>>) @@ (<<"c3", 2>> :> <<"c3", 3>>)
      @@ (<<"c3", 3>> :> <<"c3", 2>>)
SomeLimits == {1, 5}
=============================================================================
