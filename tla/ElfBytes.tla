------------------------------ MODULE ElfBytes ------------------------------
(***************************************************************************)
(* What a section promises its callers: a string of bytes that set_data     *)
(* replaces and insert_data opens at a place; nothing else changes it.      *)
(***************************************************************************)
EXTENDS Integers, Sequences

CONSTANTS
    Wholes,  \* what the section may be set to
    Pieces   \* what may be put into it

VARIABLE content

\* "s" put into "c" behind its first "pos" bytes.
Spliced(c, pos, s) ==
    [i \in 1..(Len(c) + Len(s)) |->
       IF i <= pos THEN c[i] ELSE IF i <= pos + Len(s) THEN s[i - pos] ELSE c[i - Len(s)]]

Set(s) == content' = s

Insert(pos, s) == content' = Spliced(content, pos, s)

Next == \/ \E s \in Wholes : Set(s)
        \/ \E pos \in 0..Len(content), s \in Pieces : Insert(pos, s)

Init == content = <<>>

Spec == Init /\ [][Next]_content
=============================================================================
