------------------------------ MODULE MCTasGui ------------------------------
(* One worker, two wigglers, two handles, one server, an index of up to two *)
(* entries of two classes, and three filter texts.                          *)
EXTENDS TasGui, TLC

MCRequests ==
    [serial: {1, 2}, portSel: {0}, serverIndex: {0}]
        \cup [serial: {NoDevice}, portSel: {1}, serverIndex: {0}]

MCFilters == {Names, {"a"}, {}}

PortSymmetry == Permutations(Ports)
=============================================================================
