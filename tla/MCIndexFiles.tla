---------------------------- MODULE MCIndexFiles ----------------------------
(* Two builds, one version and none; GUI and Python on the same files for   *)
(* two seconds, each alone for three, the GUI also with modification times  *)
(* that a copy carries over.                                                *)
EXTENDS IndexFiles, TLC

Setting(p, t) == [procs |-> p, touch |-> t]

MCSettings ==
    {Setting({"gui", "python"}, TRUE), Setting({"gui"}, FALSE), Setting({"python"}, FALSE)}
PythonOnly == {Setting({"python"}, TRUE)}

MCMaxClock == [p \in SUBSET {"gui", "python"} |-> IF p = {"gui", "python"} THEN 2 ELSE 3]

BuildSymmetry == Permutations(Builds)
=============================================================================
