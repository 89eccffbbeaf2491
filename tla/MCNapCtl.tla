------------------------------ MODULE MCNapCtl ------------------------------
(* NapCtl for TLC: CPUs and processes are interchangeable.                 *)
EXTENDS NapCtl, TLC

Symmetry == Permutations(CPU) \cup Permutations(Proc)
=============================================================================
