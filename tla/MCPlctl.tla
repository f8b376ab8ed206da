------------------------------ MODULE MCPlctl ------------------------------
(* Small instances of Plctl.                                               *)
EXTENDS Plctl, TLC

Symmetry == Permutations(Tasks) \cup Permutations(Conns)
=============================================================================
