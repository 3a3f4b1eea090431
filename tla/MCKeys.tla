--------------------------------- MODULE MCKeys ---------------------------------
(***************************************************************************)
(* An instance of Keys for TLC: one process, two keys at a time.           *)
(***************************************************************************)
EXTENDS Keys, TLC

CONSTANTS k1, k2

Symmetry == Permutations(Keys)
=================================================================================
