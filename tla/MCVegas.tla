------------------------------ MODULE MCVegas ------------------------------
(***************************************************************************)
(* Vegas with the callers taken for alike.                                 *)
(***************************************************************************)
EXTENDS Vegas, TLC

Symmetry == Permutations(Callers)
=============================================================================
