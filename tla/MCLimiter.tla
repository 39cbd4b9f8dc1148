----------------------------- MODULE MCLimiter -----------------------------
(***************************************************************************)
(* Limiter with the callers taken for alike, and the channels as well.     *)
(***************************************************************************)
EXTENDS Limiter, TLC

Symmetry == Permutations(Callers) \cup Permutations(Chans)
=============================================================================
