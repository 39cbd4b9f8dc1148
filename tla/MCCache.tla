------------------------------ MODULE MCCache ------------------------------
(***************************************************************************)
(* Cache for TLC: the callers are alike, and so are the keys.              *)
(***************************************************************************)
EXTENDS Cache, TLC

\* NoExpiration, and one unit of time.
NeverOrOne == {-1, 1}

Perms == Permutations(Callers) \cup Permutations(Keys)
=============================================================================
