-------------------------- MODULE MCDequeIterator --------------------------
(* Bounded instances of DequeIterator for TLC. *)
EXTENDS DequeIterator, TLC

CONSTANT MaxNodes   \* bound on the insertions of a behaviour

MCNodes == 1..MaxNodes
MCConds == {"notEmpty", "notFull"}

\* States that differ in the last outcome only go on alike (see MCDeque).
WithoutOutcome == <<listVars, op, arg, condVars, iterVars>>

\* Elements are only compared, so they may be exchanged.
Symmetry == Permutations(Elems)
=============================================================================
