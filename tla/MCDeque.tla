------------------------------ MODULE MCDeque ------------------------------
(***************************************************************************)
(* Bounded instances of LinkedBlockingDeque for TLC.  Node addresses are   *)
(* numbers, so that newNode takes the least one that is free.              *)
(***************************************************************************)
EXTENDS LinkedBlockingDeque

CONSTANT MaxNodes   \* bound on the insertions of a behaviour

MCNodes == 1..MaxNodes
MCConds == {"notEmpty", "notFull"}

(***************************************************************************)
(* States that differ in the last outcome only go on alike: out is a       *)
(* history variable that no guard reads.  The refinement, the only         *)
(* property that reads it, is checked on every step.                       *)
(***************************************************************************)
WithoutOutcome == <<listVars, op, arg, condVars>>
=============================================================================
