----------------------------- MODULE MCNumeric -----------------------------
(***************************************************************************)
(* The two sequential functions on numbers, ParseUint and Backoff, in one  *)
(* instance: a behaviour is a call of one of them, while the other one has *)
(* returned.                                                               *)
(***************************************************************************)
EXTENDS Integers, Sequences

CONSTANTS
  Width, Bases, BitSizes, Chars, MaxLen,               \* see ParseUint
  BaseDelays, MaxDelays, Factors, Jitters, Retries,    \* see Backoff
  MaxDuration

VARIABLES
  arg, base, s, n, status, exact,
  conf, asked, retries, backoff, at

P == INSTANCE ParseUint
B == INSTANCE Backoff

ASSUME ParseAssumption ==
  /\ Width \in Nat \ {0} /\ 2 ^ Width \in Nat /\ 2 ^ Width > P!NoDigit
  /\ Bases \subseteq Nat /\ BitSizes \subseteq 0..Width
  /\ \A bits \in BitSizes : 2 ^ bits \in 1..2 ^ Width
  /\ Chars \subseteq 0..P!NoDigit /\ MaxLen \in Nat

ASSUME BackoffAssumption ==
  /\ MaxDuration \in Nat
  /\ BaseDelays \subseteq 0..MaxDuration /\ MaxDelays \subseteq 0..MaxDuration
  /\ Factors \subseteq Nat /\ Jitters \subseteq Nat
  /\ Retries \subseteq Int

MCRetries == {-1, 0, 1, 2, 5}

parsing == <<arg, base, s, n, status, exact>>
backing == <<conf, asked, retries, backoff, at>>

NoParse == [s |-> <<>>, base |-> 10, bitSize |-> 0]
NoConf == [BaseDelay |-> 0, MaxDelay |-> 0, Factor |-> 10, Jitter |-> 0]

MCInit ==
  \/ /\ P!Init
     /\ conf = NoConf /\ asked = 0 /\ retries = 0 /\ backoff = 0 /\ at = "done"
  \/ /\ B!Init
     /\ arg = NoParse /\ base = 10 /\ s = <<>> /\ n = 0 /\ status = "syntax" /\ exact = 0

MCNext ==
  \/ P!Prepare /\ UNCHANGED backing
  \/ P!Digit /\ UNCHANGED backing
  \/ P!Return /\ UNCHANGED backing
  \/ B!First /\ UNCHANGED parsing
  \/ B!Grow /\ UNCHANGED parsing
  \/ B!Randomize /\ UNCHANGED parsing

MCSpec == MCInit /\ [][MCNext]_<<parsing, backing>>

(***************************************************************************)
(* The word of the parser never wraps.                                     *)
(***************************************************************************)
NoWrap == P!NoWrap

(***************************************************************************)
(* Backoff stays within its bounds.                                        *)
(***************************************************************************)
DelayWithin == B!DelayWithin
=============================================================================
