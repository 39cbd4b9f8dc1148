----------------------------- MODULE ParseUint -----------------------------
(***************************************************************************)
(* gid.parseUintBytes, the parser of the goroutine id: one step per digit, *)
(* on words of Width bits (64 in the code), which wrap.  A character is    *)
(* the value of the digit it stands for; those that stand for none are     *)
(* NoDigit.  GoID is the case of base 10 and the full width.               *)
(***************************************************************************)
EXTENDS Integers, Sequences

CONSTANTS
  Width,     \* the bits of a word
  Bases,     \* arguments tried: base,
  BitSizes,  \*                  bitSize
  Chars,     \*                  the characters of s
  MaxLen     \*                  and its length

LetterX == 33   \* the digit 'x' or 'X'
NoDigit == 36

VARIABLES
  arg,     \* the arguments
  base,    \* base, once a prefix of s was looked at
  s,       \* what is left of s
  n,       \* the word
  status,  \* "start", "loop", or the result: "ok", "syntax", "range", "base"
  exact    \* history: the number that the digits read so far stand for

vars == <<arg, base, s, n, status, exact>>

Word == 2 ^ Width
MaxWord == Word - 1

Inputs == UNION {[1..k -> Chars] : k \in 0..MaxLen}

Init ==
  /\ arg \in [s : Inputs, base : Bases, bitSize : BitSizes]
  /\ base = arg.base /\ s = arg.s /\ n = 0 /\ status = "start" /\ exact = 0

\* An intSize that is not given is that of a word.
maxVal == IF arg.bitSize = 0 THEN MaxWord ELSE 2 ^ arg.bitSize - 1

Valid(b) == b \in 2..36

Begin(b, rest) == base' = b /\ s' = rest /\ status' = "loop"
Fail(err) == status' = err /\ UNCHANGED <<base, s>>

\* The switch on the length of s and on base.
Prepare ==
  /\ status = "start"
  /\ \/ s = <<>> /\ Fail("syntax")
     \/ s # <<>> /\ Valid(base) /\ Begin(base, s)
     \/ /\ s # <<>> /\ base = 0
        /\ \/ /\ s[1] = 0 /\ Len(s) > 1 /\ s[2] = LetterX
              /\ IF Len(s) = 2 THEN Fail("syntax") ELSE Begin(16, SubSeq(s, 3, Len(s)))
           \/ /\ s[1] = 0 /\ ~(Len(s) > 1 /\ s[2] = LetterX)
              /\ Begin(8, s)
           \/ s[1] # 0 /\ Begin(10, s)
     \/ s # <<>> /\ base # 0 /\ ~Valid(base) /\ Fail("base")
  /\ UNCHANGED <<arg, n, exact>>

\* Mutant: the first number that overflows is rounded down.
CutoffDown == Word \div base

cutoff64 == MaxWord \div base + 1

Overflows(n0, n1) == n1 < n0 \/ n1 > maxVal

Digit ==
  /\ status = "loop" /\ s # <<>>
  /\ LET v == s[1]
         n0 == (n * base) % Word
         n1 == (n0 + v) % Word
     IN  \/ /\ v >= base
            /\ n' = 0 /\ status' = "syntax" /\ UNCHANGED <<s, exact>>
         \/ /\ v < base /\ n >= cutoff64
            /\ n' = MaxWord /\ status' = "range"
            /\ s' = Tail(s) /\ exact' = exact * base + v
         \/ /\ v < base /\ n < cutoff64 /\ Overflows(n0, n1)
            /\ n' = MaxWord /\ status' = "range"
            /\ s' = Tail(s) /\ exact' = exact * base + v
         \/ /\ v < base /\ n < cutoff64 /\ ~Overflows(n0, n1)
            /\ n' = n1 /\ UNCHANGED status
            /\ s' = Tail(s) /\ exact' = exact * base + v
  /\ UNCHANGED <<arg, base>>

Return ==
  /\ status = "loop" /\ s = <<>>
  /\ status' = "ok"
  /\ UNCHANGED <<arg, base, s, n, exact>>

Next == Prepare \/ Digit \/ Return

Spec == Init /\ [][Next]_vars
-----------------------------------------------------------------------------
\* Type invariant.
TypeOK ==
  /\ arg \in [s : Seq(Chars), base : Bases, bitSize : BitSizes]
  /\ base \in Nat /\ s \in Seq(Chars)
  /\ n \in 0..MaxWord /\ exact \in Nat
  /\ status \in {"start", "loop", "ok", "syntax", "range", "base"}
  /\ status = "loop" => base \in 2..36

(***************************************************************************)
(* The word never wraps: while digits are read it is the number that they  *)
(* stand for, and within bitSize; out of range is reported exactly at the  *)
(* first digit that takes that number over maxVal.                         *)
(***************************************************************************)
NoWrap ==
  /\ status \in {"loop", "ok"} => n = exact /\ exact <= maxVal
  /\ status = "range" => n = MaxWord /\ exact > maxVal
=============================================================================
