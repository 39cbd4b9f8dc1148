---------------------------- MODULE NumericProofs ----------------------------
(***************************************************************************)
(* Proofs about the components whose state is nothing but numbers: the     *)
(* parser of the goroutine id, Backoff, and the limit listener, for every  *)
(* width of the word, bit size, base and string, every configuration of    *)
(* Backoff, every limit and all bounds.                                    *)
(***************************************************************************)
EXTENDS MCNumeric, LimitListener, TLAPS

(***************************************************************************)
(* The test against cutoff64 lets only those words through whose product   *)
(* with the base fits in a word.                                           *)
(***************************************************************************)
LEMMA CutoffExact ==
  ASSUME NEW m \in Nat, NEW b \in 2..36, NEW k \in Nat
  PROVE  k < m \div b + 1 <=> k * b <= m
<1>1. m \div b \in Nat /\ (m \div b) * b <= m /\ m < (m \div b + 1) * b
  OBVIOUS
<1>2. ASSUME k < m \div b + 1 PROVE k * b <= m
  <2>1. k <= m \div b
    BY <1>1, <1>2
  <2>2. k * b <= (m \div b) * b
    BY <1>1, <2>1
  <2> QED BY <1>1, <2>2
<1>3. ASSUME k >= m \div b + 1 PROVE k * b > m
  <2>1. k * b >= (m \div b + 1) * b
    BY <1>1, <1>3
  <2> QED BY <1>1, <2>1
<1> QED BY <1>1, <1>2, <1>3

(***************************************************************************)
(* A sum of a word and a digit wraps exactly when it is smaller than the   *)
(* word: the test n1 < n of the code.                                      *)
(***************************************************************************)
LEMMA WrapTest ==
  ASSUME NEW w \in Nat, w > 36, NEW a \in 0..(w - 1), NEW v \in 0..35
  PROVE  /\ a + v < w => (a + v) % w = a + v
         /\ a + v >= w => (a + v) % w < a
         /\ (a + v) % w \in 0..(w - 1)
<1>1. CASE a + v < w
  BY <1>1
<1>2. CASE a + v >= w
  <2>1. a + v = w * 1 + (a + v - w) /\ a + v - w \in 0..(w - 1)
    BY <1>2
  <2>2. (a + v) % w = a + v - w
    BY <2>1
  <2> QED BY <1>2, <2>2
<1> QED BY <1>1, <1>2

\* What is used of the assumptions on the constants.
LEMMA Constants ==
  /\ Bases \subseteq Nat /\ Chars \subseteq 0..36
  /\ P!Word \in Nat /\ P!Word > 36 /\ P!MaxWord = P!Word - 1 /\ P!MaxWord \in Nat
  /\ \A bits \in BitSizes : 2 ^ bits \in 1..P!Word
<1>1. Bases \subseteq Nat /\ Chars \subseteq 0..36
  BY ParseAssumption DEF P!NoDigit
<1>2. P!Word \in Nat /\ P!Word > 36
  BY ParseAssumption DEF P!NoDigit, P!Word
<1>3. \A bits \in BitSizes : 2 ^ bits \in 1..P!Word
  BY ParseAssumption DEF P!Word
<1> QED BY <1>1, <1>2, <1>3 DEF P!MaxWord

LEMMA Bounds ==
  ASSUME P!TypeOK
  PROVE  P!maxVal \in 0..P!MaxWord
<1>1. arg.bitSize \in BitSizes
  BY DEF P!TypeOK
<1>2. 2 ^ arg.bitSize \in 1..P!Word
  BY <1>1, Constants
<1>3. CASE arg.bitSize = 0
  BY <1>3, Constants DEF P!maxVal
<1>4. CASE arg.bitSize # 0
  <2>1. P!maxVal = 2 ^ arg.bitSize - 1
    BY <1>4 DEF P!maxVal
  <2> HIDE DEF P!maxVal
  <2> QED BY <1>2, <2>1, Constants
<1> QED BY <1>3, <1>4

\* The inductive invariant: nothing is read before the loop.
Fresh == status = "start" => n = 0 /\ exact = 0
IInv == P!TypeOK /\ NoWrap /\ Fresh

LEMMA InitIInv == P!Init => IInv
<1> SUFFICES ASSUME P!Init PROVE IInv
  OBVIOUS
<1>1. arg.s \in Seq(Chars) /\ arg \in [s : Seq(Chars), base : Bases, bitSize : BitSizes]
  <2>1. \A f \in P!Inputs : f \in Seq(Chars)
    <3> SUFFICES ASSUME NEW k \in 0..MaxLen, NEW f \in [1..k -> Chars] PROVE f \in Seq(Chars)
      BY DEF P!Inputs
    <3> QED BY ParseAssumption
  <2>2. arg \in [s : P!Inputs, base : Bases, bitSize : BitSizes]
    BY DEF P!Init
  <2> QED BY <2>1, <2>2
<1>2. base \in Nat /\ 0 \in 0..P!MaxWord
  <2>1. arg.base \in Bases
    BY <1>1
  <2> QED BY <2>1, Constants DEF P!Init
<1> QED BY <1>1, <1>2 DEF P!Init, IInv, P!TypeOK, NoWrap, P!NoWrap, Fresh

(***************************************************************************)
(* One digit: the three outcomes of the loop's body, without the string.   *)
(***************************************************************************)
LEMMA DigitWord ==
  ASSUME IInv, status = "loop", NEW v \in Chars, v < base
  PROVE  LET n0 == (n * base) % P!Word
             n1 == (n0 + v) % P!Word
         IN  /\ n1 \in 0..P!MaxWord /\ exact * base + v \in Nat
             /\ n >= P!cutoff64 => exact * base + v > P!maxVal
             /\ n < P!cutoff64 /\ P!Overflows(n0, n1) => exact * base + v > P!maxVal
             /\ n < P!cutoff64 /\ ~P!Overflows(n0, n1) =>
                  n1 = exact * base + v /\ exact * base + v <= P!maxVal
<1> DEFINE n0 == (n * base) % P!Word
           n1 == (n0 + v) % P!Word
<1>1. /\ n = exact /\ n \in 0..P!MaxWord /\ n \in Nat /\ base \in 2..36 /\ v \in 0..35
      /\ P!Word \in Nat /\ P!Word > 36 /\ P!MaxWord = P!Word - 1 /\ P!MaxWord \in Nat /\ P!maxVal \in 0..P!MaxWord
  <2>1. n = exact /\ n \in 0..P!MaxWord /\ base \in 2..36 /\ P!TypeOK
    BY DEF IInv, P!TypeOK, NoWrap, P!NoWrap
  <2>2. v \in 0..36
    BY Constants
  <2> QED BY <2>1, <2>2, Bounds, Constants
<1> HIDE DEF n0, n1
<1>2. n < P!cutoff64 <=> n * base <= P!MaxWord
  BY <1>1, CutoffExact DEF P!cutoff64
<1>3. n * base \in Nat /\ n0 \in 0..P!MaxWord
  BY <1>1 DEF n0
<1>4. n * base <= P!MaxWord => n0 = n * base
  BY <1>1, <1>3 DEF n0
<1>5. /\ n1 \in 0..P!MaxWord
      /\ n0 + v < P!Word => n1 = n0 + v
      /\ n0 + v >= P!Word => n1 < n0
  BY <1>1, <1>3, WrapTest DEF n1
<1>6. n >= P!cutoff64 => exact * base + v > P!maxVal
  <2>1. P!cutoff64 \in Int
    BY <1>1 DEF P!cutoff64
  <2> QED BY <1>1, <1>2, <1>3, <2>1
<1>7. n < P!cutoff64 /\ P!Overflows(n0, n1) => exact * base + v > P!maxVal
  BY <1>1, <1>2, <1>3, <1>4, <1>5 DEF P!Overflows
<1>8. n < P!cutoff64 /\ ~P!Overflows(n0, n1) =>
        n1 = exact * base + v /\ exact * base + v <= P!maxVal
  BY <1>1, <1>2, <1>3, <1>4, <1>5 DEF P!Overflows
<1>9. exact * base + v \in Nat
  BY <1>1, <1>3
<1> QED BY <1>5, <1>6, <1>7, <1>8, <1>9 DEF n0, n1

LEMMA NextIInv == IInv /\ [P!Next]_(P!vars) => IInv'
<1> SUFFICES ASSUME IInv, [P!Next]_(P!vars) PROVE IInv'
  OBVIOUS
<1>0. /\ arg \in [s : Seq(Chars), base : Bases, bitSize : BitSizes] /\ base \in Nat
      /\ s \in Seq(Chars) /\ n \in 0..P!MaxWord /\ exact \in Nat
  BY DEF IInv, P!TypeOK
<1>1. CASE P!Prepare
  <2>1. P!maxVal \in Int /\ P!maxVal >= 0 /\ 0 \in 0..P!MaxWord
    BY Bounds, Constants DEF IInv
  <2>2. CASE status' = "loop"
    <3>1. base' \in 2..36 /\ s' \in Seq(Chars)
      <4>1. CASE P!Valid(base) /\ P!Begin(base, s)
        BY <1>0, <4>1 DEF P!Valid, P!Begin
      <4>2. CASE Len(s) > 2 /\ P!Begin(16, SubSeq(s, 3, Len(s)))
        BY <1>0, <4>2 DEF P!Begin
      <4>3. CASE P!Begin(8, s) \/ P!Begin(10, s)
        BY <1>0, <4>3 DEF P!Begin
      <4>4. status' # "syntax" /\ status' # "base"
        BY <2>2
      <4>5. s # <<>> /\ Len(s) \in Nat /\ Len(s) > 0
        BY <1>0, <1>1, <4>4 DEF P!Prepare, P!Fail
      <4>6. \/ P!Valid(base) /\ P!Begin(base, s)
            \/ Len(s) > 1 /\ Len(s) # 2 /\ P!Begin(16, SubSeq(s, 3, Len(s)))
            \/ P!Begin(8, s) \/ P!Begin(10, s)
        BY <1>1, <4>4, Zenon DEF P!Prepare, P!Fail
      <4>7. Len(s) > 1 /\ Len(s) # 2 => Len(s) > 2
        <5>1. \A k \in Nat : k > 1 /\ k # 2 => k > 2
          OBVIOUS
        <5> QED BY <4>5, <5>1
      <4> QED BY <4>1, <4>2, <4>3, <4>6, <4>7
    <3> QED BY <1>0, <1>1, <2>1, <2>2, <3>1 DEF P!Prepare, IInv, P!TypeOK, NoWrap, P!NoWrap, Fresh, P!maxVal
  <2>3. CASE status' # "loop"
    <3>1. status' \in {"syntax", "base"} /\ UNCHANGED <<base, s>>
      BY <1>1, <2>3 DEF P!Prepare, P!Fail, P!Begin
    <3> QED BY <1>0, <1>1, <2>3, <3>1 DEF P!Prepare, IInv, P!TypeOK, NoWrap, P!NoWrap, Fresh
  <2> QED BY <2>2, <2>3
<1>2. CASE P!Digit
  <2>1. status = "loop" /\ s # <<>> /\ UNCHANGED <<arg, base>> /\ UNCHANGED P!maxVal
    BY <1>2 DEF P!Digit, P!maxVal
  <2>2. s[1] \in Chars /\ Tail(s) \in Seq(Chars)
    BY <1>0, <2>1
  <2> DEFINE n0 == (n * base) % P!Word
             n1 == (n0 + s[1]) % P!Word
  <2>3. base \in 2..36 /\ P!MaxWord \in Nat /\ s[1] \in Nat
    <3>1. base \in 2..36
      BY <2>1 DEF IInv, P!TypeOK
    <3>2. s[1] \in 0..36
      BY <2>2, Constants
    <3> QED BY <3>1, <3>2, Constants
  <2>4. CASE s[1] >= base
    <3>1. n' = 0 /\ status' = "syntax" /\ UNCHANGED <<s, exact>>
      BY <1>2, <2>3, <2>4 DEF P!Digit
    <3> QED BY <1>0, <2>1, <2>3, <3>1 DEF IInv, P!TypeOK, NoWrap, P!NoWrap, Fresh
  <2>5. CASE s[1] < base
    <3> HIDE DEF n0, n1
    <3>1. /\ n1 \in 0..P!MaxWord /\ exact * base + s[1] \in Nat
          /\ n >= P!cutoff64 => exact * base + s[1] > P!maxVal
          /\ n < P!cutoff64 /\ P!Overflows(n0, n1) => exact * base + s[1] > P!maxVal
          /\ n < P!cutoff64 /\ ~P!Overflows(n0, n1) =>
               n1 = exact * base + s[1] /\ exact * base + s[1] <= P!maxVal
      BY <2>1, <2>2, <2>5, DigitWord DEF n0, n1
    <3>2. /\ s' = Tail(s) /\ exact' = exact * base + s[1]
          /\ \/ n >= P!cutoff64 /\ n' = P!MaxWord /\ status' = "range"
             \/ n < P!cutoff64 /\ P!Overflows(n0, n1) /\ n' = P!MaxWord /\ status' = "range"
             \/ n < P!cutoff64 /\ ~P!Overflows(n0, n1) /\ n' = n1 /\ status' = status
      BY <1>2, <2>3, <2>5 DEF P!Digit, n0, n1
    <3>3. CASE status' = "range"
      <4>1. n' = P!MaxWord /\ exact' > P!maxVal /\ exact' \in Nat
        BY <2>1, <3>1, <3>2, <3>3
      <4> QED BY <1>0, <2>1, <2>2, <2>3, <3>2, <3>3, <4>1 DEF IInv, P!TypeOK, NoWrap, P!NoWrap, Fresh, P!MaxWord, P!Word
    <3>4. CASE status' = "loop"
      <4>1. n' = exact' /\ exact' <= P!maxVal /\ exact' \in Nat /\ n' \in 0..P!MaxWord
        BY <3>1, <3>2, <3>4
      <4> QED BY <1>0, <2>1, <2>2, <2>3, <3>2, <3>4, <4>1 DEF IInv, P!TypeOK, NoWrap, P!NoWrap, Fresh, P!MaxWord, P!Word
    <3> QED BY <2>1, <3>2, <3>3, <3>4
  <2> QED BY <1>0, <2>3, <2>4, <2>5
<1>3. CASE P!Return
  BY <1>0, <1>3 DEF P!Return, IInv, P!TypeOK, NoWrap, P!NoWrap, Fresh, P!maxVal
<1>4. CASE UNCHANGED P!vars
  BY <1>4 DEF P!vars, IInv, P!TypeOK, NoWrap, P!NoWrap, Fresh, P!maxVal
<1> QED BY <1>1, <1>2, <1>3, <1>4 DEF P!Next

(***************************************************************************)
(* Type correctness of the parser.                                         *)
(***************************************************************************)
THEOREM TypeCorrect == P!Spec => []P!TypeOK
<1>1. P!Spec => []IInv
  BY InitIInv, NextIInv, PTL DEF P!Spec
<1>2. IInv => P!TypeOK
  BY DEF IInv
<1> QED BY <1>1, <1>2, PTL

(***************************************************************************)
(* The word is the number read so far, never wraps, and out of range is    *)
(* reported exactly when that number leaves the range of bitSize.          *)
(***************************************************************************)
THEOREM NeverWraps == P!Spec => []NoWrap
<1>1. P!Spec => []IInv
  BY InitIInv, NextIInv, PTL DEF P!Spec
<1>2. IInv => NoWrap
  BY DEF IInv
<1> QED BY <1>1, <1>2, PTL

-----------------------------------------------------------------------------
(***************************************************************************)
(* Backoff.  While the delay grows it is a natural number, and with a      *)
(* factor of one or more not below the base delay.                         *)
(***************************************************************************)
ConfOK ==
  /\ conf.BaseDelay \in Nat /\ conf.MaxDelay \in Nat
  /\ conf.Factor \in Nat /\ conf.Jitter \in Nat /\ MaxDuration \in Nat

BackoffInv ==
  /\ ConfOK
  /\ backoff \in Int /\ (at # "done" => backoff \in Nat)
  /\ at = "loop" /\ conf.Factor >= 10 => backoff >= conf.BaseDelay
  /\ at = "start" => retries = asked /\ backoff = conf.BaseDelay
  /\ DelayWithin

\* A tenth part, rounded down.
LEMMA Tenth ==
  ASSUME NEW x \in Int
  PROVE  x \div 10 \in Int /\ 10 * (x \div 10) <= x /\ x < 10 * ((x \div 10) + 1)
OBVIOUS

LEMMA Monotone ==
  ASSUME NEW a \in Int, NEW b \in Int, NEW k \in Nat, a <= b
  PROVE  a * k <= b * k
<1>1. b - a \in Nat
  OBVIOUS
<1>2. (b - a) * k \in Nat /\ a * k \in Int /\ b * k \in Int
  BY <1>1
<1>3. (b - a) * k = b * k - a * k
  OBVIOUS
<1> QED
  BY <1>2, <1>3

\* Growing by a factor of one or more does not take a delay back.
LEMMA Growing ==
  ASSUME NEW b \in Nat, NEW f \in Nat
  PROVE  /\ (b * f) \div 10 \in Nat
         /\ f >= 10 => (b * f) \div 10 >= b
<1>1. b * f \in Nat /\ 10 * b = 10 * b
  OBVIOUS
<1>2. (b * f) \div 10 \in Int /\ b * f < 10 * (((b * f) \div 10) + 1)
  BY <1>1, Tenth
<1>3. ASSUME f >= 10 PROVE b * f >= 10 * b
  <2>1. 10 * b <= f * b
    BY <1>3, Monotone
  <2>2. f * b = b * f
    OBVIOUS
  <2> QED
    BY <2>1, <2>2
<1> DEFINE q == (b * f) \div 10
           p == b * f
<1> HIDE DEF q, p
<1>4. q \in Int /\ p < 10 * (q + 1) /\ p \in Nat /\ (f >= 10 => p >= 10 * b)
  BY <1>1, <1>2, <1>3 DEF q, p
<1>5. q \in Nat /\ (f >= 10 => q >= b)
  BY <1>4
<1> QED
  BY <1>5 DEF q

(***************************************************************************)
(* A delay c between m and M, in tenths and off by r of them, j at most.   *)
(***************************************************************************)
LEMMA Jittered ==
  ASSUME NEW c \in Nat, NEW M \in Nat, c <= M, NEW m \in Nat,
         NEW j \in Nat, NEW r \in -j..j
  PROVE  LET d == (c * (10 + r)) \div 10
             e == IF d < 0 THEN 0 ELSE d
         IN /\ e \in Nat
            /\ 10 * e <= M * (10 + j)
            /\ m <= c => 10 * (e + 1) > m * (10 - j)
<1> DEFINE p == c * (10 + r)
           d == p \div 10
           e == IF d < 0 THEN 0 ELSE d
           up == M * (10 + j)
           lo == m * (10 - j)
<1>1. p \in Int /\ up \in Nat /\ lo \in Int
  OBVIOUS
<1>2. p <= up
  <2>1. (10 + r) * c <= (10 + j) * c
    BY Monotone
  <2>2. c * (10 + j) <= M * (10 + j)
    BY Monotone
  <2>3. (10 + r) * c = p /\ (10 + j) * c = c * (10 + j)
    OBVIOUS
  <2>4. c * (10 + j) \in Int
    OBVIOUS
  <2> QED
    BY <1>1, <2>1, <2>2, <2>3, <2>4
<1>3. m <= c => lo <= p \/ lo <= 0
  <2> SUFFICES ASSUME m <= c, j <= 10 PROVE lo <= p
    <3>1. ASSUME j > 10 PROVE lo <= 0
      <4>1. (10 - j) * m <= 0 * m
        BY <3>1, Monotone
      <4>2. (10 - j) * m = lo /\ 0 * m = 0
        OBVIOUS
      <4> QED
        BY <4>1, <4>2
    <3> HIDE DEF lo, p
    <3> QED
      BY <3>1
  <2>1. 10 - j \in Nat
    OBVIOUS
  <2>2. m * (10 - j) <= c * (10 - j)
    BY <2>1, Monotone
  <2>3. (10 - j) * c <= (10 + r) * c
    BY Monotone
  <2>4. (10 + r) * c = p /\ (10 - j) * c = c * (10 - j) /\ c * (10 - j) \in Int
    OBVIOUS
  <2> QED
    BY <1>1, <2>2, <2>3, <2>4
<1> HIDE DEF p, up, lo
<1>4. d \in Int /\ 10 * d <= p /\ p < 10 * (d + 1)
  BY <1>1, Tenth
<1> HIDE DEF d
<1>5. e \in Nat /\ 10 * e <= up /\ (m <= c => 10 * (e + 1) > lo)
  BY <1>1, <1>2, <1>3, <1>4
<1> QED
  BY <1>5 DEF d, p, up, lo

LEMMA BackoffInit ==
  B!Init => BackoffInv
<1> SUFFICES ASSUME B!Init PROVE BackoffInv
  OBVIOUS
<1>1. /\ conf \in [BaseDelay : BaseDelays, MaxDelay : MaxDelays, Factor : Factors,
                   Jitter : Jitters]
      /\ retries = asked /\ backoff = conf.BaseDelay /\ at = "start"
  BY DEF B!Init, B!Confs
<1>2. ConfOK
  <2>1. 0..MaxDuration \subseteq Nat /\ MaxDuration \in Nat
    BY BackoffAssumption
  <2>2. /\ conf.BaseDelay \in BaseDelays /\ conf.MaxDelay \in MaxDelays
        /\ conf.Factor \in Factors /\ conf.Jitter \in Jitters
    BY <1>1
  <2> QED
    BY <2>1, <2>2, BackoffAssumption DEF ConfOK
<1> QED
  BY <1>1, <1>2 DEF BackoffInv, ConfOK, DelayWithin, B!DelayWithin

LEMMA BackoffStep ==
  BackoffInv /\ [B!Next]_(B!vars) => BackoffInv'
<1> SUFFICES ASSUME BackoffInv, [B!Next]_(B!vars) PROVE BackoffInv'
  OBVIOUS
<1>1. CASE B!First
  <2>1. /\ at = "start" /\ at' = IF retries = 0 THEN "done" ELSE "loop"
        /\ UNCHANGED <<conf, asked, retries, backoff>>
    BY <1>1 DEF B!First
  <2>2. at' = "done" => asked' = 0
    BY <2>1 DEF BackoffInv
  <2>3. DelayWithin'
    BY <2>2 DEF DelayWithin, B!DelayWithin
  <2>4. backoff = conf.BaseDelay /\ ConfOK
    BY <2>1 DEF BackoffInv
  <2> QED
    BY <2>1, <2>3, <2>4 DEF BackoffInv, ConfOK
<1>2. CASE B!Grow
  <2>1. /\ at = "loop" /\ backoff' = (backoff * conf.Factor) \div 10
        /\ UNCHANGED <<conf, asked, at>>
    BY <1>2 DEF B!Grow
  <2>2. /\ backoff' \in Nat
        /\ conf.Factor >= 10 => backoff' >= backoff
    BY <2>1, Growing DEF BackoffInv, ConfOK
  <2>3. DelayWithin'
    BY <2>1 DEF DelayWithin, B!DelayWithin
  <2> QED
    BY <2>1, <2>2, <2>3 DEF BackoffInv, ConfOK
<1>3. CASE B!Randomize
  <2>1. PICK r \in -conf.Jitter..conf.Jitter :
          LET d == (B!Clamp(backoff) * (10 + r)) \div 10
          IN  backoff' \in IF d < 0 THEN {0} ELSE B!Converted(d)
    BY <1>3 DEF B!Randomize
  <2>2. at = "loop" /\ at' = "done" /\ UNCHANGED <<conf, asked, retries>>
    BY <1>3 DEF B!Randomize
  <2> DEFINE c == B!Clamp(backoff)
             m == B!Smaller(conf.BaseDelay, conf.MaxDelay)
  <2>3. /\ c \in Nat /\ m \in Nat /\ conf.MaxDelay \in Nat /\ conf.Jitter \in Nat
        /\ c <= conf.MaxDelay
        /\ conf.Factor >= 10 => m <= c
    BY <2>2 DEF BackoffInv, ConfOK, B!Clamp, B!Smaller
  <2> DEFINE d == (c * (10 + r)) \div 10
             e == IF d < 0 THEN 0 ELSE d
             up == conf.MaxDelay * (10 + conf.Jitter)
             lo == m * (10 - conf.Jitter)
  <2>4. backoff' \in IF d < 0 THEN {0} ELSE B!Converted(d)
    BY <2>1
  <2> HIDE DEF c, m
  <2>5. /\ e \in Nat /\ 10 * e <= up
        /\ m <= c => 10 * (e + 1) > lo
    BY <2>3, Jittered
  <2>6. d \in Int /\ up \in Nat /\ lo \in Int /\ MaxDuration \in Nat
    <3>1. c * (10 + r) \in Int
      BY <2>3
    <3> QED
      BY <2>2, <2>3, <3>1, Tenth DEF BackoffInv, ConfOK
  <2>7. B!Fits <=> up < 10 * MaxDuration
    BY DEF B!Fits
  <2> HIDE DEF d, up, lo
  <2>8. backoff' \in Int
    BY <2>4, <2>6 DEF B!Converted, B!Durations
  <2>9. B!Fits => backoff' = e
    BY <2>4, <2>5, <2>6, <2>7 DEF B!Converted
  <2>10. DelayWithin'
    <3>1. B!Fits' <=> B!Fits
      BY <2>2 DEF B!Fits
    <3>2. B!Fits => /\ 10 * backoff' <= up
                    /\ conf.Factor >= 10 => 10 * (backoff' + 1) > lo
      BY <2>3, <2>5, <2>9
    <3> QED
      BY <2>2, <3>1, <3>2 DEF up, lo, m, DelayWithin, B!DelayWithin, B!Smaller
  <2> QED
    BY <2>2, <2>8, <2>10 DEF BackoffInv, ConfOK
<1>4. CASE UNCHANGED B!vars
  BY <1>4 DEF B!vars, BackoffInv, ConfOK, DelayWithin, B!DelayWithin, B!Fits, B!Smaller
<1> QED
  BY <1>1, <1>2, <1>3, <1>4 DEF B!Next

(***************************************************************************)
(* After any number of failures, with any delays, factor and jitter whose  *)
(* largest product fits into a Duration, the delay is at most MaxDelay and *)
(* the jitter, and with a factor of one or more it is not below the        *)
(* smaller of the two delays without the jitter.                           *)
(***************************************************************************)
THEOREM DelayBounded == B!Spec => []DelayWithin
<1>1. BackoffInv => DelayWithin
  BY DEF BackoffInv
<1> QED
  BY <1>1, BackoffInit, BackoffStep, PTL DEF B!Spec

-----------------------------------------------------------------------------
(***************************************************************************)
(* The limit listener.  Its promises follow from one inductive invariant.  *)
(***************************************************************************)

(***************************************************************************)
(* The inductive invariant.  The types alone are not inductive: that cur   *)
(* stays a natural number when it is decremented needs CurExact.           *)
(***************************************************************************)
ListenerInv == TypeOK /\ TokenAccounting

(***************************************************************************)
(* release keeps the books: cur and popping after it, given that one of    *)
(* the calls and connections that cur counts is there to be released.      *)
(***************************************************************************)
LEMMA ReleaseBooks ==
  ASSUME TypeOK, cur > 0, release
  PROVE  /\ cur' \in Nat /\ cur' = cur - 1
         /\ popping' \in Nat
         /\ OverMax' + popping' = OverMax + popping
BY ListenerAssumption DEF TypeOK, release, OverMax

LEMMA ListenerInit ==
  ASSUME Init
  PROVE  ListenerInv
BY ListenerAssumption DEF Init, ListenerInv, TypeOK, TokenAccounting, CurExact, TokensExact,
       OverMax

LEMMA ListenerStep ==
  ASSUME ListenerInv, [Next]_vars
  PROVE  ListenerInv'
<1> USE ListenerAssumption DEF ListenerInv, TypeOK, TokenAccounting, CurExact, TokensExact
<1>1. CASE AcquireAdd
  BY <1>1 DEF AcquireAdd, OverLimit, OverMax
<1>2. CASE AcquirePush
  BY <1>2 DEF AcquirePush, OverMax
<1>3. CASE AcquireFail
  BY <1>3 DEF AcquireFail, OverMax
<1>4. CASE AcceptError
  <2>1. cur > 0 /\ release
    BY <1>4 DEF AcceptError
  <2> QED
    BY <1>4, <2>1, ReleaseBooks DEF AcceptError
<1>5. CASE AcceptConn
  BY <1>5 DEF AcceptConn, OverMax
<1>6. CASE AcceptRefused
  <2>1. cur > 0 /\ release
    BY <1>6 DEF AcceptRefused
  <2> QED
    BY <1>6, <2>1, ReleaseBooks DEF AcceptRefused
<1>7. CASE Close
  <2>1. cur > 0 /\ release
    BY <1>7 DEF Close
  <2> QED
    BY <1>7, <2>1, ReleaseBooks DEF Close
<1>8. CASE Forget
  BY <1>8 DEF Forget, OverMax
<1>9. CASE ReleasePop
  BY <1>9 DEF ReleasePop, OverMax
<1>10. CASE CloseAgain \/ UNCHANGED vars
  BY <1>10 DEF CloseAgain, vars, OverMax
<1> QED
  BY <1>1, <1>2, <1>3, <1>4, <1>5, <1>6, <1>7, <1>8, <1>9, <1>10 DEF Next

(***************************************************************************)
(* The type invariant and the accounting of cur and sem hold for ever.     *)
(***************************************************************************)
THEOREM Accounting ==
  Spec => [](TypeOK /\ TokenAccounting)
<1>1. Init => ListenerInv
  BY ListenerInit
<1>2. ListenerInv /\ [Next]_vars => ListenerInv'
  BY ListenerStep
<1> QED
  BY <1>1, <1>2, PTL DEF Spec, ListenerInv

(***************************************************************************)
(* Open connections are at most twice the limit, plus the calls that were  *)
(* turned down: what the listener guarantees instead of its promise.       *)
(***************************************************************************)
THEOREM OpenConnectionsBounded ==
  Spec => []OpenBound
<1>1. TypeOK /\ TokenAccounting => OpenBound
  BY ListenerAssumption DEF TypeOK, TokenAccounting, CurExact, TokensExact, OverMax,
         OpenBound
<1> QED
  BY <1>1, Accounting, PTL

(***************************************************************************)
(* No release is stuck until a call of Accept has been turned down.        *)
(***************************************************************************)
THEOREM ReleaseServed ==
  Spec => []ReleaseNotStuck
<1>1. TypeOK /\ TokenAccounting => ReleaseNotStuck
  BY ListenerAssumption DEF TypeOK, TokenAccounting, TokensExact, OverMax, ReleaseNotStuck
<1> QED
  BY <1>1, Accounting, PTL
=============================================================================
