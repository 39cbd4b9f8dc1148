------------------------------- MODULE CoDel -------------------------------
(***************************************************************************)
(* grate.CoDel: a queue of callers that wait for a verdict.  Push takes an *)
(* unbuffered channel from a pool, enqueues it without waiting and then    *)
(* waits on it; Pop takes packets off the queue and sends verdicts without *)
(* waiting, until a caller that is admitted has received its own or the    *)
(* queue is empty.  A packet whose caller is not (or no longer) waiting is *)
(* skipped and its channel put back, even if the caller is about to wait   *)
(* on it, so that two callers may come to wait on one channel.             *)
(*                                                                         *)
(* The module has no Next of its own: the limiter calls Push and Pop.      *)
(***************************************************************************)
EXTENDS Integers, Sequences, FiniteSets

CONSTANTS
  Callers,
  Target, Internal,  \* CoDelOption
  QueueCap,          \* the capacity 2048 of packets
  Chans,             \* bound on the channels the pool makes
  NoChan

CoDelAssumption ==
  /\ NoChan \notin Chans
  /\ Target \in Nat /\ Internal \in Nat /\ QueueCap \in Nat \ {0}

VARIABLES
  now,         \* the clock; starts at one, 0 being the faTime "below target"
  packets,     \* the channel of queued packets
  pool, fresh, \* channels in the pool; channels that were never made
  count, dropping, faTime, dropNext,
  qpc,         \* [Callers -> where the caller is in Push or Pop]
  pkt,         \* [Callers -> the packet it pushes or has popped]
  reading,     \* [Callers -> the local now of judge]
  verdict      \* [Callers -> the verdict of judge, or the one received]

control == <<count, dropping, faTime, dropNext>>
locals == <<pkt, reading, verdict>>
vars == <<now, packets, pool, fresh, control, qpc, locals>>

NoPacket == [dropChan |-> NoChan, timestamp |-> 0]

\* NewCoDel.
Init ==
  /\ now = 1 /\ packets = <<>> /\ pool = {} /\ fresh = Chans
  /\ count = 0 /\ dropping = FALSE /\ faTime = 0 /\ dropNext = 0
  /\ qpc = [c \in Callers |-> "out"] /\ pkt = [c \in Callers |-> NoPacket]
  /\ reading = [c \in Callers |-> 0] /\ verdict = [c \in Callers |-> FALSE]

Go(c, from, to) == qpc[c] = from /\ qpc' = [qpc EXCEPT ![c] = to]
-----------------------------------------------------------------------------
(* Push. *)

\* The pool hands out a channel it holds or makes one: a sync.Pool does not
\* look at the channels that other processors hold.
PushGet(c) ==
  /\ Go(c, "out", "enqueue")
  /\ \/ \E ch \in pool :
          /\ pool' = pool \ {ch}
          /\ pkt' = [pkt EXCEPT ![c] = [dropChan |-> ch, timestamp |-> now]]
          /\ UNCHANGED fresh
     \/ \E ch \in fresh :
          /\ fresh' = fresh \ {ch}
          /\ pkt' = [pkt EXCEPT ![c] = [dropChan |-> ch, timestamp |-> now]]
          /\ UNCHANGED pool
  /\ UNCHANGED <<now, packets, control, reading, verdict>>

\* The first select: the caller goes on to the second one, or is refused.
PushEnqueue(c) ==
  /\ Len(packets) < QueueCap
  /\ Go(c, "enqueue", "wait")
  /\ packets' = Append(packets, pkt[c])
  /\ UNCHANGED <<now, pool, fresh, control, locals>>

\* Leave Push with an error.
Fail(c, from) ==
  /\ Go(c, from, "failed")
  /\ pkt' = [pkt EXCEPT ![c] = NoPacket]
  /\ verdict' = [verdict EXCEPT ![c] = FALSE]

PushFull(c) ==
  /\ Len(packets) = QueueCap
  /\ Fail(c, "enqueue")
  /\ pool' = pool \cup {pkt[c].dropChan}
  /\ UNCHANGED <<now, packets, fresh, control, reading>>

\* Mutant: the channel is put back when the context ends, too.
PushDonePut(c) ==
  /\ qpc[c] = "wait"
  /\ Fail(c, "wait")
  /\ pool' = pool \cup {pkt[c].dropChan}
  /\ UNCHANGED <<now, packets, fresh, control, reading>>

\* The second select, ctx.Done(): the packet stays in the queue.
PushDone(c) ==
  /\ qpc[c] = "wait"
  /\ Fail(c, "wait")
  /\ UNCHANGED <<now, packets, pool, fresh, control, reading>>

\* The second select, after a verdict was received: put the channel back.
PushAnswered(c) ==
  /\ qpc[c] = "answered"
  /\ pool' = pool \cup {pkt[c].dropChan}
  /\ IF verdict[c]
     THEN Fail(c, "answered")
     ELSE /\ Go(c, "answered", "admitted")
          /\ pkt' = [pkt EXCEPT ![c] = NoPacket]
          /\ UNCHANGED verdict
  /\ UNCHANGED <<now, packets, fresh, control, reading>>
-----------------------------------------------------------------------------
(* Pop. *)

\* The caller leaves Pop.
PopReturn(c, from) ==
  /\ Go(c, from, "out")
  /\ pkt' = [pkt EXCEPT ![c] = NoPacket]
  /\ verdict' = [verdict EXCEPT ![c] = FALSE]

\* The next turn of the loop.
PopAgain(c, from) ==
  /\ Go(c, from, "pop")
  /\ pkt' = [pkt EXCEPT ![c] = NoPacket]
  /\ verdict' = [verdict EXCEPT ![c] = FALSE]

PopTake(c) ==
  /\ packets # <<>>
  /\ Go(c, "pop", "read")
  /\ pkt' = [pkt EXCEPT ![c] = Head(packets)]
  /\ packets' = Tail(packets)
  /\ UNCHANGED <<now, pool, fresh, control, reading, verdict>>

PopEmpty(c) ==
  /\ packets = <<>>
  /\ PopReturn(c, "pop")
  /\ UNCHANGED <<now, packets, pool, fresh, control, reading>>

\* judge reads the clock before it locks.
JudgeRead(c) ==
  /\ Go(c, "read", "judge")
  /\ reading' = [reading EXCEPT ![c] = now]
  /\ UNCHANGED <<now, packets, pool, fresh, control, pkt, verdict>>

\* floor(Internal / sqrt(n)).
Spacing(n) == Cardinality({m \in 1..Internal : m * m * n <= Internal * Internal})

\* checkFaTime, its result and the new faTime.
Above(t, elapsed) == elapsed >= Target /\ faTime # 0 /\ t >= faTime
checkFaTime(t, elapsed) ==
  faTime' = IF elapsed < Target THEN 0 ELSE IF faTime = 0 THEN t + Internal ELSE faTime

\* Mutant: the dropping state is never left.
LeaveNever(drop) == FALSE

\* The conditions of judge for the dropping state.
LeaveDropping(drop) == dropping /\ ~drop
NextDrop(t, drop) == dropping /\ drop /\ t > dropNext
EnterDropping(t, drop) ==
  /\ drop /\ ~NextDrop(t, drop)
  /\ t - dropNext < Internal \/ t - faTime >= Internal

\* The critical section of judge.  The times are not read again afterwards.
Judge(c) ==
  LET t == reading[c]
      elapsed == t - pkt[c].timestamp
      drop == Above(t, elapsed)
  IN
  /\ Go(c, "judge", "send")
  /\ verdict' = [verdict EXCEPT ![c] = drop]
  /\ checkFaTime(t, elapsed)
  /\ \/ /\ LeaveDropping(drop)
        /\ dropping' = FALSE /\ UNCHANGED <<count, dropNext>>
     \/ /\ NextDrop(t, drop)
        /\ count' = count + 1 /\ dropNext' = dropNext + Spacing(count') /\ UNCHANGED dropping
     \/ /\ EnterDropping(t, drop)
        /\ dropping' = TRUE
        /\ count' = IF t - dropNext < Internal /\ count > 2 THEN count - 2 ELSE 1
        /\ dropNext' = t + Spacing(count')
     \/ /\ ~LeaveDropping(drop) /\ ~NextDrop(t, drop) /\ ~EnterDropping(t, drop)
        /\ UNCHANGED <<count, dropping, dropNext>>
  /\ pkt' = [pkt EXCEPT ![c].timestamp = 0] /\ reading' = [reading EXCEPT ![c] = 0]
  /\ UNCHANGED <<now, packets, pool, fresh>>

\* The callers that are in their second select with the channel of the packet,
\* or about to come to it.
Receivers(c) == {d \in Callers : qpc[d] = "wait" /\ pkt[d].dropChan = pkt[c].dropChan}

\* Mutant: Pop goes on after a caller was admitted.
PopSendOn(c) ==
  /\ qpc[c] = "send"
  /\ \E d \in Receivers(c) :
       /\ qpc' = [qpc EXCEPT ![d] = "answered", ![c] = "pop"]
       /\ verdict' = [verdict EXCEPT ![d] = verdict[c], ![c] = FALSE]
  /\ pkt' = [pkt EXCEPT ![c] = NoPacket]
  /\ UNCHANGED <<now, packets, pool, fresh, control, reading>>

\* A waiting caller receives the verdict; Pop returns if it is admitted.
PopSend(c) ==
  /\ qpc[c] = "send"
  /\ \E d \in Receivers(c) :
       /\ qpc' = [qpc EXCEPT ![d] = "answered", ![c] = IF verdict[c] THEN "pop" ELSE "out"]
       /\ verdict' = [verdict EXCEPT ![d] = verdict[c], ![c] = FALSE]
  /\ pkt' = [pkt EXCEPT ![c] = NoPacket]
  /\ UNCHANGED <<now, packets, pool, fresh, control, reading>>

\* Mutant: Pop returns after a packet that nobody waits for.
PopSkipReturn(c) ==
  /\ qpc[c] = "send"
  /\ pool' = pool \cup {pkt[c].dropChan}
  /\ PopReturn(c, "send")
  /\ UNCHANGED <<now, packets, fresh, control, reading>>

\* Nobody waits on the channel: its caller has left Push, or has not come to
\* its second select.  Put the channel back and take the next packet.
PopSkip(c) ==
  /\ qpc[c] = "send"
  /\ pool' = pool \cup {pkt[c].dropChan}
  /\ PopAgain(c, "send")
  /\ UNCHANGED <<now, packets, fresh, control, reading>>

\* A step of Push, or of Pop, that does not depend on the context.
PushStep(c) == PushEnqueue(c) \/ PushFull(c) \/ PushAnswered(c)
PopStep(c) == PopTake(c) \/ PopEmpty(c) \/ JudgeRead(c) \/ Judge(c) \/ PopSend(c) \/ PopSkip(c)
-----------------------------------------------------------------------------
QPlaces ==
  {"out", "enqueue", "wait", "answered", "admitted", "failed", "pop", "read", "judge", "send"}

QTypeOK ==
  /\ packets \in Seq([dropChan : Chans, timestamp : Nat]) /\ Len(packets) <= QueueCap
  /\ pool \subseteq Chans /\ fresh \subseteq Chans
  /\ count \in Nat /\ dropping \in BOOLEAN /\ faTime \in Nat /\ dropNext \in Nat
  /\ qpc \in [Callers -> QPlaces]
  /\ pkt \in [Callers -> [dropChan : Chans \cup {NoChan}, timestamp : Nat]]
  /\ reading \in [Callers -> Nat] /\ verdict \in [Callers -> BOOLEAN]

\* The callers that hold the one right to put channel ch into the pool.
Holders(ch) ==
  {c \in Callers : pkt[c].dropChan = ch /\ qpc[c] \in {"enqueue", "answered", "read", "judge", "send"}}
Queued(ch) == {i \in 1..Len(packets) : packets[i].dropChan = ch}

(***************************************************************************)
(* A channel is in the pool, in one queued packet, or in the hands of one  *)
(* caller, whatever became of the callers that waited on it: two packets   *)
(* never share a channel, and the pool never holds one twice.              *)
(***************************************************************************)
ChannelOnce ==
  \A ch \in Chans :
    Cardinality(Holders(ch)) + Cardinality(Queued(ch)) + (IF ch \in pool \cup fresh THEN 1 ELSE 0) = 1

(***************************************************************************)
(* judge is sound however its callers interleave.  Each of them reads the  *)
(* clock before it has the lock, and a verdict is sent on a channel that   *)
(* other callers have waited on: still no caller is refused that has not   *)
(* waited for Target.  And what Stats reports fits together: in the        *)
(* dropping state there is a time since which the queue is above its       *)
(* target, and that time has come.                                         *)
(***************************************************************************)
JudgeSound ==
  /\ \A c \in Callers :
       qpc[c] = "answered" /\ verdict[c] => now - pkt[c].timestamp >= Target
  /\ dropping => count >= 1 /\ 0 < faTime /\ faTime <= now
=============================================================================
