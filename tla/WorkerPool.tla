---------------------------- MODULE WorkerPool ----------------------------
(***************************************************************************)
(* gconcurrent.WorkerPool: worker goroutines that take jobs from a         *)
(* channel, buffered or not, more of which are started by the callers of   *)
(* Execute and Submit while all of them are busy, up to MaxWorkerNum.      *)
(*                                                                         *)
(* The counters are atomics read outside any lock and the channel field is *)
(* read and set to nil without one, so each access is a step of its own.   *)
(* A submitter hands over one job at a time.                               *)
(***************************************************************************)
EXTENDS Integers, Sequences, FiniteSets

CONSTANTS
  Submitters,    \* goroutines that call Execute and Submit
  NumJobs,       \* bound on the jobs that are submitted
  NumWorkers,    \* bound on the worker goroutines that are started
  InitWorkerNum, MaxWorkerNum,   \* WpOption
  QueueSizes     \* the values of its QueueSize; 0 makes an unbuffered channel

ASSUME PoolAssumption ==
  /\ InitWorkerNum \in Nat /\ MaxWorkerNum \in Nat /\ QueueSizes \subseteq Nat
  /\ NumJobs \in Nat /\ NumWorkers \in Nat /\ InitWorkerNum <= NumWorkers
  /\ IsFiniteSet(Submitters) /\ 0 \notin Submitters

Jobs == 1..NumJobs
Workers == 1..NumWorkers

VARIABLES
  queueSize,  \* the option QueueSize, the capacity of the channel
  queue,      \* the jobs in the channel
  queueVar,   \* the field w.queue: "open", "closed" or "nil"
  closed,     \* the channel is closed
  activeNum, workerNum,   \* the statistics that the pool acts on
  worker,     \* worker[k]: where worker k is, and its job
  sub,        \* sub[s]: where submitter s is in Execute or Submit
  mux,        \* the submitter that holds w.mux, or 0
  shutdown,   \* where the caller of Shutdown is
  crashed,    \* a goroutine has sent on a closed channel
  accepted, executed   \* history: jobs sent, executed[j]: times j was run

chanVars == <<queueSize, queue, queueVar, closed>>
statVars == <<activeNum, workerNum>>
vars == <<chanVars, statVars, worker, sub, mux, shutdown, crashed, accepted, executed>>

IdleSub == [st |-> "idle", job |-> 0, active |-> 0, workers |-> 0, inc |-> 0]

Init ==
  /\ queueSize \in QueueSizes
  /\ queue = <<>> /\ queueVar = "open" /\ closed = FALSE
  /\ activeNum = 0 /\ workerNum = InitWorkerNum      \* wp.run(InitWorkerNum)
  /\ worker = [k \in Workers |->
                 [st |-> IF k <= InitWorkerNum THEN "started" ELSE "none", job |-> 0]]
  /\ sub = [s \in Submitters |-> IdleSub]
  /\ mux = 0
  /\ shutdown = "no"
  /\ crashed = FALSE
  /\ accepted = {}
  /\ executed = [j \in Jobs |-> 0]

-----------------------------------------------------------------------------
(***************************************************************************)
(* Worker goroutines: run and executeOne.                                  *)
(***************************************************************************)
WorkerAt(k, from, to, j) ==
  /\ worker[k].st = from
  /\ worker' = [worker EXCEPT ![k] = [st |-> to, job |-> j]]

\* The range statement evaluates w.queue once: the channel, or nil for ever.
WorkerStart(k) ==
  /\ WorkerAt(k, "started", IF queueVar = "nil" THEN "stuck" ELSE "range", 0)
  /\ UNCHANGED <<chanVars, statVars, sub, mux, shutdown, crashed, accepted, executed>>

WorkerReceive(k) ==
  /\ queue # <<>>
  /\ WorkerAt(k, "range", "received", Head(queue))
  /\ queue' = Tail(queue)
  /\ UNCHANGED <<queueSize, queueVar, closed, statVars, sub, mux, shutdown, crashed, accepted, executed>>

WorkerExit(k) ==
  /\ queue = <<>> /\ closed
  /\ WorkerAt(k, "range", "exited", 0)
  /\ UNCHANGED <<chanVars, statVars, sub, mux, shutdown, crashed, accepted, executed>>

WorkerBegin(k) ==
  /\ WorkerAt(k, "received", "active", worker[k].job)
  /\ activeNum' = activeNum + 1
  /\ executed' = [executed EXCEPT ![worker[k].job] = @ + 1]
  /\ UNCHANGED <<chanVars, workerNum, sub, mux, shutdown, crashed, accepted>>

\* Mutant: a panic is recovered outside the loop of the worker, and ends it.
PanicEndsWorker(k) ==
  /\ WorkerAt(k, "active", "range", 0) \/ WorkerAt(k, "active", "exited", 0)
  /\ activeNum' = activeNum - 1
  /\ UNCHANGED <<chanVars, workerNum, sub, mux, shutdown, crashed, accepted, executed>>

\* The job returns or panics; the deferred function runs in either case.
WorkerEnd(k) ==
  /\ WorkerAt(k, "active", "range", 0)
  /\ activeNum' = activeNum - 1
  /\ UNCHANGED <<chanVars, workerNum, sub, mux, shutdown, crashed, accepted, executed>>

-----------------------------------------------------------------------------
(***************************************************************************)
(* Execute and Submit: incWorker, then the send.                           *)
(***************************************************************************)
SubAt(s, from, r) == sub[s].st = from /\ sub' = [sub EXCEPT ![s] = r]

\* Bound: a job that was not submitted before.
NewJob(j) ==
  j \notin accepted /\ (\A s \in Submitters : sub[s].job # j)

LoadActive(s, j) ==
  /\ NewJob(j)
  /\ SubAt(s, "idle", [IdleSub EXCEPT !.st = "loaded", !.job = j, !.active = activeNum])
  /\ UNCHANGED <<chanVars, statVars, worker, mux, shutdown, crashed, accepted, executed>>

\* workerNum is read, and the decision to grow is made on the two values.
LoadWorkers(s) ==
  LET grow == sub[s].active = workerNum /\ workerNum < MaxWorkerNum
  IN /\ SubAt(s, "loaded", [sub[s] EXCEPT !.st = IF grow THEN "lock" ELSE "send",
                                          !.workers = workerNum])
     /\ UNCHANGED <<chanVars, statVars, worker, mux, shutdown, crashed, accepted, executed>>

\* Mutant: the pool grows by twice its size, and what does not fit is not cut off.
incNumUnlimited(n) == IF n < 1 THEN 1 ELSE 2 * n

\* The number of workers to add to n, and no more than fit.
incNum(n) ==
  LET half == IF n \div 2 < 1 THEN 1 ELSE n \div 2
  IN IF n + half > MaxWorkerNum THEN MaxWorkerNum - n ELSE half

\* Under mux the increment is computed from the value read before.
LockAndCompute(s) ==
  /\ mux = 0
  /\ SubAt(s, "lock", [sub[s] EXCEPT !.st = "run", !.inc = incNum(sub[s].workers)])
  /\ mux' = s
  /\ UNCHANGED <<chanVars, statVars, worker, shutdown, crashed, accepted, executed>>

FreeWorkers == {k \in Workers : worker[k].st = "none"}

\* One pass of the loop of run; after the last one mux is unlocked.
RunOne(s) ==
  /\ SubAt(s, "run", [sub[s] EXCEPT !.inc = @ - 1,
                                    !.st = IF sub[s].inc = 1 THEN "send" ELSE "run"])
  /\ mux' = IF sub[s].inc = 1 THEN 0 ELSE mux
  /\ workerNum' = workerNum + 1
  /\ \E k \in FreeWorkers :
       /\ \A i \in FreeWorkers : k <= i
       /\ worker' = [worker EXCEPT ![k].st = "started"]
  /\ UNCHANGED <<chanVars, activeNum, shutdown, crashed, accepted, executed>>

\* The send evaluates w.queue: on nil it waits for ever, on the closed channel
\* it panics.
EvalQueue(s) ==
  /\ SubAt(s, "send", [sub[s] EXCEPT !.st = IF queueVar = "nil" THEN "nilsend" ELSE "sending"])
  /\ crashed' = (queueVar = "closed")
  /\ UNCHANGED <<chanVars, statVars, worker, mux, shutdown, accepted, executed>>

\* Mutant: the job is sent, and sent again.
SendRetried(s) ==
  /\ ~closed /\ Len(queue) < queueSize
  /\ sub[s].st = "sending"
  /\ queue' = Append(queue, sub[s].job)
  /\ accepted' = accepted \cup {sub[s].job}
  /\ UNCHANGED <<queueSize, queueVar, closed, statVars, worker, sub, mux, shutdown, crashed, executed>>

Send(s) ==
  /\ ~closed /\ Len(queue) < queueSize
  /\ SubAt(s, "sending", IdleSub)
  /\ queue' = Append(queue, sub[s].job)
  /\ accepted' = accepted \cup {sub[s].job}
  /\ UNCHANGED <<queueSize, queueVar, closed, statVars, worker, mux, shutdown, crashed, executed>>

\* A worker that waits for a job is handed it past the buffer.  Of an unbuffered
\* channel this is the only way.
HandOver(s, k) ==
  /\ ~closed /\ queue = <<>>
  /\ SubAt(s, "sending", IdleSub)
  /\ WorkerAt(k, "range", "received", sub[s].job)
  /\ accepted' = accepted \cup {sub[s].job}
  /\ UNCHANGED <<chanVars, statVars, mux, shutdown, crashed, executed>>

\* The timer of Submit ends first: ErrTimeout.
SubmitTimeout(s) ==
  /\ SubAt(s, "sending", IdleSub) \/ SubAt(s, "nilsend", IdleSub)
  /\ UNCHANGED <<chanVars, statVars, worker, mux, shutdown, crashed, accepted, executed>>

-----------------------------------------------------------------------------
(***************************************************************************)
(* Shutdown, called once: close the channel, forget it, wait.              *)
(***************************************************************************)
CloseQueue ==
  /\ shutdown = "no"
  /\ shutdown' = "closed"
  /\ closed' = TRUE
  /\ queueVar' = "closed"
  /\ crashed' = \E s \in Submitters : sub[s].st = "sending"
  /\ UNCHANGED <<queueSize, queue, statVars, worker, sub, mux, accepted, executed>>

ForgetQueue ==
  /\ shutdown = "closed"
  /\ shutdown' = "wait"
  /\ queueVar' = "nil"
  /\ UNCHANGED <<queueSize, queue, closed, statVars, worker, sub, mux, crashed, accepted, executed>>

\* The timer has fired and checkNoActive is true (otherwise it waits again).
ShutdownReturns ==
  /\ shutdown = "wait"
  /\ activeNum = 0
  /\ shutdown' = "returned"
  /\ UNCHANGED <<chanVars, statVars, worker, sub, mux, crashed, accepted, executed>>

\* The context given to Shutdown is done first.
ShutdownGivesUp ==
  /\ shutdown = "wait"
  /\ shutdown' = "gaveup"
  /\ UNCHANGED <<chanVars, statVars, worker, sub, mux, crashed, accepted, executed>>

WorkerStep(k) ==
  \/ WorkerStart(k) \/ WorkerReceive(k) \/ WorkerExit(k)
  \/ WorkerBegin(k) \/ WorkerEnd(k)

Next ==
  /\ ~crashed
  /\ \/ \E k \in Workers : WorkerStep(k)
     \/ \E s \in Submitters :
          \/ \E j \in Jobs : LoadActive(s, j)
          \/ LoadWorkers(s) \/ LockAndCompute(s) \/ RunOne(s)
          \/ EvalQueue(s) \/ Send(s) \/ SubmitTimeout(s)
          \/ \E k \in Workers : HandOver(s, k)
     \/ CloseQueue \/ ForgetQueue \/ ShutdownReturns \/ ShutdownGivesUp

Spec == Init /\ [][Next]_vars

(***************************************************************************)
(* Workers that can go on do, and jobs end.  Nothing is assumed of those   *)
(* who submit and of when they time out.                                   *)
(***************************************************************************)
FairSpec == Spec /\ \A k \in Workers : WF_vars(WorkerStep(k) /\ ~crashed)
-----------------------------------------------------------------------------
At(st) == {k \in Workers : worker[k].st = st}

\* Type invariant.
TypeOK ==
  /\ queueSize \in QueueSizes
  /\ queue \in Seq(Jobs) /\ Len(queue) <= queueSize
  /\ queueVar \in {"open", "closed", "nil"} /\ closed \in BOOLEAN
  /\ activeNum \in Nat /\ workerNum \in Nat
  /\ \A k \in Workers :
       worker[k].st \in {"none", "started", "stuck", "range", "received", "active", "exited"}
  /\ \A s \in Submitters : sub[s].st \in
       {"idle", "loaded", "lock", "run", "send", "sending", "nilsend"}
  /\ shutdown \in {"no", "closed", "wait", "returned", "gaveup"}
  /\ accepted \subseteq Jobs

\* Where an accepted job is before it is executed: in the channel or received.
Pending == {queue[i] : i \in 1..Len(queue)} \cup {worker[k].job : k \in At("received")}

(***************************************************************************)
(* No job is lost or run twice: every accepted job is in the channel, or   *)
(* with one worker that is about to run it, or was run once.               *)
(***************************************************************************)
JobOnce ==
  /\ \A j \in Jobs : executed[j] = IF j \in accepted \ Pending THEN 1 ELSE 0
  /\ Pending \subseteq accepted
  /\ Cardinality(Pending) = Len(queue) + Cardinality(At("received"))

(***************************************************************************)
(* The gauges are exact even when jobs panic: activeNum counts the workers *)
(* that run a job and workerNum all that were started, so that incWorker   *)
(* sees them equal only when every worker is busy.                         *)
(***************************************************************************)
GaugesExact ==
  /\ activeNum = Cardinality(At("active"))
  /\ workerNum = Cardinality(Workers \ At("none"))

(***************************************************************************)
(* An accepted job is executed, unless the pool is shut down before.       *)
(***************************************************************************)
JobsExecuted ==
  \A j \in Jobs : (j \in accepted) ~> (executed[j] = 1 \/ shutdown # "no" \/ crashed)

(***************************************************************************)
(* A submitter may decide to grow on gauges that are stale when it has the *)
(* lock, so MaxWorkerNum can be exceeded, but only once per other          *)
(* submitter and by what one decision adds (half of the pool), as long as  *)
(* the gauges are exact.  A pool that starts with more does not grow.      *)
(***************************************************************************)
growth == IF MaxWorkerNum \div 2 < 1 THEN 1 ELSE MaxWorkerNum \div 2
WorkersBounded ==
  /\ TypeOK /\ GaugesExact
  /\ \/ workerNum = InitWorkerNum
     \/ workerNum <= MaxWorkerNum + (Cardinality(Submitters) - 1) * growth
=============================================================================
