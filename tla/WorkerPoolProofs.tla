------------------------- MODULE WorkerPoolProofs -------------------------
(***************************************************************************)
(* The worker pool runs every accepted job once and does not grow beyond   *)
(* its bound, for every number of submitters, jobs and workers.            *)
(***************************************************************************)
EXTENDS WorkerPool, FiniteSetTheorems, TLAPS

WPlaces == {"none", "started", "stuck", "range", "received", "active", "exited"}
SPlaces == {"idle", "loaded", "lock", "run", "send", "sending", "nilsend"}
WRec == [st : WPlaces, job : Nat]
SRec == [st : SPlaces, job : Jobs \cup {0}, active : Int, workers : Int, inc : Int]

\* Types.  A worker that has received a job, and a submitter that is in
\* Execute or Submit, has one.
PType ==
  /\ queueSize \in QueueSizes
  /\ queue \in Seq(Jobs) /\ Len(queue) <= queueSize
  /\ queueVar \in {"open", "closed", "nil"} /\ closed \in BOOLEAN
  /\ activeNum \in Int /\ workerNum \in Int
  /\ worker \in [Workers -> WRec] /\ sub \in [Submitters -> SRec]
  /\ \A k \in Workers : worker[k].st \in {"received", "active"} => worker[k].job \in Jobs
  /\ \A s \in Submitters : sub[s].st # "idle" => sub[s].job \in Jobs
  /\ shutdown \in {"no", "closed", "wait", "returned", "gaveup"}
  /\ accepted \subseteq Jobs /\ executed \in [Jobs -> Nat]

LEMMA Records ==
  /\ Jobs \subseteq Nat /\ IdleSub \in SRec
  /\ \A r \in WRec : r.st \in WPlaces /\ r.job \in Nat
  /\ \A r \in SRec : r.st \in SPlaces /\ r.job \in Jobs \cup {0} /\ r.inc \in Int /\ r.workers \in Int
BY DEF Jobs, WRec, SRec, IdleSub, SPlaces

\* A step of one worker.
LEMMA WorkerMoves ==
  ASSUME PType, NEW k \in Workers, NEW from, NEW to \in WPlaces, NEW j \in Nat, WorkerAt(k, from, to, j)
  PROVE  /\ worker' \in [Workers -> WRec] /\ worker[k].st = from
         /\ worker'[k].st = to /\ worker'[k].job = j
         /\ \A i \in Workers \ {k} : worker'[i] = worker[i]
<1>1. [st |-> to, job |-> j] \in WRec
  BY DEF WRec
<1> QED BY <1>1 DEF WorkerAt, PType

\* A step of one submitter.
LEMMA SubMoves ==
  ASSUME PType, NEW s \in Submitters, NEW from, NEW r \in SRec, SubAt(s, from, r)
  PROVE  /\ sub' \in [Submitters -> SRec] /\ sub[s].st = from /\ sub'[s] = r
         /\ \A t \in Submitters \ {s} : sub'[t] = sub[t]
BY DEF SubAt, PType

\* Where a worker step takes its worker.
WorkerGoes(k, from, to, j) ==
  /\ worker' \in [Workers -> WRec] /\ worker[k].st = from
  /\ worker'[k].st = to /\ worker'[k].job = j
  /\ \A i \in Workers \ {k} : worker'[i] = worker[i]

LEMMA WorkerSteps ==
  ASSUME PType, NEW k \in Workers
  PROVE  /\ WorkerStart(k) => \E to \in {"stuck", "range"} : WorkerGoes(k, "started", to, 0)
         /\ WorkerReceive(k) => WorkerGoes(k, "range", "received", Head(queue)) /\ Head(queue) \in Jobs
         /\ WorkerExit(k) => WorkerGoes(k, "range", "exited", 0)
         /\ WorkerBegin(k) => WorkerGoes(k, "received", "active", worker[k].job) /\ worker[k].job \in Jobs
         /\ WorkerEnd(k) => WorkerGoes(k, "active", "range", 0)
<1> USE DEF WorkerGoes
<1>1. ASSUME WorkerStart(k) PROVE \E to \in {"stuck", "range"} : WorkerGoes(k, "started", to, 0)
  <2>1. \E to \in {"stuck", "range"} : WorkerAt(k, "started", to, 0)
    BY <1>1 DEF WorkerStart
  <2>2. {"stuck", "range"} \subseteq WPlaces /\ 0 \in Nat
    BY DEF WPlaces
  <2> QED BY <2>1, <2>2, WorkerMoves
<1>2. ASSUME WorkerReceive(k)
      PROVE  WorkerGoes(k, "range", "received", Head(queue)) /\ Head(queue) \in Jobs
  <2>1. WorkerAt(k, "range", "received", Head(queue)) /\ queue # <<>>
    BY <1>2 DEF WorkerReceive
  <2>2. Head(queue) \in Jobs /\ Head(queue) \in Nat /\ "received" \in WPlaces
    <3>1. queue \in Seq(Jobs) /\ queue # <<>>
      BY <2>1 DEF PType
    <3>2. Head(queue) \in Jobs
      BY <3>1
    <3> QED BY <3>2, Records DEF WPlaces
  <2> QED BY <2>1, <2>2, WorkerMoves
<1>3. ASSUME WorkerExit(k) PROVE WorkerGoes(k, "range", "exited", 0)
  <2>1. WorkerAt(k, "range", "exited", 0) /\ "exited" \in WPlaces /\ 0 \in Nat
    BY <1>3 DEF WorkerExit, WPlaces
  <2> QED BY <2>1, WorkerMoves
<1>4. ASSUME WorkerBegin(k)
      PROVE  WorkerGoes(k, "received", "active", worker[k].job) /\ worker[k].job \in Jobs
  <2>1. WorkerAt(k, "received", "active", worker[k].job) /\ "active" \in WPlaces
    BY <1>4 DEF WorkerBegin, WPlaces
  <2>2. worker[k].job \in Jobs /\ worker[k].job \in Nat
    BY <2>1, Records DEF PType, WorkerAt
  <2> QED BY <2>1, <2>2, WorkerMoves
<1>5. ASSUME WorkerEnd(k) PROVE WorkerGoes(k, "active", "range", 0)
  <2>1. WorkerAt(k, "active", "range", 0) /\ "range" \in WPlaces /\ 0 \in Nat
    BY <1>5 DEF WorkerEnd, WPlaces
  <2> QED BY <2>1, WorkerMoves
<1> QED BY <1>1, <1>2, <1>3, <1>4, <1>5

\* Where a step takes its submitter.
SubGoes(s, from, to) ==
  /\ sub' \in [Submitters -> SRec] /\ sub[s].st = from /\ sub'[s].st = to
  /\ \A t \in Submitters \ {s} : sub'[t] = sub[t]

\* Of what the decision adds, one value for each.
Deciding(s) == sub[s].st \in {"lock", "run"}
pending(s) == IF sub[s].st = "lock" THEN incNum(sub[s].workers)
              ELSE IF sub[s].st = "run" THEN sub[s].inc ELSE 0

LEMMA IncNum ==
  ASSUME NEW n \in Int
  PROVE  /\ incNum(n) \in Int /\ growth \in Nat
         /\ 0 <= n /\ n < MaxWorkerNum => 1 <= incNum(n) /\ incNum(n) <= growth /\ n + incNum(n) <= MaxWorkerNum
<1>1. MaxWorkerNum \in Nat
  BY PoolAssumption
<1>2. n \div 2 \in Int /\ MaxWorkerNum \div 2 \in Int
  BY <1>1
<1>3. 0 <= n /\ n < MaxWorkerNum => n \div 2 <= MaxWorkerNum \div 2
  BY <1>1
<1> DEFINE a == n \div 2
           b == MaxWorkerNum \div 2
<1>4. a \in Int /\ b \in Int /\ (0 <= n /\ n < MaxWorkerNum => a <= b)
  BY <1>2, <1>3
<1>5. /\ growth = IF b < 1 THEN 1 ELSE b
      /\ incNum(n) = LET half == IF a < 1 THEN 1 ELSE a
                     IN IF n + half > MaxWorkerNum THEN MaxWorkerNum - n ELSE half
  BY DEF growth, incNum
<1> HIDE DEF a, b
<1> QED BY <1>1, <1>4, <1>5

\* The values that the steps of a submitter give to it.
MovedTo(r, to) == [r EXCEPT !.st = to]
Loaded(r, to, n) == [r EXCEPT !.st = to, !.workers = n]
Owing(r, to, n) == [r EXCEPT !.st = to, !.inc = n]

LEMMA SubUpdates ==
  ASSUME NEW r \in SRec, NEW to \in SPlaces, NEW n \in Int
  PROVE  /\ MovedTo(r, to) \in SRec /\ MovedTo(r, to).st = to /\ MovedTo(r, to).job = r.job
         /\ Loaded(r, to, n) \in SRec /\ Loaded(r, to, n).st = to
         /\ Loaded(r, to, n).job = r.job /\ Loaded(r, to, n).workers = n
         /\ Owing(r, to, n) \in SRec /\ Owing(r, to, n).st = to
         /\ Owing(r, to, n).job = r.job /\ Owing(r, to, n).inc = n
<1>1. MovedTo(r, to) \in SRec /\ MovedTo(r, to).st = to /\ MovedTo(r, to).job = r.job
  BY DEF SRec, MovedTo
<1>2. /\ Loaded(r, to, n) \in SRec /\ Loaded(r, to, n).st = to
      /\ Loaded(r, to, n).job = r.job /\ Loaded(r, to, n).workers = n
  BY DEF SRec, Loaded
<1>3. /\ Owing(r, to, n) \in SRec /\ Owing(r, to, n).st = to
      /\ Owing(r, to, n).job = r.job /\ Owing(r, to, n).inc = n
  BY DEF SRec, Owing
<1> QED BY <1>1, <1>2, <1>3

LEMMA SubSteps ==
  ASSUME PType, NEW s \in Submitters
  PROVE  /\ \A j \in Jobs : LoadActive(s, j) =>
              SubGoes(s, "idle", "loaded") /\ sub'[s].job = j
         /\ LoadWorkers(s) => \E to \in {"lock", "send"} :
              /\ SubGoes(s, "loaded", to) /\ sub'[s].job = sub[s].job /\ sub'[s].workers = workerNum
              /\ (to = "lock" => workerNum < MaxWorkerNum)
         /\ LockAndCompute(s) =>
              /\ SubGoes(s, "lock", "run") /\ sub'[s].job = sub[s].job
              /\ sub'[s].inc = incNum(sub[s].workers)
         /\ RunOne(s) =>
              /\ SubGoes(s, "run", IF sub[s].inc = 1 THEN "send" ELSE "run")
              /\ sub'[s].job = sub[s].job /\ sub'[s].inc = sub[s].inc - 1
         /\ EvalQueue(s) => \E to \in {"nilsend", "sending"} :
              SubGoes(s, "send", to) /\ sub'[s].job = sub[s].job
         /\ Send(s) => SubGoes(s, "sending", "idle") /\ sub'[s].job = 0
         /\ SubmitTimeout(s) => \E from \in {"nilsend", "sending"} :
              SubGoes(s, from, "idle") /\ sub'[s].job = 0
<1> DEFINE r == sub[s]
<1>0. r \in SRec /\ workerNum \in Int /\ activeNum \in Int /\ incNum(r.workers) \in Int
  <2>1. r \in SRec /\ workerNum \in Int /\ activeNum \in Int
    BY DEF PType
  <2> QED BY <2>1, Records, IncNum
<1>a. IdleSub.st = "idle" /\ IdleSub.job = 0
  BY DEF IdleSub
<1> HIDE DEF r
<1>b. sub[s] \in SRec
  BY <1>0 DEF r
<1>1. ASSUME NEW j \in Jobs, LoadActive(s, j)
      PROVE  SubGoes(s, "idle", "loaded") /\ sub'[s].job = j
  <2> DEFINE q == [IdleSub EXCEPT !.st = "loaded", !.job = j, !.active = activeNum]
  <2>1. q \in SRec /\ q.st = "loaded" /\ q.job = j
    BY <1>0, Records DEF SRec, SPlaces
  <2>2. SubAt(s, "idle", q)
    BY <1>1 DEF LoadActive
  <2> HIDE DEF q
  <2> QED BY <2>1, <2>2, SubMoves DEF SubGoes
<1>2. ASSUME LoadWorkers(s)
      PROVE  \E to \in {"lock", "send"} :
               /\ SubGoes(s, "loaded", to) /\ sub'[s].job = sub[s].job /\ sub'[s].workers = workerNum
               /\ (to = "lock" => workerNum < MaxWorkerNum)
  <2>1. PICK to \in {"lock", "send"} :
          /\ SubAt(s, "loaded", Loaded(sub[s], to, workerNum))
          /\ (to = "lock" => workerNum < MaxWorkerNum)
    BY <1>2 DEF LoadWorkers, Loaded
  <2> DEFINE q == Loaded(sub[s], to, workerNum)
  <2>2. to \in SPlaces /\ workerNum \in Int
    BY <1>0 DEF SPlaces
  <2>3. q \in SRec /\ q.st = to /\ q.job = sub[s].job /\ q.workers = workerNum
    BY <1>b, <2>2, SubUpdates
  <2> HIDE DEF q
  <2>4. SubGoes(s, "loaded", to) /\ sub'[s] = q
    BY <2>1, <2>3, SubMoves DEF SubGoes, q
  <2> QED BY <2>1, <2>3, <2>4
<1>3. ASSUME LockAndCompute(s)
      PROVE  /\ SubGoes(s, "lock", "run") /\ sub'[s].job = sub[s].job
             /\ sub'[s].inc = incNum(sub[s].workers)
  <2> DEFINE q == Owing(sub[s], "run", incNum(sub[s].workers))
  <2>1. SubAt(s, "lock", q)
    BY <1>3 DEF LockAndCompute, Owing
  <2>2. "run" \in SPlaces /\ incNum(sub[s].workers) \in Int
    BY <1>0 DEF SPlaces, r
  <2>3. q \in SRec /\ q.st = "run" /\ q.job = sub[s].job /\ q.inc = incNum(sub[s].workers)
    BY <1>b, <2>2, SubUpdates
  <2> HIDE DEF q
  <2> QED BY <2>1, <2>3, SubMoves DEF SubGoes
<1>4. ASSUME RunOne(s)
      PROVE  /\ SubGoes(s, "run", IF sub[s].inc = 1 THEN "send" ELSE "run")
             /\ sub'[s].job = sub[s].job /\ sub'[s].inc = sub[s].inc - 1
  <2> DEFINE to == IF sub[s].inc = 1 THEN "send" ELSE "run"
             m == sub[s].inc - 1
             q == Owing(sub[s], to, m)
  <2>1. SubAt(s, "run", [sub[s] EXCEPT !.inc = @ - 1, !.st = to])
    BY <1>4 DEF RunOne
  <2>2. to \in SPlaces /\ m \in Int
    BY <1>b, Records DEF SPlaces
  <2>4. q = [sub[s] EXCEPT !.inc = @ - 1, !.st = to]
    BY <1>b DEF Owing, SRec
  <2> HIDE DEF to, m
  <2>3. q \in SRec /\ q.st = to /\ q.job = sub[s].job /\ q.inc = m
    BY <1>b, <2>2, SubUpdates
  <2> HIDE DEF q
  <2>6. SubAt(s, "run", q)
    BY <2>1, <2>4
  <2>5. SubGoes(s, "run", to) /\ sub'[s].job = sub[s].job /\ sub'[s].inc = m
    BY <2>3, <2>6, SubMoves DEF SubGoes
  <2> QED BY <2>5 DEF to, m
<1>5. ASSUME EvalQueue(s)
      PROVE  \E to \in {"nilsend", "sending"} : SubGoes(s, "send", to) /\ sub'[s].job = sub[s].job
  <2>1. PICK to \in {"nilsend", "sending"} : SubAt(s, "send", MovedTo(sub[s], to))
    BY <1>5 DEF EvalQueue, MovedTo
  <2> DEFINE q == MovedTo(sub[s], to)
  <2>2. to \in SPlaces /\ 0 \in Int
    BY DEF SPlaces
  <2>3. q \in SRec /\ q.st = to /\ q.job = sub[s].job
    BY <1>b, <2>2, SubUpdates
  <2>4. SubAt(s, "send", q)
    BY <2>1
  <2> HIDE DEF q
  <2> QED BY <2>3, <2>4, SubMoves DEF SubGoes
<1>6. ASSUME Send(s) PROVE SubGoes(s, "sending", "idle") /\ sub'[s].job = 0
  BY <1>6, <1>a, Records, SubMoves DEF Send, SubGoes
<1>7. ASSUME SubmitTimeout(s)
      PROVE  \E from \in {"nilsend", "sending"} : SubGoes(s, from, "idle") /\ sub'[s].job = 0
  BY <1>7, <1>a, Records, SubMoves DEF SubmitTimeout, SubGoes
<1> QED BY <1>1, <1>2, <1>3, <1>4, <1>5, <1>6, <1>7
LEMMA HandOverSteps ==
  ASSUME PType, NEW s \in Submitters, NEW k \in Workers, HandOver(s, k)
  PROVE  /\ SubGoes(s, "sending", "idle") /\ sub'[s].job = 0
         /\ WorkerGoes(k, "range", "received", sub[s].job) /\ sub[s].job \in Jobs
<1>1. /\ SubAt(s, "sending", IdleSub)
      /\ WorkerAt(k, "range", "received", sub[s].job)
  BY DEF HandOver
<1>2. IdleSub.st = "idle" /\ IdleSub.job = 0
  BY DEF IdleSub
<1>3. SubGoes(s, "sending", "idle") /\ sub'[s].job = 0
  BY <1>1, <1>2, Records, SubMoves DEF SubGoes
<1>4. sub[s].job \in Jobs /\ sub[s].job \in Nat /\ "received" \in WPlaces
  BY <1>3, Records DEF SubGoes, PType, WPlaces
<1> QED BY <1>1, <1>3, <1>4, WorkerMoves DEF WorkerGoes
-----------------------------------------------------------------------------
(***************************************************************************)
(* Types and gauges.                                                       *)
(***************************************************************************)
LEMMA Parameters ==
  /\ NumJobs \in Nat /\ NumWorkers \in Nat /\ MaxWorkerNum \in Nat /\ InitWorkerNum \in Nat
  /\ QueueSizes \subseteq Nat /\ InitWorkerNum <= NumWorkers
BY PoolAssumption

LEMMA FiniteAt == \A st : At(st) \subseteq Workers /\ IsFiniteSet(At(st)) /\ IsFiniteSet(Workers \ At(st))
<1>1. IsFiniteSet(Workers)
  BY Parameters, FS_Interval DEF Workers
<1> QED BY <1>1, FS_Subset DEF At

\* A step of worker k that counts for the gauges.
SubOnly(s) ==
  \/ \E j \in Jobs : LoadActive(s, j)
  \/ LoadWorkers(s) \/ LockAndCompute(s) \/ EvalQueue(s) \/ SubmitTimeout(s)
ShutdownStep == CloseQueue \/ ForgetQueue \/ ShutdownReturns \/ ShutdownGivesUp

LEMMA NextCases ==
  [Next]_vars => \/ \E k \in Workers : WorkerStep(k)
                 \/ \E s \in Submitters : SubOnly(s) \/ RunOne(s) \/ Send(s)
                 \/ \E s \in Submitters, k \in Workers : HandOver(s, k)
                 \/ ShutdownStep \/ UNCHANGED vars
BY DEF Next, SubOnly, ShutdownStep

LEMMA StepPType ==
  ASSUME PType, [Next]_vars
  PROVE  PType'
<1>1. ASSUME NEW k \in Workers, WorkerStep(k) PROVE PType'
  <2>1. PICK from \in WPlaces, to \in WPlaces, j \in Nat :
          WorkerGoes(k, from, to, j) /\ (to \in {"received", "active"} => j \in Jobs)
    <3>1. {"started", "stuck", "range", "received", "active", "exited"} \subseteq WPlaces /\ Jobs \subseteq Nat
      BY Records DEF WPlaces
    <3>2. CASE WorkerStart(k) \/ WorkerExit(k) \/ WorkerEnd(k)
      BY <3>1, <3>2, WorkerSteps
    <3>3. CASE WorkerReceive(k) \/ WorkerBegin(k)
      BY <3>1, <3>3, WorkerSteps
    <3> QED BY <1>1, <3>2, <3>3 DEF WorkerStep
  <2>2. /\ worker' \in [Workers -> WRec]
        /\ \A i \in Workers : worker'[i].st \in {"received", "active"} => worker'[i].job \in Jobs
    BY <2>1 DEF WorkerGoes, PType
  <2>3. /\ queue' = queue \/ (queue # <<>> /\ queue' = Tail(queue))
        /\ activeNum' \in Int
        /\ UNCHANGED <<queueSize, queueVar, closed, workerNum, sub, shutdown, accepted>>
    BY <1>1 DEF WorkerStep, WorkerStart, WorkerReceive, WorkerExit, WorkerBegin, WorkerEnd, chanVars,
       statVars, PType
  <2>4. queue' \in Seq(Jobs) /\ Len(queue') <= queueSize'
    <3>1. queue \in Seq(Jobs) /\ Len(queue) <= queueSize /\ queueSize \in Nat
      BY Parameters DEF PType
    <3> QED BY <2>3, <3>1
  <2>5. executed' \in [Jobs -> Nat]
    BY <1>1 DEF WorkerStep, WorkerStart, WorkerReceive, WorkerExit, WorkerBegin, WorkerEnd, PType
  <2> QED BY <2>2, <2>3, <2>4, <2>5 DEF PType
<1>2. ASSUME NEW s \in Submitters, SubOnly(s) PROVE PType'
  <2>1. /\ sub' \in [Submitters -> SRec]
        /\ \A t \in Submitters : sub'[t].st # "idle" => sub'[t].job \in Jobs
    <3>1. PICK from, to : SubGoes(s, from, to) /\ (to # "idle" => sub'[s].job \in Jobs)
      <4>1. sub[s].st # "idle" => sub[s].job \in Jobs
        BY DEF PType
      <4> QED BY <1>2, <4>1, SubSteps DEF SubOnly, SubGoes
    <3> QED BY <3>1 DEF SubGoes, PType
  <2>2. UNCHANGED <<chanVars, activeNum, workerNum, worker, shutdown, accepted, executed>>
    BY <1>2 DEF SubOnly, LoadActive, LoadWorkers, LockAndCompute, EvalQueue, SubmitTimeout, chanVars, statVars
  <2> QED BY <2>1, <2>2 DEF PType, chanVars
<1>3. ASSUME NEW s \in Submitters, RunOne(s) PROVE PType'
  <2>1. /\ sub' \in [Submitters -> SRec]
        /\ \A t \in Submitters : sub'[t].st # "idle" => sub'[t].job \in Jobs
    BY <1>3, SubSteps DEF SubGoes, PType
  <2>2. PICK k \in FreeWorkers : worker' = [worker EXCEPT ![k].st = "started"]
    BY <1>3 DEF RunOne
  <2>3. k \in Workers /\ [worker[k] EXCEPT !.st = "started"] \in WRec
        /\ [worker[k] EXCEPT !.st = "started"].st = "started"
    BY DEF FreeWorkers, PType, WRec, WPlaces
  <2>4. worker' = [worker EXCEPT ![k] = [worker[k] EXCEPT !.st = "started"]]
    BY <2>2
  <2>5. /\ worker' \in [Workers -> WRec]
        /\ \A i \in Workers : worker'[i].st \in {"received", "active"} => worker'[i].job \in Jobs
    BY <2>3, <2>4 DEF PType
  <2>6. /\ workerNum' = workerNum + 1
        /\ UNCHANGED <<queueSize, queue, queueVar, closed, activeNum, shutdown, accepted, executed>>
    BY <1>3 DEF RunOne, chanVars
  <2> QED BY <2>1, <2>5, <2>6 DEF PType
<1>4. ASSUME NEW s \in Submitters, Send(s) PROVE PType'
  <2>1. /\ sub' \in [Submitters -> SRec]
        /\ \A t \in Submitters : sub'[t].st # "idle" => sub'[t].job \in Jobs
    BY <1>4, SubSteps DEF SubGoes, PType
  <2>2. sub[s].job \in Jobs
    BY <1>4 DEF Send, SubAt, PType
  <2>3. queue' \in Seq(Jobs) /\ Len(queue') <= queueSize
    <3>1. /\ queue \in Seq(Jobs) /\ queue' = Append(queue, sub[s].job) /\ Len(queue) < queueSize
          /\ queueSize \in Nat
      BY <1>4, Parameters DEF PType, Send
    <3> QED BY <2>2, <3>1
  <2>4. accepted' \subseteq Jobs
    BY <1>4, <2>2 DEF Send, PType
  <2>5. UNCHANGED <<queueSize, queueVar, closed, activeNum, workerNum, worker, shutdown, executed>>
    BY <1>4 DEF Send, statVars
  <2> QED BY <2>1, <2>3, <2>4, <2>5 DEF PType
<1>7. ASSUME NEW s \in Submitters, NEW k \in Workers, HandOver(s, k) PROVE PType'
  <2>1. /\ SubGoes(s, "sending", "idle") /\ sub'[s].job = 0
        /\ WorkerGoes(k, "range", "received", sub[s].job) /\ sub[s].job \in Jobs
    BY <1>7, HandOverSteps
  <2>2. /\ sub' \in [Submitters -> SRec]
        /\ \A t \in Submitters : sub'[t].st # "idle" => sub'[t].job \in Jobs
    BY <2>1 DEF SubGoes, PType
  <2>3. /\ worker' \in [Workers -> WRec]
        /\ \A i \in Workers : worker'[i].st \in {"received", "active"} => worker'[i].job \in Jobs
    BY <2>1 DEF WorkerGoes, PType
  <2>4. accepted' \subseteq Jobs
    BY <1>7, <2>1 DEF HandOver, PType
  <2>5. UNCHANGED <<queueSize, queue, queueVar, closed, activeNum, workerNum, shutdown, executed>>
    BY <1>7 DEF HandOver, chanVars, statVars
  <2> QED BY <2>2, <2>3, <2>4, <2>5 DEF PType
<1>5. CASE ShutdownStep
  <2>1. UNCHANGED <<queueSize, queue, activeNum, workerNum, worker, sub, accepted, executed>>
    BY <1>5 DEF ShutdownStep, CloseQueue, ForgetQueue, ShutdownReturns, ShutdownGivesUp, chanVars, statVars
  <2>2. /\ queueVar' \in {"open", "closed", "nil"} /\ closed' \in BOOLEAN
        /\ shutdown' \in {"no", "closed", "wait", "returned", "gaveup"}
    BY <1>5 DEF ShutdownStep, CloseQueue, ForgetQueue, ShutdownReturns, ShutdownGivesUp, chanVars, PType
  <2> QED BY <2>1, <2>2 DEF PType
<1>6. CASE UNCHANGED vars
  BY <1>6 DEF vars, chanVars, statVars, PType
<1> QED BY <1>1, <1>2, <1>3, <1>4, <1>5, <1>6, <1>7, NextCases

\* What a worker step does to the sets of workers.
LEMMA AtMoves ==
  ASSUME NEW k \in Workers, NEW from, NEW to, NEW j, WorkerGoes(k, from, to, j), from # to
  PROVE  /\ k \in At(from) /\ At(from)' = At(from) \ {k}
         /\ k \notin At(to) /\ At(to)' = At(to) \cup {k}
         /\ \A st : st # from /\ st # to => At(st)' = At(st)
BY DEF At, WorkerGoes

LEMMA Cardinalities ==
  ASSUME NEW S, IsFiniteSet(S), NEW x
  PROVE  /\ x \notin S => Cardinality(S \cup {x}) = Cardinality(S) + 1
         /\ x \in S => Cardinality(S \ {x}) = Cardinality(S) - 1
         /\ Cardinality(S) \in Nat
BY FS_AddElement, FS_RemoveElement, FS_CardinalityType

LEMMA StepGauges ==
  ASSUME PType, GaugesExact, [Next]_vars
  PROVE  GaugesExact'
<1>1. ASSUME worker' = worker, UNCHANGED statVars PROVE GaugesExact'
  BY <1>1 DEF GaugesExact, At, statVars
<1>2. ASSUME NEW k \in Workers, WorkerStep(k) PROVE GaugesExact'
  <2>1. CASE WorkerStart(k) \/ WorkerReceive(k) \/ WorkerExit(k)
    <3>1. PICK from, to, j : /\ WorkerGoes(k, from, to, j) /\ {from, to} \subseteq WPlaces
                             /\ from \notin {to, "none", "active"} /\ to \notin {"none", "active"}
      BY <2>1, WorkerSteps DEF WPlaces
    <3>2. At("active")' = At("active") /\ At("none")' = At("none")
      BY <3>1, AtMoves
    <3>3. UNCHANGED <<activeNum, workerNum>>
      BY <2>1 DEF WorkerStart, WorkerReceive, WorkerExit, statVars
    <3> QED BY <3>2, <3>3 DEF GaugesExact
  <2>2. CASE WorkerBegin(k)
    <3>1. /\ k \notin At("active") /\ At("active")' = At("active") \cup {k}
          /\ At("none")' = At("none")
      BY <2>2, WorkerSteps, AtMoves
    <3>2. Cardinality(At("active") \cup {k}) = Cardinality(At("active")) + 1
      BY <3>1, FiniteAt, Cardinalities
    <3> QED BY <2>2, <3>1, <3>2 DEF GaugesExact, WorkerBegin
  <2>3. CASE WorkerEnd(k)
    <3>1. /\ k \in At("active") /\ At("active")' = At("active") \ {k}
          /\ At("none")' = At("none")
      BY <2>3, WorkerSteps, AtMoves
    <3>2. Cardinality(At("active") \ {k}) = Cardinality(At("active")) - 1
      BY <3>1, FiniteAt, Cardinalities
    <3> QED BY <2>3, <3>1, <3>2 DEF GaugesExact, WorkerEnd
  <2> QED BY <1>2, <2>1, <2>2, <2>3 DEF WorkerStep
<1>3. ASSUME NEW s \in Submitters, RunOne(s) PROVE GaugesExact'
  <2>1. PICK k \in FreeWorkers : worker' = [worker EXCEPT ![k].st = "started"]
    BY <1>3 DEF RunOne
  <2>2. k \in Workers /\ worker[k].st = "none" /\ worker'[k].st = "started"
        /\ \A i \in Workers \ {k} : worker'[i] = worker[i]
    BY <2>1 DEF FreeWorkers, PType, WRec
  <2>3. At("active")' = At("active") /\ Workers \ At("none")' = (Workers \ At("none")) \cup {k}
        /\ k \notin Workers \ At("none")
    BY <2>2 DEF At
  <2>4. Cardinality((Workers \ At("none")) \cup {k}) = Cardinality(Workers \ At("none")) + 1
    BY <2>3, FiniteAt, Cardinalities
  <2> QED BY <1>3, <2>3, <2>4 DEF GaugesExact, RunOne
<1>4. ASSUME NEW s \in Submitters, SubOnly(s) \/ Send(s) PROVE GaugesExact'
  BY <1>1, <1>4 DEF SubOnly, Send, LoadActive, LoadWorkers, LockAndCompute, EvalQueue, SubmitTimeout
<1>5. CASE ShutdownStep \/ UNCHANGED vars
  BY <1>1, <1>5 DEF ShutdownStep, CloseQueue, ForgetQueue, ShutdownReturns, ShutdownGivesUp, vars
<1>6. ASSUME NEW s \in Submitters, NEW k \in Workers, HandOver(s, k) PROVE GaugesExact'
  <2>1. WorkerGoes(k, "range", "received", sub[s].job)
    BY <1>6, HandOverSteps
  <2>2. At("active")' = At("active") /\ At("none")' = At("none")
    BY <2>1, AtMoves
  <2>3. UNCHANGED <<activeNum, workerNum>>
    BY <1>6 DEF HandOver, statVars
  <2> QED BY <2>2, <2>3 DEF GaugesExact
<1> QED BY <1>2, <1>3, <1>4, <1>5, <1>6, NextCases

LEMMA InitPool == Init => PType /\ GaugesExact
<1> SUFFICES ASSUME Init PROVE PType /\ GaugesExact
  OBVIOUS
<1>1. /\ worker \in [Workers -> WRec]
      /\ \A k \in Workers : worker[k].st = IF k <= InitWorkerNum THEN "started" ELSE "none"
  BY DEF Init, WRec, WPlaces
<1>5. sub \in [Submitters -> SRec] /\ \A s \in Submitters : sub[s].st = "idle"
  <2>1. IdleSub.st = "idle"
    BY DEF IdleSub
  <2> QED BY <2>1, Records DEF Init
<1>6. queueSize \in QueueSizes /\ queue \in Seq(Jobs) /\ Len(queue) <= queueSize
  BY Parameters DEF Init
<1>7. activeNum \in Int /\ workerNum \in Int /\ accepted \subseteq Jobs
  BY Parameters DEF Init
<1>10. closed \in BOOLEAN
  BY DEF Init
<1>9. executed \in [Jobs -> Nat] /\ queueVar = "open" /\ shutdown = "no"
  BY DEF Init
<1>8. \A k \in Workers : worker[k].st \notin {"received", "active"}
  BY <1>1
<1>2. PType
  BY <1>1, <1>5, <1>6, <1>7, <1>8, <1>9, <1>10 DEF PType
<1>3. At("active") = {} /\ Workers \ At("none") = 1..InitWorkerNum
  BY <1>1, Parameters DEF At, Workers
<1>4. Cardinality(1..InitWorkerNum) = InitWorkerNum
  BY Parameters, FS_Interval
<1> QED BY <1>2, <1>3, <1>4, FS_EmptySet DEF Init, GaugesExact
-----------------------------------------------------------------------------
(***************************************************************************)
(* The bound on the workers.  A decision that was made adds its workers    *)
(* one by one; Owed holds one pair for each that is still to come.  The    *)
(* submitter that decides does so within the bound, and every other one    *)
(* owes no more than a decision can add.                                   *)
(***************************************************************************)
Owed == {p \in Submitters \X (1..growth) : p[2] <= pending(p[1])}
Bound == MaxWorkerNum + (Cardinality(Submitters) - 1) * growth

GrowInv ==
  /\ \A s \in Submitters : Deciding(s) => 1 <= pending(s) /\ pending(s) <= growth
  /\ \/ workerNum = InitWorkerNum /\ Owed = {}
     \/ workerNum + Cardinality(Owed) <= Bound

LEMMA Growth == growth \in Nat /\ growth >= 1
BY IncNum, Parameters DEF growth

LEMMA PendingInt ==
  ASSUME PType, NEW s \in Submitters
  PROVE  pending(s) \in Int /\ (~Deciding(s) => pending(s) = 0)
<1>1. sub[s].workers \in Int /\ sub[s].inc \in Int
  BY Records DEF PType
<1> QED BY <1>1, IncNum DEF pending, Deciding

LEMMA OwedFinite ==
  /\ IsFiniteSet(Submitters) /\ Cardinality(Submitters) \in Nat
  /\ IsFiniteSet(Owed) /\ Cardinality(Owed) \in Nat
<1>1. IsFiniteSet(Submitters)
  BY PoolAssumption
<1>2. IsFiniteSet(1..growth)
  BY Growth, FS_Interval
<1>3. IsFiniteSet(Submitters \X (1..growth))
  BY <1>1, <1>2, FS_Product
<1>4. IsFiniteSet(Owed)
  BY <1>3, FS_Subset DEF Owed
<1> QED BY <1>1, <1>4, FS_CardinalityType

LEMMA InitGrow == Init => GrowInv
<1> SUFFICES ASSUME Init PROVE GrowInv
  OBVIOUS
<1>1. \A s \in Submitters : sub[s].st = "idle"
  BY DEF Init, IdleSub
<1>2. \A s \in Submitters : ~Deciding(s) /\ pending(s) = 0
  BY <1>1 DEF Deciding, pending
<1>3. Owed = {}
  BY <1>2 DEF Owed
<1> QED BY <1>2, <1>3 DEF GrowInv, Init

\* A step that leaves workerNum and what is owed alone.
LEMMA GrowKeep ==
  ASSUME PType, GrowInv, workerNum' = workerNum,
         \A s \in Submitters : pending(s)' = pending(s) /\ (Deciding(s)' => Deciding(s))
  PROVE  GrowInv'
<1>1. Owed' = Owed
  BY DEF Owed
<1> QED BY <1>1 DEF GrowInv, Bound

\* The decision, on the number that is read.
LEMMA DecideGrows ==
  ASSUME PType, GaugesExact, GrowInv, NEW s \in Submitters, LoadWorkers(s)
  PROVE  GrowInv'
<1> DEFINE n == workerNum
<1>1. n \in Nat
  BY FiniteAt, FS_CardinalityType DEF GaugesExact
<1>2. PICK to \in {"lock", "send"} :
        /\ SubGoes(s, "loaded", to) /\ sub'[s].workers = n
        /\ (to = "lock" => n < MaxWorkerNum)
  BY SubSteps
<1>3. workerNum' = n
  BY DEF LoadWorkers, statVars
<1> HIDE DEF n
<1>4. \A t \in Submitters \ {s} : pending(t)' = pending(t) /\ (Deciding(t)' <=> Deciding(t))
  BY <1>2 DEF SubGoes, pending, Deciding
<1>5. pending(s) = 0 /\ ~Deciding(s)
  BY <1>2 DEF SubGoes, pending, Deciding
<1>6. CASE to = "send"
  <2>1. pending(s)' = 0 /\ ~Deciding(s)'
    BY <1>2, <1>6 DEF SubGoes, pending, Deciding
  <2> QED BY <1>3, <1>4, <1>5, <2>1, GrowKeep DEF n
<1>7. CASE to = "lock"
  <2> DEFINE k == incNum(n)
  <2>1. pending(s)' = k
    BY <1>2, <1>7 DEF SubGoes, pending
  <2>2. k \in Int /\ 1 <= k /\ k <= growth /\ n + k <= MaxWorkerNum /\ growth \in Nat
    BY <1>1, <1>2, <1>7, IncNum
  <2> HIDE DEF k
  <2> DEFINE O == Submitters \ {s}
             A == O \X (1..growth)
             B == {s} \X (1..k)
  <2>3. Owed' \subseteq A \cup B
    BY <2>1, <2>2 DEF Owed
  <2>4. IsFiniteSet(O) /\ Cardinality(O) = Cardinality(Submitters) - 1
    BY OwedFinite, FS_RemoveElement
  <2>5. IsFiniteSet(1..growth) /\ Cardinality(1..growth) = growth
        /\ IsFiniteSet(1..k) /\ Cardinality(1..k) = k
    BY <2>2, FS_Interval
  <2>6. IsFiniteSet({s}) /\ Cardinality({s}) = 1
    BY FS_Singleton
  <2> HIDE DEF O
  <2>7. IsFiniteSet(A) /\ Cardinality(A) = (Cardinality(Submitters) - 1) * growth
    <3>1. IsFiniteSet(A) /\ Cardinality(A) = Cardinality(O) * Cardinality(1..growth)
      BY <2>4, <2>5, FS_Product
    <3> QED BY <2>4, <2>5, <3>1
  <2>8. IsFiniteSet(B) /\ Cardinality(B) = k
    <3>1. IsFiniteSet(B) /\ Cardinality(B) = Cardinality({s}) * Cardinality(1..k)
      BY <2>5, <2>6, FS_Product
    <3> QED BY <2>2, <2>5, <2>6, <3>1
  <2> HIDE DEF A, B
  <2>9. IsFiniteSet(A \cup B) /\ Cardinality(A \cup B) = Cardinality(A) + Cardinality(B) - Cardinality(A \cap B)
    BY <2>7, <2>8, FS_Union
  <2>10. Cardinality(A \cap B) \in Nat
    BY <2>7, FS_Subset, FS_CardinalityType
  <2>11. Cardinality(Owed') <= Cardinality(A \cup B) /\ Cardinality(Owed') \in Nat
    BY <2>3, <2>9, FS_Subset, FS_CardinalityType
  <2> DEFINE a == (Cardinality(Submitters) - 1) * growth
  <2>12. a \in Int
    BY <2>2, OwedFinite
  <2>13. Cardinality(A) = a
    BY <2>7
  <2>14. Bound = MaxWorkerNum + a
    BY DEF Bound
  <2> HIDE DEF a
  <2>15. n + Cardinality(Owed') <= Bound
    BY <1>1, <2>2, <2>8, <2>9, <2>10, <2>11, <2>12, <2>13, <2>14, Parameters
  <2>16. \A t \in Submitters : Deciding(t)' => 1 <= pending(t)' /\ pending(t)' <= growth
    BY <1>4, <2>1, <2>2 DEF GrowInv
  <2>17. Bound' = Bound
    BY DEF Bound
  <2> QED BY <1>3, <2>15, <2>16, <2>17 DEF GrowInv
<1> QED BY <1>2, <1>6, <1>7

\* One pass of run pays one of what is owed.
LEMMA RunPays ==
  ASSUME PType, GrowInv, NEW s \in Submitters, RunOne(s)
  PROVE  GrowInv'
<1> DEFINE k == pending(s)
<1>1. SubGoes(s, "run", IF k = 1 THEN "send" ELSE "run") /\ sub'[s].inc = k - 1
  <2>1. sub[s].st = "run"
    BY DEF RunOne, SubAt
  <2>2. k = sub[s].inc
    BY <2>1 DEF pending
  <2> QED BY <2>2, SubSteps
<1>2. k \in Int /\ 1 <= k /\ k <= growth /\ growth \in Nat
  <2>1. Deciding(s)
    BY <1>1 DEF Deciding, SubGoes
  <2> QED BY <2>1, PendingInt, Growth DEF GrowInv
<1> HIDE DEF k
<1>3. pending(s)' = k - 1 /\ (Deciding(s)' => k # 1)
  BY <1>1, <1>2 DEF SubGoes, pending, Deciding
<1>4. \A t \in Submitters \ {s} : pending(t)' = pending(t) /\ (Deciding(t)' <=> Deciding(t))
  BY <1>1 DEF SubGoes, pending, Deciding
<1>5. <<s, k>> \in Owed
  BY <1>2 DEF Owed, k
<1>6. Owed' = Owed \ {<<s, k>>}
  <2>1. ASSUME NEW t \in Submitters, NEW i \in 1..growth
        PROVE  i <= pending(t)' <=> i <= pending(t) /\ <<t, i>> # <<s, k>>
    <3>1. CASE t = s
      <4>1. pending(t) = k
        BY <3>1 DEF k
      <4> QED BY <1>2, <1>3, <3>1, <4>1, Growth
    <3>2. CASE t # s
      BY <1>4, <3>2
    <3> QED BY <3>1, <3>2
  <2> QED BY <2>1 DEF Owed
<1>7. Cardinality(Owed') = Cardinality(Owed) - 1
  BY <1>5, <1>6, OwedFinite, Cardinalities
<1>8. workerNum' = workerNum + 1 /\ workerNum \in Int
  BY DEF RunOne, PType
<1>9. workerNum + Cardinality(Owed) <= Bound /\ Bound' = Bound
  BY <1>5 DEF GrowInv, Bound
<1>10. \A t \in Submitters : Deciding(t)' => 1 <= pending(t)' /\ pending(t)' <= growth
  BY <1>2, <1>3, <1>4 DEF GrowInv
<1>11. workerNum' + Cardinality(Owed') <= Bound'
  BY <1>7, <1>8, <1>9, OwedFinite
<1> QED BY <1>10, <1>11 DEF GrowInv

LEMMA NextGrow ==
  ASSUME PType, GaugesExact, GrowInv, [Next]_vars
  PROVE  GrowInv'
<1>1. ASSUME sub' = sub, workerNum' = workerNum PROVE GrowInv'
  BY <1>1, GrowKeep DEF pending, Deciding
<1>2. ASSUME NEW k \in Workers, WorkerStep(k) PROVE GrowInv'
  BY <1>1, <1>2 DEF WorkerStep, WorkerStart, WorkerReceive, WorkerExit, WorkerBegin, WorkerEnd, statVars
<1>3. ASSUME NEW s \in Submitters, SubOnly(s) \/ Send(s), ~LoadWorkers(s) PROVE GrowInv'
  <2>1. workerNum' = workerNum
    BY <1>3 DEF SubOnly, Send, LoadActive, LockAndCompute, EvalQueue, SubmitTimeout, statVars
  <2>2. PICK from, to :
          /\ SubGoes(s, from, to)
          /\ (from \notin {"lock", "run"} /\ to \notin {"lock", "run"})
               \/ (from = "lock" /\ to = "run" /\ sub'[s].inc = incNum(sub[s].workers))
    BY <1>3, SubSteps DEF SubOnly
  <2>3. \A t \in Submitters : pending(t)' = pending(t) /\ (Deciding(t)' => Deciding(t))
    BY <2>2 DEF SubGoes, pending, Deciding
  <2> QED BY <2>1, <2>3, GrowKeep
<1>4. ASSUME NEW s \in Submitters, LoadWorkers(s) PROVE GrowInv'
  BY <1>4, DecideGrows
<1>5. ASSUME NEW s \in Submitters, RunOne(s) PROVE GrowInv'
  BY <1>5, RunPays
<1>6. CASE ShutdownStep \/ UNCHANGED vars
  BY <1>1, <1>6 DEF ShutdownStep, CloseQueue, ForgetQueue, ShutdownReturns, ShutdownGivesUp, vars, statVars
<1>7. ASSUME NEW s \in Submitters, NEW k \in Workers, HandOver(s, k) PROVE GrowInv'
  <2>1. workerNum' = workerNum
    BY <1>7 DEF HandOver, statVars
  <2>2. \A t \in Submitters : pending(t)' = pending(t) /\ (Deciding(t)' => Deciding(t))
    BY <1>7, HandOverSteps DEF SubGoes, pending, Deciding
  <2> QED BY <2>1, <2>2, GrowKeep
<1> QED BY <1>2, <1>3, <1>4, <1>5, <1>6, <1>7, NextCases

LEMMA WithinBound == PType /\ GaugesExact /\ GrowInv => WorkersBounded
<1> SUFFICES ASSUME PType, GaugesExact, GrowInv PROVE WorkersBounded
  OBVIOUS
<1>1. activeNum \in Nat /\ workerNum \in Nat
  BY FiniteAt, FS_CardinalityType DEF GaugesExact
<1>2. TypeOK
  <2>1. /\ \A k \in Workers : worker[k].st \in WPlaces
        /\ \A s \in Submitters : sub[s].st \in SPlaces
    BY Records DEF PType
  <2> QED BY <1>1, <2>1 DEF TypeOK, PType, WPlaces, SPlaces
<1>3. workerNum = InitWorkerNum \/ workerNum <= Bound
  <2>1. Bound \in Int
    <3>1. (Cardinality(Submitters) - 1) * growth \in Int
      BY OwedFinite, Growth
    <3> QED BY <3>1, Parameters DEF Bound
  <2> QED BY <1>1, <2>1, OwedFinite DEF GrowInv
<1> QED BY <1>2, <1>3 DEF WorkersBounded, Bound

(***************************************************************************)
(* The gauges are exact, and the pool grows beyond MaxWorkerNum at most    *)
(* once per other submitter, for every number of submitters and options,   *)
(* an unbuffered queue included.                                           *)
(***************************************************************************)
THEOREM PoolBounded == Spec => []WorkersBounded
<1>1. Init => PType /\ GaugesExact /\ GrowInv
  BY InitPool, InitGrow
<1>2. (PType /\ GaugesExact /\ GrowInv) /\ [Next]_vars => (PType /\ GaugesExact /\ GrowInv)'
  BY StepPType, StepGauges, NextGrow
<1> QED BY <1>1, <1>2, WithinBound, PTL DEF Spec
-----------------------------------------------------------------------------
(***************************************************************************)
(* The jobs.  That a job is in one place only is what lets the counts of   *)
(* JobOnce follow the steps.                                               *)
(***************************************************************************)
Received(k) == k \in Workers /\ worker[k].st = "received"

JobInv ==
  /\ \A i, j \in DOMAIN queue : queue[i] = queue[j] => i = j
  /\ \A k, l \in Workers : Received(k) /\ Received(l) /\ worker[k].job = worker[l].job => k = l
  /\ \A i \in DOMAIN queue, k \in Workers : Received(k) => worker[k].job # queue[i]
  /\ \A s \in Submitters : sub[s].job \notin accepted
  /\ \A s, t \in Submitters : sub[s].job = sub[t].job /\ sub[s].job # 0 => s = t

InQueue(j) == \E i \in DOMAIN queue : queue[i] = j
WithWorker(j) == \E k \in Workers : Received(k) /\ worker[k].job = j

LEMMA PendingIs == PType => \A j : j \in Pending <=> InQueue(j) \/ WithWorker(j)
BY DEF Pending, InQueue, WithWorker, Received, At, PType

LEMMA PendingIsNext == PType' => \A j : j \in Pending' <=> InQueue(j)' \/ WithWorker(j)'
BY DEF Pending, InQueue, WithWorker, Received, At, PType

LEMMA PendingFinite == PType => Pending \subseteq Jobs /\ IsFiniteSet(Pending)
<1> SUFFICES ASSUME PType PROVE Pending \subseteq Jobs /\ IsFiniteSet(Pending)
  OBVIOUS
<1>1. \A j : InQueue(j) \/ WithWorker(j) => j \in Jobs
  BY DEF InQueue, WithWorker, Received, PType
<1>2. Pending \subseteq Jobs
  BY <1>1, PendingIs
<1>3. IsFiniteSet(Jobs)
  BY Parameters, FS_Interval DEF Jobs
<1> QED BY <1>2, <1>3, FS_Subset

LEMMA InitJobs == Init => JobInv /\ JobOnce
<1> SUFFICES ASSUME Init PROVE JobInv /\ JobOnce
  OBVIOUS
<1>1. PType
  BY InitPool
<1>2. \A k \in Workers : worker[k].st \in {"started", "none"}
  BY DEF Init
<1>3. DOMAIN queue = {} /\ Len(queue) = 0
  BY DEF Init
<1>4. At("received") = {}
  BY <1>2 DEF At
<1>5. Pending = {}
  BY <1>1, <1>2, <1>3, PendingIs DEF InQueue, WithWorker, Received
<1>6. /\ \A s \in Submitters : sub[s].job = 0 /\ accepted = {}
      /\ \A j \in Jobs : executed[j] = 0
  BY DEF Init, IdleSub
<1>7. JobInv
  BY <1>2, <1>3, <1>6 DEF JobInv, Received, Init
<1>8. accepted = {}
  BY DEF Init
<1> QED BY <1>3, <1>4, <1>5, <1>6, <1>7, <1>8, FS_EmptySet DEF JobOnce

\* A step that moves no job; a submitter may give up the one it has.
LEMMA JobKeep ==
  ASSUME PType, PType', JobInv, JobOnce, UNCHANGED <<queue, accepted, executed>>,
         \A k \in Workers : worker'[k].st = "received" <=> worker[k].st = "received",
         \A k \in Workers : worker[k].st = "received" => worker'[k].job = worker[k].job,
         \A s \in Submitters : sub'[s].job = sub[s].job \/ sub'[s].job = 0
  PROVE  JobInv' /\ JobOnce'
<1>1. At("received")' = At("received")
  BY DEF At
<1>2. \A k \in Workers : Received(k)' <=> Received(k)
  BY DEF Received
<1>3. Pending' = Pending
  BY <1>2, PendingIs, PendingIsNext DEF InQueue, WithWorker, Received
<1>4. 0 \notin accepted
  BY DEF PType, Jobs
<1>5. JobInv'
  BY <1>2, <1>4 DEF JobInv, Received
<1> QED BY <1>1, <1>3, <1>5 DEF JobOnce

\* The job that is submitted is a new one.
LEMMA JobSubmit ==
  ASSUME PType, PType', JobInv, JobOnce, NEW s \in Submitters, NEW j \in Jobs, LoadActive(s, j)
  PROVE  JobInv' /\ JobOnce'
<1>1. /\ UNCHANGED <<queue, accepted, executed, worker>> /\ j \notin accepted
      /\ \A t \in Submitters : sub[t].job # j
  BY DEF LoadActive, NewJob, chanVars
<1>2. sub'[s].job = j /\ \A t \in Submitters \ {s} : sub'[t] = sub[t]
  BY SubSteps DEF SubGoes
<1>3. JobInv'
  BY <1>1, <1>2 DEF JobInv, Received
<1>4. Pending' = Pending /\ At("received")' = At("received")
  BY <1>1 DEF Pending, At
<1> QED BY <1>1, <1>3, <1>4 DEF JobOnce

LEMMA JobSend ==
  ASSUME PType, PType', JobInv, JobOnce, NEW s \in Submitters, Send(s)
  PROVE  JobInv' /\ JobOnce'
<1> DEFINE j == sub[s].job
           n == Len(queue) + 1
<1>1. j \in Jobs /\ j # 0 /\ j \notin accepted
  BY DEF Send, SubAt, PType, Jobs, JobInv
<1>2. /\ queue \in Seq(Jobs) /\ queue' = Append(queue, j)
      /\ accepted' = accepted \cup {j} /\ UNCHANGED <<worker, executed>>
  BY DEF Send, PType
<1>3. sub'[s].job = 0 /\ \A t \in Submitters \ {s} : sub'[t] = sub[t]
  BY SubSteps DEF SubGoes
<1>4. /\ n \notin DOMAIN queue /\ DOMAIN queue' = DOMAIN queue \cup {n} /\ queue'[n] = j
      /\ \A i \in DOMAIN queue : queue'[i] = queue[i]
  BY <1>1, <1>2
<1>5. Len(queue') = Len(queue) + 1 /\ Len(queue) \in Nat
  BY <1>1, <1>2
<1>6. \A t \in Submitters : sub[t].job = j => t = s
  BY <1>1 DEF JobInv
<1>7. 0 \notin accepted'
  BY <1>1, <1>2 DEF PType, Jobs
<1> HIDE DEF j, n
<1>8. j \notin Pending
  BY <1>1 DEF JobOnce
<1>9. \A i : (InQueue(i)' <=> InQueue(i) \/ i = j) /\ (WithWorker(i)' <=> WithWorker(i))
  BY <1>2, <1>4 DEF InQueue, WithWorker, Received
<1>10. Pending' = Pending \cup {j}
  BY <1>9, PendingIs, PendingIsNext
<1>11. JobInv'
  <2>1. \A i \in DOMAIN queue : queue[i] # j
    BY <1>8, PendingIs DEF InQueue
  <2>2. \A k \in Workers : Received(k) => worker[k].job # j
    BY <1>8, PendingIs DEF WithWorker
  <2>3. \A i, m \in DOMAIN queue' : queue'[i] = queue'[m] => i = m
    BY <1>4, <2>1 DEF JobInv
  <2>4. \A k \in Workers : Received(k)' <=> Received(k)
    BY <1>2 DEF Received
  <2>5. \A i \in DOMAIN queue', k \in Workers : Received(k)' => worker'[k].job # queue'[i]
    BY <1>2, <1>4, <2>2, <2>4 DEF JobInv
  <2>6. \A t \in Submitters : sub'[t].job \notin accepted'
    BY <1>2, <1>3, <1>6, <1>7 DEF JobInv
  <2>7. \A t, u \in Submitters : sub'[t].job = sub'[u].job /\ sub'[t].job # 0 => t = u
    BY <1>3 DEF JobInv
  <2>8. \A k, l \in Workers : Received(k)' /\ Received(l)' /\ worker'[k].job = worker'[l].job => k = l
    BY <1>2, <2>4 DEF JobInv
  <2> QED BY <2>3, <2>5, <2>6, <2>7, <2>8 DEF JobInv
<1>12. Cardinality(Pending') = Cardinality(Pending) + 1
  BY <1>8, <1>10, PendingFinite, Cardinalities
<1>13. At("received")' = At("received")
  BY <1>2 DEF At
<1>14. accepted' \ Pending' = accepted \ Pending
  BY <1>1, <1>2, <1>10
<1>15. Cardinality(At("received")) \in Nat
  BY FiniteAt, FS_CardinalityType
<1>16. Cardinality(Pending') = Len(queue') + Cardinality(At("received")')
  BY <1>5, <1>12, <1>13, <1>15 DEF JobOnce
<1> QED BY <1>2, <1>10, <1>11, <1>14, <1>16 DEF JobOnce

\* The job goes to the worker at once.
LEMMA JobHandOver ==
  ASSUME PType, PType', JobInv, JobOnce, NEW s \in Submitters, NEW k \in Workers, HandOver(s, k)
  PROVE  JobInv' /\ JobOnce'
<1> DEFINE j == sub[s].job
<1>1. /\ WorkerGoes(k, "range", "received", j) /\ sub'[s].job = 0
      /\ \A t \in Submitters \ {s} : sub'[t] = sub[t]
  BY HandOverSteps DEF SubGoes
<1>2. j \in Jobs /\ j # 0 /\ j \notin accepted
  BY HandOverSteps DEF Jobs, JobInv
<1>3. accepted' = accepted \cup {j} /\ UNCHANGED <<queue, executed>>
  BY DEF HandOver, chanVars
<1>4. \A t \in Submitters : sub[t].job = j => t = s
  BY <1>2 DEF JobInv
<1>5. 0 \notin accepted'
  BY <1>2, <1>3 DEF PType, Jobs
<1> HIDE DEF j
<1>6. /\ ~Received(k) /\ Received(k)' /\ worker'[k].job = j
      /\ \A l \in Workers \ {k} : (Received(l)' <=> Received(l)) /\ worker'[l] = worker[l]
  BY <1>1 DEF WorkerGoes, Received
<1>7. j \notin Pending
  BY <1>2 DEF JobOnce
<1>8. Pending' = Pending \cup {j}
  <2>1. ASSUME NEW i PROVE InQueue(i)' \/ WithWorker(i)' <=> InQueue(i) \/ WithWorker(i) \/ i = j
    BY <1>3, <1>6 DEF InQueue, WithWorker
  <2> QED BY <2>1, PendingIs, PendingIsNext
<1>9. JobInv'
  <2>1. \A i \in DOMAIN queue : queue[i] # j
    BY <1>7, PendingIs DEF InQueue
  <2>2. \A l \in Workers : Received(l) => worker[l].job # j
    BY <1>7, PendingIs DEF WithWorker
  <2>3. \A l, m \in Workers : Received(l)' /\ Received(m)' /\ worker'[l].job = worker'[m].job => l = m
    BY <1>6, <2>2 DEF JobInv
  <2>4. \A i \in DOMAIN queue', l \in Workers : Received(l)' => worker'[l].job # queue'[i]
    BY <1>3, <1>6, <2>1 DEF JobInv
  <2>5. \A t \in Submitters : sub'[t].job \notin accepted'
    BY <1>1, <1>3, <1>4, <1>5 DEF JobInv
  <2>6. \A t, u \in Submitters : sub'[t].job = sub'[u].job /\ sub'[t].job # 0 => t = u
    BY <1>1 DEF JobInv
  <2> QED BY <1>3, <2>3, <2>4, <2>5, <2>6 DEF JobInv
<1>10. k \notin At("received") /\ At("received")' = At("received") \cup {k}
  BY <1>1, AtMoves
<1>11. /\ Cardinality(At("received")') = Cardinality(At("received")) + 1
       /\ Cardinality(At("received")) \in Nat
  BY <1>10, FiniteAt, Cardinalities
<1>12. Cardinality(Pending') = Cardinality(Pending) + 1
  BY <1>7, <1>8, PendingFinite, Cardinalities
<1>13. Len(queue) \in Nat
  BY DEF PType
<1>14. Cardinality(Pending') = Len(queue') + Cardinality(At("received")')
  BY <1>3, <1>11, <1>12, <1>13 DEF JobOnce
<1>15. accepted' \ Pending' = accepted \ Pending
  BY <1>2, <1>3, <1>8
<1> QED BY <1>3, <1>8, <1>9, <1>14, <1>15 DEF JobOnce

LEMMA JobReceive ==
  ASSUME PType, PType', JobInv, JobOnce, NEW k \in Workers, WorkerReceive(k)
  PROVE  JobInv' /\ JobOnce'
<1>1. /\ queue \in Seq(Jobs) /\ queue # <<>> /\ queue' = Tail(queue)
      /\ UNCHANGED <<sub, accepted, executed>>
  BY DEF WorkerReceive, PType
<1>2. WorkerGoes(k, "range", "received", queue[1])
  <2>1. Head(queue) = queue[1]
    BY <1>1
  <2> QED BY <2>1, WorkerSteps
<1>3. /\ 1 \in DOMAIN queue
      /\ \A i \in DOMAIN queue' : i + 1 \in DOMAIN queue /\ i + 1 # 1 /\ queue'[i] = queue[i + 1]
      /\ \A i, m \in DOMAIN queue' : i + 1 = m + 1 => i = m
  BY <1>1
<1>4. \A i \in DOMAIN queue : i = 1 \/ \E m \in DOMAIN queue' : queue'[m] = queue[i]
  <2>1. ASSUME NEW i \in DOMAIN queue, i # 1
        PROVE  i - 1 \in DOMAIN queue' /\ queue'[i - 1] = queue[i]
    BY <1>1, <2>1
  <2> QED BY <2>1
<1>5. Len(queue') = Len(queue) - 1 /\ Len(queue) \in Nat
  BY <1>1
<1>6. /\ ~Received(k) /\ Received(k)' /\ worker'[k].job = queue[1]
      /\ \A l \in Workers \ {k} : (Received(l)' <=> Received(l)) /\ worker'[l] = worker[l]
  BY <1>2 DEF WorkerGoes, Received
<1>7. Pending' = Pending
  <2>1. ASSUME NEW j PROVE InQueue(j)' \/ WithWorker(j)' <=> InQueue(j) \/ WithWorker(j)
    BY <1>3, <1>4, <1>6 DEF InQueue, WithWorker
  <2> QED BY <2>1, PendingIs, PendingIsNext
<1>8. /\ k \notin At("received") /\ At("received")' = At("received") \cup {k}
  BY <1>2, AtMoves
<1>9. /\ Cardinality(At("received")') = Cardinality(At("received")) + 1
      /\ Cardinality(At("received")) \in Nat
  BY <1>8, FiniteAt, Cardinalities
<1>10. JobInv'
  <2>1. \A i, m \in DOMAIN queue' : queue'[i] = queue'[m] => i = m
    BY <1>3 DEF JobInv
  <2>2. \A l, m \in Workers : Received(l)' /\ Received(m)' /\ worker'[l].job = worker'[m].job => l = m
    BY <1>3, <1>6 DEF JobInv
  <2>3. \A i \in DOMAIN queue', l \in Workers : Received(l)' => worker'[l].job # queue'[i]
    BY <1>3, <1>6 DEF JobInv
  <2> QED BY <1>1, <2>1, <2>2, <2>3 DEF JobInv
<1>11. Cardinality(Pending') = Len(queue') + Cardinality(At("received")')
  BY <1>5, <1>7, <1>9 DEF JobOnce
<1> QED BY <1>1, <1>7, <1>10, <1>11 DEF JobOnce

LEMMA JobBegin ==
  ASSUME PType, PType', JobInv, JobOnce, NEW k \in Workers, WorkerBegin(k)
  PROVE  JobInv' /\ JobOnce'
<1> DEFINE j == worker[k].job
<1>1. /\ j \in Jobs /\ executed' = [executed EXCEPT ![j] = @ + 1]
      /\ UNCHANGED <<queue, sub, accepted>>
  BY WorkerSteps DEF WorkerBegin, chanVars
<1>2. WorkerGoes(k, "received", "active", j)
  BY WorkerSteps
<1>3. /\ Received(k) /\ ~Received(k)'
      /\ \A l \in Workers \ {k} : (Received(l)' <=> Received(l)) /\ worker'[l] = worker[l]
  BY <1>2 DEF WorkerGoes, Received
<1>4. \A i \in DOMAIN queue : queue[i] # j
  BY <1>3 DEF JobInv
<1>5. \A l \in Workers : Received(l) /\ worker[l].job = j => l = k
  BY <1>3 DEF JobInv
<1>6. WithWorker(j)
  BY <1>3 DEF WithWorker
<1> HIDE DEF j
<1>7. Pending' = Pending \ {j} /\ j \in Pending
  <2>1. ASSUME NEW i PROVE InQueue(i)' \/ WithWorker(i)' <=> (InQueue(i) \/ WithWorker(i)) /\ i # j
    <3>1. InQueue(i)' <=> InQueue(i)
      BY <1>1 DEF InQueue
    <3>2. InQueue(i) => i # j
      BY <1>4 DEF InQueue
    <3>3. WithWorker(i)' => WithWorker(i) /\ i # j
      BY <1>3, <1>5 DEF WithWorker
    <3>4. WithWorker(i) /\ i # j => WithWorker(i)'
      BY <1>3 DEF WithWorker, j
    <3> QED BY <3>1, <3>2, <3>3, <3>4
  <2>2. j \in Pending
    BY <1>6, PendingIs
  <2> QED BY <2>1, <2>2, PendingIs, PendingIsNext
<1>8. k \in At("received") /\ At("received")' = At("received") \ {k}
  BY <1>2, AtMoves
<1>9. /\ Cardinality(At("received")') = Cardinality(At("received")) - 1
      /\ Cardinality(At("received")) \in Nat
  BY <1>8, FiniteAt, Cardinalities
<1>10. Cardinality(Pending') = Cardinality(Pending) - 1
  BY <1>7, PendingFinite, Cardinalities
<1>11. Len(queue) \in Nat
  BY DEF PType
<1>12. Cardinality(Pending') = Len(queue') + Cardinality(At("received")')
  BY <1>1, <1>9, <1>10, <1>11 DEF JobOnce
<1>13. \A i \in Jobs : executed'[i] = IF i \in accepted' \ Pending' THEN 1 ELSE 0
  <2>1. executed[j] = 0 /\ j \in accepted
    BY <1>1, <1>7 DEF JobOnce
  <2>2. executed'[j] = 1
    BY <1>1, <2>1 DEF PType
  <2>3. \A i \in Jobs \ {j} : executed'[i] = executed[i]
    BY <1>1 DEF PType
  <2> QED BY <1>1, <1>7, <2>1, <2>2, <2>3 DEF JobOnce
<1>14. JobInv'
  BY <1>1, <1>3 DEF JobInv
<1>15. Pending' \subseteq accepted'
  BY <1>1, <1>7 DEF JobOnce
<1> QED BY <1>12, <1>13, <1>14, <1>15 DEF JobOnce

LEMMA NextJobs ==
  ASSUME PType, PType', JobInv, JobOnce, [Next]_vars
  PROVE  JobInv' /\ JobOnce'
<1>1. ASSUME NEW k \in Workers, WorkerStart(k) \/ WorkerExit(k) \/ WorkerEnd(k)
      PROVE  JobInv' /\ JobOnce'
  <2>1. UNCHANGED <<queue, accepted, executed, sub>>
    BY <1>1 DEF WorkerStart, WorkerExit, WorkerEnd, chanVars
  <2>2. PICK from, to, j : WorkerGoes(k, from, to, j) /\ from # "received" /\ to # "received"
    BY <1>1, WorkerSteps
  <2> QED BY <2>1, <2>2, JobKeep DEF WorkerGoes
<1>2. ASSUME NEW k \in Workers, WorkerStep(k) PROVE JobInv' /\ JobOnce'
  BY <1>1, <1>2, JobReceive, JobBegin DEF WorkerStep
<1>3. ASSUME NEW s \in Submitters, SubOnly(s) PROVE JobInv' /\ JobOnce'
  <2>1. CASE \E j \in Jobs : LoadActive(s, j)
    BY <2>1, JobSubmit
  <2>2. CASE LoadWorkers(s) \/ LockAndCompute(s) \/ EvalQueue(s) \/ SubmitTimeout(s)
    <3>1. UNCHANGED <<queue, accepted, executed, worker>>
      BY <2>2 DEF LoadWorkers, LockAndCompute, EvalQueue, SubmitTimeout, chanVars
    <3>2. \A t \in Submitters : sub'[t].job = sub[t].job \/ sub'[t].job = 0
      BY <2>2, SubSteps DEF SubGoes
    <3> QED BY <3>1, <3>2, JobKeep
  <2> QED BY <1>3, <2>1, <2>2 DEF SubOnly
<1>4. ASSUME NEW s \in Submitters, RunOne(s) PROVE JobInv' /\ JobOnce'
  <2>1. PICK k \in FreeWorkers : worker' = [worker EXCEPT ![k].st = "started"]
    BY <1>4 DEF RunOne
  <2>2. k \in Workers /\ worker[k].st = "none" /\ worker'[k].st = "started"
        /\ \A i \in Workers \ {k} : worker'[i] = worker[i]
    BY <2>1 DEF FreeWorkers, PType, WRec
  <2>3. UNCHANGED <<queue, accepted, executed>>
    BY <1>4 DEF RunOne, chanVars
  <2>4. \A t \in Submitters : sub'[t].job = sub[t].job
    BY <1>4, SubSteps DEF SubGoes
  <2> QED BY <2>2, <2>3, <2>4, JobKeep
<1>5. CASE ShutdownStep \/ UNCHANGED vars
  <2>1. UNCHANGED <<queue, accepted, executed, worker, sub>>
    BY <1>5 DEF ShutdownStep, CloseQueue, ForgetQueue, ShutdownReturns, ShutdownGivesUp, vars, chanVars
  <2> QED BY <2>1, JobKeep
<1> QED BY <1>2, <1>3, <1>4, <1>5, JobSend, JobHandOver, NextCases

(***************************************************************************)
(* No job is lost or run twice, whatever panics, times out or is shut      *)
(* down, for every number of submitters, jobs and workers and every size   *)
(* of the queue, 0 (no buffer) included.                                   *)
(***************************************************************************)
THEOREM JobsRunOnce == Spec => []JobOnce
<1>1. Init => PType /\ JobInv /\ JobOnce
  BY InitPool, InitJobs
<1>2. (PType /\ JobInv /\ JobOnce) /\ [Next]_vars => (PType /\ JobInv /\ JobOnce)'
  BY StepPType, NextJobs
<1> QED BY <1>1, <1>2, PTL DEF Spec
=============================================================================
