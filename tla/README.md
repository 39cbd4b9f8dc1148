# gokits: TLA+ models, checks and proofs

`gokits` is a set of independent Go packages.  Several of them are small
concurrent algorithms: a blocking deque on a home-made condition variable, a
timer wheel, a worker pool, a limiting listener, an expiring cache, an adaptive
rate limiter, and goroutine-local storage.  This directory models them in TLA+, checks the models
with TLC on small instances, and proves with TLAPS, for every value of the
constants, each safety property that a passing run checks.

`PROJECT.json` is the index: components, runs, the map from definitions to
source lines, mutants, hazards, findings and theorems.

## Inventory

| Part | State | Operations | What makes it correct |
|---|---|---|---|
| `gconcurrent/cond.go` TimeoutCond | waiter count, signal channel | Wait, Signal, Interrupt, HasWaiters | the count is exact; an interrupt reaches the waiters; a signal wakes one |
| `gcollection/queue.go` LinkedBlockingDeque | list (first, last, count, links), two conditions | Offer/Add/Put/Poll/Take/Peek at both ends, RemoveFirst/LastOccurrence, ToSlice, InterruptTakeWaiters | the list is well linked; it behaves as a deque; blocked calls come back |
| `gcollection/queue.go` iterators | next node, copied item, last returned node | Next, HasNext, Remove | weakly consistent: no repeats, nothing missed that stays, in order |
| `gtime/timerwheel.go` TimerWheel | cursor, slots, timers, sender goroutines | AfterFunc, After, Cancel, Start, Stop, tick | expiry on time, as often as asked, to the right channel; Cancel is final |
| `gnet/listen.go` LimitListener | counter, semaphore channel | Accept, Close | at most n connections; no release gets stuck |
| `gconcurrent/worker.go` WorkerPool | queue channel, gauges, workers | Execute, Submit, Shutdown | each job once; gauges exact; at most max workers; Shutdown waits |
| `gcache/cache.go` Cache | map, eviction function, janitor | Set, Add, Replace, Get, Delete, DeleteExpired, OnEvicted, Clear | each eviction reported once; only expired items swept; the janitor sweeps and stops |
| `grate/vegas.go`, `grate/sample.go` Vegas | in-flight count, current sample, limit, minimal round trip | Acquire, done, Stats | each sample evaluated once; the limit stays in its bounds and is never raised by a window with a drop |
| `grate/codel.go` CoDel | queue of packets, pool of channels, drop state | Push, Pop, Stats | a channel has one packet; nobody is refused that has not waited |
| `grate/limiter.go` Limiter | none of its own | Allow, and the function it returns | each place taken is given back once; the calls that run are bounded; the queue is served |
| `gls` | map from g pointers to storages with an expiry, in buckets | Put, With, Go, Cleanup, Get, Set, sweep | a goroutine sees its own storage until it is cleaned up; entries go at last |
| `gid/gstack.go` | none | GoID, its parser of unsigned numbers | no overflow passes unnoticed |
| `gnet/backoff.go` | none | Backoff | the delay stays within the maximum and its jitter |
| `gcrypto`, `grand`, `gref`, `gslice`, `gfile`, `gnet/ghttp`, `gnet/gemail`, `gstr` | none | library wrappers, conversions and I/O | not modelled |

The packages interact in two places: the deque calls TimeoutCond (condition
`notEmpty` for takers and `notFull` for putters, both on the lock of the
deque), and the limiter composes Vegas and CoDel.  Everything else meets only
in the goroutines of the callers.

The hard behaviour is that of goroutines: fields read outside a lock and used
later, channels replaced while someone selects on them, callbacks made after
an unlock, atomics that are read one by one.  Each place is listed in
`PROJECT.json` under `hazards` at its line.

## Modules

| Module | Models | Composed of |
|---|---|---|
| `TimeoutCond` | the condition variable, parameterised by the goroutines and the conditions | |
| `DequeSpec` | what a deque promises: a sequence, and the last call with its argument and result | |
| `LinkedBlockingDeque` | the deque | extends `TimeoutCond`, implements `DequeSpec` |
| `DequeIterator` | iterators over a deque that changes | extends `LinkedBlockingDeque` |
| `TimerWheel` | the timer wheel | |
| `LimitListener` | the listener | |
| `WorkerPool` | the pool | |
| `Cache` | the cache | |
| `RateLimit` | what Vegas promises: places in flight, a limit within its bounds | |
| `Vegas` | Vegas and its samples | implements `RateLimit` |
| `CoDel` | the queue of the limiter: Push, Pop, judge; it has no Next of its own | |
| `Limiter` | the limiter | instantiates `RateLimit` and `CoDel` |
| `GoroutineStorage` | gls | |
| `ParseUint`, `Backoff` | the parser of `gid`, the delay of `gnet` | |
| `LinkedBlockingDequeProofs` | theorems about the deque, its condition variable and its iterators | extends `DequeIterator` |
| `TimerWheelProofs`, `WorkerPoolProofs`, `CacheProofs`, `VegasProofs`, `LimiterProofs`, `GoroutineStorageProofs` | theorems about one component each (`LimiterProofs`: with its queue) | extend the component |
| `NumericProofs` | theorems about the components whose whole state is numbers: the listener, the parser and the backoff | extends `MCNumeric` and `LimitListener` |
| `MCDeque`, `MCDequeIterator`, `MCTimerWheel`, `MCCache`, `MCVegas`, `MCLimiter` | constants, bounds and symmetry for TLC | extend the component |
| `MCNumeric` | one specification for both sequential functions, with the assumptions on their constants | instantiates `ParseUint` and `Backoff` |

`LimitListener`, `WorkerPool` and `GoroutineStorage` have constants that a cfg can
give directly, and are run without an MC module.

### How state and steps correspond to the code

**TimeoutCond and LinkedBlockingDeque.**  One action is one critical section of
`q.lock`.  A blocking call is cut where `Wait` unlocks: `StartWait` (still
under the lock: count up, copy the channel), then the goroutine is `unlocked`,
its select finds the channel closed, a done context, or `parks` it; a signal
reaches only a parked goroutine, because `Signal` is a non-blocking send on an
unbuffered channel.  A `woken` goroutine takes the lock back in `Resume` and
goes round the loop of the call.  Channels are numbered: `signal[c]` is the
current one, `wait[g].ch` the one that `g` copied, and they differ exactly if
the copy was closed.  The nodes are addresses; `order` is a history variable
with the nodes in list order, which the code does not have and which the
invariants relate to the pointers.  Nodes are not reused, as the garbage
collector guarantees while an iterator refers to one.

`out` is a history variable: the call that completed last, its argument and its
result.  It is what ties `DequeSpec` to the calls: `Add` and `Take` work at the end
that the call names, `Remove` on the first or the last occurrence of its argument,
and a call gives up only when the sequence leaves it nothing else.  No guard reads
`out`, so the runs take states that differ in it only for one (`VIEW WithoutOutcome`);
TLC checks the refinement, the one property that reads it, on every step, those to
states it has seen included.

**DequeIterator.**  An iterator's `Next` and `Remove` take the lock, so each is
one action.  `succ` follows links through removed nodes as the code does; its loop
is not a recursive function but the node where it stops: the one that skips no
further, among those in the least set that has the first node and is closed under
skipping.  There is none if the loop does not end.

**TimerWheel.**  The tick goroutine moves the cursor, wraps it, fetches under
the lock and notifies without it: four steps.  `scheduleTimeOut` is under the
lock but may read the cursor between increment and wrap.  The sender goroutine
refers to the loop variable of `notifyExpiredTimeOut`, which is shared by all
passes of the loop (`go.mod` says `go 1.12`).  An event is the pair of a
timer and the number of its expiry; `delivered[t]` has those that came out of the
channel of `t`, and `shared` the timers that expired in the same tick as another, whose
senders may read another timer as their loop variable.  A task
given to `AfterFunc` runs in a goroutine of its own and touches nothing of the
wheel.  Times are in time units, a tick is `TickDuration`
of them.

**LimitListener.**  Goroutines and connections are interchangeable, so the
state counts how many are at each point.  The atomic add and the use of the
channel after it are separate steps.

**WorkerPool.**  Reads of the two gauges, the lock, each pass of `run`, the
evaluation of `w.queue` and the send are separate steps, as are the close and
the assignment of nil in `Shutdown`.  A job is sent to the buffer, whose size
`queueSize` is the option as given, or handed to a worker that waits for one
(`HandOver`), the only way for an unbuffered channel.  `WorkersBounded` writes `growth` for half of the
maximum, the most that one decision adds.  A send on the closed channel ends the
program (`crashed`).

**Cache.**  What is done under `c.mu` is one step.  `Set` and `DeleteExpired` read
the clock before it, and every eviction call after it is a step that reads
`c.onEvicted` again.  A call of nil ends the program (`panicked`).  `Add` and
`Replace` read the clock twice under the lock; the model reads it once.  Keys
collected by a sweep are a set, since Go's map order is arbitrary.  The history
variable `disabled` has the goroutines that had items to report when `OnEvicted(nil)`
was called.

**Vegas.**  One step is one atomic operation of `Acquire`, `done` or `sample.Add`,
or a piece of the critical section between two reads of the sample: callers that
loaded a sample before it was replaced still add to it while it is evaluated.  The
loop of CompareAndSwap in `sample.Add` is one atomic maximum.  Samples are numbered
and the last one is `v.sample`.  The code's square root and its fraction are
floating point; the model writes the truncated limits with integer square roots and
the comparisons of `queue` squared, which is exact.  The random number in
`newMinRTT` is any of `Rands`.

**CoDel and Limiter.**  The caller's way through `Push` and `Pop` is cut at each
channel operation, at the reading of the clock in `judge` and at its lock; between
its two selects a caller in `Push` is in the queue but waits for nothing yet.  A send
with `default` reaches a caller only if that caller is in its second select, so an
answer that comes in between is lost.  A
`sync.Pool` may hand out a channel it holds, or make a new one.  `Limiter` takes
`RateLimit` for Vegas, which `VegasProofs` justifies, and runs `Push` only after a
`denied` place and `Pop` only after `done`.

**GoroutineStorage.**  A bucket is locked for a whole `Put`, `Delete` or sweep of that
bucket, so each is a step.  Time is relative: an entry has the time it has left and
the sweeper the age of the `now` it read once.  The pairs of a storage are one
value.  A storage is a Go map with an identity: `Put` returns the map of the goroutine,
and `With` stores the map of its caller (or nil) itself, so the users (external: `Make`,
`Write`, `Drop`) may hold a map (`held`), write to it, and give it to several goroutines.
Go does not synchronise such accesses; the model's steps on a map are atomic.  A map
that nobody refers to is reused.  `snap[h]` is what the parent of `h` had at the call of
`Go`, until `h` may have changed its copy.  The reuse of a g by the runtime, and a
goroutine that ends without `Cleanup`, are external.

**ParseUint and Backoff.**  One step per digit, on words of `Width` bits that wrap;
one step per failure, on integers, with factor and jitter in tenths.  The conversion of
the result to a `Duration` (`Converted`) gives any `Duration` from `MaxDuration` on, which
as a `float64` is rounded up to 2^63 and out of range.

## Runs

Runs that pass:

| Run | Properties | Bounds, and why they suffice |
|---|---|---|
| `deque_blocking` | TypeOK, WaitersOK, ImplementsDeque, InterruptReleases, PollReturns | capacity 1, 2 goroutines in blocking calls with everyone else in the non-blocking ones, 3 insertions of one element, 1 interrupt: full, empty, lost and stolen wake-ups all occur. With room for one element the two ends are one: at which end a blocking call works is `DequeImplemented`'s part, since two elements with room for both, with the liveness properties, are out of TLC's reach |
| `deque_iterator` | WellLinked, ReadersAgree, NextItemOK, EachOnce, InOrder, ImplementsDeque | capacity 3 has a first, a middle and a last node; 4 insertions of 2 elements refill it after removals, and equal elements occur; a call that works at the wrong end, or on the wrong occurrence, is seen; one iterator in either direction: iterators do not see each other except through the list |
| `wheel` | WithinARound, OnePlace, CancelIsFinal, EventsArrive, Expires | 3 slots of 2 units; one timer with delays 0, 3, 5, 8, 12 once (below a tick, between ticks, just below a round and rounded up to one, above it, two rounds) and 1, 6 without limit, where Forever = 2 expiries stand for a limit that is not reached; a second timer of 3 units shares slots, the loop variable and the channels |
| `listener` | TokenAccounting, OpenBound, ReleaseNotStuck | limit 2, 3 acceptors, 8 connections, 3 rejections |
| `pool` | JobOnce, WorkersBounded, JobsExecuted | 2 submitters, 3 jobs, no buffer or a buffer of 1, 1 to 2 workers and room for 4, shutdown at any point; 3 workers are reached and a fourth would be seen |
| `cache` | EvictedOnce, SweepsOnlyExpired, NilCalledInRace | 2 callers and the janitor, 2 keys, 3 objects, clock 1 to 4, with and without expiration |
| `vegas` | SampleUsedOnce, MinRTTReal, QueueNotNegative, RateSpec, DropNeverRaises | 2 callers, 4 calls, samples of 2 (the code's 16), limit 2 to 4, clock 1 to 4, round trips up to 2, 3 samples: both callers find one sample full, add late to the old one, and evaluate two samples in a row |
| `limiter` | InFlightExact, ChannelOnce, JudgeSound, RunningBound, LastLeavesEmpty | 3 callers, 4 calls, limit 1 to 2, queue of 2, 3 channels, target and interval of 1, clock 1 to 6: a full queue, a context that ends while its packet is judged, a channel that comes back through the pool to another caller, and the dropping state all occur |
| `gls` | GoSnapshot, EntryStable, EntryGoes | 2 g pointers in 2 buckets, 2 maps, 1 value and none, With nested twice, a sweep that takes up to one unit: a map is shared by two goroutines, written by its users, given to With again, and a g with an old entry is reused. A third map takes TLC too long; the theorems are for any number |
| `numeric` | NoWrap, DelayWithin | words of 6 bits, 8 bases, bit sizes 0, 3, 6, up to 5 characters: cutoff, wrap of the addition and bit size are all hit; 3 to 4 values of each field of the configuration, up to 5 retries, and a largest `Duration` of 40, so that some delays fit only without their jitter |

`TypeOK` of a component is a conjunct of one of its invariants (`OnePlace`,
`WorkersBounded`, `EvictedOnce`, `SampleUsedOnce`, `RunningBound`, `GoSnapshot`), or
proved for all constants (deque, listener, parser).  `WorkersBounded` also has
`GaugesExact`.

`CHECK_DEADLOCK FALSE` stands where the system may stop: the listener with
a stuck release or its bounds used up, a stopped or crashed wheel, a pool that
was shut down, a cache whose bound on objects is used up and whose user is gone,
callers of Vegas and the limiter that have used up their calls and the clock, a
parser or a backoff that has returned.

Runs that show where the code and its documents disagree (each is a finding in
`PROJECT.json` with the line quoted):

| Run | Property | What happens |
|---|---|---|
| `deque_served` | TakerServed | an insertion signals while the taker is between unlock and select; nobody is woken, and the taker sleeps beside an element |
| `cache_cleans` | JanitorCleans | the ticker is stopped before the loop; nothing is swept |

Other things the models show, without a run of their own:

- `cond.go:57`: the comment on `Wait` says "Returns true if signaled", while
  `return !ok` returns true for an interrupt and false for a signal.  The deque
  uses it in the code's sense.
- `queue.go:423`: a taker that a signal has woken can lose its element to a poll;
  an interrupt that comes in between does not reach it.  `InterruptReleases` is
  therefore about takers that were not woken yet.
- `timerwheel.go:232`: Cancel of a periodic timer that is being notified finds it
  in no slot, and the rescheduling undoes it.  `CancelIsFinal` excludes that case.
- `timerwheel.go:239`: of two timers that expire in one tick the sender of the first may
  use the loop variable of the later one.  Its event then goes to the channel of that
  timer; if that timer was made by `AfterFunc` its channel is nil, the sender blocks for
  ever and the event is lost.  `EventsArrive` is about timers that expire alone; `timerwheel.go:241`: the sender of the last
  event may close the channel before the others have sent, and they panic.
- `timerwheel.go:186`: a timer whose slot lies beyond the wrap of the cursor gets a
  round more than it needs, and expires up to one full round late, while the
  comment at line 108 promises the given duration.  `WithinARound` states the bound
  that holds.  `timerwheel.go:97`: `Stop` sends on an unbuffered channel, and blocks
  for ever when no tick goroutine runs or when it is called twice.
- `listen.go:42`: the counter is raised and compared before the semaphore is used,
  so up to twice `n` connections are open, while the comment at lines 26-27
  promises at most `n`; `OpenBound` is the bound that holds.
- `worker.go:192`: Shutdown returns when no job is active, with jobs still in the
  queue, while the comment at line 36 says that it waits for them.
  `worker.go:154`: the number of workers is loaded again under the lock and the
  value thrown away; `WorkersBounded` states how far the maximum is exceeded.
  `worker.go:184`: a submitter that has evaluated `w.queue` before the close panics, and
  one that evaluates it after the assignment of nil blocks for ever (in `Submit`: until
  its timeout).
- `queue.go:235`: PutFirst and PutLast go round their loop without looking at the
  context, so a done context does not bring them back from a full deque.
- `cache.go:137` and `:173`: `OnEvicted(nil)` between the deletion and the call makes
  the call panic (`panicked` in the model); `NilCalledInRace` says that nothing else does.
  `cache.go:51`: the expiration is computed before the lock, so `Set` can put an item that
  has expired over one that has not: `Get` then returns nothing.  `cache.go:210`: `UpdateExpiration`
  changes a copy of the item.  `cache.go:224`: `break` leaves the select, and the
  janitor never ends.
- `codel.go:150`: the result of `judge` is always that of `checkFaTime`: the control
  law computes `dropNext` and `count`, and neither has an influence on a verdict.
- `limiter.go:52`: a caller that is queued after the `Pop` of the last running call is
  woken by nobody until its context ends or a new call is done.  `LastLeavesEmpty`
  says that this is the only way a packet stays behind: the queue was empty when
  the last caller left.  `codel.go:123`: a caller that a `Pop` meets between its two
  selects (lines 89 and 100) is skipped and its packet thrown away.  It is then woken
  by nobody, not even by calls that are done later, and waits until its context ends
  (or an answer for another caller reaches it on the channel, which was put back).  `limiter.go:63`: the place is given back before `Pop` admits
  a waiting caller, so a new call can overtake, and more than `limit` calls run;
  `RunningBound` counts exactly how many more.
- `sample.go:15`: the mean round trip may be too large by what late callers have added
  to `totalRTT` and not yet to `count`, never too small.  `vegas.go:75`: a full sample
  may be evaluated in the window of another one, before `updateTime` is stored, and
  `updateTime` may then move back.  The branch `queue > 6 * threshold` cannot be taken
  in the run: a queue that long needs a limit above 9.  `VegasProofs` covers it.
- `gls.go:69`: `With` inside `With`, or after `Put`, keeps the first storage: the values
  of the inner call are lost, and its `Cleanup` takes the outer storage away.  A panic
  in the function skips `Cleanup`.  An entry left behind is found by the next
  goroutine on the same g (`gls.go:54`) until the sweeper takes it; a child of `Go` on
  such a g begins with that old entry instead of its parent's values, while the comment at
  lines 81-84 promises those.  `With` stores the map itself that it is given, so two
  goroutines that pass one map share it.  `gls.go:59-60`: "the data may persist for the
  lifetime of your application" is no longer true: `EntryGoes` holds, the sweeper takes
  every entry after its time.
- `backoff.go:53`: the jitter comes after the clamp, so the delay may exceed `MaxDelay`,
  which the comment at line 24 calls the upper bound; with no retry (line 42)
  `BaseDelay` is returned even if it is above `MaxDelay`.  `backoff.go:58`: if
  `MaxDelay * (1 + Jitter)` is above the largest `Duration`, the conversion of the float is
  out of range and its result depends on the implementation: it may be negative.

## Fairness

Safety runs assume nothing.  Liveness runs assume weak fairness of the steps
of a goroutine that is already running: the Go scheduler runs every runnable
goroutine, and `sync.Mutex` hands the lock over in starvation mode.  In the
deque these are `Resume` and `WaitStep`, in the wheel the tick goroutine (the
ticker ticks), in the pool the workers (jobs end), in the cache the janitor and
methods that were called, in gls the sweeper and the clock.  The runs of Vegas and
the limiter check safety and step properties only and assume no fairness.  Nobody has to call a method, a context need not end,
and a submitter need not retry.

## Proofs

Every safety invariant and step property of the passing runs is proved, for all
values of the constants.  The eight `*Proofs` modules hold the theorems; each theorem
follows from an inductive invariant `Init => I`, `I /\ [Next]_vars => I'`, `I => P`,
with one lemma for each action or group of actions, and lemmas on the operators and
records that the actions share.

### Deque (`LinkedBlockingDequeProofs`)

| Theorem | States | Needs |
|---|---|---|
| `TypeCorrect`, `AlwaysWellLinked` | `TypeOK`, `WellLinked` | `Inv` |
| `WaitersCounted` | `WaitersOK` | `WaitInv` |
| `DequeImplemented` | `ImplementsDeque` | `Inv` and `WaitInv` in both states of a step |
| `ReadersRight` | `ReadersAgree` | `Inv` |
| `NextItemsRight`, `IteratorsComplete`, `IteratorsOrdered` | `NextItemOK`, `EachOnce`, `InOrder` | `IterInv` |
| `IteratorsAreCalls` | with iterators: `Spec`, `WellLinked`, `ReadersAgree`, `ImplementsDeque` | `IterInv` |

`Inv` is `ListTypeOK /\ WellLinked /\ CallTypeOK`.  `WellLinked` is not inductive
without the types (a pointer may be no node), and `TypeOK` is not without
`WellLinked` (the new order of `unlink` is only a function into the allocated nodes
if the node is in the list once).  There is one lemma for each primitive
(`linkFirst`, `linkLast`, `unlinkFirst`, `unlinkLast`, the last branch of `unlink`),
each with a step for the ends, the links and the items; a lemma for the loops of the
blocking calls; one for every step of `Next`.

`WaitInv` says that the count of a condition is the number of goroutines inside
`Wait` on it, that a goroutine is inside `Wait` exactly while it is in a blocking call
and on the condition of that call, and that nobody is parked on a closed channel.
`WaitersOK` alone is not inductive: a goroutine that leaves `Wait` may signal or enter
it again in the same critical section, so the lemmas speak of the states before and
after each of these parts.

The refinement maps the list to the sequence of the items in list order.  Each
primitive is shown to be the abstract operation on that sequence, and each step of
`Next` a step or a stutter of `DequeSpec`, with the call, its argument and its result as
`DequeSpec` has them.

`Walk` and `WalkBack` are recursive functions.  That they return the whole list is
proved without induction over data: if they differed from the order of the nodes
there would be a least place where they do (`LeastNumber`), and the equation of the
function, which holds at that place, contradicts it.

An iterator may stand on a node that was removed long ago and follow the links that
the node has kept.  `IterInv` states what those links are still good for, with three
values that no variable holds and the proof carries as existential witnesses: `pos`, a
position for every node ever allocated that agrees with the order of the list; `far`, a
bound on these positions, so that a node put at an end gets one beyond it; and `met[d]`,
the nodes allocated by the time `d` was removed.  A link of a removed node leads to a
node with no node of the list in between, and if that one is removed too it has met at
least as many; nil means that nothing the node had met is left ahead; and a link to
itself means that nothing it had met is left behind, which is why `succ` may start
again at the first node without a repetition.  `EachOnce` and `InOrder` speak of the
nodes still in the list only, and are not inductive without this.  The loop of `succ`
ends since positions grow along the links (`LoopEnds`), and `SuccSound` says where.

### Timer wheel (`TimerWheelProofs`)

`ExpiriesOnce` (`OnePlace`), `DueWithinARound` (`WithinARound`) and `CancelFinal`
(`CancelIsFinal`) come from `WheelInv`, which adds for each timer that its delay is a
tick or more and that only a timer that was made can be cancelled.  The arithmetic is
in the lemmas on `scheduleTimeOut`: with the delay written as `q * W + r` ticks, the
rounds and the slot computed from the cursor, before or after its wrap, are the due
tick or one round off, in every state of the tick goroutine.

`EventsReachTheirTimer` (`EventsArrive`) needs `EventInv`: senders are told apart by their
timer and the number of the expiry they were started for, and one that reads, or sends to,
another timer than its own has expired together with that one, so both are in `shared`.

### Pool, cache, storage

`PoolBounded` (`WorkersBounded`): a submitter in `lock` or `run` has decided on gauges
that may be stale; the invariant bounds the workers together with those that such
decisions are still to add, each at most `growth`.  The gauges are exact since the
active jobs are exactly those of the workers in that state.  `JobsRunOnce` (`JobOnce`):
each accepted job is at exactly one place in the channel, with one worker, or was run.
Both hold for every queue size, 0 included, where every job is handed over.

`ObjectsEvictedOnce`, `SweepsTakeExpired`, `NilCalledOnlyInRace`: in `CacheInv` each object
that was made is in exactly one place, that is with a `Set` that has not stored it,
in the map, with a call that will report it, reported, or dropped, and in that place
once; and no call has read a clock that is ahead.  `EvictedOnce` is its part about
reports, and that a sweep takes only what has expired follows from it.  `RaceInv` says that
who has items to report while `onEvicted` is nil had them when it was set to nil: no call
takes up items with nil set.

`SnapshotsKept` (`GoSnapshot`) and `EntriesStable` (`EntryStable`): in `StorageInv` no
storage but those that users hold has two references, whether from entries or from
goroutines to be started, and a free storage has none.  A copy that the child has not
touched is therefore reached by nobody else, before and after the child stores it.

### Vegas and the limiter

`ImplementsRateLimit`: `Spec => RateSpec`.  The refinement mapping reads the stage of
a caller from its place and from the result of its comparison, and forgets the
sample, the mutex and the clock.  Every step of `done` after the first stays in `done`
(a stutter) or returns (`Adjust`); that the new limit is a number, and within its
bounds in all five branches, needs the square root to be a natural number, which is
why `Sqrt` is written as a cardinality.

`SamplesUsedOnce`, `MinimumReal`, `QueuesNotNegative`, `DropsNeverRaise` come from
`VegasInv`: what each caller has established at its place (`CallerOK`: the sample it holds
exists, is full at `lock`, has a round trip at least the fastest) and that exactly the
caller with the mutex is evaluating.  Other callers still add to the sample; they only
make it grow (`Grows`), and `CallerKept` shows that this hurts nobody.

`PlacesReturned` (`InFlightExact`) is inductive together with the range of `stage`.
`ChannelsConserved` (`ChannelOnce`): the invariant says for each pair of places (pool,
never used, queued, held by a caller) that no channel is in both, and that each is in
one: the right to put a channel back is passed on, never copied.
`RunningBounded` (`RunningBound`): counted are also the callers bound to run, those
that `Acquire` counted within the limit and those that a `Pop` has admitted.
`VerdictsSound` (`JudgeSound`): a channel may be put back and handed out while
an earlier caller still waits on it, so the invariant relates every waiting caller to
the packet, the judging caller and the answer on its channel by their time stamps.
`QueueServed` (`LastLeavesEmpty`) needs the types only.  `TypeCorrect` is those types.

Taken together: `Limiter` relies on `RateLimit` only, and Vegas implements that.

### Numbers (`NumericProofs`)

Listener: `TokenAccounting` is inductive with the types (`Accounting`);
`OpenConnectionsBounded` and `ReleaseServed` follow from it.

Parser: `TypeCorrect` and `NeverWraps` (`NoWrap`): the word is the number read so far,
and overflow is reported exactly at the digit that exceeds the maximum.  The invariant
adds `Fresh` (nothing is read before the base is known); the lemmas state that
`n < cutoff` is exactly the case in which the product fits, and that the sum has
wrapped exactly if it is smaller than the product.

Backoff: `DelayBounded` (`DelayWithin`): while the loop runs with a factor of one or more
the delay is not below `BaseDelay`; the truncation of tenths needs the bounds of the
lemma `Tenth`.

### Assumptions

Each module names the assumptions on its constants, and TLC evaluates them for every
run: the capacity, sizes and bounds are natural numbers and nil is no node, element or
timer; the goroutines, callers, submitters and g pointers are finite sets (a program has
finitely many, and a counter is compared with a cardinality); the words of the parser
hold every digit (`2^Width > 36`; the code's width is 64) and its bit sizes are at most
the width; delays, factors and jitters of the backoff are not negative, and the delays are `Duration`s; an iterator is
not nil.  `MaxInterrupts`, `MaxCalls`, `MaxTime` and the like bound the runs; no theorem
restricts them but to be numbers.

### Only model-checked

Liveness, which the prover does not reach: `InterruptReleases`, `PollReturns`,
`Expires`, `JobsExecuted`, `EntryGoes`.  So are the two violated properties,
`TakerServed` and `JanitorCleans`.

## Not modelled

- `uint64` overflow of the waiter count: it needs 2^64 waiters.
- `Execute` after `Shutdown` beyond its blocking send on nil; a second `Shutdown`
  (it closes nil and panics); a second `Start` of the wheel.
- Names of functions, ids of timers, log and error texts; the context handed to
  jobs; `Stats` of Vegas and CoDel, which only read.
- The text of `runtime.Stack` that `gid` parses, and the assembly with which `gls`
  finds its g: both belong to the Go runtime.
- `gcrypto`: calls of the cryptographic library; what it computes is not a question
  for small instances.  `grand`: strings from a random source.
- `gstr`, `gslice`, `gref`: conversions of strings, slices and values without state or
  a choice of order; unit tests on their tables say all there is to say.
- `gfile`, `ghttp`, `gemail`: the file system, `net/http` and `net/smtp`, one call after
  another, with no state between calls.

## Plan

1. Done: `TimeoutCond`, `LinkedBlockingDeque`, `DequeSpec`, `DequeIterator`,
   `TimerWheel`, `LimitListener`, `WorkerPool`, `Cache`.
2. Done: `RateLimit`, `Vegas`, `CoDel`, `Limiter`, `GoroutineStorage`, `ParseUint`,
   `Backoff`; two timers in the wheel; the theorems above.
3. Done: the theorems about every safety and step property of the passing runs; the
   channels, verdicts and counts of the limiter; the iterators and the refinement of
   the deque with them.
4. Next: an abstract specification of the cache (a map whose entries go at most once)
   and of the pool (a bag of jobs), with the refinements proved from the invariants
   that are there; the abstract limiter of `Limiter` (a number of places, handed over
   in turn); shorter proofs where one lemma per action can be shared between theorems.
