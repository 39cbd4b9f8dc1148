\* Two submitters, three jobs; the pool may be shut down at any time.
\* The channel is unbuffered or holds one job.
CONSTANTS
  Submitters = {1, 2}
  NumJobs = 3
  NumWorkers = 4
  InitWorkerNum = 1
  MaxWorkerNum = 2
  QueueSizes = {0, 1}
SPECIFICATION FairSpec
CHECK_DEADLOCK FALSE
INVARIANTS JobOnce WorkersBounded
PROPERTY JobsExecuted
