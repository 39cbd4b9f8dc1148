\* Limit two, three goroutines in Accept, up to eight connections and three
\* calls turned down.
CONSTANTS
  Max = 2
  MaxAcceptors = 3
  MaxConns = 8
  MaxRejected = 3
SPECIFICATION Spec
CHECK_DEADLOCK FALSE
INVARIANTS TokenAccounting OpenBound ReleaseNotStuck
