\* Two callers, four calls, windows of two calls and at most two samples
\* evaluated.
CONSTANTS
  Callers = {c1, c2}
  NoCaller = NoCaller
  MinLimit = 2
  MaxLimit = 4
  MinCount = 2
  MinWindow = 0
  MaxWindow = 1
  Probes = 1
  Rands = {0}
  MaxTime = 4
  MaxRTT = 2
  MaxCalls = 4
  MaxSamples = 3
SPECIFICATION Spec
SYMMETRY Symmetry
CHECK_DEADLOCK FALSE
INVARIANTS SampleUsedOnce MinRTTReal QueueNotNegative
PROPERTIES RateSpec DropNeverRaises
