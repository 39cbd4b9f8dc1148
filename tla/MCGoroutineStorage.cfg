\* Two g in two buckets, two maps, calls of With nested once, a sweep that takes up to
\* one unit of time.
CONSTANTS
  Gs = {0, 1}
  NBuckets = 2
  NStores = 2
  Values = {v1}
  NoValue = NoValue
  NoSnap = NoSnap
  Timeouts = {0}
  Hour = 1
  MaxDepth = 2
  MaxLag = 1
SPECIFICATION Spec
INVARIANTS GoSnapshot
PROPERTIES EntryStable EntryGoes
