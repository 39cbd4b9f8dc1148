\* Two callers and the janitor, two keys, three objects.
CONSTANTS
  Callers = {c1, c2}
  Janitor = j
  Keys = {a, b}
  Durations <- NeverOrOne
  NumObjects = 3
  MaxTime = 4
  WithJanitor = TRUE
SPECIFICATION Spec
CHECK_DEADLOCK FALSE
SYMMETRY Perms
INVARIANTS EvictedOnce
PROPERTIES SweepsOnlyExpired NilCalledInRace
