\* One item with a duration, and a cache with a janitor.
CONSTANTS
  Callers = {c1}
  Janitor = j
  Keys = {a}
  Durations = {1}
  NumObjects = 1
  MaxTime = 3
  WithJanitor = TRUE
SPECIFICATION FairSpec
CHECK_DEADLOCK FALSE
PROPERTY JanitorCleans
