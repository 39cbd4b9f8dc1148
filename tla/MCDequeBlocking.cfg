\* Two goroutines in blocking calls, the environment in all the others; no
\* symmetry, since the progress of blocking calls is checked as well.
CONSTANTS
  Goroutines = {g1, g2}
  Conds <- MCConds
  MaxNodes = 3
  Nodes <- MCNodes
  Elems = {a}
  Nil = Nil
  Capacity = 1
  MaxInterrupts = 1
SPECIFICATION FairSpec
VIEW WithoutOutcome
INVARIANTS TypeOK WaitersOK
PROPERTIES ImplementsDeque InterruptReleases PollReturns
