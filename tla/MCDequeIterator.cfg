\* The list with insertions and removals at every position, and one iterator.
\* The other goroutines only make calls that do not block: blocking calls do
\* the same to the list.
CONSTANTS
  Goroutines = {}
  Conds <- MCConds
  MaxNodes = 4
  Nodes <- MCNodes
  Elems = {a, b}
  Nil = Nil
  Capacity = 3
  MaxInterrupts = 0
  Iters = {i1}
SPECIFICATION IterSpec
SYMMETRY Symmetry
VIEW WithoutOutcome
INVARIANTS WellLinked ReadersAgree NextItemOK EachOnce InOrder
PROPERTY ImplementsDeque
