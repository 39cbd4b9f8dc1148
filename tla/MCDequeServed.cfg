\* One taker that misses its signal waits beside an element for ever.
CONSTANTS
  Goroutines = {g1}
  Conds <- MCConds
  MaxNodes = 2
  Nodes <- MCNodes
  Elems = {a}
  Nil = Nil
  Capacity = 2
  MaxInterrupts = 0
SPECIFICATION FairSpec
PROPERTY TakerServed
