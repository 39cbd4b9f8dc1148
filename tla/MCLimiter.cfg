\* A limit of one or two, three callers that call Allow four times in all, a
\* queue of two packets and a pool of up to three channels.
CONSTANTS
  Callers = {c1, c2, c3}
  MinLimit = 1
  MaxLimit = 2
  Target = 1
  Internal = 1
  QueueCap = 2
  Chans = {h1, h2, h3}
  NoChan = NoChan
  MaxTime = 6
  MaxCalls = 4
SPECIFICATION Spec
SYMMETRY Symmetry
CHECK_DEADLOCK FALSE
INVARIANTS InFlightExact ChannelOnce JudgeSound RunningBound
PROPERTY LastLeavesEmpty
