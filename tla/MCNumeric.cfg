\* Words of six bits, bit sizes of six, three and none, up to five characters;
\* small delays, some of which are too long for a Duration with the jitter.
CONSTANTS
  Width = 6
  Bases = {0, 1, 2, 3, 10, 16, 36, 37}
  BitSizes = {0, 3, 6}
  Chars = {0, 1, 2, 7, 33, 36}
  MaxLen = 5
  BaseDelays = {1, 3, 12, 40}
  MaxDelays = {0, 10, 25, 40}
  Factors = {5, 10, 16, 20}
  Jitters = {0, 2, 12}
  Retries <- MCRetries
  MaxDuration = 40
SPECIFICATION MCSpec
CHECK_DEADLOCK FALSE
INVARIANTS NoWrap DelayWithin
