SPECIFICATION Spec
CHECK_DEADLOCK FALSE
CONSTANTS
  a = a
  b = b
  r1 = r1
  r2 = r2
  r3 = r3
  Requests = {r1, r2, r3}
  Prompts <- MCPrompts
  Tokens = {a, b}
  Eog = Eog
  MaxTokens = 1
  Capacity = 5
  OnDevice = TRUE
  ChannelCapacity = 1
  Mixed = Mixed
  Empty = Empty
  NoRow = NoRow
  None = None
INVARIANT SampledFromOwnContext
