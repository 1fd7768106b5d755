SPECIFICATION Spec
CONSTANTS
  a = a
  b = b
  c = c
  p1 = p1
  p2 = p2
  Process = {p1, p2}
  Key = {a, b, c}
  Value <- MCValue
  None = None
  Torn = Torn
  Root = a
  Edge <- MCEdge
  Cost <- MCCost
  Drift <- MCDrift
  Failed = Failed
  MaxInterruptions = 1
INVARIANT EntriesAreSound
PROPERTIES EntriesStand ImplementsEntryStore
CHECK_DEADLOCK FALSE
