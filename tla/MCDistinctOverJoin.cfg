CONSTANTS
  Null = Null
  Absent = Absent
  None = None
  Values = {1, 2}
  CheckSettings <- DistinctOverJoin
SPECIFICATION CheckSpec
INVARIANT ProvenMeansSameRows
CHECK_DEADLOCK FALSE
