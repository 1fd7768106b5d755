CONSTANTS
  Null = Null
  Absent = Absent
  None = None
  Values = {1, 2}
  CheckSettings <- MCSettings
SPECIFICATION CheckSpec
INVARIANTS
  ProvenMeansSameRows
  ToldIsTrue
  RefutedMeansDifferentRows
CHECK_DEADLOCK FALSE
