CONSTANTS
  Null = Null
  Absent = Absent
  None = None
  SessionSettings <- DuplicatedProjection
SPECIFICATION SessionSpec
INVARIANT SameRows
CHECK_DEADLOCK FALSE
