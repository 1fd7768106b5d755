CONSTANTS
  Null = Null
  Absent = Absent
  None = None
  SessionSettings <- MCSettings
SPECIFICATION SessionSpec
INVARIANT SameResult
PROPERTY RewritesShrink
CHECK_DEADLOCK FALSE
