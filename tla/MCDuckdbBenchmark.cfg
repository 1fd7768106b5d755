SPECIFICATION Spec
CONSTANTS
  Settings <- MCSettings
  Durations = {0, 1, 3}
  MaxExecutions = 3
  None = None
INVARIANTS InterruptsHitTheirStatement TimeoutsAreReported NoThreadOutlives ConfidentIsLongEnough
PROPERTY EndsUnlessMissed
CHECK_DEADLOCK FALSE
