SPECIFICATION Spec
CONSTANTS
  c1 = c1
  c2 = c2
  refuting = refuting
  solving = solving
  later = later
  Candidate = {c1, c2}
  Phase = {refuting, solving}
  Backends <- MCBackends
  Facts <- MCFacts
  Text <- MCText
  PartialEvery = 1
  MaxMerged = 3
  Torn = Torn
  None = None
INVARIANTS BucketsAreTrue NoFalseAlarms FinalReportsAreComplete MergesAreRight
CHECK_DEADLOCK FALSE
