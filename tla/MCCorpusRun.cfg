SPECIFICATION CorpusSpec
CONSTANTS
  a = a
  b = b
  c = c
  d = d
  e = e
  Nothing = Nothing
  Failed = Failed
  Sql = {a, b, c, d, e}
  Root = a
  Offered <- MCOffered
  Target <- MCTarget
  MaxNodes = 5
  BeamWidth = 2
  Strategies <- MCStrategies
  Outcomes <- MCOutcomes
  Settings <- MCSettings
INVARIANTS NothingBetterIsMissed CountersAreExact
PROPERTIES EveryStrategyReports
CHECK_DEADLOCK FALSE
