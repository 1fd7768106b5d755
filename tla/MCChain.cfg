CONSTANTS
  Null = Null
  Absent = Absent
  None = None
  Catalogs <- MCCatalogs
  Databases <- MCDatabases
  Asked <- MCAsked
  MaxSteps = 3
SPECIFICATION ChainSpec
INVARIANTS
  ChainSameRows
  FixedPointOffersNothing
PROPERTY ChainEnds
CHECK_DEADLOCK FALSE
