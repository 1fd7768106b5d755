CONSTANTS
  None = None
  ModelFiles <- MCModelFiles
  Projects <- MCProjects
  SchemaFiles <- MCSchemaFiles
  Payloads <- MCPayloads
  Text <- MCText
  Saves <- MCSaves
  About <- MCAbout
  Tracked <- MCTracked
  Base <- MCBase
  MaxSaves = 1
  Empty = "empty"
  Commands <- MCCommands
  MaxChainSteps = 2
  MaxCommands = 2
  Truth <- MCTruth
  Meaning <- MCMeaning
SPECIFICATION Spec
INVARIANTS
  FindingsRestOnTests
  ModelFilesKeepMeaning
  ReadyIsApplied
  SilentOnlyBehindAnother
  CrosscheckBlamesRightly
  ReportsAddUp
CHECK_DEADLOCK FALSE
