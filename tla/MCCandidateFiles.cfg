CONSTANTS
  None = None
  Torn = Torn
  ModelFiles <- MCModelFiles
  Projects <- MCProjects
  SchemaFiles <- MCSchemaFiles
  Payloads <- MCPayloads
  Text <- MCText
  Saves <- MCSaves
  About <- MCAbout
  Tracked = {}
  Base = {}
  MaxSaves = 1
  Empty = "empty"
  Generations <- MCGenerations
  Readings <- MCReadings
  Answers <- MCAnswers
  MaxGenerations = 2
  MaxReadings = 2
  Plans <- MCPlans
  Unsound <- MCUnsound
  Jobs <- MCJobs
  MaxJobs = 2
SPECIFICATION Spec
CONSTRAINT Running
INVARIANTS
  BundlesAnswerTheirOriginal
  RunIsAccounted
  SuspectMeansUnmetPremise
  SuccessIsProof
  EvidenceIsSound
CHECK_DEADLOCK FALSE
