CONSTANTS
  Query <- MCQuery
  Parses <- MCParses
  Task <- MCTask
  SqlOf <- MCSqlOf
  MaxSteps <- MCMaxSteps
  Action <- MCAction
  Matches <- MCMatches
  Rewritten <- MCRewritten
  Equiv <- MCEquiv
  RewardModel = "state"
  LogMs <- MCLogMs
  Unsure = Unsure
  None = None
SPECIFICATION Spec
INVARIANTS
  CurrentMeansInitial
  ActionsAreCurrent
  LogReplays
  LogIsCertified
  ConfidentReturnIsStateDifference
PROPERTY ImplementsCertifiedRewriting
