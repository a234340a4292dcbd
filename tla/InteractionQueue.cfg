CONSTANTS
  MaxAccepted = 3
  Cost <- MCCost
  IdentityCharge = 1
  MaxActions = 3
  MaxQueueBytes = 7
  MaxTotalBytes = 7
  MaxOthers = 1
  MaxCancels = 1
  None = None
SPECIFICATION FairSpec
INVARIANTS
  ActiveMeansInFlight
  InitialComesFirstOnce
  ReferencesExact
  BytesExact
  ReportedStateTracksCalls
PROPERTIES
  ImplementsOrderedResponses
  AcceptedIsAnswered
  DestroyedIsFreed
