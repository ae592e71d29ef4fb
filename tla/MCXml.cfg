SPECIFICATION Spec
CONSTANTS
  Leaves <- TheLeaves
  Items <- TheItems
  Names <- TheNames
  Outputs <- TheOutputs
  MaxItems = 2
  MaxDepth = 2
INVARIANTS
  TypeOK
  RoundTrip
  RemoteAnswers
  MulticallAnswersEach
CHECK_DEADLOCK FALSE
