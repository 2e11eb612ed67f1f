CONSTANTS
  o1 = o1
  o2 = o2
  Operators <- TwoOperators
  CallsEach = 2
  MaxRetries = 1
  Nobody = Nobody
SPECIFICATION FairSpec
INVARIANTS
  BrokenOnlyByRefusal
  ReasonFollowsBreak
  AuditMatchesCalls
  NilOnlyByAnother
PROPERTY
  OperatorsEnd
