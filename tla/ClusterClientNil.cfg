CONSTANTS
  o1 = o1
  o2 = o2
  Operators <- TwoOperators
  CallsEach = 2
  MaxRetries = 1
  Nobody = Nobody
SPECIFICATION Spec
SYMMETRY Interchangeable
INVARIANT
  NoNilClient
