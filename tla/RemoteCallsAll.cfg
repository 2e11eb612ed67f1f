SPECIFICATION RemoteSpec
CONSTANTS
    Callers = {"goroutine"}
    MaxRetries = 3
    Askers <- TwoAskers
    Queries = 2
    Lives <- TwoLives
    Margin = 3
    Default = 30
    MaxClock = 8
    NoOne = NoOne
INVARIANTS
  OneRefresh
    SendsAreBounded
    AtMostOneLateWait
    TokenOutlivesQuery
PROPERTIES
    EveryoneEnds
CHECK_DEADLOCK FALSE
