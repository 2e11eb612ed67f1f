SPECIFICATION PromotionSpec
CONSTANTS
    Files <- TheFiles
    HiveEnv <- TheHiveEnv
    NameEnv <- TheNameEnv
    Names <- TheNames
    SameNumber <- TheSameNumber
    MaxFaults = 2
INVARIANTS
    PromotedLater
    EveryTargetOnce
    OwnTargetFirst
CHECK_DEADLOCK FALSE
