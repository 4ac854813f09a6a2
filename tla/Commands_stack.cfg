SPECIFICATION CmdFairSpec
CONSTANT KeyValid = TRUE
INVARIANTS
    FlagsMatchStack
    InnermostIsExclusive
    UIFollowsFilter
    SuccessIsReal
PROPERTIES
    CancelEndsAll
