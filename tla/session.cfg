SPECIFICATION FairSpec
CONSTANTS
    Setups <- MCSetups
    MaxSuspensions = 2
    MaxSleep = 1
    Dumps <- MCDumps
    None = None
    Names = {1, 2}
INVARIANTS SidesAgree LimitsHold ReplyOwn HonestReply ReleasedClean MountsOwnFeed
INVARIANTS AnswersOwnSuspension ResendIsBounded
PROPERTIES TurnEnds
CHECK_DEADLOCK FALSE
