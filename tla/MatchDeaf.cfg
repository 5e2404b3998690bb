\* A client leaves before the roster is final.
CONSTANTS
    c1 = c1
    c2 = c2
    c3 = c3
    None = None
    Client = {c1, c2}
    Team = {1, 2, 3}
    MaxTeamSize = 1
    RefQueueLength = 2
    ClientQueueLength = 2
    PingFrequency = 1
    FramePeriod = 1
    TargetSampleSize = 1
    SeqModulus = 8
    MaxPings = 0
    Wants <- Settled
    MaxSubmits <- Once
    MayDisconnect = {c2}
    MatchesPlayed = FALSE
    PhysicsInReferee = TRUE
SPECIFICATION FairSpec
CHECK_DEADLOCK FALSE
PROPERTIES
    EveryEventHeard
