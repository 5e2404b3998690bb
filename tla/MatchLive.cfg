\* Two clients that fill the roster, with queues of one message.
CONSTANTS
    c1 = c1
    c2 = c2
    c3 = c3
    None = None
    Client = {c1, c2}
    Team = {1, 2, 3}
    MaxTeamSize = 1
    RefQueueLength = 1
    ClientQueueLength = 2
    PingFrequency = 1
    FramePeriod = 1
    TargetSampleSize = 1
    SeqModulus = 8
    MaxPings = 1
    Wants <- Settled
    MaxSubmits <- Once
    MayDisconnect = {}
    MatchesPlayed = FALSE
    PhysicsInReferee = TRUE
SPECIFICATION FairSpec
CHECK_DEADLOCK FALSE
PROPERTIES
    EveryoneToldPlace
    EveryEventHeard
    FrameCompletes
