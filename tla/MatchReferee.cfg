\* The referee as its main() sets it up.
CONSTANTS
    c1 = c1
    c2 = c2
    c3 = c3
    None = None
    Client = {c1, c2}
    Team = {1, 2, 3}
    MaxTeamSize = 1
    RefQueueLength = 2
    ClientQueueLength = 2
    PingFrequency = 1
    FramePeriod = 1
    TargetSampleSize = 1
    SeqModulus = 8
    MaxPings = 0
    Wants <- Settled
    MaxSubmits <- Once
    MayDisconnect = {}
    MatchesPlayed = FALSE
    PhysicsInReferee = FALSE
SPECIFICATION Spec
CHECK_DEADLOCK FALSE
INVARIANTS
    RefereeStaysUp
