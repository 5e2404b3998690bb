CONSTANTS
    Client = {c1, c2}
    Team = {1, 2}
    MaxTeamSize = 1
    None = None
    RefQueueLength = 1
    ClientQueueLength = 1
    PingFrequency = 2
    FramePeriod = 2
    TargetSampleSize = 1
    SeqModulus = 8
    MaxPings = 1
    Requests <- TwoPlaces
    RefOutputs = {"rosterFinalised", "fieldOpen", "matchClose", "matchAbort", "refCrashed"}
    Budget = 6
SYMMETRY ClientSymmetry
SPECIFICATION Spec
CHECK_DEADLOCK FALSE
INVARIANTS
    TypeOK
    ObjectsInStep
    HaltedForAReason
PROPERTIES
    RosterIsFinal
    LifecycleOrder
