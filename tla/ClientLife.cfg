\* Two pings, two places and four other messages; queues of one, so that every
\* handler and every I/O thread meets a full queue.
CONSTANTS
    Ack = {a1, a2}
    None = None
    ServerQueueLength = 1
    BotQueueLength = 1
    MaxPings = 2
    Budget = 4
SPECIFICATION FairSpec
CHECK_DEADLOCK FALSE
INVARIANTS
    TypeOK
    PongsAnswerPings
PROPERTIES
    PlayerKept
    ClientLifecycle
    LoopGoesOn
    DisconnectionLeaves
