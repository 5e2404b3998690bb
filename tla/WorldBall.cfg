\* The first world of all.
CONSTANTS
    RosterSize = 22
    None = None
SPECIFICATION Spec
CHECK_DEADLOCK FALSE
INVARIANTS
    BallMeetsPlayers
