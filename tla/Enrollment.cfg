\* Three clients that ask only while they hold no slot, and one that asks again.
CONSTANTS
    Client = {c1, c2, c3, c4}
    Team = {1, 2, 3}
    MaxTeamSize = 2
    None = None
    Requests <- MCRequestsWithOld
    Patient = {c1, c2, c3}
SYMMETRY ClientSymmetry
SPECIFICATION Spec
INVARIANTS
    TypeOK
    TeamsByTheRules
    RegisteredHoldSlot
    OccupantRegistered
    ListedOnce
    RosterMatchesSlots
    GoalkeepersAreGoalkeepers
PROPERTY OnlyOccupantVacates
