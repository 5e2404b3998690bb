\* Two players; keys for two worlds and the beginning of a third.
CONSTANTS
    RosterSize = 2
    KeyMax = 30
    Policy <- Bounded
    Amount = {40, 215}
    Action <- Asked
    MaxEngines = 2
    MaxInventories = 2
    MaxUses = 2
    MaxList = 3
    None = None
SPECIFICATION Spec
CHECK_DEADLOCK FALSE
INVARIANTS
    TypeOK
    BodiesHaveEngine
    TagsFindEntities
    EffortPaidFor
    ListWorkedOff
PROPERTIES
    StaminaWithinPolicy
