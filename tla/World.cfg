\* The sizes of the program: 22 players, 16 bits of key.
CONSTANTS
    RosterSize = 22
    None = None
SPECIFICATION Spec
CHECK_DEADLOCK FALSE
INVARIANTS
    TypeOK
    OwnPartsPass
    ContactsAsMeant
