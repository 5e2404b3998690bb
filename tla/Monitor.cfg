\* Sequence numbers wrap around after five pings; answers may be lost, late or overtaken.
CONSTANTS
    Endpoint = {c1, c2}
    TargetSampleSize = 2
    SeqModulus = 5
    MaxTransmits = 8
    MaxInFlight = 2
SYMMETRY EndpointSymmetry
SPECIFICATION Spec
CHECK_DEADLOCK FALSE
INVARIANTS
    TypeOK
    AverageExactAtFirst
PROPERTIES
    NeededPingKept
    SpentPingsEvicted
