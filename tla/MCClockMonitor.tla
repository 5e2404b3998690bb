--------------------------- MODULE MCClockMonitor ---------------------------
(* Instances of ClockMonitor for TLC.                                      *)
EXTENDS ClockMonitor, TLC

EndpointSymmetry == Permutations(Endpoint)
=============================================================================
