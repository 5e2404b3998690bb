---------------------------- MODULE MCSimulation ----------------------------
(* An instance of Simulation for TLC. *)
EXTENDS Simulation

Ask(kind, velocity) == [kind |-> kind, velocity |-> velocity]

\* Half a price, prices at and beyond both limits, a half that is rounded down, nothing.
Asked ==
    {Ask("moveFoot", 32767), Ask("run", -8000), Ask("run", 2320),
     Ask("turnHead", -70), Ask("turnTorso", -32768), Ask("turnTorso", 100), Ask("catch", 50)}

Bounded == [minimum |-> 10, maximum |-> 230]
=============================================================================
