------------------------------ MODULE Stamina -------------------------------
(***************************************************************************)
(* What an action costs a player and what it does to the player's body     *)
(* (common/action), and how an inventory accounts for it                   *)
(* (engine/inventory); operators on values.  Impulses are given by the     *)
(* velocity they are made from; scale and direction are left out.          *)
(***************************************************************************)
EXTENDS Integers

\* The quantity of an energy, 8 bits wide, and a velocity of an action, 16 and signed.
Energy == 0..255
Velocity == -32768..32767
Kind == {"moveFoot", "catch", "run", "turnHead", "turnTorso"}
ActionType == [kind: Kind, velocity: Velocity]

InventoryPolicy == [minimum: Energy, maximum: Energy]

-----------------------------------------------------------------------------
(* Inventory.  C++ compares as int and stores back 8 bits. *)

accrue(policy, stock, amount) ==
    IF amount <= policy.maximum - stock
    THEN [result |-> "success", stock |-> (stock + amount) % 256]
    ELSE [result |-> "oversupply", stock |-> stock]

\* Faulty variant: the difference is made in 8 bits before it is compared.
spend_wrapped(policy, stock, amount) ==
    IF policy.minimum <= (stock - amount) % 256
    THEN [result |-> "success", stock |-> (stock - amount) % 256]
    ELSE [result |-> "understock", stock |-> stock]

spend(policy, stock, amount) ==
    IF amount <= stock - policy.minimum
    THEN [result |-> "success", stock |-> (stock - amount) % 256]
    ELSE [result |-> "understock", stock |-> stock]

-----------------------------------------------------------------------------
(* Actions.  The limits are constants of action.capnp; a run has others backwards. *)

Forward ==
    [moveFoot  |-> [velocity |-> 32000, cost |-> 100],
     run       |-> [velocity |-> 16000, cost |-> 100],
     turnHead  |-> [velocity |-> 100, cost |-> 20],
     turnTorso |-> [velocity |-> 200, cost |-> 40]]

Backward == [Forward EXCEPT !.run = [velocity |-> 8000, cost |-> 200]]

Limit(action) == IF action.velocity > 0 THEN Forward[action.kind] ELSE Backward[action.kind]

MaxVelocity(action) == Limit(action).velocity
MaxCost(action) == Limit(action).cost

Capped(action) ==
    IF action.velocity > 0
    THEN IF action.velocity < MaxVelocity(action) THEN action.velocity ELSE MaxVelocity(action)
    ELSE IF action.velocity > -MaxVelocity(action) THEN action.velocity ELSE -MaxVelocity(action)

Magnitude(n) == IF n < 0 THEN -n ELSE n

\* The integers k for which the quotient of a velocity and the greatest one, in double
\* precision, times the greatest cost, comes out below k + 1/2 where k + 1/2 is exact.
HalfLost == {14, 28, 56, 57, 100, 101, 102, 103, 125, 126, 127}

\* Faulty variant: the velocity that was asked for, capped only when applied.
Cost_uncapped(action) ==
    ((2 * Magnitude(action.velocity) * MaxCost(action) + MaxVelocity(action))
        \div (2 * MaxVelocity(action))) % 256

\* std::lround of the share of the greatest cost, in the 8 bits of an energy.
Cost(action) ==
    LET exact == Magnitude(Capped(action)) * MaxCost(action)
        whole == exact \div MaxVelocity(action)
        twice == 2 * (exact % MaxVelocity(action))
        up    == \/ twice > MaxVelocity(action)
                 \/ twice = MaxVelocity(action) /\ whole \notin HalfLost
    IN  (IF up THEN whole + 1 ELSE whole) % 256

\* A price is fair if it is the velocity's share of the greatest cost to half a unit.
Fair(action, velocity, paid) ==
    Magnitude(2 * paid * MaxVelocity(action) - 2 * Magnitude(velocity) * MaxCost(action))
        <= MaxVelocity(action)

ImpulseOn(parts, way, velocity) ==
    {[part |-> part, way |-> way, velocity |-> velocity] : part \in parts}

\* The impulses of an action that is paid for.  A torso is turned by the velocity that
\* was asked for, not by the capped one.
Impulses(action) ==
    [moveFoot  |-> ImpulseOn({"foot"}, "linear", Capped(action)),
     run       |-> ImpulseOn({"torso", "head", "foot"}, "linear", Capped(action)),
     turnHead  |-> ImpulseOn({"head"}, "angular", Capped(action)),
     turnTorso |-> ImpulseOn({"torso", "foot"}, "angular", action.velocity)][action.kind]

\* The four functions act of one action.
act(policy, stock, action) ==
    LET spent == spend(policy, stock, Cost(action))
    IN  [result |-> spent.result, stock |-> spent.stock,
         impulses |-> IF spent.result = "success" THEN Impulses(action) ELSE {}]
=============================================================================
