----------------------------- MODULE Simulation -----------------------------
(***************************************************************************)
(* The simulation of one thread: the engines and inventories registered in *)
(* its database, the game states made from it, and what lists of actions   *)
(* do to the stamina and the bodies of the players.                        *)
(*                                                                         *)
(* Nothing calls accrue and act yet, and the programs register one engine  *)
(* each: callers do here what the tests do, and keep an engine for as long *)
(* as there are bodies in it.  An exception ends the program.              *)
(***************************************************************************)
EXTENDS Table, Stamina, Sequences

CONSTANTS
    RosterSize,     \* MAX_ROSTER_SIZE
    KeyMax,         \* the greatest key_16
    Policy,         \* the inventory's policy
    Amount,         \* the energies that callers accrue
    Action,         \* the actions that clients ask for
    MaxEngines,     \* bound: engines constructed
    MaxInventories, \* bound: inventories constructed
    MaxUses,        \* bound: arrays accrued and lists begun in a game
    MaxList,        \* bound: actions on a list
    None

ASSUME SimulationAssumption ==
    /\ RosterSize \in Nat \ {0} /\ KeyMax \in Nat
    /\ Policy \in InventoryPolicy
    /\ Amount \subseteq Energy
    /\ Action \subseteq ActionType
    /\ MaxEngines \in Nat /\ MaxInventories \in Nat
    /\ MaxUses \in Nat /\ MaxList \in Nat
    /\ None \notin Nat

VARIABLES
    systems,     \* system_registry: the table of instances of each system
    mapping,     \* component_system_map
    entities,    \* entity_registry: names of entities
    engines,     \* how many engines were constructed: their identities
    inventories, \* likewise inventories
    held,        \* engines that callers own
    destroyed,   \* engines that are gone
    making,      \* the bodies of the game state under construction, or None
    game,        \* the bodies of the game state, or None
    stock,       \* its players' energies
    turn,        \* the list being worked off, or None
    uses,        \* arrays accrued and lists begun in this game
    halted       \* an exception has ended the program

registryVars == <<systems, mapping, engines, inventories, held, destroyed>>
staminaVars == <<stock, turn, uses>>
vars == <<registryVars, entities, making, game, staminaVars, halted>>

PlayerId == 0..(RosterSize - 1)

\* The bodies of a game state, in the order in which they are made: the ball, three for
\* each player, six of the field.
BodyCount == 1 + 3 * RosterSize + 6
BodyNumber == 1..BodyCount
OfPlayer(n) == n \in 2..(3 * RosterSize + 1)
PlayerOf(n) == (n - 2) \div 3

\* The entity_id that a body's fixtures carry.
Tag(n, key) == IF OfPlayer(n) THEN PlayerOf(n) ELSE key

NoStock == [p \in PlayerId |-> 0]

-----------------------------------------------------------------------------

Init ==
    /\ systems = EmptyTable /\ mapping = EmptyTable /\ entities = EmptyTable
    /\ engines = 0 /\ inventories = 0
    /\ held = {} /\ destroyed = {}
    /\ making = None /\ game = None
    /\ stock = NoStock /\ turn = None /\ uses = 0
    /\ halted = FALSE

\* Bodies that somebody will destroy.
Bodies(engine) ==
    {n \in BodyNumber : game # None /\ game[n].engine = engine}

\* The registered engine: select_physics_instance.
Registered(table) ==
    IF ~Found(table, "physics") THEN None
    ELSE IF ~Found(table.row["physics"], 0) THEN None
    ELSE table.row["physics"].row[0]

\* Faulty variant: the instance given is emplaced.
WithEngine_emplaced(table, engine) ==
    IF Found(table, "physics")
    THEN update_column(table, "physics", emplace(table.row["physics"], 0, engine))
    ELSE emplace(table, "physics", emplace(EmptyTable, 0, engine))

\* The system registry once an engine is registered: the instance is swapped into the
\* row that exists, or goes into a table of its own.
WithEngine(table, engine) ==
    IF Found(table, "physics")
    THEN update_column(table, "physics",
            IF Found(table.row["physics"], 0)
            THEN update_column(table.row["physics"], 0, engine)
            ELSE emplace(table.row["physics"], 0, engine))
    ELSE emplace(table, "physics", emplace(EmptyTable, 0, engine))

\* physics.cxx's register_system, and the caller that keeps or drops what it displaces.
register_physics(keep) ==
    LET displaced == Registered(systems)
    IN  /\ ~halted /\ making = None /\ turn = None
        /\ engines < MaxEngines
        /\ engines' = engines + 1
        /\ systems' = WithEngine(systems, engines')
        /\ mapping' = auto_emplace(mapping, [component |-> "body", system |-> "physics"])
        /\ ~keep => Bodies(displaced) = {}
        /\ held' = IF keep /\ displaced # None THEN held \cup {displaced} ELSE held
        /\ destroyed' = IF ~keep /\ displaced # None THEN destroyed \cup {displaced} ELSE destroyed
        /\ UNCHANGED <<inventories, entities, making, game, staminaVars, halted>>

\* A caller drops an engine it has kept.
release(engine) ==
    /\ ~halted /\ making = None /\ turn = None
    /\ engine \in held /\ Bodies(engine) = {}
    /\ held' = held \ {engine}
    /\ destroyed' = destroyed \cup {engine}
    /\ UNCHANGED <<systems, mapping, engines, inventories, entities, making, game,
                   staminaVars, halted>>

\* inventory.cxx's register_system: a second instance is refused and nobody is told; the
\* row it adds to the map is the one that the engine's adds.
register_inventory ==
    /\ ~halted /\ making = None /\ turn = None
    /\ inventories < MaxInventories
    /\ inventories' = inventories + 1
    /\ systems' = emplace(systems, "inventory", emplace(EmptyTable, 0, inventories'))
    /\ mapping' = auto_emplace(mapping, [component |-> "body", system |-> "physics"])
    /\ UNCHANGED <<engines, held, destroyed, entities, making, game, staminaVars, halted>>

-----------------------------------------------------------------------------
(* Game states *)

begin_game ==
    /\ ~halted /\ making = None /\ turn = None
    /\ making' = << >>
    /\ UNCHANGED <<registryVars, entities, game, staminaVars, halted>>

\* Each body looks the engine up, then inserts its entity: either may throw.
make_body ==
    LET n      == Len(making) + 1
        engine == Registered(systems)
        key    == entities.auto_key
    IN  /\ ~halted /\ making # None /\ n <= BodyCount
        /\ engine # None /\ ~KeyLimitReached(entities, KeyMax)
        /\ entities' = auto_emplace(entities, n)
        /\ making' = Append(making, [engine |-> engine, tag |-> Tag(n, key)])
        /\ UNCHANGED <<registryVars, game, staminaVars, halted>>

make_body_fails ==
    /\ ~halted /\ making # None /\ Len(making) < BodyCount
    /\ Registered(systems) = None \/ KeyLimitReached(entities, KeyMax)
    /\ halted' = TRUE
    /\ UNCHANGED <<registryVars, entities, making, game, staminaVars>>

\* reset() of the pointer to the game state: the new one is complete before the bodies of
\* the old one are destroyed, each by the engine it was made in.
reset_game ==
    /\ ~halted /\ making # None /\ Len(making) = BodyCount
    /\ game' = making /\ making' = None
    /\ stock' = NoStock /\ uses' = 0
    /\ UNCHANGED <<registryVars, entities, turn, halted>>

\* Its owner goes: the bodies are destroyed.
end_game ==
    /\ ~halted /\ game # None /\ making = None /\ turn = None
    /\ game' = None
    /\ stock' = NoStock /\ uses' = 0
    /\ UNCHANGED <<registryVars, entities, making, turn, halted>>

-----------------------------------------------------------------------------
(* Stamina *)

Idle == ~halted /\ game # None /\ making = None /\ turn = None

\* inventory::accrue of arrays: player by player, the oversupplied left alone.
accrue_all(amount) ==
    /\ Idle /\ uses < MaxUses
    /\ stock' = [p \in PlayerId |-> accrue(Policy, stock[p], amount[p]).stock]
    /\ uses' = uses + 1
    /\ UNCHANGED <<registryVars, entities, making, game, turn, halted>>

\* act of a list of actions: the list of results is cleared.
act_begin ==
    /\ Idle /\ uses < MaxUses
    /\ turn' = [before |-> stock, done |-> << >>]
    /\ uses' = uses + 1
    /\ UNCHANGED <<registryVars, entities, making, game, stock, halted>>

Outcome(player, action, result, paid, impulses) ==
    [player |-> player, action |-> action, result |-> result, paid |-> paid,
     impulses |-> impulses]

\* Faulty variant: the list ends at the first action that is refused.
Answer_stops(player, action) ==
    LET refused == \E i \in 1..Len(turn.done) : turn.done[i].result = "understock"
        spent == act(Policy, stock[player], action)
    IN  IF player \notin PlayerId \/ refused
        THEN Outcome(player, action, "understock", 0, {})
        ELSE IF action.kind = "catch" THEN Outcome(player, action, "success", 0, {})
        ELSE Outcome(player, action, spent.result, stock[player] - spent.stock, spent.impulses)

\* What the body of the loop does for one action: a player_id out of range is refused, and
\* a catch succeeds without an effect.
Answer(player, action) ==
    LET spent == act(Policy, stock[player], action)
    IN  IF player \notin PlayerId THEN Outcome(player, action, "understock", 0, {})
        ELSE IF action.kind = "catch" THEN Outcome(player, action, "success", 0, {})
        ELSE Outcome(player, action, spent.result, stock[player] - spent.stock, spent.impulses)

act_next(player, action) ==
    LET answer == Answer(player, action)
    IN  /\ ~halted /\ turn # None /\ Len(turn.done) < MaxList
        /\ turn' = [turn EXCEPT !.done = Append(@, answer)]
        /\ stock' = [p \in PlayerId |-> IF p = player THEN stock[p] - answer.paid ELSE stock[p]]
        /\ UNCHANGED <<registryVars, entities, making, game, uses, halted>>

act_end ==
    /\ ~halted /\ turn # None
    /\ turn' = None
    /\ UNCHANGED <<registryVars, entities, making, game, stock, uses, halted>>

Next ==
    \/ \E keep \in BOOLEAN : register_physics(keep)
    \/ \E engine \in held : release(engine)
    \/ register_inventory
    \/ begin_game \/ make_body \/ make_body_fails \/ reset_game \/ end_game
    \/ \E amount \in [PlayerId -> Amount] : accrue_all(amount)
    \/ act_begin \/ act_end
    \/ \E player \in 0..RosterSize, action \in Action : act_next(player, action)

Spec == Init /\ [][Next]_vars

-----------------------------------------------------------------------------

BodyType == [engine: 1..engines, tag: Nat]
ImpulseType == [part: {"torso", "head", "foot"}, way: {"linear", "angular"}, velocity: Int]
OutcomeType ==
    [player: 0..RosterSize, action: Action, result: {"success", "understock"},
     paid: Energy, impulses: SUBSET ImpulseType]

\* The types of the variables: keys and bodies are among those made so far, energies fit
\* their eight bits.
TypeOK ==
    /\ engines \in 0..MaxEngines /\ inventories \in 0..MaxInventories
    /\ held \subseteq 1..engines /\ destroyed \subseteq 1..engines
    /\ Registered(systems) \in (1..engines) \cup {None}
    /\ entities.auto_key \in 0..KeyMax
    /\ DOMAIN entities.row = 0..(entities.auto_key - 1)
    /\ making # None => making \in Seq(BodyType) /\ Len(making) <= BodyCount
    /\ game # None => game \in [BodyNumber -> BodyType]
    /\ stock \in [PlayerId -> Energy]
    /\ turn # None => turn \in [before: [PlayerId -> Energy], done: Seq(OutcomeType)]
    /\ uses \in 0..MaxUses /\ halted \in BOOLEAN

\* The engine that a body points at, and calls when it is destroyed, is there for as long
\* as the body is: every engine made is either registered, held by a caller or destroyed,
\* and the bodies of a game state are in an engine that is not destroyed.
BodiesHaveEngine ==
    /\ 1..engines = held \cup destroyed \cup ({Registered(systems)} \ {None})
    /\ held \cap destroyed = {}
    /\ Registered(systems) \notin held \cup destroyed
    /\ game # None => \A n \in BodyNumber : game[n].engine \notin destroyed
    /\ making # None => \A n \in 1..Len(making) : making[n].engine = Registered(systems)

\* Whoever is told of a contact finds the entity by the entity_id of its fixture, under
\* its own name, in every game: unless it is a player's, which is not a key.
TagsFindEntities ==
    game # None =>
        \A n \in BodyNumber :
            ~OfPlayer(n) => /\ Found(entities, game[n].tag)
                            /\ entities.row[game[n].tag] = n

\* Whatever is accrued and spent in a game, a player's energy is not brought above the
\* maximum or below the minimum, from which a player that starts with none has yet to rise.
StaminaWithinPolicy ==
    [][game # None /\ UNCHANGED <<making, game>> =>
        \A p \in PlayerId : /\ stock'[p] > stock[p] => stock'[p] <= Policy.maximum
                            /\ stock'[p] < stock[p] => stock'[p] >= Policy.minimum]_vars

\* A torso turn faster than the limit, which is applied as it was asked for.
Overturned(action) == action.kind = "turnTorso" /\ action.velocity # Capped(action)

\* No body is pushed but by a player that has paid for it, what it pays is a fair price
\* for the push it gets, and no push is above the limit -- except that of Overturned.
EffortPaidFor ==
    turn # None =>
        \A i \in 1..Len(turn.done) :
            LET outcome == turn.done[i]
            IN  /\ outcome.impulses = {} => outcome.paid = 0
                /\ \A impulse \in outcome.impulses :
                      /\ outcome.result = "success"
                      /\ Overturned(outcome.action) \/
                            /\ Magnitude(impulse.velocity) <= MaxVelocity(outcome.action)
                            /\ Fair(outcome.action, impulse.velocity, outcome.paid)

\* What an action on the list took from a player.
Charge(outcome, player) ==
    IF /\ outcome.player = player
       /\ outcome.action.kind # "catch"
       /\ outcome.result = "success"
    THEN Cost(outcome.action) ELSE 0

\* What the first n actions of a list have cost a player.
CostSoFar(outcomes, player) ==
    LET cost[n \in 0..Len(outcomes)] ==
            IF n = 0 THEN 0 ELSE cost[n - 1] + Charge(outcomes[n], player)
    IN  cost

\* A list is worked off to its end in order: an action succeeds just when what its player
\* had at the start less what its own earlier actions cost leaves enough for it, whatever
\* was refused before and whatever the others do; and nothing else is taken.
ListWorkedOff ==
    turn # None =>
        /\ \A i \in 1..Len(turn.done) :
              LET player == turn.done[i].player
                  action == turn.done[i].action
                  left   == turn.before[player] - CostSoFar(turn.done, player)[i - 1]
              IN  turn.done[i].result = "success" <=>
                      /\ player \in PlayerId
                      /\ action.kind = "catch" \/ Cost(action) <= left - Policy.minimum
        /\ \A p \in PlayerId :
              stock[p] = turn.before[p] - CostSoFar(turn.done, p)[Len(turn.done)]
=============================================================================
