-------------------------- MODULE SimulationProofs --------------------------
(***************************************************************************)
(* The simulation of one thread, proved for any number of players, any     *)
(* policy, any actions and any greatest key.                               *)
(***************************************************************************)
EXTENDS Simulation, SequenceTheorems, WellFoundedInduction, TLAPS

-----------------------------------------------------------------------------
(* What an action costs, and how inventories account for it, for every      *)
(* velocity of 16 bits, every energy of 8 and every policy                  *)

\* The actions that have a cost.
Effort == {action \in ActionType : action.kind # "catch"}

-----------------------------------------------------------------------------

\* The limits, kind by kind (common/action.capnp).
LEMMA Limits ==
  ASSUME NEW action \in Effort
  PROVE  \/ action.kind = "moveFoot" /\ MaxVelocity(action) = 32000 /\ MaxCost(action) = 100
         \/ /\ action.kind = "run" /\ action.velocity > 0
            /\ MaxVelocity(action) = 16000 /\ MaxCost(action) = 100
         \/ /\ action.kind = "run" /\ ~(action.velocity > 0)
            /\ MaxVelocity(action) = 8000 /\ MaxCost(action) = 200
         \/ action.kind = "turnHead" /\ MaxVelocity(action) = 100 /\ MaxCost(action) = 20
         \/ action.kind = "turnTorso" /\ MaxVelocity(action) = 200 /\ MaxCost(action) = 40
<1>1. action.kind \in {"moveFoot", "run", "turnHead", "turnTorso"}
  BY DEF Effort, ActionType, Kind
<1>2. CASE action.velocity > 0
  BY <1>1, <1>2 DEF MaxVelocity, MaxCost, Limit, Forward
<1>3. CASE ~(action.velocity > 0)
  BY <1>1, <1>3 DEF MaxVelocity, MaxCost, Limit, Forward, Backward
<1> QED
  BY <1>2, <1>3

\* Velocities are numbers.
LEMMA WithinInt == \A n \in Velocity : n \in Int
<1> DEFINE least == -32768
           most == 32767
<1>1. least \in Int /\ most \in Int
  OBVIOUS
<1>2. Velocity = least..most
  BY DEF Velocity
<1> HIDE DEF least, most
<1> QED
  BY <1>1, <1>2

\* A velocity is capped to the limit of its direction (common/action.cxx).
LEMMA CappedWithinLimit ==
  ASSUME NEW action \in Effort
  PROVE  /\ Capped(action) \in Int
         /\ Magnitude(Capped(action)) \in 0..MaxVelocity(action)
         /\ MaxVelocity(action) \in {100, 200, 8000, 16000, 32000}
         /\ MaxCost(action) \in {20, 40, 100, 200}
<1>1. action.velocity \in Int
  <2>1. action \in ActionType
    BY DEF Effort
  <2>2. action.velocity \in Velocity
    BY <2>1 DEF ActionType
  <2> QED
    BY <2>2, WithinInt
<1> QED
  BY <1>1, Limits DEF Capped, Magnitude

\* Rounding to a whole number, up or down where the fraction is a half, is within half
\* a unit: c is the greatest cost, m the greatest velocity, v one within it.
Rounded(v, m, c, price) ==
    \/ price = ((v * c) \div m) /\ 2 * ((v * c) % m) <= m
    \/ price = ((v * c) \div m) + 1 /\ 2 * ((v * c) % m) >= m

Within(v, m, c, price) == Magnitude(2 * price * m - 2 * v * c) <= m

\* std::lround: rounding up or down gives the share to half a unit, however a half is
\* resolved.
LEMMA Rounding ==
  ASSUME NEW v \in Nat,
         NEW m \in {100, 200, 8000, 16000, 32000}, NEW c \in {20, 40, 100, 200},
         v <= m, NEW price \in Int, Rounded(v, m, c, price)
  PROVE  /\ price \in 0..c
         /\ Within(v, m, c, price)
<1> USE DEF Magnitude, Rounded, Within
<1>1. CASE m = 100
  BY <1>1
<1>2. CASE m = 200
  BY <1>2
<1>3. CASE m = 8000
  BY <1>3
<1>4. CASE m = 16000
  BY <1>4
<1>5. CASE m = 32000
  BY <1>5
<1> QED
  BY <1>1, <1>2, <1>3, <1>4, <1>5

\* The cost of an action never wraps in its eight bits, is within the greatest cost, and
\* is a fair price for the capped velocity (the four act functions of common/action.cxx).
THEOREM CostFair ==
  ASSUME NEW action \in Effort
  PROVE  /\ Cost(action) \in 0..MaxCost(action)
         /\ Cost(action) \in Energy
         /\ Fair(action, Capped(action), Cost(action))
<1> DEFINE v == Magnitude(Capped(action))
           m == MaxVelocity(action)
           c == MaxCost(action)
           whole == (v * c) \div m
           twice == 2 * ((v * c) % m)
<1>1. /\ v \in Nat /\ v <= m
      /\ m \in {100, 200, 8000, 16000, 32000} /\ c \in {20, 40, 100, 200}
  BY CappedWithinLimit
<1>2. whole \in Int /\ twice \in Int
  BY <1>1
<1>3. PICK price \in Int :
            /\ Cost(action) = price % 256
            /\ \/ price = whole /\ twice <= m
               \/ price = whole + 1 /\ twice >= m
  <2>1. CASE \/ twice > m
             \/ twice = m /\ whole \notin HalfLost
    <3>1. Cost(action) = (whole + 1) % 256
      BY <2>1 DEF Cost
    <3> QED
      BY <1>1, <1>2, <2>1, <3>1
  <2>2. CASE ~ \/ twice > m
               \/ twice = m /\ whole \notin HalfLost
    <3>1. Cost(action) = whole % 256
      BY <2>2 DEF Cost
    <3> QED
      BY <1>1, <1>2, <2>2, <3>1
  <2> QED
    BY <2>1, <2>2
<1>4. price \in 0..c /\ Within(v, m, c, price)
  <2>1. Rounded(v, m, c, price)
    BY <1>3 DEF Rounded
  <2> QED
    BY <1>1, <2>1, Rounding
<1>5. Cost(action) = price
  BY <1>1, <1>3, <1>4
<1> QED
  BY <1>1, <1>4, <1>5 DEF Fair, Within, Energy

-----------------------------------------------------------------------------

\* accrue adds all of the amount, to no more than the maximum, or nothing
\* (engine/inventory.hpp).
LEMMA Accrued ==
  ASSUME NEW policy \in InventoryPolicy, NEW level \in Energy, NEW amount \in Energy
  PROVE  LET after == accrue(policy, level, amount)
         IN  /\ after.stock \in Energy
             /\ \/ /\ after.result = "success" /\ after.stock = level + amount
                   /\ after.stock \in 0..policy.maximum
                \/ after.result = "oversupply" /\ after.stock = level
<1> DEFINE after == accrue(policy, level, amount)
<1> HIDE DEF after
<1>1. policy.maximum \in 0..255 /\ level \in 0..255 /\ amount \in 0..255
  BY DEF InventoryPolicy, Energy
<1>2. CASE amount <= policy.maximum - level
  <2>1. level + amount \in 0..policy.maximum /\ level + amount \in 0..255
    BY <1>1, <1>2
  <2>2. level + amount \in Energy
    BY <2>1 DEF Energy
  <2>3. (level + amount) % 256 = level + amount
    BY <2>1
  <2>4. after = [result |-> "success", stock |-> level + amount]
    BY <1>2, <2>3 DEF accrue, after
  <2> QED
    BY <2>1, <2>2, <2>4 DEF after
<1>3. CASE ~(amount <= policy.maximum - level)
  <2>1. after = [result |-> "oversupply", stock |-> level]
    BY <1>3 DEF accrue, after
  <2> QED
    BY <2>1 DEF after
<1> QED
  BY <1>2, <1>3 DEF after

\* spend takes all of the amount, to no less than the minimum, or nothing.
LEMMA Spent ==
  ASSUME NEW policy \in InventoryPolicy, NEW level \in Energy, NEW amount \in Energy
  PROVE  LET after == spend(policy, level, amount)
         IN  \/ /\ after.result = "success" /\ after.stock = level - amount
                /\ after.stock \in policy.minimum..level
             \/ after.result = "understock" /\ after.stock = level
<1> DEFINE after == spend(policy, level, amount)
<1> HIDE DEF after
<1>1. policy.minimum \in 0..255 /\ level \in 0..255 /\ amount \in 0..255
  BY DEF InventoryPolicy, Energy
<1>2. CASE amount <= level - policy.minimum
  <2>1. level - amount \in policy.minimum..level /\ level - amount \in 0..255
    BY <1>1, <1>2
  <2>2. (level - amount) % 256 = level - amount
    BY <2>1
  <2>3. after = [result |-> "success", stock |-> level - amount]
    BY <1>2, <2>2 DEF spend, after
  <2> QED
    BY <2>1, <2>3 DEF after
<1>3. CASE ~(amount <= level - policy.minimum)
  <2>1. after = [result |-> "understock", stock |-> level]
    BY <1>3 DEF spend, after
  <2> QED
    BY <2>1 DEF after
<1> QED
  BY <1>2, <1>3 DEF after

-----------------------------------------------------------------------------
(* Tables *)

\* A table is a record whose index is a function: what is looked up in it has a value.
IsTable(table) ==
    /\ table = [row |-> table.row, auto_key |-> table.auto_key]
    /\ table.row = [key \in DOMAIN table.row |-> table.row[key]]

\* A table begins with no keys.
LEMMA EmptyIsTable == IsTable(EmptyTable) /\ \A key : ~Found(EmptyTable, key)
BY DEF EmptyTable, IsTable, Found

\* emplace adds one row, or none where there is one (runtime/ram_db.hh).
LEMMA Emplaced ==
  ASSUME NEW table, IsTable(table), NEW key, NEW row
  PROVE  LET after == emplace(table, key, row)
         IN  /\ IsTable(after) /\ after.auto_key = table.auto_key
             /\ DOMAIN after.row = DOMAIN table.row \cup {key}
             /\ \A k \in DOMAIN table.row : after.row[k] = table.row[k]
             /\ ~Found(table, key) => after.row[key] = row
BY DEF emplace, Found, IsTable

\* auto_emplace uses a key up.
LEMMA AutoEmplaced ==
  ASSUME NEW table, IsTable(table), NEW row
  PROVE  LET after == auto_emplace(table, row)
         IN  /\ IsTable(after) /\ after.auto_key = table.auto_key + 1
             /\ after.row = emplace(table, table.auto_key, row).row
<1> DEFINE given == emplace(table, table.auto_key, row)
<1>1. IsTable(given) /\ given.auto_key = table.auto_key
  BY Emplaced
<1> HIDE DEF given
<1>2. auto_emplace(table, row) = [given EXCEPT !.auto_key = @ + 1]
  BY DEF auto_emplace, given
<1> QED
  BY <1>1, <1>2 DEF IsTable, given

\* update_column changes one row that is there.
LEMMA Updated ==
  ASSUME NEW table, IsTable(table), NEW key, Found(table, key), NEW row
  PROVE  LET after == update_column(table, key, row)
         IN  /\ IsTable(after) /\ after.auto_key = table.auto_key
             /\ DOMAIN after.row = DOMAIN table.row
             /\ \A k \in DOMAIN table.row :
                    after.row[k] = IF k = key THEN row ELSE table.row[k]
BY DEF update_column, Found, IsTable

-----------------------------------------------------------------------------
(* The system registry *)

SystemsOK(table) ==
    /\ IsTable(table)
    /\ Found(table, "physics") => IsTable(table.row["physics"])

\* Instances of a system that are put where there were some, or not.
LEMMA InstancesFound ==
  ASSUME NEW table, SystemsOK(table), NEW engine, NEW after,
         NEW instances, IsTable(instances), Found(instances, 0), instances.row[0] = engine,
         \/ Found(table, "physics") /\ after = update_column(table, "physics", instances)
         \/ ~Found(table, "physics") /\ after = emplace(table, "physics", instances)
  PROVE  SystemsOK(after) /\ Registered(after) = engine
<1>1. IsTable(after) /\ Found(after, "physics") /\ after.row["physics"] = instances
  BY Updated, Emplaced DEF SystemsOK, Found
<1> QED
  BY <1>1 DEF SystemsOK, Registered

\* An engine that is registered is the one that is found (engine/physics.cxx).
LEMMA EngineFound ==
  ASSUME NEW table, SystemsOK(table), NEW engine
  PROVE  SystemsOK(WithEngine(table, engine)) /\ Registered(WithEngine(table, engine)) = engine
<1> DEFINE there == table.row["physics"]
           instances == IF ~Found(table, "physics") THEN emplace(EmptyTable, 0, engine)
                        ELSE IF Found(there, 0) THEN update_column(there, 0, engine)
                        ELSE emplace(there, 0, engine)
<1>1. IsTable(instances) /\ Found(instances, 0) /\ instances.row[0] = engine
  <2>1. CASE ~Found(table, "physics")
    <3>1. LET new == emplace(EmptyTable, 0, engine)
          IN  IsTable(new) /\ Found(new, 0) /\ new.row[0] = engine
      BY EmptyIsTable, Emplaced DEF Found
    <3> QED
      BY <2>1, <3>1
  <2>2. CASE Found(table, "physics") /\ Found(there, 0)
    <3>1. LET new == update_column(there, 0, engine)
          IN  IsTable(new) /\ Found(new, 0) /\ new.row[0] = engine
      BY <2>2, Updated DEF SystemsOK, Found
    <3> QED
      BY <2>2, <3>1
  <2>3. CASE Found(table, "physics") /\ ~Found(there, 0)
    <3>1. LET new == emplace(there, 0, engine)
          IN  IsTable(new) /\ Found(new, 0) /\ new.row[0] = engine
      BY <2>3, Emplaced DEF SystemsOK, Found
    <3> QED
      BY <2>3, <3>1
  <2> QED
    BY <2>1, <2>2, <2>3
<1>2. WithEngine(table, engine) =
          IF Found(table, "physics") THEN update_column(table, "physics", instances)
          ELSE emplace(table, "physics", instances)
  BY DEF WithEngine
<1> HIDE DEF instances
<1> QED
  BY <1>1, <1>2, InstancesFound

\* An inventory in the registry leaves the engine alone (engine/inventory.cxx).
LEMMA InventoryApart ==
  ASSUME NEW table, SystemsOK(table), NEW instances
  PROVE  LET after == emplace(table, "inventory", instances)
         IN  SystemsOK(after) /\ Registered(after) = Registered(table)
<1> DEFINE after == emplace(table, "inventory", instances)
<1>1. /\ IsTable(after)
      /\ Found(after, "physics") <=> Found(table, "physics")
      /\ Found(table, "physics") => after.row["physics"] = table.row["physics"]
  BY Emplaced DEF SystemsOK, Found
<1> HIDE DEF after
<1>2. SystemsOK(after) /\ Registered(after) = Registered(table)
  BY <1>1 DEF SystemsOK, Registered
<1> QED
  BY <1>2 DEF after

-----------------------------------------------------------------------------
(* What a step does to each part of the state *)

\* Engines change by a registration or a release only.
EngineStep ==
    \/ \E keep \in BOOLEAN : register_physics(keep)
    \/ \E engine \in held : release(engine)
    \/ register_inventory

GameStep == begin_game \/ make_body \/ make_body_fails \/ reset_game \/ end_game

StaminaStep ==
    \/ \E amount \in [PlayerId -> Amount] : accrue_all(amount)
    \/ act_begin \/ act_end
    \/ \E player \in 0..RosterSize, action \in Action : act_next(player, action)

\* Every step registers, makes bodies, works on stamina, or stutters.
LEMMA Steps == [Next]_vars => EngineStep \/ GameStep \/ StaminaStep \/ UNCHANGED vars
BY Zenon DEF Next, EngineStep, GameStep, StaminaStep

-----------------------------------------------------------------------------
(* Answers to actions *)

\* An effort makes an impulse, of the capped velocity unless it turns the torso.
LEMMA ImpulsesOf ==
  ASSUME NEW action \in Effort
  PROVE  /\ Impulses(action) # {} /\ Impulses(action) \subseteq ImpulseType
         /\ \A impulse \in Impulses(action) :
               \/ impulse.velocity = Capped(action)
               \/ action.kind = "turnTorso" /\ impulse.velocity = action.velocity
<1>1. action.kind \in {"moveFoot", "run", "turnHead", "turnTorso"}
  BY Limits
<1>2. action.velocity \in Int
  <2>1. action.velocity \in Velocity
    BY DEF Effort, ActionType
  <2> QED
    BY <2>1, WithinInt
<1>3. Capped(action) \in Int
  BY CappedWithinLimit
<1>4. ASSUME NEW parts \in SUBSET {"torso", "head", "foot"}, parts # {},
             NEW way \in {"linear", "angular"}, NEW velocity \in Int
      PROVE  /\ ImpulseOn(parts, way, velocity) # {}
             /\ ImpulseOn(parts, way, velocity) \subseteq ImpulseType
             /\ \A impulse \in ImpulseOn(parts, way, velocity) : impulse.velocity = velocity
  <2>1. \A part \in parts :
            [part |-> part, way |-> way, velocity |-> velocity] \in ImpulseType
    BY <1>4 DEF ImpulseType
  <2>2. ImpulseOn(parts, way, velocity) # {}
    BY <1>4 DEF ImpulseOn
  <2>3. \A impulse \in ImpulseOn(parts, way, velocity) : \E part \in parts :
            impulse = [part |-> part, way |-> way, velocity |-> velocity]
    BY DEF ImpulseOn
  <2> QED
    BY <2>1, <2>2, <2>3
<1>5. \/ \E parts \in SUBSET {"torso", "head", "foot"}, way \in {"linear", "angular"} :
            parts # {} /\ Impulses(action) = ImpulseOn(parts, way, Capped(action))
      \/ /\ action.kind = "turnTorso"
         /\ Impulses(action) = ImpulseOn({"torso", "foot"}, "angular", action.velocity)
  BY <1>1 DEF Impulses
<1>6. CASE action.kind = "turnTorso" /\
            Impulses(action) = ImpulseOn({"torso", "foot"}, "angular", action.velocity)
  BY <1>2, <1>4, <1>6
<1>7. ASSUME NEW parts \in SUBSET {"torso", "head", "foot"}, NEW way \in {"linear", "angular"},
             parts # {}, Impulses(action) = ImpulseOn(parts, way, Capped(action))
      PROVE  /\ Impulses(action) # {} /\ Impulses(action) \subseteq ImpulseType
             /\ \A impulse \in Impulses(action) : impulse.velocity = Capped(action)
  <2>1. /\ ImpulseOn(parts, way, Capped(action)) # {}
        /\ ImpulseOn(parts, way, Capped(action)) \subseteq ImpulseType
        /\ \A impulse \in ImpulseOn(parts, way, Capped(action)) :
              impulse.velocity = Capped(action)
    BY <1>3, <1>4, <1>7
  <2> QED
    BY <1>7, <2>1
<1> QED
  BY <1>5, <1>6, <1>7

\* The answer to an action, for any player_id (common/action.cxx): a price is paid with
\* an impulse only, it is the cost, and it leaves the player the minimum.
LEMMA AnswerOf ==
  ASSUME stock \in [PlayerId -> Energy], NEW player \in 0..RosterSize, NEW action \in Action
  PROVE  LET answer == Answer(player, action)
         IN  /\ answer \in OutcomeType
             /\ answer.player = player /\ answer.action = action
             /\ player \in PlayerId =>
                  \/ answer.paid = 0
                  \/ stock[player] - answer.paid \in Policy.minimum..stock[player]
             /\ answer.impulses = {} => answer.paid = 0
             /\ answer.impulses # {} =>
                  /\ answer.result = "success" /\ action \in Effort
                  /\ answer.paid = Cost(action) /\ answer.impulses = Impulses(action)
<1> DEFINE answer == Answer(player, action)
           spent == spend(Policy, stock[player], Cost(action))
<1>1. CASE player \notin PlayerId \/ action.kind = "catch"
  <2>1. PICK result \in {"success", "understock"} :
            answer = [player |-> player, action |-> action, result |-> result, paid |-> 0,
                      impulses |-> {}]
    BY <1>1 DEF Answer, Outcome
  <2> QED
    BY <2>1 DEF OutcomeType, Energy
<1>2. CASE player \in PlayerId /\ action.kind # "catch"
  <2>1. action \in Effort
    BY <1>2, SimulationAssumption DEF Effort
  <2>2. stock[player] \in Energy /\ Cost(action) \in Energy /\ Policy \in InventoryPolicy
    BY <1>2, <2>1, CostFair, SimulationAssumption
  <2>3. answer = [player |-> player, action |-> action, result |-> spent.result,
                  paid |-> stock[player] - spent.stock,
                  impulses |-> IF spent.result = "success" THEN Impulses(action) ELSE {}]
    BY <1>2 DEF Answer, Outcome, act
  <2>4. \/ /\ spent.result = "success" /\ spent.stock = stock[player] - Cost(action)
           /\ spent.stock \in Policy.minimum..stock[player]
        \/ spent.result = "understock" /\ spent.stock = stock[player]
    BY <2>2, Spent
  <2>5. Policy.minimum \in Int /\ stock[player] \in Int /\ Cost(action) \in Int
    BY <2>2 DEF InventoryPolicy, Energy
  <2> HIDE DEF answer, spent
  <2>6. CASE spent.result = "success"
    <3>1. answer = [player |-> player, action |-> action, result |-> "success",
                    paid |-> Cost(action), impulses |-> Impulses(action)]
      BY <2>3, <2>4, <2>5, <2>6
    <3>2. stock[player] - Cost(action) \in Policy.minimum..stock[player]
      BY <2>4, <2>6
    <3>3. answer \in OutcomeType
      BY <2>1, <2>2, <3>1, ImpulsesOf DEF OutcomeType
    <3> QED
      BY <2>1, <3>1, <3>2, <3>3, ImpulsesOf DEF answer
  <2>7. CASE spent.result = "understock"
    <3>1. answer = [player |-> player, action |-> action, result |-> "understock",
                    paid |-> 0, impulses |-> {}]
      BY <2>3, <2>4, <2>5, <2>7
    <3>2. answer \in OutcomeType
      BY <3>1 DEF OutcomeType, Energy
    <3> QED
      BY <3>1, <3>2 DEF answer
  <2> QED
    BY <2>4, <2>6, <2>7
<1> QED
  BY <1>1, <1>2

-----------------------------------------------------------------------------
(* Types *)

\* The types, and the shapes of the two tables that are read.
TypeInv == TypeOK /\ SystemsOK(systems) /\ IsTable(entities)

\* The constructor of ecs_db gives well-formed tables (runtime/ecs_db.cxx).
LEMMA InitTypeInv == Init => TypeInv
<1> SUFFICES ASSUME Init PROVE TypeInv
  OBVIOUS
<1>1. IsTable(EmptyTable) /\ DOMAIN EmptyTable.row = {} /\ EmptyTable.auto_key = 0
  BY EmptyIsTable DEF EmptyTable
<1>2. SystemsOK(systems) /\ Registered(systems) = None
  BY EmptyIsTable DEF Init, SystemsOK, Registered
<1>3. stock \in [PlayerId -> Energy]
  BY DEF Init, NoStock, Energy
<1>4. entities.auto_key \in 0..KeyMax /\ DOMAIN entities.row = 0..(entities.auto_key - 1)
  BY <1>1, SimulationAssumption DEF Init
<1>5. /\ engines \in 0..MaxEngines /\ inventories \in 0..MaxInventories
      /\ uses \in 0..MaxUses
  BY SimulationAssumption DEF Init
<1>6. /\ held \subseteq 1..engines /\ destroyed \subseteq 1..engines
      /\ making = None /\ game = None /\ turn = None /\ halted = FALSE /\ IsTable(entities)
  BY <1>1 DEF Init
<1> QED
  BY <1>2, <1>3, <1>4, <1>5, <1>6 DEF TypeInv, TypeOK

\* Registering and releasing engines and inventories.
LEMMA EngineStepType ==
  ASSUME TypeInv, EngineStep
  PROVE  TypeInv'
<1> USE DEF TypeInv, TypeOK, staminaVars
<1>1. ASSUME NEW keep \in BOOLEAN, register_physics(keep)
      PROVE  TypeInv'
  <2>1. engines' = engines + 1 /\ engines' \in 0..MaxEngines
    BY <1>1, SimulationAssumption DEF register_physics
  <2>2. SystemsOK(systems') /\ Registered(systems') = engines'
    BY <1>1, EngineFound DEF register_physics
  <2>3. held' \subseteq 1..engines' /\ destroyed' \subseteq 1..engines'
    <3>1. Registered(systems) # None => Registered(systems) \in 1..engines
      OBVIOUS
    <3>2. 1..engines \subseteq 1..engines'
      BY <2>1
    <3> QED
      BY <1>1, <3>1, <3>2 DEF register_physics
  <2>4. game # None => game \in [BodyNumber -> BodyType']
    BY <2>1 DEF BodyType
  <2>5. Registered(systems)' \in 1..engines'
    BY <2>1, <2>2
  <2> QED
    BY <1>1, <2>1, <2>2, <2>3, <2>4, <2>5 DEF register_physics
<1>2. ASSUME NEW engine \in held, release(engine)
      PROVE  TypeInv'
  BY <1>2 DEF release, BodyType
<1>3. CASE register_inventory
  <2>1. SystemsOK(systems') /\ Registered(systems') = Registered(systems)
    BY <1>3, InventoryApart DEF register_inventory
  <2>2. inventories' \in 0..MaxInventories
    BY <1>3, SimulationAssumption DEF register_inventory
  <2> QED
    BY <1>3, <2>1, <2>2 DEF register_inventory, BodyType
<1> QED
  BY <1>1, <1>2, <1>3 DEF EngineStep

\* A body is of the engine registered, under the next key.
LEMMA BodyMade ==
  ASSUME TypeInv, make_body
  PROVE  LET n    == Len(making) + 1
             body == [engine |-> Registered(systems), tag |-> Tag(n, entities.auto_key)]
         IN  /\ n \in BodyNumber /\ body \in BodyType
             /\ making' = Append(making, body) /\ making' \in Seq(BodyType)
             /\ IsTable(entities')
             /\ entities'.auto_key = entities.auto_key + 1
             /\ entities'.auto_key \in 0..KeyMax
             /\ DOMAIN entities'.row = 0..(entities'.auto_key - 1)
             /\ \A key \in DOMAIN entities.row : entities'.row[key] = entities.row[key]
             /\ entities'.row[entities.auto_key] = n
<1> DEFINE n == Len(making) + 1
           key == entities.auto_key
           body == [engine |-> Registered(systems), tag |-> Tag(n, key)]
<1> USE DEF TypeInv, TypeOK
<1>1. /\ making \in Seq(BodyType) /\ n <= BodyCount /\ RosterSize \in Nat
      /\ Registered(systems) \in 1..engines
      /\ key \in 0..KeyMax /\ key # KeyMax
      /\ entities' = auto_emplace(entities, n) /\ making' = Append(making, body)
  BY SimulationAssumption DEF make_body, KeyLimitReached
<1>2. n \in BodyNumber
  BY <1>1 DEF BodyNumber, BodyCount
<1>3. body \in BodyType
  <2>1. Tag(n, key) \in Nat
    BY <1>1, <1>2 DEF Tag, OfPlayer, PlayerOf, BodyNumber, BodyCount
  <2> QED
    BY <1>1, <2>1 DEF BodyType
<1>4. key \notin DOMAIN entities.row /\ key + 1 \in 0..KeyMax
  BY <1>1, SimulationAssumption
<1> HIDE DEF body, n
<1>5. /\ IsTable(entities') /\ entities'.auto_key = key + 1
      /\ DOMAIN entities'.row = DOMAIN entities.row \cup {key}
      /\ \A k \in DOMAIN entities.row : entities'.row[k] = entities.row[k]
      /\ entities'.row[key] = n
  <2> DEFINE given == emplace(entities, key, n)
  <2>1. /\ IsTable(entities') /\ entities'.auto_key = key + 1
        /\ entities'.row = given.row
    BY <1>1, AutoEmplaced
  <2>2. /\ DOMAIN given.row = DOMAIN entities.row \cup {key}
        /\ \A k \in DOMAIN entities.row : given.row[k] = entities.row[k]
        /\ given.row[key] = n
    BY <1>4, Emplaced DEF Found
  <2> HIDE DEF given
  <2> QED
    BY <2>1, <2>2
<1>6. 0..(key - 1) \cup {key} = 0..((key + 1) - 1)
  BY <1>1
<1>7. making' \in Seq(BodyType)
  BY <1>1, <1>3
<1>8. DOMAIN entities'.row = 0..(entities'.auto_key - 1)
  BY <1>5, <1>6
<1>9. entities'.auto_key \in 0..KeyMax
  BY <1>4, <1>5
<1> QED
  BY <1>1, <1>2, <1>3, <1>5, <1>7, <1>8, <1>9 DEF body, n

\* Making and ending game states.
LEMMA GameStepType ==
  ASSUME TypeInv, GameStep
  PROVE  TypeInv'
<1> USE DEF TypeInv, TypeOK, registryVars
<1>1. CASE begin_game
  <2>1. making' \in Seq(BodyType) /\ Len(making') <= BodyCount
    BY <1>1, SimulationAssumption DEF begin_game, BodyCount
  <2> QED
    BY <1>1, <2>1 DEF begin_game, staminaVars, BodyType
<1>2. CASE make_body
  <2>1. making' # None => making' \in Seq(BodyType) /\ Len(making') <= BodyCount
    BY <1>2, BodyMade DEF BodyNumber
  <2> QED
    BY <1>2, <2>1, BodyMade DEF make_body, staminaVars, BodyType
<1>3. CASE make_body_fails
  BY <1>3 DEF make_body_fails, staminaVars, BodyType
<1>4. CASE reset_game
  <2>1. game' \in [BodyNumber -> BodyType]
    BY <1>4 DEF reset_game, BodyNumber
  <2>2. stock' \in [PlayerId -> Energy] /\ uses' \in 0..MaxUses
    BY <1>4, SimulationAssumption DEF reset_game, NoStock, Energy
  <2> QED
    BY <1>4, <2>1, <2>2 DEF reset_game, BodyType
<1>5. CASE end_game
  <2>1. stock' \in [PlayerId -> Energy] /\ uses' \in 0..MaxUses
    BY <1>5, SimulationAssumption DEF end_game, NoStock, Energy
  <2> QED
    BY <1>5, <2>1 DEF end_game, BodyType
<1> QED
  BY <1>1, <1>2, <1>3, <1>4, <1>5 DEF GameStep

\* Accruing, and working off a list of actions.
LEMMA StaminaStepType ==
  ASSUME TypeInv, StaminaStep
  PROVE  TypeInv'
<1> USE DEF TypeInv, TypeOK, registryVars
<1>1. ASSUME NEW amount \in [PlayerId -> Amount], accrue_all(amount)
      PROVE  TypeInv'
  <2>1. ASSUME NEW p \in PlayerId
        PROVE  accrue(Policy, stock[p], amount[p]).stock \in Energy
    <3>1. stock[p] \in Energy /\ amount[p] \in Energy /\ Policy \in InventoryPolicy
      BY <1>1, <2>1, SimulationAssumption
    <3> QED
      BY <3>1, Accrued
  <2>2. stock' \in [PlayerId -> Energy] /\ uses' \in 0..MaxUses
    BY <1>1, <2>1, SimulationAssumption DEF accrue_all
  <2> QED
    BY <1>1, <2>2 DEF accrue_all, BodyType
<1>2. CASE act_begin
  <2>1. turn' \in [before: [PlayerId -> Energy], done: Seq(OutcomeType)]
    BY <1>2 DEF act_begin
  <2>2. uses' \in 0..MaxUses
    BY <1>2, SimulationAssumption DEF act_begin
  <2> QED
    BY <1>2, <2>1, <2>2 DEF act_begin, BodyType
<1>3. CASE act_end
  BY <1>3 DEF act_end, BodyType
<1>4. ASSUME NEW player \in 0..RosterSize, NEW action \in Action, act_next(player, action)
      PROVE  TypeInv'
  <2> DEFINE answer == Answer(player, action)
  <2>1. /\ answer \in OutcomeType
        /\ player \in PlayerId =>
              answer.paid = 0 \/ stock[player] - answer.paid \in Policy.minimum..stock[player]
    BY AnswerOf
  <2> HIDE DEF answer
  <2>2. turn' \in [before: [PlayerId -> Energy], done: Seq(OutcomeType)]
    <3>1. turn \in [before: [PlayerId -> Energy], done: Seq(OutcomeType)]
      BY <1>4 DEF act_next
    <3>2. turn' = [turn EXCEPT !.done = Append(turn.done, answer)]
      BY <1>4 DEF act_next, answer
    <3>3. Append(turn.done, answer) \in Seq(OutcomeType)
      BY <2>1, <3>1
    <3> QED
      BY <3>1, <3>2, <3>3
  <2>3. ASSUME player \in PlayerId PROVE stock[player] - answer.paid \in Energy
    <3>1. stock[player] \in Energy /\ Policy.minimum \in Energy
      BY <2>3, SimulationAssumption DEF InventoryPolicy
    <3>2. answer.paid = 0 \/ stock[player] - answer.paid \in Policy.minimum..stock[player]
      BY <2>1, <2>3
    <3>3. \A n \in Energy, m \in Energy : m..n \subseteq Energy /\ n - 0 = n
      BY DEF Energy
    <3> QED
      BY <3>1, <3>2, <3>3
  <2>4. stock' \in [PlayerId -> Energy]
    BY <1>4, <2>3 DEF act_next, answer
  <2> QED
    BY <1>4, <2>2, <2>4 DEF act_next, BodyType
<1> QED
  BY <1>1, <1>2, <1>3, <1>4 DEF StaminaStep

\* No operation breaks a table or a type.
LEMMA NextTypeInv == TypeInv /\ [Next]_vars => TypeInv'
<1> SUFFICES ASSUME TypeInv, [Next]_vars PROVE TypeInv'
  OBVIOUS
<1>1. CASE UNCHANGED vars
  BY <1>1 DEF vars, registryVars, staminaVars, TypeInv, TypeOK, BodyType
<1> QED
  BY <1>1, Steps, EngineStepType, GameStepType, StaminaStepType

(* The inductive invariant: what TypeOK says, and the tables as functions of keys. *)
THEOREM TypeInvariance == Spec => []TypeInv
BY InitTypeInv, NextTypeInv, PTL DEF Spec

\* Keys and bodies are among those made, and energies fit their eight bits, for any
\* number of players and any policy (runtime/ram_db.hh, engine/inventory.hpp).
THEOREM TypeCorrect == Spec => []TypeOK
BY TypeInvariance, PTL DEF TypeInv

-----------------------------------------------------------------------------
(* Engines and bodies *)

\* The engine step by step.
LEMMA EnginesKept == TypeInv /\ BodiesHaveEngine /\ [Next]_vars => BodiesHaveEngine'
<1> SUFFICES ASSUME TypeInv, BodiesHaveEngine, [Next]_vars PROVE BodiesHaveEngine'
  OBVIOUS
<1> USE DEF BodiesHaveEngine
<1>1. ASSUME NEW keep \in BOOLEAN, register_physics(keep)
      PROVE  BodiesHaveEngine'
  <2> DEFINE displaced == Registered(systems)
             new == engines + 1
  <2>1. /\ engines' = new /\ Registered(systems)' = new
        /\ making = None /\ making' = making /\ game' = game
        /\ held' = IF keep /\ displaced # None THEN held \cup {displaced} ELSE held
        /\ destroyed' =
              IF ~keep /\ displaced # None THEN destroyed \cup {displaced} ELSE destroyed
        /\ ~keep => Bodies(displaced) = {}
    <3>1. systems' = WithEngine(systems, engines')
      BY <1>1 DEF register_physics
    <3> QED
      BY <1>1, <3>1, EngineFound DEF TypeInv, register_physics
  <2>2. /\ engines \in Nat /\ held \subseteq 1..engines /\ destroyed \subseteq 1..engines
        /\ displaced \in (1..engines) \cup {None}
    BY SimulationAssumption DEF TypeInv, TypeOK
  <2>3. 1..new = (1..engines) \cup {new} /\ new \notin 1..engines /\ new # None
    BY <2>2, SimulationAssumption
  <2>4. ~keep /\ game # None => \A n \in BodyNumber : game[n].engine # displaced
    BY <2>1 DEF Bodies
  <2> HIDE DEF displaced, new
  <2>5. 1..new = held' \cup destroyed' \cup {new}
    <3>1. 1..engines = held \cup destroyed \cup ({displaced} \ {None})
      BY DEF displaced
    <3> QED
      BY <2>1, <2>3, <3>1
  <2>6. held' \cap destroyed' = {} /\ new \notin held' \cup destroyed'
    <3>1. held \cap destroyed = {} /\ displaced \notin held \cup destroyed
      BY DEF displaced
    <3> QED
      BY <2>1, <2>2, <2>3, <3>1
  <2>7. game' # None => \A n \in BodyNumber : game'[n].engine \notin destroyed'
    BY <2>1, <2>4
  <2> QED
    BY <2>1, <2>3, <2>5, <2>6, <2>7
<1>2. ASSUME NEW engine \in held, release(engine)
      PROVE  BodiesHaveEngine'
  <2>1. game # None => \A n \in BodyNumber : game[n].engine # engine
    BY <1>2 DEF release, Bodies
  <2> QED
    BY <1>2, <2>1 DEF release
<1>3. CASE register_inventory
  <2>1. Registered(systems)' = Registered(systems)
    BY <1>3, InventoryApart DEF register_inventory, TypeInv
  <2> QED
    BY <1>3, <2>1 DEF register_inventory
<1>4. CASE begin_game
  BY <1>4 DEF begin_game, registryVars
<1>5. CASE make_body
  <2> DEFINE body == [engine |-> Registered(systems), tag |-> Tag(Len(making) + 1, entities.auto_key)]
  <2>1. making \in Seq(BodyType) /\ making # None
    BY <1>5 DEF make_body, TypeInv, TypeOK
  <2>2. making' = Append(making, body) /\ body \in BodyType
    BY <1>5, BodyMade
  <2>3. ASSUME NEW n \in 1..Len(making')
        PROVE  making'[n].engine = Registered(systems)
    <3>1. CASE n = Len(making) + 1
      BY <2>1, <2>2, <3>1
    <3>2. CASE n # Len(making) + 1
      <4>1. n \in 1..Len(making) /\ making'[n] = making[n]
        BY <2>1, <2>2, <2>3, <3>2
      <4> QED
        BY <2>1, <4>1
    <3> QED
      BY <3>1, <3>2
  <2> QED
    BY <1>5, <2>3 DEF make_body, registryVars
<1>6. CASE make_body_fails
  BY <1>6 DEF make_body_fails, registryVars
<1>7. CASE reset_game
  <2>1. \A n \in BodyNumber : making[n].engine = Registered(systems)
    BY <1>7 DEF reset_game, BodyNumber
  <2> QED
    BY <1>7, <2>1 DEF reset_game, registryVars
<1>8. CASE end_game
  BY <1>8 DEF end_game, registryVars
<1>9. CASE StaminaStep \/ UNCHANGED vars
  <2>1. UNCHANGED <<registryVars, making, game>>
    BY <1>9 DEF StaminaStep, accrue_all, act_begin, act_end, act_next, vars
  <2> QED
    BY <2>1 DEF registryVars
<1> QED
  BY Steps, <1>1, <1>2, <1>3, <1>4, <1>5, <1>6, <1>7, <1>8, <1>9 DEF EngineStep, GameStep

\* No body is left without its engine, for any number of engines, players and game
\* states (engine/physics.cxx's register_system and common/state.cxx).
THEOREM BodiesKeepEngine == Spec => []BodiesHaveEngine
<1>1. Init => BodiesHaveEngine
  <2>1. Init => Registered(systems) = None
    BY EmptyIsTable DEF Init, Registered
  <2> QED
    BY <2>1, SimulationAssumption DEF Init, BodiesHaveEngine
<1> QED
  BY <1>1, EnginesKept, TypeInvariance, PTL DEF Spec

-----------------------------------------------------------------------------
(* Tags *)

\* The tags of a game state under construction find their entities too.
TagsOf(bodies) ==
    \A n \in DOMAIN bodies :
        ~OfPlayer(n) => Found(entities, bodies[n].tag) /\ entities.row[bodies[n].tag] = n

TagInv == (game # None => TagsOf(game)) /\ (making # None => TagsOf(making))

\* A body gets the key of its own entity, and no later key takes the entity's place.
LEMMA TagsKept == TypeInv /\ TagInv /\ [Next]_vars => TagInv'
<1> SUFFICES ASSUME TypeInv, TagInv, [Next]_vars PROVE TagInv'
  OBVIOUS
<1>1. CASE make_body
  <2> DEFINE last == Len(making) + 1
             key == entities.auto_key
             body == [engine |-> Registered(systems), tag |-> Tag(last, key)]
  <2>1. /\ making \in Seq(BodyType) /\ making # None /\ game' = game
        /\ DOMAIN entities.row = 0..(key - 1) /\ key \in Nat
    BY <1>1, SimulationAssumption DEF make_body, registryVars, TypeInv, TypeOK
  <2>2. /\ body \in BodyType /\ making' = Append(making, body)
        /\ DOMAIN entities'.row = 0..((key + 1) - 1)
        /\ \A k \in DOMAIN entities.row : entities'.row[k] = entities.row[k]
        /\ entities'.row[key] = last
    BY <1>1, BodyMade
  <2>3. \A k \in DOMAIN entities.row : k \in DOMAIN entities'.row
    BY <2>1, <2>2
  <2>4. ASSUME NEW bodies, TagsOf(bodies)
        PROVE  \A n \in DOMAIN bodies : ~OfPlayer(n) =>
                  /\ Found(entities, bodies[n].tag)' /\ entities'.row[bodies[n].tag] = n
    BY <2>2, <2>3, <2>4 DEF TagsOf, Found
  <2>5. game' # None => TagsOf(game)'
    BY <2>1, <2>4 DEF TagInv, TagsOf, Found
  <2>6. TagsOf(making)'
    <3> SUFFICES ASSUME NEW n \in DOMAIN making', ~OfPlayer(n)
                 PROVE  /\ making'[n].tag \in DOMAIN entities'.row
                        /\ entities'.row[making'[n].tag] = n
      BY DEF TagsOf, Found
    <3>1. CASE n = last
      <4>1. making'[n].tag = key
        BY <2>1, <2>2, <3>1 DEF Tag
      <4> QED
        BY <2>1, <2>2, <3>1, <4>1
    <3>2. CASE n # last
      <4>1. n \in DOMAIN making /\ making'[n] = making[n]
        BY <2>1, <2>2, <3>2
      <4> QED
        BY <2>1, <2>4, <4>1 DEF TagInv, Found
    <3> QED
      BY <3>1, <3>2
  <2> QED
    BY <2>5, <2>6 DEF TagInv
<1>2. CASE begin_game
  BY <1>2 DEF begin_game, TagInv, TagsOf
<1>3. CASE reset_game
  BY <1>3 DEF reset_game, TagInv, TagsOf
<1>4. CASE end_game
  BY <1>4 DEF end_game, TagInv, TagsOf
<1>5. CASE EngineStep \/ make_body_fails \/ StaminaStep \/ UNCHANGED vars
  <2>1. UNCHANGED <<entities, making, game>>
    BY <1>5 DEF EngineStep, StaminaStep, register_physics, release, register_inventory,
       make_body_fails, accrue_all, act_begin, act_end, act_next, vars
  <2> QED
    BY <2>1 DEF TagInv, TagsOf
<1> QED
  BY Steps, <1>1, <1>2, <1>3, <1>4, <1>5 DEF GameStep

\* However many game states are made, a tag leads to the entity that has it
\* (auto_emplace of runtime/ram_db.hh and insert_entity of runtime/ecs_db.cxx).
THEOREM TagsLeadToEntities == Spec => []TagsFindEntities
<1>1. Init => TagInv
  BY DEF Init, TagInv
<1>2. TypeInv /\ TagInv => TagsFindEntities
  BY DEF TypeInv, TypeOK, TagInv, TagsOf, TagsFindEntities
<1> QED
  BY <1>1, <1>2, TagsKept, TypeInvariance, PTL DEF Spec

-----------------------------------------------------------------------------
(* Stamina *)

\* No player is charged for nothing, pushed for nothing, or pushed beyond the limit but
\* by a torso turn (common/action.cxx), for any list of actions of any length.
LEMMA EffortKept == TypeInv /\ EffortPaidFor /\ [Next]_vars => EffortPaidFor'
<1> SUFFICES ASSUME TypeInv, EffortPaidFor, [Next]_vars PROVE EffortPaidFor'
  OBVIOUS
<1> DEFINE Paid(outcome) ==
      /\ outcome.impulses = {} => outcome.paid = 0
      /\ \A impulse \in outcome.impulses :
            /\ outcome.result = "success"
            /\ Overturned(outcome.action) \/
                  /\ Magnitude(impulse.velocity) <= MaxVelocity(outcome.action)
                  /\ Fair(outcome.action, impulse.velocity, outcome.paid)
<1>1. ASSUME NEW player \in 0..RosterSize, NEW action \in Action, act_next(player, action)
      PROVE  EffortPaidFor'
  <2> DEFINE answer == Answer(player, action)
  <2>1. /\ turn # None /\ turn.done \in Seq(OutcomeType)
        /\ turn' = [turn EXCEPT !.done = Append(turn.done, answer)]
        /\ turn \in [before: [PlayerId -> Energy], done: Seq(OutcomeType)]
    BY <1>1 DEF act_next, TypeInv, TypeOK
  <2>2. /\ answer \in OutcomeType /\ answer.action = action
        /\ answer.impulses = {} => answer.paid = 0
        /\ answer.impulses # {} =>
              /\ answer.result = "success" /\ action \in Effort
              /\ answer.paid = Cost(action) /\ answer.impulses = Impulses(action)
    BY AnswerOf DEF TypeInv, TypeOK
  <2> HIDE DEF answer
  <2>3. ASSUME NEW impulse \in answer.impulses, ~Overturned(action)
        PROVE  /\ Magnitude(impulse.velocity) <= MaxVelocity(action)
               /\ Fair(action, impulse.velocity, answer.paid)
    <3>1. action \in Effort /\ impulse \in Impulses(action) /\ answer.paid = Cost(action)
      BY <2>2, <2>3
    <3>2. impulse.velocity = Capped(action)
      BY <2>3, <3>1, ImpulsesOf DEF Overturned
    <3>3. Magnitude(Capped(action)) <= MaxVelocity(action)
      BY <3>1, CappedWithinLimit
    <3> QED
      BY <3>1, <3>2, <3>3, CostFair
  <2>4. Paid(answer)
    BY <2>2, <2>3
  <2>5. turn'.done = Append(turn.done, answer)
    BY <2>1
  <2>6. \A i \in 1..Len(turn.done) : Paid(turn.done[i])
    BY <2>1 DEF EffortPaidFor
  <2> HIDE DEF Paid
  <2>7. \A i \in 1..Len(turn'.done) : Paid(turn'.done[i])
    BY <2>1, <2>2, <2>4, <2>5, <2>6
  <2> QED
    BY <2>7 DEF EffortPaidFor, Paid
<1>2. CASE act_begin
  BY <1>2 DEF act_begin, EffortPaidFor
<1>3. ASSUME NEW amount \in [PlayerId -> Amount], accrue_all(amount)
      PROVE  EffortPaidFor'
  BY <1>3 DEF accrue_all, EffortPaidFor
<1>4. CASE act_end
  BY <1>4 DEF act_end, EffortPaidFor
<1>5. CASE EngineStep \/ GameStep \/ UNCHANGED vars
  <2>1. UNCHANGED turn
    BY <1>5 DEF EngineStep, GameStep, register_physics, release, register_inventory,
       begin_game, make_body, make_body_fails, reset_game, end_game, vars, staminaVars
  <2> QED
    BY <2>1 DEF EffortPaidFor
<1> QED
  BY Steps, <1>1, <1>2, <1>3, <1>4, <1>5 DEF StaminaStep

(* act: no body is pushed but by a player that has paid a fair price for it. *)
THEOREM EffortIsPaidFor == Spec => []EffortPaidFor
<1>1. Init => EffortPaidFor
  BY DEF Init, EffortPaidFor
<1> QED
  BY <1>1, EffortKept, TypeInvariance, PTL DEF Spec

\* No energy is brought out of the bounds of the policy (engine/inventory.hpp).
THEOREM StaminaStaysWithinPolicy == Spec => StaminaWithinPolicy
<1> DEFINE Step ==
      game # None /\ UNCHANGED <<making, game>> =>
        \A p \in PlayerId : /\ stock'[p] > stock[p] => stock'[p] <= Policy.maximum
                            /\ stock'[p] < stock[p] => stock'[p] >= Policy.minimum
<1>1. TypeInv /\ [Next]_vars => [Step]_vars
  <2> SUFFICES ASSUME TypeInv, [Next]_vars, game # None, UNCHANGED <<making, game>>,
                      NEW p \in PlayerId
               PROVE  /\ stock'[p] > stock[p] => stock'[p] <= Policy.maximum
                      /\ stock'[p] < stock[p] => stock'[p] >= Policy.minimum
    OBVIOUS
  <2>0. \A e \in Energy : e \in Nat
    BY DEF Energy
  <2>1. /\ stock \in [PlayerId -> Energy] /\ Policy \in InventoryPolicy
        /\ stock[p] \in Int /\ stock'[p] \in Int
        /\ Policy.minimum \in Int /\ Policy.maximum \in Int
    <3>1. stock \in [PlayerId -> Energy] /\ stock' \in [PlayerId -> Energy]
      BY NextTypeInv DEF TypeInv, TypeOK
    <3>2. Policy.minimum \in Energy /\ Policy.maximum \in Energy
      BY SimulationAssumption DEF InventoryPolicy
    <3> QED
      BY <2>0, <3>1, <3>2, SimulationAssumption
  <2>2. ASSUME NEW amount \in [PlayerId -> Amount], accrue_all(amount)
        PROVE  \/ stock'[p] = stock[p]
               \/ stock'[p] >= stock[p] /\ stock'[p] <= Policy.maximum
    <3>1. amount[p] \in Energy /\ amount[p] \in Nat
      BY <2>0, SimulationAssumption
    <3>2. stock'[p] = accrue(Policy, stock[p], amount[p]).stock
      BY <2>2 DEF accrue_all
    <3> QED
      BY <2>1, <3>1, <3>2, Accrued
  <2>3. ASSUME NEW player \in 0..RosterSize, NEW action \in Action, act_next(player, action)
        PROVE  \/ stock'[p] = stock[p]
               \/ stock'[p] <= stock[p] /\ stock'[p] >= Policy.minimum
    <3> DEFINE answer == Answer(player, action)
    <3>1. stock'[p] = IF p = player THEN stock[p] - answer.paid ELSE stock[p]
      BY <2>3 DEF act_next
    <3>2. p = player =>
            \/ answer.paid = 0
            \/ stock[p] - answer.paid \in Policy.minimum..stock[p]
      BY <2>1, AnswerOf
    <3> QED
      BY <2>1, <3>1, <3>2
  <2>4. CASE ~ \/ \E amount \in [PlayerId -> Amount] : accrue_all(amount)
               \/ \E player \in 0..RosterSize, action \in Action : act_next(player, action)
    <3>1. stock' = stock
      BY <2>4, Steps DEF EngineStep, GameStep, StaminaStep, register_physics, release,
         register_inventory, begin_game, make_body, make_body_fails, reset_game, end_game,
         act_begin, act_end, vars, staminaVars
    <3> QED
      BY <2>1, <3>1
  <2> QED
    BY <2>1, <2>2, <2>3, <2>4
<1> QED
  BY <1>1, TypeInvariance, PTL DEF Spec, StaminaWithinPolicy

-----------------------------------------------------------------------------
(* Lists of actions *)

\* A set with 0 and, with every number, the next one has every number.
LEMMA Induction ==
  ASSUME NEW S, 0 \in S, \A n \in Nat : n \in S => n + 1 \in S
  PROVE  \A n \in Nat : n \in S
<1> SUFFICES ASSUME Nat \ S # {} PROVE FALSE
  OBVIOUS
<1>1. \E x \in Nat \ S : \A y \in Nat \ S : ~(<<y, x>> \in OpToRel(<, Nat))
  BY NatLessThanWellFounded, WFMin, Zenon
<1>2. PICK x \in Nat \ S : \A y \in Nat \ S : ~(y < x)
  BY <1>1 DEF OpToRel
<1>3. x # 0 /\ x - 1 \in Nat
  OBVIOUS
<1>4. x - 1 \in S
  BY <1>2, <1>3
<1>5. x - 1 + 1 \in S
  BY <1>3, <1>4
<1> QED
  BY <1>3, <1>5

\* The costs of the first k actions of a list.
Costs(outcomes, player, k, f) ==
    f = [n \in 0..k |-> IF n = 0 THEN 0 ELSE f[n - 1] + Charge(outcomes[n], player)]

\* An action that is charged has a cost.
LEMMA ChargeInt ==
  ASSUME NEW outcome \in OutcomeType, NEW player
  PROVE  Charge(outcome, player) \in Int
<1>1. CASE outcome.action.kind = "catch"
  BY <1>1 DEF Charge
<1>2. CASE outcome.action.kind # "catch"
  <2>1. outcome.action \in Effort
    BY <1>2, SimulationAssumption DEF OutcomeType, Effort
  <2>2. Cost(outcome.action) \in Energy
    BY <2>1, CostFair
  <2> QED
    BY <2>2 DEF Charge, Energy
<1> QED
  BY <1>1, <1>2

\* The costs of one more action can always be added.
LEMMA CostsRun ==
  ASSUME NEW outcomes, NEW player
  PROVE  \A k \in Nat : \E f : Costs(outcomes, player, k, f)
<1> DEFINE S == {k \in Nat : \E f : Costs(outcomes, player, k, f)}
<1>1. 0 \in S
  <2>1. Costs(outcomes, player, 0, [n \in 0..0 |-> 0])
    BY DEF Costs
  <2> QED
    BY <2>1
<1>2. ASSUME NEW k \in Nat, k \in S
      PROVE  k + 1 \in S
  <2>1. PICK f : Costs(outcomes, player, k, f)
    BY <1>2
  <2> DEFINE g == [n \in 0..k + 1 |-> IF n <= k THEN f[n]
                                      ELSE f[n - 1] + Charge(outcomes[n], player)]
  <2>2. \A n \in 0..k : g[n] = f[n]
    OBVIOUS
  <2>3. \A n \in 0..k : f[n] = IF n = 0 THEN 0 ELSE f[n - 1] + Charge(outcomes[n], player)
    BY <2>1 DEF Costs
  <2>4. ASSUME NEW n \in 0..k + 1
        PROVE  g[n] = IF n = 0 THEN 0 ELSE g[n - 1] + Charge(outcomes[n], player)
    <3>1. CASE n = 0
      BY <2>2, <2>3, <3>1
    <3>2. CASE n \in 1..k
      <4>1. n - 1 \in 0..k /\ n \in 0..k /\ n # 0
        BY <3>2
      <4> HIDE DEF g
      <4> QED
        BY <2>2, <2>3, <4>1
    <3>3. CASE n = k + 1
      <4>1. n - 1 \in 0..k /\ ~(n <= k) /\ n # 0
        BY <3>3
      <4>2. g[n] = f[n - 1] + Charge(outcomes[n], player)
        BY <4>1
      <4> HIDE DEF g
      <4> QED
        BY <2>2, <4>1, <4>2
    <3> QED
      BY <3>1, <3>2, <3>3
  <2>5. g = [n \in 0..k + 1 |-> g[n]]
    OBVIOUS
  <2> HIDE DEF g
  <2>6. Costs(outcomes, player, k + 1, g)
    BY <2>4, <2>5 DEF Costs
  <2> QED
    BY <2>6
<1> HIDE DEF S
<1>3. \A k \in Nat : k \in S
  BY <1>1, <1>2, Induction
<1> QED
  BY <1>3 DEF S

\* CostSoFar is what it says: nothing, and after each action what that one took as well.
LEMMA CostsOf ==
  ASSUME NEW outcomes \in Seq(OutcomeType), NEW player
  PROVE  /\ CostSoFar(outcomes, player)[0] = 0
         /\ \A n \in 1..Len(outcomes) :
                CostSoFar(outcomes, player)[n] =
                    CostSoFar(outcomes, player)[n - 1] + Charge(outcomes[n], player)
<1>1. Len(outcomes) \in Nat
  BY LenProperties
<1>2. \E f : Costs(outcomes, player, Len(outcomes), f)
  BY <1>1, CostsRun
<1>3. CostSoFar(outcomes, player) = CHOOSE f : Costs(outcomes, player, Len(outcomes), f)
  BY DEF CostSoFar, Costs
<1> DEFINE cost == CostSoFar(outcomes, player)
<1>4. Costs(outcomes, player, Len(outcomes), cost)
  BY <1>2, <1>3
<1> HIDE DEF cost
<1>5. \A n \in 0..Len(outcomes) :
         cost[n] = IF n = 0 THEN 0 ELSE cost[n - 1] + Charge(outcomes[n], player)
  BY <1>4 DEF Costs
<1>6. \A n \in 1..Len(outcomes) : cost[n] = cost[n - 1] + Charge(outcomes[n], player)
  BY <1>1, <1>5
<1>7. cost[0] = 0
  BY <1>1, <1>5
<1> QED
  BY <1>6, <1>7 DEF cost

\* A longer list has cost at first what the shorter one has, in whole numbers.
LEMMA CostsExtend ==
  ASSUME NEW outcomes \in Seq(OutcomeType), NEW outcome \in OutcomeType, NEW player
  PROVE  LET longer == Append(outcomes, outcome)
         IN  /\ \A n \in 0..Len(outcomes) :
                   /\ CostSoFar(longer, player)[n] = CostSoFar(outcomes, player)[n]
                   /\ CostSoFar(outcomes, player)[n] \in Int
             /\ CostSoFar(longer, player)[Len(longer)] =
                   CostSoFar(outcomes, player)[Len(outcomes)] + Charge(outcome, player)
<1> DEFINE longer == Append(outcomes, outcome)
           was == CostSoFar(outcomes, player)
           is == CostSoFar(longer, player)
           N == Len(outcomes)
           S == {n \in Nat : n <= N => is[n] = was[n] /\ was[n] \in Int}
<1>1. /\ longer \in Seq(OutcomeType) /\ N \in Nat /\ Len(longer) = N + 1
      /\ longer[N + 1] = outcome /\ \A n \in 1..N : longer[n] = outcomes[n]
  OBVIOUS
<1>2. was[0] = 0 /\ \A n \in 1..N : was[n] = was[n - 1] + Charge(outcomes[n], player)
  BY CostsOf
<1>3. is[0] = 0 /\ \A n \in 1..N + 1 : is[n] = is[n - 1] + Charge(longer[n], player)
  BY <1>1, CostsOf
<1>4. \A n \in 1..N : Charge(outcomes[n], player) \in Int
  BY ChargeInt
<1> HIDE DEF was, is, longer, N
<1>5. 0 \in S
  BY <1>2, <1>3
<1>6. ASSUME NEW n \in Nat, n \in S
      PROVE  n + 1 \in S
  <2>1. CASE n + 1 <= N
    <3>1. n + 1 \in 1..N /\ n + 1 \in 1..N + 1 /\ n + 1 - 1 = n /\ n <= N
      BY <1>1, <2>1
    <3>2. is[n] = was[n] /\ was[n] \in Int
      BY <1>6, <3>1
    <3>3. /\ is[n + 1] = is[n] + Charge(longer[n + 1], player)
          /\ was[n + 1] = was[n] + Charge(outcomes[n + 1], player)
      BY <1>2, <1>3, <3>1
    <3>4. longer[n + 1] = outcomes[n + 1] /\ Charge(outcomes[n + 1], player) \in Int
      BY <1>1, <1>4, <3>1
    <3> QED
      BY <3>2, <3>3, <3>4
  <2> QED
    BY <1>1, <2>1
<1> HIDE DEF S
<1>7. \A n \in Nat : n \in S
  BY <1>5, <1>6, Induction
<1>8. \A n \in 0..N : is[n] = was[n] /\ was[n] \in Int
  BY <1>1, <1>7 DEF S
<1>9. is[N + 1] = was[N] + Charge(outcome, player)
  <2>1. N + 1 \in 1..N + 1 /\ N + 1 - 1 = N /\ N \in 0..N
    BY <1>1
  <2> QED
    BY <1>1, <1>3, <1>8, <2>1
<1> QED
  BY <1>1, <1>8, <1>9 DEF was, is, longer, N

\* An answer is a success just when the player is there and can pay, and what it takes is
\* what the player is charged (common/action.cxx).
LEMMA AnswerCharged ==
  ASSUME stock \in [PlayerId -> Energy], NEW player \in 0..RosterSize, NEW action \in Action
  PROVE  LET answer == Answer(player, action)
         IN  /\ answer.result = "success" <=>
                   /\ player \in PlayerId
                   /\ action.kind = "catch" \/ Cost(action) <= stock[player] - Policy.minimum
             /\ player \in PlayerId => Charge(answer, player) = answer.paid
             /\ \A p : p # player => Charge(answer, p) = 0
<1> DEFINE answer == Answer(player, action)
           spent == spend(Policy, stock[player], Cost(action))
<1>1. CASE player \notin PlayerId
  <2>1. answer = Outcome(player, action, "understock", 0, {})
    BY <1>1 DEF Answer
  <2> QED
    BY <1>1, <2>1 DEF Outcome, Charge
<1>2. CASE player \in PlayerId /\ action.kind = "catch"
  <2>1. answer = Outcome(player, action, "success", 0, {})
    BY <1>2 DEF Answer
  <2> QED
    BY <1>2, <2>1 DEF Outcome, Charge
<1>3. CASE player \in PlayerId /\ action.kind # "catch"
  <2>1. action \in Effort
    BY <1>3, SimulationAssumption DEF Effort
  <2>2. stock[player] \in Energy /\ Cost(action) \in Energy /\ Policy \in InventoryPolicy
    BY <1>3, <2>1, CostFair, SimulationAssumption
  <2>3. /\ answer.player = player /\ answer.action = action
        /\ answer.result = spent.result /\ answer.paid = stock[player] - spent.stock
    BY <1>3 DEF Answer, Outcome, act
  <2>4. \/ /\ spent.result = "success" /\ spent.stock = stock[player] - Cost(action)
           /\ spent.stock \in Policy.minimum..stock[player]
        \/ spent.result = "understock" /\ spent.stock = stock[player]
    BY <2>2, Spent
  <2>5. spent.result = "success" <=> Cost(action) <= stock[player] - Policy.minimum
    BY DEF spend
  <2>6. Cost(action) \in Int /\ stock[player] \in Int
    BY <2>2 DEF Energy
  <2> HIDE DEF answer, spent
  <2>7. Charge(answer, player) = answer.paid
    BY <1>3, <2>3, <2>4, <2>6 DEF Charge
  <2>8. \A p : p # player => Charge(answer, p) = 0
    BY <2>3 DEF Charge
  <2> QED
    BY <1>3, <2>3, <2>5, <2>7, <2>8 DEF answer
<1> QED
  BY <1>1, <1>2, <1>3

\* No list is worked off while a game state is made: only one of the two is called.
TurnAlone == turn = None \/ making = None

\* One action more, on a list that was worked off so far.
LEMMA OneMoreWorkedOff ==
  ASSUME TypeInv, ListWorkedOff,
         NEW player \in 0..RosterSize, NEW action \in Action, act_next(player, action)
  PROVE  ListWorkedOff'
<1> DEFINE answer == Answer(player, action)
           done == turn.done
           before == turn.before
           N == Len(done)
           longer == Append(done, answer)
           cost(p) == CostSoFar(done, p)
           more(p) == CostSoFar(longer, p)
           Right(outcome, left) ==
              outcome.result = "success" <=>
                 /\ outcome.player \in PlayerId
                 /\ \/ outcome.action.kind = "catch"
                    \/ Cost(outcome.action) <= left - Policy.minimum
<1>1. /\ turn # None /\ turn \in [before: [PlayerId -> Energy], done: Seq(OutcomeType)]
      /\ stock \in [PlayerId -> Energy]
  BY DEF act_next, TypeInv, TypeOK
<1>2. /\ done \in Seq(OutcomeType) /\ answer \in OutcomeType /\ N \in Nat
      /\ answer.player = player /\ answer.action = action
  BY <1>1, AnswerOf
<1>3. turn'.before = before /\ turn'.done = longer
  BY <1>1 DEF act_next
<1>4. /\ longer \in Seq(OutcomeType) /\ Len(longer) = N + 1 /\ longer[N + 1] = answer
      /\ \A i \in 1..N : longer[i] = done[i]
  BY <1>2
<1>5. \A p : /\ \A n \in 0..N : more(p)[n] = cost(p)[n] /\ cost(p)[n] \in Int
             /\ more(p)[N + 1] = cost(p)[N] + Charge(answer, p)
  BY <1>2, <1>4, CostsExtend
<1>6. /\ \A i \in 1..N : Right(done[i], before[done[i].player] - cost(done[i].player)[i - 1])
      /\ \A p \in PlayerId : stock[p] = before[p] - cost(p)[N]
  BY <1>1 DEF ListWorkedOff
<1>7. stock' = [p \in PlayerId |-> IF p = player THEN stock[p] - answer.paid ELSE stock[p]]
  BY DEF act_next
<1>8. /\ player \in PlayerId => Charge(answer, player) = answer.paid
      /\ \A p : p # player => Charge(answer, p) = 0
  BY <1>1, AnswerCharged
<1>9. Right(answer, stock[player])
  BY <1>1, <1>2, AnswerCharged
<1>10. \A p \in PlayerId : before[p] \in Int
  <2>1. \A e \in Energy : e \in Int
    BY DEF Energy
  <2>2. \A p \in PlayerId : before[p] \in Energy
    BY <1>1
  <2> QED
    BY <2>1, <2>2
<1>11. \A outcome : Charge(outcome, player) \in Int \/ outcome \notin OutcomeType
  BY ChargeInt
<1> HIDE DEF answer, done, before, N, longer, cost, more, Right
<1>12. ASSUME NEW i \in 1..N + 1
       PROVE  Right(longer[i], before[longer[i].player] - more(longer[i].player)[i - 1])
  <2>1. CASE i \in 1..N
    <3>1. i - 1 \in 0..N /\ longer[i] = done[i]
      BY <1>2, <1>4, <2>1
    <3>2. more(done[i].player)[i - 1] = cost(done[i].player)[i - 1]
      BY <1>5, <3>1
    <3> QED
      BY <1>6, <2>1, <3>1, <3>2
  <2>2. CASE i = N + 1
    <3>1. i - 1 = N /\ N \in 0..N /\ longer[i] = answer
      BY <1>2, <1>4, <2>2
    <3>2. CASE player \in PlayerId
      <4>1. before[player] - more(player)[N] = stock[player]
        BY <1>5, <1>6, <3>1, <3>2
      <4> QED
        BY <1>2, <1>9, <3>1, <4>1
    <3>3. CASE player \notin PlayerId
      BY <1>2, <1>9, <3>1, <3>3 DEF Right
    <3> QED
      BY <3>2, <3>3
  <2> QED
    BY <1>2, <2>1, <2>2
<1>13. ASSUME NEW p \in PlayerId
       PROVE  stock'[p] = before[p] - more(p)[N + 1]
  <2>1. stock[p] = before[p] - cost(p)[N] /\ before[p] \in Int /\ cost(p)[N] \in Int
    BY <1>2, <1>5, <1>6, <1>10
  <2>2. more(p)[N + 1] = cost(p)[N] + Charge(answer, p)
    BY <1>5
  <2>3. CASE p = player
    <3>1. stock'[p] = stock[p] - Charge(answer, p) /\ Charge(answer, p) \in Int
      BY <1>2, <1>7, <1>8, <1>11, <2>3
    <3> QED
      BY <2>1, <2>2, <3>1
  <2>4. CASE p # player
    <3>1. stock'[p] = stock[p] /\ Charge(answer, p) = 0
      BY <1>7, <1>8, <2>4
    <3> QED
      BY <2>1, <2>2, <3>1
  <2> QED
    BY <2>3, <2>4
<1> QED
  BY <1>3, <1>4, <1>12, <1>13 DEF ListWorkedOff, Right, more

\* The list step by step.
LEMMA ListKept ==
  TypeInv /\ TurnAlone /\ ListWorkedOff /\ [Next]_vars => TurnAlone' /\ ListWorkedOff'
<1> SUFFICES ASSUME TypeInv, TurnAlone, ListWorkedOff, [Next]_vars
             PROVE  TurnAlone' /\ ListWorkedOff'
  OBVIOUS
<1>1. CASE EngineStep \/ UNCHANGED vars
  <2>1. UNCHANGED <<turn, stock, making>>
    BY <1>1 DEF EngineStep, register_physics, release, register_inventory, vars, staminaVars
  <2> QED
    BY <2>1 DEF TurnAlone, ListWorkedOff
<1>2. CASE begin_game \/ make_body \/ make_body_fails
  <2>1. UNCHANGED <<turn, stock>>
    BY <1>2 DEF begin_game, make_body, make_body_fails, staminaVars
  <2>2. turn = None
    BY <1>2 DEF begin_game, make_body, make_body_fails, TurnAlone
  <2> QED
    BY <2>1, <2>2 DEF TurnAlone, ListWorkedOff
<1>3. CASE reset_game \/ end_game
  <2>1. turn' = None
    BY <1>3 DEF reset_game, end_game, TurnAlone
  <2> QED
    BY <2>1 DEF TurnAlone, ListWorkedOff
<1>4. CASE act_begin
  <2>1. /\ turn'.before = stock /\ turn'.done = << >> /\ stock' = stock
        /\ making' = making /\ making = None
    BY <1>4 DEF act_begin, Idle
  <2>2. << >> \in Seq(OutcomeType) /\ Len(<< >>) = 0
    OBVIOUS
  <2>3. \A p : CostSoFar(<< >>, p)[0] = 0
    BY <2>2, CostsOf
  <2>4. \A p \in PlayerId : stock[p] = stock[p] - 0
    <3>1. \A e \in Energy : e = e - 0
      BY DEF Energy
    <3>2. \A p \in PlayerId : stock[p] \in Energy
      BY DEF TypeInv, TypeOK
    <3> QED
      BY <3>1, <3>2
  <2> QED
    BY <2>1, <2>2, <2>3, <2>4 DEF TurnAlone, ListWorkedOff
<1>5. CASE act_end \/ \E amount \in [PlayerId -> Amount] : accrue_all(amount)
  <2>1. turn' = None
    BY <1>5 DEF act_end, accrue_all, Idle
  <2> QED
    BY <2>1 DEF TurnAlone, ListWorkedOff
<1>6. ASSUME NEW player \in 0..RosterSize, NEW action \in Action, act_next(player, action)
      PROVE  TurnAlone' /\ ListWorkedOff'
  <2>1. making' = None
    BY <1>6 DEF act_next, TurnAlone
  <2> QED
    BY <1>6, <2>1, OneMoreWorkedOff DEF TurnAlone
<1> QED
  BY Steps, <1>1, <1>2, <1>3, <1>4, <1>5, <1>6 DEF GameStep, StaminaStep

\* A list of any length is worked off to its end, every action judged by what its own
\* player has left (the loop of common/action.cxx's act).
THEOREM ListIsWorkedOff == Spec => []ListWorkedOff
<1>1. Init => TurnAlone /\ ListWorkedOff
  BY DEF Init, TurnAlone, ListWorkedOff
<1> QED
  BY <1>1, ListKept, TypeInvariance, PTL DEF Spec
=============================================================================
