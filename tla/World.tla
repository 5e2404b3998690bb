------------------------------- MODULE World -------------------------------
(***************************************************************************)
(* The simulated world of a program, which roster_finalised (server and    *)
(* referee) and registration_succeeded (client) create: the keys its       *)
(* entities get from the entity table, the filters of their fixtures, and  *)
(* which fixtures Box2D lets touch.  Shapes, positions and forces are left *)
(* out.  The programs create one world each today; the module lets a       *)
(* database serve one match after another.                                 *)
(*                                                                         *)
(* Box2D's b2ContactFilter decides by the group of two fixtures when it is *)
(* the same and not zero, and by their masks otherwise.  The group carries *)
(* the identifier of the entity a fixture belongs to, in 16 bits.          *)
(***************************************************************************)
EXTENDS Integers

CONSTANTS
    RosterSize,  \* MAX_ROSTER_SIZE, the players of both teams
    None

\* A player_id is 8 bits wide, and the last of its values is no_player.
ASSUME WorldAssumption ==
    /\ RosterSize \in 1..255
    /\ None \notin Int

\* The greatest key_16, which auto_emplace never uses.
KeyMax == 65535

VARIABLES
    physics,   \* whether the engine is registered
    auto_key,  \* auto_key_ of the entity registry: the keys below it are taken
    world,     \* the key its first entity got, or None
    halted     \* an exception has ended the program

vars == <<physics, auto_key, world, halted>>

-----------------------------------------------------------------------------

PlayerId == 0..(RosterSize - 1)

\* The kinds of the six bodies of a field, in the order of its constructor.
FieldPart == <<"goal", "goal", "circle", "boundary", "penalty", "penalty">>

Ball == [kind |-> "ball", number |-> 0]
Player(id) == [kind |-> "player", number |-> id]
Players == {Player(id) : id \in PlayerId}
Field == {[kind |-> FieldPart[i], number |-> i] : i \in 1..6}
Entity == {Ball} \cup Players \cup Field

\* A game state has its ball first, then a torso, a head and a foot for each player,
\* then its field.
Inserted == 1 + 3 * RosterSize + 6

\* Faulty variant: the field before the rest of the simulation.
Tag_fieldFirst(entity, first) ==
    CASE entity = Ball -> first + 6
      [] entity \in Players -> entity.number
      [] OTHER -> first + entity.number - 1

\* The entity_id that an entity gives its fixtures: the key it was inserted under,
\* but for players, who give their player_id instead.
Tag(entity, first) ==
    CASE entity = Ball -> first
      [] entity \in Players -> entity.number
      [] OTHER -> first + 3 * RosterSize + entity.number

-----------------------------------------------------------------------------

Category == {"ball", "goal_post", "goal_net", "ball_sensor", "player_body",
             "player_sensor", "marker_sensor"}

\* The categories of an entity's fixtures.
CategoriesOf(entity) ==
    CASE entity.kind = "ball" -> {"ball"}
      [] entity.kind = "player" -> {"player_body", "player_sensor"}
      [] entity.kind = "goal" -> {"goal_net", "goal_post", "ball_sensor"}
      [] entity.kind = "boundary" -> {"marker_sensor", "ball_sensor"}
      [] entity.kind \in {"circle", "penalty"} -> {"marker_sensor"}

Fixture == {f \in [entity: Entity, category: Category] : f.category \in CategoriesOf(f.entity)}

\* The contact_config of the fixtures of a category.
Mask(category) ==
    CASE category \in {"ball", "goal_net", "goal_post"} -> Category
      [] category = "ball_sensor" -> {"ball"}
      [] category = "player_body" -> Category \ {"ball_sensor", "marker_sensor"}
      [] category = "player_sensor" -> Category \ {"player_sensor", "ball_sensor"}
      [] category = "marker_sensor" -> {"player_sensor"}

MasksAgree(c, d) == c \in Mask(d) /\ d \in Mask(c)

\* Assignment to groupIndex, which is 16 bits wide and signed.
ToInt16(n) == ((n + 32768) % 65536) - 32768

\* Faulty variant: without group_index_offset.
Group_noOffset(entity_id) == ToInt16(-entity_id)

\* The group of a fixture: every contact_config passes over fixtures of its entity.
Group(entity_id) == ToInt16(-(entity_id + 1))

\* b2ContactFilter::ShouldCollide.
ShouldCollide(f, g, first) ==
    LET group == Group(Tag(f.entity, first))
    IN  IF group = Group(Tag(g.entity, first)) /\ group # 0
        THEN group > 0
        ELSE MasksAgree(f.category, g.category)

-----------------------------------------------------------------------------

Init == physics = FALSE /\ auto_key = 0 /\ world = None /\ halted = FALSE

\* The constructors of class server and class client call it, referee/main.cxx does not.
register_system ==
    /\ ~physics /\ ~halted
    /\ physics' = TRUE
    /\ UNCHANGED <<auto_key, world, halted>>

\* Faulty variant: an insertion at the limit goes through.
new_game_state_unlimited ==
    /\ ~halted /\ physics
    /\ auto_key' = auto_key + Inserted
    /\ world' = auto_key
    /\ halted' = (auto_key' > KeyMax + Inserted)
    /\ UNCHANGED physics

\* server_game_state and client_game_state: the new world is complete before reset()
\* destroys the old one, and takes keys that were never used; auto_emplace throws
\* when it has none left.
new_game_state ==
    /\ ~halted /\ physics
    /\ IF auto_key + Inserted <= KeyMax
       THEN auto_key' = auto_key + Inserted /\ world' = auto_key /\ UNCHANGED halted
       ELSE auto_key' = KeyMax /\ halted' = TRUE /\ UNCHANGED world
    /\ UNCHANGED physics

\* The ball, which comes first, finds no engine: update_physics_instance throws.
new_game_state_no_engine ==
    /\ ~halted /\ ~physics
    /\ halted' = TRUE
    /\ UNCHANGED <<physics, auto_key, world>>

Next == register_system \/ new_game_state \/ new_game_state_no_engine

Spec == Init /\ [][Next]_vars

-----------------------------------------------------------------------------

\* The types of the variables; the keys of a world are among those taken.
TypeOK ==
    /\ physics \in BOOLEAN /\ halted \in BOOLEAN
    /\ auto_key \in 0..KeyMax
    /\ world \in (0..(KeyMax - Inserted)) \cup {None}
    /\ world # None => world + Inserted <= auto_key

\* The torso, the head, the foot and the vision of a player never touch each other,
\* in any world that a long session creates (make_fixture_def gives them one
\* group, which must be negative for that).
OwnPartsPass ==
    world # None =>
        \A f, g \in Fixture :
            f.entity \in Players /\ f.entity = g.entity => ~ShouldCollide(f, g, world)

Solid == {"ball", "goal_post", "goal_net", "player_body"}

\* What may touch what: solid things each other; the ball, the sensors that watch for
\* it; players see whatever is solid, and markers.
Meant(c, d) ==
    \/ {c, d} \subseteq Solid
    \/ {c, d} = {"ball", "ball_sensor"}
    \/ \E e \in Solid \cup {"marker_sensor"} : {c, d} = {"player_sensor", e}

\* Players are known by their player_id, everything else by its key, and the two
\* overlap: the first ball of all has the key 0, the identifier of the first player.
Confused(e, f, first) == first = 0 /\ {e, f} = {Ball, Player(0)}

\* Fixtures of two entities touch as they are meant to in every world, up to the
\* last key, except the first ball and the first player.
ContactsAsMeant ==
    world # None =>
        \A f, g \in Fixture :
            f.entity # g.entity /\ ~Confused(f.entity, g.entity, world)
            => (ShouldCollide(f, g, world) <=> Meant(f.category, g.category))

\* Every player can touch the ball: passing over is asked for "from same entity"
\* only (contact_config in engine/physics.hpp).
BallMeetsPlayers ==
    world # None =>
        \A f, g \in Fixture :
            f.category = "ball" /\ g.category = "player_body" => ShouldCollide(f, g, world)
=============================================================================
