---------------------------- MODULE WorldProofs ----------------------------
(***************************************************************************)
(* What may touch what in the simulated world, proved for any number of    *)
(* players that a player_id can tell apart and for every key the world's   *)
(* entities may get.                                                       *)
(***************************************************************************)
EXTENDS World, TLAPS

\* The inductive invariant: besides the types, no world but the first has keys among
\* the identifiers of players.
IInv ==
    /\ TypeOK
    /\ auto_key = 0 \/ Inserted <= auto_key
    /\ world # None => world = 0 \/ Inserted <= world

\* There are keys enough for a world, and 16 bits hold them: the two facts about KeyMax
\* that what follows rests on.
LEMMA Keys == KeyMax \in Nat /\ 1000 < KeyMax /\ KeyMax < 65536
BY DEF KeyMax

\* A new database satisfies the inductive invariant.
LEMMA InitIInv == Init => IInv
<1> SUFFICES ASSUME Init PROVE IInv
  OBVIOUS
<1>1. auto_key = 0 /\ world = None /\ physics \in BOOLEAN /\ halted \in BOOLEAN
  BY DEF Init
<1>2. 0 \in 0..KeyMax
  BY Keys
<1> QED
  BY <1>1, <1>2 DEF IInv, TypeOK

\* So does every step of the program.
LEMMA NextIInv == IInv /\ [Next]_vars => IInv'
<1> SUFFICES ASSUME IInv, [Next]_vars PROVE IInv'
  OBVIOUS
<1> USE WorldAssumption, Keys DEF IInv, TypeOK, Inserted
<1>1. CASE register_system
  BY <1>1 DEF register_system
<1>2. CASE new_game_state
  <2>1. CASE auto_key + Inserted <= KeyMax
    BY <1>2, <2>1 DEF new_game_state
  <2>2. CASE ~(auto_key + Inserted <= KeyMax)
    BY <1>2, <2>2 DEF new_game_state
  <2> QED
    BY <2>1, <2>2
<1>3. CASE new_game_state_no_engine
  BY <1>3 DEF new_game_state_no_engine
<1>4. CASE UNCHANGED vars
  <2>1. physics' = physics /\ auto_key' = auto_key /\ world' = world /\ halted' = halted
    BY <1>4 DEF vars
  <2>2. physics' \in BOOLEAN /\ halted' \in BOOLEAN
    BY <2>1
  <2> QED
    BY <2>1, <2>2
<1> QED
  BY <1>1, <1>2, <1>3, <1>4 DEF Next

\* Worlds take keys that were never used, below the limit of the entity table
\* (auto_emplace).
THEOREM Invariance == Spec => []IInv
BY InitIInv, NextIInv, PTL DEF Spec

\* The variables keep their types.
THEOREM TypeCorrect == Spec => []TypeOK
BY Invariance, PTL DEF IInv

-----------------------------------------------------------------------------

\* Groups tell apart all identifiers that the entity table gives, and none is the
\* zero that Box2D takes for no group (make_fixture_def).
LEMMA GroupsDiffer ==
  ASSUME NEW i \in 0..(KeyMax - 1), NEW j \in 0..(KeyMax - 1)
  PROVE  /\ Group(i) # 0
         /\ Group(i) = Group(j) => i = j
<1>1. ASSUME NEW n \in 0..(KeyMax - 1)
      PROVE  Group(n) = IF n <= 32767 THEN -(n + 1) ELSE 65535 - n
  <2>1. CASE n <= 32767
    <3>1. (32767 - n) % 65536 = 32767 - n
      BY <2>1, Keys
    <3> QED
      BY <2>1, <3>1, Keys DEF Group, ToInt16
  <2>2. CASE 32767 < n
    <3>1. (32767 - n) % 65536 = 32767 - n + 65536
      BY <2>2, Keys
    <3> QED
      BY <2>2, <3>1, Keys DEF Group, ToInt16
  <2> QED
    BY <2>1, <2>2, Keys
<1>2. Group(i) = IF i <= 32767 THEN -(i + 1) ELSE 65535 - i
  BY <1>1
<1>3. Group(j) = IF j <= 32767 THEN -(j + 1) ELSE 65535 - j
  BY <1>1
<1> QED
  BY <1>2, <1>3, Keys

\* The identifiers of players give negative groups.
LEMMA PlayersNegative ==
  ASSUME NEW id \in PlayerId
  PROVE  Group(id) < 0
BY WorldAssumption DEF PlayerId, Group, ToInt16

\* The masks of the fixtures say what is meant.
LEMMA MasksMeant ==
  ASSUME NEW c \in Category, NEW d \in Category
  PROVE  MasksAgree(c, d) <=> Meant(c, d)
BY DEF MasksAgree, Meant, Mask, Category, Solid

\* The entities of a world, by what they give their fixtures for an identifier.
LEMMA EntityTag ==
  ASSUME NEW first \in 0..(KeyMax - Inserted), NEW e \in Entity
  PROVE  \/ e = Ball /\ e.kind = "ball" /\ Tag(e, first) = first
         \/ /\ e.kind = "player" /\ e.number \in PlayerId /\ e = Player(e.number)
            /\ Tag(e, first) = e.number
         \/ /\ e.kind \notin {"ball", "player"} /\ e.number \in 1..6
            /\ e = [kind |-> FieldPart[e.number], number |-> e.number]
            /\ Tag(e, first) = first + 3 * RosterSize + e.number
<1>1. CASE e = Ball
  <2>1. e.kind = "ball"
    BY <1>1 DEF Ball
  <2>2. e \notin Players
    BY <2>1 DEF Players, Player
  <2> QED
    BY <1>1, <2>1, <2>2 DEF Tag
<1>2. CASE e \in Players
  <2>1. PICK id \in PlayerId : e = Player(id)
    BY <1>2 DEF Players
  <2>2. e.kind = "player" /\ e.number = id
    BY <2>1 DEF Player
  <2>3. e # Ball
    BY <2>2 DEF Ball
  <2> QED
    BY <1>2, <2>1, <2>2, <2>3 DEF Tag
<1>3. CASE e \in Field
  <2>1. PICK i \in 1..6 : e = [kind |-> FieldPart[i], number |-> i]
    BY <1>3 DEF Field
  <2>2. e.number = i /\ e.kind = FieldPart[i] /\ FieldPart[i] \notin {"ball", "player"}
    BY <2>1 DEF FieldPart
  <2>3. e # Ball /\ e \notin Players
    BY <2>2 DEF Ball, Players, Player
  <2> QED
    BY <1>3, <2>1, <2>2, <2>3 DEF Tag
<1> QED
  BY <1>1, <1>2, <1>3 DEF Entity

\* Identifiers are small enough for their groups to differ.
LEMMA TagsInRange ==
  ASSUME NEW first \in 0..(KeyMax - Inserted), NEW e \in Entity
  PROVE  Tag(e, first) \in 0..(KeyMax - 1)
<1> USE WorldAssumption, Keys DEF Inserted, PlayerId
<1>1. CASE e = Ball
  BY <1>1, EntityTag DEF Ball
<1>2. CASE e.kind = "player"
  BY <1>2, EntityTag DEF Ball
<1>3. CASE e.kind \notin {"ball", "player"}
  <2>1. e.number \in 1..6 /\ Tag(e, first) = first + 3 * RosterSize + e.number
    BY <1>3, EntityTag DEF Ball
  <2> QED
    BY <2>1
<1> QED
  BY <1>1, <1>2, <1>3, EntityTag

\* Only the first ball and the first player share an identifier: the keys of a field
\* come after one for each player, and those of later worlds after more.
LEMMA TagsDiffer ==
  ASSUME NEW first \in 0..(KeyMax - Inserted), first = 0 \/ Inserted <= first,
         NEW e \in Entity, NEW f \in Entity, e # f, ~Confused(e, f, first)
  PROVE  Tag(e, first) # Tag(f, first)
<1> USE WorldAssumption DEF Inserted, PlayerId
<1>1. ASSUME NEW g \in Entity, NEW h \in Entity, ~Confused(g, h, first),
             g = Ball, h.kind = "player"
      PROVE  Tag(g, first) # Tag(h, first)
  <2>1. Tag(g, first) = first
    BY <1>1, EntityTag DEF Ball
  <2>2. h.number \in PlayerId /\ h = Player(h.number) /\ Tag(h, first) = h.number
    BY <1>1, EntityTag DEF Ball
  <2>3. first = 0 => h.number # 0
    BY <1>1, <2>2 DEF Confused
  <2> QED
    BY <2>1, <2>2, <2>3
<1>2. ASSUME NEW g \in Entity, NEW h \in Entity, g.kind \notin {"ball", "player"}
      PROVE  Tag(g, first) = Tag(h, first) => g = h
  <2>1. /\ g.number \in 1..6 /\ g = [kind |-> FieldPart[g.number], number |-> g.number]
        /\ Tag(g, first) = first + 3 * RosterSize + g.number
    BY <1>2, EntityTag DEF Ball
  <2>2. CASE h.kind \in {"ball", "player"}
    <3>1. Tag(h, first) = first \/ (h.number \in PlayerId /\ Tag(h, first) = h.number)
      BY <2>2, EntityTag
    <3>2. Tag(h, first) = first => Tag(h, first) # Tag(g, first)
      BY <2>1
    <3>3. h.number \in PlayerId /\ Tag(h, first) = h.number => Tag(h, first) # Tag(g, first)
      BY <2>1
    <3> QED
      BY <3>1, <3>2, <3>3
  <2>3. CASE h.kind \notin {"ball", "player"}
    <3>1. /\ h.number \in 1..6 /\ h = [kind |-> FieldPart[h.number], number |-> h.number]
          /\ Tag(h, first) = first + 3 * RosterSize + h.number
      BY <2>3, EntityTag DEF Ball
    <3> QED
      BY <2>1, <3>1
  <2> QED
    BY <2>2, <2>3
<1>3. ASSUME NEW g \in Entity, NEW h \in Entity, g.kind = "player", h.kind = "player"
      PROVE  Tag(g, first) = Tag(h, first) => g = h
  BY <1>3, EntityTag DEF Ball
<1>4. e = Ball \/ e.kind = "player" \/ e.kind \notin {"ball", "player"}
  BY EntityTag
<1>5. f = Ball \/ f.kind = "player" \/ f.kind \notin {"ball", "player"}
  BY EntityTag
<1>6. ~Confused(f, e, first)
  <2>1. {e, f} = {f, e}
    OBVIOUS
  <2> QED
    BY <2>1 DEF Confused
<1> QED
  BY <1>1, <1>2, <1>3, <1>4, <1>5, <1>6

-----------------------------------------------------------------------------

\* In every world the parts of a player pass over each other: their common group is
\* never zero nor, player_ids being small, positive (make_fixture_def).
THEOREM PlayersPassOverThemselves == Spec => []OwnPartsPass
<1>1. ASSUME IInv, world # None, NEW f \in Fixture, NEW g \in Fixture,
             f.entity \in Players, f.entity = g.entity
      PROVE  ~ShouldCollide(f, g, world)
  <2>1. PICK id \in PlayerId : f.entity = Player(id)
    BY <1>1 DEF Players
  <2>2. Tag(f.entity, world) = id
    BY <1>1, <2>1 DEF Tag, Ball, Player
  <2>3. Group(id) < 0 /\ Group(id) \in Int
    BY PlayersNegative, WorldAssumption DEF PlayerId, Group, ToInt16
  <2> QED
    BY <1>1, <2>2, <2>3 DEF ShouldCollide
<1>2. IInv => OwnPartsPass
  BY <1>1 DEF OwnPartsPass
<1> QED
  BY <1>2, Invariance, PTL

\* In every world fixtures of two entities touch as they are meant to, but for the
\* first ball and the first player (make_fixture_def and the contact_configs).
THEOREM EntitiesTouchAsMeant == Spec => []ContactsAsMeant
<1>1. ASSUME IInv, world # None, NEW f \in Fixture, NEW g \in Fixture,
             f.entity # g.entity, ~Confused(f.entity, g.entity, world)
      PROVE  ShouldCollide(f, g, world) <=> Meant(f.category, g.category)
  <2>1. /\ f.entity \in Entity /\ f.category \in Category
        /\ g.entity \in Entity /\ g.category \in Category
    BY DEF Fixture
  <2>2. world \in 0..(KeyMax - Inserted) /\ (world = 0 \/ Inserted <= world)
    BY <1>1 DEF IInv, TypeOK
  <2>3. Tag(f.entity, world) # Tag(g.entity, world)
    BY <1>1, <2>1, <2>2, TagsDiffer
  <2>4. Group(Tag(f.entity, world)) # Group(Tag(g.entity, world))
    BY <2>1, <2>2, <2>3, TagsInRange, GroupsDiffer
  <2> QED
    BY <2>1, <2>4, MasksMeant DEF ShouldCollide
<1>2. IInv => ContactsAsMeant
  BY <1>1 DEF ContactsAsMeant
<1> QED
  BY <1>2, Invariance, PTL
=============================================================================
