-------------------------- MODULE EnrollmentProofs --------------------------
(***************************************************************************)
(* The invariants of one server::enrollment and the roster it finalises    *)
(* to, proved for any number of clients, team names and uniforms.          *)
(***************************************************************************)
EXTENDS Enrollment, RosterProofs

\* The inductive invariant: the enrollment is sound, and a roster is what it
\* finalised to less the clients that have left.
IInv ==
    /\ Sound(enrollment)
    /\ roster # None => RosterOf(roster, enrollment)

\* A new enrollment satisfies the inductive invariant.
LEMMA InitIInv == Init => IInv
BY EmptySound DEF Init, IInv

\* Every call on the enrollment or the roster preserves the inductive invariant.
LEMMA NextIInv == IInv /\ [Next]_vars => IInv'
<1> SUFFICES ASSUME IInv, [Next]_vars PROVE IInv'
  OBVIOUS
<1>1. ASSUME NEW c \in Client, NEW q \in Requests, Register(c, q)
      PROVE  IInv'
  <2>1. q \in Request
    BY EnrollmentAssumption
  <2> QED
    BY <1>1, <2>1, RegisterSound DEF IInv, Register
<1>2. ASSUME NEW c \in Client, Deregister(c)
      PROVE  IInv'
  BY <1>2, DeregisterSound DEF IInv, Deregister
<1>3. CASE Finalise
  <2>1. CASE is_full(enrollment)
    BY <1>3, <2>1, FinaliseRosterOf DEF IInv, Finalise
  <2>2. CASE ~is_full(enrollment)
    <3>1. roster' = None
      BY <1>3, <2>2 DEF Finalise, finalise
    <3> QED
      BY <1>3, <3>1 DEF IInv, Finalise
  <2> QED
    BY <2>1, <2>2
<1>4. ASSUME NEW c \in Client, DeregisterPlayer(c)
      PROVE  IInv'
  BY <1>4, DeregisterRosterOf DEF IInv, DeregisterPlayer
<1>5. CASE UNCHANGED vars
  BY <1>5 DEF IInv, vars
<1> QED
  BY <1>1, <1>2, <1>3, <1>4, <1>5 DEF Next

\* The enrollment stays sound and the roster stays one of its occupants, through
\* every sequence of calls (server/roster.cxx).
THEOREM Invariance == Spec => []IInv
BY InitIInv, NextIInv, PTL DEF Spec

-----------------------------------------------------------------------------

\* Both objects keep their types.
THEOREM TypeCorrect == Spec => []TypeOK
<1>1. IInv => TypeOK
  BY DEF IInv, TypeOK, Sound, RosterOf
<1> QED
  BY <1>1, Invariance, PTL

\* However many names clients ask for, two teams exist at most, and no team ever has
\* two goalkeepers (register_client).
THEOREM TeamsStayByTheRules == Spec => []TeamsByTheRules
<1>1. IInv => TeamsByTheRules
  BY DEF IInv, TeamsByTheRules, Sound
<1> QED
  BY <1>1, Invariance, PTL

\* client_player_map_ points at slots its client holds (register_client and
\* deregister_client).
THEOREM RegisteredClientsHoldSlots == Spec => []RegisteredHoldSlot
<1>1. IInv => RegisteredHoldSlot
  BY DEF IInv, RegisteredHoldSlot, Sound
<1> QED
  BY <1>1, Invariance, PTL

\* What a roster says of an identifier, in terms of the slot it names.
LEMMA PlaceOnRoster ==
  ASSUME IInv, roster # None, NEW id \in PlayerId
  PROVE  /\ PlaceOf(id) \in Slot
         /\ enrollment.slot[PlaceOf(id)] = EntryAt(enrollment, id)
         /\ EntryAt(enrollment, id) \in Entry
         /\ EntryAt(enrollment, id) # None
         /\ roster.players[id] \in {EntryAt(enrollment, id).id, None}
<1>1. /\ Sound(enrollment) /\ is_full(enrollment)
      /\ roster.teams = SideTeam(enrollment)
      /\ roster.players[id] \in {EntryAt(enrollment, id).id, None}
  BY DEF IInv, RosterOf
<1>2. EntryAt(enrollment, id) \in Entry /\ EntryAt(enrollment, id) # None
  BY <1>1, FullEntries, RosterAssumption
<1>3. PlaceOf(id) \in Slot
  BY <1>1, IdOfUniform, FullEntries DEF PlaceOf, Slot, Sound, EnrollmentType
<1> QED
  BY <1>1, <1>2, <1>3, EntryAtPlace DEF PlaceOf

\* The roster lists clients under the uniform and side that id_to_uniform tells
\* them (finalise and the conversions of common/entity.hpp).
THEOREM RosterIsOfSlots == Spec => []RosterMatchesSlots
<1>1. IInv => RosterMatchesSlots
  BY PlaceOnRoster DEF RosterMatchesSlots
<1> QED
  BY <1>1, Invariance, PTL

\* goalies_ holds only clients that registered as goalkeepers and have not left
\* (finalise and roster::deregister_client).
THEOREM GoalkeepersStay == Spec => []GoalkeepersAreGoalkeepers
<1>1. ASSUME IInv, roster # None, NEW id \in PlayerId, is_goalkeeper(roster, id)
      PROVE  /\ roster.players[id] # None
             /\ enrollment.slot[PlaceOf(id)] =
                    [id |-> roster.players[id], ptype |-> "goalKeeper"]
  <2>1. roster.players[id] # None /\ IsGoalkeeper(EntryAt(enrollment, id))
    BY <1>1 DEF IInv, RosterOf
  <2> QED
    BY <1>1, <2>1, PlaceOnRoster DEF Entry, IsGoalkeeper
<1>2. IInv => GoalkeepersAreGoalkeepers
  BY <1>1 DEF GoalkeepersAreGoalkeepers
<1> QED
  BY <1>2, Invariance, PTL

-----------------------------------------------------------------------------

\* What a call does to the slots and to client_player_map_.
LEMMA RegisterSlots ==
  ASSUME NEW c \in Client, NEW q \in Request, Sound(enrollment),
         enrollment' = register_client(enrollment, c, q),
         enrollment' # enrollment
  PROVE  /\ SlotOf(q) \in Slot /\ enrollment.slot[SlotOf(q)] = None
         /\ enrollment'.slot =
                [enrollment.slot EXCEPT ![SlotOf(q)] = [id |-> c, ptype |-> q.ptype]]
         /\ enrollment'.player = Emplace(enrollment.player, c, SlotOf(q))
<1>1. register_result(enrollment, q) = "success" /\ enrollment' = enrol(enrollment, c, q)
  BY DEF register_client
<1>2. ~UniformTaken(enrollment, q)
  BY <1>1, RegisterSuccess
<1>3. enrollment'.player = Emplace(enrollment.player, c, SlotOf(q))
  BY <1>1 DEF enrol
<1> QED
  BY <1>1, <1>2, <1>3, EnrolSlots DEF UniformTaken, Sound

\* Deregistering vacates the slot on record, and no other.
LEMMA DeregisterSlots ==
  ASSUME NEW c \in Client, Sound(enrollment),
         enrollment' = deregister_client(enrollment, c),
         enrollment' # enrollment
  PROVE  /\ enrollment.player[c] \in Slot
         /\ enrollment.slot[enrollment.player[c]].id = c
         /\ enrollment'.slot = [enrollment.slot EXCEPT ![enrollment.player[c]] = None]
         /\ enrollment'.player = [enrollment.player EXCEPT ![c] = None]
<1>1. is_registered(enrollment, c)
  BY DEF deregister_client
<1>2. /\ enrollment \in [opened: SUBSET Team, slot: [Slot -> Entry \cup {None}],
                         player: [Client -> Slot \cup {None}]]
      /\ enrollment.player[c] \in Slot
      /\ enrollment.slot[enrollment.player[c]].id = c
  BY <1>1 DEF Sound, EnrollmentType, is_registered
<1>3. enrollment' =
        [opened |-> enrollment.opened,
         slot |-> [enrollment.slot EXCEPT ![enrollment.player[c]] = None],
         player |-> [enrollment.player EXCEPT ![c] = None]]
  BY <1>1, <1>2 DEF deregister_client
<1> QED
  BY <1>2, <1>3

\* A slot is vacated only by its occupant leaving (deregister_client), and never
\* taken over (register_client).
THEOREM OccupantsVacate == Spec => OnlyOccupantVacates
<1> DEFINE Step ==
      \A s \in Slot :
          enrollment.slot[s] # None /\ enrollment'.slot[s] # enrollment.slot[s]
          => /\ enrollment'.slot[s] = None
             /\ enrollment.player[enrollment.slot[s].id] = s
             /\ ~is_registered(enrollment', enrollment.slot[s].id)
<1>1. ASSUME IInv, [Next]_vars, NEW s \in Slot,
             enrollment.slot[s] # None, enrollment'.slot[s] # enrollment.slot[s]
      PROVE  /\ enrollment'.slot[s] = None
             /\ enrollment.player[enrollment.slot[s].id] = s
             /\ ~is_registered(enrollment', enrollment.slot[s].id)
  <2>1. /\ enrollment' # enrollment /\ Sound(enrollment)
        /\ enrollment.slot \in [Slot -> Entry \cup {None}]
        /\ enrollment.player \in [Client -> Slot \cup {None}]
    BY <1>1 DEF IInv, Sound, EnrollmentType
  <2>2. ASSUME NEW c \in Client, NEW q \in Requests, Register(c, q)
        PROVE  FALSE
    <3>1. q \in Request /\ enrollment' = register_client(enrollment, c, q)
      BY <2>2, EnrollmentAssumption DEF Register
    <3> QED
      BY <1>1, <2>1, <3>1, RegisterSlots
  <2>3. ASSUME NEW c \in Client, Deregister(c)
        PROVE  /\ enrollment'.slot[s] = None
               /\ enrollment.player[enrollment.slot[s].id] = s
               /\ ~is_registered(enrollment', enrollment.slot[s].id)
    <3>1. /\ enrollment.slot[enrollment.player[c]].id = c
          /\ enrollment'.slot = [enrollment.slot EXCEPT ![enrollment.player[c]] = None]
          /\ enrollment'.player = [enrollment.player EXCEPT ![c] = None]
      BY <2>1, <2>3, DeregisterSlots DEF Deregister
    <3>2. s = enrollment.player[c]
      BY <1>1, <2>1, <3>1
    <3> QED
      BY <2>1, <3>1, <3>2 DEF is_registered
  <2> QED
    BY <1>1, <2>1, <2>2, <2>3 DEF Next, vars, Finalise, DeregisterPlayer
<1>2. IInv /\ [Next]_vars => [Step]_vars
  BY <1>1
<1> QED
  BY <1>2, Invariance, PTL DEF Spec, OnlyOccupantVacates

-----------------------------------------------------------------------------

\* A client that asks for one slot at a time can leave it, whatever the others do
\* (client_player_map_ and enrollment_ of class enrollment agree both ways).
THEOREM OccupantsRegistered == Spec => []OccupantRegistered
<1>1. Init => OccupantRegistered
  BY DEF Init, EmptyEnrollment, OccupantRegistered
<1>2. IInv /\ OccupantRegistered /\ [Next]_vars => OccupantRegistered'
  <2> SUFFICES ASSUME IInv, OccupantRegistered, [Next]_vars,
                      NEW s \in Slot, enrollment'.slot[s] # None,
                      enrollment'.slot[s].id \in Patient
               PROVE  enrollment'.player[enrollment'.slot[s].id] = s
    BY DEF OccupantRegistered
  <2>1. /\ Sound(enrollment)
        /\ enrollment.slot \in [Slot -> Entry \cup {None}]
        /\ enrollment.player \in [Client -> Slot \cup {None}]
        /\ \A t \in Slot : enrollment.slot[t] # None =>
              /\ enrollment.slot[t].id \in Client
              /\ enrollment.slot[t].id \in Patient => enrollment.player[enrollment.slot[t].id] = t
    BY DEF IInv, Sound, EnrollmentType, Entry, OccupantRegistered
  <2>2. CASE enrollment' = enrollment
    BY <2>1, <2>2
  <2>3. ASSUME NEW c \in Client, NEW q \in Requests, Register(c, q),
               enrollment' # enrollment
        PROVE  enrollment'.player[enrollment'.slot[s].id] = s
    <3>1. q \in Request /\ enrollment' = register_client(enrollment, c, q)
      BY <2>3, EnrollmentAssumption DEF Register
    <3>2. /\ SlotOf(q) \in Slot
          /\ enrollment'.slot =
                [enrollment.slot EXCEPT ![SlotOf(q)] = [id |-> c, ptype |-> q.ptype]]
          /\ enrollment'.player = Emplace(enrollment.player, c, SlotOf(q))
      BY <2>1, <2>3, <3>1, RegisterSlots
    <3>3. CASE enrollment'.slot[s].id = c
      <4>1. \A t \in Slot : enrollment.slot[t] # None => enrollment.slot[t].id # c
        BY <2>3, <3>3 DEF Register, HoldsSlot
      <4>2. enrollment.player[c] = None
        BY <2>1, <4>1 DEF Sound, is_registered
      <4>3. enrollment'.player = [enrollment.player EXCEPT ![c] = SlotOf(q)]
        BY <3>2, <4>2 DEF Emplace
      <4> QED
        BY <2>1, <3>2, <3>3, <4>1, <4>3
    <3>4. CASE enrollment'.slot[s].id # c
      <4>1. s # SlotOf(q) /\ enrollment'.slot[s] = enrollment.slot[s]
        BY <2>1, <3>2, <3>4
      <4> QED
        BY <2>1, <3>2, <3>4, <4>1 DEF Emplace
    <3> QED
      BY <3>3, <3>4
  <2>4. ASSUME NEW c \in Client, Deregister(c), enrollment' # enrollment
        PROVE  enrollment'.player[enrollment'.slot[s].id] = s
    <3>1. /\ enrollment'.slot = [enrollment.slot EXCEPT ![enrollment.player[c]] = None]
          /\ enrollment'.player = [enrollment.player EXCEPT ![c] = None]
      BY <2>1, <2>4, DeregisterSlots DEF Deregister
    <3>2. s # enrollment.player[c] /\ enrollment'.slot[s] = enrollment.slot[s]
      BY <2>1, <3>1
    <3>3. enrollment.slot[s].id # c
      BY <2>1, <3>2
    <3> QED
      BY <2>1, <3>1, <3>2, <3>3
  <2> QED
    BY <2>2, <2>3, <2>4 DEF Next, vars, Finalise, DeregisterPlayer
<1> QED
  BY <1>1, <1>2, Invariance, PTL DEF Spec

\* Such a client is on the roster once (finalise), and roster::deregister_client,
\* which stops at the first match, removes a client for good.
THEOREM PlayersListedOnce == Spec => []ListedOnce
<1>1. ASSUME IInv, OccupantRegistered, roster # None,
             NEW i \in PlayerId, NEW j \in PlayerId,
             roster.players[i] = roster.players[j], roster.players[i] \in Patient
      PROVE  i = j
  <2>1. /\ EntryAt(enrollment, i).id = EntryAt(enrollment, j).id
        /\ EntryAt(enrollment, i).id \in Patient
    BY <1>1, PlaceOnRoster, EnrollmentAssumption, RosterAssumption
  <2>2. PlaceOf(i) = PlaceOf(j)
    <3>1. /\ enrollment.player[EntryAt(enrollment, i).id] = PlaceOf(i)
          /\ enrollment.player[EntryAt(enrollment, j).id] = PlaceOf(j)
      BY <1>1, <2>1, PlaceOnRoster DEF OccupantRegistered
    <3> QED
      BY <2>1, <3>1
  <2>3. roster.teams["alpha"] # roster.teams["beta"]
    BY <1>1, FullEntries DEF IInv, RosterOf
  <2>4. /\ id_to_uniform(i).side \in Side /\ id_to_uniform(j).side \in Side
        /\ uniform_to_id(id_to_uniform(i).uniform, id_to_uniform(i).side) = i
        /\ uniform_to_id(id_to_uniform(j).uniform, id_to_uniform(j).side) = j
    BY IdOfUniform
  <2>5. /\ id_to_uniform(i).uniform = id_to_uniform(j).uniform
        /\ id_to_uniform(i).side = id_to_uniform(j).side
    BY <2>2, <2>3, <2>4 DEF PlaceOf, Side
  <2> QED
    BY <2>4, <2>5
<1>2. IInv /\ OccupantRegistered => ListedOnce
  BY <1>1 DEF ListedOnce
<1> QED
  BY <1>2, Invariance, OccupantsRegistered, PTL
=============================================================================
