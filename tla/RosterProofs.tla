---------------------------- MODULE RosterProofs ----------------------------
(***************************************************************************)
(* What the member functions of server::enrollment and server::roster      *)
(* preserve and return, for any number of clients, teams and uniforms.     *)
(***************************************************************************)
EXTENDS Roster, FiniteSetTheorems, TLAPS

\* An enrollment that is built by register_client and deregister_client.
Sound(e) ==
    /\ e \in EnrollmentType
    /\ IsFiniteSet(e.opened)
    /\ Cardinality(e.opened) <= MaxClubCount
    /\ \A s \in Slot : e.slot[s] # None => s[1] \in e.opened
    /\ \A t \in Team, u, v \in Uniform :
        IsGoalkeeper(e.slot[<<t, u>>]) /\ IsGoalkeeper(e.slot[<<t, v>>]) => u = v
    /\ \A c \in Client : is_registered(e, c) =>
        e.slot[e.player[c]] # None /\ e.slot[e.player[c]].id = c

-----------------------------------------------------------------------------

\* A sound enrollment is one, and not a null pointer.
LEMMA SoundExists == ASSUME NEW e, Sound(e) PROVE e # None
BY RosterAssumption DEF Sound

\* A new enrollment is sound (the constructor of class enrollment).
LEMMA EmptySound == Sound(EmptyEnrollment)
<1>1. EmptyEnrollment \in EnrollmentType
  BY DEF EmptyEnrollment, EnrollmentType
<1>2. IsFiniteSet({}) /\ Cardinality({}) = 0
  BY FS_EmptySet
<1> QED
  BY <1>1, <1>2, SMT
  DEF Sound, EmptyEnrollment, MaxClubCount, IsGoalkeeper, is_registered, Slot

\* What register_client has found out when it succeeds.
LEMMA RegisterSuccess ==
  ASSUME NEW e, NEW q \in Request, register_result(e, q) = "success"
  PROVE  ~TeamSlotTaken(e, q) /\ ~UniformTaken(e, q) /\ ~GoalieTaken(e, q)
BY DEF register_result

\* A registration that succeeds enters the client where it asked to be, and
\* leaves every other slot as it was.
LEMMA EnrolSlots ==
  ASSUME NEW e \in EnrollmentType, NEW c \in Client, NEW q \in Request,
         ~UniformTaken(e, q)
  PROVE  /\ enrol(e, c, q) \in EnrollmentType
         /\ enrol(e, c, q).slot =
                [e.slot EXCEPT ![SlotOf(q)] = [id |-> c, ptype |-> q.ptype]]
         /\ enrol(e, c, q).opened = e.opened \cup {q.team}
         /\ SlotOf(q) \in Slot
<1>1. SlotOf(q) \in Slot /\ e.slot[SlotOf(q)] = None
  BY DEF SlotOf, Slot, Request, UniformTaken
<1>2. [id |-> c, ptype |-> q.ptype] \in Entry
  BY DEF Entry, Request
<1>3. Emplace(e.player, c, SlotOf(q)) \in [Client -> Slot \cup {None}]
  BY <1>1 DEF Emplace, EnrollmentType
<1>4. Emplace(e.slot, SlotOf(q), [id |-> c, ptype |-> q.ptype]) \in [Slot -> Entry \cup {None}]
  BY <1>1, <1>2 DEF Emplace, EnrollmentType
<1>5. e.opened \cup {q.team} \in SUBSET Team
  BY DEF EnrollmentType, Request
<1> QED
  BY <1>1, <1>3, <1>4, <1>5 DEF enrol, Emplace, EnrollmentType

\* register_client keeps an enrollment sound, whatever is asked.
LEMMA RegisterSound ==
  ASSUME NEW e, Sound(e), NEW c \in Client, NEW q \in Request
  PROVE  Sound(register_client(e, c, q))
<1>1. CASE register_result(e, q) # "success"
  BY <1>1 DEF register_client
<1>2. CASE register_result(e, q) = "success"
  <2> DEFINE r == enrol(e, c, q)
             entry == [id |-> c, ptype |-> q.ptype]
  <2>1. ~TeamSlotTaken(e, q) /\ ~UniformTaken(e, q) /\ ~GoalieTaken(e, q)
    BY <1>2, RegisterSuccess
  <2>2. /\ r \in EnrollmentType
        /\ r.slot = [e.slot EXCEPT ![SlotOf(q)] = entry]
        /\ r.opened = e.opened \cup {q.team}
        /\ SlotOf(q) \in Slot
    BY <2>1, EnrolSlots DEF Sound
  <2>3. e.slot \in [Slot -> Entry \cup {None}] /\ e.player \in [Client -> Slot \cup {None}]
    BY DEF Sound, EnrollmentType
  <2>4. IsFiniteSet(r.opened) /\ Cardinality(r.opened) <= MaxClubCount
    <3>1. /\ IsFiniteSet(e.opened \cup {q.team})
          /\ Cardinality(e.opened \cup {q.team}) =
                IF q.team \in e.opened THEN Cardinality(e.opened)
                ELSE Cardinality(e.opened) + 1
      BY FS_AddElement DEF Sound
    <3>2. Cardinality(e.opened) \in Nat
      BY FS_CardinalityType DEF Sound
    <3> QED
      BY <2>1, <2>2, <3>1, <3>2 DEF Sound, TeamSlotTaken, MaxClubCount
  <2>5. \A s \in Slot : r.slot[s] # None => s[1] \in r.opened
    BY <2>2, <2>3 DEF Sound, SlotOf
  <2>6. ASSUME NEW t \in Team, NEW u \in Uniform, NEW v \in Uniform,
               IsGoalkeeper(r.slot[<<t, u>>]), IsGoalkeeper(r.slot[<<t, v>>])
        PROVE  u = v
    <3> USE DEF IsGoalkeeper
    <3>1. <<t, u>> \in Slot /\ <<t, v>> \in Slot
      BY DEF Slot
    <3>2. CASE <<t, u>> # SlotOf(q) /\ <<t, v>> # SlotOf(q)
      BY <2>2, <2>3, <2>6, <3>1, <3>2 DEF Sound
    <3>3. ASSUME NEW x \in Uniform, NEW y \in Uniform,
                 <<t, x>> = SlotOf(q), <<t, y>> # SlotOf(q),
                 IsGoalkeeper(r.slot[<<t, x>>]), IsGoalkeeper(r.slot[<<t, y>>])
          PROVE  FALSE
      <4>1. q.ptype = "goalKeeper" /\ q.team = t
        BY <2>2, <2>3, <3>3 DEF SlotOf
      <4>2. <<t, y>> \in Slot
        BY DEF Slot
      <4>3. IsGoalkeeper(e.slot[<<t, y>>])
        BY <2>2, <2>3, <3>3, <4>2
      <4> QED
        BY <2>1, <4>1, <4>3 DEF GoalieTaken, HasGoalkeeper
    <3>4. CASE <<t, u>> = SlotOf(q) /\ <<t, v>> = SlotOf(q)
      BY <3>4
    <3> QED
      BY <2>6, <3>2, <3>3, <3>4
  <2>7. ASSUME NEW d \in Client, is_registered(r, d)
        PROVE  r.slot[r.player[d]] # None /\ r.slot[r.player[d]].id = d
    <3>1. r.player = Emplace(e.player, c, SlotOf(q))
      BY DEF enrol
    <3>2. entry # None /\ entry.id = c
      BY RosterAssumption DEF Entry, Request
    <3>3. CASE is_registered(e, d)
      <4>1. r.player[d] = e.player[d] /\ e.player[d] \in Slot
        BY <2>3, <3>1, <3>3 DEF Emplace, is_registered
      <4>2. e.slot[e.player[d]] # None /\ e.slot[e.player[d]].id = d
        BY <3>3 DEF Sound
      <4>3. e.player[d] # SlotOf(q)
        BY <2>1, <4>2 DEF UniformTaken
      <4> QED
        BY <2>2, <2>3, <4>1, <4>2, <4>3
    <3>4. CASE ~is_registered(e, d)
      <4>1. d = c /\ r.player[d] = SlotOf(q)
        BY <2>3, <2>7, <3>1, <3>4 DEF Emplace, is_registered
      <4> QED
        BY <2>2, <2>3, <3>2, <4>1
    <3> QED
      BY <3>3, <3>4
  <2> HIDE DEF r
  <2>8. Sound(r)
    BY <2>2, <2>4, <2>5, <2>6, <2>7 DEF Sound
  <2> QED
    BY <1>2, <2>8 DEF register_client, r
<1> QED
  BY <1>1, <1>2

\* Deregistering a client keeps an enrollment sound.
LEMMA DeregisterSound ==
  ASSUME NEW e, Sound(e), NEW c \in Client
  PROVE  Sound(deregister_client(e, c))
<1>1. CASE ~is_registered(e, c)
  BY <1>1 DEF deregister_client
<1>2. CASE is_registered(e, c)
  <2> DEFINE r == deregister_client(e, c)
             place == e.player[c]
  <2>1. /\ e.slot \in [Slot -> Entry \cup {None}]
        /\ e.player \in [Client -> Slot \cup {None}]
        /\ e.opened \in SUBSET Team
    BY DEF Sound, EnrollmentType
  <2>2. place \in Slot /\ e.slot[place].id = c
    BY <1>2, <2>1 DEF Sound, is_registered
  <2>3. r = [opened |-> e.opened, slot |-> [e.slot EXCEPT ![place] = None],
             player |-> [e.player EXCEPT ![c] = None]]
    BY <1>2 DEF deregister_client, Sound, EnrollmentType
  <2> HIDE DEF r, place
  <2>4. r \in EnrollmentType
    <3>1. [e.slot EXCEPT ![place] = None] \in [Slot -> Entry \cup {None}]
      BY <2>1
    <3>2. [e.player EXCEPT ![c] = None] \in [Client -> Slot \cup {None}]
      BY <2>1
    <3> QED
      BY <2>1, <2>3, <3>1, <3>2 DEF EnrollmentType
  <2>5. \A s \in Slot : r.slot[s] \in {e.slot[s], None}
    BY <2>1, <2>3
  <2>6. \A s \in Slot : r.slot[s] # None => s[1] \in r.opened
    BY <2>3, <2>5 DEF Sound
  <2>7. \A t \in Team, u, v \in Uniform :
          IsGoalkeeper(r.slot[<<t, u>>]) /\ IsGoalkeeper(r.slot[<<t, v>>]) => u = v
    <3>1. \A t \in Team, u \in Uniform :
            IsGoalkeeper(r.slot[<<t, u>>]) => IsGoalkeeper(e.slot[<<t, u>>])
      BY <2>5 DEF IsGoalkeeper, Slot
    <3> QED
      BY <3>1 DEF Sound
  <2>8. ASSUME NEW d \in Client, is_registered(r, d)
        PROVE  r.slot[r.player[d]] # None /\ r.slot[r.player[d]].id = d
    <3>1. d # c /\ r.player[d] = e.player[d] /\ e.player[d] \in Slot
      BY <2>1, <2>3, <2>8 DEF is_registered
    <3>2. e.slot[e.player[d]] # None /\ e.slot[e.player[d]].id = d
      BY <2>8, <3>1 DEF Sound, is_registered
    <3>3. e.player[d] # place
      BY <2>2, <3>1, <3>2
    <3> QED
      BY <2>1, <2>3, <3>1, <3>2, <3>3
  <2>9. Sound(r)
    BY <2>3, <2>4, <2>6, <2>7, <2>8 DEF Sound
  <2> QED
    BY <2>9 DEF r
<1> QED
  BY <1>1, <1>2

-----------------------------------------------------------------------------

\* A set of two team names has a least and a greatest one, and no third.
LEMMA TwoNames ==
  ASSUME NEW S, S \subseteq Team, IsFiniteSet(S), Cardinality(S) = 2
  PROVE  /\ Min(S) \in S /\ Max(S) \in S
         /\ Min(S) # Max(S)
         /\ S = {Min(S), Max(S)}
<1>1. PICK a \in S : TRUE
  BY FS_EmptySet
<1>2. IsFiniteSet(S \ {a}) /\ Cardinality(S \ {a}) = 1
  BY <1>1, FS_RemoveElement
<1>3. PICK b : S \ {a} = {b}
  BY <1>2, FS_Singleton
<1>4. S = {a, b} /\ a # b /\ a \in Nat /\ b \in Nat
  BY <1>1, <1>3, RosterAssumption
<1>5. \E x \in S : \A y \in S : x <= y
  BY <1>4
<1>6. \E x \in S : \A y \in S : x >= y
  BY <1>4
<1>7. Min(S) \in S /\ \A y \in S : Min(S) <= y
  BY <1>5 DEF Min
<1>8. Max(S) \in S /\ \A y \in S : Max(S) >= y
  BY <1>6 DEF Max
<1> QED
  BY <1>4, <1>7, <1>8

\* id_to_uniform undoes uniform_to_id, and the other way round.
LEMMA UniformOfId ==
  ASSUME NEW uniform \in Uniform, NEW side \in Side
  PROVE  /\ uniform_to_id(uniform, side) \in PlayerId
         /\ id_to_uniform(uniform_to_id(uniform, side)) =
                [uniform |-> uniform, side |-> side]
BY RosterAssumption DEF Uniform, Side, PlayerId, MaxClubCount, uniform_to_id, id_to_uniform

\* The converse: the place an identifier stands for has that identifier.
LEMMA IdOfUniform ==
  ASSUME NEW id \in PlayerId
  PROVE  /\ id_to_uniform(id).uniform \in Uniform
         /\ id_to_uniform(id).side \in Side
         /\ uniform_to_id(id_to_uniform(id).uniform, id_to_uniform(id).side) = id
BY RosterAssumption DEF Uniform, Side, PlayerId, MaxClubCount, uniform_to_id, id_to_uniform

\* What finalise() writes at an identifier is the entry id_to_uniform leads to.
LEMMA EntryAtPlace ==
  ASSUME NEW e, NEW id \in PlayerId
  PROVE  EntryAt(e, id) =
            e.slot[<<SideTeam(e)[id_to_uniform(id).side], id_to_uniform(id).uniform>>]
<1> DEFINE place == CHOOSE p \in Uniform \X Side : uniform_to_id(p[1], p[2]) = id
<1>1. \E p \in Uniform \X Side : uniform_to_id(p[1], p[2]) = id
  <2>1. <<id_to_uniform(id).uniform, id_to_uniform(id).side>> \in Uniform \X Side
    BY IdOfUniform
  <2> QED
    BY <2>1, IdOfUniform
<1>2. place \in Uniform \X Side /\ uniform_to_id(place[1], place[2]) = id
  BY <1>1
<1> HIDE DEF place
<1>3. id_to_uniform(id) = [uniform |-> place[1], side |-> place[2]]
  BY <1>2, UniformOfId
<1> QED
  BY <1>3 DEF EntryAt, place

\* Every player identifier of a full enrollment has an entry: the two sides are
\* its two teams.
LEMMA FullEntries ==
  ASSUME NEW e, Sound(e), is_full(e)
  PROVE  /\ SideTeam(e) \in [Side -> e.opened]
         /\ SideTeam(e)["alpha"] # SideTeam(e)["beta"]
         /\ e.opened = {SideTeam(e)["alpha"], SideTeam(e)["beta"]}
         /\ \A id \in PlayerId : EntryAt(e, id) \in Entry
<1>1. e.opened \subseteq Team /\ IsFiniteSet(e.opened) /\ Cardinality(e.opened) = 2
  BY DEF Sound, EnrollmentType, is_full, MaxClubCount
<1>2. /\ Min(e.opened) \in e.opened /\ Max(e.opened) \in e.opened
      /\ Min(e.opened) # Max(e.opened)
      /\ e.opened = {Min(e.opened), Max(e.opened)}
  BY <1>1, TwoNames
<1>3. /\ SideTeam(e) \in [Side -> e.opened]
      /\ SideTeam(e)["alpha"] = Min(e.opened) /\ SideTeam(e)["beta"] = Max(e.opened)
  BY <1>2 DEF SideTeam, Side
<1>4. ASSUME NEW id \in PlayerId
      PROVE  EntryAt(e, id) \in Entry
  <2> DEFINE place == id_to_uniform(id)
  <2>1. place.uniform \in Uniform /\ place.side \in Side
    BY IdOfUniform
  <2>2. SideTeam(e)[place.side] \in e.opened
    BY <1>3, <2>1
  <2>3. e.slot[<<SideTeam(e)[place.side], place.uniform>>] # None
    BY <2>1, <2>2 DEF is_full
  <2>4. <<SideTeam(e)[place.side], place.uniform>> \in Slot
    BY <1>1, <2>1, <2>2 DEF Slot
  <2> QED
    BY <2>3, <2>4, EntryAtPlace DEF Sound, EnrollmentType
<1> QED
  BY <1>2, <1>3, <1>4

\* r is the roster that finalise() makes of e, less the clients that have left it.
RosterOf(r, e) ==
    /\ r \in RosterType
    /\ is_full(e)
    /\ r.teams = SideTeam(e)
    /\ \A id \in PlayerId :
        /\ r.players[id] \in {EntryAt(e, id).id, None}
        /\ is_goalkeeper(r, id) => r.players[id] # None /\ IsGoalkeeper(EntryAt(e, id))

\* finalise() of a full enrollment gives a roster of its occupants.
LEMMA FinaliseRosterOf ==
  ASSUME NEW e, Sound(e), is_full(e)
  PROVE  finalise(e) # None /\ RosterOf(finalise(e), e)
<1> DEFINE goalkeepers == {id \in PlayerId : IsGoalkeeper(EntryAt(e, id))}
           goalies == IF Cardinality(goalkeepers) < MaxClubCount
                      THEN goalkeepers \cup {NoPlayer} ELSE goalkeepers
           players == [id \in PlayerId |-> EntryAt(e, id).id]
<1>1. finalise(e) = [players |-> players, goalies |-> goalies, teams |-> SideTeam(e)]
  BY DEF finalise
<1>2. /\ \A id \in PlayerId : EntryAt(e, id) \in Entry
      /\ SideTeam(e) \in [Side -> Team]
  BY FullEntries DEF Sound, EnrollmentType
<1>3. players \in [PlayerId -> Client \cup {None}]
  BY <1>2 DEF Entry
<1>4. goalies \in SUBSET (PlayerId \cup {NoPlayer})
  OBVIOUS
<1>5. NoPlayer \notin PlayerId
  BY RosterAssumption DEF NoPlayer, PlayerId, MaxClubCount
<1>6. \A id \in PlayerId : id \in goalies => IsGoalkeeper(EntryAt(e, id))
  BY <1>5
<1>7. \A id \in PlayerId : players[id] = EntryAt(e, id).id /\ players[id] # None
  BY <1>2, RosterAssumption DEF Entry
<1> HIDE DEF goalkeepers, goalies, players
<1>8. finalise(e) \in RosterType
  BY <1>1, <1>2, <1>3, <1>4 DEF RosterType
<1>9. finalise(e) # None
  BY <1>8, RosterAssumption
<1> QED
  BY <1>1, <1>6, <1>7, <1>8, <1>9 DEF RosterOf, is_goalkeeper

\* A client that leaves a roster leaves players_ and goalies_ together.
LEMMA DeregisterRosterOf ==
  ASSUME NEW e, NEW r, RosterOf(r, e), NEW c \in Client
  PROVE  roster_deregister(r, c) # None /\ RosterOf(roster_deregister(r, c), e)
<1> DEFINE id == find_player(r, c)
           s == roster_deregister(r, c)
<1>0. r \in RosterType /\ r # None
  BY RosterAssumption DEF RosterOf
<1>1. CASE id = NoPlayer
  BY <1>0, <1>1 DEF roster_deregister
<1>2. CASE id # NoPlayer
  <2> DEFINE players == [r.players EXCEPT ![id] = None]
             goalies == IF id \in r.goalies THEN (r.goalies \ {id}) \cup {NoPlayer}
                        ELSE r.goalies
  <2>1. s = [players |-> players, goalies |-> goalies, teams |-> r.teams]
    BY <1>0, <1>2 DEF roster_deregister, RosterType
  <2>2. /\ r.players \in [PlayerId -> Client \cup {None}]
        /\ r.goalies \in SUBSET (PlayerId \cup {NoPlayer})
        /\ r.teams \in [Side -> Team]
    BY <1>0 DEF RosterType
  <2> HIDE DEF id, s
  <2>3. players \in [PlayerId -> Client \cup {None}]
    BY <2>2
  <2>4. goalies \in SUBSET (PlayerId \cup {NoPlayer})
    BY <2>2
  <2>5. NoPlayer \notin PlayerId
    BY RosterAssumption DEF NoPlayer, PlayerId, MaxClubCount
  <2>6. \A i \in PlayerId : i \in goalies => i \in r.goalies /\ players[i] = r.players[i]
    BY <2>2, <2>5
  <2>7. \A i \in PlayerId : players[i] \in {r.players[i], None}
    BY <2>2
  <2> HIDE DEF players, goalies
  <2>8. s \in RosterType /\ s # None
    BY <2>1, <2>2, <2>3, <2>4, RosterAssumption DEF RosterType
  <2>9. RosterOf(s, e)
    BY <2>1, <2>6, <2>7, <2>8 DEF RosterOf, is_goalkeeper
  <2> QED
    BY <2>8, <2>9 DEF s
<1> QED
  BY <1>1, <1>2
=============================================================================
