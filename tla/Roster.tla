------------------------------- MODULE Roster -------------------------------
(***************************************************************************)
(* The values of the classes server::enrollment and server::roster         *)
(* (server/roster.hpp, server/roster.cxx) and of the player identifiers    *)
(* they are indexed by (common/entity.hpp), with their member functions    *)
(* as operators.  The server and the referee program both hold one of      *)
(* each, so the operators take the value they act on.                      *)
(*                                                                         *)
(* A team name is a natural number: its rank in the order of std::map.     *)
(* The version a request carries is reduced to whether it is CURRENT.      *)
(***************************************************************************)
EXTENDS Naturals, FiniteSets, FiniteSetsExt

CONSTANTS
    Client,        \* endpoint identifiers of the client programs
    Team,          \* the team names clients may ask for
    MaxTeamSize,   \* MAX_TEAM_SIZE, 11 in the program
    None           \* an absent map entry, a null unique_ptr, endpoint_id()

MaxClubCount == 2
NoPlayer == 255

Uniform == 1..MaxTeamSize
PlayerType == {"goalKeeper", "outField"}
Side == {"alpha", "beta"}
Slot == Team \X Uniform
Entry == [id: Client, ptype: PlayerType]
PlayerId == 0..(MaxClubCount * MaxTeamSize - 1)

Request == [current: BOOLEAN, team: Team, uniform: Uniform, ptype: PlayerType]

\* enrollment_ (opened, slot) and client_player_map_ (player).
EnrollmentType ==
    [opened: SUBSET Team,
     slot: [Slot -> Entry \cup {None}],
     player: [Client -> Slot \cup {None}]]

RosterType ==
    [players: [PlayerId -> Client \cup {None}],
     goalies: SUBSET (PlayerId \cup {NoPlayer}),
     teams: [Side -> Team]]

ASSUME RosterAssumption ==
    /\ Team \subseteq Nat
    /\ MaxTeamSize \in 1..127
    /\ None \notin Client
    /\ None \notin Slot
    /\ None \notin Entry
    /\ None \notin EnrollmentType
    /\ None \notin RosterType

-----------------------------------------------------------------------------
(* Player identifiers. *)

uniform_to_id(uniform, side) ==
    uniform - 1 + (IF side = "alpha" THEN 0 ELSE MaxTeamSize)

\* Faulty variant: the sides swapped.
id_to_uniform_swapped(id) ==
    IF MaxTeamSize <= id
    THEN [uniform |-> id - MaxTeamSize + 1, side |-> "alpha"]
    ELSE [uniform |-> id + 1, side |-> "beta"]

id_to_uniform(id) ==
    IF MaxTeamSize <= id
    THEN [uniform |-> id - MaxTeamSize + 1, side |-> "beta"]
    ELSE [uniform |-> id + 1, side |-> "alpha"]

-----------------------------------------------------------------------------
(* server::enrollment *)

EmptyEnrollment ==
    [opened |-> {}, slot |-> [s \in Slot |-> None], player |-> [c \in Client |-> None]]

\* std::map::emplace leaves an entry that is already there alone.
Emplace(map, key, value) ==
    IF map[key] = None THEN [map EXCEPT ![key] = value] ELSE map

SlotOf(request) == <<request.team, request.uniform>>

IsGoalkeeper(entry) == entry # None /\ entry.ptype = "goalKeeper"

HasGoalkeeper(e, team) == \E u \in Uniform : IsGoalkeeper(e.slot[<<team, u>>])

\* Faulty variant: off by one.
TeamSlotTaken_late(e, request) ==
    request.team \notin e.opened /\ Cardinality(e.opened) > MaxClubCount

TeamSlotTaken(e, request) ==
    request.team \notin e.opened /\ Cardinality(e.opened) = MaxClubCount

\* Faulty variant: left to emplace().
UniformTaken_never(e, request) == FALSE

UniformTaken(e, request) == e.slot[SlotOf(request)] # None

\* Faulty variant: asked of the wrong requests.
GoalieTaken_outfield(e, request) ==
    request.ptype = "outField" /\ HasGoalkeeper(e, request.team)

GoalieTaken(e, request) ==
    request.ptype = "goalKeeper" /\ HasGoalkeeper(e, request.team)

register_result(e, request) ==
    CASE ~request.current -> "version_mismatch"
      [] request.current /\ TeamSlotTaken(e, request) -> "team_slot_taken"
      [] request.current /\ ~TeamSlotTaken(e, request)
           /\ UniformTaken(e, request) -> "uniform_taken"
      [] request.current /\ ~TeamSlotTaken(e, request)
           /\ ~UniformTaken(e, request) /\ GoalieTaken(e, request) -> "goalie_taken"
      [] OTHER -> "success"

enrol(e, client, request) ==
    [opened |-> e.opened \cup {request.team},
     slot |-> Emplace(e.slot, SlotOf(request), [id |-> client, ptype |-> request.ptype]),
     player |-> Emplace(e.player, client, SlotOf(request))]

register_client(e, client, request) ==
    IF register_result(e, request) = "success" THEN enrol(e, client, request) ELSE e

is_registered(e, client) == e.player[client] # None

\* Faulty variants: the client stays in client_player_map_; it stays in its slot.
deregister_client_half(e, client) ==
    IF is_registered(e, client)
    THEN [e EXCEPT !.slot[e.player[client]] = None] ELSE e

deregister_client_slot_kept(e, client) == [e EXCEPT !.player[client] = None]

\* The team stays in enrollment_ when its last member goes.
deregister_client(e, client) ==
    IF is_registered(e, client)
    THEN [e EXCEPT !.slot[e.player[client]] = None, !.player[client] = None]
    ELSE e

\* A team map holding MAX_TEAM_SIZE entries has one for every uniform.
is_full(e) ==
    /\ Cardinality(e.opened) = MaxClubCount
    /\ \A t \in e.opened, u \in Uniform : e.slot[<<t, u>>] # None

-----------------------------------------------------------------------------
(* server::roster.  goalies is the set of values in the two-place array     *)
(* goalies_: no_player is one of them while a place is unused.              *)

\* Faulty variant: the first team on both sides.
SideTeam_first(e) == [side \in Side |-> Min(e.opened)]

SideTeam(e) ==
    [side \in Side |-> IF side = "alpha" THEN Min(e.opened) ELSE Max(e.opened)]

\* The entry finalise() writes at an identifier: the one of the uniform and side
\* whose identifier it is.
EntryAt(e, id) ==
    LET place == CHOOSE p \in Uniform \X Side : uniform_to_id(p[1], p[2]) = id
    IN  e.slot[<<SideTeam(e)[place[2]], place[1]>>]

finalise(e) ==
    LET goalkeepers == {id \in PlayerId : IsGoalkeeper(EntryAt(e, id))}
    IN  IF ~is_full(e) THEN None
        ELSE [players |-> [id \in PlayerId |-> EntryAt(e, id).id],
              goalies |-> IF Cardinality(goalkeepers) < MaxClubCount
                          THEN goalkeepers \cup {NoPlayer}
                          ELSE goalkeepers,
              teams |-> SideTeam(e)]

find_player(r, client) ==
    LET places == {id \in PlayerId : r.players[id] = client}
    IN  IF places = {} THEN NoPlayer ELSE Min(places)

is_goalkeeper(r, id) == id \in r.goalies

\* Faulty variants: goalies_ left alone; the wrong value for a vacant place.
roster_deregister_goalie_kept(r, client) ==
    LET id == find_player(r, client)
    IN  IF id = NoPlayer THEN r ELSE [r EXCEPT !.players[id] = None]

roster_deregister_no_player(r, client) ==
    LET id == find_player(r, client)
    IN  IF id = NoPlayer THEN r ELSE [r EXCEPT !.players[id] = NoPlayer]

roster_deregister(r, client) ==
    LET id == find_player(r, client)
    IN  IF id = NoPlayer THEN r
        ELSE [r EXCEPT !.players[id] = None,
                       !.goalies = IF id \in @ THEN (@ \ {id}) \cup {NoPlayer} ELSE @]
=============================================================================
