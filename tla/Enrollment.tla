----------------------------- MODULE Enrollment -----------------------------
(***************************************************************************)
(* One server::enrollment object and the server::roster its finalise()     *)
(* returns, under every sequence of calls.  finalise() is const; both of   *)
(* its callers (server/event.cxx, referee/referee.cxx) reset the           *)
(* enrollment straight after it, so here the enrollment is frozen once the *)
(* roster exists, which lets the two be compared.                          *)
(***************************************************************************)
EXTENDS Roster

CONSTANTS
    Requests,  \* the registration requests the clients make
    Patient    \* the clients that ask only while they hold no slot

ASSUME EnrollmentAssumption ==
    /\ Requests \subseteq Request
    /\ Patient \subseteq Client

VARIABLES enrollment, roster

vars == <<enrollment, roster>>

HoldsSlot(client) ==
    \E s \in Slot : enrollment.slot[s] # None /\ enrollment.slot[s].id = client

Init == enrollment = EmptyEnrollment /\ roster = None

Register(client, request) ==
    /\ roster = None
    /\ client \in Patient => ~HoldsSlot(client)
    /\ enrollment' = register_client(enrollment, client, request)
    /\ UNCHANGED roster

Deregister(client) ==
    /\ roster = None
    /\ enrollment' = deregister_client(enrollment, client)
    /\ UNCHANGED roster

Finalise ==
    /\ roster = None
    /\ roster' = finalise(enrollment)
    /\ UNCHANGED enrollment

DeregisterPlayer(client) ==
    /\ roster # None
    /\ roster' = roster_deregister(roster, client)
    /\ UNCHANGED enrollment

Next ==
    \/ \E c \in Client, q \in Requests : Register(c, q)
    \/ \E c \in Client : Deregister(c)
    \/ Finalise
    \/ \E c \in Client : DeregisterPlayer(c)

Spec == Init /\ [][Next]_vars

-----------------------------------------------------------------------------

\* The types of the two objects.
TypeOK ==
    /\ enrollment \in EnrollmentType
    /\ roster \in RosterType \cup {None}

\* Through any mix of registering, leaving and coming back: at most two teams
\* exist, however many names clients ask for, a slot is only ever occupied in a
\* team that exists, and no team has two goalkeepers (register_client's checks).
TeamsByTheRules ==
    /\ Cardinality(enrollment.opened) <= MaxClubCount
    /\ \A s \in Slot : enrollment.slot[s] # None => s[1] \in enrollment.opened
    /\ \A t \in Team, u, v \in Uniform :
          /\ IsGoalkeeper(enrollment.slot[<<t, u>>])
          /\ IsGoalkeeper(enrollment.slot[<<t, v>>])
          => u = v

\* client_player_map_ never points at a slot that is vacant or somebody
\* else's: the two maps of class enrollment are updated apart, by emplace and
\* erase, and agree in this direction even when a client registers twice.
RegisteredHoldSlot ==
    \A c \in Client : is_registered(enrollment, c) =>
        LET entry == enrollment.slot[enrollment.player[c]]
        IN  entry # None /\ entry.id = c

\* The other direction: deregister_client finds the slot of a client that asks
\* for one at a time, whatever the others do.  One that asks again is out of its
\* reach: client_player_map_.emplace keeps the first slot, and its later slots
\* can then never be vacated.
OccupantRegistered ==
    \A s \in Slot : enrollment.slot[s] # None /\ enrollment.slot[s].id \in Patient =>
        enrollment.player[enrollment.slot[s].id] = s

\* A slot is vacated only by its own occupant leaving.
OnlyOccupantVacates ==
    [][\A s \in Slot :
          enrollment.slot[s] # None /\ enrollment'.slot[s] # enrollment.slot[s]
          => /\ enrollment'.slot[s] = None
             /\ enrollment.player[enrollment.slot[s].id] = s
             /\ ~is_registered(enrollment', enrollment.slot[s].id)]_vars

\* The slot that a player's acknowledgement names (roster_finalised).
PlaceOf(id) == <<roster.teams[id_to_uniform(id).side], id_to_uniform(id).uniform>>

\* The roster lists at every identifier the client that holds the uniform and side
\* which id_to_uniform tells the clients, until that client leaves the roster;
\* finalise() put it there by way of uniform_to_id.
RosterMatchesSlots ==
    roster # None =>
        \A id \in PlayerId :
            /\ enrollment.slot[PlaceOf(id)] # None
            /\ roster.players[id] \in {enrollment.slot[PlaceOf(id)].id, None}

\* A goalkeeper on the roster is a client that registered as one and has not
\* left: deregistering a player clears its place in goalies_ too.
GoalkeepersAreGoalkeepers ==
    roster # None =>
        \A id \in PlayerId : is_goalkeeper(roster, id) =>
            /\ roster.players[id] # None
            /\ enrollment.slot[PlaceOf(id)] =
                    [id |-> roster.players[id], ptype |-> "goalKeeper"]

\* A client that asked for one slot at a time is on the roster once, so that
\* roster::deregister_client, which stops at the first match, removes it.
ListedOnce ==
    roster # None =>
        \A i, j \in PlayerId :
            roster.players[i] = roster.players[j] /\ roster.players[i] \in Patient => i = j
=============================================================================
