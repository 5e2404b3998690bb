-------------------------- MODULE RegistrationBook --------------------------
(***************************************************************************)
(* What registration promises, with no processes, queues or retries: one   *)
(* book of places that clients claim, which is closed once two teams are   *)
(* complete, and from which every player is told its place once.           *)
(***************************************************************************)
EXTENDS Naturals, FiniteSets

CONSTANTS Client, Team, Uniform, PlayerType, PlayerId, None

VARIABLES book, closed, told

vars == <<book, closed, told>>

Claimed(team, uniform) == book[<<team, uniform>>] # None

TeamsInBook == {t \in Team : \E u \in Uniform : Claimed(t, u)}

Init ==
    /\ book = [s \in Team \X Uniform |-> None]
    /\ closed = FALSE
    /\ told = {}

Claim(client, team, uniform, ptype) ==
    /\ ~closed
    /\ ~Claimed(team, uniform)
    /\ Cardinality(TeamsInBook \cup {team}) <= 2
    /\ ptype = "goalKeeper" =>
        \A u \in Uniform :
            Claimed(team, u) => book[<<team, u>>].ptype # "goalKeeper"
    /\ book' = [book EXCEPT ![<<team, uniform>>] = [id |-> client, ptype |-> ptype]]
    /\ UNCHANGED <<closed, told>>

Close ==
    /\ ~closed
    /\ Cardinality(TeamsInBook) = 2
    /\ \A t \in TeamsInBook, u \in Uniform : Claimed(t, u)
    /\ closed' = TRUE
    /\ UNCHANGED <<book, told>>

Tell(player) ==
    /\ closed
    /\ player \notin told
    /\ told' = told \cup {player}
    /\ UNCHANGED <<book, closed>>

\* Most of what is done on the way to an entry leaves the book alone.
Next ==
    \/ UNCHANGED vars
    \/ \E c \in Client, t \in Team, u \in Uniform, p \in PlayerType : Claim(c, t, u, p)
    \/ Close
    \/ \E player \in PlayerId : Tell(player)

Spec == Init /\ [][Next]_vars
=============================================================================
