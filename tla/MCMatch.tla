------------------------------ MODULE MCMatch -------------------------------
(* Instances of Match for TLC: two teams of one player.                    *)
EXTENDS Match, TLC

CONSTANTS c1, c2, c3

Ask(team, uniform, ptype) ==
    [current |-> TRUE, team |-> team, uniform |-> uniform, ptype |-> ptype]

\* Two clients that fill the roster, and a third that may take the place of one of
\* them, in its team or with a third team; it may ask twice.
Contested ==
    (c1 :> {Ask(2, 1, "goalKeeper")}) @@ (c2 :> {Ask(1, 1, "outField")})
    @@ (c3 :> {Ask(3, 1, "goalKeeper"), Ask(2, 1, "outField")})

\* Two clients that each ask once, for different teams.
Settled ==
    (c1 :> {Ask(2, 1, "goalKeeper")}) @@ (c2 :> {Ask(1, 1, "outField")})

Once == [c \in Client |-> 1]

ThirdTwice == (c1 :> 1) @@ (c2 :> 1) @@ (c3 :> 2)
=============================================================================
