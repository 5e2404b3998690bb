---------------------------- MODULE MCEnrollment ----------------------------
(* Instances of Enrollment for TLC.                                        *)
EXTENDS Enrollment, TLC

MCRequests == {q \in Request : q.current}

\* Requests of an outdated client are refused whatever they ask for: one will do.
MCRequestsWithOld ==
    MCRequests \cup
    {[current |-> FALSE, team |-> 1, uniform |-> 1, ptype |-> "outField"]}

\* Patient clients are alike, and so are the others.
ClientSymmetry == {f \in Permutations(Client) : \A c \in Patient : f[c] \in Patient}
=============================================================================
