------------------------------ MODULE Referee -------------------------------
(***************************************************************************)
(* The referee program: referee::process (referee/referee.cxx).  It keeps  *)
(* an enrollment of its own, fed with the registrations the server accepts,*)
(* and announces the roster when it finds that enrollment full.            *)
(*                                                                         *)
(* The pipes to and from the server hold what the server has written and   *)
(* not yet seen processed, and what process() has put out and the server   *)
(* has not yet read.                                                       *)
(***************************************************************************)
EXTENDS Roster, Sequences

CONSTANT PhysicsInReferee  \* whether the referee's program registers an engine

ASSUME RefereeAssumption == PhysicsInReferee \in BOOLEAN

VARIABLES
    referee_enrollment, referee_roster, referee_halted,
    to_referee, from_referee

refereeVars ==
    <<referee_enrollment, referee_roster, referee_halted, to_referee, from_referee>>

RefereeInit ==
    /\ referee_enrollment = EmptyEnrollment
    /\ referee_roster = None
    /\ referee_halted = FALSE
    /\ to_referee = <<>>
    /\ from_referee = <<>>

\* Faulty variants: the roster is announced whether full or not; is_full() is
\* asked before the registration is made.
process_registration_early(client, request) ==
    /\ from_referee' = Append(from_referee, "rosterFinalised")
    /\ referee_enrollment' = register_client(referee_enrollment, client, request)
    /\ UNCHANGED <<referee_roster, referee_halted>>

process_registration_stale(client, request) ==
    IF is_full(referee_enrollment)
    THEN /\ from_referee' = Append(from_referee, "rosterFinalised")
         /\ referee_roster' = finalise(referee_enrollment)
         /\ referee_enrollment' = None
         /\ UNCHANGED referee_halted
    ELSE /\ referee_enrollment' = register_client(referee_enrollment, client, request)
         /\ UNCHANGED <<referee_roster, from_referee, referee_halted>>

\* A registration the referee's enrollment refuses is ignored, but is_full() is
\* asked all the same.  A game state cannot be made without an engine: the exception
\* ends the program before what process() has put out is written.
process_registration(client, request) ==
    LET registered == register_client(referee_enrollment, client, request)
    IN  IF referee_enrollment = None
        THEN /\ referee_halted' = TRUE
             /\ UNCHANGED <<referee_enrollment, referee_roster, from_referee>>
        ELSE IF is_full(registered) /\ ~PhysicsInReferee
        THEN /\ referee_halted' = TRUE
             /\ UNCHANGED <<referee_enrollment, referee_roster, from_referee>>
        ELSE IF is_full(registered)
        THEN /\ from_referee' = Append(from_referee, "rosterFinalised")
             /\ referee_roster' = finalise(registered)
             /\ referee_enrollment' = None
             /\ UNCHANGED referee_halted
        ELSE /\ referee_enrollment' = registered
             /\ UNCHANGED <<referee_roster, from_referee, referee_halted>>

process ==
    /\ ~referee_halted /\ to_referee # <<>>
    /\ to_referee' = Tail(to_referee)
    /\ IF Head(to_referee).type = "registration"
       THEN process_registration(Head(to_referee).client, Head(to_referee).request)
       ELSE UNCHANGED <<referee_enrollment, referee_roster, referee_halted, from_referee>>
=============================================================================
