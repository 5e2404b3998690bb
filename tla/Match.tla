------------------------------- MODULE Match --------------------------------
(***************************************************************************)
(* The server process, the referee process and the clients together: how   *)
(* registrations become a roster and the clients learn their places.       *)
(*                                                                         *)
(* Outside the source: the client programs are reduced to what they put on *)
(* the wire before a match, and what the referee is to send once the       *)
(* roster is final (the RefOutput of srprotocol) is sent in the order the  *)
(* protocol gives it, since referee.cxx does not send it yet.              *)
(***************************************************************************)
EXTENDS ServerIo

CONSTANTS
    Wants,           \* the registration requests each client may make
    MaxSubmits,      \* bound: requests of each client
    MayDisconnect,   \* the clients that may go away once
    MatchesPlayed    \* whether the referee opens the field and closes the match

ASSUME MatchAssumption ==
    /\ Wants \in [Client -> SUBSET Request]
    /\ MaxSubmits \in [Client -> Nat]
    /\ MayDisconnect \subseteq Client
    /\ MatchesPlayed \in BOOLEAN

VARIABLES submits, presence, judged

environmentVars == <<submits, presence, judged>>
vars == <<serverVars, refereeVars, clientIoVars, environmentVars>>

Init ==
    /\ ServerInit /\ RefereeInit /\ IoInit
    /\ submits = [c \in Client |-> 0]
    /\ presence = [c \in Client |-> "new"]
    /\ judged = "no"

-----------------------------------------------------------------------------
(* Clients *)

SendUp(c, msg) ==
    /\ uplink' = [uplink EXCEPT ![c] = Append(@, msg)]
    /\ UNCHANGED <<serverVars, refereeVars, draining, listening, connected, delivered>>

Connect(c) ==
    /\ presence[c] = "new"
    /\ presence' = [presence EXCEPT ![c] = "present"]
    /\ SendUp(c, [type |-> "connect"])
    /\ UNCHANGED <<submits, judged>>

Submit(c, request) ==
    /\ presence[c] = "present" /\ submits[c] < MaxSubmits[c]
    /\ submits' = [submits EXCEPT ![c] = @ + 1]
    /\ SendUp(c, [type |-> "registration", from |-> c, request |-> request])
    /\ UNCHANGED <<presence, judged>>

Leave(c) ==
    /\ presence[c] = "present" /\ c \in MayDisconnect
    /\ presence' = [presence EXCEPT ![c] = "gone"]
    /\ SendUp(c, [type |-> "disconnect"])
    /\ UNCHANGED <<submits, judged>>

(* The referee's judgements *)

Judge(before, after, output) ==
    /\ MatchesPlayed /\ referee_roster # None /\ ~referee_halted
    /\ judged = before
    /\ judged' = after
    /\ from_referee' = Append(from_referee, output)
    /\ UNCHANGED <<serverVars, clientIoVars, submits, presence,
                   referee_enrollment, referee_roster, referee_halted, to_referee>>

Judgement ==
    \/ Judge("no", "opened", "fieldOpen")
    \/ Judge("opened", "closed", "matchClose")
    \/ Judge("opened", "closed", "matchAbort")

RefereeStep == process /\ UNCHANGED <<serverVars, clientIoVars, environmentVars>>

ServerStep == ServerNext /\ UNCHANGED <<refereeVars, clientIoVars, environmentVars>>

IoStep == IoNext /\ UNCHANGED environmentVars

Next ==
    \/ ServerStep \/ IoStep \/ RefereeStep \/ Judgement
    \/ \E c \in Client :
          Connect(c) \/ Leave(c) \/ \E q \in Wants[c] : Submit(c, q)

Spec == Init /\ [][Next]_vars

-----------------------------------------------------------------------------

TypeOK ==
    /\ ServerTypeOK
    /\ referee_enrollment \in EnrollmentType \cup {None}
    /\ referee_roster \in RosterType \cup {None}
    /\ \A c \in Client : delivered[c] \in Seq(ServerTransaction)

\* The messages that the main thread has yet to enqueue.
Letters == [i \in 1..Len(pending) |-> pending[i].msg]

\* What the referee has yet to process.  Letters to the other queues are among it,
\* but none of those is a registration.
UnderWay == to_referee \o ref_input \o Letters

Registrations(msgs) == {i \in 1..Len(msgs) : msgs[i].type = "registration"}

\* What processing a message makes of an enrollment.
Processed(e, msg) ==
    IF msg.type = "registration" THEN register_client(e, msg.client, msg.request) ELSE e

\* What becomes of an enrollment as messages are processed: at n, after n of them.
Replay(e, msgs) ==
    LET after[n \in 0..Len(msgs)] ==
            IF n = 0 THEN e ELSE Processed(after[n - 1], msgs[n])
    IN  after

\* Replaying what is under way on the referee's enrollment gives the server's:
\* neither can accept a registration, or be full, without the other.  Once the
\* referee has a roster nothing is under way, and the server's enrollment, if it
\* still has one, would finalise to the same roster, as it then does: the two
\* never play with different rosters.
EnrollmentsInStep ==
    /\ ~referee_halted =>
        IF referee_roster = None
        THEN enrollment = Replay(referee_enrollment, UnderWay)[Len(UnderWay)]
        ELSE /\ Registrations(UnderWay) = {}
             /\ enrollment # None => finalise(enrollment) = referee_roster
    /\ roster # None => roster = referee_roster

\* Neither process is ended by the way the other one reacts to it: the server's
\* enrollment is there and full when RosterFinalised arrives, and the referee gets
\* no registration once it has reset its own.  What ends the server is a
\* registration that comes when the roster is final already, and nothing else; what
\* ends the referee is the lack of a physics engine.
OnlyLateRequestsHalt ==
    /\ halted \in {"no", "registration_requested"}
    /\ halted # "no" => roster # None
    /\ referee_halted => ~PhysicsInReferee

IsAck(msg) == msg.type = "regAck"
PlaceOf(ack) == uniform_to_id(ack.uniform, ack.side)

\* What client c has been told and may yet be.
MailFor(c) == delivered[c] \o server_trans \o Letters

\* A client is told a place only once the referee has finalised the roster
\* (the comment in event.hh); it is the client's own place there, one it asked
\* for, as the player it asked to be; nobody is told a place twice.  A goalkeeper
\* may be told that it is in the outfield, which the schema takes for granted, but
\* never the other way round.
AcksTrue ==
    \A c \in Client :
        LET mail == MailFor(c)
            acks == {i \in 1..Len(mail) : IsAck(mail[i]) /\ mail[i].to = c}
        IN  \A i \in acks :
                LET ack == mail[i]
                IN  /\ referee_roster # None
                    /\ referee_roster.players[PlaceOf(ack)] = c
                    /\ \E q \in Wants[c] :
                        /\ q.uniform = ack.uniform
                        /\ q.team = referee_roster.teams[ack.side]
                        /\ q.ptype = "goalKeeper"
                             <=> is_goalkeeper(referee_roster, PlaceOf(ack))
                        /\ ack.ptype \in {q.ptype, "outField"}
                    /\ \A j \in acks \ {i} : PlaceOf(mail[j]) # PlaceOf(ack)

-----------------------------------------------------------------------------
(* Refinement: the two enrollments, the queues and the pipes implement one   *)
(* book of places.                                                           *)

\* What a roster says of a place.
RosterEntry(r, s) ==
    IF \E side \in Side : r.teams[side] = s[1]
    THEN LET side == CHOOSE x \in Side : r.teams[x] = s[1]
             id == uniform_to_id(s[2], side)
         IN  [id |-> r.players[id],
              ptype |-> IF is_goalkeeper(r, id) THEN "goalKeeper" ELSE "outField"]
    ELSE None

\* The server's enrollment, or what its roster says once that is reset.
BookEntry(s) ==
    IF enrollment # None THEN enrollment.slot[s] ELSE RosterEntry(roster, s)

\* A player is told when its acknowledgement reaches the server_trans queue.
StillToTell ==
    {PlaceOf(Letters[i]) : i \in {j \in 1..Len(pending) : IsAck(Letters[j])}}

Book ==
    INSTANCE RegistrationBook WITH
        book <- [s \in Slot |-> BookEntry(s)],
        closed <- referee_roster # None,
        told <- IF roster = None THEN {} ELSE PlayerId \ StillToTell

\* A client's place, once claimed, is its own until the end; the book closes only
\* complete and admits no claim after; each player is told its place once.  The
\* server's and the referee's code together implement this for every
\* interleaving of the threads and every mix of requests.
ImplementsBook == Book!Spec

-----------------------------------------------------------------------------
(* Fairness: every thread is scheduled while it can act, and the clients       *)
(* that are present connect and ask.                                           *)

FairSpec ==
    /\ Spec
    /\ WF_vars(ServerStep) /\ WF_vars(RefereeStep)
    /\ WF_vars(ref_io_send /\ UNCHANGED environmentVars)
    /\ WF_vars(ref_io_receive /\ UNCHANGED environmentVars)
    /\ WF_vars((send_server_trans \/ send_server_status \/ found_queue_empty)
               /\ UNCHANGED environmentVars)
    /\ \A c \in Client :
        /\ WF_vars(Connect(c))
        /\ WF_vars(\E q \in Wants[c] : Submit(c, q))
        /\ WF_vars((on_connect(c) \/ on_receive_client_trans(c) \/ on_disconnect(c))
                   /\ UNCHANGED environmentVars)

\* Clients that between them ask for every place all learn theirs.
EveryoneToldPlace == <>(\A c \in Client : Acknowledged(c))

\* Whatever happens at a client reaches the server's queue: the I/O thread never
\* stops listening.
EveryEventHeard == \A c \in Client : uplink[c] # <<>> ~> uplink[c] = <<>>

\* The server's main loop comes round to the next frame however long a handler has
\* to wait for room in a queue: the threads never all wait for one another.
FrameCompletes ==
    \A s \in {"ref", "timers"} : []<>(step = s \/ halted # "no")

-----------------------------------------------------------------------------
(* What documents and comments of the repository say, and the code does not.   *)

\* doc/server-state.dia has RegistrationRequest lead from the waiting state and
\* from the playing state back to it; registration_requested uses the enrollment
\* that roster_finalised has reset, and nothing makes a new one.
RegistrationEndsNothing == halted # "registration_requested"

\* In doc/referee-state.dia only a shutdown ends the referee; the game state it makes
\* for a complete enrollment needs a physics engine, which referee/main.cxx, unlike
\* those of server and client, does not register.
RefereeStaysUp == ~referee_halted
=============================================================================
