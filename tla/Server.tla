------------------------------- MODULE Server -------------------------------
(***************************************************************************)
(* The main thread of the server program: server::run (server/main.cxx)    *)
(* and the event handlers it calls (server/event.cxx, event.hh).  A frame  *)
(* takes at most one message from each of the three inbound queues, in the *)
(* order referee, client status, client transaction, and then runs the     *)
(* timers.  Other threads own the far ends of the six queues and act       *)
(* between any two of these steps: they belong to the modules that extend  *)
(* this one.                                                               *)
(*                                                                         *)
(* A handler's messages go to "pending" and then, one at a time, to their  *)
(* queue; the loop waits while a queue is full (retry_with_random_backoff).*)
(* A dereference of a null enrollment or roster ends the process: "halted" *)
(* names the handler.                                                      *)
(***************************************************************************)
EXTENDS Roster, Sequences

CONSTANTS
    RefQueueLength, ClientQueueLength,  \* capacities of the queues
    PingFrequency,                      \* config_.ping_frequency
    FramePeriod,                        \* the frame counter is kept modulo this
    TargetSampleSize, SeqModulus,       \* of the clock monitor
    MaxPings                            \* bound: number of ping rounds

ASSUME ServerAssumption ==
    /\ RefQueueLength \in Nat \ {0}
    /\ ClientQueueLength \in Nat \ {0}
    /\ FramePeriod \in Nat \ {0}
    /\ PingFrequency \in 1..FramePeriod
    /\ FramePeriod % PingFrequency = 0
    /\ TargetSampleSize \in Nat \ {0}
    /\ SeqModulus \in Nat \ {0}
    /\ MaxPings \in Nat

Clock == INSTANCE Monitor WITH Endpoint <- Client

VARIABLES
    state, enrollment, roster, game_state, monitor,  \* the basic_handle
    frame, step, pending, halted, time,              \* the loop
    ref_input, ref_output, server_status, server_trans, client_status, client_trans

handle == <<state, enrollment, roster, game_state, monitor>>
loop == <<frame, step, pending, halted, time>>
outbound == <<ref_input, server_status, server_trans>>
inbound == <<ref_output, client_status, client_trans>>
serverVars == <<handle, loop, outbound, inbound>>

RefOutput == {"refReady", "rosterFinalised", "fieldOpen", "matchClose",
              "matchAbort", "playJudgement", "refCrashed"}
RefInput ==
    [type: {"rules"}] \cup
    [type: {"registration"}, client: Client, request: Request]
ClientStatus ==
    [type: {"status"}, from: Client] \cup
    [type: {"pong"}, from: Client, pong: Clock!Pong]
ClientTransaction ==
    [type: {"registration"}, from: Client, request: Request] \cup
    [type: {"action"}, from: Client] \cup
    [type: {"disconnect"}]
RegisterError ==
    {"version_mismatch", "team_slot_taken", "uniform_taken", "goalie_taken"}
ServerStatus == [type: {"ping"}, to: Client \cup {None}, ping: Clock!Pong]
ServerTransaction ==
    [type: {"regError"}, to: Client, error: RegisterError] \cup
    [type: {"regAck"}, to: Client \cup {None}, uniform: Uniform, side: Side,
     ptype: PlayerType]

ServerInit ==
    /\ state = "waiting"
    /\ enrollment = EmptyEnrollment
    /\ roster = None
    /\ game_state = FALSE
    /\ monitor = Clock!NewMonitor
    /\ frame = 0
    /\ step = "ref"
    /\ pending = <<[queue |-> "ref_input", msg |-> [type |-> "rules"]]>>  \* ref_spawned
    /\ halted = "no"
    /\ time = 0
    /\ ref_input = <<>> /\ ref_output = <<>>
    /\ server_status = <<>> /\ server_trans = <<>>
    /\ client_status = <<>> /\ client_trans = <<>>

\* The main thread is free to go on.
Running == halted = "no" /\ pending = <<>>

-----------------------------------------------------------------------------
(* Handlers.  Each says what becomes of the handle, pending and halted.     *)

Keep == UNCHANGED <<handle, pending, halted, time>>

\* Faulty variant: the new handle starts without a roster.
MoveTo_bare(next) ==
    /\ state' = next
    /\ roster' = None
    /\ UNCHANGED <<enrollment, game_state, monitor, pending, halted, time>>

\* A handler that only carries the handle over to another state.
MoveTo(next) ==
    /\ state' = next
    /\ UNCHANGED <<enrollment, roster, game_state, monitor, pending, halted, time>>

Halt(handler) == halted' = handler /\ UNCHANGED <<handle, pending, time>>

SendTo(queue, msg) == [queue |-> queue, msg |-> msg]

\* The players of a roster, in the order of their identifiers.
Recipients(r) ==
    [i \in 1..Cardinality(PlayerId) |-> [id |-> i - 1, client |-> r.players[i - 1]]]

\* Faulty variants: the identifier is sent for the uniform; the team is not set.
RegAck_raw(id, client) ==
    SendTo("server_trans", [type |-> "regAck", to |-> client, uniform |-> id,
                            side |-> id_to_uniform(id).side, ptype |-> "outField"])

RegAck_alpha(id, client) ==
    SendTo("server_trans", [type |-> "regAck", to |-> client,
                            uniform |-> id_to_uniform(id).uniform,
                            side |-> "alpha", ptype |-> "outField"])

\* The acknowledgement leaves playerType at the default of the schema.
RegAck(id, client) ==
    SendTo("server_trans",
           [type |-> "regAck", to |-> client, uniform |-> id_to_uniform(id).uniform,
            side |-> id_to_uniform(id).side, ptype |-> "outField"])

\* One acknowledgement for every player.
RegAcks(r) ==
    [i \in DOMAIN Recipients(r) |-> RegAck(Recipients(r)[i].id, Recipients(r)[i].client)]

\* Faulty variant: the enrollment is not reset.
roster_finalised_kept ==
    IF enrollment = None \/ ~is_full(enrollment)
    THEN Halt("roster_finalised")
    ELSE /\ state' = "onbreak"
         /\ roster' = finalise(enrollment)
         /\ game_state' = TRUE
         /\ pending' = RegAcks(roster')
         /\ UNCHANGED <<enrollment, monitor, halted, time>>

roster_finalised ==
    IF enrollment = None \/ ~is_full(enrollment)
    THEN Halt("roster_finalised")
    ELSE /\ state' = "onbreak"
         /\ roster' = finalise(enrollment)
         /\ enrollment' = None
         /\ game_state' = TRUE
         /\ pending' = RegAcks(roster')
         /\ UNCHANGED <<monitor, halted, time>>

registration_requested(client, request) ==
    LET result == register_result(enrollment, request)
    IN  IF enrollment = None THEN Halt("registration_requested")
        ELSE /\ enrollment' = register_client(enrollment, client, request)
             /\ pending' =
                  IF result = "success"
                  THEN <<SendTo("ref_input", [type |-> "registration", client |-> client,
                                              request |-> request])>>
                  ELSE <<SendTo("server_trans",
                                [type |-> "regError", to |-> client, error |-> result])>>
             /\ UNCHANGED <<state, roster, game_state, monitor, halted, time>>

\* One ping for every player.  "sent" numbers the ping for the clock monitor.
ping_timedout ==
    LET sent == Clock!record_transmit(monitor, time + 1)
        PingOf(player) ==
            SendTo("server_status",
                   [type |-> "ping", to |-> player.client,
                    ping |-> [seq |-> sent.current, sent |-> time + 1]])
    IN  /\ monitor' = sent
        /\ pending' = [i \in DOMAIN Recipients(roster) |-> PingOf(Recipients(roster)[i])]
        /\ time' = time + 1
        /\ UNCHANGED <<state, enrollment, roster, game_state, halted>>

received_pong(client, pong) ==
    /\ monitor' = Clock!record_receive(monitor, client, pong)
    /\ UNCHANGED <<state, enrollment, roster, game_state, pending, halted, time>>

\* Faulty variants: RosterFinalised is handled on a break too; a match can be
\* aborted before it begins.
FromReferee_refinalise(type) ==
    CASE state # "playing" /\ type = "rosterFinalised" -> roster_finalised
      [] OTHER -> Keep

FromReferee_abort(type) ==
    CASE state = "waiting" /\ type = "rosterFinalised" -> roster_finalised
      [] state # "waiting" /\ type \in {"matchClose", "matchAbort"} -> MoveTo("waiting")
      [] OTHER -> Keep

\* The handlers ref_crashed, disconnected, status_uploaded, control_actioned,
\* play_judged, simulation_timedout and snapshot_timedout do nothing at all.
FromReferee(type) ==
    CASE state = "waiting" /\ type = "rosterFinalised" -> roster_finalised
      [] state = "onbreak" /\ type = "fieldOpen" -> MoveTo("playing")
      [] state = "playing" /\ type \in {"matchClose", "matchAbort"} -> MoveTo("waiting")
      [] OTHER -> Keep

FromClientStatus(msg) ==
    IF state = "onbreak" /\ msg.type = "pong"
    THEN received_pong(msg.from, msg.pong)
    ELSE Keep

FromClientTrans(msg) ==
    IF state \in {"waiting", "playing"} /\ msg.type = "registration"
    THEN registration_requested(msg.from, msg.request)
    ELSE Keep

-----------------------------------------------------------------------------
(* The steps of a frame. *)

TakeRefOutput ==
    /\ Running /\ step = "ref"
    /\ step' = "status"
    /\ frame' = (frame + 1) % FramePeriod
    /\ IF ref_output = <<>> THEN Keep /\ UNCHANGED ref_output
       ELSE FromReferee(Head(ref_output)) /\ ref_output' = Tail(ref_output)
    /\ UNCHANGED <<client_status, client_trans, outbound>>

TakeClientStatus ==
    /\ Running /\ step = "status"
    /\ step' = "trans"
    /\ IF client_status = <<>> THEN Keep /\ UNCHANGED client_status
       ELSE /\ FromClientStatus(Head(client_status))
            /\ client_status' = Tail(client_status)
    /\ UNCHANGED <<frame, ref_output, client_trans, outbound>>

TakeClientTrans ==
    /\ Running /\ step = "trans"
    /\ step' = "timers"
    /\ IF client_trans = <<>> THEN Keep /\ UNCHANGED client_trans
       ELSE /\ FromClientTrans(Head(client_trans))
            /\ client_trans' = Tail(client_trans)
    /\ UNCHANGED <<frame, ref_output, client_status, outbound>>

RunTimers ==
    /\ Running /\ step = "timers"
    /\ step' = "ref"
    /\ IF state = "onbreak" /\ frame % PingFrequency = 0 /\ time < MaxPings
       THEN ping_timedout
       ELSE Keep
    /\ UNCHANGED <<frame, inbound, outbound>>

\* Faulty variant: the message is offered to its queue and never let go.
Enqueue_again ==
    /\ halted = "no" /\ pending # <<>>
    /\ Head(pending).queue = "ref_input"
    /\ Len(ref_input) < RefQueueLength
    /\ ref_input' = Append(ref_input, Head(pending).msg)
    /\ UNCHANGED <<handle, loop, server_status, server_trans, inbound>>

\* One message of a handler reaches its queue, once there is room.
Enqueue ==
    LET first == Head(pending)
        Room(queue, length) == Len(queue) < length
    IN  /\ halted = "no" /\ pending # <<>>
        /\ CASE first.queue = "ref_input" ->
                  /\ Room(ref_input, RefQueueLength)
                  /\ ref_input' = Append(ref_input, first.msg)
                  /\ UNCHANGED <<server_status, server_trans>>
             [] first.queue = "server_status" ->
                  /\ Room(server_status, ClientQueueLength)
                  /\ server_status' = Append(server_status, first.msg)
                  /\ UNCHANGED <<ref_input, server_trans>>
             [] first.queue = "server_trans" ->
                  /\ Room(server_trans, ClientQueueLength)
                  /\ server_trans' = Append(server_trans, first.msg)
                  /\ UNCHANGED <<ref_input, server_status>>
        /\ pending' = Tail(pending)
        /\ UNCHANGED <<handle, frame, step, halted, time, inbound>>

ServerNext ==
    TakeRefOutput \/ TakeClientStatus \/ TakeClientTrans \/ RunTimers \/ Enqueue

ServerTypeOK ==
    /\ state \in {"waiting", "onbreak", "playing"}
    /\ enrollment \in EnrollmentType \cup {None}
    /\ roster \in RosterType \cup {None}
    /\ game_state \in BOOLEAN
    /\ frame \in 0..(FramePeriod - 1)
    /\ step \in {"ref", "status", "trans", "timers"}
    /\ halted \in {"no", "roster_finalised", "registration_requested"}
    /\ time \in 0..MaxPings
    /\ ref_input \in Seq(RefInput)
    /\ ref_output \in Seq(RefOutput)
    /\ server_status \in Seq(ServerStatus)
    /\ server_trans \in Seq(ServerTransaction)
    /\ client_status \in Seq(ClientStatus)
    /\ client_trans \in Seq(ClientTransaction)
    /\ \A i \in 1..Len(pending) :
        \/ pending[i].queue = "ref_input" /\ pending[i].msg \in RefInput
        \/ pending[i].queue = "server_status" /\ pending[i].msg \in ServerStatus
        \/ pending[i].queue = "server_trans" /\ pending[i].msg \in ServerTransaction
=============================================================================
