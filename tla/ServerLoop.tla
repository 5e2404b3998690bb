----------------------------- MODULE ServerLoop -----------------------------
(***************************************************************************)
(* The server's main thread in the most general environment: the referee   *)
(* and the clients send any message of the protocols at any time, and the  *)
(* I/O threads take outbound messages whenever they like.                  *)
(***************************************************************************)
EXTENDS Server

CONSTANTS
    Requests,     \* the registration requests clients make
    RefOutputs,   \* the kinds of message the referee sends
    Budget        \* bound: number of inbound messages

ASSUME ServerLoopAssumption ==
    /\ Requests \subseteq Request
    /\ RefOutputs \subseteq RefOutput
    /\ Budget \in Nat

VARIABLE sent

vars == <<serverVars, sent>>

Init == ServerInit /\ sent = 0

MainThread == ServerNext /\ UNCHANGED sent

\* The far end of an inbound queue adds a message while there is room: one that
\* finds the queue full is dropped, which is no step of this module.
RefereeSends(output) ==
    /\ sent < Budget /\ sent' = sent + 1
    /\ Len(ref_output) < RefQueueLength
    /\ ref_output' = Append(ref_output, output)
    /\ UNCHANGED <<handle, loop, outbound, client_status, client_trans>>

ClientSendsStatus(msg) ==
    /\ sent < Budget /\ sent' = sent + 1
    /\ Len(client_status) < ClientQueueLength
    /\ client_status' = Append(client_status, msg)
    /\ UNCHANGED <<handle, loop, outbound, ref_output, client_trans>>

ClientSendsTrans(msg) ==
    /\ sent < Budget /\ sent' = sent + 1
    /\ Len(client_trans) < ClientQueueLength
    /\ client_trans' = Append(client_trans, msg)
    /\ UNCHANGED <<handle, loop, outbound, ref_output, client_status>>

Transactions ==
    [type: {"registration"}, from: Client, request: Requests] \cup
    [type: {"action"}, from: Client] \cup [type: {"disconnect"}]

Statuses ==
    [type: {"status"}, from: Client] \cup
    [type: {"pong"}, from: Client, pong: [seq: {1 % SeqModulus}, sent: {1}]]

DrainRefInput ==
    /\ ref_input # <<>> /\ ref_input' = Tail(ref_input)
    /\ UNCHANGED <<handle, loop, inbound, server_status, server_trans, sent>>

DrainServerStatus ==
    /\ server_status # <<>> /\ server_status' = Tail(server_status)
    /\ UNCHANGED <<handle, loop, inbound, ref_input, server_trans, sent>>

DrainServerTrans ==
    /\ server_trans # <<>> /\ server_trans' = Tail(server_trans)
    /\ UNCHANGED <<handle, loop, inbound, ref_input, server_status, sent>>

Next ==
    \/ MainThread
    \/ \E output \in RefOutputs : RefereeSends(output)
    \/ \E msg \in Statuses : ClientSendsStatus(msg)
    \/ \E msg \in Transactions : ClientSendsTrans(msg)
    \/ DrainRefInput \/ DrainServerStatus \/ DrainServerTrans

Spec == Init /\ [][Next]_vars

-----------------------------------------------------------------------------

TypeOK == ServerTypeOK /\ sent \in 0..Budget

\* The objects of the handle are in step with its state, whatever order the
\* referee's messages come in: the server has either an enrollment or a final
\* roster, never both and never neither; on a break and in play it has the roster
\* that ping_timedout walks over, and a game state.
ObjectsInStep ==
    /\ (enrollment = None) <=> (roster # None)
    /\ state # "waiting" => roster # None /\ game_state

\* What ends the server: a registration or a second RosterFinalised after the
\* roster is final, or a RosterFinalised that comes before every place is taken.
HaltedForAReason ==
    /\ halted = "registration_requested" => roster # None
    /\ halted = "roster_finalised" =>
        state = "waiting" /\ (roster # None \/ ~is_full(enrollment))

\* One server process finalises one roster: no later message replaces it.
RosterIsFinal == [][roster # None => roster' = roster]_vars

\* A break is left only for play, and play only for waiting: in particular no
\* crash of the referee and no client changes the state (server-state.dia).
LifecycleOrder ==
    [][state' # state =>
          <<state, state'>> \in {<<"waiting", "onbreak">>, <<"onbreak", "playing">>,
                                 <<"playing", "waiting">>}]_vars
=============================================================================
