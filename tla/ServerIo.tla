------------------------------ MODULE ServerIo ------------------------------
(***************************************************************************)
(* The two I/O threads of the server: ref_io (server/ref_io.cxx) between   *)
(* its queues and the referee's pipes, client_io (server/client_io.cxx)    *)
(* between its queues and the clients.                                     *)
(*                                                                         *)
(* uplink[c] holds what has happened at client c that the server has not   *)
(* yet been told: it connected, sent a transaction, disconnected.  The     *)
(* transport hands the server one of these for each async_receive, so      *)
(* every handler asks for the next; "listening" says whether one asked.    *)
(* A status message is handed over in the step it is sent, or lost.        *)
(***************************************************************************)
EXTENDS Server, Referee

VARIABLES draining, listening, connected, uplink, delivered

clientIoVars == <<draining, listening, connected, uplink, delivered>>

IoInit ==
    /\ draining = "trans"
    /\ listening = TRUE
    /\ connected = {}
    /\ uplink = [c \in Client |-> <<>>]
    /\ delivered = [c \in Client |-> <<>>]

-----------------------------------------------------------------------------
(* ref_io *)

\* Faulty variant: a message that finds the pipe busy is dropped.
ref_io_send_lossy ==
    /\ halted = "no" /\ ref_input # <<>>
    /\ to_referee' = IF to_referee = <<>> THEN <<Head(ref_input)>> ELSE to_referee
    /\ ref_input' = Tail(ref_input)
    /\ UNCHANGED <<handle, loop, server_status, server_trans, inbound, clientIoVars,
                   referee_enrollment, referee_roster, referee_halted, from_referee>>

ref_io_send ==
    /\ halted = "no" /\ ref_input # <<>>
    /\ to_referee' = Append(to_referee, Head(ref_input))
    /\ ref_input' = Tail(ref_input)
    /\ UNCHANGED <<handle, loop, server_status, server_trans, inbound, clientIoVars,
                   referee_enrollment, referee_roster, referee_halted, from_referee>>

\* A full queue drops the message.
ref_io_receive ==
    /\ halted = "no" /\ from_referee # <<>>
    /\ from_referee' = Tail(from_referee)
    /\ ref_output' = IF Len(ref_output) < RefQueueLength
                     THEN Append(ref_output, Head(from_referee)) ELSE ref_output
    /\ UNCHANGED <<handle, loop, outbound, client_status, client_trans, clientIoVars,
                   referee_enrollment, referee_roster, referee_halted, to_referee>>

-----------------------------------------------------------------------------
(* client_io: towards the clients.  handle_server_msg drains the transaction *)
(* queue until it finds it empty, then the status queue, and comes again.    *)

send_server_trans ==
    LET msg == Head(server_trans)
    IN  /\ halted = "no" /\ draining = "trans" /\ server_trans # <<>>
        /\ server_trans' = Tail(server_trans)
        /\ delivered' = IF msg.to \in connected
                        THEN [delivered EXCEPT ![msg.to] = Append(@, msg)]
                        ELSE delivered
        /\ UNCHANGED <<handle, loop, ref_input, server_status, inbound, draining,
                       listening, connected, uplink, refereeVars>>

Acknowledged(c) == \E i \in 1..Len(delivered[c]) : delivered[c][i].type = "regAck"

\* A client on the bench answers a ping at once; the ping or the answer may be
\* lost, and on_receive_client_status drops an answer its queue has no room for.
send_server_status ==
    LET msg == Head(server_status)
        answers == /\ msg.to \in connected /\ Acknowledged(msg.to)
                   /\ listening /\ Len(client_status) < ClientQueueLength
    IN  /\ halted = "no" /\ draining = "status" /\ server_status # <<>>
        /\ server_status' = Tail(server_status)
        /\ \/ UNCHANGED client_status
           \/ /\ answers
              /\ client_status' = Append(client_status,
                     [type |-> "pong", from |-> msg.to, pong |-> msg.ping])
        /\ UNCHANGED <<handle, loop, ref_input, server_trans, ref_output, client_trans,
                       clientIoVars, refereeVars>>

found_queue_empty ==
    /\ halted = "no"
    /\ \/ draining = "trans" /\ server_trans = <<>> /\ draining' = "status"
       \/ draining = "status" /\ server_status = <<>> /\ draining' = "trans"
    /\ UNCHANGED <<serverVars, listening, connected, uplink, delivered, refereeVars>>

-----------------------------------------------------------------------------
(* client_io: from the clients. *)

Hear(c, type) ==
    /\ halted = "no" /\ listening
    /\ uplink[c] # <<>> /\ Head(uplink[c]).type = type
    /\ uplink' = [uplink EXCEPT ![c] = Tail(@)]
    /\ UNCHANGED <<handle, loop, outbound, ref_output, client_status, draining,
                   delivered, refereeVars>>

\* A message the queue has no room for is dropped.
Offer(msg) ==
    client_trans' = IF Len(client_trans) < ClientQueueLength
                    THEN Append(client_trans, msg) ELSE client_trans

on_connect(c) ==
    /\ Hear(c, "connect")
    /\ connected' = connected \cup {c}
    /\ UNCHANGED <<listening, client_trans>>

\* Faulty variant: the next event is not asked for.
on_receive_client_trans_once(c) ==
    /\ Hear(c, "registration")
    /\ Offer(Head(uplink[c]))
    /\ listening' = FALSE
    /\ UNCHANGED connected

on_receive_client_trans(c) ==
    /\ Hear(c, "registration")
    /\ Offer(Head(uplink[c]))
    /\ UNCHANGED <<listening, connected>>

\* The message does not say who is gone, and the next event is not asked for.
on_disconnect(c) ==
    /\ Hear(c, "disconnect")
    /\ Offer([type |-> "disconnect"])
    /\ connected' = connected \ {c}
    /\ listening' = FALSE

IoNext ==
    \/ ref_io_send \/ ref_io_receive
    \/ send_server_trans \/ send_server_status \/ found_queue_empty
    \/ \E c \in Client :
          on_connect(c) \/ on_receive_client_trans(c) \/ on_disconnect(c)
=============================================================================
