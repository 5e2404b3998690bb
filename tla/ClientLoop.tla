----------------------------- MODULE ClientLoop -----------------------------
(***************************************************************************)
(* The client program: its main thread, client::run (client/main.cxx) with *)
(* the event handlers (client/event.cxx), its I/O thread towards the       *)
(* server (client/server_io.cxx) and the messages its bot sends            *)
(* (client/bot_io.cxx).  A frame takes at most one message from each       *)
(* inbound queue, in the order bot, server status, server transaction; the *)
(* timers' handlers do nothing, and a frame ends with the transaction.     *)
(*                                                                         *)
(* The server and the bot send any message of the protocols at any time.   *)
(* Status messages are unreliable: pings, told apart by their sequence     *)
(* numbers, come in any order or not at all.                               *)
(***************************************************************************)
EXTENDS Naturals, Sequences

CONSTANTS
    Ack,                       \* places a RegistrationAck can tell
    None,
    ServerQueueLength, BotQueueLength,  \* capacities of the queues
    MaxPings,                  \* bound: pings of the server
    Budget                     \* bound: all other messages

ASSUME ClientAssumption ==
    /\ None \notin Ack
    /\ ServerQueueLength \in Nat \ {0}
    /\ BotQueueLength \in Nat \ {0}
    /\ MaxPings \in Nat
    /\ Budget \in Nat

VARIABLES
    client_state, game_state,               \* the basic_handle
    step, pending,                          \* the loop
    bot_output, server_status, server_trans, client_status, client_trans,
    stopped, draining, wire,                \* server_io, and what it has sent
    heard, received                         \* pings handed over; other messages

handle == <<client_state, game_state>>
loop == <<step, pending>>
inbound == <<bot_output, server_status, server_trans>>
outbound == <<client_status, client_trans>>
serverIoVars == <<stopped, draining, wire>>
environment == <<heard, received>>
vars == <<handle, loop, inbound, outbound, serverIoVars, environment>>

BotOutput == {"action", "query", "shutDown", "crash"}
ServerStatus == [type: {"ping"}, seq: 1..MaxPings] \cup [type: {"snapshot"}]
ServerTransaction ==
    [type: {"regAck"}, ack: Ack] \cup
    [type: {"regError", "fieldOpen", "playJudgement", "matchClose", "matchAbort",
            "disconnect"}]     \* the last is made by on_disconnect alone
ClientStatus == [type: {"pong"}, seq: 1..MaxPings]
ClientTransaction == [type: {"registration"}]

\* What the program asks for when it starts.
spawned == <<[type |-> "registration"]>>

Init ==
    /\ client_state = "unregistered"
    /\ game_state = None
    /\ step = "bot"
    /\ pending = spawned
    /\ bot_output = <<>>
    /\ server_status = <<>> /\ server_trans = <<>>
    /\ client_status = <<>> /\ client_trans = <<>>
    /\ stopped = FALSE
    /\ draining = "trans"
    /\ wire = <<>>
    /\ heard = <<>>
    /\ received = 0

-----------------------------------------------------------------------------
(* Handlers. *)

Keep == UNCHANGED <<handle, pending>>

\* The player and the simulation are carried over from state to state.
MoveTo(next) ==
    /\ client_state' = next
    /\ UNCHANGED <<game_state, pending>>

registration_succeeded(ack) ==
    /\ client_state' = "onbench"
    /\ game_state' = ack
    /\ UNCHANGED pending

\* Faulty variant: the pong is sent with the retry and again after it.
received_ping_twice(seq) ==
    /\ pending' = <<[type |-> "pong", seq |-> seq], [type |-> "pong", seq |-> seq]>>
    /\ UNCHANGED handle

received_ping(seq) ==
    /\ pending' = <<[type |-> "pong", seq |-> seq]>>
    /\ UNCHANGED handle

FromBot(output) ==
    IF client_state = "playing" /\ output = "crash" THEN MoveTo("onbench") ELSE Keep

FromServerStatus(msg) ==
    IF client_state = "onbench" /\ msg.type = "ping" THEN received_ping(msg.seq) ELSE Keep

\* Faulty variants: the bench is not left when the connection is lost; a second
\* acknowledgement changes the player on the bench; the field opens for clients
\* that have no place.
FromServerTrans_stay(msg) ==
    CASE client_state = "unregistered" /\ msg.type = "regAck" ->
            registration_succeeded(msg.ack)
      [] client_state = "onbench" /\ msg.type = "fieldOpen" -> MoveTo("playing")
      [] client_state = "onbench" /\ msg.type = "matchAbort" -> MoveTo("unregistered")
      [] client_state = "playing"
         /\ msg.type \in {"matchClose", "matchAbort", "disconnect"} ->
            MoveTo("unregistered")
      [] OTHER -> Keep

FromServerTrans_again(msg) ==
    CASE client_state # "playing" /\ msg.type = "regAck" -> registration_succeeded(msg.ack)
      [] OTHER -> Keep

FromServerTrans_open(msg) ==
    CASE client_state # "playing" /\ msg.type = "fieldOpen" -> MoveTo("playing")
      [] OTHER -> Keep

\* The first handler written for a state takes the message: of the two that
\* client::run has for the bench, the second is never called.
FromServerTrans(msg) ==
    CASE client_state = "unregistered" /\ msg.type = "regAck" ->
            registration_succeeded(msg.ack)
      [] client_state = "onbench" /\ msg.type = "fieldOpen" -> MoveTo("playing")
      [] client_state = "onbench" /\ msg.type \in {"matchAbort", "disconnect"} ->
            MoveTo("unregistered")
      [] client_state = "playing"
         /\ msg.type \in {"matchClose", "matchAbort", "disconnect"} ->
            MoveTo("unregistered")
      [] OTHER -> Keep

-----------------------------------------------------------------------------
(* The steps of a frame. *)

TakeBotOutput ==
    /\ pending = <<>> /\ step = "bot"
    /\ step' = "status"
    /\ IF bot_output = <<>> THEN Keep /\ UNCHANGED bot_output
       ELSE FromBot(Head(bot_output)) /\ bot_output' = Tail(bot_output)
    /\ UNCHANGED <<server_status, server_trans, outbound, serverIoVars, environment>>

TakeServerStatus ==
    /\ pending = <<>> /\ step = "status"
    /\ step' = "trans"
    /\ IF server_status = <<>> THEN Keep /\ UNCHANGED server_status
       ELSE /\ FromServerStatus(Head(server_status))
            /\ server_status' = Tail(server_status)
    /\ UNCHANGED <<bot_output, server_trans, outbound, serverIoVars, environment>>

TakeServerTrans ==
    /\ pending = <<>> /\ step = "trans"
    /\ step' = "bot"
    /\ IF server_trans = <<>> THEN Keep /\ UNCHANGED server_trans
       ELSE /\ FromServerTrans(Head(server_trans))
            /\ server_trans' = Tail(server_trans)
    /\ UNCHANGED <<bot_output, server_status, outbound, serverIoVars, environment>>

\* Faulty variant: one message more than the queue has room for.
Enqueue_over ==
    /\ pending # <<>>
    /\ IF Head(pending).type = "pong"
       THEN /\ Len(client_status) <= ServerQueueLength
            /\ client_status' = Append(client_status, Head(pending))
            /\ UNCHANGED client_trans
       ELSE client_trans' = Append(client_trans, Head(pending)) /\ UNCHANGED client_status
    /\ pending' = Tail(pending)
    /\ UNCHANGED <<handle, step, inbound, serverIoVars, environment>>

\* A handler waits until there is room for its message (retry_with_random_backoff).
Enqueue ==
    /\ pending # <<>>
    /\ IF Head(pending).type = "pong"
       THEN /\ Len(client_status) < ServerQueueLength
            /\ client_status' = Append(client_status, Head(pending))
            /\ UNCHANGED client_trans
       ELSE /\ Len(client_trans) < ServerQueueLength
            /\ client_trans' = Append(client_trans, Head(pending))
            /\ UNCHANGED client_status
    /\ pending' = Tail(pending)
    /\ UNCHANGED <<handle, step, inbound, serverIoVars, environment>>

MainThread == TakeBotOutput \/ TakeServerStatus \/ TakeServerTrans \/ Enqueue

-----------------------------------------------------------------------------
(* server_io, outbound: handle_client_msg drains the transaction queue until *)
(* it finds it empty, then the status queue, and comes again.                *)

send_client_trans ==
    /\ ~stopped /\ draining = "trans" /\ client_trans # <<>>
    /\ wire' = Append(wire, Head(client_trans))
    /\ client_trans' = Tail(client_trans)
    /\ UNCHANGED <<handle, loop, inbound, client_status, stopped, draining, environment>>

send_client_status ==
    /\ ~stopped /\ draining = "status" /\ client_status # <<>>
    /\ wire' = Append(wire, Head(client_status))
    /\ client_status' = Tail(client_status)
    /\ UNCHANGED <<handle, loop, inbound, client_trans, stopped, draining, environment>>

\* Faulty variant: the status queue is never reached.
found_queue_empty_trans ==
    /\ ~stopped /\ client_trans = <<>>
    /\ draining' = "trans"
    /\ UNCHANGED <<handle, loop, inbound, outbound, stopped, wire, environment>>

found_queue_empty ==
    /\ ~stopped
    /\ \/ draining = "trans" /\ client_trans = <<>> /\ draining' = "status"
       \/ draining = "status" /\ client_status = <<>> /\ draining' = "trans"
    /\ UNCHANGED <<handle, loop, inbound, outbound, stopped, wire, environment>>

handle_client_msg == send_client_trans \/ send_client_status \/ found_queue_empty

(* server_io and bot_io, inbound: a message that finds its queue full is dropped. *)

Offer(queue, length, msg) == IF Len(queue) < length THEN Append(queue, msg) ELSE queue

on_receive_ping(seq) ==
    /\ ~stopped /\ \A i \in 1..Len(heard) : heard[i] # seq
    /\ heard' = Append(heard, seq)
    /\ server_status' =
         Offer(server_status, ServerQueueLength, [type |-> "ping", seq |-> seq])
    /\ UNCHANGED <<handle, loop, bot_output, server_trans, outbound, serverIoVars, received>>

on_receive_snapshot ==
    /\ ~stopped /\ received < Budget /\ received' = received + 1
    /\ server_status' = Offer(server_status, ServerQueueLength, [type |-> "snapshot"])
    /\ UNCHANGED <<handle, loop, bot_output, server_trans, outbound, serverIoVars, heard>>

on_receive_server_trans(msg) ==
    /\ ~stopped /\ received < Budget /\ received' = received + 1
    /\ server_trans' = Offer(server_trans, ServerQueueLength, msg)
    /\ UNCHANGED <<handle, loop, bot_output, server_status, outbound, serverIoVars, heard>>

\* The I/O thread ends, whatever its queues hold.
on_disconnect ==
    /\ ~stopped /\ stopped' = TRUE
    /\ server_trans' = Offer(server_trans, ServerQueueLength, [type |-> "disconnect"])
    /\ UNCHANGED <<handle, loop, bot_output, server_status, outbound, draining, wire,
                   environment>>

bot_receive(output) ==
    /\ received < Budget /\ received' = received + 1
    /\ bot_output' = Offer(bot_output, BotQueueLength, output)
    /\ UNCHANGED <<handle, loop, server_status, server_trans, outbound, serverIoVars, heard>>

-----------------------------------------------------------------------------

Next ==
    \/ MainThread \/ handle_client_msg
    \/ \E seq \in 1..MaxPings : on_receive_ping(seq)
    \/ on_receive_snapshot
    \/ \E msg \in {m \in ServerTransaction : m.type # "disconnect"} :
          on_receive_server_trans(msg)
    \/ on_disconnect
    \/ \E output \in BotOutput : bot_receive(output)

Spec == Init /\ [][Next]_vars

TypeOK ==
    /\ client_state \in {"unregistered", "onbench", "playing"}
    /\ game_state \in Ack \cup {None}
    /\ step \in {"bot", "status", "trans"}
    /\ pending \in Seq(ClientStatus \cup ClientTransaction)
    /\ bot_output \in Seq(BotOutput)
    /\ server_status \in Seq(ServerStatus)
    /\ server_trans \in Seq(ServerTransaction)
    /\ client_status \in Seq(ClientStatus)
    /\ client_trans \in Seq(ClientTransaction)
    /\ stopped \in BOOLEAN
    /\ draining \in {"trans", "status"}
    /\ wire \in Seq(ClientStatus \cup ClientTransaction)
    /\ heard \in Seq(1..MaxPings)
    /\ received \in 0..Budget
    /\ Len(client_status) <= ServerQueueLength /\ Len(client_trans) <= ServerQueueLength

\* Where the pongs of the client are, and behind them the pings that still wait: those
\* sent, those queued, the one in hand.
Places == <<wire, client_status, pending, server_status>>

Numbered(m) == m.type \in {"ping", "pong"}

\* The client was sent the ping of the one number before that of the other.
HeardBefore(seq, next) ==
    \E k, l \in 1..Len(heard) : k < l /\ heard[k] = seq /\ heard[l] = next

\* The pongs answer pings that the client was sent, none twice, in the order in
\* which they came, and before those that still wait: the server's clock monitor
\* pairs each pong with the one ping of its number.
PongsAnswerPings ==
    \A a, b \in 1..4 : \A i \in 1..Len(Places[a]), j \in 1..Len(Places[b]) :
        LET m == Places[a][i]
            n == Places[b][j]
        IN  Numbered(m) /\ Numbered(n) =>
                /\ \E k \in 1..Len(heard) : heard[k] = m.seq
                /\ a < b \/ (a = b /\ i < j) => HeardBefore(m.seq, n.seq)

\* A client on the bench or in play has a player, and remains that player whatever
\* the server sends, until its registration ends.
PlayerKept ==
    [][/\ client_state # "unregistered" => game_state' = game_state
       /\ client_state' # "unregistered" => game_state' # None]_vars

\* The states follow one another as in client-state.dia: only a registered client
\* plays, and only from play does a crash of the bot lead back to the bench.
ClientLifecycle ==
    [][client_state' # client_state =>
          <<client_state, client_state'>> \in
              {<<"unregistered", "onbench">>, <<"onbench", "playing">>,
               <<"playing", "onbench">>, <<"onbench", "unregistered">>,
               <<"playing", "unregistered">>}]_vars

-----------------------------------------------------------------------------
(* Fairness: the main thread never returns, and handle_client_msg posts itself *)
(* again until the thread is stopped.                                          *)

FairSpec == Spec /\ WF_vars(MainThread) /\ WF_vars(handle_client_msg)

\* While the connection stands the loop comes round to the next frame, however
\* long a handler waits for room.
LoopGoesOn == []<>(stopped \/ (step = "bot" /\ pending = <<>>))

\* The loop waits for room that the stopped thread will never make.
WaitsForNobody ==
    stopped /\ pending # <<>> /\ Len(client_status) = ServerQueueLength

\* A lost connection that the main thread is told of ends the registration for
\* good, unless the client has more pings to answer than it has room for pongs.
DisconnectionLeaves ==
    (\E i \in 1..Len(server_trans) : server_trans[i].type = "disconnect")
        ~> [](client_state = "unregistered" \/ WaitsForNobody)
=============================================================================
