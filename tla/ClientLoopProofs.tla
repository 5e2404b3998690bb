-------------------------- MODULE ClientLoopProofs --------------------------
(***************************************************************************)
(* The life of a client process, proved for any queue lengths, any number  *)
(* of places, pings and messages, in any order.                            *)
(***************************************************************************)
EXTENDS ClientLoop, SequenceTheorems, TLAPS

\* A client that is registered has a player.
HasPlayer == client_state # "unregistered" => game_state # None

IInv == TypeOK /\ HasPlayer

-----------------------------------------------------------------------------

\* What the handlers may do to the handle.
Registers ==
    /\ client_state = "unregistered" /\ client_state' = "onbench"
    /\ game_state' \in Ack

Moves ==
    /\ <<client_state, client_state'>> \in
          {<<"onbench", "playing">>, <<"playing", "onbench">>,
           <<"onbench", "unregistered">>, <<"playing", "unregistered">>}
    /\ game_state' = game_state

Effect == Registers \/ Moves \/ UNCHANGED handle

\* A handler leaves at most one message in hand, and one of the protocol.
InHand == pending' = <<>> \/ \E m \in ClientStatus : pending' = <<m>>

\* A message of the bot only takes a client from play to the bench (bot_crashed).
LEMMA BotEffect ==
  ASSUME NEW output, FromBot(output)
  PROVE  Effect /\ pending' = pending
BY DEF FromBot, MoveTo, Keep, handle, Effect, Moves

\* A status message leaves the handle alone (received_ping, received_snapshot).
LEMMA StatusEffect ==
  ASSUME NEW msg \in ServerStatus, FromServerStatus(msg), pending = <<>>
  PROVE  UNCHANGED handle /\ InHand
<1>1. CASE msg.type = "ping" /\ received_ping(msg.seq)
  <2>1. [type |-> "pong", seq |-> msg.seq] \in ClientStatus
    BY <1>1 DEF ServerStatus, ClientStatus
  <2> QED
    BY <1>1, <2>1 DEF received_ping, InHand
<1>2. CASE Keep
  BY <1>2 DEF Keep, InHand, handle
<1> QED
  BY <1>1, <1>2 DEF FromServerStatus

\* A transaction registers the client or moves it between states.
LEMMA TransEffect ==
  ASSUME NEW msg \in ServerTransaction, FromServerTrans(msg)
  PROVE  Effect /\ pending' = pending
<1>1. \/ /\ client_state = "unregistered" /\ msg.type = "regAck"
         /\ registration_succeeded(msg.ack)
      \/ client_state = "onbench" /\ MoveTo("playing")
      \/ client_state = "onbench" /\ MoveTo("unregistered")
      \/ client_state = "playing" /\ MoveTo("unregistered")
      \/ Keep
  BY Zenon DEF FromServerTrans
<1>2. ASSUME client_state = "unregistered", msg.type = "regAck",
             registration_succeeded(msg.ack)
      PROVE  Registers /\ pending' = pending
  <2>1. msg.ack \in Ack
    BY <1>2 DEF ServerTransaction
  <2> QED
    BY <1>2, <2>1 DEF registration_succeeded, Registers
<1>3. ASSUME NEW next, MoveTo(next),
             <<client_state, next>> \in
               {<<"onbench", "playing">>, <<"onbench", "unregistered">>,
                <<"playing", "unregistered">>}
      PROVE  Moves /\ pending' = pending
  BY <1>3 DEF MoveTo, Moves
<1>4. ASSUME Keep PROVE UNCHANGED handle /\ pending' = pending
  BY <1>4 DEF Keep
<1> QED
  BY <1>1, <1>2, <1>3, <1>4 DEF Effect

-----------------------------------------------------------------------------

\* A message offered to a queue keeps its type and its bound (try_enqueue_move).
LEMMA OfferType ==
  ASSUME NEW S, NEW queue \in Seq(S), NEW length, NEW msg \in S
  PROVE  Offer(queue, length, msg) \in Seq(S)
BY AppendProperties DEF Offer

\* A queue that a message is taken from.
LEMMA TakeType ==
  ASSUME NEW S, NEW queue \in Seq(S), queue # <<>>
  PROVE  Head(queue) \in S /\ Tail(queue) \in Seq(S) /\ Len(Tail(queue)) = Len(queue) - 1
BY HeadTailProperties

\* The program as it starts (client::client and spawned).
LEMMA InitIInv == Init => IInv
<1> SUFFICES ASSUME Init PROVE IInv
  OBVIOUS
<1>1. pending \in Seq(ClientStatus \cup ClientTransaction)
  BY DEF Init, spawned, ClientTransaction
<1>2. Len(client_status) <= ServerQueueLength /\ Len(client_trans) <= ServerQueueLength
  BY ClientAssumption DEF Init
<1>3. \A S : <<>> \in Seq(S)
  BY EmptySeq
<1>4. received \in 0..Budget /\ client_state = "unregistered"
  BY ClientAssumption DEF Init
<1> QED
  BY <1>1, <1>2, <1>3, <1>4 DEF Init, IInv, TypeOK, HasPlayer

\* The handlers keep the type of the handle and give every registered client a player.
LEMMA EffectHandle ==
  ASSUME IInv, Effect
  PROVE  /\ client_state' \in {"unregistered", "onbench", "playing"}
         /\ game_state' \in Ack \cup {None}
         /\ HasPlayer'
<1>1. CASE Registers
  BY <1>1, ClientAssumption DEF Registers, HasPlayer
<1>2. CASE Moves
  BY <1>2 DEF Moves, IInv, TypeOK, HasPlayer
<1>3. CASE UNCHANGED handle
  BY <1>3 DEF handle, IInv, TypeOK, HasPlayer
<1> QED
  BY <1>1, <1>2, <1>3 DEF Effect

-----------------------------------------------------------------------------

\* The main thread keeps the types (client::run), and a step of it is an Effect.
LEMMA MainThreadType ==
  ASSUME IInv, MainThread
  PROVE  TypeOK' /\ Effect
<1> USE DEF IInv
<1>1. CASE TakeBotOutput
  <2>1. Effect /\ pending' = pending
    BY <1>1, BotEffect DEF TakeBotOutput, Keep, Effect
  <2>2. bot_output' \in Seq(BotOutput)
    BY <1>1, TakeType DEF TakeBotOutput, TypeOK
  <2> QED
    BY <1>1, <2>1, <2>2, EffectHandle
    DEF TakeBotOutput, TypeOK, outbound, serverIoVars, environment
<1>2. CASE TakeServerStatus
  <2>1. CASE server_status = <<>>
    BY <1>2, <2>1
    DEF TakeServerStatus, Keep, Effect, TypeOK, handle, outbound, serverIoVars, environment
  <2>2. CASE server_status # <<>>
    <3>1. Head(server_status) \in ServerStatus /\ server_status' \in Seq(ServerStatus)
      BY <1>2, <2>2, TakeType DEF TakeServerStatus, TypeOK
    <3>2. UNCHANGED handle /\ InHand
      BY <1>2, <2>2, <3>1, StatusEffect DEF TakeServerStatus
    <3>3. pending' \in Seq(ClientStatus \cup ClientTransaction)
      <4>1. \A m \in ClientStatus : <<m>> \in Seq(ClientStatus \cup ClientTransaction)
        OBVIOUS
      <4> QED
        BY <3>2, <4>1, EmptySeq DEF InHand
    <3> QED
      BY <1>2, <3>1, <3>2, <3>3
      DEF TakeServerStatus, Effect, TypeOK, handle, outbound, serverIoVars, environment
  <2> QED
    BY <2>1, <2>2
<1>3. CASE TakeServerTrans
  <2>1. CASE server_trans = <<>>
    BY <1>3, <2>1
    DEF TakeServerTrans, Keep, Effect, TypeOK, handle, outbound, serverIoVars, environment
  <2>2. CASE server_trans # <<>>
    <3>1. Head(server_trans) \in ServerTransaction /\ server_trans' \in Seq(ServerTransaction)
      BY <1>3, <2>2, TakeType DEF TakeServerTrans, TypeOK
    <3>2. Effect /\ pending' = pending
      BY <1>3, <2>2, <3>1, TransEffect DEF TakeServerTrans
    <3> QED
      BY <1>3, <3>1, <3>2, EffectHandle
      DEF TakeServerTrans, TypeOK, outbound, serverIoVars, environment
  <2> QED
    BY <2>1, <2>2
<1>4. CASE Enqueue
  <2>1. /\ Head(pending) \in ClientStatus \cup ClientTransaction
        /\ pending' \in Seq(ClientStatus \cup ClientTransaction)
    BY <1>4, TakeType DEF Enqueue, TypeOK
  <2>2. CASE Head(pending).type = "pong"
    <3>1. Head(pending) \in ClientStatus
      BY <2>1, <2>2 DEF ClientTransaction
    <3>2. client_status' \in Seq(ClientStatus) /\ Len(client_status') <= ServerQueueLength
      <4>1. /\ client_status \in Seq(ClientStatus) /\ Len(client_status) < ServerQueueLength
            /\ client_status' = Append(client_status, Head(pending))
        BY <1>4, <2>2 DEF Enqueue, TypeOK
      <4>2. client_status' \in Seq(ClientStatus) /\ Len(client_status') = Len(client_status) + 1
        BY <3>1, <4>1, AppendProperties
      <4> QED
        BY <4>1, <4>2, LenProperties, ClientAssumption
    <3> QED
      BY <1>4, <2>1, <2>2, <3>2
      DEF Enqueue, Effect, TypeOK, handle, inbound, serverIoVars, environment
  <2>3. CASE Head(pending).type # "pong"
    <3>1. Head(pending) \in ClientTransaction
      BY <2>1, <2>3 DEF ClientStatus
    <3>2. client_trans' \in Seq(ClientTransaction) /\ Len(client_trans') <= ServerQueueLength
      <4>1. /\ client_trans \in Seq(ClientTransaction) /\ Len(client_trans) < ServerQueueLength
            /\ client_trans' = Append(client_trans, Head(pending))
        BY <1>4, <2>3 DEF Enqueue, TypeOK
      <4>2. client_trans' \in Seq(ClientTransaction) /\ Len(client_trans') = Len(client_trans) + 1
        BY <3>1, <4>1, AppendProperties
      <4> QED
        BY <4>1, <4>2, LenProperties, ClientAssumption
    <3> QED
      BY <1>4, <2>1, <2>3, <3>2
      DEF Enqueue, Effect, TypeOK, handle, inbound, serverIoVars, environment
  <2> QED
    BY <2>2, <2>3
<1> QED
  BY <1>1, <1>2, <1>3, <1>4 DEF MainThread

\* The I/O thread keeps the types while it sends (server_io::handle_client_msg).
LEMMA SendType ==
  ASSUME TypeOK, handle_client_msg
  PROVE  TypeOK' /\ UNCHANGED handle
<1>1. CASE send_client_trans
  <2>1. /\ Head(client_trans) \in ClientTransaction
        /\ client_trans' \in Seq(ClientTransaction)
        /\ Len(client_trans') <= ServerQueueLength
    BY <1>1, TakeType, LenProperties, ClientAssumption DEF send_client_trans, TypeOK
  <2>2. wire' \in Seq(ClientStatus \cup ClientTransaction)
    BY <1>1, <2>1, AppendProperties DEF send_client_trans, TypeOK
  <2> QED
    BY <1>1, <2>1, <2>2
    DEF send_client_trans, TypeOK, handle, loop, inbound, environment
<1>2. CASE send_client_status
  <2>1. /\ Head(client_status) \in ClientStatus
        /\ client_status' \in Seq(ClientStatus)
        /\ Len(client_status') <= ServerQueueLength
    BY <1>2, TakeType, LenProperties, ClientAssumption DEF send_client_status, TypeOK
  <2>2. wire' \in Seq(ClientStatus \cup ClientTransaction)
    BY <1>2, <2>1, AppendProperties DEF send_client_status, TypeOK
  <2> QED
    BY <1>2, <2>1, <2>2
    DEF send_client_status, TypeOK, handle, loop, inbound, environment
<1>3. CASE found_queue_empty
  BY <1>3 DEF found_queue_empty, TypeOK, handle, loop, inbound, outbound, environment
<1> QED
  BY <1>1, <1>2, <1>3 DEF handle_client_msg

\* What arrives from the server and the bot.
Arrival ==
    \/ \E seq \in 1..MaxPings : on_receive_ping(seq)
    \/ on_receive_snapshot
    \/ \E msg \in {m \in ServerTransaction : m.type # "disconnect"} :
          on_receive_server_trans(msg)
    \/ on_disconnect
    \/ \E output \in BotOutput : bot_receive(output)

\* Messages that arrive keep the types (server_io::on_receive_*, bot_io::receive).
LEMMA ArrivalType ==
  ASSUME TypeOK, Arrival
  PROVE  TypeOK' /\ UNCHANGED handle
<1> USE DEF TypeOK, handle, loop, inbound, outbound, serverIoVars, environment
<1>1. ASSUME NEW seq \in 1..MaxPings, on_receive_ping(seq)
      PROVE  TypeOK' /\ UNCHANGED handle
  <2>1. [type |-> "ping", seq |-> seq] \in ServerStatus
    BY DEF ServerStatus
  <2>2. server_status' \in Seq(ServerStatus)
    BY <1>1, <2>1, OfferType DEF on_receive_ping
  <2>3. heard' \in Seq(1..MaxPings)
    BY <1>1, AppendProperties DEF on_receive_ping
  <2> QED
    BY <1>1, <2>2, <2>3 DEF on_receive_ping
<1>2. CASE on_receive_snapshot
  <2>1. [type |-> "snapshot"] \in ServerStatus
    BY DEF ServerStatus
  <2>2. server_status' \in Seq(ServerStatus)
    BY <1>2, <2>1, OfferType DEF on_receive_snapshot
  <2>3. received' \in 0..Budget
    BY <1>2, ClientAssumption DEF on_receive_snapshot
  <2> QED
    BY <1>2, <2>2, <2>3 DEF on_receive_snapshot
<1>3. ASSUME NEW msg \in ServerTransaction, on_receive_server_trans(msg)
      PROVE  TypeOK' /\ UNCHANGED handle
  <2>1. server_trans' \in Seq(ServerTransaction)
    BY <1>3, OfferType DEF on_receive_server_trans
  <2>2. received' \in 0..Budget
    BY <1>3, ClientAssumption DEF on_receive_server_trans
  <2> QED
    BY <1>3, <2>1, <2>2 DEF on_receive_server_trans
<1>4. CASE on_disconnect
  <2>1. [type |-> "disconnect"] \in ServerTransaction
    BY DEF ServerTransaction
  <2>2. server_trans' \in Seq(ServerTransaction)
    BY <1>4, <2>1, OfferType DEF on_disconnect
  <2> QED
    BY <1>4, <2>2 DEF on_disconnect
<1>5. ASSUME NEW output \in BotOutput, bot_receive(output)
      PROVE  TypeOK' /\ UNCHANGED handle
  <2>1. bot_output' \in Seq(BotOutput)
    BY <1>5, OfferType DEF bot_receive
  <2>2. received' \in 0..Budget
    BY <1>5, ClientAssumption DEF bot_receive
  <2> QED
    BY <1>5, <2>1, <2>2 DEF bot_receive
<1> QED
  BY <1>1, <1>2, <1>3, <1>4, <1>5 DEF Arrival

-----------------------------------------------------------------------------

\* Every step keeps the types and is an Effect on the handle.
LEMMA StepEffect ==
  ASSUME IInv, [Next]_vars
  PROVE  TypeOK' /\ Effect
<1>1. CASE MainThread
  BY <1>1, MainThreadType
<1>2. CASE handle_client_msg
  BY <1>2, SendType DEF IInv, Effect
<1>3. CASE Arrival
  BY <1>3, ArrivalType DEF IInv, Effect
<1>4. CASE UNCHANGED vars
  BY <1>4 DEF vars, IInv, TypeOK, Effect, handle, loop, inbound, outbound,
              serverIoVars, environment
<1> QED
  BY <1>1, <1>2, <1>3, <1>4 DEF Next, Arrival

\* The invariant is inductive.
LEMMA NextIInv == IInv /\ [Next]_vars => IInv'
BY StepEffect, EffectHandle DEF IInv

\* The client's queues and handle keep their types, and a registered client has a
\* player (registration_succeeded).
THEOREM Invariance == Spec => []IInv
BY InitIInv, NextIInv, PTL DEF Spec

\* The client program is well typed; its outbound queues never hold more than they
\* have room for.
THEOREM TypeCorrect == Spec => []TypeOK
BY Invariance, PTL DEF IInv

\* A client keeps its player while it is registered (event.cxx).
THEOREM PlayersKept == Spec => PlayerKept
<1> DEFINE Step ==
      /\ client_state # "unregistered" => game_state' = game_state
      /\ client_state' # "unregistered" => game_state' # None
<1>1. IInv /\ [Next]_vars => [Step]_vars
  <2> SUFFICES ASSUME IInv, [Next]_vars PROVE Step
    OBVIOUS
  <2>1. Effect /\ HasPlayer'
    BY StepEffect, EffectHandle
  <2> QED
    BY <2>1 DEF Effect, Registers, Moves, handle, HasPlayer
<1> QED
  BY <1>1, Invariance, PTL DEF Spec, PlayerKept

\* The client's states follow one another as in client-state.dia.
THEOREM ClientLives == Spec => ClientLifecycle
<1> DEFINE Step ==
      client_state' # client_state =>
          <<client_state, client_state'>> \in
              {<<"unregistered", "onbench">>, <<"onbench", "playing">>,
               <<"playing", "onbench">>, <<"onbench", "unregistered">>,
               <<"playing", "unregistered">>}
<1>1. IInv /\ [Next]_vars => [Step]_vars
  <2> SUFFICES ASSUME IInv, [Next]_vars PROVE Step
    OBVIOUS
  <2>1. Effect
    BY StepEffect
  <2> QED
    BY <2>1 DEF Effect, Registers, Moves, handle
<1> QED
  BY <1>1, Invariance, PTL DEF Spec, ClientLifecycle

-----------------------------------------------------------------------------
(* The order of pings and pongs.  Every message with a number is of a ping heard, and *)
(* of two of them in line the first is of the ping heard first.                       *)

Msg == ServerStatus \cup ClientStatus \cup ClientTransaction

InTurn(seq, next, h) == \E k, l \in 1..Len(h) : k < l /\ h[k] = seq /\ h[l] = next

Known(q, h) ==
    \A i \in 1..Len(q) : Numbered(q[i]) => \E k \in 1..Len(h) : h[k] = q[i].seq

Ascends(q, h) ==
    \A i, j \in 1..Len(q) :
        i < j /\ Numbered(q[i]) /\ Numbered(q[j]) => InTurn(q[i].seq, q[j].seq, h)

Precedes(q, r, h) ==
    \A i \in 1..Len(q), j \in 1..Len(r) :
        Numbered(q[i]) /\ Numbered(r[j]) => InTurn(q[i].seq, r[j].seq, h)

\* The four places in line: sent, queued, in hand, still a ping.
Order(w, c, p, s, h) ==
    /\ Known(w, h) /\ Known(c, h) /\ Known(p, h) /\ Known(s, h)
    /\ Ascends(w, h) /\ Ascends(c, h) /\ Ascends(p, h) /\ Ascends(s, h)
    /\ Precedes(w, c, h) /\ Precedes(w, p, h) /\ Precedes(w, s, h)
    /\ Precedes(c, p, h) /\ Precedes(c, s, h) /\ Precedes(p, s, h)

\* A queue without its first message.
LEMMA WithoutFirst ==
  ASSUME NEW q \in Seq(Msg), q # <<>>, NEW h
  PROVE  /\ Tail(q) \in Seq(Msg)
         /\ Known(q, h) => Known(Tail(q), h)
         /\ Ascends(q, h) => Ascends(Tail(q), h)
         /\ \A r : Precedes(q, r, h) => Precedes(Tail(q), r, h)
         /\ \A r : Precedes(r, q, h) => Precedes(r, Tail(q), h)
<1>1. /\ Tail(q) \in Seq(Msg) /\ Len(q) \in Nat
      /\ \A i \in 1..Len(Tail(q)) : i + 1 \in 1..Len(q) /\ Tail(q)[i] = q[i + 1]
  BY HeadTailProperties, LenProperties
<1>2. Known(q, h) => Known(Tail(q), h)
  BY <1>1 DEF Known
<1>3. Ascends(q, h) => Ascends(Tail(q), h)
  <2>1. \A i, j \in 1..Len(Tail(q)) : i < j => i + 1 < j + 1
    OBVIOUS
  <2> QED
    BY <1>1, <2>1 DEF Ascends
<1>4. /\ \A r : Precedes(q, r, h) => Precedes(Tail(q), r, h)
      /\ \A r : Precedes(r, q, h) => Precedes(r, Tail(q), h)
  BY <1>1 DEF Precedes
<1> QED
  BY <1>1, <1>2, <1>3, <1>4

\* The first message of a queue, or one that answers it, in its stead.
LEMMA First ==
  ASSUME NEW q \in Seq(Msg), q # <<>>, NEW m \in Msg, NEW h,
         Numbered(m) => Numbered(Head(q)) /\ m.seq = Head(q).seq
  PROVE  /\ <<m>> \in Seq(Msg)
         /\ Known(q, h) => Known(<<m>>, h)
         /\ Ascends(<<m>>, h)
         /\ Ascends(q, h) => Precedes(<<m>>, Tail(q), h)
         /\ \A r : Precedes(q, r, h) => Precedes(<<m>>, r, h)
         /\ \A r : Precedes(r, q, h) => Precedes(r, <<m>>, h)
<1>1. /\ 1 \in 1..Len(q) /\ Head(q) = q[1] /\ Len(q) \in Nat
      /\ \A i \in 1..Len(Tail(q)) :
            i + 1 \in 1..Len(q) /\ 1 < i + 1 /\ Tail(q)[i] = q[i + 1]
  BY HeadTailProperties, LenProperties, EmptySeq
<1>2. Len(<<m>>) = 1 /\ <<m>>[1] = m /\ \A i \in 1..1 : i = 1
  OBVIOUS
<1>3. Known(q, h) => Known(<<m>>, h)
  BY <1>1, <1>2 DEF Known
<1>4. Ascends(<<m>>, h)
  BY <1>2 DEF Ascends
<1>5. Ascends(q, h) => Precedes(<<m>>, Tail(q), h)
  BY <1>1, <1>2 DEF Ascends, Precedes
<1>6. /\ \A r : Precedes(q, r, h) => Precedes(<<m>>, r, h)
      /\ \A r : Precedes(r, q, h) => Precedes(r, <<m>>, h)
  BY <1>1, <1>2 DEF Precedes
<1> QED
  BY <1>3, <1>4, <1>5, <1>6

\* A queue with a message more.
LEMMA OneMore ==
  ASSUME NEW q \in Seq(Msg), NEW m \in Msg, NEW h
  PROVE  /\ Append(q, m) \in Seq(Msg)
         /\ Known(q, h) /\ Known(<<m>>, h) => Known(Append(q, m), h)
         /\ Ascends(q, h) /\ Precedes(q, <<m>>, h) => Ascends(Append(q, m), h)
         /\ \A r : Precedes(q, r, h) /\ Precedes(<<m>>, r, h)
                    => Precedes(Append(q, m), r, h)
         /\ \A r : Precedes(r, q, h) /\ Precedes(r, <<m>>, h)
                    => Precedes(r, Append(q, m), h)
<1> DEFINE all == Append(q, m)
           L == Len(q)
<1>1. /\ all \in Seq(Msg) /\ L \in Nat /\ Len(all) = L + 1
      /\ \A i \in 1..L : all[i] = q[i]
      /\ all[L + 1] = m
  BY AppendProperties, LenProperties
<1>2. Len(<<m>>) = 1 /\ <<m>>[1] = m /\ 1 \in 1..1
  OBVIOUS
<1> HIDE DEF all, L
<1>3. \A i \in 1..Len(all) : i \in 1..L \/ i = L + 1
  BY <1>1
<1>4. Known(q, h) /\ Known(<<m>>, h) => Known(all, h)
  <2>1. Known(<<m>>, h) => (Numbered(m) => \E k \in 1..Len(h) : h[k] = m.seq)
    BY <1>2 DEF Known
  <2> QED
    BY <1>1, <1>3, <2>1 DEF Known, L
<1>5. Ascends(q, h) /\ Precedes(q, <<m>>, h) => Ascends(all, h)
  <2> SUFFICES ASSUME Ascends(q, h), Precedes(q, <<m>>, h),
                      NEW i \in 1..Len(all), NEW j \in 1..Len(all),
                      i < j, Numbered(all[i]), Numbered(all[j])
               PROVE  InTurn(all[i].seq, all[j].seq, h)
    BY DEF Ascends
  <2>1. i \in 1..L
    BY <1>1
  <2>2. CASE j \in 1..L
    BY <1>1, <2>1, <2>2 DEF Ascends, L
  <2>3. CASE j = L + 1
    <3>1. Numbered(q[i]) /\ Numbered(<<m>>[1]) => InTurn(q[i].seq, <<m>>[1].seq, h)
      BY <1>2, <2>1 DEF Precedes, L
    <3> QED
      BY <1>1, <1>2, <2>1, <2>3, <3>1
  <2> QED
    BY <1>3, <2>2, <2>3
<1>6. ASSUME NEW r, Precedes(q, r, h), Precedes(<<m>>, r, h)
      PROVE  Precedes(all, r, h)
  <2>1. \A j \in 1..Len(r) : Numbered(m) /\ Numbered(r[j]) => InTurn(m.seq, r[j].seq, h)
    BY <1>2, <1>6 DEF Precedes
  <2> QED
    BY <1>1, <1>3, <1>6, <2>1 DEF Precedes, L
<1>7. ASSUME NEW r, Precedes(r, q, h), Precedes(r, <<m>>, h)
      PROVE  Precedes(r, all, h)
  <2>1. \A i \in 1..Len(r) : Numbered(r[i]) /\ Numbered(m) => InTurn(r[i].seq, m.seq, h)
    BY <1>2, <1>7 DEF Precedes
  <2> QED
    BY <1>1, <1>3, <1>7, <2>1 DEF Precedes, L
<1> QED
  BY <1>1, <1>4, <1>5, <1>6, <1>7 DEF all

\* A message without a number has any place.
LEMMA Unnumbered ==
  ASSUME NEW m, ~Numbered(m), NEW h
  PROVE  /\ Known(<<m>>, h) /\ Ascends(<<m>>, h)
         /\ \A r : Precedes(<<m>>, r, h) /\ Precedes(r, <<m>>, h)
<1>1. Len(<<m>>) = 1 /\ <<m>>[1] = m /\ \A i \in 1..1 : i = 1
  OBVIOUS
<1> QED
  BY <1>1 DEF Known, Ascends, Precedes

\* A ping heard after all others leaves their order, and comes last.
LEMMA HeardLast ==
  ASSUME NEW h \in Seq(1..MaxPings), NEW seq \in 1..MaxPings
  PROVE  LET g == Append(h, seq)
             m == [type |-> "ping", seq |-> seq]
         IN  /\ \A q : Known(q, h) => Known(q, g) /\ Precedes(q, <<m>>, g)
             /\ Known(<<m>>, g)
             /\ \A q : Ascends(q, h) => Ascends(q, g)
             /\ \A q, r : Precedes(q, r, h) => Precedes(q, r, g)
<1> DEFINE g == Append(h, seq)
           L == Len(h)
           m == [type |-> "ping", seq |-> seq]
<1>1. /\ L \in Nat /\ Len(g) = L + 1 /\ g[L + 1] = seq
      /\ \A k \in 1..L : k \in 1..Len(g) /\ k < L + 1 /\ g[k] = h[k]
      /\ L + 1 \in 1..Len(g)
  BY AppendProperties, LenProperties
<1>2. Len(<<m>>) = 1 /\ <<m>>[1].seq = seq /\ \A i \in 1..1 : i = 1
  OBVIOUS
<1> HIDE DEF g, L
<1>3. \A s, t : InTurn(s, t, h) => InTurn(s, t, g)
  BY <1>1 DEF InTurn, L
<1>4. \A s : (\E k \in 1..Len(h) : h[k] = s) =>
                (\E k \in 1..Len(g) : g[k] = s) /\ InTurn(s, seq, g)
  BY <1>1 DEF InTurn, L
<1> HIDE DEF m
<1>5. \A q : Known(q, h) => Known(q, g) /\ Precedes(q, <<m>>, g)
  BY <1>2, <1>4 DEF Known, Precedes
<1>6. Known(<<m>>, g)
  BY <1>1, <1>2 DEF Known
<1>7. \A q : Ascends(q, h) => Ascends(q, g)
  BY <1>3 DEF Ascends
<1>8. \A q, r : Precedes(q, r, h) => Precedes(q, r, g)
  BY <1>3 DEF Precedes
<1> QED
  BY <1>5, <1>6, <1>7, <1>8 DEF g, m

InOrder == Order(wire, client_status, pending, server_status, heard)

\* The queues in line are queues of messages.
LEMMA QueuesOfMessages ==
  ASSUME TypeOK
  PROVE  /\ wire \in Seq(Msg) /\ client_status \in Seq(Msg) /\ client_trans \in Seq(Msg)
         /\ pending \in Seq(Msg) /\ server_status \in Seq(Msg)
         /\ heard \in Seq(1..MaxPings)
<1>1. /\ ServerStatus \subseteq Msg /\ ClientStatus \subseteq Msg
      /\ ClientTransaction \subseteq Msg /\ ClientStatus \cup ClientTransaction \subseteq Msg
  BY DEF Msg
<1>2. /\ wire \in Seq(ClientStatus \cup ClientTransaction)
      /\ pending \in Seq(ClientStatus \cup ClientTransaction)
      /\ client_status \in Seq(ClientStatus) /\ client_trans \in Seq(ClientTransaction)
      /\ server_status \in Seq(ServerStatus) /\ heard \in Seq(1..MaxPings)
  BY DEF TypeOK
<1> QED
  BY <1>1, <1>2, SeqMonotonic

\* A ping taken from its queue gives way to its pong (received_ping), anything else to
\* nothing.
LEMMA StatusOrder ==
  ASSUME TypeOK, InOrder, TakeServerStatus
  PROVE  InOrder'
<1> DEFINE s == server_status
<1>1. /\ pending = <<>> /\ UNCHANGED <<wire, client_status, heard>>
  BY DEF TakeServerStatus, outbound, serverIoVars, environment
<1>2. CASE s = <<>>
  BY <1>1, <1>2 DEF TakeServerStatus, Keep, InOrder
<1>3. CASE s # <<>>
  <2>1. s \in Seq(Msg) /\ server_status' = Tail(s) /\ FromServerStatus(Head(s))
        /\ Head(s) \in ServerStatus
    BY <1>3, QueuesOfMessages, TakeType DEF TakeServerStatus, TypeOK
  <2>2. CASE pending' = <<>>
    BY <1>1, <1>3, <2>1, <2>2, WithoutFirst DEF InOrder, Order
  <2>3. CASE Head(s).type = "ping" /\ received_ping(Head(s).seq)
    <3> DEFINE m == [type |-> "pong", seq |-> Head(s).seq]
    <3>1. m \in Msg /\ pending' = <<m>>
      BY <2>1, <2>3 DEF received_ping, ServerStatus, ClientStatus, Msg
    <3>2. Numbered(m) => Numbered(Head(s)) /\ m.seq = Head(s).seq
      BY <2>3 DEF Numbered
    <3> HIDE DEF m, s
    <3>3. /\ Known(s, heard) => Known(<<m>>, heard)
          /\ Ascends(<<m>>, heard)
          /\ Ascends(s, heard) => Precedes(<<m>>, Tail(s), heard)
          /\ \A r : Precedes(r, s, heard) => Precedes(r, <<m>>, heard)
      BY <1>3, <2>1, <3>1, <3>2, First
    <3>4. /\ Known(s, heard) => Known(Tail(s), heard)
          /\ Ascends(s, heard) => Ascends(Tail(s), heard)
          /\ \A r : Precedes(r, s, heard) => Precedes(r, Tail(s), heard)
      BY <1>3, <2>1, WithoutFirst
    <3> QED
      BY <1>1, <2>1, <3>1, <3>3, <3>4 DEF InOrder, Order, s
  <2> QED
    BY <1>1, <2>1, <2>2, <2>3 DEF FromServerStatus, Keep
<1> QED
  BY <1>2, <1>3

\* The message in hand joins the end of its queue.
LEMMA EnqueueOrder ==
  ASSUME TypeOK, InOrder, Enqueue
  PROVE  InOrder'
<1> DEFINE p == pending
           c == client_status
           m == Head(p)
<1>1. /\ p # <<>> /\ pending' = Tail(p) /\ UNCHANGED <<wire, server_status, heard>>
      /\ client_status' = c \/ client_status' = Append(c, m)
  BY DEF Enqueue, inbound, serverIoVars, environment
<1>2. p \in Seq(Msg) /\ c \in Seq(Msg) /\ m \in Msg
  BY <1>1, QueuesOfMessages, TakeType
<1> HIDE DEF p, c, m
<1>3. /\ Known(p, heard) => Known(Tail(p), heard)
      /\ Ascends(p, heard) => Ascends(Tail(p), heard)
      /\ \A r : Precedes(p, r, heard) => Precedes(Tail(p), r, heard)
      /\ \A r : Precedes(r, p, heard) => Precedes(r, Tail(p), heard)
  BY <1>1, <1>2, WithoutFirst
<1>4. CASE client_status' = c
  BY <1>1, <1>3, <1>4 DEF InOrder, Order, p, c
<1>5. CASE client_status' = Append(c, m)
  <2>1. /\ Known(p, heard) => Known(<<m>>, heard)
        /\ Ascends(p, heard) => Precedes(<<m>>, Tail(p), heard)
        /\ \A r : Precedes(p, r, heard) => Precedes(<<m>>, r, heard)
        /\ \A r : Precedes(r, p, heard) => Precedes(r, <<m>>, heard)
    BY <1>1, <1>2, First DEF m
  <2>2. /\ Known(c, heard) /\ Known(<<m>>, heard) => Known(Append(c, m), heard)
        /\ Ascends(c, heard) /\ Precedes(c, <<m>>, heard) => Ascends(Append(c, m), heard)
        /\ \A r : Precedes(c, r, heard) /\ Precedes(<<m>>, r, heard)
                   => Precedes(Append(c, m), r, heard)
        /\ \A r : Precedes(r, c, heard) /\ Precedes(r, <<m>>, heard)
                   => Precedes(r, Append(c, m), heard)
    BY <1>2, OneMore
  <2> QED
    BY <1>1, <1>3, <1>5, <2>1, <2>2 DEF InOrder, Order, p, c
<1> QED
  BY <1>1, <1>4, <1>5

\* The I/O thread sends the queued pongs in turn, and other messages between them.
LEMMA SendOrder ==
  ASSUME TypeOK, InOrder, handle_client_msg
  PROVE  InOrder'
<1> DEFINE w == wire
           c == client_status
<1>1. w \in Seq(Msg) /\ c \in Seq(Msg) /\ client_trans \in Seq(Msg)
  BY QueuesOfMessages
<1>2. UNCHANGED <<pending, server_status, heard>>
  BY DEF handle_client_msg, send_client_trans, send_client_status, found_queue_empty,
         loop, inbound, environment
<1>3. CASE send_client_trans
  <2> DEFINE m == Head(client_trans)
  <2>1. m \in ClientTransaction /\ wire' = Append(w, m) /\ client_status' = c
    BY <1>3, TakeType DEF send_client_trans, TypeOK
  <2>2. m \in Msg /\ ~Numbered(m)
    BY <2>1 DEF ClientTransaction, Msg, Numbered
  <2> HIDE DEF w, c, m
  <2>3. /\ Known(<<m>>, heard)
        /\ \A r : Precedes(<<m>>, r, heard) /\ Precedes(r, <<m>>, heard)
    BY <2>2, Unnumbered
  <2>4. /\ Known(w, heard) => Known(Append(w, m), heard)
        /\ Ascends(w, heard) => Ascends(Append(w, m), heard)
        /\ \A r : Precedes(w, r, heard) => Precedes(Append(w, m), r, heard)
    BY <1>1, <2>2, <2>3, OneMore
  <2> QED
    BY <1>2, <2>1, <2>4 DEF InOrder, Order, w, c
<1>4. CASE send_client_status
  <2> DEFINE m == Head(c)
  <2>1. c # <<>> /\ m \in Msg /\ wire' = Append(w, m) /\ client_status' = Tail(c)
    BY <1>1, <1>4, TakeType DEF send_client_status
  <2> HIDE DEF w, c, m
  <2>2. /\ Known(c, heard) => Known(Tail(c), heard)
        /\ Ascends(c, heard) => Ascends(Tail(c), heard)
        /\ \A r : Precedes(c, r, heard) => Precedes(Tail(c), r, heard)
        /\ \A r : Precedes(r, c, heard) => Precedes(r, Tail(c), heard)
    BY <1>1, <2>1, WithoutFirst
  <2>3. /\ Known(c, heard) => Known(<<m>>, heard)
        /\ Ascends(c, heard) => Precedes(<<m>>, Tail(c), heard)
        /\ \A r : Precedes(c, r, heard) => Precedes(<<m>>, r, heard)
        /\ \A r : Precedes(r, c, heard) => Precedes(r, <<m>>, heard)
    BY <1>1, <2>1, First DEF m
  <2>4. /\ Known(w, heard) /\ Known(<<m>>, heard) => Known(Append(w, m), heard)
        /\ Ascends(w, heard) /\ Precedes(w, <<m>>, heard) => Ascends(Append(w, m), heard)
        /\ \A r : Precedes(w, r, heard) /\ Precedes(<<m>>, r, heard)
                   => Precedes(Append(w, m), r, heard)
    BY <1>1, <2>1, OneMore
  <2> QED
    BY <1>2, <2>1, <2>2, <2>3, <2>4 DEF InOrder, Order, w, c
<1>5. CASE found_queue_empty
  BY <1>2, <1>5 DEF found_queue_empty, outbound, InOrder
<1> QED
  BY <1>3, <1>4, <1>5 DEF handle_client_msg

\* A ping that arrives is new, and comes last; a snapshot has no number.
LEMMA ArrivalOrder ==
  ASSUME TypeOK, InOrder, Arrival
  PROVE  InOrder'
<1> DEFINE s == server_status
<1>1. s \in Seq(Msg) /\ heard \in Seq(1..MaxPings)
  BY QueuesOfMessages
<1>2. UNCHANGED <<wire, client_status, pending>>
  BY DEF Arrival, on_receive_ping, on_receive_snapshot, on_receive_server_trans,
         on_disconnect, bot_receive, loop, outbound, serverIoVars
<1>3. ASSUME NEW seq \in 1..MaxPings, on_receive_ping(seq)
      PROVE  InOrder'
  <2> DEFINE m == [type |-> "ping", seq |-> seq]
             g == Append(heard, seq)
  <2>1. /\ heard' = g
        /\ server_status' = s \/ server_status' = Append(s, m)
    BY <1>3 DEF on_receive_ping, Offer
  <2>2. m \in Msg
    BY DEF Msg, ServerStatus
  <2>3. /\ \A q : Known(q, heard) => Known(q, g) /\ Precedes(q, <<m>>, g)
        /\ Known(<<m>>, g)
        /\ \A q : Ascends(q, heard) => Ascends(q, g)
        /\ \A q, r : Precedes(q, r, heard) => Precedes(q, r, g)
    BY <1>1, HeardLast
  <2> HIDE DEF s, m, g
  <2>4. Order(wire, client_status, pending, s, g)
    BY <2>3 DEF InOrder, Order, s
  <2>5. CASE server_status' = s
    BY <1>2, <2>1, <2>4, <2>5 DEF InOrder
  <2>6. CASE server_status' = Append(s, m)
    <3>1. /\ Known(s, g) /\ Known(<<m>>, g) => Known(Append(s, m), g)
          /\ Ascends(s, g) /\ Precedes(s, <<m>>, g) => Ascends(Append(s, m), g)
          /\ \A r : Precedes(r, s, g) /\ Precedes(r, <<m>>, g)
                     => Precedes(r, Append(s, m), g)
      BY <1>1, <2>2, OneMore
    <3>2. /\ Precedes(wire, <<m>>, g) /\ Precedes(client_status, <<m>>, g)
          /\ Precedes(pending, <<m>>, g) /\ Precedes(s, <<m>>, g)
      BY <2>3 DEF InOrder, Order, s
    <3> QED
      BY <1>2, <2>1, <2>3, <2>4, <2>6, <3>1, <3>2 DEF InOrder, Order
  <2> QED
    BY <2>1, <2>5, <2>6
<1>4. CASE on_receive_snapshot
  <2> DEFINE m == [type |-> "snapshot"]
  <2>1. /\ heard' = heard
        /\ server_status' = s \/ server_status' = Append(s, m)
    BY <1>4 DEF on_receive_snapshot, Offer
  <2>2. m \in Msg /\ ~Numbered(m)
    BY DEF Msg, ServerStatus, Numbered
  <2> HIDE DEF s, m
  <2>3. Known(<<m>>, heard) /\ \A r : Precedes(r, <<m>>, heard)
    BY <2>2, Unnumbered
  <2>4. /\ Known(s, heard) => Known(Append(s, m), heard)
        /\ Ascends(s, heard) => Ascends(Append(s, m), heard)
        /\ \A r : Precedes(r, s, heard) => Precedes(r, Append(s, m), heard)
    BY <1>1, <2>2, <2>3, OneMore
  <2> QED
    BY <1>2, <2>1, <2>4 DEF InOrder, Order, s
<1>5. CASE \/ \E msg \in {m \in ServerTransaction : m.type # "disconnect"} :
                 on_receive_server_trans(msg)
           \/ on_disconnect
           \/ \E output \in BotOutput : bot_receive(output)
  <2>1. server_status' = server_status /\ heard' = heard
    BY <1>5 DEF on_receive_server_trans, on_disconnect, bot_receive, environment
  <2> QED
    BY <1>2, <2>1 DEF InOrder
<1> QED
  BY <1>3, <1>4, <1>5 DEF Arrival

\* The rest of the main thread takes nothing from the line and adds nothing to it.
LEMMA FrameOrder ==
  ASSUME IInv, InOrder, TakeBotOutput \/ TakeServerTrans
  PROVE  InOrder'
<1>1. UNCHANGED <<wire, client_status, server_status, heard>>
  BY DEF TakeBotOutput, TakeServerTrans, outbound, serverIoVars, environment
<1>2. pending' = pending
  <2>1. CASE TakeBotOutput
    BY <2>1, BotEffect DEF TakeBotOutput, Keep
  <2>2. CASE TakeServerTrans
    <3>1. CASE server_trans = <<>>
      BY <2>2, <3>1 DEF TakeServerTrans, Keep
    <3>2. CASE server_trans # <<>>
      <4>1. Head(server_trans) \in ServerTransaction /\ FromServerTrans(Head(server_trans))
        BY <2>2, <3>2, TakeType DEF TakeServerTrans, IInv, TypeOK
      <4> QED
        BY <4>1, TransEffect
    <3> QED
      BY <3>1, <3>2
  <2> QED
    BY <2>1, <2>2
<1> QED
  BY <1>1, <1>2 DEF InOrder

\* At first only the registration is in line, which has no number.
LEMMA InitOrder == Init => InOrder
<1> SUFFICES ASSUME Init PROVE InOrder
  OBVIOUS
<1> DEFINE m == [type |-> "registration"]
<1>1. ~Numbered(m)
  BY DEF Numbered
<1>2. /\ wire = <<>> /\ client_status = <<>> /\ server_status = <<>> /\ pending = <<m>>
  BY DEF Init, spawned
<1> HIDE DEF m
<1>3. /\ Known(<<m>>, heard) /\ Ascends(<<m>>, heard)
      /\ \A r : Precedes(<<m>>, r, heard) /\ Precedes(r, <<m>>, heard)
  BY <1>1, Unnumbered
<1>4. Len(<<>>) = 0
  OBVIOUS
<1>5. Known(<<>>, heard) /\ Ascends(<<>>, heard) /\ Precedes(<<>>, <<>>, heard)
  BY <1>4 DEF Known, Ascends, Precedes
<1> QED
  BY <1>2, <1>3, <1>5 DEF InOrder, Order

\* The line says of any two places what PongsAnswerPings says.
LEMMA LineAnswers == InOrder => PongsAnswerPings
<1> SUFFICES ASSUME InOrder,
                    NEW a \in 1..4, NEW b \in 1..4,
                    NEW i \in 1..Len(Places[a]), NEW j \in 1..Len(Places[b]),
                    Numbered(Places[a][i]), Numbered(Places[b][j])
             PROVE  /\ \E k \in 1..Len(heard) : heard[k] = Places[a][i].seq
                    /\ a < b \/ (a = b /\ i < j)
                        => HeardBefore(Places[a][i].seq, Places[b][j].seq)
  BY DEF PongsAnswerPings
<1>1. /\ Places[1] = wire /\ Places[2] = client_status
      /\ Places[3] = pending /\ Places[4] = server_status
  BY DEF Places
<1>2. /\ Known(Places[1], heard) /\ Known(Places[2], heard)
      /\ Known(Places[3], heard) /\ Known(Places[4], heard)
      /\ Ascends(Places[1], heard) /\ Ascends(Places[2], heard)
      /\ Ascends(Places[3], heard) /\ Ascends(Places[4], heard)
      /\ Precedes(Places[1], Places[2], heard) /\ Precedes(Places[1], Places[3], heard)
      /\ Precedes(Places[1], Places[4], heard) /\ Precedes(Places[2], Places[3], heard)
      /\ Precedes(Places[2], Places[4], heard) /\ Precedes(Places[3], Places[4], heard)
  BY <1>1 DEF InOrder, Order
<1>3. a \in {1, 2, 3, 4} /\ b \in {1, 2, 3, 4}
  OBVIOUS
<1>4. Known(Places[a], heard) /\ Ascends(Places[a], heard)
  BY <1>2, <1>3
<1>5. a < b => Precedes(Places[a], Places[b], heard)
  BY <1>2, <1>3
<1>6. \E k \in 1..Len(heard) : heard[k] = Places[a][i].seq
  BY <1>4 DEF Known
<1>7. CASE a < b
  BY <1>5, <1>6, <1>7 DEF Precedes, InTurn, HeardBefore
<1>8. CASE a = b /\ i < j
  <2>1. InTurn(Places[a][i].seq, Places[a][j].seq, heard)
    BY <1>4, <1>8 DEF Ascends
  <2> QED
    BY <1>6, <1>8, <2>1 DEF InTurn, HeardBefore
<1> QED
  BY <1>6, <1>7, <1>8

\* The client answers each ping at most once and in the order in which it heard them,
\* however long a handler waits for room and whatever else goes out in between
\* (received_ping and server_io).
THEOREM PingsAnswered == Spec => []PongsAnswerPings
<1>1. Init => InOrder
  BY InitOrder
<1>2. IInv /\ InOrder /\ [Next]_vars => InOrder'
  <2> SUFFICES ASSUME IInv, InOrder, [Next]_vars PROVE InOrder'
    OBVIOUS
  <2>1. TypeOK
    BY DEF IInv
  <2>2. CASE MainThread
    BY <2>1, <2>2, FrameOrder, StatusOrder, EnqueueOrder DEF MainThread
  <2>3. CASE handle_client_msg
    BY <2>1, <2>3, SendOrder
  <2>4. CASE Arrival
    BY <2>1, <2>4, ArrivalOrder
  <2>5. CASE UNCHANGED vars
    BY <2>5 DEF vars, InOrder, loop, inbound, outbound, serverIoVars, environment
  <2> QED
    BY <2>2, <2>3, <2>4, <2>5 DEF Next, Arrival
<1> QED
  BY <1>1, <1>2, Invariance, LineAnswers, PTL DEF Spec
=============================================================================
