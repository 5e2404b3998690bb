-------------------------- MODULE ServerLoopProofs --------------------------
(***************************************************************************)
(* The life of a server process, proved for any number of clients, teams   *)
(* and uniforms, any queue lengths and any messages: the referee and the   *)
(* clients of ServerLoop send whatever the protocols allow.                *)
(***************************************************************************)
EXTENDS ServerLoop, RosterProofs, SequenceTheorems

\* Transactions carry well-formed requests, and the enrollment is sound while
\* there is one.
Wellformed ==
    /\ client_trans \in Seq(ClientTransaction)
    /\ enrollment # None => Sound(enrollment)

IInv == Wellformed /\ ObjectsInStep /\ HaltedForAReason

-----------------------------------------------------------------------------

\* What the handlers may do to the handle and to halted.
Unmoved == UNCHANGED <<state, roster, game_state>>

Enrols ==
    \E c \in Client, q \in Request :
        /\ enrollment # None
        /\ enrollment' = register_client(enrollment, c, q)
        /\ halted' = halted /\ Unmoved

Finalises ==
    /\ state = "waiting" /\ enrollment # None /\ is_full(enrollment)
    /\ state' = "onbreak" /\ roster' = finalise(enrollment)
    /\ enrollment' = None /\ game_state' = TRUE /\ halted' = halted

Moves ==
    /\ <<state, state'>> \in {<<"onbreak", "playing">>, <<"playing", "waiting">>}
    /\ UNCHANGED <<enrollment, roster, game_state, halted>>

Halts ==
    /\ UNCHANGED enrollment /\ UNCHANGED state /\ Unmoved
    /\ \/ halted' = "registration_requested" /\ enrollment = None
       \/ /\ halted' = "roster_finalised" /\ state = "waiting"
          /\ enrollment = None \/ ~is_full(enrollment)

Stays == UNCHANGED enrollment /\ UNCHANGED halted /\ Unmoved

\* Every step is one of these.
Effect == Enrols \/ Finalises \/ Moves \/ Halts \/ Stays

\* What a message from the referee can do to the handle (server::run).
LEMMA RefereeEffect ==
  ASSUME NEW type, FromReferee(type)
  PROVE  Finalises \/ Moves \/ Halts \/ Stays
<1>1. \/ state = "waiting" /\ roster_finalised
      \/ state = "onbreak" /\ MoveTo("playing")
      \/ state = "playing" /\ MoveTo("waiting")
      \/ Keep
  BY Zenon DEF FromReferee
<1>2. ASSUME state = "waiting", roster_finalised PROVE Finalises \/ Halts
  BY <1>2 DEF roster_finalised, Halt, handle, Finalises, Halts, Unmoved
<1>3. ASSUME state = "onbreak", MoveTo("playing") PROVE Moves
  BY <1>3 DEF MoveTo, Moves
<1>4. ASSUME state = "playing", MoveTo("waiting") PROVE Moves
  BY <1>4 DEF MoveTo, Moves
<1>5. ASSUME Keep PROVE Stays
  BY <1>5 DEF Keep, handle, Stays, Unmoved
<1> QED
  BY <1>1, <1>2, <1>3, <1>4, <1>5

\* What a client transaction can do to it.
LEMMA ClientTransEffect ==
  ASSUME NEW msg \in ClientTransaction, FromClientTrans(msg)
  PROVE  Enrols \/ Halts \/ Stays
<1>1. CASE msg.type = "registration" /\ registration_requested(msg.from, msg.request)
  <2>1. msg.from \in Client /\ msg.request \in Request
    BY <1>1 DEF ClientTransaction
  <2> QED
    BY <1>1, <2>1
    DEF registration_requested, Halt, handle, Enrols, Halts, Unmoved
<1>2. CASE Keep
  BY <1>2 DEF Keep, handle, Stays, Unmoved
<1> QED
  BY <1>1, <1>2 DEF FromClientTrans

\* A client status only touches the clock monitor.
LEMMA ClientStatusEffect ==
  ASSUME NEW msg, FromClientStatus(msg)
  PROVE  Stays
BY DEF FromClientStatus, received_pong, Keep, handle, Stays, Unmoved

\* A step of the main thread, and one of its environment.
LEMMA ServerEffect ==
  ASSUME Wellformed, ServerNext
  PROVE  Effect /\ halted = "no" /\ client_trans' \in Seq(ClientTransaction)
<1> USE DEF Wellformed
<1>1. CASE TakeRefOutput
  <2>1. Keep \/ FromReferee(Head(ref_output))
    BY <1>1 DEF TakeRefOutput
  <2>2. ASSUME Keep PROVE Stays
    BY <2>2 DEF Keep, handle, Stays, Unmoved
  <2> QED
    BY <1>1, <2>1, <2>2, RefereeEffect DEF TakeRefOutput, Running, Effect
<1>2. CASE TakeClientStatus
  <2>1. Keep \/ FromClientStatus(Head(client_status))
    BY <1>2 DEF TakeClientStatus
  <2>2. ASSUME Keep PROVE Stays
    BY <2>2 DEF Keep, handle, Stays, Unmoved
  <2> QED
    BY <1>2, <2>1, <2>2, ClientStatusEffect DEF TakeClientStatus, Running, Effect
<1>3. CASE TakeClientTrans
  <2>1. CASE client_trans = <<>>
    BY <1>3, <2>1 DEF TakeClientTrans, Running, Keep, handle, Effect, Stays, Unmoved
  <2>2. CASE client_trans # <<>>
    <3>1. /\ Head(client_trans) \in ClientTransaction
          /\ Tail(client_trans) \in Seq(ClientTransaction)
      BY <2>2
    <3>2. /\ FromClientTrans(Head(client_trans)) /\ halted = "no"
          /\ client_trans' = Tail(client_trans)
      BY <1>3, <2>2 DEF TakeClientTrans, Running
    <3> QED
      BY <3>1, <3>2, ClientTransEffect DEF Effect
  <2> QED
    BY <2>1, <2>2
<1>4. CASE RunTimers
  BY <1>4 DEF RunTimers, Running, ping_timedout, Keep, handle, inbound, Effect, Stays, Unmoved
<1>5. CASE Enqueue
  BY <1>5 DEF Enqueue, handle, inbound, Effect, Stays, Unmoved
<1> QED
  BY <1>1, <1>2, <1>3, <1>4, <1>5 DEF ServerNext

\* Every step of the loop, and of the I/O threads around it, has one of the effects.
LEMMA StepEffect ==
  ASSUME Wellformed, [Next]_vars
  PROVE  /\ Effect
         /\ halted = "no" \/ Stays
         /\ client_trans' \in Seq(ClientTransaction)
<1> USE DEF handle, loop, inbound, outbound
<1>1. CASE MainThread
  BY <1>1, ServerEffect DEF MainThread
<1>2. ASSUME NEW msg \in Transactions, ClientSendsTrans(msg)
      PROVE  Stays /\ client_trans' \in Seq(ClientTransaction)
  <2>1. msg \in ClientTransaction
    BY ServerLoopAssumption DEF Transactions, ClientTransaction
  <2> QED
    BY <1>2, <2>1 DEF ClientSendsTrans, Wellformed, Stays, Unmoved
<1>3. ASSUME \/ \E output \in RefOutputs : RefereeSends(output)
             \/ \E msg \in Statuses : ClientSendsStatus(msg)
             \/ DrainRefInput \/ DrainServerStatus \/ DrainServerTrans
             \/ UNCHANGED vars
      PROVE  Stays /\ client_trans' \in Seq(ClientTransaction)
  BY <1>3 DEF RefereeSends, ClientSendsStatus, DrainRefInput, DrainServerStatus,
     DrainServerTrans, vars, serverVars, Wellformed, Stays, Unmoved
<1> QED
  BY <1>1, <1>2, <1>3 DEF Next, Effect

-----------------------------------------------------------------------------

\* The handle as it is built satisfies the inductive invariant.
LEMMA InitIInv == Init => IInv
<1> SUFFICES ASSUME Init PROVE IInv
  OBVIOUS
<1>1. Sound(EmptyEnrollment) /\ EmptyEnrollment # None
  BY EmptySound, SoundExists
<1> QED
  BY <1>1 DEF Init, ServerInit, IInv, Wellformed, ObjectsInStep,
              HaltedForAReason

\* Every effect preserves the inductive invariant.
LEMMA NextIInv == IInv /\ [Next]_vars => IInv'
<1> SUFFICES ASSUME IInv, [Next]_vars PROVE IInv'
  OBVIOUS
<1> USE DEF IInv, Wellformed, ObjectsInStep, HaltedForAReason, Unmoved
<1>1. /\ Effect /\ (halted = "no" \/ Stays)
      /\ client_trans' \in Seq(ClientTransaction)
  BY StepEffect
<1>2. CASE Enrols
  <2>1. PICK c \in Client, q \in Request :
            enrollment' = register_client(enrollment, c, q)
    BY <1>2 DEF Enrols
  <2>2. Sound(enrollment') /\ enrollment' # None
    <3>1. Sound(enrollment)
      BY <1>2 DEF Enrols
    <3> QED
      BY <2>1, <3>1, RegisterSound, SoundExists
  <2>3. CASE halted = "no"
    BY <1>1, <1>2, <2>2, <2>3 DEF Enrols
  <2>4. CASE Stays
    BY <1>1, <2>4 DEF Stays
  <2> QED
    BY <1>1, <2>3, <2>4
<1>3. CASE Finalises
  <2>1. roster' # None
    BY <1>3, FinaliseRosterOf DEF Finalises
  <2>2. CASE halted = "no"
    BY <1>1, <1>3, <2>1, <2>2 DEF Finalises
  <2>3. CASE Stays
    BY <1>1, <2>3 DEF Stays
  <2> QED
    BY <1>1, <2>2, <2>3
<1>4. CASE Moves
  BY <1>1, <1>4 DEF Moves, Stays
<1>5. CASE Halts
  BY <1>1, <1>5 DEF Halts
<1>6. CASE Stays
  BY <1>1, <1>6 DEF Stays
<1> QED
  BY <1>1, <1>2, <1>3, <1>4, <1>5, <1>6 DEF Effect

\* The objects of the handle stay in step with its state (server/event.cxx).
THEOREM Invariance == Spec => []IInv
BY InitIInv, NextIInv, PTL DEF Spec

-----------------------------------------------------------------------------

\* The server has an enrollment or a final roster, never both and never neither
\* (roster_finalised moves one into the other), and on a break and in play there is a
\* roster to send pings to (ping_timedout).
THEOREM ObjectsStayInStep == Spec => []ObjectsInStep
BY Invariance, PTL DEF IInv

\* Only a message that comes too late or too early ends the server
\* (roster_finalised and registration_requested).
THEOREM HaltsHaveReason == Spec => []HaltedForAReason
BY Invariance, PTL DEF IInv

\* No message replaces a final roster (roster_finalised).
THEOREM FinalRoster == Spec => RosterIsFinal
<1>1. IInv /\ [Next]_vars => [roster # None => roster' = roster]_vars
  <2> SUFFICES ASSUME IInv, [Next]_vars, roster # None PROVE roster' = roster
    OBVIOUS
  <2>1. Effect /\ enrollment = None
    BY StepEffect DEF IInv, ObjectsInStep
  <2> QED
    BY <2>1 DEF Effect, Enrols, Finalises, Moves, Halts, Stays, Unmoved
<1> QED
  BY <1>1, Invariance, PTL DEF Spec, RosterIsFinal

\* The states of event.hpp follow each other in one order only.
THEOREM Lifecycle == Spec => LifecycleOrder
<1> DEFINE Step ==
      state' # state =>
          <<state, state'>> \in {<<"waiting", "onbreak">>, <<"onbreak", "playing">>,
                                 <<"playing", "waiting">>}
<1>1. IInv /\ [Next]_vars => [Step]_vars
  <2> SUFFICES ASSUME IInv, [Next]_vars PROVE Step
    OBVIOUS
  <2>1. Effect
    BY StepEffect DEF IInv
  <2> QED
    BY <2>1 DEF Effect, Enrols, Finalises, Moves, Halts, Stays, Unmoved
<1> QED
  BY <1>1, Invariance, PTL DEF Spec, LifecycleOrder

-----------------------------------------------------------------------------
(* Types.  What the handlers of the main thread leave behind. *)

Outgoing ==
    [queue: {"ref_input"}, msg: RefInput] \cup
    [queue: {"server_status"}, msg: ServerStatus] \cup
    [queue: {"server_trans"}, msg: ServerTransaction]

HandleTyped ==
    /\ state \in {"waiting", "onbreak", "playing"}
    /\ enrollment \in EnrollmentType \cup {None}
    /\ roster \in RosterType \cup {None}
    /\ game_state \in BOOLEAN
    /\ "current" \in DOMAIN monitor /\ monitor.current \in Clock!SeqNum
    /\ halted \in {"no", "roster_finalised", "registration_requested"}
    /\ time \in 0..MaxPings
    /\ pending \in Seq(Outgoing)

FrameTyped ==
    /\ frame \in 0..(FramePeriod - 1)
    /\ step \in {"ref", "status", "trans", "timers"}

\* Every queue carries messages of its protocol.
QueuesTyped ==
    /\ ref_input \in Seq(RefInput)
    /\ ref_output \in Seq(RefOutput)
    /\ server_status \in Seq(ServerStatus)
    /\ server_trans \in Seq(ServerTransaction)
    /\ client_status \in Seq(ClientStatus)
    /\ client_trans \in Seq(ClientTransaction)

Typed == HandleTyped /\ FrameTyped /\ QueuesTyped /\ sent \in 0..Budget

\* A queue from which one message is taken, or none, keeps its type.
LEMMA TakenTyped ==
  ASSUME NEW S, NEW s \in Seq(S), NEW t, t = s \/ (s # <<>> /\ t = Tail(s))
  PROVE  t \in Seq(S)
BY HeadTailProperties

\* One acknowledgement for every player, and nothing else.
LEMMA AcksTyped ==
  ASSUME NEW r \in RosterType
  PROVE  RegAcks(r) \in Seq(Outgoing)
<1> DEFINE N == MaxClubCount * MaxTeamSize
<1>1. N \in Nat \ {0} /\ Cardinality(PlayerId) = N
  BY FS_Interval, RosterAssumption DEF PlayerId, MaxClubCount
<1>2. RegAcks(r) = [i \in 1..N |-> RegAck(i - 1, r.players[i - 1])]
  BY <1>1 DEF RegAcks, Recipients
<1> HIDE DEF N
<1>3. PlayerId = 0..(N - 1)
  BY DEF PlayerId, N
<1>4. ASSUME NEW i \in 1..N
      PROVE  RegAck(i - 1, r.players[i - 1]) \in Outgoing
  <2>1. i - 1 \in PlayerId
    BY <1>1, <1>3
  <2>2. id_to_uniform(i - 1).uniform \in Uniform /\ id_to_uniform(i - 1).side \in Side
    BY <2>1, IdOfUniform
  <2>3. r.players[i - 1] \in Client \cup {None}
    BY <2>1 DEF RosterType
  <2> QED
    BY <2>2, <2>3 DEF RegAck, SendTo, Outgoing, ServerTransaction, PlayerType
<1> QED
  BY <1>1, <1>2, <1>4

\* A message from the referee.
LEMMA FromRefereeTyped ==
  ASSUME HandleTyped, enrollment # None => Sound(enrollment),
         NEW type, FromReferee(type)
  PROVE  HandleTyped'
<1> USE DEF HandleTyped
<1>1. \/ roster_finalised
      \/ MoveTo("playing") \/ MoveTo("waiting")
      \/ Keep
  BY Zenon DEF FromReferee
<1>2. CASE roster_finalised
  <2>1. CASE enrollment = None \/ ~is_full(enrollment)
    BY <1>2, <2>1 DEF roster_finalised, Halt, handle
  <2>2. CASE enrollment # None /\ is_full(enrollment)
    <3>1. roster' \in RosterType
      BY <1>2, <2>2, FinaliseRosterOf DEF RosterOf, roster_finalised
    <3>2. pending' \in Seq(Outgoing)
      BY <1>2, <2>2, <3>1, AcksTyped DEF roster_finalised
    <3> QED
      BY <1>2, <2>2, <3>1, <3>2 DEF roster_finalised
  <2> QED
    BY <2>1, <2>2
<1>3. CASE MoveTo("playing") \/ MoveTo("waiting")
  BY <1>3 DEF MoveTo
<1>4. CASE Keep
  BY <1>4 DEF Keep, handle
<1> QED
  BY <1>1, <1>2, <1>3, <1>4

\* A registration that is not a success is refused with an error.
LEMMA RegisterErrors ==
  ASSUME NEW e, NEW q, register_result(e, q) # "success"
  PROVE  register_result(e, q) \in RegisterError
BY Zenon DEF register_result, RegisterError

\* What a registration is answered, or passed on, with.
LEMMA RegistrationLetters ==
  ASSUME NEW c \in Client, NEW q \in Request,
         registration_requested(c, q), enrollment # None
  PROVE  \/ /\ register_result(enrollment, q) = "success"
            /\ pending' = <<SendTo("ref_input", [type |-> "registration", client |-> c,
                                                request |-> q])>>
         \/ /\ register_result(enrollment, q) # "success"
            /\ pending' = <<SendTo("server_trans",
                                   [type |-> "regError", to |-> c,
                                    error |-> register_result(enrollment, q)])>>
BY DEF registration_requested

\* A client transaction.
LEMMA FromClientTransTyped ==
  ASSUME HandleTyped, enrollment # None => Sound(enrollment),
         NEW msg \in ClientTransaction, FromClientTrans(msg)
  PROVE  HandleTyped'
<1> USE DEF HandleTyped
<1>1. CASE msg.type = "registration" /\ registration_requested(msg.from, msg.request)
  <2> DEFINE c == msg.from
             q == msg.request
  <2>1. c \in Client /\ q \in Request
    BY <1>1 DEF ClientTransaction
  <2> HIDE DEF c, q
  <2>2. registration_requested(c, q)
    BY <1>1 DEF c, q
  <2>3. CASE enrollment = None
    BY <2>2, <2>3 DEF registration_requested, Halt, handle
  <2>4. CASE enrollment # None
    <3>1. enrollment' \in EnrollmentType
      BY <2>1, <2>2, <2>4, RegisterSound DEF registration_requested, Sound
    <3>2. pending' \in Seq(Outgoing)
      <4>1. [type |-> "registration", client |-> c, request |-> q] \in RefInput
        BY <2>1 DEF RefInput
      <4>2. register_result(enrollment, q) # "success" =>
              [type |-> "regError", to |-> c, error |-> register_result(enrollment, q)]
                \in ServerTransaction
        BY <2>1, RegisterErrors DEF ServerTransaction
      <4>3. PICK letter \in Outgoing : pending' = <<letter>>
        <5>1. CASE register_result(enrollment, q) = "success"
          <6>1. pending' = <<SendTo("ref_input", [type |-> "registration", client |-> c,
                                                 request |-> q])>>
            BY <2>1, <2>2, <2>4, <5>1, RegistrationLetters
          <6> QED
            BY <4>1, <6>1 DEF SendTo, Outgoing
        <5>2. CASE register_result(enrollment, q) # "success"
          <6>1. pending' = <<SendTo("server_trans",
                                    [type |-> "regError", to |-> c,
                                     error |-> register_result(enrollment, q)])>>
            BY <2>1, <2>2, <2>4, <5>2, RegistrationLetters
          <6> QED
            BY <4>2, <5>2, <6>1 DEF SendTo, Outgoing
        <5> QED
          BY <5>1, <5>2
      <4> QED
        BY <4>3
    <3> QED
      BY <2>2, <2>4, <3>1, <3>2 DEF registration_requested
  <2> QED
    BY <2>3, <2>4
<1>2. CASE Keep
  BY <1>2 DEF Keep, handle
<1> QED
  BY <1>1, <1>2 DEF FromClientTrans

\* A client status.
LEMMA FromClientStatusTyped ==
  ASSUME HandleTyped, NEW msg, FromClientStatus(msg)
  PROVE  HandleTyped'
<1> USE DEF HandleTyped
<1>1. CASE received_pong(msg.from, msg.pong)
  BY <1>1 DEF received_pong, Clock!record_receive
<1>2. CASE Keep
  BY <1>2 DEF Keep, handle
<1> QED
  BY <1>1, <1>2 DEF FromClientStatus

\* The pings of a round: one for every player, and nothing else.
LEMMA PingsTyped ==
  ASSUME HandleTyped, roster # None, time < MaxPings, ping_timedout
  PROVE  /\ HandleTyped'
         /\ \A i \in 1..Len(pending') :
                pending'[i].queue = "server_status" /\ pending'[i].msg.type = "ping"
<1> USE DEF HandleTyped
<1> DEFINE N == MaxClubCount * MaxTeamSize
           round == Clock!record_transmit(monitor, time + 1)
           ping(i) == SendTo("server_status",
                             [type |-> "ping", to |-> roster.players[i - 1],
                              ping |-> [seq |-> round.current, sent |-> time + 1]])
<1>1. N \in Nat \ {0} /\ Cardinality(PlayerId) = N
  BY FS_Interval, RosterAssumption DEF PlayerId, MaxClubCount
<1>2. "current" \in DOMAIN round /\ round.current \in Clock!SeqNum
  BY ServerAssumption DEF Clock!record_transmit, Clock!SeqNum
<1>3. pending' = [i \in 1..N |-> ping(i)]
  BY <1>1 DEF ping_timedout, Recipients
<1>4. PlayerId = 0..(N - 1)
  BY DEF PlayerId
<1>5. time + 1 \in 0..MaxPings /\ time + 1 \in Nat
  BY ServerAssumption
<1>6. monitor' = round /\ time' = time + 1
      /\ UNCHANGED <<state, enrollment, roster, game_state, halted>>
  BY DEF ping_timedout
<1> HIDE DEF N, round
<1>7. ASSUME NEW i \in 1..N
      PROVE  /\ ping(i) \in Outgoing
             /\ ping(i).queue = "server_status" /\ ping(i).msg.type = "ping"
  <2>1. i - 1 \in PlayerId
    BY <1>1, <1>4
  <2>2. roster.players[i - 1] \in Client \cup {None}
    BY <2>1 DEF RosterType
  <2>3. [seq |-> round.current, sent |-> time + 1] \in Clock!Pong
    BY <1>2, <1>5 DEF Clock!Pong
  <2> QED
    BY <2>2, <2>3 DEF SendTo, Outgoing, ServerStatus
<1> HIDE DEF ping
<1>8. pending' \in Seq(Outgoing) /\ Len(pending') = N
  BY <1>1, <1>3, <1>7
<1>9. \A i \in 1..Len(pending') :
          pending'[i].queue = "server_status" /\ pending'[i].msg.type = "ping"
  BY <1>3, <1>7, <1>8
<1>10. HandleTyped'
  BY <1>2, <1>5, <1>6, <1>8
<1> QED
  BY <1>9, <1>10

\* A step of the main thread.
LEMMA ServerTyped ==
  ASSUME Typed, Wellformed, ObjectsInStep, ServerNext
  PROVE  HandleTyped' /\ FrameTyped' /\ QueuesTyped'
<1> USE DEF Typed, inbound, outbound
<1>0. enrollment # None => Sound(enrollment)
  BY DEF Wellformed
<1>1. ASSUME Keep PROVE HandleTyped'
  BY <1>1 DEF Keep, handle, HandleTyped
<1>2. CASE TakeRefOutput
  <2>1. HandleTyped'
    <3>1. Keep \/ FromReferee(Head(ref_output))
      BY <1>2 DEF TakeRefOutput
    <3> QED
      BY <1>0, <1>1, <3>1, FromRefereeTyped
  <2>2. FrameTyped'
    BY <1>2, ServerAssumption DEF TakeRefOutput, FrameTyped
  <2>3. QueuesTyped'
    <3>1. ref_output' = ref_output \/ (ref_output # <<>> /\ ref_output' = Tail(ref_output))
      BY <1>2 DEF TakeRefOutput
    <3>2. ref_output' \in Seq(RefOutput)
      BY <3>1, TakenTyped DEF QueuesTyped
    <3>3. UNCHANGED <<client_status, client_trans, outbound>>
      BY <1>2 DEF TakeRefOutput
    <3> QED
      BY <3>2, <3>3 DEF QueuesTyped
  <2> QED
    BY <2>1, <2>2, <2>3
<1>3. CASE TakeClientStatus
  <2>1. HandleTyped'
    <3>1. Keep \/ FromClientStatus(Head(client_status))
      BY <1>3 DEF TakeClientStatus
    <3> QED
      BY <1>1, <3>1, FromClientStatusTyped
  <2>2. FrameTyped'
    BY <1>3 DEF TakeClientStatus, FrameTyped
  <2>3. QueuesTyped'
    <3>1. client_status' = client_status \/ (client_status # <<>> /\ client_status' = Tail(client_status))
      BY <1>3 DEF TakeClientStatus
    <3>2. client_status' \in Seq(ClientStatus)
      BY <3>1, TakenTyped DEF QueuesTyped
    <3>3. UNCHANGED <<ref_output, client_trans, outbound>>
      BY <1>3 DEF TakeClientStatus
    <3> QED
      BY <3>2, <3>3 DEF QueuesTyped
  <2> QED
    BY <2>1, <2>2, <2>3
<1>4. CASE TakeClientTrans
  <2>1. HandleTyped'
    <3>1. CASE client_trans = <<>>
      BY <1>1, <1>4, <3>1 DEF TakeClientTrans
    <3>2. CASE client_trans # <<>>
      <4>1. Head(client_trans) \in ClientTransaction
        BY <3>2 DEF QueuesTyped
      <4>2. FromClientTrans(Head(client_trans))
        BY <1>4, <3>2 DEF TakeClientTrans
      <4> QED
        BY <1>0, <4>1, <4>2, FromClientTransTyped
    <3> QED
      BY <3>1, <3>2
  <2>2. FrameTyped'
    BY <1>4 DEF TakeClientTrans, FrameTyped
  <2>3. QueuesTyped'
    <3>1. client_trans' = client_trans \/ (client_trans # <<>> /\ client_trans' = Tail(client_trans))
      BY <1>4 DEF TakeClientTrans
    <3>2. client_trans' \in Seq(ClientTransaction)
      BY <3>1, TakenTyped DEF QueuesTyped
    <3>3. UNCHANGED <<ref_output, client_status, outbound>>
      BY <1>4 DEF TakeClientTrans
    <3> QED
      BY <3>2, <3>3 DEF QueuesTyped
  <2> QED
    BY <2>1, <2>2, <2>3
<1>5. CASE RunTimers
  <2>1. HandleTyped'
    <3>1. CASE state = "onbreak" /\ time < MaxPings /\ ping_timedout
      BY <3>1, PingsTyped DEF ObjectsInStep
    <3> QED
      BY <1>1, <1>5, <3>1 DEF RunTimers
  <2>2. FrameTyped' /\ QueuesTyped'
    BY <1>5 DEF RunTimers, FrameTyped, QueuesTyped
  <2> QED
    BY <2>1, <2>2
<1>6. CASE Enqueue
  <2>1. HandleTyped' /\ FrameTyped'
    BY <1>6 DEF Enqueue, handle, HandleTyped, FrameTyped
  <2>2. Head(pending) \in Outgoing
    BY <1>6 DEF Enqueue, HandleTyped
  <2>3. CASE Head(pending).queue = "ref_input"
    <3>1. Head(pending).msg \in RefInput
      BY <2>2, <2>3 DEF Outgoing
    <3>2. /\ ref_input' = Append(ref_input, Head(pending).msg)
          /\ UNCHANGED <<server_status, server_trans, inbound>>
      BY <1>6, <2>3 DEF Enqueue
    <3> QED
      BY <2>1, <3>1, <3>2 DEF QueuesTyped
  <2>4. CASE Head(pending).queue = "server_status"
    <3>1. Head(pending).msg \in ServerStatus
      BY <2>2, <2>4 DEF Outgoing
    <3>2. /\ server_status' = Append(server_status, Head(pending).msg)
          /\ UNCHANGED <<ref_input, server_trans, inbound>>
      BY <1>6, <2>4 DEF Enqueue
    <3> QED
      BY <2>1, <3>1, <3>2 DEF QueuesTyped
  <2>5. CASE Head(pending).queue = "server_trans"
    <3>1. Head(pending).msg \in ServerTransaction
      BY <2>2, <2>5 DEF Outgoing
    <3>2. /\ server_trans' = Append(server_trans, Head(pending).msg)
          /\ UNCHANGED <<ref_input, server_status, inbound>>
      BY <1>6, <2>5 DEF Enqueue
    <3> QED
      BY <2>1, <3>1, <3>2 DEF QueuesTyped
  <2> QED
    BY <2>2, <2>3, <2>4, <2>5 DEF Outgoing
<1> QED
  BY <1>2, <1>3, <1>4, <1>5, <1>6 DEF ServerNext

\* Every step of the loop, and of the threads around it.
LEMMA NextTyped == Typed /\ IInv /\ [Next]_vars => Typed'
<1> SUFFICES ASSUME Typed, IInv, [Next]_vars PROVE Typed'
  OBVIOUS
<1> USE DEF IInv, handle, loop, inbound, outbound
<1>1. CASE MainThread
  BY <1>1, ServerTyped DEF MainThread, Typed
<1>2. ASSUME sent < Budget, sent' = sent + 1
      PROVE  sent' \in 0..Budget
  BY <1>2, ServerLoopAssumption DEF Typed
<1>3. ASSUME NEW output \in RefOutputs, RefereeSends(output)
      PROVE  Typed'
  <2>1. ref_output' = Append(ref_output, output) /\ output \in RefOutput
    BY <1>3, ServerLoopAssumption DEF RefereeSends
  <2>2. ref_output' \in Seq(RefOutput)
    BY <2>1, AppendProperties DEF Typed, QueuesTyped
  <2> QED
    BY <1>2, <1>3, <2>2 DEF RefereeSends, Typed, HandleTyped, FrameTyped, QueuesTyped
<1>4. ASSUME NEW msg \in Statuses, ClientSendsStatus(msg)
      PROVE  Typed'
  <2>1. [seq |-> 1 % SeqModulus, sent |-> 1] \in Clock!Pong
    BY ServerAssumption DEF Clock!Pong, Clock!SeqNum
  <2>2. msg \in ClientStatus
    BY <2>1 DEF Statuses, ClientStatus
  <2>3. client_status' \in Seq(ClientStatus)
    BY <1>4, <2>2, AppendProperties DEF ClientSendsStatus, Typed, QueuesTyped
  <2> QED
    BY <1>2, <1>4, <2>3 DEF ClientSendsStatus, Typed, HandleTyped, FrameTyped, QueuesTyped
<1>5. ASSUME NEW msg \in Transactions, ClientSendsTrans(msg)
      PROVE  Typed'
  <2>1. msg \in ClientTransaction
    BY ServerLoopAssumption DEF Transactions, ClientTransaction
  <2>2. client_trans' \in Seq(ClientTransaction)
    BY <1>5, <2>1, AppendProperties DEF ClientSendsTrans, Typed, QueuesTyped
  <2> QED
    BY <1>2, <1>5, <2>2 DEF ClientSendsTrans, Typed, HandleTyped, FrameTyped, QueuesTyped
<1>6. CASE DrainRefInput
  <2>1. ref_input' \in Seq(RefInput)
    BY <1>6, TakenTyped DEF DrainRefInput, Typed, QueuesTyped
  <2> QED
    BY <1>6, <2>1 DEF DrainRefInput, Typed, HandleTyped, FrameTyped, QueuesTyped
<1>7. CASE DrainServerStatus
  <2>1. server_status' \in Seq(ServerStatus)
    BY <1>7, TakenTyped DEF DrainServerStatus, Typed, QueuesTyped
  <2> QED
    BY <1>7, <2>1 DEF DrainServerStatus, Typed, HandleTyped, FrameTyped, QueuesTyped
<1>8. CASE DrainServerTrans
  <2>1. server_trans' \in Seq(ServerTransaction)
    BY <1>8, TakenTyped DEF DrainServerTrans, Typed, QueuesTyped
  <2> QED
    BY <1>8, <2>1 DEF DrainServerTrans, Typed, HandleTyped, FrameTyped, QueuesTyped
<1>9. CASE UNCHANGED vars
  BY <1>9 DEF vars, serverVars, Typed, HandleTyped, FrameTyped, QueuesTyped
<1> QED
  BY <1>1, <1>3, <1>4, <1>5, <1>6, <1>7, <1>8, <1>9 DEF Next

\* The constructed handle is typed, and so is the message of ref_spawned.
LEMMA InitTyped == Init => Typed
<1> SUFFICES ASSUME Init PROVE Typed
  OBVIOUS
<1> USE DEF Init, ServerInit
<1>1. EmptyEnrollment \in EnrollmentType
  BY EmptySound DEF Sound
<1>2. "current" \in DOMAIN monitor /\ monitor.current \in Clock!SeqNum
  BY ServerAssumption DEF Clock!NewMonitor, Clock!SeqNum
<1>3. pending \in Seq(Outgoing)
  BY DEF RefInput, Outgoing
<1>4. /\ state = "waiting" /\ enrollment = EmptyEnrollment /\ roster = None
      /\ game_state = FALSE /\ halted = "no" /\ time \in 0..MaxPings
  BY ServerAssumption
<1>5. FrameTyped /\ QueuesTyped /\ sent \in 0..Budget
  BY ServerAssumption, ServerLoopAssumption DEF FrameTyped, QueuesTyped
<1> HIDE DEF Init, ServerInit
<1> QED
  BY <1>1, <1>2, <1>3, <1>4, <1>5 DEF Typed, HandleTyped

\* Whatever the referee and the clients send, handlers leave messages of the protocols
\* only: in particular a finalised roster is complete when its acknowledgements are made.
THEOREM TypeCorrect == Spec => []TypeOK
<1>1. Typed => TypeOK
  <2> SUFFICES ASSUME Typed PROVE TypeOK
    OBVIOUS
  <2>1. \A i \in 1..Len(pending) : pending[i] \in Outgoing
    BY ElementOfSeq DEF Typed, HandleTyped
  <2>2. \A i \in 1..Len(pending) :
            \/ pending[i].queue = "ref_input" /\ pending[i].msg \in RefInput
            \/ pending[i].queue = "server_status" /\ pending[i].msg \in ServerStatus
            \/ pending[i].queue = "server_trans" /\ pending[i].msg \in ServerTransaction
    BY <2>1 DEF Outgoing
  <2> QED
    BY <2>2 DEF TypeOK, ServerTypeOK, Typed, HandleTyped, FrameTyped, QueuesTyped
<1> QED
  BY <1>1, InitTyped, NextTyped, Invariance, PTL DEF Spec
=============================================================================
