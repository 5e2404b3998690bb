---------------------------- MODULE MatchProofs -----------------------------
(***************************************************************************)
(* Server, referee, I/O threads and clients together, proved for any       *)
(* number of clients, teams and uniforms, any queue lengths, any requests, *)
(* and whether or not the referee has a physics engine: the two programs   *)
(* agree on the roster, every acknowledgement is true, and together they   *)
(* implement the registration book.                                        *)
(***************************************************************************)
EXTENDS Match, RosterProofs, SequenceTheorems, WellFoundedInduction

-----------------------------------------------------------------------------
(* The inductive invariant. *)

Message == RefInput \cup ServerStatus \cup ServerTransaction

Outgoing ==
    [queue: {"ref_input"}, msg: RefInput] \cup
    [queue: {"server_status"}, msg: ServerStatus] \cup
    [queue: {"server_trans"}, msg: ServerTransaction]

ClientEvent ==
    [type: {"connect", "disconnect"}] \cup
    [type: {"registration"}, from: Client, request: Request]

\* The handle and what a handler leaves to be sent.
HandleTyped ==
    /\ state \in {"waiting", "onbreak", "playing"}
    /\ enrollment \in EnrollmentType \cup {None}
    /\ roster \in RosterType \cup {None}
    /\ game_state \in BOOLEAN
    /\ "current" \in DOMAIN monitor /\ monitor.current \in Clock!SeqNum
    /\ halted \in {"no", "roster_finalised", "registration_requested"}
    /\ time \in 0..MaxPings
    /\ pending \in Seq(Outgoing)

FrameTyped ==
    /\ frame \in 0..(FramePeriod - 1)
    /\ step \in {"ref", "status", "trans", "timers"}

\* Every queue, pipe and wire carries messages of its protocol.
QueuesTyped ==
    /\ ref_input \in Seq(RefInput)
    /\ ref_output \in Seq(RefOutput)
    /\ server_status \in Seq(ServerStatus)
    /\ server_trans \in Seq(ServerTransaction)
    /\ client_status \in Seq(ClientStatus)
    /\ client_trans \in Seq(ClientTransaction)

WiresTyped ==
    /\ to_referee \in Seq(RefInput)
    /\ from_referee \in Seq(RefOutput)
    /\ connected \in SUBSET Client
    /\ uplink \in [Client -> Seq(ClientEvent)]
    /\ delivered \in [Client -> Seq(ServerTransaction)]

RefereeTyped ==
    /\ referee_enrollment \in EnrollmentType \cup {None}
    /\ referee_roster \in RosterType \cup {None}

Typed == HandleTyped /\ FrameTyped /\ QueuesTyped /\ WiresTyped /\ RefereeTyped

\* Registrations on their way to a handler are those their clients may make.
AllWanted(msgs) ==
    \A i \in 1..Len(msgs) :
        msgs[i].type = "registration" => msgs[i].request \in Wants[msgs[i].from]

Wanted ==
    /\ AllWanted(client_trans)
    /\ \A c \in Client : AllWanted(uplink[c])

EntriesWanted(e) ==
    \A s \in Slot : e.slot[s] # None =>
        \E q \in Wants[e.slot[s].id] : SlotOf(q) = s /\ q.ptype = e.slot[s].ptype

PlacesWanted(r) ==
    \A id \in PlayerId :
        /\ r.players[id] \in Client
        /\ \E q \in Wants[r.players[id]] :
            /\ SlotOf(q) = <<r.teams[id_to_uniform(id).side], id_to_uniform(id).uniform>>
            /\ q.ptype = "goalKeeper" <=> is_goalkeeper(r, id)

\* The server has an enrollment until it has the referee's roster.
ServerObjects ==
    /\ enrollment # None <=> roster = None
    /\ state # "waiting" => roster # None
    /\ enrollment # None => Sound(enrollment) /\ EntriesWanted(enrollment)
    /\ roster # None => roster = referee_roster /\ PlacesWanted(roster)

NoRegistration(msgs) == \A i \in 1..Len(msgs) : msgs[i].type # "registration"

\* The referee has an enrollment until it has a roster.  From then on no registration
\* is under way, because the server's enrollment is as full as the referee's was.
RefereeObjects ==
    /\ referee_enrollment = None <=> referee_roster # None
    /\ referee_enrollment # None => Sound(referee_enrollment)
    /\ referee_roster # None =>
        /\ NoRegistration(to_referee)
        /\ NoRegistration(ref_input)
        /\ NoRegistration(Letters)
        /\ enrollment # None =>
            is_full(enrollment) /\ finalise(enrollment) = referee_roster

\* Until then, replaying what is under way on the referee's enrollment accepts every
\* registration and gives the server's.
ReplayGives(e, msgs, result) ==
    /\ Replay(e, msgs)[Len(msgs)] = result
    /\ \A i \in Registrations(msgs) :
        register_result(Replay(e, msgs)[i - 1], msgs[i].request) = "success"

InStep ==
    referee_roster = None /\ ~referee_halted =>
        ReplayGives(referee_enrollment, UnderWay, enrollment)

\* The roster is announced once, by the referee that has it, to a server that has not.
Announcements(outputs) == {i \in 1..Len(outputs) : outputs[i] = "rosterFinalised"}

AnnouncedOnce ==
    /\ \A i, j \in Announcements(ref_output) : i = j
    /\ \A i, j \in Announcements(from_referee) : i = j
    /\ Announcements(ref_output) = {} \/ Announcements(from_referee) = {}
    /\ Announcements(ref_output) # {} \/ Announcements(from_referee) # {} =>
        roster = None /\ referee_roster # None

\* Acknowledgements are true of the server's roster, and no two are of one place.
AcksOf(msgs) == {i \in 1..Len(msgs) : IsAck(msgs[i])}

TrueAcks(r, msgs) ==
    \A i \in AcksOf(msgs) :
        /\ r # None
        /\ r.players[PlaceOf(msgs[i])] = msgs[i].to
        /\ msgs[i].ptype = "outField"

Distinct(msgs) ==
    \A i, j \in AcksOf(msgs) : PlaceOf(msgs[i]) = PlaceOf(msgs[j]) => i = j

Apart(msgs, others) ==
    \A i \in AcksOf(msgs), j \in AcksOf(others) : PlaceOf(msgs[i]) # PlaceOf(others[j])

AcksInOrder ==
    /\ roster = None => Len(pending) <= 1
    /\ TrueAcks(roster, Letters) /\ TrueAcks(roster, server_trans)
    /\ Distinct(Letters) /\ Distinct(server_trans) /\ Apart(server_trans, Letters)
    /\ \A c \in Client :
        /\ TrueAcks(roster, delivered[c]) /\ Distinct(delivered[c])
        /\ Apart(delivered[c], server_trans) /\ Apart(delivered[c], Letters)

IInv ==
    /\ Typed /\ Wanted /\ OnlyLateRequestsHalt
    /\ ServerObjects /\ RefereeObjects /\ InStep
    /\ AnnouncedOnce /\ AcksInOrder

-----------------------------------------------------------------------------
(* Sequences. *)

\* Moving the first message of a queue to the end of the one before it changes
\* nothing for who reads both in turn.
LEMMA HeadMovesOver ==
  ASSUME NEW S, NEW s \in Seq(S), NEW t \in Seq(S), t # <<>>
  PROVE  /\ Append(s, Head(t)) \in Seq(S) /\ Tail(t) \in Seq(S)
         /\ Append(s, Head(t)) \o Tail(t) = s \o t
<1> DEFINE u == Append(s, Head(t))
           v == Tail(t)
<1>1. /\ Head(t) \in S /\ v \in Seq(S) /\ Len(v) = Len(t) - 1
      /\ \A i \in 1..Len(v) : v[i] = t[i + 1]
      /\ Head(t) = t[1] /\ Len(t) \in Nat
  BY HeadTailProperties
<1>2. /\ u \in Seq(S) /\ Len(u) = Len(s) + 1 /\ Len(s) \in Nat
      /\ \A i \in 1..Len(s) : u[i] = s[i]
      /\ u[Len(s) + 1] = t[1]
  BY <1>1, AppendProperties
<1> HIDE DEF u, v
<1>3. /\ u \o v \in Seq(S) /\ Len(u \o v) = Len(u) + Len(v)
      /\ \A i \in 1..(Len(u) + Len(v)) :
            (u \o v)[i] = IF i <= Len(u) THEN u[i] ELSE v[i - Len(u)]
  BY <1>1, <1>2, ConcatProperties
<1>4. /\ s \o t \in Seq(S) /\ Len(s \o t) = Len(s) + Len(t)
      /\ \A i \in 1..(Len(s) + Len(t)) :
            (s \o t)[i] = IF i <= Len(s) THEN s[i] ELSE t[i - Len(s)]
  BY ConcatProperties
<1>5. ASSUME NEW i \in 1..Len(u \o v) PROVE (u \o v)[i] = (s \o t)[i]
  <2>1. CASE i <= Len(s)
    BY <1>1, <1>2, <1>3, <1>4, <2>1
  <2>2. CASE i = Len(s) + 1
    BY <1>1, <1>2, <1>3, <1>4, <2>2
  <2>3. CASE i > Len(s) + 1
    <3>1. i - Len(u) \in 1..Len(v) /\ i - Len(u) + 1 = i - Len(s)
      BY <1>1, <1>2, <1>3, <2>3
    <3>2. (u \o v)[i] = v[i - Len(u)] /\ (s \o t)[i] = t[i - Len(s)]
      BY <1>1, <1>2, <1>3, <1>4, <2>3
    <3> QED
      BY <1>1, <3>1, <3>2
  <2> QED
    BY <1>1, <1>2, <1>3, <2>1, <2>2, <2>3
<1>6. u \o v = s \o t
  <2>1. Len(u \o v) = Len(s \o t)
    BY <1>1, <1>2, <1>3, <1>4
  <2> QED
    BY <1>3, <1>4, <1>5, <2>1, SeqEqual
<1> QED
  BY <1>1, <1>2, <1>6 DEF u, v

\* Taking the first message of the first queue takes the first of both.
LEMMA HeadOfConcat ==
  ASSUME NEW S, NEW s \in Seq(S), NEW t \in Seq(S), s # <<>>
  PROVE  /\ s \o t # <<>> /\ Head(s \o t) = Head(s)
         /\ Tail(s) \in Seq(S) /\ Tail(s \o t) = Tail(s) \o t
<1>1. /\ s \o t \in Seq(S) /\ Len(s \o t) = Len(s) + Len(t)
      /\ \A i \in 1..(Len(s) + Len(t)) :
            (s \o t)[i] = IF i <= Len(s) THEN s[i] ELSE t[i - Len(s)]
  BY ConcatProperties
<1>2. /\ Tail(s) \in Seq(S) /\ Len(Tail(s)) = Len(s) - 1
      /\ \A i \in 1..Len(Tail(s)) : Tail(s)[i] = s[i + 1]
      /\ Len(s) \in Nat \ {0} /\ Len(t) \in Nat
  BY HeadTailProperties, EmptySeq, LenProperties
<1>3. s \o t # <<>> /\ Head(s \o t) = Head(s)
  <2>1. s \o t # <<>>
    BY ConcatEqualIffEmpty
  <2>2. Head(s \o t) = (s \o t)[1] /\ Head(s) = s[1]
    BY <1>1, <2>1
  <2> QED
    BY <1>1, <1>2, <2>1, <2>2
<1>4. /\ Tail(s \o t) \in Seq(S) /\ Len(Tail(s \o t)) = Len(s) + Len(t) - 1
      /\ \A i \in 1..Len(Tail(s \o t)) : Tail(s \o t)[i] = (s \o t)[i + 1]
  BY <1>1, <1>3, HeadTailProperties
<1>5. /\ Tail(s) \o t \in Seq(S) /\ Len(Tail(s) \o t) = Len(Tail(s)) + Len(t)
      /\ \A i \in 1..(Len(Tail(s)) + Len(t)) :
            (Tail(s) \o t)[i] = IF i <= Len(Tail(s)) THEN Tail(s)[i]
                                ELSE t[i - Len(Tail(s))]
  BY <1>2, ConcatProperties
<1>6. ASSUME NEW i \in 1..Len(Tail(s \o t)) PROVE Tail(s \o t)[i] = (Tail(s) \o t)[i]
  <2>1. Tail(s \o t)[i] = IF i + 1 <= Len(s) THEN s[i + 1] ELSE t[i + 1 - Len(s)]
    BY <1>1, <1>2, <1>4
  <2>2. CASE i <= Len(Tail(s))
    BY <1>2, <1>4, <1>5, <2>1, <2>2
  <2>3. CASE i > Len(Tail(s))
    <3>1. i + 1 - Len(s) = i - Len(Tail(s)) /\ ~(i + 1 <= Len(s))
      BY <1>2, <2>3
    <3> QED
      BY <1>2, <1>4, <1>5, <2>1, <2>3, <3>1
  <2> QED
    BY <1>2, <1>4, <2>2, <2>3
<1>7. Tail(s \o t) = Tail(s) \o t
  BY <1>2, <1>4, <1>5, <1>6, SeqEqual
<1> QED
  BY <1>2, <1>3, <1>7

\* A queue from which one message is taken, or none, keeps its type.
LEMMA TakenTyped ==
  ASSUME NEW S, NEW s \in Seq(S), NEW t, t = s \/ (s # <<>> /\ t = Tail(s))
  PROVE  t \in Seq(S)
BY HeadTailProperties

\* So does one to which a message is added, or not.
LEMMA AddedTyped ==
  ASSUME NEW S, NEW s \in Seq(S), NEW m \in S, NEW t, t = s \/ t = Append(s, m)
  PROVE  t \in Seq(S)
BY AppendProperties

\* Where the messages of two queues, read in turn, come from.
LEMMA ConcatHas ==
  ASSUME NEW s \in Seq(Message), NEW t \in Seq(Message),
         NoRegistration(s \o t)
  PROVE  NoRegistration(s) /\ NoRegistration(t)
<1>1. /\ s \o t \in Seq(Message) /\ Len(s \o t) = Len(s) + Len(t)
      /\ \A i \in 1..(Len(s) + Len(t)) :
            (s \o t)[i] = IF i <= Len(s) THEN s[i] ELSE t[i - Len(s)]
      /\ Len(s) \in Nat /\ Len(t) \in Nat
  BY ConcatProperties
<1>2. ASSUME NEW i \in 1..Len(s) PROVE s[i].type # "registration"
  <2>1. (s \o t)[i] = s[i] /\ i \in 1..Len(s \o t)
    BY <1>1
  <2> QED
    BY <2>1 DEF NoRegistration
<1>3. ASSUME NEW i \in 1..Len(t) PROVE t[i].type # "registration"
  <2>1. (s \o t)[Len(s) + i] = t[i] /\ Len(s) + i \in 1..Len(s \o t)
    BY <1>1
  <2> QED
    BY <2>1 DEF NoRegistration
<1> QED
  BY <1>2, <1>3 DEF NoRegistration

\* And the other way round.
LEMMA ConcatHasNo ==
  ASSUME NEW s \in Seq(Message), NEW t \in Seq(Message),
         NoRegistration(s), NoRegistration(t)
  PROVE  NoRegistration(s \o t)
<1>1. /\ s \o t \in Seq(Message) /\ Len(s \o t) = Len(s) + Len(t)
      /\ \A i \in 1..(Len(s) + Len(t)) :
            (s \o t)[i] = IF i <= Len(s) THEN s[i] ELSE t[i - Len(s)]
      /\ Len(s) \in Nat /\ Len(t) \in Nat
  BY ConcatProperties
<1>2. ASSUME NEW i \in 1..Len(s \o t) PROVE (s \o t)[i].type # "registration"
  <2>1. CASE i <= Len(s)
    BY <1>1, <2>1 DEF NoRegistration
  <2>2. CASE i > Len(s)
    <3>1. i - Len(s) \in 1..Len(t) /\ (s \o t)[i] = t[i - Len(s)]
      BY <1>1, <2>2
    <3> QED
      BY <3>1 DEF NoRegistration
  <2> QED
    BY <1>1, <2>1, <2>2
<1> QED
  BY <1>2 DEF NoRegistration

-----------------------------------------------------------------------------
(* Replaying messages on an enrollment.  Replay is a recursive function: what  *)
(* it computes is proved by induction on the number of messages.               *)

\* A set that has 0 and with every number the next has all of them.
LEMMA Induction ==
  ASSUME NEW S, 0 \in S, \A n \in Nat : n \in S => n + 1 \in S
  PROVE  \A n \in Nat : n \in S
<1> SUFFICES ASSUME Nat \ S # {} PROVE FALSE
  OBVIOUS
<1>1. \E x \in Nat \ S : \A y \in Nat \ S : ~(<<y, x>> \in OpToRel(<, Nat))
  BY NatLessThanWellFounded, WFMin, Zenon
<1>2. \E x \in Nat \ S : \A y \in Nat \ S : ~(y < x)
  BY <1>1 DEF OpToRel
<1>3. PICK x \in Nat \ S : \A y \in Nat \ S : ~(y < x)
  BY <1>2
<1>4. x # 0 /\ x - 1 \in Nat
  OBVIOUS
<1>5. x - 1 \in S
  BY <1>3, <1>4
<1>6. x - 1 + 1 \in S
  BY <1>4, <1>5
<1> QED
  BY <1>6

\* f is a replay of the first k messages.
ReplayOf(f, e, msgs, k) ==
    f = [n \in 0..k |-> IF n = 0 THEN e ELSE Processed(f[n - 1], msgs[n])]

\* There is a replay of any number of messages.
LEMMA ReplayExists ==
  ASSUME NEW e, NEW msgs
  PROVE  \A k \in Nat : \E f : ReplayOf(f, e, msgs, k)
<1> DEFINE S == {k \in Nat : \E f : ReplayOf(f, e, msgs, k)}
<1>1. 0 \in S
  <2>1. ReplayOf([n \in {0} |-> e], e, msgs, 0)
    BY DEF ReplayOf
  <2> QED
    BY <2>1
<1>2. ASSUME NEW k \in Nat, k \in S PROVE k + 1 \in S
  <2>1. PICK f : ReplayOf(f, e, msgs, k)
    BY <1>2
  <2> DEFINE g == [n \in 0..(k + 1) |-> IF n = k + 1 THEN Processed(f[k], msgs[k + 1])
                                        ELSE f[n]]
  <2>2. \A n \in 0..k : f[n] = IF n = 0 THEN e ELSE Processed(f[n - 1], msgs[n])
    BY <2>1 DEF ReplayOf
  <2>3. \A n \in 0..(k + 1) : g[n] = IF n = 0 THEN e ELSE Processed(g[n - 1], msgs[n])
    BY <2>2
  <2>4. ReplayOf(g, e, msgs, k + 1)
    BY <2>3 DEF ReplayOf
  <2> QED
    BY <2>4
<1> HIDE DEF S
<1>3. \A k \in Nat : k \in S
  BY <1>1, <1>2, Induction
<1> QED
  BY <1>3 DEF S

\* What Replay does at its start and with each message.
LEMMA ReplaySteps ==
  ASSUME NEW e, NEW msgs, Len(msgs) \in Nat
  PROVE  /\ Replay(e, msgs)[0] = e
         /\ \A n \in 1..Len(msgs) :
                Replay(e, msgs)[n] = Processed(Replay(e, msgs)[n - 1], msgs[n])
<1> DEFINE f == CHOOSE g : ReplayOf(g, e, msgs, Len(msgs))
<1>1. ReplayOf(f, e, msgs, Len(msgs))
  BY ReplayExists
<1>2. Replay(e, msgs) = f
  BY DEF Replay, ReplayOf
<1> HIDE DEF f
<1> QED
  BY <1>1, <1>2 DEF ReplayOf

\* Replays of sequences that begin alike begin alike.
LEMMA ReplayOfPrefix ==
  ASSUME NEW e, NEW s, NEW t, Len(s) \in Nat, Len(t) \in Nat, Len(s) <= Len(t),
         \A i \in 1..Len(s) : t[i] = s[i]
  PROVE  \A n \in 0..Len(s) : Replay(e, t)[n] = Replay(e, s)[n]
<1> DEFINE S == {n \in Nat : n <= Len(s) => Replay(e, t)[n] = Replay(e, s)[n]}
<1>1. 0 \in S
  BY ReplaySteps
<1>2. ASSUME NEW n \in Nat, n \in S PROVE n + 1 \in S
  <2> SUFFICES ASSUME n + 1 <= Len(s)
               PROVE  Replay(e, t)[n + 1] = Replay(e, s)[n + 1]
    OBVIOUS
  <2>1. n + 1 \in 1..Len(s) /\ n + 1 \in 1..Len(t) /\ n + 1 - 1 = n
    OBVIOUS
  <2>2. Replay(e, t)[n] = Replay(e, s)[n]
    BY <1>2
  <2>3. /\ Replay(e, s)[n + 1] = Processed(Replay(e, s)[n], s[n + 1])
        /\ Replay(e, t)[n + 1] = Processed(Replay(e, t)[n], t[n + 1])
    BY <2>1, ReplaySteps
  <2> QED
    BY <2>1, <2>2, <2>3
<1> HIDE DEF S
<1>3. \A n \in Nat : n \in S
  BY <1>1, <1>2, Induction
<1> QED
  BY <1>3 DEF S

\* Processing the first message on its own does not change what comes after.
LEMMA ReplayOfTail ==
  ASSUME NEW e, NEW s, NEW t, Len(s) \in Nat, Len(t) \in Nat, Len(t) = Len(s) + 1,
         \A i \in 1..Len(s) : s[i] = t[i + 1]
  PROVE  \A n \in 0..Len(s) : Replay(Processed(e, t[1]), s)[n] = Replay(e, t)[n + 1]
<1> DEFINE p == Processed(e, t[1])
           S == {n \in Nat : n <= Len(s) => Replay(p, s)[n] = Replay(e, t)[n + 1]}
<1>1. 0 \in S
  <2>1. Replay(p, s)[0] = p /\ Replay(e, t)[0] = e
    BY ReplaySteps
  <2>2. Replay(e, t)[1] = Processed(Replay(e, t)[1 - 1], t[1])
    BY ReplaySteps
  <2> QED
    BY <2>1, <2>2
<1> HIDE DEF p
<1>2. ASSUME NEW n \in Nat, n \in S PROVE n + 1 \in S
  <2> SUFFICES ASSUME n + 1 <= Len(s)
               PROVE  Replay(p, s)[n + 1] = Replay(e, t)[n + 1 + 1]
    OBVIOUS
  <2>1. /\ n + 1 \in 1..Len(s) /\ n + 1 + 1 \in 1..Len(t)
        /\ n + 1 - 1 = n /\ n + 1 + 1 - 1 = n + 1
    OBVIOUS
  <2>2. Replay(p, s)[n] = Replay(e, t)[n + 1]
    BY <1>2
  <2>3. Replay(p, s)[n + 1] = Processed(Replay(p, s)[n], s[n + 1])
    BY <2>1, ReplaySteps
  <2>4. Replay(e, t)[n + 1 + 1] = Processed(Replay(e, t)[n + 1], t[n + 1 + 1])
    BY <2>1, ReplaySteps
  <2> QED
    BY <2>1, <2>2, <2>3, <2>4
<1> HIDE DEF S
<1>3. \A n \in Nat : n \in S
  BY <1>1, <1>2, Induction
<1> QED
  BY <1>3 DEF S, p

\* A registration that is accepted when its turn comes continues the replay, and so
\* does a message that is none.
LEMMA ReplayOneMore ==
  ASSUME NEW e, NEW r, NEW s \in Seq(Message), NEW m \in Message, ReplayGives(e, s, r),
         m.type = "registration" => register_result(r, m.request) = "success"
  PROVE  ReplayGives(e, Append(s, m), Processed(r, m))
<1> DEFINE t == Append(s, m)
<1>1. /\ Len(s) \in Nat /\ Len(t) = Len(s) + 1
      /\ \A i \in 1..Len(s) : t[i] = s[i]
      /\ t[Len(s) + 1] = m
  BY AppendProperties
<1> HIDE DEF t
<1>2. \A n \in 0..Len(s) : Replay(e, t)[n] = Replay(e, s)[n]
  BY <1>1, ReplayOfPrefix
<1>3. Replay(e, t)[Len(s)] = r
  BY <1>1, <1>2 DEF ReplayGives
<1>4. Replay(e, t)[Len(t)] = Processed(r, m)
  <2>1. Len(t) \in 1..Len(t) /\ Len(t) - 1 = Len(s) /\ Len(t) \in Nat
    BY <1>1
  <2>2. Replay(e, t)[Len(t)] = Processed(Replay(e, t)[Len(t) - 1], t[Len(t)])
    BY <2>1, ReplaySteps
  <2> QED
    BY <1>1, <1>3, <2>1, <2>2
<1>5. ASSUME NEW i \in Registrations(t)
      PROVE  register_result(Replay(e, t)[i - 1], t[i].request) = "success"
  <2>1. i \in 1..Len(t) /\ t[i].type = "registration"
    BY DEF Registrations
  <2>2. CASE i <= Len(s)
    <3>1. i \in Registrations(s) /\ t[i] = s[i] /\ i - 1 \in 0..Len(s)
      BY <1>1, <2>1, <2>2 DEF Registrations
    <3> QED
      BY <1>2, <3>1 DEF ReplayGives
  <2>3. CASE i = Len(s) + 1
    <3>1. i - 1 = Len(s)
      BY <1>1, <2>3
    <3> QED
      BY <1>1, <1>3, <2>1, <2>3, <3>1
  <2> QED
    BY <1>1, <2>1, <2>2, <2>3
<1> QED
  BY <1>4, <1>5 DEF ReplayGives, t

\* Without a last message that is no registration the replay gives the same.
LEMMA ReplayOneLess ==
  ASSUME NEW e, NEW r, NEW s \in Seq(Message), NEW m \in Message,
         ReplayGives(e, Append(s, m), r), m.type # "registration"
  PROVE  ReplayGives(e, s, r)
<1> DEFINE t == Append(s, m)
<1>1. /\ Len(s) \in Nat /\ Len(t) = Len(s) + 1
      /\ \A i \in 1..Len(s) : t[i] = s[i]
      /\ t[Len(s) + 1] = m
  BY AppendProperties
<1>0. ReplayGives(e, t, r)
  OBVIOUS
<1> HIDE DEF t
<1>2. \A n \in 0..Len(s) : Replay(e, t)[n] = Replay(e, s)[n]
  BY <1>1, ReplayOfPrefix
<1>3. Replay(e, t)[Len(t)] = Replay(e, t)[Len(s)]
  <2>1. Len(t) \in 1..Len(t) /\ Len(t) - 1 = Len(s) /\ Len(t) \in Nat
    BY <1>1
  <2>2. Replay(e, t)[Len(t)] = Processed(Replay(e, t)[Len(t) - 1], t[Len(t)])
    BY <2>1, ReplaySteps
  <2> QED
    BY <1>1, <2>1, <2>2 DEF Processed
<1>4. Replay(e, s)[Len(s)] = r
  BY <1>0, <1>1, <1>2, <1>3 DEF ReplayGives
<1>5. ASSUME NEW i \in Registrations(s)
      PROVE  register_result(Replay(e, s)[i - 1], s[i].request) = "success"
  <2>1. i \in Registrations(t) /\ t[i] = s[i] /\ i - 1 \in 0..Len(s)
    BY <1>1 DEF Registrations
  <2> QED
    BY <1>0, <1>2, <2>1 DEF ReplayGives
<1> QED
  BY <1>4, <1>5 DEF ReplayGives

\* Processing the first message on its own leaves a replay of the others.
LEMMA ReplayTakes ==
  ASSUME NEW e, NEW r, NEW t \in Seq(Message), t # <<>>, ReplayGives(e, t, r)
  PROVE  /\ ReplayGives(Processed(e, Head(t)), Tail(t), r)
         /\ Head(t).type = "registration" =>
                register_result(e, Head(t).request) = "success"
<1> DEFINE s == Tail(t)
           p == Processed(e, Head(t))
<1>1. /\ s \in Seq(Message) /\ Len(s) \in Nat /\ Len(t) \in Nat /\ Len(t) = Len(s) + 1
      /\ \A i \in 1..Len(s) : s[i] = t[i + 1]
      /\ Head(t) = t[1]
  <2>1. /\ s \in Seq(Message) /\ Len(s) = Len(t) - 1
        /\ \A i \in 1..Len(s) : s[i] = t[i + 1]
    BY HeadTailProperties
  <2>2. Len(s) \in Nat /\ Len(t) \in Nat /\ Head(t) = t[1]
    BY <2>1, LenProperties
  <2> QED
    BY <2>1, <2>2
<1>0. p = Processed(e, t[1])
  BY <1>1
<1> HIDE DEF s, p
<1>2. \A n \in 0..Len(s) : Replay(p, s)[n] = Replay(e, t)[n + 1]
  BY <1>0, <1>1, ReplayOfTail
<1>3. Replay(p, s)[Len(s)] = r
  BY <1>1, <1>2 DEF ReplayGives
<1>4. ASSUME NEW i \in Registrations(s)
      PROVE  register_result(Replay(p, s)[i - 1], s[i].request) = "success"
  <2>1. i \in 1..Len(s) /\ i + 1 \in Registrations(t) /\ s[i] = t[i + 1]
    BY <1>1 DEF Registrations
  <2>2. i - 1 \in 0..Len(s) /\ i - 1 + 1 = i + 1 - 1
    BY <1>1, <2>1
  <2>3. Replay(p, s)[i - 1] = Replay(e, t)[i + 1 - 1]
    BY <1>2, <2>2
  <2> QED
    BY <2>1, <2>3 DEF ReplayGives
<1>5. ASSUME Head(t).type = "registration"
      PROVE  register_result(e, Head(t).request) = "success"
  <2>1. 1 \in Registrations(t) /\ 1 - 1 = 0
    BY <1>1, <1>5 DEF Registrations
  <2>2. Replay(e, t)[0] = e
    BY <1>1, ReplaySteps
  <2> QED
    BY <1>1, <2>1, <2>2 DEF ReplayGives
<1> QED
  BY <1>3, <1>4, <1>5 DEF ReplayGives, s, p

\* A full enrollment refuses every registration.
LEMMA FullRefuses ==
  ASSUME NEW e, is_full(e), NEW q \in Request
  PROVE  register_result(e, q) # "success"
<1> SUFFICES ASSUME register_result(e, q) = "success" PROVE FALSE
  OBVIOUS
<1>1. ~TeamSlotTaken(e, q) /\ ~UniformTaken(e, q)
  BY RegisterSuccess
<1>2. q.team \in e.opened
  BY <1>1 DEF TeamSlotTaken, is_full
<1>3. e.slot[<<q.team, q.uniform>>] # None
  BY <1>2 DEF is_full, Request
<1> QED
  BY <1>1, <1>3 DEF UniformTaken, SlotOf

\* So if all are accepted on a full enrollment, there were none, and it is unchanged.
LEMMA ReplayOnFull ==
  ASSUME NEW e, is_full(e), NEW r, NEW s \in Seq(Message), ReplayGives(e, s, r)
  PROVE  NoRegistration(s) /\ r = e
<1>1. Len(s) \in Nat /\ \A i \in 1..Len(s) : s[i] \in Message
  BY LenProperties, ElementOfSeq
<1>2. ASSUME NEW m \in Message, m.type = "registration"
      PROVE  m.request \in Request
  BY <1>2 DEF Message, RefInput, ServerStatus, ServerTransaction
<1> DEFINE S == {n \in Nat : n <= Len(s) => Replay(e, s)[n] = e}
<1>3. 0 \in S
  BY <1>1, ReplaySteps
<1>4. ASSUME NEW n \in Nat, n \in S PROVE n + 1 \in S
  <2> SUFFICES ASSUME n + 1 <= Len(s) PROVE Replay(e, s)[n + 1] = e
    OBVIOUS
  <2>1. n + 1 \in 1..Len(s) /\ n + 1 - 1 = n
    BY <1>1
  <2>2. Replay(e, s)[n + 1] = Processed(Replay(e, s)[n], s[n + 1])
    BY <1>1, <2>1, ReplaySteps
  <2>3. Replay(e, s)[n] = e
    BY <1>1, <1>4
  <2>4. Processed(e, s[n + 1]) = e
    BY <1>1, <1>2, <2>1, FullRefuses DEF Processed, register_client
  <2> QED
    BY <2>2, <2>3, <2>4
<1> HIDE DEF S
<1>5. \A n \in Nat : n \in S
  BY <1>3, <1>4, Induction
<1>6. \A n \in 0..Len(s) : Replay(e, s)[n] = e
  BY <1>1, <1>5 DEF S
<1>7. ASSUME NEW i \in 1..Len(s), s[i].type = "registration" PROVE FALSE
  <2>1. i \in Registrations(s) /\ i - 1 \in 0..Len(s)
    BY <1>1, <1>7 DEF Registrations
  <2>2. register_result(e, s[i].request) = "success"
    BY <1>6, <2>1 DEF ReplayGives
  <2> QED
    BY <1>1, <1>2, <1>7, <2>2, FullRefuses
<1>8. r = e
  BY <1>1, <1>6 DEF ReplayGives
<1> QED
  BY <1>7, <1>8 DEF NoRegistration

-----------------------------------------------------------------------------
(* Enrollments and rosters. *)

\* A registration enters nothing its client did not ask for.
LEMMA RegisterWanted ==
  ASSUME NEW e, Sound(e), EntriesWanted(e),
         NEW c \in Client, NEW q \in Request, q \in Wants[c]
  PROVE  EntriesWanted(register_client(e, c, q))
<1>1. CASE register_result(e, q) # "success"
  BY <1>1 DEF register_client
<1>2. CASE register_result(e, q) = "success"
  <2> DEFINE r == enrol(e, c, q)
  <2>1. ~UniformTaken(e, q)
    BY <1>2, RegisterSuccess
  <2>2. /\ r.slot = [e.slot EXCEPT ![SlotOf(q)] = [id |-> c, ptype |-> q.ptype]]
        /\ SlotOf(q) \in Slot /\ e.slot \in [Slot -> Entry \cup {None}]
    BY <2>1, EnrolSlots DEF Sound, EnrollmentType
  <2> HIDE DEF r
  <2>3. ASSUME NEW s \in Slot, r.slot[s] # None
        PROVE  \E w \in Wants[r.slot[s].id] : SlotOf(w) = s /\ w.ptype = r.slot[s].ptype
    <3>1. CASE s = SlotOf(q)
      BY <2>2, <3>1
    <3>2. CASE s # SlotOf(q)
      <4>1. r.slot[s] = e.slot[s]
        BY <2>2, <3>2
      <4> QED
        BY <2>3, <4>1 DEF EntriesWanted
    <3> QED
      BY <3>1, <3>2
  <2>4. EntriesWanted(r)
    BY <2>3 DEF EntriesWanted
  <2> QED
    BY <1>2, <2>4 DEF register_client, r
<1> QED
  BY <1>1, <1>2

\* What finalise() writes of every player.
LEMMA Finalised ==
  ASSUME NEW e, Sound(e), is_full(e)
  PROVE  /\ finalise(e) \in RosterType
         /\ finalise(e).teams = SideTeam(e)
         /\ \A id \in PlayerId :
             /\ EntryAt(e, id) \in Entry
             /\ finalise(e).players[id] = EntryAt(e, id).id
             /\ is_goalkeeper(finalise(e), id) <=> IsGoalkeeper(EntryAt(e, id))
<1> DEFINE goalkeepers == {id \in PlayerId : IsGoalkeeper(EntryAt(e, id))}
           goalies == IF Cardinality(goalkeepers) < MaxClubCount
                      THEN goalkeepers \cup {NoPlayer} ELSE goalkeepers
           players == [id \in PlayerId |-> EntryAt(e, id).id]
<1>1. finalise(e) = [players |-> players, goalies |-> goalies, teams |-> SideTeam(e)]
  BY DEF finalise
<1>2. \A id \in PlayerId : EntryAt(e, id) \in Entry
  BY FullEntries
<1>3. finalise(e) \in RosterType
  BY FinaliseRosterOf DEF RosterOf
<1>4. NoPlayer \notin PlayerId
  BY RosterAssumption DEF NoPlayer, PlayerId, MaxClubCount
<1>5. \A id \in PlayerId : id \in goalies <=> IsGoalkeeper(EntryAt(e, id))
  BY <1>4
<1>6. \A id \in PlayerId : players[id] = EntryAt(e, id).id
  OBVIOUS
<1> HIDE DEF goalkeepers, goalies, players
<1> QED
  BY <1>1, <1>2, <1>3, <1>5, <1>6 DEF is_goalkeeper

\* Every player of a roster has asked for its place.
LEMMA FinaliseWanted ==
  ASSUME NEW e, Sound(e), is_full(e), EntriesWanted(e)
  PROVE  PlacesWanted(finalise(e))
<1> DEFINE r == finalise(e)
<1>1. /\ r.teams = SideTeam(e)
      /\ \A id \in PlayerId :
          /\ EntryAt(e, id) \in Entry
          /\ r.players[id] = EntryAt(e, id).id
          /\ is_goalkeeper(r, id) <=> IsGoalkeeper(EntryAt(e, id))
  BY Finalised
<1> HIDE DEF r
<1>2. ASSUME NEW id \in PlayerId
      PROVE  /\ r.players[id] \in Client
             /\ \E q \in Wants[r.players[id]] :
                 /\ SlotOf(q) = <<r.teams[id_to_uniform(id).side], id_to_uniform(id).uniform>>
                 /\ q.ptype = "goalKeeper" <=> is_goalkeeper(r, id)
  <2> DEFINE s == <<SideTeam(e)[id_to_uniform(id).side], id_to_uniform(id).uniform>>
  <2>1. EntryAt(e, id) = e.slot[s]
    BY EntryAtPlace
  <2>2. s \in Slot
    <3>1. id_to_uniform(id).uniform \in Uniform /\ id_to_uniform(id).side \in Side
      BY IdOfUniform
    <3>2. SideTeam(e)[id_to_uniform(id).side] \in Team
      BY <3>1, FullEntries DEF Sound, EnrollmentType
    <3> QED
      BY <3>1, <3>2 DEF Slot
  <2>3. EntryAt(e, id) \in Entry /\ EntryAt(e, id) # None
    BY <1>1, RosterAssumption
  <2>4. PICK q \in Wants[e.slot[s].id] : SlotOf(q) = s /\ q.ptype = e.slot[s].ptype
    BY <2>1, <2>2, <2>3 DEF EntriesWanted
  <2>5. q.ptype = "goalKeeper" <=> is_goalkeeper(r, id)
    BY <1>1, <2>1, <2>3, <2>4 DEF IsGoalkeeper
  <2>6. r.players[id] \in Client /\ q \in Wants[r.players[id]]
    BY <1>1, <2>1, <2>3, <2>4 DEF Entry
  <2> QED
    BY <1>1, <2>4, <2>5, <2>6
<1> QED
  BY <1>2 DEF PlacesWanted, r

\* There is an acknowledgement for every player: the one at i is for identifier i - 1.
LEMMA AcksOfRoster ==
  ASSUME NEW r \in RosterType
  PROVE  /\ RegAcks(r) \in Seq(Outgoing)
         /\ Len(RegAcks(r)) = MaxClubCount * MaxTeamSize
         /\ \A i \in 1..Len(RegAcks(r)) :
             /\ i - 1 \in PlayerId
             /\ IsAck(RegAcks(r)[i].msg)
             /\ PlaceOf(RegAcks(r)[i].msg) = i - 1
             /\ RegAcks(r)[i].msg.to = r.players[i - 1]
             /\ RegAcks(r)[i].msg.ptype = "outField"
<1> DEFINE N == MaxClubCount * MaxTeamSize
<1>1. N \in Nat \ {0} /\ Cardinality(PlayerId) = N
  BY FS_Interval, RosterAssumption DEF PlayerId, MaxClubCount
<1>2. RegAcks(r) = [i \in 1..N |-> RegAck(i - 1, r.players[i - 1])]
  BY <1>1 DEF RegAcks, Recipients
<1> HIDE DEF N
<1>3. PlayerId = 0..(N - 1)
  BY DEF PlayerId, N
<1>4. ASSUME NEW i \in 1..N
      PROVE  /\ i - 1 \in PlayerId
             /\ RegAck(i - 1, r.players[i - 1]) \in Outgoing
             /\ LET ack == RegAck(i - 1, r.players[i - 1]).msg
                IN  /\ IsAck(ack) /\ PlaceOf(ack) = i - 1
                    /\ ack.to = r.players[i - 1] /\ ack.ptype = "outField"
  <2>1. i - 1 \in PlayerId
    BY <1>1, <1>3
  <2>2. /\ id_to_uniform(i - 1).uniform \in Uniform
        /\ id_to_uniform(i - 1).side \in Side
        /\ uniform_to_id(id_to_uniform(i - 1).uniform, id_to_uniform(i - 1).side) = i - 1
    BY <2>1, IdOfUniform
  <2>3. r.players[i - 1] \in Client \cup {None}
    BY <2>1 DEF RosterType
  <2>4. RegAck(i - 1, r.players[i - 1]) \in Outgoing
    BY <2>2, <2>3 DEF RegAck, SendTo, Outgoing, ServerTransaction, PlayerType
  <2> QED
    BY <2>1, <2>2, <2>4 DEF RegAck, SendTo, IsAck, PlaceOf
<1>5. RegAcks(r) \in Seq(Outgoing) /\ Len(RegAcks(r)) = N
  BY <1>1, <1>2, <1>4
<1> QED
  BY <1>1, <1>2, <1>4, <1>5 DEF N

-----------------------------------------------------------------------------
(* Acknowledgements on the move. *)

\* What a queue says of its messages it says of those left when one is taken, and of
\* the one taken.
LEMMA AcksTaken ==
  ASSUME NEW s \in Seq(Message), s # <<>>
  PROVE  /\ Tail(s) \in Seq(Message) /\ Head(s) \in Message
         /\ NoRegistration(s) => NoRegistration(Tail(s))
         /\ \A r : TrueAcks(r, s) => TrueAcks(r, Tail(s))
         /\ Distinct(s) => Distinct(Tail(s))
         /\ \A t : Apart(s, t) => Apart(Tail(s), t)
         /\ \A t : Apart(t, s) => Apart(t, Tail(s))
<1>1. /\ Tail(s) \in Seq(Message) /\ Head(s) \in Message
      /\ Len(Tail(s)) = Len(s) - 1 /\ Len(s) \in Nat
      /\ \A i \in 1..Len(Tail(s)) : Tail(s)[i] = s[i + 1]
  BY HeadTailProperties, LenProperties
<1>2. \A i \in 1..Len(Tail(s)) : i + 1 \in 1..Len(s)
  BY <1>1
<1>3. \A i \in AcksOf(Tail(s)) : i \in Int /\ i + 1 \in AcksOf(s) /\ Tail(s)[i] = s[i + 1]
  BY <1>1, <1>2 DEF AcksOf
<1>4. NoRegistration(s) => NoRegistration(Tail(s))
  BY <1>1, <1>2 DEF NoRegistration
<1>5. \A r : TrueAcks(r, s) => TrueAcks(r, Tail(s))
  BY <1>3 DEF TrueAcks
<1>6. Distinct(s) => Distinct(Tail(s))
  <2> SUFFICES ASSUME Distinct(s), NEW i \in AcksOf(Tail(s)), NEW j \in AcksOf(Tail(s)),
                      PlaceOf(Tail(s)[i]) = PlaceOf(Tail(s)[j])
               PROVE  i = j
    BY DEF Distinct
  <2>1. /\ i + 1 \in AcksOf(s) /\ j + 1 \in AcksOf(s) /\ i \in Int /\ j \in Int
        /\ PlaceOf(s[i + 1]) = PlaceOf(s[j + 1])
    BY <1>3
  <2>2. i + 1 = j + 1
    BY <2>1 DEF Distinct
  <2> QED
    BY <2>1, <2>2
<1>7. /\ \A t : Apart(s, t) => Apart(Tail(s), t)
      /\ \A t : Apart(t, s) => Apart(t, Tail(s))
  BY <1>3 DEF Apart
<1> QED
  BY <1>1, <1>4, <1>5, <1>6, <1>7

\* The same for a queue that takes the first message of another.
LEMMA AcksMoved ==
  ASSUME NEW s \in Seq(Message), s # <<>>, NEW t \in Seq(Message)
  PROVE  /\ Append(t, Head(s)) \in Seq(Message)
         /\ NoRegistration(s) /\ NoRegistration(t) =>
                NoRegistration(Append(t, Head(s)))
         /\ \A r : TrueAcks(r, s) /\ TrueAcks(r, t) => TrueAcks(r, Append(t, Head(s)))
         /\ Distinct(s) /\ Distinct(t) /\ Apart(t, s) =>
                Distinct(Append(t, Head(s))) /\ Apart(Append(t, Head(s)), Tail(s))
         /\ \A u : Apart(u, s) /\ Apart(u, t) => Apart(u, Append(t, Head(s)))
         /\ \A u : Apart(s, u) /\ Apart(t, u) => Apart(Append(t, Head(s)), u)
<1> DEFINE v == Append(t, Head(s))
<1>1. /\ Head(s) \in Message /\ Head(s) = s[1]
      /\ Len(s) \in Nat /\ 1 \in 1..Len(s)
  BY HeadTailProperties, LenProperties, EmptySeq
<1>2. /\ v \in Seq(Message) /\ Len(t) \in Nat /\ Len(v) = Len(t) + 1
      /\ \A i \in 1..Len(t) : v[i] = t[i]
      /\ v[Len(t) + 1] = s[1]
  BY <1>1, AppendProperties
<1>3. /\ Tail(s) \in Seq(Message)
      /\ Len(Tail(s)) = Len(s) - 1
      /\ \A i \in 1..Len(Tail(s)) : Tail(s)[i] = s[i + 1]
  BY HeadTailProperties
<1> HIDE DEF v
<1>4. \A i \in AcksOf(v) : \/ i \in AcksOf(t) /\ v[i] = t[i] /\ i # Len(t) + 1
                           \/ i = Len(t) + 1 /\ 1 \in AcksOf(s) /\ v[i] = s[1]
  BY <1>1, <1>2 DEF AcksOf
<1>5. \A i \in AcksOf(Tail(s)) :
          i + 1 \in AcksOf(s) /\ i + 1 # 1 /\ Tail(s)[i] = s[i + 1]
  BY <1>1, <1>3 DEF AcksOf
<1>6. NoRegistration(s) /\ NoRegistration(t) => NoRegistration(v)
  BY <1>1, <1>2 DEF NoRegistration
<1>7. \A r : TrueAcks(r, s) /\ TrueAcks(r, t) => TrueAcks(r, v)
  BY <1>4 DEF TrueAcks
<1>8. ASSUME Distinct(s), Distinct(t), Apart(t, s)
      PROVE  Distinct(v) /\ Apart(v, Tail(s))
  <2>1. Distinct(v)
    BY <1>4, <1>8 DEF Distinct, Apart
  <2>2. ASSUME NEW i \in AcksOf(v), NEW j \in AcksOf(Tail(s)) 
        PROVE  PlaceOf(v[i]) # PlaceOf(Tail(s)[j])
    <3>1. j + 1 \in AcksOf(s) /\ j + 1 # 1 /\ Tail(s)[j] = s[j + 1]
      BY <1>5
    <3>2. CASE i \in AcksOf(t) /\ v[i] = t[i]
      BY <1>8, <3>1, <3>2 DEF Apart
    <3>3. CASE 1 \in AcksOf(s) /\ v[i] = s[1]
      <4>1. PlaceOf(s[1]) # PlaceOf(s[j + 1])
        BY <1>8, <3>1, <3>3 DEF Distinct
      <4> QED
        BY <3>1, <3>3, <4>1
    <3> QED
      BY <1>4, <3>2, <3>3
  <2> QED
    BY <2>1, <2>2 DEF Apart
<1>9. \A u : Apart(u, s) /\ Apart(u, t) => Apart(u, v)
  BY <1>4 DEF Apart
<1>10. \A u : Apart(s, u) /\ Apart(t, u) => Apart(v, u)
  BY <1>4 DEF Apart
<1> QED
  BY <1>2, <1>6, <1>7, <1>8, <1>9, <1>10 DEF v

\* A queue without acknowledgements says nothing.
LEMMA NoAcks ==
  ASSUME NEW s, AcksOf(s) = {}
  PROVE  /\ \A r : TrueAcks(r, s)
         /\ Distinct(s)
         /\ \A t : Apart(s, t) /\ Apart(t, s)
BY DEF TrueAcks, Distinct, Apart

\* The queues are queues of messages.
LEMMA QueuesOfMessages ==
  ASSUME Typed
  PROVE  /\ to_referee \in Seq(Message) /\ ref_input \in Seq(Message)
         /\ server_trans \in Seq(Message)
         /\ \A c \in Client : delivered[c] \in Seq(Message)
         /\ Letters \in Seq(Message) /\ Len(Letters) = Len(pending)
         /\ \A i \in 1..Len(pending) : Letters[i] = pending[i].msg
         /\ UnderWay \in Seq(Message)
<1> USE DEF Typed, HandleTyped, QueuesTyped, WiresTyped
<1>1. /\ RefInput \subseteq Message /\ ServerTransaction \subseteq Message
      /\ \A p \in Outgoing : p.msg \in Message
  BY DEF Message, Outgoing
<1>2. to_referee \in Seq(Message) /\ ref_input \in Seq(Message)
  BY <1>1, SeqMonotonic
<1>3. server_trans \in Seq(Message)
  BY <1>1, SeqMonotonic
<1>4. \A c \in Client : delivered[c] \in Seq(Message)
  BY <1>1, SeqMonotonic
<1>5. Len(pending) \in Nat /\ \A i \in 1..Len(pending) : pending[i].msg \in Message
  BY <1>1, LenProperties, ElementOfSeq
<1>6. /\ Letters \in Seq(Message) /\ Len(Letters) = Len(pending)
      /\ \A i \in 1..Len(pending) : Letters[i] = pending[i].msg
  BY <1>5 DEF Letters
<1>7. UnderWay \in Seq(Message)
  BY <1>2, <1>6, ConcatProperties DEF UnderWay
<1> QED
  BY <1>2, <1>3, <1>4, <1>6, <1>7

\* Sending the first letter leaves the others.
LEMMA LetterSent ==
  ASSUME pending \in Seq(Outgoing), pending # <<>>, pending' = Tail(pending)
  PROVE  /\ Letters \in Seq(Message) /\ Letters # <<>>
         /\ Head(Letters) = Head(pending).msg /\ Head(pending) \in Outgoing
         /\ Letters' = Tail(Letters)
<1>1. /\ Len(pending) \in Nat \ {0} /\ Head(pending) = pending[1]
      /\ Head(pending) \in Outgoing
      /\ Tail(pending) \in Seq(Outgoing) /\ Len(Tail(pending)) = Len(pending) - 1
      /\ \A i \in 1..Len(Tail(pending)) : Tail(pending)[i] = pending[i + 1]
  BY HeadTailProperties, LenProperties, EmptySeq
<1>2. \A i \in 1..Len(pending) : pending[i].msg \in Message
  BY ElementOfSeq DEF Outgoing, Message
<1>3. /\ Letters \in Seq(Message) /\ Len(Letters) = Len(pending)
      /\ \A i \in 1..Len(pending) : Letters[i] = pending[i].msg
  BY <1>1, <1>2 DEF Letters
<1>4. Letters # <<>> /\ Head(Letters) = Head(pending).msg
  BY <1>1, <1>3
<1>5. /\ Tail(Letters) \in Seq(Message) /\ Len(Tail(Letters)) = Len(pending) - 1
      /\ \A i \in 1..(Len(pending) - 1) : Tail(Letters)[i] = Letters[i + 1]
  BY <1>3, <1>4, HeadTailProperties
<1>6. Letters' = [i \in 1..(Len(pending) - 1) |-> pending[i + 1].msg]
  BY <1>1 DEF Letters
<1>7. Letters' \in Seq(Message) /\ Len(Letters') = Len(pending) - 1
  BY <1>1, <1>2, <1>6
<1>8. \A i \in 1..Len(Letters') : Letters'[i] = Tail(Letters)[i]
  BY <1>1, <1>3, <1>5, <1>6, <1>7
<1> QED
  BY <1>1, <1>3, <1>4, <1>5, <1>7, <1>8, SeqEqual

-----------------------------------------------------------------------------
(* Types.  What the handlers of the main thread leave behind. *)

\* A message from the referee.
LEMMA FromRefereeTyped ==
  ASSUME HandleTyped, enrollment # None => Sound(enrollment),
         NEW type, FromReferee(type)
  PROVE  HandleTyped'
<1> USE DEF HandleTyped
<1>1. \/ roster_finalised
      \/ MoveTo("playing") \/ MoveTo("waiting")
      \/ Keep
  BY Zenon DEF FromReferee
<1>2. CASE roster_finalised
  <2>1. CASE enrollment = None \/ ~is_full(enrollment)
    BY <1>2, <2>1 DEF roster_finalised, Halt, handle
  <2>2. CASE enrollment # None /\ is_full(enrollment)
    <3>1. roster' \in RosterType
      BY <1>2, <2>2, Finalised DEF roster_finalised
    <3>2. pending' \in Seq(Outgoing)
      BY <1>2, <2>2, <3>1, AcksOfRoster DEF roster_finalised
    <3> QED
      BY <1>2, <2>2, <3>1, <3>2 DEF roster_finalised
  <2> QED
    BY <2>1, <2>2
<1>3. CASE MoveTo("playing") \/ MoveTo("waiting")
  BY <1>3 DEF MoveTo
<1>4. CASE Keep
  BY <1>4 DEF Keep, handle
<1> QED
  BY <1>1, <1>2, <1>3, <1>4

\* A registration that is not a success is refused with an error.
LEMMA RegisterErrors ==
  ASSUME NEW e, NEW q, register_result(e, q) # "success"
  PROVE  register_result(e, q) \in RegisterError
BY Zenon DEF register_result, RegisterError

\* What a registration is answered, or passed on, with.
LEMMA RegistrationLetters ==
  ASSUME NEW c \in Client, NEW q \in Request,
         registration_requested(c, q), enrollment # None
  PROVE  \/ /\ register_result(enrollment, q) = "success"
            /\ pending' = <<SendTo("ref_input", [type |-> "registration", client |-> c,
                                                request |-> q])>>
         \/ /\ register_result(enrollment, q) # "success"
            /\ pending' = <<SendTo("server_trans",
                                   [type |-> "regError", to |-> c,
                                    error |-> register_result(enrollment, q)])>>
BY DEF registration_requested

\* A client transaction.
LEMMA FromClientTransTyped ==
  ASSUME HandleTyped, enrollment # None => Sound(enrollment),
         NEW msg \in ClientTransaction, FromClientTrans(msg)
  PROVE  HandleTyped'
<1> USE DEF HandleTyped
<1>1. CASE msg.type = "registration" /\ registration_requested(msg.from, msg.request)
  <2> DEFINE c == msg.from
             q == msg.request
  <2>1. c \in Client /\ q \in Request
    BY <1>1 DEF ClientTransaction
  <2> HIDE DEF c, q
  <2>2. registration_requested(c, q)
    BY <1>1 DEF c, q
  <2>3. CASE enrollment = None
    BY <2>2, <2>3 DEF registration_requested, Halt, handle
  <2>4. CASE enrollment # None
    <3>1. enrollment' \in EnrollmentType
      BY <2>1, <2>2, <2>4, RegisterSound DEF registration_requested, Sound
    <3>2. pending' \in Seq(Outgoing)
      <4>1. [type |-> "registration", client |-> c, request |-> q] \in RefInput
        BY <2>1 DEF RefInput
      <4>2. register_result(enrollment, q) # "success" =>
              [type |-> "regError", to |-> c, error |-> register_result(enrollment, q)]
                \in ServerTransaction
        BY <2>1, RegisterErrors DEF ServerTransaction
      <4>3. PICK letter \in Outgoing : pending' = <<letter>>
        <5>1. CASE register_result(enrollment, q) = "success"
          <6>1. pending' = <<SendTo("ref_input", [type |-> "registration", client |-> c,
                                                 request |-> q])>>
            BY <2>1, <2>2, <2>4, <5>1, RegistrationLetters
          <6> QED
            BY <4>1, <6>1 DEF SendTo, Outgoing
        <5>2. CASE register_result(enrollment, q) # "success"
          <6>1. pending' = <<SendTo("server_trans",
                                    [type |-> "regError", to |-> c,
                                     error |-> register_result(enrollment, q)])>>
            BY <2>1, <2>2, <2>4, <5>2, RegistrationLetters
          <6> QED
            BY <4>2, <5>2, <6>1 DEF SendTo, Outgoing
        <5> QED
          BY <5>1, <5>2
      <4> QED
        BY <4>3
    <3> QED
      BY <2>2, <2>4, <3>1, <3>2 DEF registration_requested
  <2> QED
    BY <2>3, <2>4
<1>2. CASE Keep
  BY <1>2 DEF Keep, handle
<1> QED
  BY <1>1, <1>2 DEF FromClientTrans

\* A client status.
LEMMA FromClientStatusTyped ==
  ASSUME HandleTyped, NEW msg, FromClientStatus(msg)
  PROVE  HandleTyped'
<1> USE DEF HandleTyped
<1>1. CASE received_pong(msg.from, msg.pong)
  BY <1>1 DEF received_pong, Clock!record_receive
<1>2. CASE Keep
  BY <1>2 DEF Keep, handle
<1> QED
  BY <1>1, <1>2 DEF FromClientStatus

\* The pings of a round: one for every player, and nothing else.
LEMMA PingsTyped ==
  ASSUME HandleTyped, roster # None, time < MaxPings, ping_timedout
  PROVE  /\ HandleTyped'
         /\ \A i \in 1..Len(pending') :
                pending'[i].queue = "server_status" /\ pending'[i].msg.type = "ping"
<1> USE DEF HandleTyped
<1> DEFINE N == MaxClubCount * MaxTeamSize
           sent == Clock!record_transmit(monitor, time + 1)
           ping(i) == SendTo("server_status",
                             [type |-> "ping", to |-> roster.players[i - 1],
                              ping |-> [seq |-> sent.current, sent |-> time + 1]])
<1>1. N \in Nat \ {0} /\ Cardinality(PlayerId) = N
  BY FS_Interval, RosterAssumption DEF PlayerId, MaxClubCount
<1>2. "current" \in DOMAIN sent /\ sent.current \in Clock!SeqNum
  BY ServerAssumption DEF Clock!record_transmit, Clock!SeqNum
<1>3. pending' = [i \in 1..N |-> ping(i)]
  BY <1>1 DEF ping_timedout, Recipients
<1>4. PlayerId = 0..(N - 1)
  BY DEF PlayerId
<1>5. time + 1 \in 0..MaxPings /\ time + 1 \in Nat
  BY ServerAssumption
<1>6. monitor' = sent /\ time' = time + 1
      /\ UNCHANGED <<state, enrollment, roster, game_state, halted>>
  BY DEF ping_timedout
<1> HIDE DEF N, sent
<1>7. ASSUME NEW i \in 1..N
      PROVE  /\ ping(i) \in Outgoing
             /\ ping(i).queue = "server_status" /\ ping(i).msg.type = "ping"
  <2>1. i - 1 \in PlayerId
    BY <1>1, <1>4
  <2>2. roster.players[i - 1] \in Client \cup {None}
    BY <2>1 DEF RosterType
  <2>3. [seq |-> sent.current, sent |-> time + 1] \in Clock!Pong
    BY <1>2, <1>5 DEF Clock!Pong
  <2> QED
    BY <2>2, <2>3 DEF SendTo, Outgoing, ServerStatus
<1> HIDE DEF ping
<1>8. pending' \in Seq(Outgoing) /\ Len(pending') = N
  BY <1>1, <1>3, <1>7
<1>9. \A i \in 1..Len(pending') :
          pending'[i].queue = "server_status" /\ pending'[i].msg.type = "ping"
  BY <1>3, <1>7, <1>8
<1>10. HandleTyped'
  BY <1>2, <1>5, <1>6, <1>8
<1> QED
  BY <1>9, <1>10

\* A step of the main thread.
LEMMA ServerTyped ==
  ASSUME Typed, ServerObjects, ServerNext
  PROVE  HandleTyped' /\ FrameTyped' /\ QueuesTyped'
<1> USE DEF Typed, inbound, outbound
<1>0. enrollment # None => Sound(enrollment)
  BY DEF ServerObjects
<1>1. ASSUME Keep PROVE HandleTyped'
  BY <1>1 DEF Keep, handle, HandleTyped
<1>2. CASE TakeRefOutput
  <2>1. HandleTyped'
    <3>1. Keep \/ FromReferee(Head(ref_output))
      BY <1>2 DEF TakeRefOutput
    <3> QED
      BY <1>0, <1>1, <3>1, FromRefereeTyped
  <2>2. FrameTyped'
    BY <1>2, ServerAssumption DEF TakeRefOutput, FrameTyped
  <2>3. QueuesTyped'
    <3>1. ref_output' = ref_output \/ (ref_output # <<>> /\ ref_output' = Tail(ref_output))
      BY <1>2 DEF TakeRefOutput
    <3>2. ref_output' \in Seq(RefOutput)
      BY <3>1, TakenTyped DEF QueuesTyped
    <3>3. UNCHANGED <<client_status, client_trans, outbound>>
      BY <1>2 DEF TakeRefOutput
    <3> QED
      BY <3>2, <3>3 DEF QueuesTyped
  <2> QED
    BY <2>1, <2>2, <2>3
<1>3. CASE TakeClientStatus
  <2>1. HandleTyped'
    <3>1. Keep \/ FromClientStatus(Head(client_status))
      BY <1>3 DEF TakeClientStatus
    <3> QED
      BY <1>1, <3>1, FromClientStatusTyped
  <2>2. FrameTyped'
    BY <1>3 DEF TakeClientStatus, FrameTyped
  <2>3. QueuesTyped'
    <3>1. client_status' = client_status \/ (client_status # <<>> /\ client_status' = Tail(client_status))
      BY <1>3 DEF TakeClientStatus
    <3>2. client_status' \in Seq(ClientStatus)
      BY <3>1, TakenTyped DEF QueuesTyped
    <3>3. UNCHANGED <<ref_output, client_trans, outbound>>
      BY <1>3 DEF TakeClientStatus
    <3> QED
      BY <3>2, <3>3 DEF QueuesTyped
  <2> QED
    BY <2>1, <2>2, <2>3
<1>4. CASE TakeClientTrans
  <2>1. HandleTyped'
    <3>1. CASE client_trans = <<>>
      BY <1>1, <1>4, <3>1 DEF TakeClientTrans
    <3>2. CASE client_trans # <<>>
      <4>1. Head(client_trans) \in ClientTransaction
        BY <3>2 DEF QueuesTyped
      <4>2. FromClientTrans(Head(client_trans))
        BY <1>4, <3>2 DEF TakeClientTrans
      <4> QED
        BY <1>0, <4>1, <4>2, FromClientTransTyped
    <3> QED
      BY <3>1, <3>2
  <2>2. FrameTyped'
    BY <1>4 DEF TakeClientTrans, FrameTyped
  <2>3. QueuesTyped'
    <3>1. client_trans' = client_trans \/ (client_trans # <<>> /\ client_trans' = Tail(client_trans))
      BY <1>4 DEF TakeClientTrans
    <3>2. client_trans' \in Seq(ClientTransaction)
      BY <3>1, TakenTyped DEF QueuesTyped
    <3>3. UNCHANGED <<ref_output, client_status, outbound>>
      BY <1>4 DEF TakeClientTrans
    <3> QED
      BY <3>2, <3>3 DEF QueuesTyped
  <2> QED
    BY <2>1, <2>2, <2>3
<1>5. CASE RunTimers
  <2>1. HandleTyped'
    <3>1. CASE state = "onbreak" /\ time < MaxPings /\ ping_timedout
      BY <3>1, PingsTyped DEF ServerObjects
    <3> QED
      BY <1>1, <1>5, <3>1 DEF RunTimers
  <2>2. FrameTyped' /\ QueuesTyped'
    BY <1>5 DEF RunTimers, FrameTyped, QueuesTyped
  <2> QED
    BY <2>1, <2>2
<1>6. CASE Enqueue
  <2>1. HandleTyped' /\ FrameTyped'
    BY <1>6 DEF Enqueue, handle, HandleTyped, FrameTyped
  <2>2. Head(pending) \in Outgoing
    BY <1>6 DEF Enqueue, HandleTyped
  <2>3. CASE Head(pending).queue = "ref_input"
    <3>1. Head(pending).msg \in RefInput
      BY <2>2, <2>3 DEF Outgoing
    <3>2. /\ ref_input' = Append(ref_input, Head(pending).msg)
          /\ UNCHANGED <<server_status, server_trans, inbound>>
      BY <1>6, <2>3 DEF Enqueue
    <3> QED
      BY <2>1, <3>1, <3>2 DEF QueuesTyped
  <2>4. CASE Head(pending).queue = "server_status"
    <3>1. Head(pending).msg \in ServerStatus
      BY <2>2, <2>4 DEF Outgoing
    <3>2. /\ server_status' = Append(server_status, Head(pending).msg)
          /\ UNCHANGED <<ref_input, server_trans, inbound>>
      BY <1>6, <2>4 DEF Enqueue
    <3> QED
      BY <2>1, <3>1, <3>2 DEF QueuesTyped
  <2>5. CASE Head(pending).queue = "server_trans"
    <3>1. Head(pending).msg \in ServerTransaction
      BY <2>2, <2>5 DEF Outgoing
    <3>2. /\ server_trans' = Append(server_trans, Head(pending).msg)
          /\ UNCHANGED <<ref_input, server_status, inbound>>
      BY <1>6, <2>5 DEF Enqueue
    <3> QED
      BY <2>1, <3>1, <3>2 DEF QueuesTyped
  <2> QED
    BY <2>2, <2>3, <2>4, <2>5 DEF Outgoing
<1> QED
  BY <1>2, <1>3, <1>4, <1>5, <1>6 DEF ServerNext

\* A step of an I/O thread.
LEMMA IoTyped ==
  ASSUME Typed, IoNext
  PROVE  Typed'
<1> USE DEF Typed
<1>1. CASE ref_io_send
  <2>1. HandleTyped' /\ FrameTyped' /\ RefereeTyped'
    BY <1>1 DEF ref_io_send, handle, loop, HandleTyped, FrameTyped, RefereeTyped
  <2>2. Head(ref_input) \in RefInput /\ Tail(ref_input) \in Seq(RefInput)
    BY <1>1 DEF ref_io_send, QueuesTyped
  <2>3. QueuesTyped'
    BY <1>1, <2>2 DEF ref_io_send, inbound, QueuesTyped
  <2>4. WiresTyped'
    BY <1>1, <2>2 DEF ref_io_send, clientIoVars, WiresTyped
  <2> QED
    BY <2>1, <2>3, <2>4
<1>2. CASE ref_io_receive
  <2>1. HandleTyped' /\ FrameTyped' /\ RefereeTyped'
    BY <1>2 DEF ref_io_receive, handle, loop, HandleTyped, FrameTyped, RefereeTyped
  <2>2. Head(from_referee) \in RefOutput /\ Tail(from_referee) \in Seq(RefOutput)
    BY <1>2 DEF ref_io_receive, WiresTyped
  <2>3. QueuesTyped'
    <3>1. ref_output' \in {ref_output, Append(ref_output, Head(from_referee))}
      BY <1>2 DEF ref_io_receive
    <3>2. ref_output' \in Seq(RefOutput)
      BY <2>2, <3>1, AddedTyped DEF QueuesTyped
    <3> QED
      BY <1>2, <3>2 DEF ref_io_receive, outbound, QueuesTyped
  <2>4. WiresTyped'
    BY <1>2, <2>2 DEF ref_io_receive, clientIoVars, WiresTyped
  <2> QED
    BY <2>1, <2>3, <2>4
<1>3. CASE send_server_trans
  <2>1. HandleTyped' /\ FrameTyped' /\ RefereeTyped'
    BY <1>3 DEF send_server_trans, handle, loop, refereeVars,
                HandleTyped, FrameTyped, RefereeTyped
  <2>2. Head(server_trans) \in ServerTransaction /\ Tail(server_trans) \in Seq(ServerTransaction)
    BY <1>3 DEF send_server_trans, QueuesTyped
  <2>3. QueuesTyped'
    BY <1>3, <2>2 DEF send_server_trans, inbound, QueuesTyped
  <2>4. delivered' \in [Client -> Seq(ServerTransaction)]
    <3> DEFINE msg == Head(server_trans)
    <3>1. CASE msg.to \in connected
      <4>1. /\ msg.to \in Client
            /\ Append(delivered[msg.to], msg) \in Seq(ServerTransaction)
        BY <2>2, <3>1 DEF WiresTyped
      <4>2. delivered' = [delivered EXCEPT ![msg.to] = Append(delivered[msg.to], msg)]
        BY <1>3, <3>1 DEF send_server_trans
      <4> QED
        BY <4>1, <4>2 DEF WiresTyped
    <3>2. CASE msg.to \notin connected
      BY <1>3, <3>2 DEF send_server_trans, WiresTyped
    <3> QED
      BY <3>1, <3>2
  <2>5. WiresTyped'
    BY <1>3, <2>4 DEF send_server_trans, refereeVars, WiresTyped
  <2> QED
    BY <2>1, <2>3, <2>5
<1>4. CASE send_server_status
  <2>1. HandleTyped' /\ FrameTyped' /\ RefereeTyped' /\ WiresTyped'
    BY <1>4 DEF send_server_status, handle, loop, refereeVars, clientIoVars,
                HandleTyped, FrameTyped, RefereeTyped, WiresTyped
  <2> DEFINE msg == Head(server_status)
             pong == [type |-> "pong", from |-> msg.to, pong |-> msg.ping]
  <2>2. msg \in ServerStatus /\ Tail(server_status) \in Seq(ServerStatus)
    BY <1>4 DEF send_server_status, QueuesTyped
  <2>3. \/ client_status' = client_status
        \/ msg.to \in Client /\ client_status' = Append(client_status, pong)
    BY <1>4 DEF send_server_status, WiresTyped
  <2>4. msg.to \in Client => pong \in ClientStatus
    BY <2>2 DEF ServerStatus, ClientStatus
  <2> HIDE DEF msg, pong
  <2>5. client_status' \in Seq(ClientStatus)
    BY <2>3, <2>4, AddedTyped DEF QueuesTyped
  <2>6. QueuesTyped'
    BY <1>4, <2>2, <2>5 DEF send_server_status, QueuesTyped
  <2> QED
    BY <2>1, <2>6
<1>5. CASE found_queue_empty
  BY <1>5 DEF found_queue_empty, serverVars, handle, loop, outbound, inbound, refereeVars,
              HandleTyped, FrameTyped, QueuesTyped, RefereeTyped, WiresTyped
<1>6. ASSUME NEW c \in Client,
             on_connect(c) \/ on_receive_client_trans(c) \/ on_disconnect(c)
      PROVE  Typed'
  <2>1. HandleTyped' /\ FrameTyped' /\ RefereeTyped'
    BY <1>6 DEF on_connect, on_receive_client_trans, on_disconnect, Hear, handle, loop,
                refereeVars, HandleTyped, FrameTyped, RefereeTyped
  <2>2. connected' \in SUBSET Client
    BY <1>6 DEF on_connect, on_receive_client_trans, on_disconnect, WiresTyped
  <2>3. /\ uplink[c] \in Seq(ClientEvent) /\ uplink[c] # <<>>
        /\ uplink' = [uplink EXCEPT ![c] = Tail(uplink[c])]
        /\ UNCHANGED <<delivered, refereeVars, outbound, ref_output, client_status>>
    BY <1>6 DEF on_connect, on_receive_client_trans, on_disconnect, Hear, WiresTyped
  <2>4. Tail(uplink[c]) \in Seq(ClientEvent) /\ Head(uplink[c]) \in ClientEvent
    BY <2>3, HeadTailProperties
  <2>5. WiresTyped'
    BY <2>2, <2>3, <2>4 DEF refereeVars, WiresTyped
  <2>6. client_trans' \in Seq(ClientTransaction)
    <3>1. CASE on_connect(c)
      BY <3>1 DEF on_connect, QueuesTyped
    <3>2. CASE on_receive_client_trans(c)
      <4>1. Head(uplink[c]) \in ClientTransaction
        BY <2>4, <3>2 DEF on_receive_client_trans, Hear, ClientEvent, ClientTransaction
      <4>2. client_trans' \in {client_trans, Append(client_trans, Head(uplink[c]))}
        BY <3>2 DEF on_receive_client_trans, Offer
      <4> QED
        BY <4>1, <4>2, AddedTyped DEF QueuesTyped
    <3>3. CASE on_disconnect(c)
      <4>1. [type |-> "disconnect"] \in ClientTransaction
        BY DEF ClientTransaction
      <4>2. client_trans' \in {client_trans, Append(client_trans, [type |-> "disconnect"])}
        BY <3>3 DEF on_disconnect, Offer
      <4> QED
        BY <4>1, <4>2, AddedTyped DEF QueuesTyped
    <3> QED
      BY <1>6, <3>1, <3>2, <3>3
  <2>7. QueuesTyped'
    BY <2>3, <2>6 DEF outbound, QueuesTyped
  <2> QED
    BY <2>1, <2>5, <2>7
<1> QED
  BY <1>1, <1>2, <1>3, <1>4, <1>5, <1>6 DEF IoNext

\* A registration of the referee's queue is for a client and of a request.
LEMMA RefereeInputs ==
  ASSUME Typed, to_referee # <<>>
  PROVE  /\ Head(to_referee) \in RefInput /\ Tail(to_referee) \in Seq(RefInput)
         /\ Head(to_referee).type = "registration" =>
                Head(to_referee).client \in Client /\ Head(to_referee).request \in Request
<1>1. Head(to_referee) \in RefInput /\ Tail(to_referee) \in Seq(RefInput)
  BY HeadTailProperties DEF Typed, WiresTyped
<1> QED
  BY <1>1 DEF RefInput

\* A step of the referee.
LEMMA RefereeStepTyped ==
  ASSUME Typed, RefereeObjects, RefereeStep
  PROVE  Typed'
<1> USE DEF Typed
<1> DEFINE c == Head(to_referee).client
           q == Head(to_referee).request
           registered == register_client(referee_enrollment, c, q)
<1>1. /\ process /\ to_referee # <<>> /\ to_referee' = Tail(to_referee)
      /\ UNCHANGED <<serverVars, clientIoVars>>
  BY DEF RefereeStep, process
<1>2. HandleTyped' /\ FrameTyped' /\ QueuesTyped'
  BY <1>1 DEF serverVars, handle, loop, outbound, inbound,
              HandleTyped, FrameTyped, QueuesTyped
<1>3. RefereeTyped' /\ from_referee' \in Seq(RefOutput)
  <2>1. CASE UNCHANGED <<referee_enrollment, referee_roster, from_referee>>
    BY <2>1 DEF RefereeTyped, WiresTyped
  <2>2. CASE /\ Head(to_referee).type = "registration" /\ referee_enrollment # None
             /\ is_full(registered)
             /\ from_referee' = Append(from_referee, "rosterFinalised")
             /\ referee_roster' = finalise(registered) /\ referee_enrollment' = None
    <3>1. Sound(registered)
      BY <1>1, <2>2, RefereeInputs, RegisterSound DEF RefereeObjects
    <3>2. finalise(registered) \in RosterType
      BY <2>2, <3>1, Finalised
    <3>3. "rosterFinalised" \in RefOutput
      BY DEF RefOutput
    <3> QED
      BY <2>2, <3>2, <3>3, AppendProperties DEF RefereeTyped, WiresTyped
  <2>3. CASE /\ Head(to_referee).type = "registration" /\ referee_enrollment # None
             /\ referee_enrollment' = registered
             /\ UNCHANGED <<referee_roster, from_referee>>
    <3>1. Sound(registered)
      BY <1>1, <2>3, RefereeInputs, RegisterSound DEF RefereeObjects
    <3> QED
      BY <2>3, <3>1 DEF RefereeTyped, WiresTyped, Sound
  <2> QED
    BY <1>1, <2>1, <2>2, <2>3 DEF process, process_registration
<1>4. WiresTyped'
  BY <1>1, <1>3, RefereeInputs DEF clientIoVars, WiresTyped
<1> QED
  BY <1>2, <1>3, <1>4

\* A step of a client, and a judgement of the referee.
LEMMA EnvironmentTyped ==
  ASSUME Typed,
         \/ Judgement
         \/ \E c \in Client :
              Connect(c) \/ Leave(c) \/ \E q \in Wants[c] : Submit(c, q)
  PROVE  Typed'
<1> USE DEF Typed
<1>1. CASE Judgement
  <2>1. PICK output \in {"fieldOpen", "matchClose", "matchAbort"} :
            \E before, after : Judge(before, after, output)
    BY <1>1 DEF Judgement
  <2>2. /\ from_referee' = Append(from_referee, output)
        /\ UNCHANGED <<serverVars, clientIoVars, referee_enrollment, referee_roster,
                       to_referee>>
    BY <2>1 DEF Judge
  <2>3. output \in RefOutput
    BY DEF RefOutput
  <2>4. from_referee' \in Seq(RefOutput)
    BY <2>2, <2>3, AppendProperties DEF WiresTyped
  <2> QED
    BY <2>2, <2>4 DEF serverVars, handle, loop, outbound, inbound, clientIoVars,
       HandleTyped, FrameTyped, QueuesTyped, RefereeTyped, WiresTyped
<1>2. ASSUME NEW c \in Client, NEW msg \in ClientEvent, SendUp(c, msg)
      PROVE  Typed'
  <2>1. /\ uplink' = [uplink EXCEPT ![c] = Append(uplink[c], msg)]
        /\ UNCHANGED <<serverVars, refereeVars, connected, delivered>>
    BY <1>2 DEF SendUp
  <2>2. uplink' \in [Client -> Seq(ClientEvent)]
    <3>1. Append(uplink[c], msg) \in Seq(ClientEvent)
      BY AppendProperties DEF WiresTyped
    <3> QED
      BY <2>1, <3>1 DEF WiresTyped
  <2> QED
    BY <2>1, <2>2 DEF serverVars, handle, loop, outbound, inbound, refereeVars,
       HandleTyped, FrameTyped, QueuesTyped, RefereeTyped, WiresTyped
<1>3. ASSUME NEW c \in Client, NEW q \in Wants[c] 
      PROVE  [type |-> "registration", from |-> c, request |-> q] \in ClientEvent
  BY MatchAssumption DEF ClientEvent
<1>4. [type |-> "connect"] \in ClientEvent /\ [type |-> "disconnect"] \in ClientEvent
  BY DEF ClientEvent
<1> QED
  BY <1>1, <1>2, <1>3, <1>4 DEF Connect, Leave, Submit

\* Every step keeps the types.
LEMMA NextTyped == Typed /\ ServerObjects /\ RefereeObjects /\ [Next]_vars => Typed'
<1> SUFFICES ASSUME Typed, ServerObjects, RefereeObjects, [Next]_vars PROVE Typed'
  OBVIOUS
<1>1. CASE ServerStep
  <2>1. HandleTyped' /\ FrameTyped' /\ QueuesTyped'
    BY <1>1, ServerTyped DEF ServerStep
  <2>2. RefereeTyped' /\ WiresTyped'
    BY <1>1 DEF ServerStep, refereeVars, clientIoVars, Typed, RefereeTyped, WiresTyped
  <2> QED
    BY <2>1, <2>2 DEF Typed
<1>2. CASE IoStep
  BY <1>2, IoTyped DEF IoStep
<1>3. CASE RefereeStep
  BY <1>3, RefereeStepTyped
<1>4. CASE \/ Judgement
           \/ \E c \in Client : Connect(c) \/ Leave(c) \/ \E q \in Wants[c] : Submit(c, q)
  BY <1>4, EnvironmentTyped
<1>5. CASE UNCHANGED vars
  BY <1>5 DEF vars, serverVars, refereeVars, clientIoVars, handle, loop, outbound, inbound,
     Typed, HandleTyped, FrameTyped, QueuesTyped, RefereeTyped, WiresTyped
<1> QED
  BY <1>1, <1>2, <1>3, <1>4, <1>5 DEF Next

-----------------------------------------------------------------------------
(* Requests stay those that the clients made. *)

\* A queue of wanted requests stays one when a message is taken or added.
LEMMA WantedMoves ==
  ASSUME NEW S, NEW s \in Seq(S), AllWanted(s)
  PROVE  /\ s # <<>> => AllWanted(Tail(s)) /\ AllWanted(<<Head(s)>>)
         /\ \A m \in S : AllWanted(<<m>>) => AllWanted(Append(s, m))
<1>1. ASSUME s # <<>> PROVE AllWanted(Tail(s)) /\ AllWanted(<<Head(s)>>)
  <2>1. /\ Len(Tail(s)) = Len(s) - 1 /\ Len(s) \in Nat \ {0}
        /\ \A i \in 1..Len(Tail(s)) : Tail(s)[i] = s[i + 1]
        /\ Head(s) = s[1]
    BY <1>1, HeadTailProperties, EmptySeq
  <2> QED
    BY <2>1 DEF AllWanted
<1>2. ASSUME NEW m \in S, AllWanted(<<m>>) PROVE AllWanted(Append(s, m))
  <2>1. /\ Len(s) \in Nat /\ Len(Append(s, m)) = Len(s) + 1
        /\ \A i \in 1..Len(s) : Append(s, m)[i] = s[i]
        /\ Append(s, m)[Len(s) + 1] = m
    BY AppendProperties
  <2>2. m.type = "registration" => m.request \in Wants[m.from]
    BY <1>2 DEF AllWanted
  <2> QED
    BY <2>1, <2>2 DEF AllWanted
<1> QED
  BY <1>1, <1>2

\* No step makes up a registration, or alters one.
LEMMA NextWanted == Typed /\ Wanted /\ [Next]_vars => Wanted'
<1> SUFFICES ASSUME Typed, Wanted, [Next]_vars PROVE Wanted'
  OBVIOUS
<1> USE DEF Typed, QueuesTyped, WiresTyped
<1>1. ASSUME UNCHANGED <<client_trans, uplink>> PROVE Wanted'
  BY <1>1 DEF Wanted
<1>2. CASE ServerStep
  <2>1. /\ client_trans' = client_trans
           \/ (client_trans # <<>> /\ client_trans' = Tail(client_trans))
        /\ uplink' = uplink
    BY <1>2 DEF ServerStep, ServerNext, TakeRefOutput, TakeClientStatus, TakeClientTrans,
       RunTimers, Enqueue, inbound, clientIoVars
  <2> QED
    BY <2>1, WantedMoves DEF Wanted
<1>3. CASE IoStep
  <2>1. CASE \/ ref_io_send \/ ref_io_receive
             \/ send_server_trans \/ send_server_status \/ found_queue_empty
    BY <1>1, <2>1 DEF ref_io_send, ref_io_receive, send_server_trans, send_server_status,
       found_queue_empty, inbound, clientIoVars, serverVars
  <2>2. ASSUME NEW c \in Client,
               on_connect(c) \/ on_receive_client_trans(c) \/ on_disconnect(c)
        PROVE  Wanted'
    <3> DEFINE msg == Head(uplink[c])
    <3>1. /\ uplink[c] \in Seq(ClientEvent) /\ uplink[c] # <<>>
          /\ uplink' = [uplink EXCEPT ![c] = Tail(uplink[c])]
      BY <2>2 DEF on_connect, on_receive_client_trans, on_disconnect, Hear
    <3>2. AllWanted(Tail(uplink[c])) /\ AllWanted(<<msg>>) /\ msg \in ClientEvent
      BY <3>1, WantedMoves, HeadTailProperties DEF Wanted
    <3>3. AllWanted(client_trans')
      <4>1. CASE on_receive_client_trans(c)
        <5>1. msg \in ClientTransaction
          BY <3>2, <4>1 DEF on_receive_client_trans, Hear, ClientEvent, ClientTransaction
        <5>2. client_trans' \in {client_trans, Append(client_trans, msg)}
          BY <4>1 DEF on_receive_client_trans, Offer
        <5> QED
          BY <3>2, <5>1, <5>2, WantedMoves DEF Wanted
      <4>2. CASE on_disconnect(c)
        <5> DEFINE gone == [type |-> "disconnect"]
        <5>1. gone \in ClientTransaction /\ AllWanted(<<gone>>)
          BY DEF ClientTransaction, AllWanted
        <5>2. client_trans' \in {client_trans, Append(client_trans, gone)}
          BY <4>2 DEF on_disconnect, Offer
        <5> HIDE DEF gone
        <5> QED
          BY <5>1, <5>2, WantedMoves DEF Wanted
      <4>3. CASE on_connect(c)
        BY <4>3 DEF on_connect, Wanted
      <4> QED
        BY <2>2, <4>1, <4>2, <4>3
    <3> QED
      BY <3>1, <3>2, <3>3 DEF Wanted
  <2> QED
    BY <1>3, <2>1, <2>2 DEF IoStep, IoNext
<1>4. CASE RefereeStep \/ Judgement
  BY <1>1, <1>4 DEF RefereeStep, Judgement, Judge, serverVars, inbound, clientIoVars
<1>5. ASSUME NEW c \in Client, NEW msg \in ClientEvent, AllWanted(<<msg>>), SendUp(c, msg)
      PROVE  Wanted'
  <2>1. /\ uplink' = [uplink EXCEPT ![c] = Append(uplink[c], msg)]
        /\ client_trans' = client_trans
    BY <1>5 DEF SendUp, serverVars, inbound
  <2>2. AllWanted(Append(uplink[c], msg))
    BY <1>5, WantedMoves DEF Wanted
  <2> QED
    BY <2>1, <2>2 DEF Wanted
<1>6. ASSUME NEW c \in Client, NEW q \in Wants[c]
      PROVE  LET msg == [type |-> "registration", from |-> c, request |-> q]
             IN  msg \in ClientEvent /\ AllWanted(<<msg>>)
  BY MatchAssumption DEF ClientEvent, AllWanted
<1>7. \A type \in {"connect", "disconnect"} :
          [type |-> type] \in ClientEvent /\ AllWanted(<<[type |-> type]>>)
  BY DEF ClientEvent, AllWanted
<1>8. CASE \E c \in Client : Connect(c) \/ Leave(c) \/ \E q \in Wants[c] : Submit(c, q)
  BY <1>5, <1>6, <1>7, <1>8 DEF Connect, Leave, Submit
<1>9. CASE UNCHANGED vars
  BY <1>1, <1>9 DEF vars, serverVars, inbound, clientIoVars
<1> QED
  BY <1>2, <1>3, <1>4, <1>8, <1>9 DEF Next

-----------------------------------------------------------------------------
(* What the steps do, apart from types: to the objects of both programs, the   *)
(* letters, and what is under way between the programs and to the clients.     *)

Elsewhere == UNCHANGED <<delivered, refereeVars>>
Queues == UNCHANGED <<ref_input, ref_output, server_trans>>

\* A message of the referee may be taken, and the server move to another state.
Quiet ==
    /\ UNCHANGED <<enrollment, roster, halted, pending, ref_input, server_trans>>
    /\ state' # "waiting" => state # "waiting"
    /\ ref_output' = ref_output \/ (ref_output # <<>> /\ ref_output' = Tail(ref_output))
    /\ Elsewhere

\* registration_requested: a success, a refusal, and no enrollment.
Enrols(c, q) ==
    /\ enrollment # None /\ register_result(enrollment, q) = "success"
    /\ enrollment' = register_client(enrollment, c, q)
    /\ pending = <<>>
    /\ pending' = <<SendTo("ref_input", [type |-> "registration", client |-> c,
                                         request |-> q])>>
    /\ UNCHANGED <<state, roster, halted>> /\ Queues /\ Elsewhere

Refuses(c, error) ==
    /\ pending = <<>>
    /\ pending' = <<SendTo("server_trans", [type |-> "regError", to |-> c,
                                            error |-> error])>>
    /\ UNCHANGED <<state, enrollment, roster, halted>> /\ Queues /\ Elsewhere

Late ==
    /\ enrollment = None /\ halted' = "registration_requested"
    /\ UNCHANGED <<state, enrollment, roster, pending>> /\ Queues /\ Elsewhere

\* roster_finalised, and its failure.
TakesAnnouncement ==
    /\ ref_output # <<>> /\ Head(ref_output) = "rosterFinalised"
    /\ ref_output' = Tail(ref_output)
    /\ UNCHANGED <<ref_input, server_trans>> /\ Elsewhere

Finalises ==
    /\ TakesAnnouncement
    /\ enrollment # None /\ is_full(enrollment)
    /\ roster' = finalise(enrollment) /\ enrollment' = None
    /\ pending = <<>> /\ pending' = RegAcks(roster')
    /\ halted' = halted

FinaliseFails == TakesAnnouncement /\ (enrollment = None \/ ~is_full(enrollment))

Pings ==
    /\ state = "onbreak" /\ pending = <<>>
    /\ \A i \in 1..Len(pending') : pending'[i].msg.type = "ping"
    /\ UNCHANGED <<state, enrollment, roster, halted>> /\ Queues /\ Elsewhere

\* A letter goes to its queue.
Sends ==
    /\ pending # <<>> /\ pending' = Tail(pending)
    /\ UNCHANGED <<state, enrollment, roster, halted, ref_output>> /\ Elsewhere
    /\ \/ /\ Head(pending).queue = "ref_input"
          /\ ref_input' = Append(ref_input, Head(pending).msg)
          /\ UNCHANGED server_trans
       \/ /\ Head(pending).queue = "server_status"
          /\ UNCHANGED <<ref_input, server_trans>>
       \/ /\ Head(pending).queue = "server_trans"
          /\ server_trans' = Append(server_trans, Head(pending).msg)
          /\ UNCHANGED ref_input

ServerEffect ==
    \/ Quiet
    \/ \E c \in Client : \E q \in Request \cap Wants[c] : Enrols(c, q)
    \/ \E c \in Client, error \in RegisterError : Refuses(c, error)
    \/ Late \/ Finalises \/ FinaliseFails \/ Pings \/ Sends

\* Every step of the main thread has one of these effects.
LEMMA ServerEffects ==
  ASSUME Typed, Wanted, ServerObjects, ServerStep
  PROVE  ServerEffect
<1> USE DEF Typed
<1>0. Elsewhere /\ ServerNext
  BY DEF ServerStep, clientIoVars, Elsewhere
<1>1. ASSUME Keep, UNCHANGED <<ref_input, server_trans>>,
             ref_output' = ref_output \/ (ref_output # <<>> /\ ref_output' = Tail(ref_output))
      PROVE  Quiet
  BY <1>0, <1>1 DEF Keep, handle, Quiet
<1>2. CASE TakeRefOutput
  <2>1. CASE ref_output = <<>>
    BY <1>1, <1>2, <2>1 DEF TakeRefOutput, outbound, ServerEffect
  <2>2. CASE ref_output # <<>>
    <3>1. /\ FromReferee(Head(ref_output)) /\ ref_output' = Tail(ref_output)
          /\ UNCHANGED <<ref_input, server_trans>> /\ pending = <<>>
      BY <1>2, <2>2 DEF TakeRefOutput, outbound, Running
    <3>2. \/ state = "waiting" /\ Head(ref_output) = "rosterFinalised" /\ roster_finalised
          \/ state # "waiting" /\ (MoveTo("playing") \/ MoveTo("waiting"))
          \/ Keep
      BY <3>1, Zenon DEF FromReferee
    <3>3. CASE Head(ref_output) = "rosterFinalised" /\ roster_finalised
      <4>1. CASE enrollment = None \/ ~is_full(enrollment)
        BY <1>0, <2>2, <3>1, <3>3, <4>1 DEF FinaliseFails, TakesAnnouncement, ServerEffect
      <4>2. CASE enrollment # None /\ is_full(enrollment)
        BY <1>0, <2>2, <3>1, <3>3, <4>2
        DEF roster_finalised, Finalises, TakesAnnouncement, ServerEffect
      <4> QED
        BY <4>1, <4>2
    <3>4. CASE state # "waiting" /\ (MoveTo("playing") \/ MoveTo("waiting"))
      BY <1>0, <2>2, <3>1, <3>4 DEF MoveTo, Quiet, ServerEffect
    <3>5. CASE Keep
      BY <1>1, <2>2, <3>1, <3>5 DEF ServerEffect
    <3> QED
      BY <3>2, <3>3, <3>4, <3>5
  <2> QED
    BY <2>1, <2>2 DEF ServerEffect
<1>3. CASE TakeClientStatus
  <2>1. /\ Keep \/ FromClientStatus(Head(client_status))
        /\ UNCHANGED <<ref_input, server_trans, ref_output>>
    BY <1>3 DEF TakeClientStatus, outbound
  <2>2. CASE Keep
    BY <1>1, <2>1, <2>2 DEF ServerEffect
  <2>3. CASE FromClientStatus(Head(client_status))
    BY <1>0, <2>1, <2>3
    DEF FromClientStatus, received_pong, Keep, handle, Quiet, ServerEffect
  <2> QED
    BY <2>1, <2>2, <2>3
<1>4. CASE TakeClientTrans
  <2>1. CASE client_trans = <<>>
    BY <1>1, <1>4, <2>1 DEF TakeClientTrans, outbound, ServerEffect
  <2>2. CASE client_trans # <<>>
    <3> DEFINE msg == Head(client_trans)
    <3>1. /\ FromClientTrans(msg) /\ pending = <<>>
          /\ UNCHANGED <<ref_input, server_trans, ref_output>>
      BY <1>4, <2>2 DEF TakeClientTrans, outbound, Running
    <3>2. msg \in ClientTransaction /\ AllWanted(<<msg>>)
      BY <2>2, HeadTailProperties, WantedMoves DEF QueuesTyped, Wanted
    <3>3. CASE Keep
      BY <1>1, <3>1, <3>3 DEF ServerEffect
    <3>4. CASE msg.type = "registration" /\ registration_requested(msg.from, msg.request)
      <4> DEFINE c == msg.from
                 q == msg.request
      <4>1. c \in Client /\ q \in Request \cap Wants[c]
        BY <3>2, <3>4 DEF ClientTransaction, AllWanted
      <4>2. registration_requested(c, q)
        BY <3>4
      <4> HIDE DEF msg, c, q
      <4>3. CASE enrollment = None
        BY <1>0, <3>1, <4>2, <4>3
        DEF registration_requested, Halt, handle, Late, Queues, ServerEffect
      <4>4. CASE enrollment # None /\ register_result(enrollment, q) = "success"
        <5>1. Enrols(c, q)
          BY <1>0, <3>1, <4>2, <4>4 DEF registration_requested, Enrols, Queues
        <5> QED
          BY <4>1, <5>1 DEF ServerEffect
      <4>5. CASE enrollment # None /\ register_result(enrollment, q) # "success"
        <5> DEFINE error == register_result(enrollment, q)
        <5>1. error \in RegisterError
          BY <4>5, RegisterErrors
        <5>2. enrollment' = enrollment
          BY <4>2, <4>5 DEF registration_requested, register_client
        <5>3. Refuses(c, error)
          BY <1>0, <3>1, <4>2, <4>5, <5>2 DEF registration_requested, Refuses, Queues
        <5> HIDE DEF error
        <5> QED
          BY <4>1, <5>1, <5>3 DEF ServerEffect
      <4> QED
        BY <4>3, <4>4, <4>5
    <3> QED
      BY <3>1, <3>3, <3>4 DEF FromClientTrans
  <2> QED
    BY <2>1, <2>2
<1>5. CASE RunTimers
  <2>1. CASE Keep
    BY <1>1, <1>5, <2>1 DEF RunTimers, inbound, outbound, ServerEffect
  <2>2. CASE state = "onbreak" /\ time < MaxPings /\ ping_timedout
    <3>1. \A i \in 1..Len(pending') : pending'[i].msg.type = "ping"
      BY <2>2, PingsTyped DEF ServerObjects
    <3>2. Pings
      BY <1>0, <1>5, <2>2, <3>1
      DEF RunTimers, Running, ping_timedout, inbound, outbound, Queues, Pings
    <3> QED
      BY <3>2 DEF ServerEffect
  <2> QED
    BY <1>5, <2>1, <2>2 DEF RunTimers
<1>6. CASE Enqueue
  <2>1. Head(pending) \in Outgoing
    BY <1>6 DEF Enqueue, HandleTyped
  <2>2. Head(pending).queue \in {"ref_input", "server_status", "server_trans"}
    BY <2>1 DEF Outgoing
  <2>3. Sends
    BY <1>0, <1>6, <2>2 DEF Enqueue, handle, inbound, Sends
  <2> QED
    BY <2>3 DEF ServerEffect
<1> QED
  BY <1>0, <1>2, <1>3, <1>4, <1>5, <1>6 DEF ServerNext

\* ref_io and client_io, and the referee's judgements: a message goes from one queue
\* to another, or is lost.
ServerStays == UNCHANGED <<state, enrollment, roster, halted, pending>>
RefereeStays == UNCHANGED <<referee_enrollment, referee_roster, referee_halted>>

PassesToReferee ==
    /\ ref_input # <<>>
    /\ to_referee' = Append(to_referee, Head(ref_input))
    /\ ref_input' = Tail(ref_input)
    /\ UNCHANGED <<ref_output, server_trans, delivered, from_referee>>
    /\ ServerStays /\ RefereeStays

PassesToServer ==
    /\ from_referee # <<>>
    /\ from_referee' = Tail(from_referee)
    /\ ref_output' \in {ref_output, Append(ref_output, Head(from_referee))}
    /\ UNCHANGED <<ref_input, server_trans, delivered, to_referee>>
    /\ ServerStays /\ RefereeStays

Delivers ==
    /\ server_trans # <<>>
    /\ server_trans' = Tail(server_trans)
    /\ \/ delivered' = delivered
       \/ \E c \in Client :
            delivered' = [delivered EXCEPT ![c] = Append(@, Head(server_trans))]
    /\ UNCHANGED <<ref_input, ref_output, refereeVars>>
    /\ ServerStays

Judges ==
    /\ \E output \in {"fieldOpen", "matchClose", "matchAbort"} :
            from_referee' = Append(from_referee, output)
    /\ UNCHANGED <<ref_input, ref_output, server_trans, delivered, to_referee>>
    /\ ServerStays /\ RefereeStays

\* The referee takes a message: no registration, a registration, the last one, or one
\* that ends it.
RefereeTakes ==
    /\ ~referee_halted /\ to_referee # <<>> /\ to_referee' = Tail(to_referee)
    /\ UNCHANGED <<ref_input, ref_output, server_trans, delivered>>
    /\ ServerStays

Registering == RefereeTakes /\ Head(to_referee).type = "registration"

Registered ==
    register_client(referee_enrollment, Head(to_referee).client, Head(to_referee).request)

RefereeSkips ==
    /\ RefereeTakes /\ Head(to_referee).type # "registration"
    /\ UNCHANGED from_referee /\ RefereeStays

RefereeRegisters ==
    /\ Registering /\ referee_enrollment # None
    /\ referee_enrollment' = Registered
    /\ UNCHANGED <<from_referee, referee_roster, referee_halted>>

RefereeCloses ==
    /\ Registering /\ referee_enrollment # None /\ is_full(Registered)
    /\ from_referee' = Append(from_referee, "rosterFinalised")
    /\ referee_roster' = finalise(Registered)
    /\ referee_enrollment' = None
    /\ UNCHANGED referee_halted

RefereeHalts ==
    /\ Registering /\ (referee_enrollment = None \/ ~PhysicsInReferee)
    /\ referee_halted' = TRUE
    /\ UNCHANGED <<from_referee, referee_enrollment, referee_roster>>

Effect ==
    \/ ServerEffect
    \/ PassesToReferee \/ PassesToServer \/ Delivers \/ Judges
    \/ RefereeSkips \/ RefereeRegisters \/ RefereeCloses \/ RefereeHalts

\* Every step of the system has one of these effects.
LEMMA StepEffect ==
  ASSUME Typed, Wanted, ServerObjects, [Next]_vars
  PROVE  Effect
<1> USE DEF serverVars, handle, loop, inbound, outbound, refereeVars, clientIoVars,
            ServerStays, RefereeStays, Elsewhere
<1>1. CASE ServerStep
  BY <1>1, ServerEffects DEF Effect
<1>2. CASE IoStep
  <2>1. CASE ref_io_send
    BY <2>1 DEF ref_io_send, PassesToReferee, Effect
  <2>2. CASE ref_io_receive
    BY <2>2 DEF ref_io_receive, PassesToServer, Effect
  <2>3. CASE send_server_trans
    <3>1. \/ delivered' = delivered
          \/ \E c \in Client :
               delivered' = [delivered EXCEPT ![c] = Append(@, Head(server_trans))]
      BY <2>3 DEF send_server_trans, Typed, WiresTyped
    <3> QED
      BY <2>3, <3>1 DEF send_server_trans, Delivers, Effect
  <2>4. CASE send_server_status \/ found_queue_empty
    BY <2>4 DEF send_server_status, found_queue_empty, Quiet, ServerEffect, Effect
  <2>5. CASE \E c \in Client :
                on_connect(c) \/ on_receive_client_trans(c) \/ on_disconnect(c)
    BY <2>5 DEF on_connect, on_receive_client_trans, on_disconnect, Hear,
                Quiet, ServerEffect, Effect
  <2> QED
    BY <1>2, <2>1, <2>2, <2>3, <2>4, <2>5 DEF IoStep, IoNext
<1>3. CASE RefereeStep
  <2>1. RefereeTakes
    BY <1>3 DEF RefereeStep, process, RefereeTakes
  <2>2. CASE Head(to_referee).type # "registration"
    BY <1>3, <2>1, <2>2 DEF RefereeStep, process, RefereeSkips, Effect
  <2>3. CASE Head(to_referee).type = "registration"
    <3>1. process_registration(Head(to_referee).client, Head(to_referee).request)
      BY <1>3, <2>3 DEF RefereeStep, process
    <3> QED
      BY <2>1, <2>3, <3>1 DEF process_registration, Registering, Registered,
         RefereeRegisters, RefereeCloses, RefereeHalts, Effect
  <2> QED
    BY <2>2, <2>3
<1>4. CASE Judgement
  BY <1>4 DEF Judgement, Judge, Judges, Effect
<1>5. CASE \/ \E c \in Client : Connect(c) \/ Leave(c) \/ \E q \in Wants[c] : Submit(c, q)
           \/ UNCHANGED vars
  BY <1>5 DEF Connect, Leave, Submit, SendUp, vars, Quiet, ServerEffect, Effect
<1> QED
  BY <1>1, <1>2, <1>3, <1>4, <1>5 DEF Next

-----------------------------------------------------------------------------
(* Each part of the inductive invariant is kept by every effect. *)

\* When the server takes the announcement, its enrollment is there and is the one
\* the referee finalised.
LEMMA AnnouncedInTime ==
  ASSUME IInv, TakesAnnouncement
  PROVE  /\ 1 \in Announcements(ref_output)
         /\ roster = None /\ referee_roster # None
         /\ enrollment # None /\ is_full(enrollment)
         /\ finalise(enrollment) = referee_roster
<1>1. 1 \in 1..Len(ref_output) /\ ref_output[1] = "rosterFinalised"
  BY HeadTailProperties, EmptySeq DEF IInv, Typed, QueuesTyped, TakesAnnouncement
<1>2. 1 \in Announcements(ref_output)
  BY <1>1 DEF Announcements
<1>3. roster = None /\ referee_roster # None
  BY <1>2 DEF IInv, AnnouncedOnce
<1> QED
  BY <1>2, <1>3 DEF IInv, ServerObjects, RefereeObjects

\* While the referee has a roster the server accepts no registration.
LEMMA AcceptsInTime ==
  ASSUME IInv, NEW c, NEW q \in Request, Enrols(c, q)
  PROVE  referee_roster = None
BY FullRefuses DEF IInv, RefereeObjects, Enrols

\* Nothing but a late registration ends the server.
LEMMA NextHalts == ASSUME IInv, Effect PROVE OnlyLateRequestsHalt'
<1> USE DEF OnlyLateRequestsHalt, Elsewhere, refereeVars, ServerStays, RefereeStays
<1>0. OnlyLateRequestsHalt
  BY DEF IInv
<1>1. CASE \/ Quiet \/ Pings \/ Sends
           \/ \E c \in Client : \E q \in Request \cap Wants[c] : Enrols(c, q)
           \/ \E c \in Client, error \in RegisterError : Refuses(c, error)
  <2>1. UNCHANGED <<halted, roster, referee_halted>>
    <3>1. CASE Quiet \/ Pings \/ Sends
      BY <3>1 DEF Quiet, Pings, Sends
    <3>2. ASSUME NEW c, NEW q, Enrols(c, q) PROVE UNCHANGED <<halted, roster, referee_halted>>
      BY <3>2 DEF Enrols
    <3>3. ASSUME NEW c, NEW error, Refuses(c, error)
          PROVE  UNCHANGED <<halted, roster, referee_halted>>
      BY <3>3 DEF Refuses
    <3> QED
      BY <1>1, <3>1, <3>2, <3>3
  <2> QED
    BY <1>0, <2>1
<1>2. CASE Late
  BY <1>0, <1>2 DEF Late, IInv, ServerObjects
<1>3. CASE Finalises
  <2>1. roster' # None
    BY <1>3, FinaliseRosterOf DEF Finalises, IInv, ServerObjects
  <2> QED
    BY <1>0, <1>3, <2>1 DEF Finalises, TakesAnnouncement
<1>4. CASE FinaliseFails
  BY <1>4, AnnouncedInTime DEF FinaliseFails
<1>5. CASE PassesToReferee \/ PassesToServer \/ Delivers \/ Judges
  BY <1>0, <1>5 DEF PassesToReferee, PassesToServer, Delivers, Judges
<1>6. CASE RefereeSkips \/ RefereeRegisters \/ RefereeCloses
  BY <1>0, <1>6
  DEF RefereeSkips, RefereeRegisters, RefereeCloses, Registering, RefereeTakes
<1>7. CASE RefereeHalts
  <2>1. referee_enrollment # None
    <3>1. /\ to_referee # <<>> /\ Head(to_referee).type = "registration"
          /\ to_referee \in Seq(RefInput)
      BY <1>7 DEF RefereeHalts, Registering, RefereeTakes, IInv, Typed, WiresTyped
    <3>2. ~NoRegistration(to_referee)
      BY <3>1, HeadTailProperties, EmptySeq DEF NoRegistration
    <3> QED
      BY <3>2 DEF IInv, RefereeObjects
  <2> QED
    BY <1>0, <1>7, <2>1 DEF RefereeHalts, Registering, RefereeTakes
<1> QED
  BY <1>1, <1>2, <1>3, <1>4, <1>5, <1>6, <1>7 DEF Effect, ServerEffect

\* The server's enrollment becomes the referee's roster.
LEMMA NextServerObjects == ASSUME IInv, Effect PROVE ServerObjects'
<1> USE DEF Elsewhere, refereeVars, ServerStays, RefereeStays
<1>0. ServerObjects
  BY DEF IInv
<1>1. ASSUME UNCHANGED <<enrollment, roster, referee_roster>>,
             state' # "waiting" => state # "waiting"
      PROVE  ServerObjects'
  BY <1>0, <1>1 DEF ServerObjects
<1>2. CASE \/ Quiet \/ Pings \/ Sends \/ Late
           \/ \E c \in Client, error \in RegisterError : Refuses(c, error)
  BY <1>1, <1>2 DEF Quiet, Pings, Sends, Late, Refuses
<1>3. ASSUME NEW c \in Client, NEW q \in Request \cap Wants[c], Enrols(c, q)
      PROVE  ServerObjects'
  <2>1. Sound(enrollment) /\ EntriesWanted(enrollment)
    BY <1>0, <1>3 DEF ServerObjects, Enrols
  <2>2. Sound(enrollment') /\ EntriesWanted(enrollment') /\ enrollment' # None
    BY <1>3, <2>1, RegisterSound, RegisterWanted, SoundExists DEF Enrols
  <2> QED
    BY <1>0, <1>3, <2>2 DEF ServerObjects, Enrols
<1>4. CASE Finalises
  <2>1. /\ Sound(enrollment) /\ is_full(enrollment) /\ EntriesWanted(enrollment)
        /\ roster' = finalise(enrollment) /\ enrollment' = None
        /\ referee_roster' = finalise(enrollment)
    BY <1>0, <1>4, AnnouncedInTime DEF Finalises, TakesAnnouncement, ServerObjects
  <2>2. roster' # None /\ PlacesWanted(roster')
    BY <2>1, FinaliseRosterOf, FinaliseWanted
  <2> QED
    BY <2>1, <2>2 DEF ServerObjects
<1>5. CASE FinaliseFails
  BY <1>5, AnnouncedInTime DEF FinaliseFails
<1>6. CASE \/ PassesToReferee \/ PassesToServer \/ Delivers \/ Judges
           \/ RefereeSkips \/ RefereeRegisters \/ RefereeHalts
  BY <1>1, <1>6 DEF PassesToReferee, PassesToServer, Delivers, Judges, RefereeSkips,
     RefereeRegisters, RefereeHalts, Registering, RefereeTakes
<1>7. CASE RefereeCloses
  <2>1. referee_roster = None
    BY <1>7 DEF RefereeCloses, IInv, RefereeObjects
  <2>2. roster = None
    BY <1>0, <2>1 DEF ServerObjects
  <2> QED
    BY <1>0, <1>7, <2>2 DEF RefereeCloses, Registering, RefereeTakes, ServerObjects
<1> QED
  BY <1>2, <1>3, <1>4, <1>5, <1>6, <1>7 DEF Effect, ServerEffect

-----------------------------------------------------------------------------

\* Announcements taken and added.
LEMMA AnnouncementTaken ==
  ASSUME NEW s \in Seq(RefOutput), s # <<>>, \A i, j \in Announcements(s) : i = j
  PROVE  /\ \A i, j \in Announcements(Tail(s)) : i = j
         /\ Announcements(s) = {} => Announcements(Tail(s)) = {}
         /\ Head(s) = "rosterFinalised" =>
                Announcements(s) # {} /\ Announcements(Tail(s)) = {}
<1>1. /\ Len(s) \in Nat \ {0} /\ Head(s) = s[1] /\ Len(Tail(s)) = Len(s) - 1
      /\ \A i \in 1..Len(Tail(s)) : Tail(s)[i] = s[i + 1]
  BY HeadTailProperties, EmptySeq
<1>2. \A i \in Announcements(Tail(s)) : i \in Nat /\ i # 0 /\ i + 1 \in Announcements(s)
  BY <1>1 DEF Announcements
<1>3. \A i, j \in Announcements(Tail(s)) : i = j
  <2> SUFFICES ASSUME NEW i \in Announcements(Tail(s)), NEW j \in Announcements(Tail(s))
               PROVE  i = j
    OBVIOUS
  <2>1. i + 1 = j + 1
    BY <1>2
  <2> QED
    BY <1>2, <2>1
<1>4. ASSUME Head(s) = "rosterFinalised"
      PROVE  Announcements(s) # {} /\ Announcements(Tail(s)) = {}
  <2>1. 1 \in Announcements(s)
    BY <1>1, <1>4 DEF Announcements
  <2>2. \A i \in Announcements(Tail(s)) : i + 1 = 1
    BY <1>2, <2>1
  <2> QED
    BY <1>2, <2>1, <2>2
<1> QED
  BY <1>2, <1>3, <1>4

\* A message added is an announcement or leaves them as they are.
LEMMA AnnouncementAdded ==
  ASSUME NEW s \in Seq(RefOutput), NEW m \in RefOutput
  PROVE  /\ Announcements(s) = {} =>
                \A i, j \in Announcements(Append(s, m)) : i = j
         /\ m # "rosterFinalised" => Announcements(Append(s, m)) = Announcements(s)
<1>1. /\ Len(s) \in Nat /\ Len(Append(s, m)) = Len(s) + 1
      /\ \A i \in 1..Len(s) : Append(s, m)[i] = s[i]
      /\ Append(s, m)[Len(s) + 1] = m
  BY AppendProperties
<1>2. \A i \in Announcements(Append(s, m)) :
          i \in Announcements(s) \/ (i = Len(s) + 1 /\ m = "rosterFinalised")
  BY <1>1 DEF Announcements
<1>3. \A i \in Announcements(s) : i \in Announcements(Append(s, m))
  BY <1>1 DEF Announcements
<1> QED
  BY <1>2, <1>3

\* The roster is announced once.
LEMMA NextAnnouncements == ASSUME IInv, Effect PROVE AnnouncedOnce'
<1> USE DEF Elsewhere, refereeVars, ServerStays, RefereeStays, Queues
<1>0. /\ AnnouncedOnce
      /\ ref_output \in Seq(RefOutput) /\ from_referee \in Seq(RefOutput)
  BY DEF IInv, Typed, QueuesTyped, WiresTyped
<1>1. ASSUME UNCHANGED <<ref_output, from_referee, roster, referee_roster>>
      PROVE  AnnouncedOnce'
  BY <1>0, <1>1 DEF AnnouncedOnce
<1>2. CASE Quiet
  <2>1. UNCHANGED <<roster, referee_roster, from_referee>>
    BY <1>2 DEF Quiet
  <2>2. CASE ref_output' = ref_output
    BY <1>1, <2>1, <2>2
  <2>3. CASE ref_output # <<>> /\ ref_output' = Tail(ref_output)
    BY <1>0, <2>1, <2>3, AnnouncementTaken DEF AnnouncedOnce
  <2> QED
    BY <1>2, <2>2, <2>3 DEF Quiet
<1>3. CASE \/ Pings \/ Sends \/ Late
           \/ \E c \in Client : \E q \in Request \cap Wants[c] : Enrols(c, q)
           \/ \E c \in Client, error \in RegisterError : Refuses(c, error)
  BY <1>1, <1>3 DEF Pings, Sends, Late, Enrols, Refuses
<1>4. CASE Finalises
  <2>1. /\ ref_output # <<>> /\ Head(ref_output) = "rosterFinalised"
        /\ ref_output' = Tail(ref_output) /\ from_referee' = from_referee
    BY <1>4 DEF Finalises, TakesAnnouncement
  <2>2. Announcements(ref_output') = {} /\ Announcements(from_referee') = {}
    BY <1>0, <2>1, AnnouncementTaken DEF AnnouncedOnce
  <2> QED
    BY <2>2 DEF AnnouncedOnce
<1>5. CASE FinaliseFails
  BY <1>5, AnnouncedInTime DEF FinaliseFails
<1>6. CASE \/ PassesToReferee \/ Delivers
           \/ RefereeSkips \/ RefereeRegisters \/ RefereeHalts
  BY <1>1, <1>6 DEF PassesToReferee, Delivers, RefereeSkips, RefereeRegisters,
     RefereeHalts, Registering, RefereeTakes
<1>7. CASE PassesToServer
  <2> DEFINE m == Head(from_referee)
  <2>1. /\ from_referee # <<>> /\ from_referee' = Tail(from_referee)
        /\ ref_output' \in {ref_output, Append(ref_output, m)}
        /\ UNCHANGED <<roster, referee_roster>>
    BY <1>7 DEF PassesToServer
  <2>2. m \in RefOutput
    BY <1>0, <2>1, HeadTailProperties
  <2>3. CASE m = "rosterFinalised"
    <3>1. /\ Announcements(from_referee) # {} /\ Announcements(from_referee') = {}
          /\ Announcements(ref_output) = {}
          /\ roster = None /\ referee_roster # None
      BY <1>0, <2>1, <2>3, AnnouncementTaken DEF AnnouncedOnce
    <3>2. \A i, j \in Announcements(ref_output') : i = j
      <4>1. CASE ref_output' = ref_output
        BY <1>0, <4>1 DEF AnnouncedOnce
      <4>2. CASE ref_output' = Append(ref_output, m)
        <5>1. \A i, j \in Announcements(Append(ref_output, m)) : i = j
          BY <1>0, <2>2, <3>1, AnnouncementAdded
        <5> HIDE DEF m
        <5> QED
          BY <4>2, <5>1
      <4> QED
        BY <2>1, <4>1, <4>2
    <3> QED
      BY <2>1, <3>1, <3>2 DEF AnnouncedOnce
  <2>4. CASE m # "rosterFinalised"
    <3>1. Announcements(ref_output') = Announcements(ref_output)
      BY <1>0, <2>1, <2>2, <2>4, AnnouncementAdded
    <3>2. /\ \A i, j \in Announcements(from_referee') : i = j
          /\ Announcements(from_referee) = {} => Announcements(from_referee') = {}
      BY <1>0, <2>1, AnnouncementTaken DEF AnnouncedOnce
    <3> QED
      BY <1>0, <2>1, <3>1, <3>2 DEF AnnouncedOnce
  <2> QED
    BY <2>3, <2>4
<1>8. CASE Judges
  <2>1. PICK output \in {"fieldOpen", "matchClose", "matchAbort"} :
            from_referee' = Append(from_referee, output)
    BY <1>8 DEF Judges
  <2>2. output \in RefOutput /\ output # "rosterFinalised"
    BY DEF RefOutput
  <2>3. Announcements(from_referee') = Announcements(from_referee)
    BY <1>0, <2>1, <2>2, AnnouncementAdded
  <2> QED
    BY <1>0, <1>8, <2>3 DEF Judges, AnnouncedOnce
<1>9. CASE RefereeCloses
  <2>1. referee_roster = None /\ UNCHANGED <<ref_output, roster>>
    BY <1>9 DEF RefereeCloses, Registering, RefereeTakes, IInv, RefereeObjects
  <2>2. Announcements(ref_output) = {} /\ Announcements(from_referee) = {}
    BY <1>0, <2>1 DEF AnnouncedOnce
  <2>3. \A i, j \in Announcements(from_referee') : i = j
    BY <1>0, <1>9, <2>2, AnnouncementAdded DEF RefereeCloses, RefOutput
  <2>4. roster = None
    BY <2>1 DEF IInv, ServerObjects
  <2>5. referee_roster' # None
    <3>1. Sound(Registered)
      BY <1>9, RefereeInputs, RegisterSound
      DEF RefereeCloses, Registering, RefereeTakes, Registered, IInv, RefereeObjects
    <3> QED
      BY <1>9, <3>1, FinaliseRosterOf DEF RefereeCloses
  <2> QED
    BY <2>1, <2>2, <2>3, <2>4, <2>5 DEF AnnouncedOnce
<1> QED
  BY <1>2, <1>3, <1>4, <1>5, <1>6, <1>7, <1>8, <1>9 DEF Effect, ServerEffect

-----------------------------------------------------------------------------

\* A handler's only letter comes last of what is under way.
LEMMA OneLetter ==
  ASSUME Typed, pending = <<>>, NEW queue, NEW msg \in Message,
         pending' = <<SendTo(queue, msg)>>
  PROVE  /\ Len(pending') = 1 /\ Len(Letters') = 1 /\ Letters'[1] = msg
         /\ UNCHANGED <<to_referee, ref_input>> => UnderWay' = Append(UnderWay, msg)
<1>1. Letters = <<>>
  BY QueuesOfMessages
<1>2. Letters' = <<msg>>
  BY DEF Letters, SendTo
<1>3. to_referee \o ref_input \in Seq(Message)
  BY QueuesOfMessages, ConcatProperties
<1>4. UnderWay = to_referee \o ref_input
  BY <1>1, <1>3, ConcatEmptySeq DEF UnderWay
<1>5. ASSUME UNCHANGED <<to_referee, ref_input>> PROVE UnderWay' = Append(UnderWay, msg)
  <2>1. UnderWay' = (to_referee \o ref_input) \o <<msg>>
    BY <1>2, <1>5 DEF UnderWay
  <2> QED
    BY <1>3, <1>4, <2>1, AppendIsConcat
<1> QED
  BY <1>2, <1>5

\* The letters of a ping round, of a refusal and of a new roster are no registrations.
LEMMA OtherLetters ==
  ASSUME Typed,
         \/ Pings
         \/ \E c \in Client, error \in RegisterError : Refuses(c, error)
         \/ Finalises /\ roster' \in RosterType
  PROVE  NoRegistration(Letters')
<1>1. CASE Pings
  BY <1>1 DEF Pings, Letters, NoRegistration
<1>2. ASSUME NEW c \in Client, NEW error \in RegisterError, Refuses(c, error)
      PROVE  NoRegistration(Letters')
  <2> DEFINE msg == [type |-> "regError", to |-> c, error |-> error]
  <2>1. msg \in Message
    BY DEF Message, ServerTransaction
  <2>2. Len(Letters') = 1 /\ Letters'[1] = msg
    BY <1>2, <2>1, OneLetter DEF Refuses
  <2> QED
    BY <2>2 DEF NoRegistration
<1>3. CASE Finalises /\ roster' \in RosterType
  <2>1. \A i \in 1..Len(pending') : IsAck(pending'[i].msg)
    BY <1>3, AcksOfRoster DEF Finalises
  <2>2. Len(pending') \in Nat
    BY <1>3, AcksOfRoster, LenProperties DEF Finalises
  <2> QED
    BY <2>1, <2>2 DEF Letters, NoRegistration, IsAck
<1> QED
  BY <1>1, <1>2, <1>3

\* What the referee takes is the first of what is under way.
LEMMA FirstUnderWay ==
  ASSUME Typed, to_referee # <<>>
  PROVE  /\ UnderWay # <<>> /\ Head(UnderWay) = Head(to_referee)
         /\ Tail(to_referee) \in Seq(Message)
         /\ Tail(UnderWay) = (Tail(to_referee) \o ref_input) \o Letters
<1> DEFINE both == to_referee \o ref_input
<1>1. /\ both \in Seq(Message) /\ both # <<>> /\ Head(both) = Head(to_referee)
      /\ Tail(to_referee) \in Seq(Message) /\ Tail(both) = Tail(to_referee) \o ref_input
  BY QueuesOfMessages, HeadOfConcat, ConcatProperties
<1>2. UnderWay = both \o Letters
  BY DEF UnderWay
<1> HIDE DEF both
<1>3. /\ both \o Letters # <<>> /\ Head(both \o Letters) = Head(both)
      /\ Tail(both \o Letters) = Tail(both) \o Letters
  BY <1>1, QueuesOfMessages, HeadOfConcat
<1> QED
  BY <1>1, <1>2, <1>3

\* A registration fills the referee's enrollment exactly when it filled the server's,
\* which has accepted none since.
LEMMA ClosesInStep ==
  ASSUME IInv, RefereeCloses
  PROVE  /\ enrollment = Registered
         /\ NoRegistration(Tail(to_referee)) /\ NoRegistration(ref_input)
         /\ NoRegistration(Letters)
<1>1. /\ to_referee # <<>> /\ Head(to_referee).type = "registration"
      /\ referee_enrollment # None /\ ~referee_halted /\ is_full(Registered)
      /\ Typed
  BY DEF IInv, RefereeCloses, Registering, RefereeTakes
<1>2. ReplayGives(referee_enrollment, UnderWay, enrollment)
  BY <1>1 DEF IInv, RefereeObjects, InStep
<1>3. Processed(referee_enrollment, Head(UnderWay)) = Registered
  BY <1>1, FirstUnderWay DEF Processed, Registered
<1>4. /\ Tail(UnderWay) \in Seq(Message)
      /\ ReplayGives(Registered, Tail(UnderWay), enrollment)
  <2>1. UnderWay \in Seq(Message) /\ UnderWay # <<>>
    BY <1>1, QueuesOfMessages, FirstUnderWay
  <2>2. Tail(UnderWay) \in Seq(Message)
    BY <2>1, HeadTailProperties
  <2> QED
    BY <1>2, <1>3, <2>1, <2>2, ReplayTakes
<1>5. enrollment = Registered /\ NoRegistration(Tail(UnderWay))
  BY <1>1, <1>4, ReplayOnFull
<1>6. /\ Tail(to_referee) \in Seq(Message) /\ ref_input \in Seq(Message)
      /\ Letters \in Seq(Message)
      /\ Tail(to_referee) \o ref_input \in Seq(Message)
      /\ NoRegistration((Tail(to_referee) \o ref_input) \o Letters)
  BY <1>1, <1>5, FirstUnderWay, QueuesOfMessages, ConcatProperties
<1>7. NoRegistration(Tail(to_referee) \o ref_input) /\ NoRegistration(Letters)
  BY <1>6, ConcatHas
<1> QED
  BY <1>5, <1>6, <1>7, ConcatHas

\* The referee's enrollment becomes its roster when the server's is as full.
LEMMA NextRefereeObjects == ASSUME IInv, Effect PROVE RefereeObjects'
<1> USE DEF Elsewhere, refereeVars, ServerStays, RefereeStays, Queues
<1>0. /\ RefereeObjects /\ Typed
      /\ to_referee \in Seq(Message) /\ ref_input \in Seq(Message)
      /\ Letters \in Seq(Message)
  BY QueuesOfMessages DEF IInv
<1>1. ASSUME UNCHANGED <<referee_enrollment, referee_roster>>,
             enrollment' \in {enrollment, None},
             referee_roster # None =>
                /\ NoRegistration(to_referee')
                /\ NoRegistration(ref_input')
                /\ NoRegistration(Letters')
      PROVE  RefereeObjects'
  BY <1>0, <1>1 DEF RefereeObjects
<1>2. ASSUME UNCHANGED pending PROVE Letters' = Letters
  BY <1>2 DEF Letters
<1>3. CASE Quiet \/ Late
  BY <1>0, <1>1, <1>2, <1>3 DEF Quiet, Late, RefereeObjects
<1>4. CASE PassesToServer \/ Delivers \/ Judges
  BY <1>0, <1>1, <1>2, <1>4 DEF PassesToServer, Delivers, Judges, RefereeObjects
<1>5. ASSUME NEW c \in Client, NEW q \in Request \cap Wants[c], Enrols(c, q)
      PROVE  RefereeObjects'
  BY <1>0, <1>5, AcceptsInTime DEF Enrols, RefereeObjects
<1>6. CASE \/ Pings
           \/ \E c \in Client, error \in RegisterError : Refuses(c, error)
  <2>1. NoRegistration(Letters')
    BY <1>0, <1>6, OtherLetters
  <2>2. UNCHANGED <<enrollment, referee_enrollment, referee_roster, to_referee, ref_input>>
    BY <1>6 DEF Pings, Refuses
  <2> QED
    BY <1>0, <1>1, <2>1, <2>2 DEF RefereeObjects
<1>7. CASE Finalises
  <2>1. roster' \in RosterType
    BY <1>7, Finalised DEF Finalises, IInv, ServerObjects
  <2>2. NoRegistration(Letters')
    BY <1>0, <1>7, <2>1, OtherLetters
  <2> QED
    BY <1>0, <1>1, <1>7, <2>2 DEF Finalises, TakesAnnouncement, RefereeObjects
<1>8. CASE FinaliseFails
  BY <1>8, AnnouncedInTime DEF FinaliseFails
<1>9. CASE Sends
  <2>1. Letters # <<>> /\ Head(Letters) = Head(pending).msg /\ Letters' = Tail(Letters)
    BY <1>0, <1>9, LetterSent DEF Sends, Typed, HandleTyped
  <2>2. UNCHANGED <<enrollment, referee_enrollment, referee_roster, to_referee>>
    BY <1>9 DEF Sends
  <2>3. ref_input' \in {ref_input, Append(ref_input, Head(Letters))}
    BY <1>9, <2>1 DEF Sends
  <2>4. ASSUME referee_roster # None
        PROVE  NoRegistration(ref_input') /\ NoRegistration(Letters')
    <3>1. NoRegistration(ref_input) /\ NoRegistration(Letters)
      BY <1>0, <2>4 DEF RefereeObjects
    <3>2. NoRegistration(Tail(Letters)) /\ NoRegistration(Append(ref_input, Head(Letters)))
      BY <1>0, <2>1, <3>1, AcksTaken, AcksMoved
    <3> QED
      BY <2>1, <2>3, <3>1, <3>2
  <2> QED
    BY <1>0, <1>1, <2>2, <2>4 DEF RefereeObjects
<1>10. CASE PassesToReferee
  <2>1. /\ ref_input # <<>> /\ ref_input' = Tail(ref_input)
        /\ to_referee' = Append(to_referee, Head(ref_input))
        /\ UNCHANGED <<enrollment, referee_enrollment, referee_roster, pending>>
    BY <1>10 DEF PassesToReferee
  <2>2. ASSUME referee_roster # None
        PROVE  NoRegistration(ref_input') /\ NoRegistration(to_referee')
    <3>1. NoRegistration(ref_input) /\ NoRegistration(to_referee)
      BY <1>0, <2>2 DEF RefereeObjects
    <3> QED
      BY <1>0, <2>1, <3>1, AcksTaken, AcksMoved
  <2> QED
    BY <1>0, <1>1, <1>2, <2>1, <2>2 DEF RefereeObjects
<1>11. CASE RefereeSkips \/ RefereeHalts
  <2>1. /\ to_referee # <<>> /\ to_referee' = Tail(to_referee)
        /\ UNCHANGED <<enrollment, referee_enrollment, referee_roster, ref_input, pending>>
    BY <1>11 DEF RefereeSkips, RefereeHalts, Registering, RefereeTakes
  <2>2. NoRegistration(to_referee) => NoRegistration(to_referee')
    BY <1>0, <2>1, AcksTaken
  <2> QED
    BY <1>0, <1>1, <1>2, <2>1, <2>2 DEF RefereeObjects
<1>12. ASSUME Registering, referee_enrollment # None PROVE Sound(Registered)
  BY <1>0, <1>12, RefereeInputs, RegisterSound
  DEF Registering, RefereeTakes, Registered, RefereeObjects
<1>13. CASE RefereeRegisters
  BY <1>0, <1>12, <1>13, SoundExists DEF RefereeRegisters, RefereeObjects
<1>14. CASE RefereeCloses
  <2>1. Sound(Registered)
    BY <1>12, <1>14 DEF RefereeCloses
  <2>2. referee_roster' # None /\ referee_enrollment' = None
    BY <1>14, <2>1, FinaliseRosterOf DEF RefereeCloses
  <2>3. UNCHANGED <<enrollment, ref_input, pending>> /\ to_referee' = Tail(to_referee)
    BY <1>14 DEF RefereeCloses, Registering, RefereeTakes
  <2> QED
    BY <1>2, <1>14, <2>2, <2>3, ClosesInStep DEF RefereeCloses, RefereeObjects
<1> QED
  BY <1>3, <1>4, <1>5, <1>6, <1>7, <1>8, <1>9, <1>10, <1>11, <1>13, <1>14
  DEF Effect, ServerEffect

\* Accepted, sent, passed on or processed, every registration is one that both
\* programs accept, in the same order.
LEMMA NextInStep == ASSUME IInv, Effect PROVE InStep'
<1> USE DEF Elsewhere, refereeVars, ServerStays, RefereeStays, Queues
<1>0. /\ Typed
      /\ to_referee \in Seq(Message) /\ ref_input \in Seq(Message)
      /\ Letters \in Seq(Message) /\ UnderWay \in Seq(Message)
      /\ to_referee \o ref_input \in Seq(Message)
  BY QueuesOfMessages, ConcatProperties DEF IInv
<1> SUFFICES ASSUME referee_roster' = None, ~referee_halted'
             PROVE  ReplayGives(referee_enrollment', UnderWay', enrollment')
  BY DEF InStep
<1>1. ASSUME UNCHANGED <<referee_roster, referee_halted>>
      PROVE  /\ roster = None /\ referee_roster = None
             /\ ReplayGives(referee_enrollment, UnderWay, enrollment)
  BY <1>1 DEF IInv, ServerObjects, InStep
<1>2. ASSUME UNCHANGED pending PROVE Letters' = Letters
  BY <1>2 DEF Letters
<1>3. CASE \/ Quiet \/ Late
           \/ PassesToServer \/ Delivers \/ Judges
  <2>1. UNCHANGED <<to_referee, ref_input, pending, enrollment, referee_enrollment,
                    referee_roster, referee_halted>>
    BY <1>3 DEF Quiet, Late, PassesToServer, Delivers, Judges
  <2> QED
    BY <1>1, <1>2, <2>1 DEF UnderWay
<1>4. ASSUME NEW c \in Client, NEW q \in Request, Enrols(c, q)
      PROVE  ReplayGives(referee_enrollment', UnderWay', enrollment')
  <2> DEFINE m == [type |-> "registration", client |-> c, request |-> q]
  <2>1. m \in Message
    BY DEF Message, RefInput
  <2>2. UnderWay' = Append(UnderWay, m)
    BY <1>0, <1>4, <2>1, OneLetter DEF Enrols
  <2>3. /\ Processed(enrollment, m) = enrollment'
        /\ register_result(enrollment, m.request) = "success"
    BY <1>4 DEF Enrols, Processed
  <2> HIDE DEF m
  <2>4. ReplayGives(referee_enrollment, UnderWay, enrollment)
    BY <1>1, <1>4 DEF Enrols
  <2>5. ReplayGives(referee_enrollment, Append(UnderWay, m), Processed(enrollment, m))
    BY <1>0, <2>1, <2>3, <2>4, ReplayOneMore
  <2> QED
    BY <1>4, <2>2, <2>3, <2>5 DEF Enrols
<1>5. ASSUME NEW c \in Client, NEW error \in RegisterError, Refuses(c, error)
      PROVE  ReplayGives(referee_enrollment', UnderWay', enrollment')
  <2> DEFINE m == [type |-> "regError", to |-> c, error |-> error]
  <2>1. m \in Message
    BY DEF Message, ServerTransaction
  <2>2. UnderWay' = Append(UnderWay, m)
    BY <1>0, <1>5, <2>1, OneLetter DEF Refuses
  <2>3. Processed(enrollment, m) = enrollment /\ m.type # "registration"
    BY DEF Processed
  <2> HIDE DEF m
  <2>4. ReplayGives(referee_enrollment, UnderWay, enrollment)
    BY <1>1, <1>5 DEF Refuses
  <2>5. ReplayGives(referee_enrollment, Append(UnderWay, m), Processed(enrollment, m))
    BY <1>0, <2>1, <2>3, <2>4, ReplayOneMore
  <2> QED
    BY <1>5, <2>2, <2>3, <2>5 DEF Refuses
<1>6. CASE Finalises \/ FinaliseFails
  BY <1>6, AnnouncedInTime DEF Finalises, FinaliseFails, TakesAnnouncement
<1>7. CASE Pings
  BY <1>1, <1>7 DEF Pings, IInv, ServerObjects
<1>8. CASE Sends
  <2>1. /\ Letters # <<>> /\ Head(Letters) = Head(pending).msg
        /\ Letters' = Tail(Letters) /\ Head(pending) \in Outgoing
    BY <1>0, <1>8, LetterSent DEF Sends, Typed, HandleTyped
  <2>2. UNCHANGED <<enrollment, referee_enrollment, referee_roster, referee_halted,
                    to_referee>>
    BY <1>8 DEF Sends
  <2>3. CASE ref_input' = Append(ref_input, Head(Letters))
    <3>1. ref_input' \o Letters' = ref_input \o Letters
      BY <1>0, <2>1, <2>3, HeadMovesOver
    <3>2. ref_input' \in Seq(Message) /\ Letters' \in Seq(Message)
      BY <1>0, <2>1, <2>3, AcksMoved, AcksTaken
    <3>3. (to_referee \o ref_input) \o Letters = to_referee \o (ref_input \o Letters)
      BY <1>0, ConcatAssociative
    <3>4. (to_referee \o ref_input') \o Letters' = to_referee \o (ref_input' \o Letters')
      <4>1. to_referee \in Seq(Message)
        BY <1>0
      <4> HIDE DEF Message
      <4> QED
        BY ONLY <3>2, <4>1, ConcatAssociative
    <3>5. UnderWay' = UnderWay
      BY <2>2, <3>1, <3>3, <3>4 DEF UnderWay
    <3> QED
      BY <1>1, <2>2, <3>5
  <2>4. CASE Head(pending).queue # "ref_input"
    <3>1. Head(Letters) \in Message /\ Head(Letters).type # "registration"
      BY <2>1, <2>4 DEF Outgoing, Message, ServerStatus, ServerTransaction
    <3>2. ref_input' = ref_input
      BY <1>8, <2>4 DEF Sends
    <3>3. Len(Letters) = 1
      <4>1. Len(pending) <= 1
        BY <1>1, <2>2 DEF IInv, AcksInOrder
      <4>2. Len(Letters) = Len(pending) /\ Len(Letters) \in Nat \ {0}
        BY <1>0, <2>1, QueuesOfMessages, LenProperties, EmptySeq
      <4> QED
        BY <4>1, <4>2
    <3>4. Letters = <<Head(Letters)>> /\ Letters' = <<>>
      <4>1. Letters[1] = Head(Letters) /\ Len(Tail(Letters)) = 0
        BY <1>0, <2>1, <3>3, HeadTailProperties
      <4>2. Letters \in Seq(Message) /\ Tail(Letters) \in Seq(Message)
        BY <1>0, <2>1, HeadTailProperties
      <4>3. Tail(Letters) = <<>>
        BY ONLY <4>1, <4>2, EmptySeq
      <4>4. <<Head(Letters)>> \in Seq(Message)
        BY <3>1
      <4>5. Letters = <<Head(Letters)>>
        BY ONLY <3>3, <4>1, <4>2, <4>4, SeqEqual
      <4> QED
        BY <2>1, <4>3, <4>5
    <3> DEFINE m == Head(Letters)
               both == to_referee \o ref_input
    <3>5. UnderWay = Append(both, m) /\ UnderWay' = both
      <4>1. UnderWay = both \o <<m>> /\ UnderWay' = both \o <<>>
        BY <2>2, <3>2, <3>4 DEF UnderWay
      <4> QED
        BY <1>0, <3>1, <4>1, AppendIsConcat, ConcatEmptySeq
    <3>6. both \in Seq(Message) /\ m \in Message /\ m.type # "registration"
      BY <1>0, <3>1
    <3> HIDE DEF m, both
    <3>7. ReplayGives(referee_enrollment, Append(both, m), enrollment)
      BY <1>1, <2>2, <3>5
    <3>8. ReplayGives(referee_enrollment, both, enrollment)
      BY <3>6, <3>7, ReplayOneLess
    <3> QED
      BY <2>2, <3>5, <3>8
  <2> QED
    BY <1>8, <2>1, <2>3, <2>4 DEF Sends
<1>9. CASE PassesToReferee
  <2>1. /\ ref_input # <<>> /\ ref_input' = Tail(ref_input)
        /\ to_referee' = Append(to_referee, Head(ref_input))
        /\ UNCHANGED <<enrollment, referee_enrollment, referee_roster, referee_halted,
                       pending>>
    BY <1>9 DEF PassesToReferee
  <2>2. to_referee' \o ref_input' = to_referee \o ref_input
    BY <1>0, <2>1, HeadMovesOver
  <2>3. UnderWay' = UnderWay
    BY <1>2, <2>1, <2>2 DEF UnderWay
  <2> QED
    BY <1>1, <2>1, <2>3
<1>10. CASE RefereeSkips \/ RefereeRegisters
  <2>1. /\ to_referee # <<>> /\ to_referee' = Tail(to_referee)
        /\ UNCHANGED <<enrollment, referee_roster, referee_halted, ref_input, pending>>
    BY <1>10 DEF RefereeSkips, RefereeRegisters, Registering, RefereeTakes
  <2>2. /\ UnderWay # <<>> /\ UnderWay' = Tail(UnderWay)
        /\ Head(UnderWay) = Head(to_referee)
    BY <1>0, <1>2, <2>1, FirstUnderWay DEF UnderWay
  <2>3. Processed(referee_enrollment, Head(UnderWay)) = referee_enrollment'
    BY <1>10, <2>2
    DEF RefereeSkips, RefereeRegisters, Registering, RefereeTakes, Registered, Processed
  <2>4. ReplayGives(Processed(referee_enrollment, Head(UnderWay)), Tail(UnderWay),
                    enrollment)
    BY <1>0, <1>1, <2>1, <2>2, ReplayTakes
  <2> QED
    BY <2>1, <2>2, <2>3, <2>4
<1>11. CASE RefereeCloses
  <2>1. Sound(Registered)
    BY <1>0, <1>11, RefereeInputs, RegisterSound
    DEF RefereeCloses, Registering, RefereeTakes, Registered, IInv, RefereeObjects
  <2> QED
    BY <1>11, <2>1, FinaliseRosterOf DEF RefereeCloses
<1>12. CASE RefereeHalts
  BY <1>12 DEF RefereeHalts
<1> QED
  BY <1>3, <1>4, <1>5, <1>6, <1>7, <1>8, <1>9, <1>10, <1>11, <1>12
  DEF Effect, ServerEffect

\* The acknowledgements of a new roster are true of it and apart.
LEMMA NewAcks ==
  ASSUME NEW r \in RosterType, pending' = RegAcks(r)
  PROVE  TrueAcks(r, Letters') /\ Distinct(Letters')
<1>1. Len(pending') \in Nat /\ Letters' = [i \in 1..Len(pending') |-> pending'[i].msg]
  BY AcksOfRoster, LenProperties DEF Letters
<1>2. Len(Letters') = Len(pending')
  BY <1>1
<1>3. \A i \in 1..Len(Letters') :
          /\ i - 1 \in PlayerId /\ PlaceOf(Letters'[i]) = i - 1
          /\ Letters'[i].to = r.players[i - 1] /\ Letters'[i].ptype = "outField"
  BY <1>1, <1>2, AcksOfRoster
<1>4. r # None
  BY RosterAssumption
<1>5. TrueAcks(r, Letters')
  BY <1>3, <1>4 DEF TrueAcks, AcksOf
<1>6. Distinct(Letters')
  BY <1>1, <1>2, <1>3 DEF Distinct, AcksOf
<1> QED
  BY <1>5, <1>6

\* Acknowledgements are made once, of the roster, and each goes its way alone.
LEMMA NextAcks == ASSUME IInv, Effect PROVE AcksInOrder'
<1> USE DEF Elsewhere, refereeVars, ServerStays, RefereeStays, Queues
<1>0. /\ Typed /\ AcksInOrder
      /\ server_trans \in Seq(Message) /\ Letters \in Seq(Message)
      /\ \A c \in Client : delivered[c] \in Seq(Message)
  BY QueuesOfMessages DEF IInv
<1>1. CASE \/ Quiet \/ Late
           \/ PassesToReferee \/ PassesToServer \/ Judges
           \/ RefereeSkips \/ RefereeRegisters \/ RefereeCloses \/ RefereeHalts
  <2>1. UNCHANGED <<roster, server_trans, delivered, pending>>
    BY <1>1 DEF Quiet, Late, PassesToReferee, PassesToServer, Judges, RefereeSkips,
       RefereeRegisters, RefereeCloses, RefereeHalts, Registering, RefereeTakes
  <2>2. Letters' = Letters
    BY <2>1 DEF Letters
  <2> QED
    BY <1>0, <2>1, <2>2 DEF AcksInOrder
<1>2. ASSUME AcksOf(Letters') = {}, UNCHANGED <<roster, server_trans, delivered>>,
             roster = None => Len(pending') <= 1
      PROVE  AcksInOrder'
  BY <1>0, <1>2, NoAcks DEF AcksInOrder
<1>3. ASSUME NEW queue, NEW msg \in Message, ~IsAck(msg), pending = <<>>,
             pending' = <<SendTo(queue, msg)>>
      PROVE  AcksOf(Letters') = {} /\ Len(pending') <= 1
  <2>1. Len(pending') = 1 /\ Len(Letters') = 1 /\ Letters'[1] = msg
    BY <1>0, <1>3, OneLetter
  <2> QED
    BY <1>3, <2>1 DEF AcksOf
<1>4. ASSUME NEW c \in Client, NEW q \in Request, Enrols(c, q)
      PROVE  AcksInOrder'
  <2> DEFINE m == [type |-> "registration", client |-> c, request |-> q]
  <2>1. m \in Message /\ ~IsAck(m)
    BY DEF Message, RefInput, IsAck
  <2>2. pending = <<>> /\ pending' = <<SendTo("ref_input", m)>>
    BY <1>4 DEF Enrols
  <2> HIDE DEF m
  <2>3. AcksOf(Letters') = {} /\ Len(pending') <= 1
    BY <1>3, <2>1, <2>2
  <2> QED
    BY <1>2, <1>4, <2>3 DEF Enrols
<1>5. ASSUME NEW c \in Client, NEW error \in RegisterError, Refuses(c, error)
      PROVE  AcksInOrder'
  <2> DEFINE m == [type |-> "regError", to |-> c, error |-> error]
  <2>1. m \in Message /\ ~IsAck(m)
    BY DEF Message, ServerTransaction, IsAck
  <2>2. pending = <<>> /\ pending' = <<SendTo("server_trans", m)>>
    BY <1>5 DEF Refuses
  <2> HIDE DEF m
  <2>3. AcksOf(Letters') = {} /\ Len(pending') <= 1
    BY <1>3, <2>1, <2>2
  <2> QED
    BY <1>2, <1>5, <2>3 DEF Refuses
<1>6. CASE Pings
  <2>1. AcksOf(Letters') = {}
    BY <1>6 DEF Pings, Letters, AcksOf, IsAck
  <2>2. roster # None
    BY <1>6 DEF Pings, IInv, ServerObjects
  <2> QED
    BY <1>2, <1>6, <2>1, <2>2 DEF Pings
<1>7. CASE Finalises
  <2>1. roster = None /\ UNCHANGED <<server_trans, delivered>>
    BY <1>7, AnnouncedInTime DEF Finalises, TakesAnnouncement
  <2>2. AcksOf(server_trans) = {} /\ \A c \in Client : AcksOf(delivered[c]) = {}
    BY <1>0, <2>1 DEF AcksInOrder, TrueAcks
  <2>3. roster' \in RosterType /\ pending' = RegAcks(roster')
    BY <1>7, Finalised DEF Finalises, IInv, ServerObjects
  <2>4. roster' # None
    BY <2>3, RosterAssumption
  <2>5. TrueAcks(roster', Letters') /\ Distinct(Letters')
    BY <2>3, NewAcks
  <2> QED
    BY <2>1, <2>2, <2>4, <2>5, NoAcks DEF AcksInOrder
<1>8. CASE FinaliseFails
  BY <1>8, AnnouncedInTime DEF FinaliseFails
<1>9. CASE Sends
  <2>1. /\ Letters # <<>> /\ Head(Letters) = Head(pending).msg
        /\ Letters' = Tail(Letters) /\ Len(pending') <= Len(pending)
        /\ Len(pending) \in Nat /\ Len(pending') \in Nat
    BY <1>0, <1>9, LetterSent, HeadTailProperties, LenProperties DEF Sends, Typed, HandleTyped
  <2>2. UNCHANGED <<roster, delivered>>
    BY <1>9 DEF Sends
  <2>3. roster' = None => Len(pending') <= 1
    BY <1>0, <2>1, <2>2 DEF AcksInOrder
  <2>4. CASE server_trans' = server_trans
    BY <1>0, <2>1, <2>2, <2>3, <2>4, AcksTaken DEF AcksInOrder
  <2>5. CASE server_trans' = Append(server_trans, Head(Letters))
    <3>1. /\ TrueAcks(roster, Letters) /\ TrueAcks(roster, server_trans)
          /\ Distinct(Letters) /\ Distinct(server_trans) /\ Apart(server_trans, Letters)
      BY <1>0 DEF AcksInOrder
    <3>2. /\ TrueAcks(roster, Letters') /\ TrueAcks(roster, server_trans')
          /\ Distinct(Letters') /\ Distinct(server_trans') /\ Apart(server_trans', Letters')
      BY <1>0, <2>1, <2>5, <3>1, AcksTaken, AcksMoved
    <3>3. ASSUME NEW c \in Client
          PROVE  /\ TrueAcks(roster, delivered[c]) /\ Distinct(delivered[c])
                 /\ Apart(delivered[c], server_trans') /\ Apart(delivered[c], Letters')
      <4>1. /\ TrueAcks(roster, delivered[c]) /\ Distinct(delivered[c])
            /\ Apart(delivered[c], server_trans) /\ Apart(delivered[c], Letters)
        BY <1>0 DEF AcksInOrder
      <4> QED
        BY <1>0, <2>1, <2>5, <4>1, AcksTaken, AcksMoved
    <3> QED
      BY <2>2, <2>3, <3>2, <3>3 DEF AcksInOrder
  <2> QED
    BY <1>9, <2>1, <2>4, <2>5 DEF Sends
<1>10. CASE Delivers
  <2>1. /\ server_trans # <<>> /\ server_trans' = Tail(server_trans)
        /\ UNCHANGED <<roster, pending>> /\ Letters' = Letters
    BY <1>10 DEF Delivers, Letters
  <2>2. /\ TrueAcks(roster, Letters) /\ TrueAcks(roster, server_trans)
        /\ Distinct(Letters) /\ Distinct(server_trans) /\ Apart(server_trans, Letters)
    BY <1>0 DEF AcksInOrder
  <2>3. /\ TrueAcks(roster, server_trans')
        /\ Distinct(server_trans') /\ Apart(server_trans', Letters)
    BY <1>0, <2>1, <2>2, AcksTaken
  <2>4. ASSUME NEW c \in Client
        PROVE  /\ TrueAcks(roster, delivered'[c]) /\ Distinct(delivered'[c])
               /\ Apart(delivered'[c], server_trans') /\ Apart(delivered'[c], Letters)
    <3>1. /\ TrueAcks(roster, delivered[c]) /\ Distinct(delivered[c])
          /\ Apart(delivered[c], server_trans) /\ Apart(delivered[c], Letters)
      BY <1>0 DEF AcksInOrder
    <3>2. delivered'[c] \in {delivered[c], Append(delivered[c], Head(server_trans))}
      BY <1>0, <1>10 DEF Delivers, Typed, WiresTyped
    <3>3. CASE delivered'[c] = delivered[c]
      BY <1>0, <2>1, <3>1, <3>3, AcksTaken
    <3>4. CASE delivered'[c] = Append(delivered[c], Head(server_trans))
      BY <1>0, <2>1, <2>2, <3>1, <3>4, AcksTaken, AcksMoved
    <3> QED
      BY <3>2, <3>3, <3>4
  <2> QED
    BY <1>0, <2>1, <2>2, <2>3, <2>4 DEF AcksInOrder
<1> QED
  BY <1>1, <1>4, <1>5, <1>6, <1>7, <1>8, <1>9, <1>10 DEF Effect, ServerEffect

-----------------------------------------------------------------------------
(* The inductive invariant holds. *)

\* A step of the system keeps every part of the inductive invariant.
LEMMA NextIInv == IInv /\ [Next]_vars => IInv'
<1> SUFFICES ASSUME IInv, [Next]_vars PROVE IInv'
  OBVIOUS
<1>1. Typed /\ Wanted /\ ServerObjects /\ RefereeObjects
  BY DEF IInv
<1>2. Typed' /\ Wanted'
  BY <1>1, NextTyped, NextWanted
<1>3. Effect
  BY <1>1, StepEffect
<1> QED
  BY <1>2, <1>3, NextHalts, NextServerObjects, NextRefereeObjects, NextInStep,
     NextAnnouncements, NextAcks DEF IInv

\* It holds in the initial states.
LEMMA InitIInv == Init => IInv
<1> SUFFICES ASSUME Init PROVE IInv
  OBVIOUS
<1> USE DEF Init, ServerInit, RefereeInit, IoInit
<1> DEFINE rules == [type |-> "rules"]
           letter == [queue |-> "ref_input", msg |-> rules]
<1>1. rules \in Message /\ letter \in Outgoing /\ pending = <<letter>>
  BY DEF Message, RefInput, Outgoing
<1>2. EmptyEnrollment \in EnrollmentType /\ EmptyEnrollment # None
  BY EmptySound, SoundExists DEF Sound
<1>3. Typed
  <2>1. HandleTyped
    <3>1. "current" \in DOMAIN monitor /\ monitor.current \in Clock!SeqNum
      BY ServerAssumption DEF Clock!NewMonitor, Clock!SeqNum
    <3>2. pending \in Seq(Outgoing)
      BY <1>1
    <3>3. /\ state = "waiting" /\ enrollment = EmptyEnrollment /\ roster = None
          /\ game_state = FALSE /\ halted = "no" /\ time \in 0..MaxPings
      BY ServerAssumption
    <3> HIDE DEF Init, ServerInit, RefereeInit, IoInit
    <3> QED
      BY <1>2, <3>1, <3>2, <3>3 DEF HandleTyped
  <2>2. FrameTyped
    BY ServerAssumption DEF FrameTyped
  <2>3. QueuesTyped /\ WiresTyped
    BY DEF QueuesTyped, WiresTyped
  <2>4. RefereeTyped
    BY <1>2 DEF RefereeTyped
  <2> QED
    BY <2>1, <2>2, <2>3, <2>4 DEF Typed
<1>4. Wanted
  BY DEF Wanted, AllWanted
<1>5. Sound(enrollment) /\ Sound(referee_enrollment) /\ EntriesWanted(enrollment)
  BY EmptySound DEF EntriesWanted, EmptyEnrollment
<1>6. ServerObjects
  BY <1>2, <1>5 DEF ServerObjects
<1>7. RefereeObjects
  BY <1>2, <1>5 DEF RefereeObjects
<1>8. Letters = <<rules>> /\ UnderWay = <<rules>>
  BY <1>1 DEF Letters, UnderWay
<1>9. InStep
  <2> DEFINE e == EmptyEnrollment
             msgs == <<rules>>
  <2>1. Len(msgs) = 1 /\ msgs[1] = rules /\ Registrations(msgs) = {}
    BY DEF Registrations
  <2> HIDE DEF msgs
  <2>2. Replay(e, msgs)[0] = e /\ Replay(e, msgs)[1] = Processed(Replay(e, msgs)[1 - 1], msgs[1])
    BY <2>1, ReplaySteps
  <2>3. Replay(e, msgs)[1] = e
    BY <2>1, <2>2 DEF Processed
  <2>4. ReplayGives(e, msgs, e)
    BY <2>1, <2>3 DEF ReplayGives
  <2> QED
    BY <1>8, <2>4 DEF InStep, msgs
<1>10. OnlyLateRequestsHalt /\ AnnouncedOnce
  BY DEF OnlyLateRequestsHalt, AnnouncedOnce, Announcements
<1>11. AcksInOrder
  <2>1. AcksOf(Letters) = {} /\ AcksOf(<<>>) = {} /\ Len(pending) = 1
    BY <1>1, <1>8 DEF AcksOf, IsAck
  <2> HIDE DEF Init, ServerInit, RefereeInit, IoInit
  <2>2. server_trans = <<>> /\ \A c \in Client : delivered[c] = <<>>
    BY DEF Init, ServerInit, IoInit
  <2> QED
    BY <2>1, <2>2, NoAcks DEF AcksInOrder
<1> QED
  BY <1>3, <1>4, <1>6, <1>7, <1>9, <1>10, <1>11 DEF IInv

\* The two programs, their threads and the clients keep the inductive invariant.
THEOREM Invariance == Spec => []IInv
BY InitIInv, NextIInv, PTL DEF Spec

-----------------------------------------------------------------------------
(* What follows from it. *)

\* Every variable has its type: every queue, pipe and wire carries messages of its
\* protocol only.
THEOREM TypeCorrect == Spec => []TypeOK
<1>1. IInv => TypeOK
  <2> SUFFICES ASSUME IInv PROVE TypeOK
    OBVIOUS
  <2> USE DEF IInv, Typed, HandleTyped, FrameTyped, QueuesTyped, WiresTyped, RefereeTyped
  <2>1. \A i \in 1..Len(pending) : pending[i] \in Outgoing
    BY ElementOfSeq
  <2>2. \A i \in 1..Len(pending) :
            \/ pending[i].queue = "ref_input" /\ pending[i].msg \in RefInput
            \/ pending[i].queue = "server_status" /\ pending[i].msg \in ServerStatus
            \/ pending[i].queue = "server_trans" /\ pending[i].msg \in ServerTransaction
    BY <2>1 DEF Outgoing
  <2> QED
    BY <2>2 DEF TypeOK, ServerTypeOK
<1> QED
  BY <1>1, Invariance, PTL

\* Neither program is ended by how the other one reacts to it; a late registration
\* ends the server, and a missing physics engine the referee.
THEOREM HaltsOnlyLate == Spec => []OnlyLateRequestsHalt
<1>1. IInv => OnlyLateRequestsHalt
  BY DEF IInv
<1> QED
  BY <1>1, Invariance, PTL

\* The two enrollments differ by what is under way, and become the same roster.
THEOREM InStepThroughout == Spec => []EnrollmentsInStep
<1>1. IInv => EnrollmentsInStep
  <2> SUFFICES ASSUME IInv PROVE EnrollmentsInStep
    OBVIOUS
  <2>1. roster # None => roster = referee_roster
    BY DEF IInv, ServerObjects
  <2>2. ASSUME ~referee_halted, referee_roster = None
        PROVE  enrollment = Replay(referee_enrollment, UnderWay)[Len(UnderWay)]
    BY <2>2 DEF IInv, InStep, ReplayGives
  <2>3. ASSUME referee_roster # None
        PROVE  /\ Registrations(UnderWay) = {}
               /\ enrollment # None => finalise(enrollment) = referee_roster
    <3>1. /\ to_referee \in Seq(Message) /\ ref_input \in Seq(Message)
          /\ Letters \in Seq(Message) /\ to_referee \o ref_input \in Seq(Message)
      BY QueuesOfMessages, ConcatProperties DEF IInv
    <3>2. NoRegistration(UnderWay)
      BY <2>3, <3>1, ConcatHasNo DEF IInv, RefereeObjects, UnderWay
    <3> QED
      BY <2>3, <3>2 DEF NoRegistration, Registrations, IInv, RefereeObjects
  <2> QED
    BY <2>1, <2>2, <2>3 DEF EnrollmentsInStep
<1> QED
  BY <1>1, Invariance, PTL

\* What is true of the acknowledgements of two queues is true of both read in turn.
LEMMA AcksOfConcat ==
  ASSUME NEW s \in Seq(Message), NEW t \in Seq(Message)
  PROVE  /\ s \o t \in Seq(Message)
         /\ \A r : TrueAcks(r, s) /\ TrueAcks(r, t) => TrueAcks(r, s \o t)
         /\ Distinct(s) /\ Distinct(t) /\ Apart(s, t) => Distinct(s \o t)
         /\ \A u : Apart(s, u) /\ Apart(t, u) => Apart(s \o t, u)
<1> DEFINE v == s \o t
<1>1. /\ v \in Seq(Message) /\ Len(v) = Len(s) + Len(t)
      /\ Len(s) \in Nat /\ Len(t) \in Nat
      /\ \A i \in 1..(Len(s) + Len(t)) : v[i] = IF i <= Len(s) THEN s[i] ELSE t[i - Len(s)]
  BY ConcatProperties, LenProperties
<1> HIDE DEF v
<1>2. \A i \in AcksOf(v) :
          \/ i \in AcksOf(s) /\ v[i] = s[i]
          \/ i \in Int /\ i - Len(s) \in AcksOf(t) /\ v[i] = t[i - Len(s)]
  BY <1>1 DEF AcksOf
<1>3. \A r : TrueAcks(r, s) /\ TrueAcks(r, t) => TrueAcks(r, v)
  BY <1>2 DEF TrueAcks
<1>4. ASSUME Distinct(s), Distinct(t), Apart(s, t) PROVE Distinct(v)
  <2> SUFFICES ASSUME NEW i \in AcksOf(v), NEW j \in AcksOf(v), PlaceOf(v[i]) = PlaceOf(v[j])
               PROVE  i = j
    BY DEF Distinct
  <2>1. CASE i \in AcksOf(s) /\ v[i] = s[i] /\ j \in AcksOf(s) /\ v[j] = s[j]
    BY <1>4, <2>1 DEF Distinct
  <2>2. CASE /\ i \in Int /\ i - Len(s) \in AcksOf(t) /\ v[i] = t[i - Len(s)]
             /\ j \in Int /\ j - Len(s) \in AcksOf(t) /\ v[j] = t[j - Len(s)]
    <3>1. i - Len(s) = j - Len(s)
      BY <1>4, <2>2 DEF Distinct
    <3> QED
      BY <1>1, <2>2, <3>1
  <2> QED
    BY <1>2, <1>4, <2>1, <2>2 DEF Apart
<1>5. \A u : Apart(s, u) /\ Apart(t, u) => Apart(v, u)
  BY <1>2 DEF Apart
<1> QED
  BY <1>1, <1>3, <1>4, <1>5 DEF v

\* A client is only told a place that is its own in the referee's roster and that it
\* asked for, and no place twice.
THEOREM ToldTheTruth == Spec => []AcksTrue
<1>1. IInv => AcksTrue
  <2> SUFFICES ASSUME IInv, NEW c \in Client, NEW i \in 1..Len(MailFor(c)),
                      IsAck(MailFor(c)[i]), MailFor(c)[i].to = c
               PROVE  LET mail == MailFor(c)
                          ack == mail[i]
                      IN  /\ referee_roster # None
                          /\ referee_roster.players[PlaceOf(ack)] = c
                          /\ \E q \in Wants[c] :
                              /\ q.uniform = ack.uniform
                              /\ q.team = referee_roster.teams[ack.side]
                              /\ q.ptype = "goalKeeper"
                                   <=> is_goalkeeper(referee_roster, PlaceOf(ack))
                              /\ ack.ptype \in {q.ptype, "outField"}
                          /\ \A j \in {k \in 1..Len(mail) : IsAck(mail[k]) /\ mail[k].to = c}
                                        \ {i} :
                                PlaceOf(mail[j]) # PlaceOf(ack)
    BY DEF AcksTrue
  <2> DEFINE mail == MailFor(c)
             ack == mail[i]
             id == PlaceOf(ack)
  <2>1. mail \in Seq(Message) /\ TrueAcks(roster, mail) /\ Distinct(mail)
    <3> DEFINE both == delivered[c] \o server_trans
    <3>1. /\ delivered[c] \in Seq(Message) /\ server_trans \in Seq(Message)
          /\ Letters \in Seq(Message)
      BY QueuesOfMessages DEF IInv
    <3>2. both \in Seq(Message) /\ TrueAcks(roster, both) /\ Distinct(both)
          /\ Apart(both, Letters)
      BY <3>1, AcksOfConcat DEF IInv, AcksInOrder
    <3>3. mail = both \o Letters
      BY DEF MailFor
    <3> HIDE DEF mail, both
    <3> QED
      BY <3>1, <3>2, <3>3, AcksOfConcat DEF IInv, AcksInOrder
  <2>2. i \in AcksOf(mail) /\ IsAck(ack) /\ ack.to = c
    BY DEF AcksOf
  <2>3. \A j \in 1..Len(mail) : j # i /\ IsAck(mail[j]) => PlaceOf(mail[j]) # id
    BY <2>1, <2>2 DEF Distinct, AcksOf
  <2>4. ack \in Message /\ ack.type = "regAck"
    BY <2>1, <2>2, ElementOfSeq DEF IsAck
  <2> HIDE DEF mail, ack
  <2>5. ack.uniform \in Uniform /\ ack.side \in Side
    BY <2>4 DEF Message, RefInput, ServerStatus, ServerTransaction
  <2> HIDE DEF id
  <2>6. /\ id \in PlayerId
        /\ id_to_uniform(id) = [uniform |-> ack.uniform, side |-> ack.side]
    BY <2>5, UniformOfId DEF id, PlaceOf
  <2>7. roster # None /\ roster.players[id] = c /\ ack.ptype = "outField"
    BY <2>1, <2>2 DEF TrueAcks, ack, id
  <2>8. roster = referee_roster /\ PlacesWanted(roster)
    BY <2>7 DEF IInv, ServerObjects
  <2>9. PICK q \in Wants[c] :
            /\ SlotOf(q) = <<roster.teams[id_to_uniform(id).side], id_to_uniform(id).uniform>>
            /\ q.ptype = "goalKeeper" <=> is_goalkeeper(roster, id)
    BY <2>6, <2>7, <2>8 DEF PlacesWanted
  <2>10. q.uniform = ack.uniform /\ q.team = roster.teams[ack.side]
    BY <2>6, <2>9 DEF SlotOf
  <2> QED
    BY <2>3, <2>7, <2>8, <2>9, <2>10 DEF mail, ack, id
<1> QED
  BY <1>1, Invariance, PTL

-----------------------------------------------------------------------------
(* The two programs implement the registration book.  Every effect is mapped   *)
(* to a step of the book: Enrols to Claim, RefereeCloses to Close, the sending *)
(* of an acknowledgement to Tell, and every other to no change.                *)

TheBook == [s \in Slot |-> BookEntry(s)]
Closed == referee_roster # None
Told == IF roster = None THEN {} ELSE PlayerId \ StillToTell

\* The slots are the places of the book, and those of the acknowledgements among the
\* letters are still to be told.
LEMMA TheBookIs ==
  ASSUME Typed
  PROVE  /\ \A s \in Slot : TheBook[s] = BookEntry(s)
         /\ Slot = Team \X Uniform
         /\ StillToTell = {PlaceOf(Letters[i]) : i \in AcksOf(Letters)}
<1>1. Len(Letters) = Len(pending)
  BY QueuesOfMessages
<1> QED
  BY <1>1 DEF TheBook, Slot, StillToTell, AcksOf

\* The book counts as everyone does.
LEMMA BookCounts == \A S : Book!Cardinality(S) = Cardinality(S)
BY DEF Cardinality, Book!Cardinality

\* Nothing is told by a step that leaves the roster and the acknowledgements.
LEMMA BookStays ==
  ASSUME UNCHANGED <<enrollment, roster, referee_roster>>, StillToTell' = StillToTell
  PROVE  UNCHANGED Book!vars
<1>1. \A s \in Slot : BookEntry(s)' = BookEntry(s)
  BY DEF BookEntry
<1> QED
  BY <1>1 DEF Book!vars

\* An accepted registration claims a place in the book.
LEMMA EnrolsClaims ==
  ASSUME IInv, NEW c \in Client, NEW q \in Request, Enrols(c, q)
  PROVE  Book!Claim(c, q.team, q.uniform, q.ptype)
<1> DEFINE entry == [id |-> c, ptype |-> q.ptype]
<1>1. /\ Sound(enrollment) /\ enrollment # None /\ roster = None
      /\ enrollment' = enrol(enrollment, c, q)
      /\ UNCHANGED <<roster, referee_roster>>
  BY DEF IInv, ServerObjects, Enrols, Elsewhere, refereeVars, register_client
<1>2. ~TeamSlotTaken(enrollment, q) /\ ~UniformTaken(enrollment, q)
      /\ ~GoalieTaken(enrollment, q)
  BY RegisterSuccess DEF Enrols
<1>3. /\ enrollment'.slot = [enrollment.slot EXCEPT ![SlotOf(q)] = entry]
      /\ enrollment'.opened = enrollment.opened \cup {q.team}
      /\ SlotOf(q) \in Slot /\ enrollment.slot \in [Slot -> Entry \cup {None}]
  BY <1>1, <1>2, EnrolSlots DEF Sound, EnrollmentType
<1>4. Sound(enrollment') /\ enrollment' # None
  BY <1>1, RegisterSound, SoundExists DEF Enrols
<1>5. TheBook = enrollment.slot /\ TheBook' = enrollment'.slot
  BY <1>1, <1>3, <1>4 DEF TheBook, BookEntry, Sound, EnrollmentType
<1>6. /\ q.team \in Team /\ q.uniform \in Uniform /\ SlotOf(q) = <<q.team, q.uniform>>
  BY DEF Request, SlotOf
<1>7. referee_roster = None
  BY AcceptsInTime
<1>8. TheBook[<<q.team, q.uniform>>] = None
  BY <1>2, <1>5, <1>6 DEF UniformTaken
<1>9. Cardinality({t \in Team : \E u \in Uniform : TheBook[<<t, u>>] # None}
                  \cup {q.team}) <= 2
  <2> DEFINE teams == {t \in Team : \E u \in Uniform : TheBook[<<t, u>>] # None}
  <2>1. teams \subseteq enrollment.opened
    <3> SUFFICES ASSUME NEW t \in Team, NEW u \in Uniform, enrollment.slot[<<t, u>>] # None
                 PROVE  t \in enrollment.opened
      BY <1>5
    <3>1. <<t, u>> \in Slot /\ <<t, u>>[1] = t
      BY DEF Slot
    <3> QED
      BY <1>1, <3>1 DEF Sound
  <2> HIDE DEF teams
  <2>2. teams \cup {q.team} \in SUBSET enrollment'.opened
    BY <1>3, <2>1
  <2>3. /\ IsFiniteSet(enrollment'.opened) /\ Cardinality(enrollment'.opened) <= 2
        /\ Cardinality(enrollment'.opened) \in Nat
    BY <1>4, FS_CardinalityType DEF Sound, MaxClubCount
  <2>4. /\ Cardinality(teams \cup {q.team}) <= Cardinality(enrollment'.opened)
        /\ Cardinality(teams \cup {q.team}) \in Nat
    BY <2>2, <2>3, FS_Subset, FS_CardinalityType
  <2> QED
    BY <2>3, <2>4 DEF teams
<1>10. q.ptype = "goalKeeper" =>
         \A u \in Uniform : TheBook[<<q.team, u>>] # None =>
             TheBook[<<q.team, u>>].ptype # "goalKeeper"
  BY <1>2, <1>5 DEF GoalieTaken, HasGoalkeeper, IsGoalkeeper
<1>11. TheBook' = [TheBook EXCEPT ![<<q.team, q.uniform>>] = entry]
  BY <1>3, <1>5, <1>6
<1>12. UNCHANGED <<Closed, Told>>
  BY <1>1 DEF Closed, Told
<1>13. Cardinality(Book!TeamsInBook \cup {q.team}) <= 2
  BY <1>9 DEF Book!TeamsInBook, Book!Claimed, TheBook
<1>14. ~Book!Claimed(q.team, q.uniform)
  BY <1>8 DEF Book!Claimed, TheBook
<1>15. q.ptype = "goalKeeper" =>
         \A u \in Uniform : Book!Claimed(q.team, u) =>
             TheBook[<<q.team, u>>].ptype # "goalKeeper"
  BY <1>10 DEF Book!Claimed, TheBook
<1> QED
  BY <1>7, <1>11, <1>12, <1>13, <1>14, <1>15, BookCounts DEF Book!Claim, TheBook, Closed, Told

\* The registration that fills the referee's enrollment closes the book.
LEMMA ClosesBook ==
  ASSUME IInv, RefereeCloses
  PROVE  Book!Close
<1>1. /\ referee_roster = None /\ roster = None
      /\ UNCHANGED <<enrollment, roster, pending>>
      /\ is_full(Registered) /\ referee_roster' = finalise(Registered)
  BY DEF IInv, ServerObjects, RefereeObjects, RefereeCloses, Registering, RefereeTakes,
         ServerStays
<1>2. enrollment = Registered /\ enrollment # None /\ Sound(enrollment)
  BY <1>1, ClosesInStep DEF IInv, ServerObjects
<1>3. referee_roster' # None
  BY <1>1, <1>2, FinaliseRosterOf
<1>4. TheBook = enrollment.slot /\ enrollment.opened \subseteq Team
  BY <1>2 DEF TheBook, BookEntry, Sound, EnrollmentType
<1>5. {t \in Team : \E u \in Uniform : TheBook[<<t, u>>] # None} = enrollment.opened
  <2>1. ASSUME NEW t \in Team, NEW u \in Uniform, enrollment.slot[<<t, u>>] # None
        PROVE  t \in enrollment.opened
    <3>1. <<t, u>> \in Slot /\ <<t, u>>[1] = t
      BY DEF Slot
    <3> QED
      BY <1>2, <2>1, <3>1 DEF Sound
  <2>2. ASSUME NEW t \in enrollment.opened
        PROVE  \E u \in Uniform : enrollment.slot[<<t, u>>] # None
    <3>1. 1 \in Uniform
      BY RosterAssumption DEF Uniform
    <3> QED
      BY <1>1, <1>2, <3>1 DEF is_full
  <2> QED
    BY <1>4, <2>1, <2>2
<1>6. /\ Cardinality(enrollment.opened) = 2
      /\ \A t \in enrollment.opened, u \in Uniform : TheBook[<<t, u>>] # None
  BY <1>1, <1>2, <1>4 DEF is_full, MaxClubCount
<1>7. TheBook' = TheBook /\ Told' = Told
  BY <1>1 DEF TheBook, BookEntry, Told
<1>8. Book!TeamsInBook = enrollment.opened
  BY <1>5 DEF Book!TeamsInBook, Book!Claimed, TheBook
<1>9. \A t \in Book!TeamsInBook, u \in Uniform : Book!Claimed(t, u)
  BY <1>6, <1>8 DEF Book!Claimed, TheBook
<1>10. Cardinality(Book!TeamsInBook) = 2
  BY <1>6, <1>8
<1> QED
  BY <1>1, <1>3, <1>7, <1>9, <1>10, BookCounts DEF Book!Close, TheBook, Told

\* What the server's roster says of a place is what its enrollment said.
LEMMA FinalisedEntry ==
  ASSUME NEW e, Sound(e), is_full(e), NEW r, r = finalise(e), NEW s \in Slot
  PROVE  e.slot[s] = RosterEntry(r, s)
<1>1. /\ r.teams = SideTeam(e)
      /\ \A id \in PlayerId :
          /\ EntryAt(e, id) \in Entry
          /\ r.players[id] = EntryAt(e, id).id
          /\ is_goalkeeper(r, id) <=> IsGoalkeeper(EntryAt(e, id))
  BY Finalised
<1>2. s[2] \in Uniform /\ s = <<s[1], s[2]>>
  BY DEF Slot
<1>3. CASE \E side \in Side : r.teams[side] = s[1]
  <2> DEFINE side == CHOOSE x \in Side : r.teams[x] = s[1]
             id == uniform_to_id(s[2], side)
  <2>1. side \in Side /\ r.teams[side] = s[1]
    BY <1>3
  <2> HIDE DEF side
  <2>2. id \in PlayerId /\ id_to_uniform(id) = [uniform |-> s[2], side |-> side]
    BY <1>2, <2>1, UniformOfId
  <2> HIDE DEF id
  <2>3. EntryAt(e, id) = e.slot[<<SideTeam(e)[side], s[2]>>]
    <3>1. id_to_uniform(id).side = side /\ id_to_uniform(id).uniform = s[2]
      BY <2>2
    <3>2. EntryAt(e, id) =
            e.slot[<<SideTeam(e)[id_to_uniform(id).side], id_to_uniform(id).uniform>>]
      BY <2>2, EntryAtPlace
    <3> QED
      BY <3>1, <3>2
  <2>4. EntryAt(e, id) = e.slot[s] /\ e.slot[s] \in Entry /\ e.slot[s] # None
    BY <1>1, <1>2, <2>1, <2>2, <2>3, RosterAssumption
  <2>5. r.players[id] = e.slot[s].id
    BY <1>1, <2>2, <2>4
  <2>6. is_goalkeeper(r, id) <=> e.slot[s].ptype = "goalKeeper"
    BY <1>1, <2>2, <2>4 DEF IsGoalkeeper
  <2>7. e.slot[s] = [id |-> r.players[id],
                     ptype |-> IF is_goalkeeper(r, id) THEN "goalKeeper" ELSE "outField"]
    BY <2>4, <2>5, <2>6 DEF Entry, PlayerType
  <2> QED
    BY <1>3, <2>7 DEF RosterEntry, side, id
<1>4. CASE ~\E side \in Side : r.teams[side] = s[1]
  <2>1. s[1] \notin e.opened
    BY <1>1, <1>4, FullEntries DEF Side
  <2> QED
    BY <1>4, <2>1 DEF RosterEntry, Sound
<1> QED
  BY <1>3, <1>4

\* roster_finalised leaves the book as it was, with every player still to be told.
LEMMA FinalisesNothing ==
  ASSUME IInv, Finalises
  PROVE  UNCHANGED Book!vars
<1>1. /\ Sound(enrollment) /\ is_full(enrollment) /\ enrollment # None
      /\ roster = None /\ roster' = finalise(enrollment) /\ enrollment' = None
      /\ pending' = RegAcks(roster')
      /\ UNCHANGED referee_roster
  BY AnnouncedInTime
  DEF IInv, ServerObjects, Finalises, TakesAnnouncement, Elsewhere, refereeVars
<1>2. roster' \in RosterType /\ roster' # None
  BY <1>1, Finalised, RosterAssumption
<1>3. ASSUME NEW s \in Slot PROVE BookEntry(s)' = BookEntry(s)
  BY <1>1, <1>3, FinalisedEntry DEF BookEntry
<1>4. TheBook' = TheBook
  BY <1>3 DEF TheBook
<1>5. PlayerId \subseteq StillToTell'
  <2>1. /\ Len(pending') = MaxClubCount * MaxTeamSize
        /\ \A i \in 1..Len(pending') : IsAck(pending'[i].msg) /\ PlaceOf(pending'[i].msg) = i - 1
    BY <1>1, <1>2, AcksOfRoster
  <2>2. MaxClubCount * MaxTeamSize \in Nat
    BY RosterAssumption DEF MaxClubCount
  <2>3. StillToTell' = {PlaceOf(Letters'[i]) : i \in {j \in 1..Len(pending') : IsAck(Letters'[j])}}
    BY DEF StillToTell
  <2>4. \A i \in 1..Len(pending') : Letters'[i] = pending'[i].msg
    BY DEF Letters
  <2>5. \A i \in 1..Len(pending') : IsAck(Letters'[i]) /\ PlaceOf(Letters'[i]) = i - 1
    <3> SUFFICES ASSUME NEW i \in 1..Len(pending')
                 PROVE  IsAck(Letters'[i]) /\ PlaceOf(Letters'[i]) = i - 1
      OBVIOUS
    <3>1. IsAck(pending'[i].msg) /\ PlaceOf(pending'[i].msg) = i - 1
      BY <2>1
    <3>2. Letters'[i] = pending'[i].msg
      BY <2>4
    <3> QED
      BY <3>1, <3>2, Zenon
  <2>6. \A id \in PlayerId : id \in Nat /\ id + 1 \in 1..Len(pending')
    BY <2>1, <2>2 DEF PlayerId
  <2>7. ASSUME NEW id \in PlayerId PROVE id \in StillToTell'
    <3>1. PICK i \in 1..Len(pending') : i - 1 = id
      BY <2>6
    <3>2. IsAck(Letters'[i]) /\ PlaceOf(Letters'[i]) = id
      BY <2>5, <3>1
    <3> QED
      BY <2>3, <3>2
  <2> QED
    BY <2>7
<1>6. Told = {} /\ Told' = {}
  BY <1>1, <1>2, <1>5 DEF Told
<1>7. Closed' = Closed
  BY <1>1 DEF Closed
<1> QED
  BY <1>4, <1>6, <1>7 DEF Book!vars, TheBook, Told, Closed

\* A letter that is sent tells a player its place, or tells nobody anything.
LEMMA SendsTells ==
  ASSUME IInv, Sends
  PROVE  UNCHANGED Book!vars \/ \E player \in PlayerId : Book!Tell(player)
<1>1. /\ Typed /\ TrueAcks(roster, Letters) /\ Distinct(Letters)
      /\ roster # None => roster = referee_roster
      /\ UNCHANGED <<enrollment, roster, referee_roster>>
  BY DEF IInv, AcksInOrder, ServerObjects, Sends, Elsewhere, refereeVars
<1>2. /\ Letters \in Seq(Message) /\ Letters # <<>> /\ Letters' = Tail(Letters)
      /\ pending \in Seq(Outgoing) /\ pending # <<>> /\ pending' = Tail(pending)
  BY <1>1, LetterSent DEF Sends, Typed, HandleTyped
<1> DEFINE ack == Head(Letters)
           player == PlaceOf(ack)
           left == {PlaceOf(Letters'[i]) : i \in AcksOf(Letters')}
<1>3. StillToTell = {PlaceOf(Letters[i]) : i \in AcksOf(Letters)}
  BY <1>1, TheBookIs
<1>4. StillToTell' = left
  <2>1. Len(Letters') = Len(pending')
    BY <1>2, QueuesOfMessages, <1>1, HeadTailProperties
  <2> QED
    BY <2>1 DEF StillToTell, AcksOf
<1>5. /\ ack \in Message /\ ack = Letters[1] /\ Len(Letters) \in Nat \ {0}
      /\ Len(Letters') = Len(Letters) - 1
      /\ \A i \in 1..Len(Letters') : Letters'[i] = Letters[i + 1]
  BY <1>2, HeadTailProperties, LenProperties, EmptySeq
<1>6. \A i \in AcksOf(Letters') :
          i \in Nat /\ i + 1 \in AcksOf(Letters) /\ i + 1 # 1 /\ Letters'[i] = Letters[i + 1]
  BY <1>5 DEF AcksOf
<1>7. \A i \in AcksOf(Letters) : i # 1 =>
          i \in Nat /\ i - 1 \in AcksOf(Letters') /\ Letters'[i - 1] = Letters[i]
  <2> SUFFICES ASSUME NEW i \in AcksOf(Letters), i # 1
               PROVE  i \in Nat /\ i - 1 \in AcksOf(Letters') /\ Letters'[i - 1] = Letters[i]
    OBVIOUS
  <2>1. i \in 1..Len(Letters) /\ IsAck(Letters[i])
    BY DEF AcksOf
  <2>2. i - 1 \in 1..Len(Letters') /\ i - 1 + 1 = i
    BY <1>5, <2>1
  <2> QED
    BY <1>5, <2>1, <2>2 DEF AcksOf
<1>8. CASE ~IsAck(ack)
  <2>1. 1 \notin AcksOf(Letters)
    BY <1>5, <1>8 DEF AcksOf
  <2> HIDE DEF ack, player
  <2>2. StillToTell' = StillToTell
    BY <1>3, <1>4, <1>6, <1>7, <2>1
  <2> QED
    BY <1>1, <2>2, BookStays
<1>9. CASE IsAck(ack)
  <2>1. 1 \in AcksOf(Letters)
    BY <1>5, <1>9 DEF AcksOf
  <2>2. roster # None /\ referee_roster # None
    BY <1>1, <2>1 DEF TrueAcks
  <2>3. player \in PlayerId
    <3>1. ack.uniform \in Uniform /\ ack.side \in Side
      BY <1>5, <1>9 DEF IsAck, Message, RefInput, ServerStatus, ServerTransaction
    <3> QED
      BY <3>1, UniformOfId DEF PlaceOf
  <2>4. player \in StillToTell
    BY <1>3, <1>5, <2>1
  <2>5. \A i \in AcksOf(Letters) : i # 1 => PlaceOf(Letters[i]) # player
    BY <1>1, <1>5, <2>1 DEF Distinct
  <2>6. \A i \in AcksOf(Letters) : PlaceOf(Letters[i]) = IF i = 1 THEN player
                                                         ELSE PlaceOf(Letters[i])
    BY <1>5
  <2> HIDE DEF ack, player
  <2>7. StillToTell' = StillToTell \ {player}
    BY <1>3, <1>4, <1>6, <1>7, <2>5, <2>6
  <2>8. Told = PlayerId \ StillToTell /\ Told' = PlayerId \ StillToTell'
    BY <1>1, <2>2 DEF Told
  <2>9. player \notin Told /\ Told' = Told \cup {player}
    BY <2>3, <2>4, <2>7, <2>8
  <2>10. \A s \in Slot : BookEntry(s)' = BookEntry(s)
    BY <1>1 DEF BookEntry
  <2>11. UNCHANGED <<TheBook, Closed>> /\ Closed
    BY <1>1, <2>2, <2>10 DEF TheBook, Closed
  <2>12. Book!Tell(player)
    BY <2>9, <2>11 DEF Book!Tell, TheBook, Closed, Told
  <2> QED
    BY <2>3, <2>12
<1> QED
  BY <1>8, <1>9

\* A letter that acknowledges nothing changes nothing of what is still to be told.
LEMMA OtherLettersTell ==
  ASSUME IInv,
         Pings \/ \E c \in Client, error \in RegisterError : Refuses(c, error)
  PROVE  UNCHANGED Book!vars
<1>1. pending = <<>> /\ UNCHANGED <<enrollment, roster, referee_roster>>
  BY DEF Pings, Refuses, Elsewhere, refereeVars
<1>2. \A i \in 1..Len(pending') : ~IsAck(Letters'[i])
  <2>1. CASE Pings
    BY <2>1 DEF Pings, Letters, IsAck
  <2>2. ASSUME NEW c \in Client, NEW error \in RegisterError, Refuses(c, error)
        PROVE  \A i \in 1..Len(pending') : ~IsAck(Letters'[i])
    <3> DEFINE msg == [type |-> "regError", to |-> c, error |-> error]
    <3>1. msg \in Message
      BY DEF Message, ServerTransaction
    <3>2. Len(pending') = 1 /\ Letters'[1] = msg
      BY <2>2, <3>1, OneLetter DEF Refuses, IInv
    <3> QED
      BY <3>2 DEF IsAck
  <2> QED
    BY <2>1, <2>2
<1>3. StillToTell = {} /\ StillToTell' = {}
  BY <1>1, <1>2 DEF StillToTell
<1> QED
  BY <1>1, <1>3, BookStays

\* Every step of the system is a step of the book.
LEMMA NextBook == IInv /\ [Next]_vars => [Book!Next]_Book!vars
<1> SUFFICES ASSUME IInv, [Next]_vars PROVE Book!Next \/ UNCHANGED Book!vars
  OBVIOUS
<1>1. Effect
  BY StepEffect DEF IInv
<1>2. ASSUME UNCHANGED <<enrollment, roster, referee_roster, pending>>
      PROVE  UNCHANGED Book!vars
  <2>1. StillToTell' = StillToTell
    BY <1>2 DEF StillToTell, Letters
  <2> QED
    BY <1>2, <2>1, BookStays
<1>3. CASE \/ Quiet \/ Late
           \/ PassesToReferee \/ PassesToServer \/ Delivers \/ Judges
           \/ RefereeSkips \/ RefereeRegisters \/ RefereeHalts
  <2>1. UNCHANGED <<enrollment, roster, referee_roster, pending>>
    BY <1>3 DEF Quiet, Late, PassesToReferee, PassesToServer, Delivers, Judges,
       RefereeSkips, RefereeRegisters, RefereeHalts, Registering, RefereeTakes,
       ServerStays, RefereeStays, Elsewhere, refereeVars
  <2> QED
    BY <1>2, <2>1
<1>4. ASSUME NEW c \in Client, NEW q \in Request, Enrols(c, q)
      PROVE  Book!Next
  <2>1. q.team \in Team /\ q.uniform \in Uniform /\ q.ptype \in PlayerType
    BY DEF Request
  <2>2. Book!Claim(c, q.team, q.uniform, q.ptype)
    BY <1>4, EnrolsClaims
  <2> QED
    BY <2>1, <2>2 DEF Book!Next
<1>5. CASE \/ Pings
           \/ \E c \in Client, error \in RegisterError : Refuses(c, error)
  BY <1>5, OtherLettersTell
<1>6. CASE Finalises
  BY <1>6, FinalisesNothing
<1>7. CASE FinaliseFails
  BY <1>7, AnnouncedInTime DEF FinaliseFails
<1>8. CASE Sends
  BY <1>8, SendsTells DEF Book!Next
<1>9. CASE RefereeCloses
  BY <1>9, ClosesBook DEF Book!Next
<1> QED
  BY <1>1, <1>3, <1>4, <1>5, <1>6, <1>7, <1>8, <1>9 DEF Effect, ServerEffect

\* The book starts empty and open, with nobody told.
LEMMA InitBook == Init => Book!Init
<1> SUFFICES ASSUME Init PROVE Book!Init
  OBVIOUS
<1>1. enrollment = EmptyEnrollment /\ roster = None /\ referee_roster = None
  BY DEF Init, ServerInit, RefereeInit
<1>2. enrollment # None
  BY <1>1, EmptySound, SoundExists
<1>3. \A s \in Slot : BookEntry(s) = None
  BY <1>1, <1>2 DEF BookEntry, EmptyEnrollment
<1>4. TheBook = [s \in Team \X Uniform |-> None]
  BY <1>3 DEF TheBook, Slot
<1> QED
  BY <1>1, <1>4 DEF Book!Init, TheBook

\* A place, once claimed, is its client's own; the book closes only complete and takes
\* no claim after that; each player is told once.  Server and referee implement this
\* between them.
THEOREM BookImplemented == Spec => ImplementsBook
<1>1. Init => Book!Init
  BY InitBook
<1>2. IInv /\ [Next]_vars => [Book!Next]_Book!vars
  BY NextBook
<1> QED
  BY <1>1, <1>2, Invariance, PTL DEF Spec, ImplementsBook, Book!Spec
=============================================================================
