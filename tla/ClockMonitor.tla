---------------------------- MODULE ClockMonitor ----------------------------
(***************************************************************************)
(* The server's clock monitor at work: ping_timedout sends one ping to     *)
(* every client (server/event.cxx), a client answers each at once          *)
(* (client/event.cxx, received_ping), and received_pong records the        *)
(* answer.  Both directions use send_unreliable on an unordered_mixed      *)
(* channel (client_io.hpp, client_io.cxx, server_io.cxx): an answer may be *)
(* lost, come late or overtake others.  "path" is a client's round trip:   *)
(* the answers to pings that are still under way, in no order.             *)
(***************************************************************************)
EXTENDS Monitor, FiniteSets

CONSTANTS
    MaxTransmits,  \* bound: number of pings sent
    MaxInFlight    \* bound: answers of one client under way

ASSUME ClockMonitorAssumption ==
    /\ MaxTransmits \in Nat
    /\ MaxInFlight \in Nat

VARIABLES monitor, path, time

vars == <<monitor, path, time>>

Init ==
    /\ monitor = NewMonitor
    /\ path = [c \in Endpoint |-> {}]
    /\ time = 0

Stored(m, sent) == \E i \in 1..Len(m.transmitted) : m.transmitted[i].time = sent

\* ping_timedout: record_transmit, then one ping to each client.
ping_timedout ==
    /\ time < MaxTransmits
    /\ \A c \in Endpoint : Cardinality(path[c]) < MaxInFlight
    /\ time' = time + 1
    /\ monitor' = record_transmit(monitor, time + 1)
    /\ path' = [c \in Endpoint |->
                    path[c] \cup {[seq |-> monitor'.current, sent |-> time + 1]}]

received_pong(c, pong) ==
    /\ pong \in path[c]
    /\ monitor' = record_receive(monitor, c, pong)
    /\ path' = [path EXCEPT ![c] = @ \ {pong}]
    /\ UNCHANGED time

\* A ping or its answer is lost on the way.
Lose(c, pong) ==
    /\ pong \in path[c]
    /\ path' = [path EXCEPT ![c] = @ \ {pong}]
    /\ UNCHANGED <<monitor, time>>

Next ==
    \/ ping_timedout
    \/ \E c \in Endpoint : \E pong \in path[c] : received_pong(c, pong) \/ Lose(c, pong)

Spec == Init /\ [][Next]_vars

-----------------------------------------------------------------------------

\* Types; no client's sample exceeds its target.
TypeOK ==
    /\ monitor.current \in SeqNum
    /\ \A i \in 1..Len(monitor.transmitted) : monitor.transmitted[i] \in Ping
    /\ \A c \in Endpoint :
        /\ Len(monitor.received[c]) <= TargetSampleSize
        /\ \A i \in 1..Len(monitor.received[c]) : monitor.received[c][i] \in Pong
        /\ path[c] \subseteq Pong
    /\ time \in 0..MaxTransmits

Recorded(m, c) == {m.received[c][i] : i \in 1..Len(m.received[c])}

\* record_transmit never drops a ping that a recorded pong still has to be compared
\* with, although it looks at one pong of each client only and clients progress at
\* different speeds -- as long as that pong did not come after a newer one that is the
\* client's first on record and that oldest_receive therefore takes for its oldest.
NeededPingKept ==
    [][\A c \in Endpoint : \A pong \in Recorded(monitor, c) \cap Recorded(monitor', c) :
          Stored(monitor, pong.sent) /\ pong.sent >= Head(monitor.received[c]).sent
          => Stored(monitor', pong.sent)]_vars

\* Pings do not pile up: until the numbers wrap around, sending one above the
\* target leaves at the front a ping that is at least as new as a pong some
\* client still has on record.
SpentPingsEvicted ==
    [][time' # time /\ time' < SeqModulus /\ Len(monitor'.transmitted) > TargetSampleSize
        => \E c \in Endpoint : \E pong \in Recorded(monitor', c) :
                pong.sent <= Head(monitor'.transmitted).time]_vars

\* The pings of all the pongs a client has on record are stored.
PingsStored(m, c) == \A pong \in Recorded(m, c) : Stored(m, pong.sent)

\* A client's pongs were recorded in the order of their pings.
RecordedInOrder(m, c) ==
    \A j, k \in 1..Len(m.received[c]) :
        j < k => m.received[c][j].sent < m.received[c][k].sent

\* Until the numbers wrap around, which is as far as record_transmit means to go (its
\* FIXME), a client's averages are over its whole sample, each pong paired with its own
\* ping, exactly when its pongs came in order and none came so late that its ping was
\* evicted -- whatever the pongs of the other clients do.
AverageExactAtFirst ==
    time < SeqModulus =>
        \A c \in Endpoint :
            AverageExactFor(monitor, c)
            <=> PingsStored(monitor, c) /\ RecordedInOrder(monitor, c)
=============================================================================
