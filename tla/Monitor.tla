------------------------------ MODULE Monitor -------------------------------
(***************************************************************************)
(* The value of server::clock_monitor (server/monitor.hpp, monitor.cxx)    *)
(* and its member functions as operators.                                  *)
(*                                                                         *)
(* A point in time is reduced to what the averages depend on: which ping   *)
(* a pair of times belongs to.  A ping's transmit_time is its number among *)
(* all pings ever sent, and a pong's receive_time and client_current_time  *)
(* are reduced to "sent", the transmit_time of the ping it truly answers.  *)
(* A pair that average_round_trip_time and average_clock_diff add up is    *)
(* then right when the two agree.                                          *)
(***************************************************************************)
EXTENDS Naturals, Sequences, FiniteSetsExt

CONSTANTS
    Endpoint,          \* the endpoints pongs come from
    TargetSampleSize,  \* target_sample_size_, 20 in the program
    SeqModulus         \* number of values of a sequence number, 2^16

ASSUME MonitorAssumption ==
    /\ TargetSampleSize \in Nat \ {0}
    /\ SeqModulus \in Nat \ {0}

SeqNum == 0..(SeqModulus - 1)
Ping == [time: Nat, seq: SeqNum]
Pong == [seq: SeqNum, sent: Nat]

MonitorType ==
    [current: SeqNum, transmitted: Seq(Ping), received: [Endpoint -> Seq(Pong)]]

NewMonitor ==
    [current |-> 0, transmitted |-> <<>>, received |-> [c \in Endpoint |-> <<>>]]

receive_sample_size(m, c) == Len(m.received[c])

\* Faulty variant: the initial value is the least.
oldest_receive_zero(m) == 0

\* The least front sequence number, or the largest number there is.
oldest_receive(m) ==
    Min({Head(m.received[c]).seq : c \in {d \in Endpoint : m.received[d] # <<>>}}
        \cup {SeqModulus - 1})

\* Faulty variant: a ping as old as the oldest pong goes too.
Evict_equal(pings, oldest) ==
    LET stops == {k \in 0..Len(pings) :
                    \/ Len(pings) - k <= TargetSampleSize
                    \/ pings[k + 1].seq > oldest}
    IN  SubSeq(pings, Min(stops) + 1, Len(pings))

\* pop_front until the target is met or the front is not older than "oldest".
Evict(pings, oldest) ==
    LET stops == {k \in 0..Len(pings) :
                    \/ Len(pings) - k <= TargetSampleSize
                    \/ pings[k + 1].seq >= oldest}
    IN  SubSeq(pings, Min(stops) + 1, Len(pings))

record_transmit(m, time) ==
    LET next == (m.current + 1) % SeqModulus
    IN  [m EXCEPT !.current = next,
                  !.transmitted = Evict(Append(@, [time |-> time, seq |-> next]),
                                        oldest_receive(m))]

\* Faulty variant: trimmed before the new pong is counted.
KeepNewest_one_more(pongs) ==
    SubSeq(pongs, IF Len(pongs) > TargetSampleSize + 1
                  THEN Len(pongs) - TargetSampleSize ELSE 1, Len(pongs))

\* The newest TargetSampleSize of the client's pongs are kept.
KeepNewest(pongs) ==
    SubSeq(pongs, IF Len(pongs) > TargetSampleSize
                  THEN Len(pongs) - TargetSampleSize + 1 ELSE 1, Len(pongs))

record_receive(m, c, pong) ==
    [m EXCEPT !.received[c] = KeepNewest(Append(@, pong))]

-----------------------------------------------------------------------------
(* The loop that average_round_trip_time and average_clock_diff share: the  *)
(* pairs <<ping index, pong index>> whose times are added up.  Both then    *)
(* divide by the number of pongs recorded, paired or not.                   *)

\* Faulty variant: neither list waits for the other.
PairedFrom_lockstep(pings, pongs) ==
    {<<i, i>> : i \in {k \in 1..Len(pings) : k <= Len(pongs) /\ pings[k].seq = pongs[k].seq}}

\* How many pongs are paired after n iterations.  Every iteration takes the next ping,
\* and the next pong as well if that is the one it is waiting for.
Paired(pings, pongs) ==
    LET paired[n \in 0..Len(pings)] ==
            IF n = 0 THEN 0
            ELSE LET before == paired[n - 1]
                     waiting == before < Len(pongs)
                 IN  IF waiting /\ pings[n].seq = pongs[before + 1].seq
                     THEN before + 1 ELSE before
    IN  paired

PairedFrom(pings, pongs) ==
    LET paired == Paired(pings, pongs)
    IN  {<<n, paired[n]>> : n \in {k \in 1..Len(pings) : paired[k] # paired[k - 1]}}

\* The average of a client is right: every pong that counts in the divisor
\* was added up, against the ping it answers.
AverageExactFor(m, c) ==
    LET pairs == PairedFrom(m.transmitted, m.received[c])
    IN  \A j \in 1..receive_sample_size(m, c) :
            \E i \in 1..Len(m.transmitted) :
                <<i, j>> \in pairs /\ m.transmitted[i].time = m.received[c][j].sent
=============================================================================
