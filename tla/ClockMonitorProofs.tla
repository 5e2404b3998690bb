------------------------- MODULE ClockMonitorProofs -------------------------
(***************************************************************************)
(* The clock monitor at work, proved for any number of clients, any target *)
(* sample size, any width of a sequence number, and answers that are lost  *)
(* or overtake one another: no ping is dropped that a pong needs which is  *)
(* not older than the first of its client, pings do not pile up, and until *)
(* the numbers wrap around an average is exact where pongs were recorded   *)
(* in order and their pings are stored, and nowhere else.                  *)
(***************************************************************************)
EXTENDS ClockMonitor, SequenceTheorems, WellFoundedInduction, TLAPS

-----------------------------------------------------------------------------
(* The inductive invariant. *)

MonitorTyped ==
    /\ monitor \in MonitorType
    /\ path \in [Endpoint -> SUBSET Pong]
    /\ time \in Nat /\ time <= MaxTransmits
    /\ monitor.current = time % SeqModulus
    /\ \A c \in Endpoint : Len(monitor.received[c]) <= TargetSampleSize

\* How many pings have been evicted.
Gone(m, now) == now - Len(m.transmitted)

\* The pings held are the newest ones, without a gap, each with its own number.
Contiguous(m, now) ==
    /\ Gone(m, now) \in Nat
    /\ \A i \in 1..Len(m.transmitted) :
        /\ m.transmitted[i].time = Gone(m, now) + i
        /\ m.transmitted[i].seq = m.transmitted[i].time % SeqModulus

\* No ping from the first wrap of the numbers on has ever been evicted.
EarlyEvictions(m, now) == Gone(m, now) = 0 \/ Gone(m, now) <= SeqModulus - 2

\* A pong of a ping sent, with its ping's number.
AnswersPing(pong, now) == pong.sent <= now /\ pong.seq = pong.sent % SeqModulus

\* Pongs on record and under way are such.
Answered(c) ==
    /\ \A i \in 1..Len(monitor.received[c]) : AnswersPing(monitor.received[c][i], time)
    /\ \A pong \in path[c] : AnswersPing(pong, time)

\* One sequence is another without its first d elements.
Suffix(some, all, d) ==
    /\ Len(some) = Len(all) - d
    /\ \A i \in 1..Len(some) : some[i] = all[i + d]

IInv ==
    /\ MonitorTyped
    /\ Contiguous(monitor, time)
    /\ EarlyEvictions(monitor, time)
    /\ \A c \in Endpoint : Answered(c)

-----------------------------------------------------------------------------
(* Induction and least elements, over sets. *)

\* A set with 0 and, with every number, the next one has every number.
LEMMA Induction ==
  ASSUME NEW S, 0 \in S, \A n \in Nat : n \in S => n + 1 \in S
  PROVE  \A n \in Nat : n \in S
<1> SUFFICES ASSUME Nat \ S # {} PROVE FALSE
  OBVIOUS
<1>1. \E x \in Nat \ S : \A y \in Nat \ S : ~(<<y, x>> \in OpToRel(<, Nat))
  BY NatLessThanWellFounded, WFMin, Zenon
<1>2. \E x \in Nat \ S : \A y \in Nat \ S : ~(y < x)
  BY <1>1 DEF OpToRel
<1>3. PICK x \in Nat \ S : \A y \in Nat \ S : ~(y < x)
  BY <1>2
<1>4. x # 0 /\ x - 1 \in Nat
  OBVIOUS
<1>5. x - 1 \in S
  BY <1>3, <1>4
<1>6. x - 1 + 1 \in S
  BY <1>4, <1>5
<1> QED
  BY <1>4, <1>6

\* A set of numbers has a least one.
LEMMA Least ==
  ASSUME NEW S \in SUBSET Nat, S # {}
  PROVE  Min(S) \in S /\ \A n \in S : Min(S) <= n
<1>1. \E x \in S : \A y \in S : ~(<<y, x>> \in OpToRel(<, Nat))
  BY NatLessThanWellFounded, WFMin, Zenon
<1>2. \E x \in S : \A y \in S : ~(y < x)
  BY <1>1 DEF OpToRel
<1>3. \E x \in S : \A y \in S : x =< y
  BY <1>2
<1> QED
  BY <1>3 DEF Min

-----------------------------------------------------------------------------
(* The operators of the monitor. *)

\* The eviction loop takes the first k pings: it stops at the target size or at a ping
\* that is not older, and every ping it took was older.
LEMMA Evicted ==
  ASSUME NEW pings \in Seq(Ping), NEW oldest \in Nat
  PROVE  \E k \in 0..Len(pings) :
            /\ Evict(pings, oldest) = SubSeq(pings, k + 1, Len(pings))
            /\ Len(pings) - k <= TargetSampleSize \/ pings[k + 1].seq >= oldest
            /\ \A i \in 1..k :
                Len(pings) - (i - 1) > TargetSampleSize /\ pings[i].seq < oldest
<1> DEFINE stops == {k \in 0..Len(pings) :
                        \/ Len(pings) - k <= TargetSampleSize
                        \/ pings[k + 1].seq >= oldest}
           k == Min(stops)
<1>1. Len(pings) \in Nat /\ TargetSampleSize \in Nat \ {0}
  BY LenProperties, MonitorAssumption
<1>2. Len(pings) \in stops
  BY <1>1
<1>3. stops \in SUBSET Nat
  OBVIOUS
<1>4. k \in stops /\ \A n \in stops : k <= n
  <2> HIDE DEF stops
  <2> QED
    BY <1>2, <1>3, Least
<1>5. Evict(pings, oldest) = SubSeq(pings, k + 1, Len(pings))
  BY DEF Evict
<1>6. ASSUME NEW i \in 1..k
      PROVE  Len(pings) - (i - 1) > TargetSampleSize /\ pings[i].seq < oldest
  <2>1. k \in 0..Len(pings) /\ i - 1 \in 0..Len(pings) /\ i - 1 < k /\ (i - 1) + 1 = i
    BY <1>1, <1>4
  <2>2. i - 1 \notin stops
    BY <1>4, <2>1
  <2>3. pings[i] \in Ping
    <3>1. k \in 0..Len(pings) /\ i \in 1..k
      BY <1>4
    <3> HIDE DEF k
    <3>2. i \in 1..Len(pings)
      BY <1>1, <3>1
    <3> QED
      BY <3>2, ElementOfSeq
  <2>4. pings[i].seq \in Int
    BY <2>3, MonitorAssumption DEF Ping, SeqNum
  <2> QED
    BY <1>1, <2>1, <2>2, <2>4
<1> HIDE DEF k
<1> QED
  BY <1>4, <1>5, <1>6

\* The oldest pong recorded is the front one of some client, or there is nothing older
\* than the largest number.
LEMMA OldestReceive ==
  ASSUME NEW m \in MonitorType
  PROVE  /\ oldest_receive(m) \in SeqNum
         /\ \A c \in Endpoint :
                m.received[c] # <<>> => oldest_receive(m) <= m.received[c][1].seq
         /\ \/ oldest_receive(m) = SeqModulus - 1
            \/ \E c \in Endpoint :
                m.received[c] # <<>> /\ oldest_receive(m) = m.received[c][1].seq
<1> DEFINE answered == {d \in Endpoint : m.received[d] # <<>>}
           fronts == {Head(m.received[c]).seq : c \in answered}
           all == fronts \cup {SeqModulus - 1}
<1>1. SeqModulus \in Nat \ {0}
  BY MonitorAssumption
<1>2. ASSUME NEW c \in answered
      PROVE  Head(m.received[c]) = m.received[c][1] /\ m.received[c][1].seq \in SeqNum
  <2>1. m.received[c] \in Seq(Pong) /\ m.received[c] # <<>>
    BY DEF MonitorType
  <2>2. Head(m.received[c]) \in Pong
    BY <2>1, HeadTailProperties
  <2>3. Head(m.received[c]) = m.received[c][1]
    BY <2>1
  <2> QED
    BY <2>2, <2>3 DEF Pong
<1>3. all \in SUBSET SeqNum /\ all # {}
  BY <1>1, <1>2 DEF SeqNum
<1>4. SeqNum \subseteq Nat
  BY <1>1 DEF SeqNum
<1>5. Min(all) \in all /\ \A n \in all : Min(all) <= n
  <2> HIDE DEF all
  <2> QED
    BY <1>3, <1>4, Least
<1>6. oldest_receive(m) = Min(all)
  BY DEF oldest_receive
<1> QED
  BY <1>2, <1>3, <1>5, <1>6

\* What is recorded is a suffix, no longer than the target and, if it was within it
\* before, all but at most the first.
LEMMA Newest ==
  ASSUME NEW pongs \in Seq(Pong), Len(pongs) <= TargetSampleSize + 1
  PROVE  \E d \in {0, 1} :
            /\ KeepNewest(pongs) \in Seq(Pong)
            /\ Len(KeepNewest(pongs)) = Len(pongs) - d
            /\ Len(KeepNewest(pongs)) <= TargetSampleSize
            /\ \A i \in 1..Len(KeepNewest(pongs)) : KeepNewest(pongs)[i] = pongs[i + d]
<1> DEFINE d == IF Len(pongs) > TargetSampleSize THEN 1 ELSE 0
           kept == SubSeq(pongs, d + 1, Len(pongs))
<1>1. Len(pongs) \in Nat /\ TargetSampleSize \in Nat \ {0}
  BY LenProperties, MonitorAssumption
<1>2. KeepNewest(pongs) = kept
  <2>1. CASE Len(pongs) > TargetSampleSize
    <3>1. d + 1 = 2 /\ Len(pongs) - TargetSampleSize + 1 = 2
      BY <1>1, <2>1
    <3>2. kept = SubSeq(pongs, 2, Len(pongs))
      BY <3>1
    <3> HIDE DEF d, kept
    <3> QED
      BY <2>1, <3>1, <3>2 DEF KeepNewest
  <2>2. CASE ~(Len(pongs) > TargetSampleSize)
    <3>1. d + 1 = 1
      BY <2>2
    <3>2. kept = SubSeq(pongs, 1, Len(pongs))
      BY <3>1
    <3> HIDE DEF d, kept
    <3> QED
      BY <2>2, <3>2 DEF KeepNewest
  <2> QED
    BY <2>1, <2>2
<1>3. d \in {0, 1} /\ d <= Len(pongs) /\ Len(pongs) - d <= TargetSampleSize
  BY <1>1
<1> HIDE DEF d
<1>4. \A i \in d + 1..Len(pongs) : pongs[i] \in Pong
  BY <1>1, <1>3, ElementOfSeq
<1>5. /\ kept \in Seq(Pong)
      /\ Len(kept) = IF d + 1 <= Len(pongs) THEN Len(pongs) - (d + 1) + 1 ELSE 0
      /\ \A i \in 1..Len(pongs) - (d + 1) + 1 : kept[i] = pongs[d + 1 + i - 1]
  <2>1. d + 1 \in Int /\ Len(pongs) \in Int
    BY <1>1, <1>3
  <2> QED
    BY <1>4, <2>1, SubSeqProperties
<1> HIDE DEF kept
<1>6. Len(kept) = Len(pongs) - d
  BY <1>1, <1>3, <1>5
<1>7. \A i \in 1..Len(kept) : kept[i] = pongs[i + d]
  BY <1>1, <1>3, <1>5, <1>6
<1> QED
  BY <1>2, <1>3, <1>5, <1>6, <1>7

-----------------------------------------------------------------------------
(* Numbers that wrap around. *)

\* Until the numbers wrap, a number is its own.
LEMMA ModSmall ==
  ASSUME NEW d \in Nat \ {0}, NEW n \in Nat
  PROVE  n % d \in 0..(d - 1) /\ (n < d => n % d = n)
OBVIOUS

\* Counting modulo d is counting, and then taking the number modulo d.
LEMMA NextMod ==
  ASSUME NEW d \in Nat \ {0}, NEW n \in Nat
  PROVE  ((n % d) + 1) % d = (n + 1) % d
<1> DEFINE r == n % d
           q == n \div d
<1>1. r \in 0..(d - 1) /\ q \in Int /\ n = q * d + r
  OBVIOUS
<1> HIDE DEF r, q
<1>2. CASE r + 1 < d
  <2>1. (r + 1) % d = r + 1
    BY <1>1, <1>2
  <2>2. n + 1 = q * d + (r + 1)
    BY <1>1
  <2>3. (n + 1) % d = r + 1
    BY <1>1, <1>2, <2>2, SMTT(20)
  <2> QED
    BY <2>1, <2>3 DEF r
<1>3. CASE r + 1 = d
  <2>1. (r + 1) % d = 0
    BY <1>1, <1>3
  <2>2. n + 1 = (q + 1) * d
    BY <1>1, <1>3
  <2>3. (n + 1) % d = 0
    BY <1>1, <2>2, SMTT(20)
  <2> QED
    BY <2>1, <2>3 DEF r
<1> QED
  BY <1>1, <1>2, <1>3

-----------------------------------------------------------------------------
(* Sending and receiving, as steps of a monitor. *)

\* record_transmit keeps the pings in a row, and takes none that is not older than the
\* oldest pong on record, so none from the first wrap of the numbers on.
LEMMA Transmission ==
  ASSUME NEW m \in MonitorType, NEW now \in Nat, m.current = now % SeqModulus,
         Contiguous(m, now), EarlyEvictions(m, now)
  PROVE  LET after == record_transmit(m, now + 1)
         IN  /\ after \in MonitorType
             /\ after.current = (now + 1) % SeqModulus
             /\ after.received = m.received
             /\ Contiguous(after, now + 1)
             /\ EarlyEvictions(after, now + 1)
             /\ Len(after.transmitted) > 0
             /\ \A n \in Gone(m, now) + 1..Gone(after, now + 1) :
                    n <= SeqModulus - 2 /\ n < oldest_receive(m)
             /\ Len(after.transmitted) > TargetSampleSize
                    => after.transmitted[1].seq >= oldest_receive(m)
<1> DEFINE after == record_transmit(m, now + 1)
           next == (m.current + 1) % SeqModulus
           ping == [time |-> now + 1, seq |-> next]
           pings == Append(m.transmitted, ping)
           oldest == oldest_receive(m)
           L == Len(m.transmitted)
           gone == Gone(m, now)
<1>1. SeqModulus \in Nat \ {0} /\ TargetSampleSize \in Nat \ {0}
  BY MonitorAssumption
<1>2. next = (now + 1) % SeqModulus
  BY <1>1, NextMod
<1>3. next \in SeqNum /\ ping \in Ping
  <2>1. (now + 1) % SeqModulus \in 0..(SeqModulus - 1)
    BY <1>1, ModSmall
  <2> QED
    BY <1>2, <2>1 DEF SeqNum, Ping
<1>4. m.transmitted \in Seq(Ping) /\ L \in Nat /\ m.received \in [Endpoint -> Seq(Pong)]
  BY LenProperties DEF MonitorType
<1>5. /\ pings \in Seq(Ping) /\ Len(pings) = L + 1
      /\ \A i \in 1..L : pings[i] = m.transmitted[i]
      /\ pings[L + 1] = ping
  BY <1>3, <1>4, AppendProperties
<1>6. oldest \in 0..(SeqModulus - 1)
  BY OldestReceive DEF SeqNum
<1>7. gone \in Nat /\ gone = now - L
  BY DEF Contiguous, Gone
<1> HIDE DEF next, ping, oldest, L, pings, gone
<1>8. \A i \in 1..L + 1 : /\ pings[i].time = gone + i
                          /\ pings[i].seq = (gone + i) % SeqModulus
  <2>1. ASSUME NEW i \in 1..L
        PROVE  pings[i].time = gone + i /\ pings[i].seq = (gone + i) % SeqModulus
    BY <1>5 DEF Contiguous, gone, L
  <2>2. pings[L + 1].time = gone + (L + 1) /\ pings[L + 1].seq = (gone + (L + 1)) % SeqModulus
    <3>1. gone + (L + 1) = now + 1
      BY <1>4, <1>7
    <3> QED
      BY <1>2, <1>5, <3>1 DEF ping
  <2> QED
    BY <1>4, <2>1, <2>2
<1>9. PICK k \in 0..L + 1 :
        /\ Evict(pings, oldest) = SubSeq(pings, k + 1, L + 1)
        /\ L + 1 - k <= TargetSampleSize \/ pings[k + 1].seq >= oldest
        /\ \A i \in 1..k : L + 1 - (i - 1) > TargetSampleSize /\ pings[i].seq < oldest
  <2>1. oldest \in Nat
    BY <1>1, <1>6
  <2>2. PICK k \in 0..Len(pings) :
            /\ Evict(pings, oldest) = SubSeq(pings, k + 1, Len(pings))
            /\ Len(pings) - k <= TargetSampleSize \/ pings[k + 1].seq >= oldest
            /\ \A i \in 1..k :
                Len(pings) - (i - 1) > TargetSampleSize /\ pings[i].seq < oldest
    BY <1>5, <2>1, Evicted
  <2>3. k \in 0..L + 1 /\ Evict(pings, oldest) = SubSeq(pings, k + 1, L + 1)
    BY <1>4, <1>5, <2>2
  <2>4. L + 1 - k <= TargetSampleSize \/ pings[k + 1].seq >= oldest
    BY <1>4, <1>5, <2>2
  <2>5. \A i \in 1..k : L + 1 - (i - 1) > TargetSampleSize /\ pings[i].seq < oldest
    BY <1>4, <1>5, <2>2
  <2> QED
    BY <2>3, <2>4, <2>5
<1>10. k <= L
  <2>1. k > 0 => L + 1 - (k - 1) > TargetSampleSize
    BY <1>9
  <2> QED
    BY <1>1, <1>4, <1>9, <2>1
<1> DEFINE kept == SubSeq(pings, k + 1, L + 1)
<1>11. /\ kept \in Seq(Ping) /\ Len(kept) = L + 1 - k
       /\ \A i \in 1..L + 1 - k : kept[i] = pings[k + i]
  <2>1. \A i \in k + 1..L + 1 : pings[i] \in Ping
    BY <1>4, <1>5, <1>9, ElementOfSeq
  <2>2. k + 1 \in Int
    BY <1>9
  <2>3. L + 1 \in Int
    BY <1>4
  <2>4. /\ kept \in Seq(Ping)
        /\ Len(kept) = IF k + 1 <= L + 1 THEN (L + 1) - (k + 1) + 1 ELSE 0
        /\ \A i \in 1..(L + 1) - (k + 1) + 1 : kept[i] = pings[(k + 1) + i - 1]
    BY ONLY <2>1, <2>2, <2>3, SubSeqProperties
  <2> HIDE DEF kept
  <2> QED
    BY <1>4, <1>9, <1>10, <2>4
<1> HIDE DEF kept
<1>12. after = [current |-> next, transmitted |-> kept, received |-> m.received]
  <2>1. m = [current |-> m.current, transmitted |-> m.transmitted, received |-> m.received]
    BY DEF MonitorType
  <2>2. after = [m EXCEPT !.current = next, !.transmitted = Evict(pings, oldest)]
    BY DEF record_transmit, next, pings, oldest, ping
  <2>3. Evict(pings, oldest) = kept
    BY <1>9 DEF kept
  <2> QED
    BY <2>1, <2>2, <2>3
<1> HIDE DEF after
<1>13. Gone(after, now + 1) = gone + k
  <2>1. Gone(after, now + 1) = now + 1 - Len(kept)
    BY <1>12 DEF Gone
  <2>2. Len(kept) = L + 1 - k
    BY <1>11
  <2>3. k \in Int
    BY <1>9
  <2> QED
    BY ONLY <1>4, <1>7, <2>1, <2>2, <2>3
<1>14. after \in MonitorType /\ after.current = (now + 1) % SeqModulus
       /\ after.received = m.received
  BY <1>2, <1>3, <1>4, <1>11, <1>12 DEF MonitorType
<1>15. Contiguous(after, now + 1)
  <2>1. gone + k \in Nat
    BY <1>7, <1>9
  <2>2. ASSUME NEW i \in 1..Len(kept)
        PROVE  kept[i].time = gone + k + i /\ kept[i].seq = kept[i].time % SeqModulus
    <3>1. k + i \in 1..L + 1 /\ i \in 1..L + 1 - k
      BY <1>4, <1>9, <1>10, <1>11
    <3>2. kept[i] = pings[k + i] /\ gone + (k + i) = gone + k + i
      BY <1>7, <1>9, <1>11, <3>1
    <3> QED
      BY <1>8, <3>1, <3>2
  <2> QED
    BY <1>12, <1>13, <2>1, <2>2 DEF Contiguous
<1>16. k > 0 => gone + k <= SeqModulus - 2
  <2> SUFFICES ASSUME k > 0, ~(gone + k <= SeqModulus - 2) PROVE FALSE
    OBVIOUS
  <2>1. SeqModulus > 1
    <3>1. 1 \in 1..k /\ 1 \in 1..L + 1
      BY <1>4, <1>9
    <3>2. pings[1].seq < oldest /\ pings[1].seq = (gone + 1) % SeqModulus
      BY <1>8, <1>9, <3>1
    <3>3. (gone + 1) % SeqModulus \in 0..(SeqModulus - 1)
      <4>1. gone + 1 \in Nat
        BY <1>7
      <4> QED
        BY <1>1, <4>1, ModSmall
    <3> QED
      BY <1>1, <1>6, <3>2, <3>3
  <2>2. gone <= SeqModulus - 2
    BY <1>1, <2>1 DEF EarlyEvictions, gone
  <2> DEFINE i == SeqModulus - 1 - gone
  <2>3. i \in 1..k /\ i \in 1..L + 1 /\ gone + i = SeqModulus - 1
    <3>1. gone \in Int /\ k \in Int /\ L \in Int /\ SeqModulus \in Int /\ k <= L + 1
      BY <1>1, <1>4, <1>7, <1>9
    <3>2. gone + k > SeqModulus - 2
      BY <3>1
    <3> QED
      BY <2>2, <3>1, <3>2
  <2>4. pings[i].seq = (SeqModulus - 1) % SeqModulus
    BY <1>8, <2>3
  <2>5. (SeqModulus - 1) % SeqModulus = SeqModulus - 1
    <3>1. SeqModulus - 1 \in Nat /\ SeqModulus - 1 < SeqModulus
      BY <1>1
    <3> QED
      BY <1>1, <3>1, ModSmall
  <2>6. pings[i].seq < oldest
    BY <1>9, <2>3
  <2> QED
    BY <1>1, <1>6, <2>4, <2>5, <2>6
<1>17. EarlyEvictions(after, now + 1)
  BY <1>7, <1>9, <1>13, <1>16 DEF EarlyEvictions, gone
<1>18. ASSUME NEW n \in gone + 1..gone + k
       PROVE  n <= SeqModulus - 2 /\ n < oldest
  <2>1. n - gone \in 1..k /\ n - gone \in 1..L + 1 /\ gone + (n - gone) = n
        /\ k > 0 /\ n \in Nat
    BY <1>4, <1>7, <1>9
  <2>2. n <= SeqModulus - 2
    BY <1>1, <1>7, <1>9, <1>16, <2>1
  <2>3. n % SeqModulus = n
    <3>1. n \in Nat /\ n < SeqModulus
      BY <1>1, <2>1, <2>2
    <3> QED
      BY <1>1, <3>1, ModSmall
  <2>4. pings[n - gone].seq = n % SeqModulus
    BY <1>8, <2>1
  <2>5. pings[n - gone].seq < oldest
    BY <1>9, <2>1
  <2> QED
    BY <2>2, <2>3, <2>4, <2>5
<1>19. Len(after.transmitted) > 0
  BY <1>4, <1>9, <1>10, <1>11, <1>12
<1>20. Len(after.transmitted) > TargetSampleSize => after.transmitted[1].seq >= oldest
  <2>1. kept[1] = pings[k + 1] /\ Len(kept) = L + 1 - k
    BY <1>4, <1>9, <1>10, <1>11
  <2> QED
    BY <1>1, <1>4, <1>9, <1>12, <2>1
<1> QED
  BY <1>13, <1>14, <1>15, <1>17, <1>18, <1>19, <1>20 DEF after, oldest, gone

\* record_receive appends the pong to its client's record, less the first one when the
\* record is full, and touches nothing else.
LEMMA Reception ==
  ASSUME NEW m \in MonitorType, NEW c \in Endpoint, NEW pong \in Pong,
         Len(m.received[c]) <= TargetSampleSize
  PROVE  LET after == record_receive(m, c, pong)
             pongs == Append(m.received[c], pong)
         IN  /\ after \in MonitorType
             /\ after.current = m.current /\ after.transmitted = m.transmitted
             /\ \A e \in Endpoint : e # c => after.received[e] = m.received[e]
             /\ Len(after.received[c]) <= TargetSampleSize
             /\ \E d \in {0, 1} : Suffix(after.received[c], pongs, d)
<1> DEFINE after == record_receive(m, c, pong)
           pongs == Append(m.received[c], pong)
           kept == KeepNewest(pongs)
<1>1. m.received[c] \in Seq(Pong) /\ m.received \in [Endpoint -> Seq(Pong)]
  BY DEF MonitorType
<1>2. pongs \in Seq(Pong) /\ Len(pongs) = Len(m.received[c]) + 1
  BY <1>1, AppendProperties
<1>3. Len(pongs) <= TargetSampleSize + 1
  BY <1>1, <1>2, MonitorAssumption, LenProperties
<1>4. after = [current |-> m.current, transmitted |-> m.transmitted,
               received |-> [m.received EXCEPT ![c] = kept]]
  <2>1. m = [current |-> m.current, transmitted |-> m.transmitted, received |-> m.received]
    BY DEF MonitorType
  <2>2. after = [m EXCEPT !.received[c] = kept]
    BY DEF record_receive
  <2>3. after = [m EXCEPT !.received = [m.received EXCEPT ![c] = kept]]
    BY <2>2
  <2> HIDE DEF after, pongs, kept
  <2> QED
    BY <2>1, <2>3
<1> HIDE DEF after, pongs, kept
<1>5. /\ kept \in Seq(Pong) /\ Len(kept) <= TargetSampleSize
      /\ \E d \in {0, 1} : Suffix(kept, pongs, d)
  <2>1. PICK d \in {0, 1} :
            /\ KeepNewest(pongs) \in Seq(Pong)
            /\ Len(KeepNewest(pongs)) = Len(pongs) - d
            /\ Len(KeepNewest(pongs)) <= TargetSampleSize
            /\ \A i \in 1..Len(KeepNewest(pongs)) : KeepNewest(pongs)[i] = pongs[i + d]
    BY <1>2, <1>3, Newest
  <2> QED
    BY <2>1 DEF kept, Suffix
<1>6. after.received[c] = kept
  BY <1>1, <1>4
<1>7. after \in MonitorType
  BY <1>1, <1>4, <1>5 DEF MonitorType
<1>8. \A e \in Endpoint : e # c => after.received[e] = m.received[e]
  BY <1>1, <1>4
<1>9. after.current = m.current /\ after.transmitted = m.transmitted
  BY <1>4
<1> QED
  BY <1>5, <1>6, <1>7, <1>8, <1>9 DEF after, pongs

-----------------------------------------------------------------------------
(* The invariant holds throughout. *)

\* At first nothing has been sent.
LEMMA InitHolds == Init => IInv
<1> SUFFICES ASSUME Init PROVE IInv
  OBVIOUS
<1> USE DEF Init
<1>1. SeqModulus \in Nat \ {0} /\ TargetSampleSize \in Nat \ {0} /\ MaxTransmits \in Nat
  BY MonitorAssumption, ClockMonitorAssumption
<1>2. 0 % SeqModulus = 0 /\ 0 \in SeqNum
  <2>1. 0 % SeqModulus = 0
    BY <1>1, ModSmall
  <2> QED
    BY <1>1, <2>1 DEF SeqNum
<1>3. Len(<<>>) = 0 /\ <<>> \in Seq(Ping) /\ <<>> \in Seq(Pong)
  OBVIOUS
<1>4. MonitorTyped
  BY <1>1, <1>2, <1>3 DEF MonitorTyped, MonitorType, NewMonitor
<1>5. Contiguous(monitor, time) /\ EarlyEvictions(monitor, time)
  <2>1. Len(monitor.transmitted) = 0 /\ time = 0
    BY <1>3 DEF NewMonitor
  <2>2. Gone(monitor, time) = 0
    BY <2>1 DEF Gone
  <2> QED
    BY <2>1, <2>2 DEF Contiguous, EarlyEvictions
<1>6. \A c \in Endpoint : Answered(c)
  BY <1>3 DEF Answered, NewMonitor
<1> QED
  BY <1>4, <1>5, <1>6 DEF IInv

\* What answers a ping sent by now does so later.
LEMMA AnswersLater ==
  ASSUME NEW pong \in Pong, NEW now \in Nat, AnswersPing(pong, now)
  PROVE  AnswersPing(pong, now + 1)
BY DEF AnswersPing, Pong

\* The answers to a ping to all have its number.
LEMMA TransmitHolds ==
  ASSUME IInv, ping_timedout
  PROVE  IInv'
<1> USE DEF IInv
<1>1. /\ monitor \in MonitorType /\ path \in [Endpoint -> SUBSET Pong] /\ time \in Nat
      /\ monitor.current = time % SeqModulus
      /\ \A c \in Endpoint : Len(monitor.received[c]) <= TargetSampleSize
  BY DEF MonitorTyped
<1>2. SeqModulus \in Nat \ {0} /\ TargetSampleSize \in Nat \ {0} /\ MaxTransmits \in Nat
  BY MonitorAssumption, ClockMonitorAssumption
<1>3. time' = time + 1 /\ monitor' = record_transmit(monitor, time + 1)
  BY DEF ping_timedout
<1>4. /\ monitor' \in MonitorType
      /\ monitor'.current = time' % SeqModulus
      /\ monitor'.received = monitor.received
      /\ Contiguous(monitor', time')
      /\ EarlyEvictions(monitor', time')
  BY <1>1, <1>3, Transmission
<1> DEFINE pong == [seq |-> monitor'.current, sent |-> time + 1]
<1>5. /\ path' = [c \in Endpoint |-> path[c] \cup {pong}]
      /\ time' <= MaxTransmits
  BY <1>1, <1>2, <1>3 DEF ping_timedout
<1>6. pong \in Pong /\ AnswersPing(pong, time')
  BY <1>1, <1>3, <1>4 DEF Pong, MonitorType, AnswersPing
<1> HIDE DEF pong
<1>7. MonitorTyped'
  <2>1. path' \in [Endpoint -> SUBSET Pong]
    BY <1>1, <1>5, <1>6
  <2> QED
    BY <1>1, <1>3, <1>4, <1>5, <2>1 DEF MonitorTyped
<1>8. ASSUME NEW c \in Endpoint
      PROVE  Answered(c)'
  <2>1. monitor.received[c] \in Seq(Pong) /\ path[c] \in SUBSET Pong
    BY <1>1 DEF MonitorType
  <2>2. Answered(c)
    BY DEF IInv
  <2>3. path'[c] = path[c] \cup {pong} /\ monitor'.received[c] = monitor.received[c]
    BY <1>4, <1>5
  <2>4. ASSUME NEW i \in 1..Len(monitor.received[c])
        PROVE  AnswersPing(monitor.received[c][i], time')
    <3>1. monitor.received[c][i] \in Pong
      BY <2>1, ElementOfSeq
    <3> QED
      BY <1>1, <1>3, <2>2, <3>1, AnswersLater DEF Answered
  <2>5. \A p \in path[c] : AnswersPing(p, time')
    BY <1>1, <1>3, <2>1, <2>2, AnswersLater DEF Answered
  <2> QED
    BY <1>6, <2>3, <2>4, <2>5 DEF Answered
<1> QED
  BY <1>4, <1>7, <1>8

\* Any answer under way may be recorded next.
LEMMA ReceiveHolds ==
  ASSUME IInv, NEW c \in Endpoint, NEW pong \in path[c], received_pong(c, pong)
  PROVE  IInv'
<1> USE DEF IInv
<1>1. /\ monitor \in MonitorType /\ path \in [Endpoint -> SUBSET Pong] /\ time \in Nat
      /\ \A e \in Endpoint : Len(monitor.received[e]) <= TargetSampleSize
  BY DEF MonitorTyped
<1> DEFINE before == monitor.received[c]
           pongs == Append(before, pong)
<1>2. /\ time' = time /\ monitor' = record_receive(monitor, c, pong)
      /\ path' = [path EXCEPT ![c] = path[c] \ {pong}]
  BY DEF received_pong
<1>3. before \in Seq(Pong) /\ pong \in Pong
  BY <1>1 DEF MonitorType
<1> HIDE DEF before, pongs
<1>4. /\ monitor' \in MonitorType
      /\ monitor'.current = monitor.current /\ monitor'.transmitted = monitor.transmitted
      /\ \A e \in Endpoint : e # c => monitor'.received[e] = monitor.received[e]
      /\ Len(monitor'.received[c]) <= TargetSampleSize
      /\ \E d \in {0, 1} : Suffix(monitor'.received[c], pongs, d)
  <2> DEFINE after == record_receive(monitor, c, pong)
  <2>1. monitor \in MonitorType /\ pong \in Pong /\ Len(monitor.received[c]) <= TargetSampleSize
    BY <1>1, <1>3
  <2>2. /\ after \in MonitorType
        /\ after.current = monitor.current /\ after.transmitted = monitor.transmitted
        /\ \A e \in Endpoint : e # c => after.received[e] = monitor.received[e]
        /\ Len(after.received[c]) <= TargetSampleSize
        /\ \E d \in {0, 1} : Suffix(after.received[c], Append(monitor.received[c], pong), d)
    BY ONLY c \in Endpoint, <2>1, Reception
  <2>3. monitor' = after /\ pongs = Append(monitor.received[c], pong)
    BY <1>2 DEF pongs, before
  <2> HIDE DEF after
  <2> QED
    BY <2>2, <2>3
<1>5. MonitorTyped'
  <2>1. path' \in [Endpoint -> SUBSET Pong]
    BY <1>1, <1>2
  <2>2. \A e \in Endpoint : Len(monitor'.received[e]) <= TargetSampleSize
    BY <1>1, <1>4
  <2> QED
    BY <1>2, <1>4, <2>1, <2>2 DEF MonitorTyped
<1>6. Contiguous(monitor', time') /\ EarlyEvictions(monitor', time')
  BY <1>2, <1>4 DEF Contiguous, EarlyEvictions, Gone
<1>7. ASSUME NEW e \in Endpoint, e # c
      PROVE  Answered(e)'
  BY <1>1, <1>2, <1>4, <1>7 DEF Answered
<1>8. Answered(c)'
  <2>1. Answered(c) /\ AnswersPing(pong, time)
    BY DEF IInv, Answered
  <2>2. path'[c] \subseteq path[c]
    BY <1>1, <1>2
  <2>3. \A i \in 1..Len(pongs) : AnswersPing(pongs[i], time)
    <3>1. /\ Len(before) \in Nat /\ Len(pongs) = Len(before) + 1
          /\ \A i \in 1..Len(before) : pongs[i] = before[i]
          /\ pongs[Len(before) + 1] = pong
      BY <1>3, AppendProperties, LenProperties DEF pongs
    <3>2. \A i \in 1..Len(before) : AnswersPing(before[i], time)
      BY <2>1 DEF Answered, before
    <3> QED
      BY <2>1, <3>1, <3>2
  <2>4. PICK d \in {0, 1} : Suffix(monitor'.received[c], pongs, d)
    BY <1>4
  <2>5. ASSUME NEW i \in 1..Len(monitor'.received[c])
        PROVE  AnswersPing(monitor'.received[c][i], time)
    <3>1. Len(monitor'.received[c]) = Len(pongs) - d /\ Len(pongs) \in Nat
      BY <1>3, <2>4, AppendProperties, LenProperties DEF Suffix, pongs
    <3>2. i + d \in 1..Len(pongs) /\ monitor'.received[c][i] = pongs[i + d]
      BY <2>4, <3>1 DEF Suffix
    <3> QED
      BY <2>3, <3>2
  <2> QED
    BY <1>2, <2>1, <2>2, <2>5 DEF Answered
<1> QED
  BY <1>5, <1>6, <1>7, <1>8

\* What is lost leaves the rest as it is.
LEMMA LoseHolds ==
  ASSUME IInv, NEW c \in Endpoint, NEW pong \in path[c], Lose(c, pong)
  PROVE  IInv'
<1>1. monitor \in MonitorType /\ path \in [Endpoint -> SUBSET Pong]
  BY DEF IInv, MonitorTyped
<1>2. /\ time' = time /\ monitor' = monitor
      /\ path' = [path EXCEPT ![c] = path[c] \ {pong}]
  BY DEF Lose
<1>3. path' \in [Endpoint -> SUBSET Pong] /\ \A e \in Endpoint : path'[e] \subseteq path[e]
  BY <1>1, <1>2
<1>4. MonitorTyped'
  BY <1>2, <1>3 DEF IInv, MonitorTyped
<1>5. Contiguous(monitor', time') /\ EarlyEvictions(monitor', time')
  BY <1>2 DEF IInv
<1>6. \A e \in Endpoint : Answered(e)'
  BY <1>2, <1>3 DEF IInv, Answered
<1> QED
  BY <1>4, <1>5, <1>6 DEF IInv

\* The inductive invariant, for any number of clients and any losses.
THEOREM Invariance == Spec => []IInv
<1>1. Init => IInv
  BY InitHolds
<1>2. IInv /\ [Next]_vars => IInv'
  <2> SUFFICES ASSUME IInv, [Next]_vars PROVE IInv'
    OBVIOUS
  <2>1. CASE ping_timedout
    BY <2>1, TransmitHolds
  <2>2. CASE \E c \in Endpoint : \E pong \in path[c] : received_pong(c, pong)
    BY <2>2, ReceiveHolds
  <2>3. CASE \E c \in Endpoint : \E pong \in path[c] : Lose(c, pong)
    BY <2>3, LoseHolds
  <2>4. CASE UNCHANGED vars
    BY <2>4 DEF IInv, MonitorTyped, Contiguous, EarlyEvictions, Gone, Answered, vars
  <2> QED
    BY <2>1, <2>2, <2>3, <2>4 DEF Next
<1> QED
  BY <1>1, <1>2, PTL DEF Spec

\* Types, and that no client's sample exceeds its target (KeepNewest, the loop at the end
\* of record_receive).
THEOREM TypeCorrect == Spec => []TypeOK
<1>1. IInv => TypeOK
  <2> SUFFICES ASSUME IInv PROVE TypeOK
    OBVIOUS
  <2>1. /\ monitor \in MonitorType /\ path \in [Endpoint -> SUBSET Pong]
        /\ time \in Nat /\ time <= MaxTransmits
        /\ \A c \in Endpoint : Len(monitor.received[c]) <= TargetSampleSize
    BY DEF IInv, MonitorTyped
  <2>2. /\ monitor.current \in SeqNum /\ monitor.transmitted \in Seq(Ping)
        /\ \A c \in Endpoint : monitor.received[c] \in Seq(Pong)
    BY <2>1 DEF MonitorType
  <2>3. /\ \A i \in 1..Len(monitor.transmitted) : monitor.transmitted[i] \in Ping
        /\ \A c \in Endpoint : \A i \in 1..Len(monitor.received[c]) :
                monitor.received[c][i] \in Pong
        /\ \A c \in Endpoint : path[c] \subseteq Pong
    BY <2>1, <2>2, ElementOfSeq
  <2>4. time \in 0..MaxTransmits
    BY <2>1, ClockMonitorAssumption
  <2> QED
    BY <2>1, <2>2, <2>3, <2>4 DEF TypeOK
<1> QED
  BY <1>1, Invariance, PTL

-----------------------------------------------------------------------------
(* What record_transmit drops. *)

\* Which pings are stored: those after the ones gone, up to now.
LEMMA StoredRange ==
  ASSUME NEW m \in MonitorType, NEW now \in Nat, Contiguous(m, now), NEW sent \in Nat
  PROVE  Stored(m, sent) <=> sent \in Gone(m, now) + 1..now
<1> DEFINE L == Len(m.transmitted)
           gone == Gone(m, now)
<1>1. L \in Nat /\ gone \in Nat /\ gone = now - L
  BY LenProperties DEF MonitorType, Gone, Contiguous
<1>2. \A i \in 1..L : m.transmitted[i].time = gone + i
  BY DEF Contiguous
<1>3. Stored(m, sent) <=> \E i \in 1..L : m.transmitted[i].time = sent
  BY DEF Stored
<1> HIDE DEF L, gone
<1>4. ASSUME NEW i \in 1..L, m.transmitted[i].time = sent
      PROVE  sent \in gone + 1..now
  BY <1>1, <1>2, <1>4
<1>5. ASSUME sent \in gone + 1..now
      PROVE  \E i \in 1..L : m.transmitted[i].time = sent
  <2>1. sent - gone \in 1..L /\ gone + (sent - gone) = sent
    BY <1>1, <1>5
  <2> QED
    BY <1>2, <2>1
<1>6. Stored(m, sent) <=> sent \in gone + 1..now
  BY <1>3, <1>4, <1>5
<1> QED
  BY <1>6 DEF gone

\* No ping is dropped that a pong on record has to be compared with, unless that pong is
\* older than the front one of its client: a ping dropped is older than the front pong of
\* every client (oldest_receive, record_transmit).
THEOREM PingsKept == Spec => NeededPingKept
<1> DEFINE Kept == \A c \in Endpoint :
                \A pong \in Recorded(monitor, c) \cap Recorded(monitor', c) :
                    Stored(monitor, pong.sent) /\ pong.sent >= Head(monitor.received[c]).sent
                    => Stored(monitor', pong.sent)
<1>1. IInv /\ [Next]_vars => [Kept]_vars
  <2> SUFFICES ASSUME IInv, Next PROVE Kept
    OBVIOUS
  <2>1. CASE ping_timedout
    <3> SUFFICES ASSUME NEW c \in Endpoint, NEW pong \in Recorded(monitor, c),
                        Stored(monitor, pong.sent), ~Stored(monitor', pong.sent),
                        pong.sent >= Head(monitor.received[c]).sent
                 PROVE  FALSE
      OBVIOUS
    <3>1. /\ monitor \in MonitorType /\ time \in Nat /\ monitor.current = time % SeqModulus
          /\ Contiguous(monitor, time) /\ EarlyEvictions(monitor, time)
          /\ Answered(c)
      BY DEF IInv, MonitorTyped
    <3>2. time' = time + 1 /\ monitor' = record_transmit(monitor, time + 1)
      BY <2>1 DEF ping_timedout
    <3> DEFINE oldest == oldest_receive(monitor)
    <3>3. /\ monitor' \in MonitorType /\ Contiguous(monitor', time')
          /\ \A n \in Gone(monitor, time) + 1..Gone(monitor', time') :
                n <= SeqModulus - 2 /\ n < oldest
      BY <3>1, <3>2, Transmission
    <3>4. PICK i \in 1..Len(monitor.received[c]) : pong = monitor.received[c][i]
      BY DEF Recorded
    <3>5. /\ monitor.received[c] \in Seq(Pong) /\ monitor.received[c] # <<>>
          /\ 1 \in 1..Len(monitor.received[c])
      BY <3>1, <3>4, LenProperties, EmptySeq DEF MonitorType
    <3> DEFINE front == monitor.received[c][1]
    <3>6. pong.sent \in Nat /\ front.sent \in Nat /\ front.seq \in Nat
      <4>1. pong \in Pong /\ front \in Pong
        BY <3>4, <3>5, ElementOfSeq
      <4> QED
        BY <4>1, MonitorAssumption DEF Pong, SeqNum
    <3>7. front.sent <= pong.sent /\ front.seq = front.sent % SeqModulus
      <4>1. front.seq = front.sent % SeqModulus
        BY <3>1, <3>5 DEF Answered, AnswersPing
      <4>2. Head(monitor.received[c]) = front
        BY <3>5
      <4> QED
        BY <3>6, <4>1, <4>2
    <3>8. oldest <= front.seq /\ oldest \in Int
      BY <3>1, <3>5, OldestReceive, MonitorAssumption DEF SeqNum
    <3> HIDE DEF oldest, front
    <3>9. pong.sent \in Gone(monitor, time) + 1..time
      BY <3>1, <3>6, StoredRange
    <3>10. pong.sent \notin Gone(monitor', time') + 1..time' /\ time' \in Nat
      BY <3>1, <3>2, <3>3, <3>6, StoredRange
    <3>11. Gone(monitor, time) \in Nat /\ Gone(monitor', time') \in Nat
      BY <3>1, <3>3 DEF Contiguous
    <3>12. pong.sent \in Gone(monitor, time) + 1..Gone(monitor', time')
      BY <3>1, <3>2, <3>6, <3>9, <3>10, <3>11
    <3>13. pong.sent <= SeqModulus - 2 /\ pong.sent < oldest
      BY <3>3, <3>12
    <3>14. front.seq = front.sent
      <4>1. front.sent < SeqModulus /\ SeqModulus \in Nat \ {0}
        BY <3>6, <3>7, <3>13, MonitorAssumption
      <4> QED
        BY <3>6, <3>7, <4>1, ModSmall
    <3> QED
      BY <3>6, <3>7, <3>8, <3>13, <3>14
  <2>2. CASE \E c \in Endpoint : \E pong \in path[c] : received_pong(c, pong)
    <3>1. PICK c \in Endpoint : \E pong \in path[c] : received_pong(c, pong)
      BY <2>2
    <3> SUFFICES ASSUME NEW pong \in path[c], received_pong(c, pong) PROVE Kept
      BY <3>1
    <3>2. /\ monitor \in MonitorType /\ pong \in Pong
          /\ Len(monitor.received[c]) <= TargetSampleSize
      BY DEF IInv, MonitorTyped
    <3>3. monitor' = record_receive(monitor, c, pong)
      BY DEF received_pong
    <3>4. monitor'.transmitted = monitor.transmitted
      BY <3>2, <3>3, Reception
    <3> QED
      BY <3>4 DEF Stored
  <2>3. CASE \E c \in Endpoint : \E pong \in path[c] : Lose(c, pong)
    BY <2>3 DEF Lose, Stored
  <2> QED
    BY <2>1, <2>2, <2>3 DEF Next
<1> QED
  BY <1>1, Invariance, PTL DEF Spec, NeededPingKept

\* Pings do not pile up behind a client that keeps up: until the numbers wrap around,
\* what is left above the target begins no earlier than some client's record.
THEOREM PingsEvicted == Spec => SpentPingsEvicted
<1> DEFINE Spent == time' # time /\ time' < SeqModulus
                        /\ Len(monitor'.transmitted) > TargetSampleSize
                    => \E c \in Endpoint : \E pong \in Recorded(monitor', c) :
                            pong.sent <= Head(monitor'.transmitted).time
<1>1. IInv /\ [Next]_vars => [Spent]_vars
  <2> SUFFICES ASSUME IInv, ping_timedout, time' < SeqModulus,
                      Len(monitor'.transmitted) > TargetSampleSize
               PROVE  \E c \in Endpoint : \E pong \in Recorded(monitor', c) :
                            pong.sent <= Head(monitor'.transmitted).time
    BY DEF Next, received_pong, Lose
  <2>1. /\ monitor \in MonitorType /\ time \in Nat /\ monitor.current = time % SeqModulus
        /\ Contiguous(monitor, time) /\ EarlyEvictions(monitor, time)
        /\ \A c \in Endpoint : Answered(c)
    BY DEF IInv, MonitorTyped
  <2>2. time' = time + 1 /\ monitor' = record_transmit(monitor, time + 1)
    BY DEF ping_timedout
  <2>3. SeqModulus \in Nat \ {0} /\ TargetSampleSize \in Nat \ {0}
    BY MonitorAssumption
  <2> DEFINE oldest == oldest_receive(monitor)
             left == monitor'.transmitted
             first == left[1]
  <2>4. /\ monitor' \in MonitorType /\ Contiguous(monitor', time')
        /\ monitor'.received = monitor.received
        /\ first.seq >= oldest
    BY <2>1, <2>2, Transmission
  <2>5. /\ left \in Seq(Ping) /\ Len(left) \in Nat /\ Len(left) > 1 /\ 1 \in 1..Len(left)
        /\ Head(left) = first /\ left # <<>>
    <3>1. left \in Seq(Ping) /\ Len(left) \in Nat
      BY <2>4, LenProperties DEF MonitorType
    <3>2. Len(left) > 1 /\ 1 \in 1..Len(left)
      BY <2>3, <3>1
    <3>3. left # <<>>
      BY <3>1, <3>2
    <3> QED
      BY <3>1, <3>2, <3>3
  <2>6. /\ Gone(monitor', time') \in Nat /\ Gone(monitor', time') = time' - Len(left)
        /\ first.time = Gone(monitor', time') + 1 /\ first.seq = first.time % SeqModulus
    BY <2>4, <2>5 DEF Contiguous, Gone
  <2>7. first.time \in Nat /\ first.time < SeqModulus - 1 /\ first.time < SeqModulus
    <3>1. time' \in Nat /\ time' < SeqModulus /\ Len(left) \in Nat /\ Len(left) > 1
      BY <2>1, <2>2, <2>5
    <3>2. Gone(monitor', time') + 1 \in Nat /\ Gone(monitor', time') + 1 < SeqModulus - 1
      <4>1. SeqModulus \in Int
        BY <2>3
      <4>2. \A gone \in Nat, size \in Nat, now \in Nat, modulus \in Int :
               gone = now - size /\ size > 1 /\ now < modulus
               => gone + 1 \in Nat /\ gone + 1 < modulus - 1
        OBVIOUS
      <4> QED
        BY ONLY <2>6, <3>1, <4>1, <4>2
    <3> HIDE DEF first, left
    <3> QED
      BY <2>3, <2>6, <3>2
  <2>8. first.seq = first.time
    <3> HIDE DEF first
    <3> QED
      BY <2>3, <2>6, <2>7, ModSmall
  <2>9. PICK c \in Endpoint :
            monitor.received[c] # <<>> /\ oldest = monitor.received[c][1].seq
    BY <2>1, <2>3, <2>4, <2>7, <2>8, OldestReceive
  <2> DEFINE front == monitor.received[c][1]
  <2>10. /\ monitor.received[c] \in Seq(Pong) /\ 1 \in 1..Len(monitor.received[c])
    BY <2>1, <2>9, EmptySeq DEF MonitorType
  <2>11. front \in Recorded(monitor', c)
    BY <2>4, <2>10 DEF Recorded
  <2>12. front.sent \in Nat /\ front.sent <= time /\ front.seq = front.sent % SeqModulus
    <3>1. front \in Pong
      BY <2>10, ElementOfSeq
    <3> QED
      BY <2>1, <2>10, <3>1 DEF Pong, Answered, AnswersPing
  <2>13. front.seq = front.sent
    <3>1. front.sent < SeqModulus
      BY <2>1, <2>2, <2>3, <2>12
    <3> QED
      BY <2>3, <2>12, <3>1, ModSmall
  <2>14. front.sent <= first.time
    BY <2>4, <2>8, <2>9, <2>13
  <2> QED
    BY <2>5, <2>11, <2>14
<1> QED
  BY <1>1, Invariance, PTL DEF Spec, SpentPingsEvicted

-----------------------------------------------------------------------------
(* The averages. *)

\* One iteration of the loop: the n-th ping is taken, and the next pong if it is its own.
Advance(pings, pongs, n, before) ==
    IF before < Len(pongs) /\ pings[n].seq = pongs[before + 1].seq
    THEN before + 1 ELSE before

\* The first k iterations.
Loop(pings, pongs, k, f) ==
    f = [n \in 0..k |-> IF n = 0 THEN 0 ELSE Advance(pings, pongs, n, f[n - 1])]

\* The loop can always go on.
LEMMA LoopRuns ==
  ASSUME NEW pings, NEW pongs
  PROVE  \A k \in Nat : \E f : Loop(pings, pongs, k, f)
<1> DEFINE S == {k \in Nat : \E f : Loop(pings, pongs, k, f)}
<1>1. 0 \in S
  <2>1. Loop(pings, pongs, 0, [n \in 0..0 |-> 0])
    BY DEF Loop
  <2> QED
    BY <2>1
<1>2. ASSUME NEW k \in Nat, k \in S
      PROVE  k + 1 \in S
  <2>1. PICK f : Loop(pings, pongs, k, f)
    BY <1>2
  <2> DEFINE g == [n \in 0..k + 1 |-> IF n <= k THEN f[n]
                                      ELSE Advance(pings, pongs, n, f[n - 1])]
  <2>2. \A n \in 0..k : g[n] = f[n]
    OBVIOUS
  <2>3. \A n \in 0..k : f[n] = IF n = 0 THEN 0 ELSE Advance(pings, pongs, n, f[n - 1])
    BY <2>1 DEF Loop
  <2>4. ASSUME NEW n \in 0..k + 1
        PROVE  g[n] = IF n = 0 THEN 0 ELSE Advance(pings, pongs, n, g[n - 1])
    <3>1. CASE n = 0
      BY <2>2, <2>3, <3>1
    <3>2. CASE n \in 1..k
      <4>1. n - 1 \in 0..k /\ n \in 0..k /\ n # 0
        BY <3>2
      <4> HIDE DEF g
      <4> QED
        BY <2>2, <2>3, <4>1
    <3>3. CASE n = k + 1
      <4>1. n - 1 \in 0..k /\ ~(n <= k) /\ n # 0
        BY <3>3
      <4>2. g[n] = Advance(pings, pongs, n, f[n - 1])
        BY <4>1
      <4> HIDE DEF g
      <4> QED
        BY <2>2, <4>1, <4>2
    <3> QED
      BY <3>1, <3>2, <3>3
  <2>5. g = [n \in 0..k + 1 |-> g[n]]
    OBVIOUS
  <2> HIDE DEF g
  <2>6. Loop(pings, pongs, k + 1, g)
    BY <2>4, <2>5 DEF Loop
  <2> QED
    BY <2>6
<1> HIDE DEF S
<1>3. \A k \in Nat : k \in S
  BY <1>1, <1>2, Induction
<1> QED
  BY <1>3 DEF S

\* Paired is what the loop computes.
LEMMA PairedLoop ==
  ASSUME NEW pings \in Seq(Ping), NEW pongs
  PROVE  Loop(pings, pongs, Len(pings), Paired(pings, pongs))
<1>1. \E f : Loop(pings, pongs, Len(pings), f)
  BY LoopRuns, LenProperties
<1>2. Paired(pings, pongs) = CHOOSE f : Loop(pings, pongs, Len(pings), f)
  BY DEF Paired, Loop, Advance
<1> QED
  BY <1>1, <1>2

\* Where pings are in a row and every pong of an ascending sample has its ping among
\* them, the loop pairs each pong with its own: when it takes a ping, the next pong in
\* turn is the ping's own or belongs to a later one.
LEMMA AllPaired ==
  ASSUME NEW pings \in Seq(Ping), NEW pongs \in Seq(Pong), NEW gone \in Nat,
         \A i \in 1..Len(pings) : pings[i].seq = gone + i,
         \A j \in 1..Len(pongs) : pongs[j].seq \in gone + 1..gone + Len(pings),
         \A i \in 1..Len(pongs), j \in 1..Len(pongs) :
            i < j => pongs[i].seq < pongs[j].seq
  PROVE  \A j \in 1..Len(pongs) : <<pongs[j].seq - gone, j>> \in PairedFrom(pings, pongs)
<1> DEFINE L == Len(pings)
           N == Len(pongs)
           paired == Paired(pings, pongs)
           seq(j) == pongs[j].seq
           Met(n) == \A j \in 1..paired[n] : /\ seq(j) <= gone + n
                                             /\ paired[seq(j) - gone] = j
                                             /\ paired[seq(j) - gone - 1] = j - 1
           P(n) == /\ paired[n] \in 0..N
                   /\ Met(n)
                   /\ paired[n] < N => seq(paired[n] + 1) > gone + n
           S == {n \in Nat : n <= L => P(n)}
<1>1. L \in Nat /\ N \in Nat
  BY LenProperties
<1>2. \A n \in 0..L : paired[n] = IF n = 0 THEN 0 ELSE Advance(pings, pongs, n, paired[n - 1])
  BY PairedLoop DEF Loop
<1>3. \A j \in 1..N : seq(j) \in gone + 1..gone + L
  OBVIOUS
<1>4. \A i \in 1..N, j \in 1..N : i < j => seq(i) < seq(j)
  OBVIOUS
<1>5. \A n \in 1..L : \A k : Advance(pings, pongs, n, k) =
                                IF k < N /\ gone + n = seq(k + 1) THEN k + 1 ELSE k
  BY DEF Advance
<1> HIDE DEF L, N, paired, seq
<1>6. 0 \in S
  <2>1. paired[0] = 0
    BY <1>1, <1>2
  <2>2. 0 < N => seq(1) > gone
    BY <1>1, <1>3
  <2>3. Met(0)
    BY <2>1
  <2>4. P(0)
    <3> HIDE DEF Met
    <3> QED
      BY <1>1, <2>1, <2>2, <2>3
  <2> QED
    BY <2>4
<1>7. ASSUME NEW n \in Nat, n \in S
      PROVE  n + 1 \in S
  <2> SUFFICES ASSUME n + 1 <= L PROVE P(n + 1)
    OBVIOUS
  <2> DEFINE m == paired[n]
  <2>1. P(n)
    BY <1>1, <1>7
  <2>2. m \in 0..N /\ Met(n) /\ (m < N => seq(m + 1) > gone + n)
    BY <2>1
  <2>3. paired[n + 1] = IF m < N /\ gone + (n + 1) = seq(m + 1) THEN m + 1 ELSE m
    <3>1. n + 1 \in 0..L /\ n + 1 \in 1..L /\ n + 1 # 0 /\ (n + 1) - 1 = n
      BY <1>1
    <3> QED
      BY <1>2, <1>5, <3>1
  <2> HIDE DEF Met, m, S
  <2>4. CASE m < N /\ gone + (n + 1) = seq(m + 1)
    <3>1. paired[n + 1] = m + 1 /\ m + 1 \in 1..N
      BY <1>1, <2>2, <2>3, <2>4
    <3>2. ASSUME NEW j \in 1..m + 1
          PROVE  /\ seq(j) <= gone + (n + 1)
                 /\ paired[seq(j) - gone] = j
                 /\ paired[seq(j) - gone - 1] = j - 1
      <4>1. CASE j \in 1..m
        <5>1. /\ seq(j) <= gone + n /\ paired[seq(j) - gone] = j
              /\ paired[seq(j) - gone - 1] = j - 1
          BY <2>2, <4>1 DEF Met, m
        <5>2. seq(j) \in Int
          BY <1>1, <1>3, <2>2, <4>1
        <5> QED
          BY <5>1, <5>2
      <4>2. CASE j = m + 1
        <5>1. seq(j) = gone + (n + 1)
          BY <2>4, <4>2
        <5>2. (gone + (n + 1)) - gone = n + 1 /\ (gone + (n + 1)) - gone - 1 = n
          OBVIOUS
        <5>3. seq(j) <= gone + (n + 1) /\ seq(j) - gone = n + 1 /\ seq(j) - gone - 1 = n
          BY <5>1, <5>2
        <5> QED
          BY <2>2, <3>1, <4>2, <5>3 DEF m
      <4> QED
        BY <2>2, <4>1, <4>2
    <3>3. Met(n + 1)
      BY <3>1, <3>2 DEF Met
    <3>4. m + 1 < N => seq((m + 1) + 1) > gone + (n + 1)
      <4> SUFFICES ASSUME m + 1 < N PROVE seq((m + 1) + 1) > gone + (n + 1)
        OBVIOUS
      <4>1. (m + 1) + 1 \in 1..N /\ m + 1 < (m + 1) + 1
        BY <1>1, <2>2
      <4>2. seq(m + 1) < seq((m + 1) + 1)
        BY <1>4, <3>1, <4>1
      <4>3. seq((m + 1) + 1) \in Int
        BY <1>1, <1>3, <4>1
      <4> QED
        BY <2>4, <4>2, <4>3
    <3> QED
      BY <3>1, <3>3, <3>4
  <2>5. CASE ~(m < N /\ gone + (n + 1) = seq(m + 1))
    <3>1. paired[n + 1] = m
      BY <2>3, <2>5
    <3>2. Met(n + 1)
      <4>1. ASSUME NEW j \in 1..m
            PROVE  /\ seq(j) <= gone + (n + 1)
                   /\ paired[seq(j) - gone] = j
                   /\ paired[seq(j) - gone - 1] = j - 1
        <5>1. /\ seq(j) <= gone + n /\ paired[seq(j) - gone] = j
              /\ paired[seq(j) - gone - 1] = j - 1
          BY <2>2 DEF Met, m
        <5>2. seq(j) \in Int
          BY <1>1, <1>3, <2>2
        <5> QED
          BY <5>1, <5>2
      <4> QED
        BY <3>1, <4>1 DEF Met
    <3>3. m < N => seq(m + 1) > gone + (n + 1)
      <4> SUFFICES ASSUME m < N PROVE seq(m + 1) > gone + (n + 1)
        OBVIOUS
      <4>1. seq(m + 1) \in Int
        <5>1. m + 1 \in 1..N
          BY <1>1, <2>2
        <5> QED
          BY <1>1, <1>3, <5>1
      <4> QED
        BY <2>2, <2>5, <4>1
    <3> QED
      BY <2>2, <3>1, <3>2, <3>3
  <2> QED
    BY <2>4, <2>5
<1>8. \A n \in Nat : n \in S
  <2> HIDE DEF S
  <2> QED
    BY <1>6, <1>7, Induction
<1>9. P(L)
  <2>1. L \in S /\ L <= L
    BY <1>1, <1>8
  <2> HIDE DEF P
  <2> QED
    BY <2>1
<1>10. paired[L] = N
  <2>1. paired[L] \in 0..N /\ (paired[L] < N => seq(paired[L] + 1) > gone + L)
    BY <1>9
  <2>2. paired[L] < N => paired[L] + 1 \in 1..N
    BY <1>1, <2>1
  <2> QED
    BY <1>1, <1>3, <2>1, <2>2
<1>11. ASSUME NEW j \in 1..N
       PROVE  <<seq(j) - gone, j>> \in PairedFrom(pings, pongs)
  <2>1. paired[seq(j) - gone] = j /\ paired[seq(j) - gone - 1] = j - 1
    BY <1>9, <1>10
  <2>2. seq(j) - gone \in 1..L
    BY <1>1, <1>3
  <2>3. paired[seq(j) - gone] # paired[seq(j) - gone - 1]
    BY <1>1, <2>1
  <2> QED
    BY <2>1, <2>2, <2>3 DEF PairedFrom, paired, L
<1> QED
  BY <1>11 DEF N, seq

\* The loop goes forward on both sides: of two pongs it pairs, the later one on record
\* gets the later ping.
LEMMA PairsInOrder ==
  ASSUME NEW pings \in Seq(Ping), NEW pongs \in Seq(Pong), NEW i, NEW j, NEW k, NEW l,
         <<i, j>> \in PairedFrom(pings, pongs), <<k, l>> \in PairedFrom(pings, pongs),
         j < l
  PROVE  i < k
<1> DEFINE L == Len(pings)
           paired == Paired(pings, pongs)
           P(n) == \A e \in 0..n : paired[e] \in Nat /\ paired[e] <= paired[n]
           S == {n \in Nat : n <= L => P(n)}
<1>1. L \in Nat /\ Len(pongs) \in Nat
  BY LenProperties
<1>2. \A n \in 0..L : paired[n] = IF n = 0 THEN 0 ELSE Advance(pings, pongs, n, paired[n - 1])
  BY PairedLoop DEF Loop
<1>3. \A n, e : Advance(pings, pongs, n, e) \in {e, e + 1}
  BY DEF Advance
<1>4. i \in 1..L /\ k \in 1..L /\ j = paired[i] /\ l = paired[k]
  BY DEF PairedFrom
<1> HIDE DEF L, paired
<1>5. 0 \in S
  BY <1>1, <1>2
<1>6. ASSUME NEW n \in Nat, n \in S
      PROVE  n + 1 \in S
  <2> SUFFICES ASSUME n + 1 <= L PROVE P(n + 1)
    OBVIOUS
  <2>1. P(n)
    BY <1>1, <1>6
  <2>2. paired[n + 1] \in {paired[n], paired[n] + 1}
    <3>1. n + 1 \in 0..L /\ n + 1 # 0 /\ (n + 1) - 1 = n
      BY <1>1
    <3> QED
      BY <1>2, <1>3, <3>1
  <2>3. paired[n] \in Nat /\ paired[n + 1] \in Nat /\ paired[n] <= paired[n + 1]
    <3>1. n \in 0..n
      OBVIOUS
    <3>2. paired[n] \in Nat
      BY <2>1, <3>1
    <3> QED
      BY <2>2, <3>2
  <2>4. ASSUME NEW e \in 0..n + 1
        PROVE  paired[e] \in Nat /\ paired[e] <= paired[n + 1]
    <3>1. CASE e = n + 1
      BY <2>3, <3>1
    <3>2. CASE e \in 0..n
      <4>1. paired[e] \in Nat /\ paired[e] <= paired[n]
        BY <2>1, <3>2
      <4> QED
        BY <2>3, <4>1
    <3> QED
      BY <3>1, <3>2
  <2> QED
    BY <2>4
<1>7. \A n \in Nat : n \in S
  <2> HIDE DEF S
  <2> QED
    BY <1>5, <1>6, Induction
<1>8. P(i)
  <2>1. i \in S /\ i <= L
    BY <1>1, <1>4, <1>7
  <2> HIDE DEF P
  <2> QED
    BY <2>1
<1>9. CASE k <= i
  <2>1. k \in 0..i /\ i \in 0..i
    BY <1>1, <1>4, <1>9
  <2>2. paired[k] \in Nat /\ paired[i] \in Nat /\ paired[k] <= paired[i]
    BY <1>8, <2>1
  <2> QED
    BY <1>4, <2>2
<1> QED
  BY <1>1, <1>4, <1>9

\* Until the numbers wrap around, every pong of a client whose pings are all stored and
\* whose pongs were recorded in order is added up, once and against its own ping, and
\* wherever this is so, those pings are stored and the pongs in order
\* (average_round_trip_time, average_clock_diff).
THEOREM AveragesExact == Spec => []AverageExactAtFirst
<1>1. IInv => AverageExactAtFirst
  <2> SUFFICES ASSUME IInv, time < SeqModulus, NEW c \in Endpoint
               PROVE  AverageExactFor(monitor, c)
                      <=> PingsStored(monitor, c) /\ RecordedInOrder(monitor, c)
    BY DEF AverageExactAtFirst
  <2> DEFINE pings == monitor.transmitted
             pongs == monitor.received[c]
             gone == Gone(monitor, time)
  <2>1. /\ monitor \in MonitorType /\ time \in Nat
        /\ Contiguous(monitor, time) /\ Answered(c)
    BY DEF IInv, MonitorTyped
  <2>2. SeqModulus \in Nat \ {0}
    BY MonitorAssumption
  <2>3. /\ pings \in Seq(Ping) /\ pongs \in Seq(Pong) /\ Len(pings) \in Nat
        /\ gone \in Nat /\ gone + Len(pings) = time
    BY <2>1, LenProperties DEF MonitorType, Contiguous, Gone
  <2>4. \A i \in 1..Len(pings) : /\ pings[i].time = gone + i
                                 /\ pings[i].seq = pings[i].time % SeqModulus
    BY <2>1 DEF Contiguous
  <2>5. ASSUME NEW j \in 1..Len(pongs)
        PROVE  /\ pongs[j].sent \in Nat /\ pongs[j].sent <= time
               /\ pongs[j].seq = pongs[j].sent % SeqModulus
               /\ pongs[j] \in Recorded(monitor, c)
    <3>1. pongs[j] \in Pong
      BY <2>3, ElementOfSeq
    <3>2. pongs[j] \in Recorded(monitor, c)
      BY DEF Recorded
    <3> QED
      BY <2>1, <3>1, <3>2 DEF Pong, Answered, AnswersPing
  <2>6. Recorded(monitor, c) = {pongs[j] : j \in 1..Len(pongs)}
    BY DEF Recorded
  <2>7. AverageExactFor(monitor, c) <=>
            \A j \in 1..Len(pongs) : \E i \in 1..Len(pings) :
                <<i, j>> \in PairedFrom(pings, pongs) /\ pings[i].time = pongs[j].sent
    BY DEF AverageExactFor, receive_sample_size
  <2>8. RecordedInOrder(monitor, c) <=>
            \A j \in 1..Len(pongs), k \in 1..Len(pongs) :
                j < k => pongs[j].sent < pongs[k].sent
    BY DEF RecordedInOrder
  <2>9. \A sent : Stored(monitor, sent) <=> \E i \in 1..Len(pings) : pings[i].time = sent
    BY DEF Stored
  <2> HIDE DEF pings, pongs, gone
  <2>10. ASSUME PingsStored(monitor, c), RecordedInOrder(monitor, c)
         PROVE  AverageExactFor(monitor, c)
    <3>1. \A i \in 1..Len(pings) : pings[i].seq = gone + i
      <4> SUFFICES ASSUME NEW i \in 1..Len(pings) PROVE pings[i].seq = gone + i
        OBVIOUS
      <4>1. gone + i \in Nat /\ gone + i < SeqModulus
        BY <2>1, <2>2, <2>3
      <4>2. (gone + i) % SeqModulus = gone + i
        BY <2>2, <4>1, ModSmall
      <4> QED
        BY <2>4, <4>2
    <3>2. ASSUME NEW j \in 1..Len(pongs)
          PROVE  /\ pongs[j].seq = pongs[j].sent
                 /\ pongs[j].seq \in gone + 1..gone + Len(pings)
      <4>1. pongs[j].sent < SeqModulus
        BY <2>1, <2>2, <2>5
      <4>2. pongs[j].seq = pongs[j].sent
        BY <2>2, <2>5, <4>1, ModSmall
      <4>3. Stored(monitor, pongs[j].sent)
        BY <2>5, <2>10 DEF PingsStored
      <4>4. pongs[j].sent \in gone + 1..time
        BY <2>1, <2>5, <4>3, StoredRange DEF gone
      <4> QED
        BY <2>3, <4>2, <4>4
    <3>3. \A i \in 1..Len(pongs), j \in 1..Len(pongs) : i < j => pongs[i].seq < pongs[j].seq
      BY <2>8, <2>10, <3>2
    <3>4. \A j \in 1..Len(pongs) : <<pongs[j].seq - gone, j>> \in PairedFrom(pings, pongs)
      BY <2>3, <3>1, <3>2, <3>3, AllPaired
    <3>5. ASSUME NEW j \in 1..Len(pongs)
          PROVE  \E i \in 1..Len(pings) : /\ <<i, j>> \in PairedFrom(pings, pongs)
                                          /\ pings[i].time = pongs[j].sent
      <4>1. /\ pongs[j].seq - gone \in 1..Len(pings)
            /\ gone + (pongs[j].seq - gone) = pongs[j].seq
        BY <2>3, <3>2
      <4> QED
        BY <2>4, <3>2, <3>4, <4>1
    <3> QED
      BY <2>7, <3>5
  <2>11. ASSUME AverageExactFor(monitor, c)
         PROVE  PingsStored(monitor, c)
    BY <2>6, <2>7, <2>9, <2>11 DEF PingsStored
  <2>12. ASSUME AverageExactFor(monitor, c)
         PROVE  RecordedInOrder(monitor, c)
    <3> SUFFICES ASSUME NEW j \in 1..Len(pongs), NEW k \in 1..Len(pongs), j < k
                 PROVE  pongs[j].sent < pongs[k].sent
      BY <2>8
    <3>1. PICK i \in 1..Len(pings) :
            <<i, j>> \in PairedFrom(pings, pongs) /\ pings[i].time = pongs[j].sent
      BY <2>7, <2>12
    <3>2. PICK l \in 1..Len(pings) :
            <<l, k>> \in PairedFrom(pings, pongs) /\ pings[l].time = pongs[k].sent
      BY <2>7, <2>12
    <3>3. i < l
      BY <2>3, <3>1, <3>2, PairsInOrder
    <3> QED
      BY <2>3, <2>4, <3>1, <3>2, <3>3
  <2> QED
    BY <2>10, <2>11, <2>12
<1> QED
  BY <1>1, Invariance, PTL
=============================================================================
