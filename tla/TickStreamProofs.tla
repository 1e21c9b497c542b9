-------------------------- MODULE TickStreamProofs --------------------------
(***************************************************************************)
(* The safety properties of TickStream for any interval, delay of a send,  *)
(* backlog bound and set of schedulers.  One identifier is enough to       *)
(* remember while the topic is in the order of firing: a tick fired after  *)
(* the last overlap of two schedulers is followed by none fired before it. *)
(* The cycles run for what waited at the worker's start have increasing    *)
(* windows, of which the fresh ones span three.                            *)
(***************************************************************************)
EXTENDS TickStream, TLAPS

USE TickAssumption

\* y comes after x and was fired no earlier, unless schedulers overlapped then.
InOrder(x, y) == x < apart => y <= x

\* The order of firing: the topic, before it what was run, behind it what is
\* being sent.
Sorted(q) ==
    /\ \A j, k \in 1..Len(q) : j < k => InOrder(q[j], q[k])
    /\ last # None => \A k \in 1..Len(q) : InOrder(last, q[k])

Behind(q) ==
    \A s \in Schedulers : sending[s] # None =>
        /\ \A k \in 1..Len(q) : InOrder(q[k], sending[s])
        /\ last # None => InOrder(last, sending[s])

Ordered ==
    /\ Sorted(topic)
    /\ Behind(topic)
    /\ done # {} => last # None
    /\ \A a \in done : InOrder(a, last)

\* Only a scheduler whose time has come sends; two of them alive is an overlap.
Senders ==
    /\ \A s \in Schedulers : sending[s] # None => clocks[s] = 0
    /\ \A s, t \in Schedulers : s # t /\ Alive(s) /\ Alive(t) => apart = 0

\* What became of the tick in hand and of the last one run.
InHand ==
    /\ worker = "running" => last = topic[1]
    /\ worker \in {"polling", "committing"} /\ last # None => last \in done \/ last = OldAge
    /\ worker = "committing" =>
          is_stale(topic[1]) \/ \E a \in done : WindowOf(a) = WindowOf(topic[1])
    /\ worker \in {"down", "dead"} => last = None /\ done = {}

\* The windows run since the worker's start, counted from that of the start.
Counts ==
    /\ since < OldAge => apart = OldAge
    /\ worker \in {"down", "dead"} => since = OldAge
    /\ burst > 0 => since < OldAge /\ last # None
                    /\ burst <= 3 + WindowOf(last) - WindowOf(since)
    /\ burst <= 3

TickInv == TypeOK /\ Ordered /\ Senders /\ InHand /\ Counts

LEMMA DivMonotone ==
    ASSUME NEW I \in Nat \ {0}, NEW x \in Int, NEW y \in Int, x <= y
    PROVE  x \div I <= y \div I /\ x \div I \in Int
  OBVIOUS

LEMMA DivRange ==
    ASSUME NEW I \in Nat \ {0}, NEW x \in Int
    PROVE  /\ x \div I \in Int
           /\ x < I => x \div I <= 0
           /\ x >= -(2 * I) => x \div I >= -2
           /\ x < -(2 * I) => x \div I < -2
  OBVIOUS

LEMMA Windows ==
    ASSUME TypeOK, NEW a \in Ages, NEW b \in Ages
    PROVE  /\ WindowOf(a) \in Int /\ WindowOf(a) <= 0
           /\ a >= b => WindowOf(a) <= WindowOf(b)
           /\ ~is_stale(a) => WindowOf(a) >= -2
           /\ a = OldAge => WindowOf(a) < -2
  <1>1. /\ Interval \in Nat \ {0} /\ phase \in Int /\ 0 <= phase /\ phase < Interval
        /\ a \in Int /\ 0 <= a /\ b \in Int
    BY DEF TypeOK, Ages, OldAge
  <1>2. phase - a \in Int /\ phase - b \in Int /\ phase - a < Interval
    BY <1>1
  <1>3. a >= b => phase - a <= phase - b
    BY <1>1
  <1>4. ~is_stale(a) => phase - a >= -(2 * Interval)
    BY <1>1 DEF is_stale, STALE_MULTIPLIER
  <1>5. a = OldAge => phase - a < -(2 * Interval)
    BY <1>1 DEF OldAge
  <1> QED BY <1>1, <1>2, <1>3, <1>4, <1>5, DivMonotone, DivRange DEF WindowOf

LEMMA TopicTypes ==
    ASSUME NEW q \in Seq(Ages)
    PROVE  /\ Len(q) \in Nat /\ DOMAIN q = 1..Len(q)
           /\ \A k \in 1..Len(q) : q[k] \in Nat /\ q[k] \in Ages /\ q[k] <= OldAge
           /\ q # <<>> <=> Len(q) > 0
  BY DEF Ages, OldAge

\* What is stored last is behind the rest.
LEMMA AppendLast ==
    ASSUME NEW q \in Seq(Ages), NEW x \in Ages, Sorted(q),
           \A k \in 1..Len(q) : InOrder(q[k], x),
           last # None => InOrder(last, x)
    PROVE  LET r == Append(q, x) IN
           /\ r \in Seq(Ages) /\ Sorted(r) /\ Len(r) = Len(q) + 1
           /\ Len(q) > 0 => r[1] = q[1]
           /\ \A k \in 1..Len(r) : r[k] = x \/ \E j \in 1..Len(q) : r[k] = q[j]
  <1> DEFINE r == Append(q, x)
  <1>1. Len(q) \in Nat
    OBVIOUS
  <1>2. r \in Seq(Ages) /\ Len(r) = Len(q) + 1
        /\ \A k \in 1..Len(r) : r[k] = IF k <= Len(q) THEN q[k] ELSE x
    BY <1>1
  <1> HIDE DEF r
  <1>3. Sorted(r)
    <2>1. ASSUME NEW j \in 1..Len(r), NEW k \in 1..Len(r), j < k PROVE InOrder(r[j], r[k])
      <3>1. j \in 1..Len(q) /\ r[j] = q[j]
        BY <1>1, <1>2, <2>1
      <3>2. CASE k <= Len(q)
        BY <1>1, <1>2, <2>1, <3>1, <3>2 DEF Sorted
      <3>3. CASE k = Len(q) + 1
        BY <1>1, <1>2, <3>1, <3>3
      <3> QED BY <1>1, <1>2, <3>2, <3>3
    <2>2. ASSUME last # None, NEW k \in 1..Len(r) PROVE InOrder(last, r[k])
      BY <1>1, <1>2, <2>2 DEF Sorted
    <2> QED BY <2>1, <2>2 DEF Sorted
  <1>4. \A k \in 1..Len(r) : r[k] = x \/ \E j \in 1..Len(q) : r[k] = q[j]
    BY <1>1, <1>2
  <1>5. Len(q) > 0 => r[1] = q[1]
    BY <1>1, <1>2
  <1> QED BY <1>2, <1>3, <1>4, <1>5 DEF r

LEMMA StoreLast ==
    ASSUME TypeOK, Sorted(topic), Room, NEW x \in Ages,
           \A k \in 1..Len(topic) : InOrder(topic[k], x),
           last # None => InOrder(last, x)
    PROVE  LET r == Stored(x) IN
           /\ r \in Seq(Ages) /\ Sorted(r) /\ Len(r) >= Len(topic) /\ Len(r) > 0
           /\ Len(topic) > 0 => r[1] = topic[1]
           /\ \A k \in 1..Len(r) : r[k] = x \/ \E j \in 1..Len(topic) : r[k] = topic[j]
  <1>1. /\ topic \in Seq(Ages) /\ last \in Ages \cup {None}
        /\ Len(topic) \in Nat /\ \A k \in 1..Len(topic) : topic[k] \in Ages
    BY TopicTypes DEF TypeOK
  <1>2. CASE Len(topic) < MaxBacklog
    BY <1>1, <1>2, AppendLast DEF Stored
  <1>3. CASE ~(Len(topic) < MaxBacklog)
    <2> DEFINE n == Len(topic)
               k == CHOOSE k \in Forgettable : TRUE
               r == [j \in 1..n |-> IF j < k THEN topic[j]
                                    ELSE IF j < n THEN topic[j + 1] ELSE x]
    <2>1. Stored(x) = r
      BY <1>3 DEF Stored
    <2>2. k \in Forgettable
      BY <1>3 DEF Room
    <2>3. k \in 2..n /\ n \in Nat
      BY <1>1, <2>2 DEF Forgettable
    <2> HIDE DEF k
    <2>0. \A j \in 1..n : /\ j < k => r[j] = topic[j]
                          /\ j >= k /\ j < n => r[j] = topic[j + 1]
                          /\ j = n => r[j] = x
      BY <2>3
    <2>5. r \in Seq(Ages) /\ Len(r) = n
      <3>1. ASSUME NEW j \in 1..n PROVE r[j] \in Ages
        <4>1. CASE j < k
          BY <1>1, <2>0, <4>1
        <4>2. CASE j >= k /\ j < n
          <5>1. j + 1 \in 1..n
            BY <2>3, <4>2
          <5> QED BY <1>1, <2>0, <4>2, <5>1
        <4>3. CASE j = n
          BY <2>0, <4>3
        <4> QED BY <2>3, <4>1, <4>2, <4>3
      <3> QED BY <2>3, <3>1
    <2> HIDE DEF r
    <2>4. \A j \in 1..n : r[j] = x \/ \E i \in 1..n : r[j] = topic[i]
      <3>1. ASSUME NEW j \in 1..n, j >= k, j < n PROVE r[j] = topic[j + 1] /\ j + 1 \in 1..n
        BY <2>0, <2>3, <3>1
      <3>2. ASSUME NEW j \in 1..n PROVE j < k \/ (j >= k /\ j < n) \/ j = n
        BY <2>3
      <3> QED BY <2>0, <3>1, <3>2
    <2>6. ASSUME NEW i \in 1..n, NEW j \in 1..n, i < j PROVE InOrder(r[i], r[j])
      <3> DEFINE at(y) == IF y < k THEN y ELSE y + 1
      <3>1. at(i) \in 1..n /\ r[i] = topic[at(i)]
        BY <2>0, <2>3, <2>6
      <3>2. CASE j = n
        BY <2>0, <3>1, <3>2
      <3>3. CASE j < n
        <4>1. at(j) \in 1..n /\ r[j] = topic[at(j)] /\ at(i) < at(j)
          BY <2>0, <2>3, <2>6, <3>3
        <4> HIDE DEF at
        <4> QED BY <3>1, <4>1 DEF Sorted
      <3> QED BY <2>3, <3>2, <3>3
    <2>7. ASSUME last # None, NEW j \in 1..n PROVE InOrder(last, r[j])
      BY <2>4, <2>7 DEF Sorted
    <2>8. r[1] = topic[1] /\ n > 0
      BY <2>0, <2>3
    <2>9. Sorted(r)
      BY <2>5, <2>6, <2>7 DEF Sorted
    <2> QED BY <2>1, <2>3, <2>4, <2>5, <2>8, <2>9
  <1> QED BY <1>2, <1>3

-----------------------------------------------------------------------------

LEMMA InitHolds == Init => TickInv
  <1> SUFFICES ASSUME Init PROVE TickInv
    OBVIOUS
  <1>1. Interval \in Nat \ {0} /\ <<>> \in Seq(Ages) /\ Len(<<>>) = 0 /\ OldAge \in Ages
    BY DEF Ages, OldAge
  <1>2. TypeOK
    <2>1. Off \in Off..Interval
      BY <1>1 DEF Off
    <2> QED BY <1>1, <2>1 DEF Init, TypeOK, None
  <1>3. Ordered /\ Senders
    BY <1>1 DEF Init, Ordered, Sorted, Behind, Senders, Alive, None
  <1> QED BY <1>2, <1>3 DEF Init, TickInv, InHand, Counts, None

\* Steps of a scheduler leave the worker alone, but for the head of the topic.
LEMMA WorkerUnmoved ==
    ASSUME TypeOK, InHand, Counts, TypeOK',
           UNCHANGED <<phase, committed, worker, last, done, since, burst>>,
           since < OldAge => apart' = OldAge,
           Len(topic) > 0 => topic'[1] = topic[1]
    PROVE  InHand' /\ Counts'
  <1>1. worker \in {"running", "committing"} => topic'[1] = topic[1]
    BY TopicTypes DEF TypeOK
  <1>2. InHand'
    BY <1>1 DEF InHand, WindowOf, is_stale
  <1>3. Counts'
    BY DEF Counts, WindowOf
  <1> QED BY <1>2, <1>3

LEMMA StartSchedulerKeeps ==
    ASSUME TickInv, NEW s \in Schedulers, StartScheduler(s)
    PROVE  TickInv'
  <1>1. TypeOK /\ Ordered /\ Senders /\ InHand /\ Counts
    BY DEF TickInv
  <1>2. /\ clocks' = [clocks EXCEPT ![s] = 1] /\ clocks[s] = Off
        /\ UNCHANGED <<phase, sending, topic, committed, worker, last, done>>
    BY DEF StartScheduler, Alive
  <1>3. clocks' \in [Schedulers -> Off..Interval] /\ 0 \in Ages /\ OldAge \in Ages
    <2>1. 1 \in Off..Interval
      BY DEF Off
    <2> QED BY <1>1, <1>2, <2>1 DEF TypeOK, Ages, OldAge
  <1>4. \A t \in Schedulers : sending'[t] # None => clocks'[t] = 0
    BY <1>1, <1>2 DEF Senders, TypeOK, Off
  <1>5. CASE \E t \in Schedulers : Alive(t)
    <2>1. apart' = 0 /\ since' = OldAge /\ burst' = 0
      BY <1>5 DEF StartScheduler
    <2>2. TypeOK'
      BY <1>1, <1>2, <1>3, <2>1 DEF TypeOK
    <2>3. \A x \in Ages : ~(x < 0)
      BY DEF Ages
    <2>4. Ordered'
      BY <1>1, <1>2, <2>1, <2>3, TopicTypes DEF Ordered, Sorted, Behind, InOrder, TypeOK
    <2>5. Senders'
      BY <1>4, <2>1 DEF Senders
    <2>6. InHand'
      BY <1>1, <1>2 DEF InHand, WindowOf, is_stale
    <2>7. Counts'
      BY <2>1 DEF Counts, OldAge
    <2> QED BY <2>2, <2>4, <2>5, <2>6, <2>7 DEF TickInv
  <1>6. CASE \A t \in Schedulers : ~Alive(t)
    <2>1. UNCHANGED <<apart, since, burst>>
      BY <1>6 DEF StartScheduler
    <2>2. TypeOK'
      BY <1>1, <1>2, <1>3, <2>1 DEF TypeOK
    <2>3. Ordered'
      BY <1>1, <1>2, <2>1 DEF Ordered, Sorted, Behind, InOrder
    <2>4. \A t \in Schedulers : t # s => clocks'[t] = Off
      BY <1>1, <1>2, <1>6 DEF Alive, TypeOK
    <2>5. Senders'
      BY <1>4, <2>4 DEF Senders, Alive
    <2>6. InHand' /\ Counts'
      BY <1>1, <1>2, <2>1, <2>2, WorkerUnmoved DEF Counts
    <2> QED BY <2>2, <2>3, <2>5, <2>6 DEF TickInv
  <1> QED BY <1>5, <1>6

LEMMA StopSchedulerKeeps ==
    ASSUME TickInv, NEW s \in Schedulers, StopScheduler(s)
    PROVE  TickInv'
  <1>1. TypeOK /\ Ordered /\ Senders /\ InHand /\ Counts
    BY DEF TickInv
  <1>2. /\ clocks' = [clocks EXCEPT ![s] = Off] /\ sending' = [sending EXCEPT ![s] = None]
        /\ UNCHANGED <<phase, topic, committed, worker, last, done, apart, since, burst>>
    BY DEF StopScheduler
  <1>3. TypeOK'
    <2>1. Off \in Off..Interval
      BY DEF Off
    <2> QED BY <1>1, <1>2, <2>1 DEF TypeOK
  <1>4. \A t \in Schedulers : sending'[t] # None =>
            t # s /\ sending'[t] = sending[t] /\ clocks'[t] = clocks[t]
    BY <1>1, <1>2 DEF TypeOK
  <1>5. Ordered'
    BY <1>1, <1>2, <1>4 DEF Ordered, Sorted, Behind, InOrder
  <1>6. \A t \in Schedulers : clocks'[t] # Off => clocks[t] # Off
    BY <1>1, <1>2 DEF TypeOK
  <1>7. Senders'
    BY <1>1, <1>2, <1>4, <1>6 DEF Senders, Alive
  <1>8. InHand' /\ Counts'
    BY <1>1, <1>2, <1>3, WorkerUnmoved DEF Counts
  <1> QED BY <1>3, <1>5, <1>7, <1>8 DEF TickInv

\* What is fired now was fired after everything else.
LEMMA FireKeeps ==
    ASSUME TickInv, NEW s \in Schedulers, Fire(s)
    PROVE  TickInv'
  <1>1. TypeOK /\ Ordered /\ Senders /\ InHand /\ Counts
    BY DEF TickInv
  <1>2. /\ clocks[s] = 0 /\ sending' = [sending EXCEPT ![s] = 0]
        /\ UNCHANGED <<phase, clocks, topic, committed, worker, last, done, apart, since, burst>>
    BY DEF Fire
  <1>3. TypeOK'
    <2>1. 0 \in 0..SendDelay
      OBVIOUS
    <2> QED BY <1>1, <1>2, <2>1 DEF TypeOK
  <1>4. \A t \in Schedulers : sending'[t] = IF t = s THEN 0 ELSE sending[t]
    BY <1>1, <1>2 DEF TypeOK
  <1>5. \A x \in Ages : InOrder(x, 0)
    BY DEF InOrder, Ages
  <1>6. (\A k \in 1..Len(topic) : topic[k] \in Ages) /\ (last # None => last \in Ages)
    BY <1>1, TopicTypes DEF TypeOK
  <1>7. Behind(topic)'
    <2> SUFFICES ASSUME NEW t \in Schedulers, sending'[t] # None
                 PROVE  /\ \A k \in 1..Len(topic) : InOrder(topic[k], sending'[t])
                        /\ last # None => InOrder(last, sending'[t])
      BY <1>2 DEF Behind, InOrder
    <2> QED BY <1>1, <1>4, <1>5, <1>6 DEF Ordered, Behind
  <1>8. Ordered'
    BY <1>1, <1>2, <1>7 DEF Ordered, Sorted, InOrder
  <1>9. Senders'
    BY <1>1, <1>2, <1>4 DEF Senders, Alive
  <1>10. InHand' /\ Counts'
    BY <1>1, <1>2, <1>3, WorkerUnmoved DEF Counts
  <1> QED BY <1>3, <1>8, <1>9, <1>10 DEF TickInv

\* A tick is stored behind everything stored and run; whatever another scheduler
\* is sending at that time is sent in an overlap.
LEMMA StoredInOrder ==
    ASSUME TypeOK, Ordered, Senders, NEW s \in Schedulers, sending[s] # None
    PROVE  /\ sending[s] \in Ages
           /\ \A k \in 1..Len(topic) : InOrder(topic[k], sending[s])
           /\ last # None => InOrder(last, sending[s])
           /\ \A t \in Schedulers : t # s /\ sending[t] # None => InOrder(sending[s], sending[t])
  <1>1. sending[s] \in Ages /\ sending[s] \in Nat
    BY DEF TypeOK, Ages, OldAge
  <1>2. ASSUME NEW t \in Schedulers, t # s, sending[t] # None
        PROVE  apart = 0
    BY <1>2 DEF Senders, Alive, Off
  <1> QED BY <1>1, <1>2 DEF Ordered, Behind, InOrder

LEMMA StoreUnansweredKeeps ==
    ASSUME TickInv, NEW s \in Schedulers, StoreUnanswered(s)
    PROVE  TickInv'
  <1>1. TypeOK /\ Ordered /\ Senders /\ InHand /\ Counts
    BY DEF TickInv
  <1>2. /\ sending[s] # None /\ topic' = Append(topic, sending[s])
        /\ UNCHANGED <<phase, clocks, sending, committed, worker, last, done, apart, since, burst>>
    BY DEF StoreUnanswered
  <1>3. /\ sending[s] \in Ages
        /\ \A k \in 1..Len(topic) : InOrder(topic[k], sending[s])
        /\ last # None => InOrder(last, sending[s])
        /\ \A t \in Schedulers : t # s /\ sending[t] # None => InOrder(sending[s], sending[t])
    BY <1>1, <1>2, StoredInOrder
  <1>4. /\ topic' \in Seq(Ages) /\ Sorted(topic') /\ Len(topic') = Len(topic) + 1
        /\ Len(topic) > 0 => topic'[1] = topic[1]
        /\ \A k \in 1..Len(topic') :
              topic'[k] = sending[s] \/ \E j \in 1..Len(topic) : topic'[k] = topic[j]
    BY <1>1, <1>2, <1>3, AppendLast DEF TypeOK, Ordered
  <1>5. Len(topic) \in Nat /\ topic' # <<>>
    BY <1>1, <1>4, TopicTypes DEF TypeOK
  <1>6. TypeOK'
    BY <1>1, <1>2, <1>4, <1>5 DEF TypeOK
  <1>7. Behind(topic)'
    <2> SUFFICES ASSUME NEW t \in Schedulers, sending[t] # None, NEW k \in 1..Len(topic')
                 PROVE  InOrder(topic'[k], sending[t])
      BY <1>1, <1>2 DEF Ordered, Behind, InOrder
    <2>1. InOrder(sending[s], sending[t])
      BY <1>3 DEF InOrder, Ages
    <2> QED BY <1>1, <1>4, <2>1 DEF Ordered, Behind
  <1>8. Ordered'
    BY <1>1, <1>2, <1>4, <1>7 DEF Ordered, Sorted, InOrder
  <1>9. Senders'
    BY <1>1, <1>2 DEF Senders, Alive
  <1>10. InHand' /\ Counts'
    BY <1>1, <1>2, <1>4, <1>6, WorkerUnmoved DEF Counts
  <1> QED BY <1>6, <1>8, <1>9, <1>10 DEF TickInv

LEMMA ReturnsKeeps ==
    ASSUME TickInv, NEW s \in Schedulers, Publish(s) \/ PublishFails(s)
    PROVE  TickInv'
  <1>1. TypeOK /\ Ordered /\ Senders /\ InHand /\ Counts
    BY DEF TickInv
  <1>2. /\ sending[s] # None /\ sending' = [sending EXCEPT ![s] = None]
        /\ clocks' = [clocks EXCEPT ![s] = Interval]
        /\ UNCHANGED <<phase, committed, worker, last, done, apart, since, burst>>
    BY DEF Publish, PublishFails, Returns
  <1>3. /\ sending[s] \in Ages
        /\ \A k \in 1..Len(topic) : InOrder(topic[k], sending[s])
        /\ last # None => InOrder(last, sending[s])
        /\ \A t \in Schedulers : t # s /\ sending[t] # None => InOrder(sending[s], sending[t])
    BY <1>1, <1>2, StoredInOrder
  <1>4. /\ topic' \in Seq(Ages) /\ Sorted(topic') /\ Len(topic') >= Len(topic)
        /\ Len(topic) > 0 => topic'[1] = topic[1]
        /\ \A k \in 1..Len(topic') :
              topic'[k] = sending[s] \/ \E j \in 1..Len(topic) : topic'[k] = topic[j]
    <2>1. CASE PublishFails(s)
      <3>1. topic' = topic
        BY <2>1 DEF PublishFails
      <3> QED BY <1>1, <3>1, TopicTypes DEF TypeOK, Ordered
    <2>2. CASE Publish(s)
      <3>1. topic' = Stored(sending[s]) /\ Room
        BY <2>2 DEF Publish
      <3> QED BY <1>1, <1>3, <3>1, StoreLast DEF Ordered
    <2> QED BY <2>1, <2>2
  <1>5. Len(topic) \in Nat /\ (topic # <<>> => topic' # <<>>)
    BY <1>1, <1>4, TopicTypes DEF TypeOK
  <1>6. clocks' \in [Schedulers -> Off..Interval]
    <2>1. Interval \in Off..Interval
      BY DEF Off
    <2> QED BY <1>1, <1>2, <2>1 DEF TypeOK
  <1>7. TypeOK'
    BY <1>1, <1>2, <1>4, <1>5, <1>6 DEF TypeOK
  <1>8. \A t \in Schedulers : /\ sending'[t] = IF t = s THEN None ELSE sending[t]
                              /\ clocks'[t] = IF t = s THEN Interval ELSE clocks[t]
    BY <1>1, <1>2 DEF TypeOK
  <1>9. Behind(topic)'
    <2> SUFFICES ASSUME NEW t \in Schedulers, t # s, sending[t] # None
                 PROVE  /\ \A k \in 1..Len(topic') : InOrder(topic'[k], sending[t])
                        /\ last # None => InOrder(last, sending[t])
      BY <1>2, <1>8 DEF Behind, InOrder
    <2> QED BY <1>1, <1>3, <1>4 DEF Ordered, Behind
  <1>10. Ordered'
    BY <1>1, <1>2, <1>4, <1>9 DEF Ordered, Sorted, InOrder
  <1>11. Senders'
    <2>1. clocks[s] # Off
      BY <1>1, <1>2 DEF Senders, Off
    <2>2. \A t \in Schedulers : clocks'[t] # Off => clocks[t] # Off
      BY <1>8, <2>1
    <2> QED BY <1>1, <1>2, <1>8, <2>2 DEF Senders, Alive
  <1>12. InHand' /\ Counts'
    BY <1>1, <1>2, <1>4, <1>7, WorkerUnmoved DEF Counts
  <1> QED BY <1>7, <1>10, <1>11, <1>12 DEF TickInv

\* Counting begins at the worker's start.
LEMMA StartKeeps ==
    ASSUME TickInv, Start
    PROVE  TickInv'
  <1>1. TypeOK /\ Ordered /\ Senders /\ InHand /\ Counts
    BY DEF TickInv
  <1>2. /\ last = None /\ done = {} /\ since = OldAge /\ <<>> \in Seq(Ages) /\ Len(<<>>) = 0
        /\ worker = "down" /\ worker' = "polling" /\ topic' \in {topic, <<>>}
        /\ UNCHANGED <<phase, clocks, sending, committed, last, done, apart, burst>>
        /\ since' \in {0, OldAge} /\ (since' # OldAge => apart = OldAge)
    BY <1>1 DEF InHand, Counts, Start
  <1>3. TypeOK'
    <2>1. topic' \in Seq(Ages)
      BY <1>1, <1>2 DEF TypeOK
    <2>2. 0 \in Ages /\ OldAge \in Ages
      BY DEF Ages, OldAge
    <2>3. since' \in Ages
      BY <1>2, <2>2
    <2> QED BY <1>1, <1>2, <2>1, <2>3 DEF TypeOK
  <1>4. Ordered' /\ Senders'
    BY <1>1, <1>2 DEF Ordered, Sorted, Behind, InOrder, Senders, Alive
  <1>5. InHand'
    BY <1>2 DEF InHand
  <1>6. Counts'
    <2>1. burst = 0
      BY <1>1, <1>2 DEF Counts, TypeOK, OldAge
    <2> QED BY <1>2, <2>1 DEF Counts
  <1> QED BY <1>3, <1>4, <1>5, <1>6 DEF TickInv

\* Nothing is left in hand, nor counted, once the process or its task is gone.
LEMMA ForgetKeeps ==
    ASSUME TickInv, Forget, worker' \in {"down", "dead"},
           UNCHANGED <<phase, clocks, sending, apart>>, committed' \in BOOLEAN,
           topic' = topic \/ (topic # <<>> /\ topic' = Tail(topic))
    PROVE  TickInv'
  <1>1. TypeOK /\ Ordered /\ Senders
    BY DEF TickInv
  <1>2. /\ topic' \in Seq(Ages)
        /\ \A k \in 1..Len(topic') : \E j \in 1..Len(topic) : topic'[k] = topic[j]
        /\ \A j, k \in 1..Len(topic') : j < k => InOrder(topic'[j], topic'[k])
    <2>1. CASE topic' = topic
      BY <1>1, <2>1 DEF TypeOK, Ordered, Sorted
    <2>2. CASE topic # <<>> /\ topic' = Tail(topic)
      <3>1. /\ topic' \in Seq(Ages) /\ Len(topic) \in Nat /\ Len(topic') = Len(topic) - 1
            /\ \A k \in 1..Len(topic') : k + 1 \in 1..Len(topic) /\ topic'[k] = topic[k + 1]
        BY <1>1, <2>2 DEF TypeOK
      <3>2. ASSUME NEW j \in 1..Len(topic'), NEW k \in 1..Len(topic'), j < k
            PROVE  j + 1 < k + 1
        <4>1. j \in Int /\ k \in Int
          BY <3>1
        <4> QED BY <3>2, <4>1
      <3> QED BY <1>1, <3>1, <3>2 DEF Ordered, Sorted
    <2> QED BY <2>1, <2>2
  <1>3. TypeOK'
    BY <1>1, <1>2 DEF TypeOK, Forget, Ages, OldAge
  <1>4. Ordered'
    <2>1. Sorted(topic)'
      BY <1>2 DEF Sorted, Forget, InOrder
    <2>2. Behind(topic)'
      BY <1>1, <1>2 DEF Ordered, Behind, Forget, InOrder
    <2> QED BY <2>1, <2>2 DEF Ordered, Forget
  <1>5. Senders'
    BY <1>1 DEF Senders, Alive
  <1>6. InHand' /\ Counts'
    BY DEF InHand, Counts, Forget, OldAge
  <1> QED BY <1>3, <1>4, <1>5, <1>6 DEF TickInv

\* A discarded tick is stale or of a window that was run; one that runs, of those
\* that waited, has a later window than the last, and one of three.
LEMMA HandleKeeps ==
    ASSUME TickInv, Handle
    PROVE  TickInv'
  <1> DEFINE tick == topic[1]
  <1>1. TypeOK /\ Ordered /\ Senders /\ InHand /\ Counts
    BY DEF TickInv
  <1>2. /\ worker = "polling" /\ topic # <<>>
        /\ UNCHANGED <<phase, clocks, sending, topic, committed, done, apart, since>>
    BY DEF Handle
  <1>3. /\ topic \in Seq(Ages) /\ Len(topic) \in Nat /\ Len(topic) > 0 /\ tick = Head(topic)
        /\ \A k \in 1..Len(topic) : topic[k] \in Ages /\ topic[k] \in Int
        /\ tick \in Ages /\ tick \in Int /\ tick # None
    BY <1>1, <1>2, TopicTypes DEF TypeOK, None
  <1>4. ~is_stale(tick) => WindowOf(tick) >= -2 /\ tick # OldAge
    BY <1>1, <1>3, Windows
  <1>5. WindowOf(tick) \in Int /\ WindowOf(tick) <= 0 /\ tick_id_for(tick) = WindowOf(tick)
    BY <1>1, <1>3, Windows DEF tick_id_for, WindowOf
  <1>6. ASSUME last # None
        PROVE  /\ last \in Ages /\ InOrder(last, tick)
               /\ WindowOf(last) \in Int /\ tick_id_for(last) = WindowOf(last)
               /\ last \in done \/ WindowOf(last) < -2
    <2>1. last \in Ages
      BY <1>1, <1>6 DEF TypeOK
    <2>2. InOrder(last, tick)
      BY <1>1, <1>3, <1>6 DEF Ordered, Sorted
    <2>3. last \in done \/ last = OldAge
      BY <1>1, <1>2, <1>6 DEF InHand
    <2> QED BY <1>1, <2>1, <2>2, <2>3, Windows DEF tick_id_for, WindowOf
  <1>7. CASE Discarded(tick)
    <2>1. worker' = "committing" /\ UNCHANGED <<last, burst>>
      BY <1>3, <1>7 DEF Handle
    <2>2. is_stale(tick) \/ \E a \in done : WindowOf(a) = WindowOf(tick)
      BY <1>4, <1>5, <1>6, <1>7 DEF Discarded
    <2>3. TypeOK'
      BY <1>1, <1>2, <2>1 DEF TypeOK
    <2>4. Ordered' /\ Senders'
      BY <1>1, <1>2, <2>1 DEF Ordered, Sorted, Behind, InOrder, Senders, Alive
    <2>5. InHand'
      BY <1>1, <1>2, <2>1, <2>2 DEF InHand, WindowOf, is_stale
    <2>6. Counts'
      BY <1>1, <1>2, <2>1 DEF Counts, WindowOf
    <2> QED BY <2>3, <2>4, <2>5, <2>6 DEF TickInv
  <1>8. CASE ~Discarded(tick)
    <2>1. worker' = "running" /\ last' = tick /\ burst' = Counted(tick)
      BY <1>3, <1>8 DEF Handle
    <2>2. ~is_stale(tick) /\ (last # None => WindowOf(last) # WindowOf(tick))
      BY <1>5, <1>6, <1>8 DEF Discarded
    <2>3. burst' \in {burst, burst + 1} /\ burst \in Nat
          /\ (tick >= since => burst' = burst + 1) /\ (~(tick >= since) => burst' = burst)
      BY <1>1, <2>1 DEF Counted, TypeOK
    <2>4. TypeOK'
      BY <1>1, <1>2, <1>3, <2>1, <2>3 DEF TypeOK
    <2>5. Ordered'
      <3>1. \A k \in 1..Len(topic) : InOrder(tick, topic[k])
        <4>1. SUFFICES ASSUME NEW k \in 1..Len(topic) PROVE InOrder(tick, topic[k])
          OBVIOUS
        <4>2. CASE k = 1
          BY <1>3, <4>2 DEF InOrder
        <4>3. CASE k # 1
          <5>1. 1 \in 1..Len(topic) /\ 1 < k
            BY <1>3, <4>3
          <5> QED BY <1>1, <5>1 DEF Ordered, Sorted
        <4> QED BY <4>2, <4>3
      <3>2. Sorted(topic)'
        BY <1>1, <1>2, <2>1, <3>1 DEF Ordered, Sorted, InOrder
      <3>3. Behind(topic)'
        <4>1. \A s \in Schedulers : sending[s] # None => InOrder(tick, sending[s])
          BY <1>1, <1>3 DEF Ordered, Behind
        <4> QED BY <1>1, <1>2, <2>1, <4>1 DEF Ordered, Behind, InOrder
      <3>4. \A a \in done : InOrder(a, tick)
        <4>1. SUFFICES ASSUME NEW a \in done PROVE InOrder(a, tick)
          OBVIOUS
        <4>2. a \in Int /\ last # None /\ last \in Int /\ apart \in Int
          BY <1>1, <4>1 DEF TypeOK, Ordered, Ages, OldAge, None
        <4>3. InOrder(a, last) /\ InOrder(last, tick)
          BY <1>1, <1>6, <4>1, <4>2 DEF Ordered
        <4> QED BY <1>3, <4>2, <4>3 DEF InOrder
      <3> QED BY <1>2, <1>3, <2>1, <3>2, <3>3, <3>4 DEF Ordered, InOrder
    <2>6. InHand'
      BY <1>2, <2>1 DEF InHand
    <2>7. Senders'
      BY <1>1, <1>2 DEF Senders, Alive
    <2>8. Counts'
      <3>1. WindowOf(last)' = WindowOf(tick) /\ WindowOf(since)' = WindowOf(since)
        BY <1>2, <2>1 DEF WindowOf
      <3>2. since \in Ages /\ since \in Int /\ OldAge \in Int
        BY <1>1 DEF TypeOK, Ages, OldAge
      <3>3. WindowOf(since) \in Int /\ WindowOf(since) <= 0
            /\ (tick >= since => WindowOf(tick) <= WindowOf(since))
        BY <1>1, <1>3, <3>2, Windows
      <3>4. tick >= since => since < OldAge
        BY <1>3, <1>4, <2>2, <3>2 DEF Ages
      <3>5. ASSUME burst > 0 PROVE WindowOf(last) < WindowOf(tick)
        <4>1. last # None /\ apart = OldAge
          BY <1>1, <3>5 DEF Counts
        <4>2. last >= tick
          BY <1>3, <1>6, <3>2, <4>1 DEF InOrder, Ages
        <4>3. WindowOf(last) <= WindowOf(tick)
          BY <1>1, <1>3, <1>6, <4>1, <4>2, Windows
        <4> QED BY <1>5, <1>6, <2>2, <4>1, <4>3
      <3>6. burst > 0 => /\ since < OldAge /\ WindowOf(last) \in Int
                         /\ burst <= 3 + WindowOf(last) - WindowOf(since)
        BY <1>1, <1>6 DEF Counts
      <3>7. burst' > 0 => since < OldAge /\ burst' <= 3 + WindowOf(tick) - WindowOf(since)
        <4>1. CASE burst = 0
          BY <1>4, <1>5, <2>2, <2>3, <3>3, <3>4, <4>1
        <4>2. CASE burst > 0
          BY <1>5, <2>3, <3>3, <3>5, <3>6, <4>2
        <4> QED BY <2>3, <4>1, <4>2
      <3>8. burst' <= 3
        <4>1. CASE tick >= since
          BY <1>5, <2>3, <3>3, <3>7, <4>1
        <4>2. CASE ~(tick >= since)
          BY <1>1, <2>3, <4>2 DEF Counts
        <4> QED BY <4>1, <4>2
      <3> QED BY <1>1, <1>2, <1>3, <2>1, <3>1, <3>7, <3>8 DEF Counts
    <2> QED BY <2>4, <2>5, <2>6, <2>7, <2>8 DEF TickInv
  <1> QED BY <1>7, <1>8

LEMMA FinishKeeps ==
    ASSUME TickInv, FinishCycle
    PROVE  TickInv'
  <1>1. TypeOK /\ Ordered /\ Senders /\ InHand /\ Counts
    BY DEF TickInv
  <1>2. worker = "running" /\ UNCHANGED <<phase, clocks, sending, topic, committed, apart>>
    BY DEF FinishCycle
  <1>3. CASE worker' = "dead" /\ Forget
    <2>1. committed' \in BOOLEAN /\ topic' = topic /\ worker' \in {"down", "dead"}
      BY <1>1, <1>2, <1>3 DEF TypeOK
    <2>2. UNCHANGED <<phase, clocks, sending, apart>>
      BY <1>2
    <2> QED BY <1>3, <2>1, <2>2, ForgetKeeps
  <1>4. CASE worker' = "committing" /\ done' = done \cup {Head(topic)}
             /\ UNCHANGED <<last, since, burst>>
    <2>1. /\ topic # <<>> /\ Head(topic) = topic[1] /\ last = topic[1]
          /\ topic[1] \in Ages /\ topic[1] \in Int
      BY <1>1, <1>2, TopicTypes DEF TypeOK, InHand
    <2>2. TypeOK'
      BY <1>1, <1>2, <1>4, <2>1 DEF TypeOK
    <2>3. InOrder(topic[1], last) /\ last # None
      BY <2>1 DEF InOrder, Ages, None
    <2>4. Ordered'
      BY <1>1, <1>2, <1>4, <2>1, <2>3 DEF Ordered, Sorted, Behind, InOrder
    <2>5. Senders'
      BY <1>1, <1>2 DEF Senders, Alive
    <2>6. InHand'
      BY <1>1, <1>2, <1>4, <2>1 DEF InHand, WindowOf, is_stale
    <2>7. Counts'
      BY <1>1, <1>2, <1>4 DEF Counts, WindowOf
    <2> QED BY <2>2, <2>4, <2>5, <2>6, <2>7 DEF TickInv
  <1> QED BY <1>3, <1>4 DEF FinishCycle

LEMMA CommitKeeps ==
    ASSUME TickInv, Commit
    PROVE  TickInv'
  <1>1. TypeOK /\ Ordered /\ Senders /\ InHand /\ Counts
    BY DEF TickInv
  <1>2. /\ worker = "committing" /\ topic # <<>> /\ committed' \in BOOLEAN
        /\ UNCHANGED <<phase, clocks, sending, apart>>
    BY <1>1 DEF Commit, TypeOK
  <1>3. CASE worker' = "dead" /\ Forget
    <2>1. topic' = topic \/ topic' = Tail(topic)
      BY DEF Commit
    <2>2. worker' \in {"down", "dead"} /\ (topic' = topic \/ (topic # <<>> /\ topic' = Tail(topic)))
      BY <1>2, <1>3, <2>1
    <2>3. UNCHANGED <<phase, clocks, sending, apart>> /\ committed' \in BOOLEAN
      BY <1>2
    <2> QED BY <1>3, <2>2, <2>3, ForgetKeeps
  <1>4. CASE worker' = "polling" /\ UNCHANGED <<last, done, since, burst>>
    <2>0. topic' = Tail(topic)
      BY <1>4 DEF Commit
    <2>1. /\ topic' \in Seq(Ages) /\ Len(topic) \in Nat /\ Len(topic') = Len(topic) - 1
          /\ \A k \in 1..Len(topic') : k + 1 \in 1..Len(topic) /\ topic'[k] = topic[k + 1]
      BY <1>1, <1>2, <2>0 DEF TypeOK
    <2>2. TypeOK'
      BY <1>1, <1>2, <1>4, <2>1 DEF TypeOK
    <2>3. Ordered'
      <3>0. \A j, k \in 1..Len(topic') : j < k => j + 1 < k + 1
        BY <2>1
      <3>1. Sorted(topic)'
        BY <1>1, <1>2, <1>4, <2>1, <3>0 DEF Ordered, Sorted, InOrder
      <3>2. Behind(topic)'
        BY <1>1, <1>2, <1>4, <2>1 DEF Ordered, Behind, InOrder
      <3> QED BY <1>1, <1>2, <1>4, <3>1, <3>2 DEF Ordered, InOrder
    <2>4. Senders'
      BY <1>1, <1>2 DEF Senders, Alive
    <2>5. InHand' /\ Counts'
      BY <1>1, <1>2, <1>4 DEF InHand, Counts, WindowOf
    <2> QED BY <2>2, <2>3, <2>4, <2>5 DEF TickInv
  <1> QED BY <1>3, <1>4 DEF Commit

LEMMA StopKeeps ==
    ASSUME TickInv, Stop
    PROVE  TickInv'
  <1>1. /\ Forget /\ worker' \in {"down", "dead"} /\ topic' = topic
        /\ UNCHANGED <<phase, clocks, sending, apart>> /\ committed' \in BOOLEAN
    BY DEF Stop, TickInv, TypeOK
  <1> QED BY <1>1, ForgetKeeps

-----------------------------------------------------------------------------
(* Time passing: every age grows alike, and the windows shift by none or one. *)

LEMMA OlderKeepsOrder ==
    ASSUME NEW a \in Ages, NEW b \in Ages
    PROVE  /\ Older(a) \in Ages /\ Older(a) # None
           /\ a >= b => Older(a) >= Older(b)
           /\ Older(a) < OldAge => a < OldAge /\ Older(a) = a + 1
  BY DEF Older, Ages, OldAge, None

LEMMA DivShift ==
    ASSUME NEW I \in Nat \ {0}, NEW x \in Int
    PROVE  (x - I) \div I = (x \div I) - 1
  OBVIOUS

\* Two ages that grow keep the windows between them, but that the older may have
\* reached OldAge.
LEMMA WindowsShift ==
    ASSUME TypeOK, phase' = (phase + 1) % Interval,
           NEW a \in Ages, NEW b \in Ages, b < OldAge
    PROVE  LET W(x) == (phase' - x) \div Interval IN
           /\ W(Older(a)) \in Int /\ W(Older(b)) \in Int
           /\ W(Older(a)) - W(Older(b)) >= WindowOf(a) - WindowOf(b)
  <1> DEFINE shift == IF phase + 1 = Interval THEN Interval ELSE 0
             W(x) == (phase' - x) \div Interval
  <1>1. /\ Interval \in Nat \ {0} /\ phase \in Int /\ 0 <= phase /\ phase < Interval
        /\ a \in Int /\ b \in Int /\ 0 <= a /\ a <= OldAge /\ OldAge \in Int
    BY DEF TypeOK, Ages, OldAge
  <1>2. phase' = phase + 1 - shift
    <2>1. CASE phase + 1 = Interval
      BY <1>1, <2>1
    <2>2. CASE phase + 1 < Interval
      BY <1>1, <2>2
    <2> QED BY <1>1, <2>1, <2>2
  <1>3. phase' \in Int
    BY <1>1, <1>2
  <1>4. ASSUME NEW x \in Int
        PROVE  /\ W(x + 1) \in Int /\ WindowOf(x) \in Int
               /\ W(x + 1) = IF phase + 1 = Interval THEN WindowOf(x) - 1 ELSE WindowOf(x)
    <2>1. phase' - (x + 1) = (phase - x) - shift /\ phase - x \in Int
      BY <1>1, <1>2
    <2>2. (phase - x) \div Interval \in Int
      BY <1>1, <2>1, DivMonotone
    <2>3. ((phase - x) - Interval) \div Interval = ((phase - x) \div Interval) - 1
      BY <1>1, <2>1, DivShift
    <2>4. CASE phase + 1 = Interval
      BY <2>1, <2>2, <2>3, <2>4 DEF WindowOf
    <2>5. CASE phase + 1 # Interval
      BY <1>1, <2>1, <2>2, <2>5 DEF WindowOf
    <2> QED BY <2>4, <2>5
  <1>5. Older(b) = b + 1 /\ Older(a) \in Int /\ Older(a) <= a + 1 /\ a + 1 \in Int
    BY <1>1 DEF Older
  <1>6. W(Older(a)) >= W(a + 1) /\ W(Older(a)) \in Int
    <2>1. phase' - (a + 1) \in Int /\ phase' - Older(a) \in Int /\ phase' - (a + 1) <= phase' - Older(a)
      BY <1>1, <1>3, <1>5
    <2> QED BY <1>1, <2>1, DivMonotone
  <1>7. /\ W(Older(a)) \in Int /\ W(Older(b)) \in Int
        /\ W(Older(a)) - W(Older(b)) >= WindowOf(a) - WindowOf(b)
    <2> HIDE DEF W
    <2> QED BY <1>1, <1>4, <1>5, <1>6
  <1> QED BY <1>7

LEMMA PassKeeps ==
    ASSUME TickInv, Pass
    PROVE  TickInv'
  <1>1. TypeOK /\ Ordered /\ Senders /\ InHand /\ Counts
    BY DEF TickInv
  <1>2. /\ worker # "committing"
        /\ phase' = (phase + 1) % Interval
        /\ clocks' = [s \in Schedulers |-> IF clocks[s] > 0 THEN clocks[s] - 1 ELSE clocks[s]]
        /\ sending' = [s \in Schedulers |-> IF sending[s] = None THEN None ELSE sending[s] + 1]
        /\ topic' = [k \in DOMAIN topic |-> Older(topic[k])]
        /\ last' = IF last = None THEN None ELSE Older(last)
        /\ done' = {a \in Ages : a - 1 \in done /\ a < OldAge}
        /\ apart' = IF \E s, t \in Schedulers : s # t /\ Alive(s) /\ Alive(t)
                    THEN 0 ELSE Older(apart)
        /\ since' = Older(since) /\ burst' = (IF since' = OldAge THEN 0 ELSE burst)
        /\ UNCHANGED <<committed, worker>>
        /\ \A s \in Schedulers : clocks[s] = 0 => sending[s] \in 0..(SendDelay - 1)
    BY DEF Pass
  <1>3. /\ Interval \in Nat \ {0} /\ OldAge \in Nat /\ OldAge > Interval
        /\ SendDelay \in Nat /\ SendDelay <= Interval /\ 0 \in Ages /\ OldAge \in Ages
    BY DEF OldAge, Ages
  <1>4. /\ Len(topic) \in Nat /\ DOMAIN topic = 1..Len(topic)
        /\ \A k \in 1..Len(topic) : topic[k] \in Nat /\ topic[k] \in Ages
        /\ topic # <<>> <=> Len(topic) > 0
    BY <1>1, TopicTypes DEF TypeOK
  <1>5. /\ topic' \in Seq(Ages) /\ Len(topic') = Len(topic)
        /\ \A k \in 1..Len(topic) : topic'[k] = Older(topic[k])
    <2>1. \A k \in 1..Len(topic) : Older(topic[k]) \in Ages
      BY <1>4, OlderKeepsOrder
    <2> QED BY <1>2, <1>4, <2>1
  <1>6. /\ last \in Ages \cup {None} /\ (last # None => last' = Older(last))
        /\ (last # None <=> last' # None) /\ last' \in Ages \cup {None}
    BY <1>1, <1>2, OlderKeepsOrder DEF TypeOK
  <1>7. ASSUME NEW s \in Schedulers
        PROVE  /\ (Off < clocks'[s] <=> Off < clocks[s]) /\ (Alive(s)' <=> Alive(s))
               /\ clocks'[s] \in Off..Interval
               /\ clocks[s] = 0 => clocks'[s] = 0
    <2>1. clocks[s] \in Off..Interval /\ clocks'[s] = IF clocks[s] > 0 THEN clocks[s] - 1 ELSE clocks[s]
      BY <1>1, <1>2 DEF TypeOK
    <2>2. clocks'[s] \in Off..Interval /\ (clocks'[s] = Off <=> clocks[s] = Off)
      BY <1>3, <2>1 DEF Off
    <2> QED BY <2>1, <2>2 DEF Off, Alive
  <1>8. ASSUME NEW s \in Schedulers
        PROVE  /\ sending'[s] \in 0..SendDelay \cup {None}
               /\ sending'[s] # None <=> sending[s] # None
               /\ sending[s] # None => /\ clocks[s] = 0 /\ sending[s] \in Ages
                                       /\ sending'[s] = Older(sending[s])
    <2>1. sending'[s] = IF sending[s] = None THEN None ELSE sending[s] + 1
      BY <1>2
    <2>2. CASE sending[s] = None
      BY <2>1, <2>2
    <2>3. CASE sending[s] # None
      <3>1. clocks[s] = 0 /\ sending[s] \in 0..(SendDelay - 1)
        BY <1>1, <1>2, <2>3 DEF Senders
      <3>2. sending[s] \in Int /\ 0 <= sending[s] /\ sending[s] < OldAge /\ sending[s] + 1 <= SendDelay
        BY <1>3, <3>1
      <3> QED BY <1>3, <2>1, <2>3, <3>1, <3>2 DEF Older, Ages, None
    <2> QED BY <2>2, <2>3
  <1>9. apart \in Ages /\ since \in Ages /\ burst \in Nat /\ phase \in Int
    BY <1>1 DEF TypeOK
  <1>10. TypeOK'
    <2>1. phase' \in 0..(Interval - 1)
      BY <1>2, <1>3, <1>9
    <2>2. clocks' \in [Schedulers -> Off..Interval]
      BY <1>2, <1>7
    <2>3. sending' \in [Schedulers -> 0..SendDelay \cup {None}]
      BY <1>2, <1>8
    <2>4. done' \subseteq Ages /\ burst' \in Nat /\ committed' \in BOOLEAN
      BY <1>1, <1>2, <1>9 DEF TypeOK
    <2>5. apart' \in Ages /\ since' \in Ages
      BY <1>2, <1>3, <1>9, OlderKeepsOrder
    <2>6. worker' \in {"running", "committing"} => topic' # <<>>
      <3>1. topic' # <<>> <=> Len(topic') > 0
        BY <1>5, TopicTypes
      <3> QED BY <1>1, <1>2, <1>4, <1>5, <3>1 DEF TypeOK
    <2> QED BY <1>1, <1>2, <1>5, <1>6, <2>1, <2>2, <2>3, <2>4, <2>5, <2>6 DEF TypeOK
  <1>11. ASSUME NEW x \in Ages, NEW y \in Ages, InOrder(x, y), Older(x) < apart'
         PROVE  Older(y) <= Older(x)
    <2>1. x \in Int /\ y \in Int /\ apart \in Int /\ Older(x) \in Int /\ Older(x) >= 0
      BY <1>3, <1>9 DEF Ages, Older
    <2>2. apart' = Older(apart)
      BY <1>2, <1>11, <2>1
    <2>3. Older(apart) \in Int /\ Older(y) \in Int
      BY <1>3, <1>9, <2>1 DEF Older
    <2>4. x < apart
      BY <1>9, <1>11, <2>1, <2>2, <2>3, OlderKeepsOrder
    <2> QED BY <1>11, <2>1, <2>3, <2>4, OlderKeepsOrder DEF InOrder
  <1>12. Ordered'
    <2>1. Sorted(topic)'
      <3>1. ASSUME NEW j \in 1..Len(topic), NEW k \in 1..Len(topic), j < k
            PROVE  InOrder(topic[j], topic[k])'
        BY <1>1, <1>4, <1>5, <1>11, <3>1 DEF Ordered, Sorted, InOrder
      <3>2. ASSUME last # None, NEW k \in 1..Len(topic) PROVE InOrder(last, topic[k])'
        BY <1>1, <1>4, <1>5, <1>6, <1>11, <3>2 DEF Ordered, Sorted, InOrder
      <3> QED BY <1>5, <1>6, <3>1, <3>2 DEF Sorted
    <2>2. Behind(topic)'
      <3>1. ASSUME NEW s \in Schedulers, sending[s] # None, NEW k \in 1..Len(topic)
            PROVE  InOrder(topic[k], sending[s])'
        BY <1>1, <1>4, <1>5, <1>8, <1>11, <3>1 DEF Ordered, Behind, InOrder
      <3>2. ASSUME NEW s \in Schedulers, sending[s] # None, last # None
            PROVE  InOrder(last, sending[s])'
        BY <1>1, <1>6, <1>8, <1>11, <3>2 DEF Ordered, Behind, InOrder
      <3> QED BY <1>5, <1>6, <1>8, <3>1, <3>2 DEF Behind
    <2>3. ASSUME NEW a \in done' PROVE last # None /\ InOrder(a, last)'
      <3>1. a \in Ages /\ a - 1 \in done /\ a < OldAge
        BY <1>2
      <3>2. a - 1 \in Ages /\ last # None /\ InOrder(a - 1, last)
        BY <1>1, <3>1 DEF Ordered, TypeOK
      <3>3. Older(a - 1) = a
        BY <1>3, <3>1 DEF Older, Ages
      <3> QED BY <1>6, <1>11, <3>2, <3>3 DEF InOrder
    <2> QED BY <1>6, <2>1, <2>2, <2>3 DEF Ordered
  <1>13. Senders'
    <2>1. ASSUME NEW s \in Schedulers, NEW t \in Schedulers, s # t, Alive(s)', Alive(t)'
          PROVE  apart' = 0
      BY <1>2, <1>7, <2>1
    <2>2. ASSUME NEW s \in Schedulers, sending'[s] # None PROVE clocks'[s] = 0
      BY <1>7, <1>8, <2>2
    <2> QED BY <2>1, <2>2 DEF Senders
  <1>14. InHand'
    <2>1. worker = "running" => last' = topic'[1]
      <3>1. SUFFICES ASSUME worker = "running" PROVE last' = topic'[1]
        OBVIOUS
      <3>2. last = topic[1] /\ Len(topic) > 0 /\ 1 \in 1..Len(topic)
        BY <1>1, <1>4, <3>1 DEF InHand, TypeOK
      <3>3. last # None
        BY <1>4, <3>2 DEF None
      <3> QED BY <1>5, <1>6, <3>2, <3>3
    <2>2. worker = "polling" /\ last' # None => last' \in done' \/ last' = OldAge
      <3>1. SUFFICES ASSUME worker = "polling", last # None
                     PROVE  last' \in done' \/ last' = OldAge
        BY <1>6
      <3>2. last \in Ages /\ last \in Int /\ 0 <= last /\ last <= OldAge /\ last' = Older(last)
            /\ (last \in done \/ last = OldAge)
        BY <1>1, <1>3, <1>6, <3>1 DEF Ages, InHand
      <3>3. CASE last = OldAge \/ last + 1 = OldAge
        BY <1>3, <3>2, <3>3 DEF Older
      <3>4. CASE last + 1 < OldAge
        <4>1. last' = last + 1 /\ last + 1 \in Ages /\ (last + 1) - 1 = last /\ last \in done
          BY <1>3, <3>2, <3>4 DEF Older, Ages
        <4> QED BY <1>2, <3>4, <4>1
      <3> QED BY <1>3, <3>2, <3>3, <3>4
    <2>3. worker \in {"down", "dead"} => last' = None /\ done' = {}
      BY <1>1, <1>2 DEF InHand
    <2> QED BY <1>2, <2>1, <2>2, <2>3 DEF InHand
  <1>15. Counts'
    <2>0. Older(OldAge) = OldAge
      BY <1>3 DEF Older
    <2>1. since' < OldAge => since < OldAge /\ apart = OldAge
      BY <1>1, <1>2, <1>9, OlderKeepsOrder DEF Counts
    <2>2. ASSUME apart = OldAge PROVE apart' = OldAge
      <3>1. ~ \E s, t \in Schedulers : s # t /\ Alive(s) /\ Alive(t)
        BY <1>1, <1>3, <2>2 DEF Senders
      <3>2. apart' = Older(apart)
        BY <1>2, <3>1
      <3> QED BY <2>0, <2>2, <3>2
    <2>3. worker \in {"down", "dead"} => since' = OldAge
      BY <1>1, <1>2, <2>0 DEF Counts
    <2>4. ASSUME burst' > 0
          PROVE  /\ since' < OldAge /\ last' # None
                 /\ burst' <= 3 + WindowOf(last)' - WindowOf(since)'
      <3>1. burst' = burst /\ since' # OldAge
        BY <1>2, <1>9, <2>4
      <3>2. since' < OldAge
        BY <1>2, <1>3, <1>9, <3>1, OlderKeepsOrder DEF Ages
      <3>3. since < OldAge /\ last # None /\ burst <= 3 + WindowOf(last) - WindowOf(since)
        BY <1>1, <2>4, <3>1 DEF Counts
      <3>4. last \in Ages /\ last' = Older(last) /\ since' = Older(since)
        BY <1>2, <1>6, <3>3
      <3>5. WindowOf(last) \in Int /\ WindowOf(since) \in Int
        BY <1>1, <1>9, <3>4, Windows
      <3>6. LET W(x) == (phase' - x) \div Interval IN
            /\ W(Older(last)) \in Int /\ W(Older(since)) \in Int
            /\ W(Older(last)) - W(Older(since)) >= WindowOf(last) - WindowOf(since)
        BY <1>1, <1>2, <1>9, <3>3, <3>4, WindowsShift
      <3>7. /\ WindowOf(last)' \in Int /\ WindowOf(since)' \in Int
            /\ WindowOf(last)' - WindowOf(since)' >= WindowOf(last) - WindowOf(since)
        BY <3>4, <3>6 DEF WindowOf
      <3>8. burst' <= 3 + WindowOf(last)' - WindowOf(since)'
        <4> HIDE DEF WindowOf
        <4> QED BY <1>9, <3>1, <3>3, <3>5, <3>7
      <3> QED BY <1>6, <3>2, <3>3, <3>8
    <2>5. burst' <= 3
      BY <1>1, <1>2 DEF Counts
    <2> QED BY <1>2, <2>1, <2>2, <2>3, <2>4, <2>5 DEF Counts, OldAge
  <1> QED BY <1>10, <1>12, <1>13, <1>14, <1>15 DEF TickInv

LEMMA NextKeeps == TickInv /\ [Next]_vars => TickInv'
  <1> SUFFICES ASSUME TickInv, [Next]_vars PROVE TickInv'
    OBVIOUS
  <1>1. CASE UNCHANGED vars
    BY <1>1 DEF TickInv, TypeOK, Ordered, Sorted, Behind, InOrder, Senders, Alive, InHand,
                Counts, WindowOf, is_stale, vars
  <1>2. ASSUME NEW s \in Schedulers,
               \/ StartScheduler(s) \/ StopScheduler(s)
               \/ Fire(s) \/ StoreUnanswered(s) \/ Publish(s) \/ PublishFails(s)
        PROVE  TickInv'
    BY <1>2, StartSchedulerKeeps, StopSchedulerKeeps, FireKeeps, StoreUnansweredKeeps,
       ReturnsKeeps
  <1>3. CASE Start \/ Stop \/ Handle \/ FinishCycle \/ Commit \/ Pass
    BY <1>3, StartKeeps, StopKeeps, HandleKeeps, FinishKeeps, CommitKeeps, PassKeeps
  <1> QED BY <1>1, <1>2, <1>3 DEF Next

-----------------------------------------------------------------------------

\* The inductive invariant: what was run, what is stored and what is being sent
\* are in the order of firing since the last overlap of two schedulers, and the
\* cycles run for what waited have increasing windows.
THEOREM TickInvariant == Spec => []TickInv
  BY InitHolds, NextKeeps, PTL DEF Spec

\* The types of the clock: what the worker has in hand is at the head of the
\* topic (consumer.py, run).
THEOREM TickTypeCorrect == Spec => []TypeOK
  <1>1. TickInv => TypeOK
    BY DEF TickInv
  <1> QED BY <1>1, TickInvariant, PTL

\* What a worker finds waiting at its start, fired by one scheduler at a time,
\* takes three cycles at most (ticks.py, is_stale).
THEOREM BacklogAlwaysCollapsed == Spec => []BacklogIsCollapsed
  <1>1. TickInv => BacklogIsCollapsed
    BY DEF TickInv, Counts, BacklogIsCollapsed
  <1> QED BY <1>1, TickInvariant, PTL

\* Away from an overlap of two schedulers no window is run twice by one process
\* (consumer.py, _handle).
THEOREM WindowAlwaysRunsOnce == Spec => WindowRunsOnce
  <1> DEFINE Step == (worker = "polling" /\ worker' = "running" /\ apart = OldAge) =>
                        \A a \in done : WindowOf(a) # WindowOf(Head(topic))
  <1>1. TickInv /\ [Next]_vars => [Step]_vars
    <2> SUFFICES ASSUME TickInv, Next, worker = "polling", worker' = "running",
                        apart = OldAge, NEW a \in done
                 PROVE  WindowOf(a) # WindowOf(Head(topic))
      OBVIOUS
    <2>1. Handle
      BY DEF Next, StartScheduler, StopScheduler, Fire, StoreUnanswered, Publish, PublishFails,
             Returns, Start, Stop, FinishCycle, Commit, Pass
    <2>2. TypeOK /\ Ordered /\ topic # <<>> /\ ~Discarded(Head(topic))
      BY <2>1 DEF Handle, TickInv
    <2>3. /\ Head(topic) = topic[1] /\ topic[1] \in Ages /\ 1 \in 1..Len(topic)
          /\ ~is_stale(topic[1])
      BY <2>2, TopicTypes DEF TypeOK, Discarded
    <2>4. last # None /\ last \in Ages /\ a \in Ages /\ InOrder(a, last) /\ InOrder(last, topic[1])
      BY <2>2, <2>3 DEF TypeOK, Ordered, Sorted
    <2>5. \A x \in Ages : x \in Int /\ x <= OldAge /\ OldAge \in Int
      BY DEF Ages, OldAge
    <2>6. topic[1] # OldAge
      BY <2>2, <2>3, Windows
    <2>7. topic[1] <= last /\ (last < OldAge => last <= a)
      BY <2>3, <2>4, <2>5 DEF InOrder
    <2>8. last <= a
      BY <2>4, <2>5, <2>7 DEF InOrder
    <2>9. WindowOf(last) # WindowOf(topic[1])
      BY <2>2, <2>3, <2>4 DEF Discarded, tick_id_for, WindowOf
    <2>10. /\ WindowOf(a) \in Int /\ WindowOf(last) \in Int /\ WindowOf(topic[1]) \in Int
           /\ WindowOf(a) <= WindowOf(last) /\ WindowOf(last) <= WindowOf(topic[1])
      BY <2>2, <2>3, <2>4, <2>7, <2>8, Windows
    <2> QED BY <2>3, <2>9, <2>10
  <1> QED BY <1>1, TickInvariant, PTL DEF Spec, WindowRunsOnce

\* What is committed was handled (consumer.py, run: commit after _handle).
THEOREM CommittedAlwaysHandled == Spec => CommittedWasHandled
  <1> DEFINE Step == (worker = "committing" /\ topic' # topic) =>
                        LET tick == Head(topic) IN
                        is_stale(tick) \/ \E a \in done : WindowOf(a) = WindowOf(tick)
  <1>1. ASSUME TickInv, Next, worker = "committing", topic' # topic
        PROVE  is_stale(topic[1]) \/ \E a \in done : WindowOf(a) = WindowOf(topic[1])
    BY <1>1 DEF TickInv, InHand
  <1>2. TickInv /\ [Next]_vars => [Step]_vars
    <2>1. TickInv /\ worker = "committing" => Head(topic) = topic[1]
      BY TopicTypes DEF TickInv, TypeOK
    <2> QED BY <1>1, <2>1
  <1> QED BY <1>2, TickInvariant, PTL DEF Spec, CommittedWasHandled
=============================================================================
