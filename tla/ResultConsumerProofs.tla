------------------------ MODULE ResultConsumerProofs ------------------------
(***************************************************************************)
(* What ResultConsumer keeps for any topic length.  A reader never has     *)
(* read past what is committed, and what it hands over is committed, so    *)
(* each position handed is greater than all before it, and only the        *)
(* message in hand can be lost.                                            *)
(***************************************************************************)
EXTENDS ResultConsumer, TLAPS

\* The reader and the group's offset.
ReaderIsCommitted ==
    /\ pc \in {"reading", "applying"} => position = committed
    /\ pc = "applying" => position > 0

\* What was handed lies behind the offset, and behind a message in hand.
HandedIsCommitted ==
    /\ \A k \in 1..Len(handed) : handed[k] <= committed
    /\ pc = "applying" => \A k \in 1..Len(handed) : handed[k] < position

ConsumerInv ==
    /\ TypeOK
    /\ ReaderIsCommitted
    /\ HandedIsCommitted
    /\ AppliedInOrderOnce

-----------------------------------------------------------------------------
(* Results are handed over in order.                                         *)

\* A sequence that grows stays so when something greater is appended.
LEMMA AppendGreater ==
    ASSUME NEW q, NEW m \in Nat, q \in Seq(1..m), NEW x \in Nat, \A k \in 1..Len(q) : q[k] < x
    PROVE  LET r == Append(q, x) IN
           /\ \A k \in 1..Len(r) : r[k] <= x
           /\ (\A j, k \in 1..Len(q) : j < k => q[j] < q[k])
                 => \A j, k \in 1..Len(r) : j < k => r[j] < r[k]
  <1> DEFINE r == Append(q, x)
  <1>1. Len(q) \in Nat /\ \A k \in 1..Len(q) : q[k] \in Nat
    OBVIOUS
  <1>2. Len(r) = Len(q) + 1 /\ \A k \in 1..Len(q) : r[k] = q[k]
    BY <1>1
  <1>3. r[Len(q) + 1] = x
    BY <1>1, <1>2
  <1> HIDE DEF r
  <1>4. \A k \in 1..Len(r) : k \in 1..Len(q) \/ k = Len(q) + 1
    BY <1>1, <1>2
  <1>5. ASSUME NEW k \in 1..Len(r) PROVE r[k] <= x
    <2>1. CASE k \in 1..Len(q)
      <3>1. r[k] = q[k] /\ q[k] \in Nat /\ q[k] < x
        BY <1>1, <1>2, <2>1
      <3> QED BY <3>1
    <2>2. CASE k = Len(q) + 1
      BY <1>3, <2>2
    <2> QED BY <1>4, <2>1, <2>2
  <1>6. ASSUME \A j, k \in 1..Len(q) : j < k => q[j] < q[k],
               NEW j \in 1..Len(r), NEW k \in 1..Len(r), j < k
        PROVE  r[j] < r[k]
    <2>1. j \in 1..Len(q)
      BY <1>1, <1>2, <1>6
    <2> QED BY <1>1, <1>2, <1>3, <1>4, <1>6, <2>1
  <1> QED BY <1>5, <1>6 DEF r

LEMMA InitHolds == Init => ConsumerInv
  <1> SUFFICES ASSUME Init PROVE ConsumerInv
    OBVIOUS
  <1>1. Len(<<>>) = 0
    OBVIOUS
  <1>2. handed \in Seq(1..Len(topic)) /\ topic \in Seq({"result", "invalid"})
    BY DEF Init
  <1>3. committed \in 0..Len(topic) /\ position \in 0..Len(topic)
    BY <1>1 DEF Init
  <1>4. TypeOK
    BY <1>1, <1>2, <1>3 DEF Init, TypeOK
  <1> QED BY <1>1, <1>4 DEF Init, ConsumerInv, ReaderIsCommitted, HandedIsCommitted, AppliedInOrderOnce

\* The topic grows behind everything the reader has seen.
LEMMA AnswerKeeps ==
    ASSUME ConsumerInv, RiskServiceAnswers
    PROVE  ConsumerInv'
  <1>1. /\ TypeOK /\ ReaderIsCommitted /\ HandedIsCommitted /\ AppliedInOrderOnce
        /\ UNCHANGED <<kafka, committed, pc, assigned, position, handed>>
    BY DEF ConsumerInv, RiskServiceAnswers
  <1>2. /\ topic' \in Seq({"result", "invalid"}) /\ created' = TRUE
        /\ Len(topic) \in Nat /\ Len(topic') = Len(topic) + 1
    BY <1>1 DEF RiskServiceAnswers, TypeOK
  <1>3. handed \in Seq(1..Len(topic'))
    <2>1. 1..Len(topic) \subseteq 1..Len(topic')
      BY <1>2
    <2>2. \A S, T : S \subseteq T => Seq(S) \subseteq Seq(T)
      OBVIOUS
    <2> QED BY <1>1, <2>1, <2>2 DEF TypeOK
  <1>4. committed' \in 0..Len(topic') /\ position' \in 0..Len(topic')
    BY <1>1, <1>2 DEF TypeOK
  <1>5. TypeOK'
    BY <1>1, <1>2, <1>3, <1>4 DEF TypeOK
  <1> QED BY <1>1, <1>5 DEF ConsumerInv, ReaderIsCommitted, HandedIsCommitted, AppliedInOrderOnce

\* Reading moves the offset over the message put in hand.
LEMMA ReadKeeps ==
    ASSUME ConsumerInv, ReadMessage
    PROVE  ConsumerInv'
  <1>1. /\ TypeOK /\ ReaderIsCommitted /\ HandedIsCommitted /\ AppliedInOrderOnce
        /\ UNCHANGED <<kafka, created, topic, assigned, handed>>
        /\ pc = "reading" /\ position < Len(topic)
        /\ position' = position + 1 /\ committed' = position' /\ pc' = "applying"
    BY DEF ConsumerInv, ReadMessage
  <1>2. position = committed /\ position \in Nat /\ Len(topic) \in Nat
    BY <1>1 DEF TypeOK, ReaderIsCommitted
  <1>3. \A k \in 1..Len(handed) : handed[k] \in Nat /\ handed[k] <= committed
    BY <1>1 DEF TypeOK, HandedIsCommitted
  <1>4. TypeOK'
    BY <1>1, <1>2 DEF TypeOK
  <1>5. ReaderIsCommitted' /\ HandedIsCommitted'
    BY <1>1, <1>2, <1>3 DEF ReaderIsCommitted, HandedIsCommitted
  <1> QED BY <1>1, <1>4, <1>5 DEF ConsumerInv, AppliedInOrderOnce

LEMMA ReadFailsKeeps ==
    ASSUME ConsumerInv, ReadMessageFails
    PROVE  ConsumerInv'
  <1>1. /\ TypeOK /\ ReaderIsCommitted /\ HandedIsCommitted /\ AppliedInOrderOnce
        /\ UNCHANGED <<kafka, created, topic, assigned, position, handed>>
        /\ pc = "reading" /\ pc' = "waiting"
    BY DEF ConsumerInv, ReadMessageFails
  <1>2. position = committed /\ position \in Nat /\ committed \in 0..Len(topic) /\ Len(topic) \in Nat
    BY <1>1 DEF TypeOK, ReaderIsCommitted
  <1>3. committed' \in 0..Len(topic) /\ committed <= committed'
    BY <1>2 DEF ReadMessageFails
  <1>5. \A k \in 1..Len(handed) : handed[k] \in Nat /\ handed[k] <= committed'
    BY <1>1, <1>2, <1>3 DEF TypeOK, HandedIsCommitted
  <1>6. TypeOK'
    BY <1>1, <1>3 DEF TypeOK
  <1> QED BY <1>1, <1>5, <1>6 DEF ConsumerInv, ReaderIsCommitted, HandedIsCommitted, AppliedInOrderOnce

\* The position appended is greater than all handed before.
LEMMA ApplyKeeps ==
    ASSUME ConsumerInv, Apply
    PROVE  ConsumerInv'
  <1>1. /\ TypeOK /\ ReaderIsCommitted /\ HandedIsCommitted /\ AppliedInOrderOnce
        /\ UNCHANGED <<kafka, created, topic, committed, assigned, position>>
        /\ pc = "applying" /\ pc' = "reading"
        /\ handed' = handed \/ handed' = Append(handed, position)
    BY DEF ConsumerInv, Apply
  <1>2. /\ position = committed /\ position \in 1..Len(topic) /\ position \in Nat
        /\ handed \in Seq(1..Len(topic)) /\ Len(handed) \in Nat
        /\ \A k \in 1..Len(handed) : handed[k] < position /\ handed[k] \in Nat
    BY <1>1 DEF TypeOK, ReaderIsCommitted, HandedIsCommitted
  <1>3. CASE handed' = handed
    BY <1>1, <1>3 DEF ConsumerInv, TypeOK, ReaderIsCommitted, HandedIsCommitted, AppliedInOrderOnce
  <1>4. CASE handed' = Append(handed, position)
    <2>1. /\ handed' \in Seq(1..Len(topic)) /\ Len(handed') = Len(handed) + 1
          /\ \A k \in 1..Len(handed') : handed'[k] = IF k <= Len(handed) THEN handed[k] ELSE position
      BY <1>2, <1>4
    <2>2. TypeOK'
      BY <1>1, <2>1 DEF TypeOK
    <2>3. ReaderIsCommitted' /\ HandedIsCommitted'
      <3>1. \A k \in 1..Len(handed') : handed'[k] <= position
        BY <1>2, <1>4, AppendGreater
      <3> QED BY <1>1, <1>2, <3>1 DEF ReaderIsCommitted, HandedIsCommitted
    <2>4. AppliedInOrderOnce'
      <3> DEFINE r == Append(handed, position)
      <3>1. \A j, k \in 1..Len(handed) : j < k => handed[j] < handed[k]
        BY <1>1 DEF AppliedInOrderOnce
      <3>2. Len(topic) \in Nat
        BY <1>1 DEF TypeOK
      <3>3. \A j, k \in 1..Len(r) : j < k => r[j] < r[k]
        BY <1>2, <3>1, <3>2, AppendGreater
      <3> QED BY <1>4, <3>3 DEF AppliedInOrderOnce
    <2> QED BY <2>2, <2>3, <2>4 DEF ConsumerInv
  <1> QED BY <1>1, <1>3, <1>4

LEMMA NextKeeps == ConsumerInv /\ [Next]_vars => ConsumerInv'
  <1> SUFFICES ASSUME ConsumerInv, [Next]_vars PROVE ConsumerInv'
    OBVIOUS
  <1> USE DEF ConsumerInv, TypeOK, ReaderIsCommitted, HandedIsCommitted, AppliedInOrderOnce
  <1>1. CASE KafkaGoesUpOrDown
    BY <1>1 DEF KafkaGoesUpOrDown
  <1>2. CASE Start
    BY <1>2 DEF Start, NewReader, EnsureTopics
  <1>3. CASE Stop
    BY <1>3 DEF Stop
  <1>4. CASE Reconnect
    BY <1>4 DEF Reconnect, NewReader
  <1>5. CASE UNCHANGED vars
    BY <1>5 DEF vars
  <1> QED BY <1>1, <1>2, <1>3, <1>4, <1>5, AnswerKeeps, ReadKeeps, ReadFailsKeeps, ApplyKeeps DEF Next

-----------------------------------------------------------------------------

\* The inductive invariant.
THEOREM ConsumerInvariant == Spec => []ConsumerInv
  BY InitHolds, NextKeeps, PTL DEF Spec

\* The types of the consumer: what it has read and committed is in the topic
\* (consumer.go, Run).
THEOREM ConsumerTypeCorrect == Spec => []TypeOK
  <1>1. ConsumerInv => TypeOK
    BY DEF ConsumerInv
  <1> QED BY <1>1, ConsumerInvariant, PTL

\* Results are applied in the topic's order and none twice (consumer.go,
\* consumeUntilError).
THEOREM AlwaysAppliedInOrderOnce == Spec => []AppliedInOrderOnce
  <1>1. ConsumerInv => AppliedInOrderOnce
    BY DEF ConsumerInv
  <1> QED BY <1>1, ConsumerInvariant, PTL

-----------------------------------------------------------------------------
(* The consumer delivers at most once.                                       *)

\* Reading commits one offset, perhaps without the message; applying hands over
\* the message just committed, which comes after all those handed over before.
LEMMA StepIsAtMostOnce ==
    ASSUME ConsumerInv, [Next]_vars
    PROVE  MostOnce!MostNext \/ UNCHANGED <<topic, committed, handed>>
  <1> USE DEF MostOnce!MostNext
  <1>1. TypeOK /\ ReaderIsCommitted /\ HandedIsCommitted
    BY DEF ConsumerInv
  <1>2. CASE RiskServiceAnswers
    BY <1>2 DEF RiskServiceAnswers, MostOnce!Produce
  <1>3. CASE ReadMessage
    <2>1. position = committed /\ position \in Nat
      BY <1>1, <1>3 DEF ReadMessage, ReaderIsCommitted, TypeOK
    <2> QED BY <1>3, <2>1 DEF ReadMessage, MostOnce!Commit
  <1>4. CASE ReadMessageFails
    <2>1. position = committed /\ position \in Nat /\ Len(topic) \in Nat
      BY <1>1, <1>4 DEF ReadMessageFails, ReaderIsCommitted, TypeOK
    <2>2. committed' = committed \/ (committed' = committed + 1 /\ committed < Len(topic))
      BY <1>4, <2>1 DEF ReadMessageFails
    <2> QED BY <1>4, <2>2 DEF ReadMessageFails, MostOnce!Commit
  <1>5. CASE Apply
    <2>1. /\ position = committed /\ position \in 1..committed
          /\ \A k \in 1..Len(handed) : handed[k] < position
      BY <1>1, <1>5 DEF Apply, ReaderIsCommitted, HandedIsCommitted, TypeOK
    <2>2. UNCHANGED <<topic, committed>> /\ (handed' = handed \/ handed' = Append(handed, position))
      BY <1>5 DEF Apply
    <2> QED BY <2>1, <2>2 DEF MostOnce!HandOver
  <1>6. CASE KafkaGoesUpOrDown \/ Start \/ Stop \/ Reconnect \/ UNCHANGED vars
    BY <1>6 DEF KafkaGoesUpOrDown, Start, Stop, Reconnect, vars
  <1> QED BY <1>2, <1>3, <1>4, <1>5, <1>6 DEF Next

\* However often the connection, a commit or the process is lost, the consumer is
\* an at-most-once delivery of the topic (consumer.go, Run and consumeUntilError).
THEOREM DeliversAtMostOnce == Spec => ImplementsAtMostOnce
  <1>1. Init => MostOnce!MostInit
    BY DEF Init, MostOnce!MostInit
  <1>2. ConsumerInv /\ [Next]_vars => [MostOnce!MostNext]_<<topic, committed, handed>>
    BY StepIsAtMostOnce
  <1> QED BY <1>1, <1>2, ConsumerInvariant, PTL DEF Spec, ImplementsAtMostOnce, MostOnce!MostSpec

-----------------------------------------------------------------------------
(* What EveryResultIsRead needs of every reader.                             *)

\* A process only runs once the topic exists, so its readers join a group that
\* has a partition to give them.
ReaderHasItsPartition ==
    /\ pc # "down" => created
    /\ pc \in {"reading", "applying"} => assigned

\* No reader waits for results without a partition, in whatever order the two
\* services and Kafka come up or come back (topics.go, EnsureTopics; consumer.go,
\* newRiskResultReader).
THEOREM NoReaderWithoutPartition == Spec => []ReaderHasItsPartition
  <1>1. Init => ReaderHasItsPartition
    BY DEF Init, ReaderHasItsPartition
  <1>2. ReaderHasItsPartition /\ [Next]_vars => ReaderHasItsPartition'
    BY DEF ReaderHasItsPartition, Next, vars, KafkaGoesUpOrDown, RiskServiceAnswers, Start, Stop,
           ReadMessage, ReadMessageFails, Apply, Reconnect, EnsureTopics, NewReader
  <1> QED BY <1>1, <1>2, PTL DEF Spec

-----------------------------------------------------------------------------
(* What a lost connection or process costs.                                  *)

LosesOne ==
    /\ Lost \subseteq Lost'
    /\ \E k \in 0..committed' : Lost' \subseteq Lost \cup {k}
    /\ Lost' # Lost => pc' \in {"waiting", "down"}

\* A step that changes nothing of what is lost loses nothing.
LEMMA SameLostLosesNone ==
    ASSUME ConsumerInv, [Next]_vars, Lost' = Lost
    PROVE  LosesOne
  <1>1. committed' \in Nat
    BY NextKeeps DEF ConsumerInv, TypeOK
  <1> QED BY <1>1 DEF LosesOne

\* A step that loses one position in the way a connection or a process is lost.
LEMMA OneMoreLosesOne ==
    ASSUME NEW k \in 0..committed', Lost \subseteq Lost', Lost' \subseteq Lost \cup {k},
           pc' \in {"waiting", "down"}
    PROVE  LosesOne
  BY DEF LosesOne

\* Reading puts a result in hand and applying it hands it over: neither is a loss;
\* what a failed commit or the end of the process leaves behind is one position.
LEMMA StepLosesOne == ConsumerInv /\ [Next]_vars => LosesOne
  <1> SUFFICES ASSUME ConsumerInv, [Next]_vars PROVE LosesOne
    OBVIOUS
  <1>1. TypeOK /\ ReaderIsCommitted /\ HandedIsCommitted
    BY DEF ConsumerInv
  <1>2. committed \in Nat /\ position \in Nat /\ Len(topic) \in Nat /\ committed <= Len(topic)
    BY <1>1 DEF TypeOK
  <1>3. CASE RiskServiceAnswers
    <2>1. /\ UNCHANGED <<committed, pc, position, handed>>
          /\ \A k \in 1..committed : topic'[k] = topic[k]
      BY <1>1, <1>2, <1>3 DEF RiskServiceAnswers, TypeOK
    <2>2. Lost' = Lost
      BY <2>1 DEF Lost
    <2> QED BY <2>2, SameLostLosesNone
  <1>4. CASE ReadMessage
    <2>1. /\ UNCHANGED <<topic, handed>> /\ pc = "reading" /\ pc' = "applying"
          /\ position' = committed + 1 /\ committed' = committed + 1
      BY <1>1, <1>4 DEF ReadMessage, ReaderIsCommitted
    <2>2. \A k : k \in 1..committed' /\ position' # k <=> k \in 1..committed
      BY <1>2, <2>1
    <2>3. Lost' = Lost
      BY <2>1, <2>2 DEF Lost
    <2> QED BY <2>3, SameLostLosesNone
  <1>5. CASE ReadMessageFails
    <2>1. /\ UNCHANGED <<topic, handed>> /\ pc = "reading" /\ pc' = "waiting"
          /\ committed' = committed \/ committed' = committed + 1
      BY <1>1, <1>5 DEF ReadMessageFails, ReaderIsCommitted
    <2>2. \A k \in 1..committed' : k \in 1..committed \/ k = committed'
      BY <1>2, <2>1
    <2>3. 1..committed \subseteq 1..committed' /\ committed' \in 0..committed'
      BY <1>2, <2>1
    <2>4. Lost \subseteq Lost' /\ Lost' \subseteq Lost \cup {committed'}
      BY <2>1, <2>2, <2>3 DEF Lost
    <2> QED BY <2>1, <2>3, <2>4, OneMoreLosesOne
  <1>6. CASE Apply
    <2>1. /\ UNCHANGED <<topic, committed, position>> /\ pc = "applying" /\ pc' = "reading"
          /\ position \in 1..committed
      BY <1>1, <1>2, <1>6 DEF Apply, ReaderIsCommitted
    <2>2. CASE topic[position] = "result"
      <3>1. handed' = Append(handed, position) /\ handed \in Seq(1..Len(topic))
        BY <1>1, <1>6, <2>2 DEF Apply, TypeOK
      <3>2. \A k : (\A j \in 1..Len(handed') : handed'[j] # k)
                      <=> k # position /\ \A j \in 1..Len(handed) : handed[j] # k
        <4>1. /\ Len(handed) \in Nat /\ Len(handed') = Len(handed) + 1
              /\ handed'[Len(handed) + 1] = position
              /\ \A j \in 1..Len(handed) : handed'[j] = handed[j]
          BY <3>1
        <4>2. \A j : j \in 1..Len(handed') <=> j \in 1..Len(handed) \/ j = Len(handed) + 1
          BY <4>1
        <4> QED BY <4>1, <4>2
      <3>3. Lost' = Lost
        BY <2>1, <3>2 DEF Lost
      <3> QED BY <3>3, SameLostLosesNone
    <2>3. CASE topic[position] # "result"
      <3>1. handed' = handed
        BY <1>6, <2>3 DEF Apply
      <3>2. Lost' = Lost
        BY <2>1, <2>3, <3>1 DEF Lost
      <3> QED BY <3>2, SameLostLosesNone
    <2> QED BY <2>2, <2>3
  <1>7. CASE Stop
    <2>1. UNCHANGED <<topic, committed, position, handed>> /\ pc' = "down"
      BY <1>7 DEF Stop
    <2>2. CASE pc = "applying"
      <3>1. position \in 0..committed'
        BY <1>1, <1>2, <2>1, <2>2 DEF ReaderIsCommitted
      <3>2. Lost \subseteq Lost' /\ Lost' \subseteq Lost \cup {position}
        BY <2>1, <2>2 DEF Lost
      <3> QED BY <2>1, <3>1, <3>2, OneMoreLosesOne
    <2>3. CASE pc # "applying"
      <3>1. Lost' = Lost
        BY <2>1, <2>3 DEF Lost
      <3> QED BY <3>1, SameLostLosesNone
    <2> QED BY <2>2, <2>3
  <1>8. CASE Start \/ Reconnect
    <2>1. UNCHANGED <<topic, committed, handed>> /\ pc # "applying" /\ pc' = "reading"
      BY <1>8 DEF Start, Reconnect, NewReader
    <2>2. Lost' = Lost
      BY <2>1 DEF Lost
    <2> QED BY <2>2, SameLostLosesNone
  <1>9. CASE KafkaGoesUpOrDown \/ UNCHANGED vars
    <2>1. UNCHANGED <<topic, committed, pc, position, handed>>
      BY <1>9 DEF KafkaGoesUpOrDown, vars
    <2>2. Lost' = Lost
      BY <2>1 DEF Lost
    <2> QED BY <2>2, SameLostLosesNone
  <1> QED BY <1>3, <1>4, <1>5, <1>6, <1>7, <1>8, <1>9 DEF Next

\* Losing the connection, a commit or the process loses one result at most, and
\* nothing else loses any (consumer.go, consumeUntilError and Run).
THEOREM AlwaysLosesOneAtMost == Spec => LosesOneAtMost
  <1>1. ConsumerInv /\ [Next]_vars => [LosesOne]_vars
    BY StepLosesOne
  <1> QED BY <1>1, ConsumerInvariant, PTL DEF Spec, LosesOneAtMost, LosesOne
=============================================================================
