--------------------------- MODULE ResultConsumer ---------------------------
(***************************************************************************)
(* RiskResultConsumer: how core-api reads risk.evaluation.completed while  *)
(* Kafka comes and goes and the process is stopped, dies and starts.  What *)
(* a result does to the intent it is about is CoreApi's.  How long Run     *)
(* waits before it reconnects (backoffWithJitter) is left open: a wait     *)
(* ends.                                                                   *)
(*                                                                         *)
(* The group has one member at a time: a restarted process or a new reader *)
(* starts from the offset committed by then.                               *)
(***************************************************************************)
EXTENDS Naturals, Sequences

CONSTANT MaxResults     \* bound on the topic

ASSUME ResultsAssumption == MaxResults \in Nat

VARIABLES
    kafka,      \* whether the broker can be reached
    created,    \* whether the topic exists
    topic,      \* its results, some of which are not JSON
    committed,  \* the group's offset
    pc,         \* where Run is; "down" without a process
    assigned,   \* whether the reader was given the partition
    position,   \* what the reader has read
    handed      \* positions passed to ApplyRiskResult, in order

vars == <<kafka, created, topic, committed, pc, assigned, position, handed>>

Init ==
    /\ kafka = "up"
    /\ created = FALSE
    /\ topic = <<>>
    /\ committed = 0
    /\ pc = "down"
    /\ assigned = FALSE
    /\ position = 0
    /\ handed = <<>>

-----------------------------------------------------------------------------
(* Kafka and the risk service. *)

KafkaGoesUpOrDown ==
    /\ kafka' = IF kafka = "up" THEN "down" ELSE "up"
    /\ UNCHANGED <<created, topic, committed, pc, assigned, position, handed>>

\* The first write creates the topic.
RiskServiceAnswers ==
    /\ kafka = "up" /\ Len(topic) < MaxResults
    /\ \E message \in {"result", "invalid"} : topic' = Append(topic, message)
    /\ created' = TRUE
    /\ UNCHANGED <<kafka, committed, pc, assigned, position, handed>>

-----------------------------------------------------------------------------
(* The consumer. *)

\* Mutant of NewReader: a reader of no group starts at the end of the topic.
NewReaderAtTheEnd(exists) ==
    /\ pc' = "reading"
    /\ assigned' = exists
    /\ position' = Len(topic)

\* newRiskResultReader: a reader that joins before the topic exists is given no
\* partition, and does not notice when it appears.
NewReader(exists) ==
    /\ pc' = "reading"
    /\ assigned' = exists
    /\ position' = committed

\* Mutant of EnsureTopics: the topic is left to the first write.
TopicsAreLeftAlone == created' = created

EnsureTopics == created' = TRUE

\* main: a process that cannot reach Kafka to create the topics exits.
Start ==
    /\ pc = "down" /\ kafka = "up"
    /\ EnsureTopics
    /\ NewReader(created')
    /\ UNCHANGED <<kafka, topic, committed, handed>>

\* Mutant of ReadMessage: FetchMessage, which commits nothing.
FetchMessage ==
    /\ pc = "reading" /\ kafka = "up" /\ assigned /\ position < Len(topic)
    /\ position' = position + 1
    /\ pc' = "applying"
    /\ UNCHANGED <<kafka, created, topic, committed, assigned, handed>>

\* The reader commits a message before it returns it.
ReadMessage ==
    /\ pc = "reading" /\ kafka = "up" /\ assigned /\ position < Len(topic)
    /\ position' = position + 1
    /\ committed' = position'
    /\ pc' = "applying"
    /\ UNCHANGED <<kafka, created, topic, assigned, handed>>

\* Mutant of ReadMessageFails: Run returns the error, as it once did.
RunReturnsTheError ==
    /\ pc = "reading"
    /\ pc' = "returned"
    /\ UNCHANGED <<kafka, created, topic, committed, assigned, position, handed>>

\* The fetch fails, or the commit does, perhaps after it took effect: then the
\* message is left behind without having been returned.  Run closes the reader.
ReadMessageFails ==
    /\ pc = "reading"
    /\ committed' \in {committed} \cup {k \in {position + 1} : assigned /\ k <= Len(topic)}
    /\ pc' = "waiting"
    /\ UNCHANGED <<kafka, created, topic, assigned, position, handed>>

\* json.Unmarshal, and ApplyRiskResult, whose error is only logged.
Apply ==
    /\ pc = "applying"
    /\ handed' = IF topic[position] = "result" THEN Append(handed, position) ELSE handed
    /\ pc' = "reading"
    /\ UNCHANGED <<kafka, created, topic, committed, assigned, position>>

\* time.After, and a new reader.
Reconnect ==
    /\ pc = "waiting"
    /\ NewReader(created)
    /\ UNCHANGED <<kafka, created, topic, committed, handed>>

\* main cancels the context and does not wait for Run, or the process dies.
Stop ==
    /\ pc # "down"
    /\ pc' = "down"
    /\ UNCHANGED <<kafka, created, topic, committed, assigned, position, handed>>

Next ==
    \/ KafkaGoesUpOrDown \/ RiskServiceAnswers
    \/ Start \/ Stop
    \/ ReadMessage \/ ReadMessageFails \/ Apply \/ Reconnect

Spec == Init /\ [][Next]_vars

\* The goroutine runs, waits end, and a broker that can be reached again and
\* again does not refuse every read.
FairSpec == Spec /\ SF_vars(ReadMessage) /\ WF_vars(Apply) /\ WF_vars(Reconnect)

-----------------------------------------------------------------------------
(* Properties. *)

TypeOK ==
    /\ kafka \in {"up", "down"}
    /\ created \in BOOLEAN
    /\ topic \in Seq({"result", "invalid"})
    /\ committed \in 0..Len(topic)
    /\ pc \in {"down", "reading", "applying", "waiting"}
    /\ assigned \in BOOLEAN
    /\ position \in 0..Len(topic)
    /\ handed \in Seq(1..Len(topic))

\* Results are applied in the order of the topic and none twice, across lost
\* connections, failed commits, restarts and crashes: an older decision never
\* comes back after a newer one (consumer.go, ReadMessage in consumeUntilError).
AppliedInOrderOnce ==
    \A j, k \in 1..Len(handed) : j < k => handed[j] < handed[k]

\* Those hand-overs are an at-most-once delivery: nothing is handed over before its
\* offset is committed, and that offset only ever moves on by one, also when the
\* commit of a read that failed took effect (consumer.go, consumeUntilError and Run).
MostOnce == INSTANCE AtMostOnce WITH Messages <- {"result", "invalid"}

ImplementsAtMostOnce == MostOnce!MostSpec

\* Results whose offset is committed and that nobody was given nor will be.
Lost ==
    {k \in 1..committed :
        /\ topic[k] = "result"
        /\ pc = "applying" => position # k
        /\ \A j \in 1..Len(handed) : handed[j] # k}

\* Each connection or process that is lost costs one result at most, the one the
\* reader had committed and Run had not applied, and nothing else costs any
\* (consumer.go, consumeUntilError; newRiskResultReader joins the group again).
LosesOneAtMost ==
    [][/\ Lost \subseteq Lost'
       /\ \E k \in 0..committed' : Lost' \subseteq Lost \cup {k}
       /\ Lost' # Lost => pc' \in {"waiting", "down"}]_vars

\* If Kafka and the process stay up, the consumer gets past every result stored,
\* after any outage (ADR-0008; consumer.go, Run; topics.go, EnsureTopics).
EveryResultIsRead ==
    (<>[](kafka = "up") /\ <>[](pc # "down")) =>
        \A k \in 1..MaxResults : (Len(topic) >= k) ~> (committed >= k)
=============================================================================
