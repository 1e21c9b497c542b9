------------------------------ MODULE RiskService ------------------------------
(* The risk service: one process with an asyncio task that consumes            *)
(* risk.evaluation.requested (RiskEventWorker), HTTP threads that evaluate     *)
(* the same events for core-api's fallback, and a sliding window both feed.    *)
(* The window's methods are atomic (a lock), but count() and record() are two  *)
(* calls, so evaluations interleave between them. The offset is committed      *)
(* after the answer is published. An exception of either call, or one that     *)
(* parsing raises and _handle does not name, ends the task and leaves the      *)
(* process running.                                                            *)
EXTENDS RiskRules, Sequences, FiniteSets

CONSTANTS
    Events,       \* the events core-api sends, as records
    Malformed,    \* a message that breaks the contract, as _handle expects
    Uncaught,     \* one whose parsing raises what _handle does not catch:
                  \* JSON that is not an object, an infinite amount
    NoCount,      \* merchant_recent_intents is None
    Consumer,     \* the task that runs RiskEventWorker.run
    Threads,      \* threads that serve POST /api/v1/risk-evaluations
    Window,       \* window_seconds, in ticks
    MaxRequests   \* bound on the length of the requested topic

Intents == {e.intent : e \in Events}

ASSUME ServiceAssumption ==
    /\ \A e \in Events :
          /\ DOMAIN e = {"intent", "merchant", "blocked", "suspicious", "amount", "recent"}
          /\ e.blocked \in BOOLEAN /\ e.suspicious \in BOOLEAN
          /\ e.amount \in Nat \ {0}
          /\ e.recent \in Nat \cup {NoCount}
    \* core-api publishes one payload per intent, and its fallback sends it again
    /\ \A e, f \in Events : e.intent = f.intent => e = f
    /\ NoCount \notin Nat
    /\ Malformed \notin Events /\ Malformed \notin Intents
    /\ Uncaught \notin Events /\ Uncaught # Malformed
    /\ Consumer \notin Threads
    /\ IsFiniteSet(Events)
    /\ Window \in Nat \ {0}
    /\ MaxRequests \in Nat

VARIABLES
    requested,    \* the topic risk.evaluation.requested
    offset,       \* committed by the consumer group: messages done
    completed,    \* what the topic risk.evaluation.completed holds
    told,         \* ghost: what HTTP callers were answered
    age,          \* ticks since each intent was last recorded; Window: forgotten
    at,           \* what the task and each thread are about to do, and with what
    consumer_up   \* the metric that readiness reads

vars == <<requested, offset, completed, told, age, at, consumer_up>>

Actors == {Consumer} \cup Threads

Messages == Events \cup {Malformed, Uncaught}

Answers == [intent : Intents, decision : {"APPROVE", "REVIEW", "REJECT"},
            reason : ReasonCodes, score : 0..ScoreMax]

\* "dead": the task ended and nobody noticed; "down": the process is not running.
Steps == [pc : {"down", "poll", "dead", "idle", "commit"}]
         \cup [pc : {"count"}, event : Events]
         \cup [pc : {"record"}, event : Events, own : Nat]
         \cup [pc : {"publish"}, event : Events, answer : Answers]

Init ==
    /\ requested = <<>> /\ offset = 0
    /\ completed = {} /\ told = {}
    /\ age = [i \in Intents |-> Window]
    /\ at = [a \in Actors |-> IF a = Consumer THEN [pc |-> "down"] ELSE [pc |-> "idle"]]
    /\ consumer_up = FALSE

At(a, pc) == at[a].pc = pc

Becomes(a, step) == at' = [at EXCEPT ![a] = step]

--------------------------------------------------------------------------------
(* The environment: core-api, time, and the death of the process.              *)

Request ==
    /\ Len(requested) < MaxRequests
    /\ \E m \in Messages : requested' = Append(requested, m)
    /\ UNCHANGED <<offset, completed, told, age, at, consumer_up>>

\* time.monotonic() advances; what leaves the window is not counted any more,
\* whether or not _prune has dropped it.
Tick ==
    /\ age' = [i \in Intents |-> AtMost(Window, age[i] + 1)]
    /\ UNCHANGED <<requested, offset, completed, told, at, consumer_up>>

\* The process dies, or is stopped: memory is gone, topics and offset stay.
Crash ==
    /\ ~At(Consumer, "down")
    /\ at' = [a \in Actors |-> IF a = Consumer THEN [pc |-> "down"] ELSE [pc |-> "idle"]]
    /\ age' = [i \in Intents |-> Window]
    /\ consumer_up' = FALSE
    /\ UNCHANGED <<requested, offset, completed, told>>

\* lifespan: connect (with retries; a process that gives up is started again),
\* then start the task. HTTP is served from here on.
Start ==
    /\ At(Consumer, "down")
    /\ Becomes(Consumer, [pc |-> "poll"])
    /\ consumer_up' = TRUE
    /\ UNCHANGED <<requested, offset, completed, told, age>>

--------------------------------------------------------------------------------
(* EvaluateRisk, by the task or by a thread.                                   *)

\* count(): the intents of the merchant still inside the window.
Recent(merchant) ==
    Cardinality({e \in Events : e.merchant = merchant /\ age[e.intent] < Window})

Count(a) ==
    /\ At(a, "count")
    /\ Becomes(a, [pc |-> "record", event |-> at[a].event, own |-> Recent(at[a].event.merchant)])
    /\ UNCHANGED <<requested, offset, completed, told, age, consumer_up>>

\* _resolver_velocidad, as a version that trusts its own window would have it.
ResolveOwnFirst(event, own) == own

\* _resolver_velocidad: the core's count when it came, the own one otherwise.
Resolve(event, own) == IF event.recent = NoCount THEN own ELSE event.recent

\* record() and the rules. The task goes on to publish, a thread answers.
RecordAndEvaluate(a) ==
    /\ At(a, "record")
    /\ LET event  == at[a].event
           answer == Evaluate(event, Resolve(event, at[a].own))
       IN /\ age' = [age EXCEPT ![event.intent] = 0]
          /\ \/ /\ a = Consumer
                /\ Becomes(a, [pc |-> "publish", event |-> event, answer |-> answer])
                /\ UNCHANGED told
             \/ /\ a # Consumer
                /\ Becomes(a, [pc |-> "idle"])
                /\ told' = told \cup {answer}
    /\ UNCHANGED <<requested, offset, completed, consumer_up>>

\* POST /api/v1/risk-evaluations
EvaluateNow(t) ==
    /\ At(t, "idle") /\ ~At(Consumer, "down")
    /\ \E e \in Events : Becomes(t, [pc |-> "count", event |-> e])
    /\ UNCHANGED <<requested, offset, completed, told, age, consumer_up>>

--------------------------------------------------------------------------------
(* RiskEventWorker.run                                                         *)

\* A handler that leaves a message it cannot read for another try.
ParseOrRetry(message) ==
    CASE message = Malformed -> [pc |-> "poll"]
      [] message = Uncaught  -> [pc |-> "dead"]
      [] message \in Events  -> [pc |-> "count", event |-> message]

\* parse_requested, and _handle when it raises: after an exception _handle names
\* nothing is left but to commit, any other one leaves run().
Parse(message) ==
    CASE message = Malformed -> [pc |-> "commit"]
      [] message = Uncaught  -> [pc |-> "dead"]
      [] message \in Events  -> [pc |-> "count", event |-> message]

Fetch ==
    /\ At(Consumer, "poll")
    /\ offset < Len(requested)
    /\ Becomes(Consumer, Parse(requested[offset + 1]))
    /\ UNCHANGED <<requested, offset, completed, told, age, consumer_up>>

\* A publication that swallows the exception: log and go on.
SendOrIgnore ==
    /\ Becomes(Consumer, [pc |-> "commit"])
    /\ \/ completed' = completed \cup {at[Consumer].answer}
       \/ UNCHANGED completed

\* send_and_wait: acknowledged, or the exception ends the task, stored or not.
Send ==
    \/ /\ completed' = completed \cup {at[Consumer].answer}
       /\ \/ Becomes(Consumer, [pc |-> "commit"])
          \/ Becomes(Consumer, [pc |-> "dead"])
    \/ /\ UNCHANGED completed
       /\ Becomes(Consumer, [pc |-> "dead"])

Publish ==
    /\ At(Consumer, "publish")
    /\ Send
    /\ UNCHANGED <<requested, offset, told, age, consumer_up>>

\* consumer.commit(): the same three outcomes.
Commit ==
    /\ At(Consumer, "commit")
    /\ \/ /\ offset' = offset + 1
          /\ \/ Becomes(Consumer, [pc |-> "poll"])
             \/ Becomes(Consumer, [pc |-> "dead"])
       \/ /\ UNCHANGED offset
          /\ Becomes(Consumer, [pc |-> "dead"])
    /\ UNCHANGED <<requested, completed, told, age, consumer_up>>

--------------------------------------------------------------------------------

ConsumerStep ==
    \/ Fetch
    \/ Count(Consumer)
    \/ RecordAndEvaluate(Consumer)
    \/ Publish
    \/ Commit

Next ==
    \/ Request \/ Tick \/ Crash \/ Start
    \/ ConsumerStep
    \/ \E t \in Threads : EvaluateNow(t) \/ Count(t) \/ RecordAndEvaluate(t)

\* Docker restarts the container (restart: unless-stopped), the event loop
\* runs the task, and every call of the Kafka client returns or raises.
Spec == Init /\ [][Next]_vars /\ WF_vars(Start) /\ WF_vars(ConsumerStep)

--------------------------------------------------------------------------------

\* Every variable has its type; the offset never passes the end of the topic.
TypeOK ==
    /\ requested \in Seq(Messages)
    /\ offset \in 0..Len(requested)
    /\ completed \subseteq Answers /\ told \subseteq Answers
    /\ age \in [Intents -> 0..Window]
    /\ at \in [Actors -> Steps]
    /\ consumer_up \in BOOLEAN
    /\ \A t \in Threads : at[t].pc \in {"idle", "count", "record"}

\* Nothing is left to do for message k.
IsAnswered(k) ==
    \/ requested[k] = Malformed
    \/ requested[k] \in Events /\ \E r \in completed : r.intent = requested[k].intent

\* At least once (kafka_consumer.py, RiskEventWorker): whatever dies and wherever,
\* a committed message is a malformed one or has its result in the topic; one that
\* raises what _handle does not catch is never committed.
CommittedIsAnswered == \A k \in 1..offset : IsAnswered(k)

\* What a message asks for an answer to; what does not parse asks for none.
KeyOf(m) == IF m \in Events THEN m.intent ELSE Malformed

\* Stated as the whole delivery core-api counts on: requests are answered in the
\* order of the topic, none before its turn, and the offset passes one only with its
\* answer stored (kafka_consumer.py, run: send_and_wait, then commit).
LeastOnce == INSTANCE AtLeastOnce
                WITH Keys <- Intents, Unreadable <- Malformed,
                     topic <- [k \in DOMAIN requested |-> KeyOf(requested[k])],
                     committed <- offset,
                     answered <- {r.intent : r \in completed}

ImplementsAtLeastOnce == LeastOnce!LeastSpec

\* "Inofensivo porque las reglas son puras" (RiskEventWorker): however often an
\* event that carries the core's count is evaluated, over either transport and
\* with whatever the window then holds, the answer is the same.
RepeatsAgree ==
    \A e \in Events : e.recent # NoCount =>
        \A r, s \in completed \cup told :
            r.intent = e.intent /\ s.intent = e.intent => r = s

\* The score explains the decision (scoring.py): the gradual points of the amount
\* never carry a payment into the range of another decision.
ScoresSeparateDecisions ==
    \A r \in completed \cup told :
        /\ r.decision = "APPROVE" => r.score \in 5..25
        /\ r.decision = "REVIEW" => r.score \in 60..80
        /\ r.decision = "REJECT" => r.score = 100

\* Someone restarts a process whose task ended; from some time on neither the
\* calls of the task fail nor the process dies under it.
TaskIsRestarted == []<>(at[Consumer].pc # "dead")
FailuresCease ==
    <>[][ /\ at[Consumer].pc \in {"count", "record", "publish", "commit"} =>
                at'[Consumer].pc \notin {"dead", "down"}
          /\ At(Consumer, "poll") => at'[Consumer].pc # "down" ]_vars

\* Message k, with none at or before it that _handle does not catch.
Reachable(k) == k <= Len(requested) /\ \A j \in 1..k : requested[j] # Uncaught

\* "Un mensaje invalido no puede bloquear la particion" (_handle) is true of what
\* _handle catches: the message is passed over and everything behind it answered.
\* It is not true of the rest: nothing from an uncaught message on is ever done.
ReachableIsAnswered ==
    TaskIsRestarted /\ FailuresCease =>
        \A k \in 1..MaxRequests : Reachable(k) ~> (k <= offset /\ IsAnswered(k))

\* GET /readiness
Ready == consumer_up

\* "Con Kafka activo exige estar conectado: un consumidor arriba pero sin broker no
\* sirve para nada" (routes.py): what answers ready has a task that consumes.
ReadyMeansConsuming == Ready => at[Consumer].pc \notin {"dead", "down"}
================================================================================
