---------------------------- MODULE KafkaBreaker ----------------------------
(***************************************************************************)
(* RiskRequestPublisher.Publish and its circuit breaker, shared by every   *)
(* request goroutine of core-api.  The breaker's mutex covers allow,       *)
(* onSuccess and onFailure one by one and not the call to Kafka between    *)
(* them, so a report may come long after the state it was admitted in.     *)
(*                                                                         *)
(* The clock counts only what the breaker compares: the time since it      *)
(* opened, up to resetTimeout.                                             *)
(***************************************************************************)
EXTENDS Naturals

CONSTANTS
    Callers,            \* request goroutines; each publishes one intent after another
    FailureThreshold,   \* breakerFailureThreshold
    ResetTimeout        \* breakerResetTimeout, in ticks

ASSUME BreakerAssumption ==
    /\ FailureThreshold \in Nat \ {0}
    /\ ResetTimeout \in Nat \ {0}

VARIABLES
    state,      \* circuitBreaker.state
    failures,   \* circuitBreaker.failures
    elapsed,    \* ticks since openedAt
    pc,         \* where each goroutine is in Publish
    kafkaUp,    \* the broker acknowledges writes
    streak      \* failures reported since the last success, up to FailureThreshold

vars == <<state, failures, elapsed, pc, kafkaUp, streak>>

\* "kafka" and "probe": inside WriteMessages, admitted by a closed or by a
\* half-open breaker.  "success", "failure": about to report.  "http": inside
\* the fallback.
Steps == {"idle", "kafka", "probe", "success", "failure", "http"}

Init ==
    /\ state = "closed"
    /\ failures = 0
    /\ elapsed = 0
    /\ pc = [c \in Callers |-> "idle"]
    /\ kafkaUp = TRUE
    /\ streak = 0

Goto(c, step) == pc' = [pc EXCEPT ![c] = step]

-----------------------------------------------------------------------------

\* Mutants of AfterTimeout: never half-open; closed without a probe.
StayOpen == state
CloseAfterTimeout == IF state = "open" /\ elapsed >= ResetTimeout THEN "closed" ELSE state

\* The state allow leaves and decides on.
AfterTimeout == IF state = "open" /\ elapsed >= ResetTimeout THEN "half-open" ELSE state

\* allow, called first thing by Publish.
Allow(c) ==
    /\ pc[c] = "idle"
    /\ state' = AfterTimeout
    /\ CASE state' = "closed"    -> Goto(c, "kafka")
         [] state' = "half-open" -> Goto(c, "probe")
         [] state' = "open"      -> Goto(c, "http")
    /\ UNCHANGED <<failures, elapsed, kafkaUp, streak>>

\* publishToKafka, outside the mutex.
PublishToKafka(c) ==
    /\ pc[c] \in {"kafka", "probe"}
    /\ Goto(c, IF kafkaUp THEN "success" ELSE "failure")
    /\ UNCHANGED <<state, failures, elapsed, kafkaUp, streak>>

onSuccess(c) ==
    /\ pc[c] = "success"
    /\ failures' = 0
    /\ state' = "closed"
    /\ streak' = 0
    /\ Goto(c, "idle")
    /\ UNCHANGED <<elapsed, kafkaUp>>

\* Mutant of trip: the count is not reset.
tripKeepingFailures ==
    /\ state' = "open"
    /\ elapsed' = 0
    /\ failures' = failures + 1

trip ==
    /\ state' = "open"
    /\ elapsed' = 0
    /\ failures' = 0

\* Mutant of AtThreshold: one failure early.
AtThresholdEarly == failures + 2 >= FailureThreshold

AtThreshold == failures + 1 >= FailureThreshold

\* A failed probe opens again at once; otherwise, also when the breaker has
\* opened meanwhile, the failure counts.
onFailure(c) ==
    /\ pc[c] = "failure"
    /\ \/ (state = "half-open" \/ AtThreshold) /\ trip
       \/ /\ state # "half-open" /\ ~AtThreshold
          /\ failures' = failures + 1
          /\ UNCHANGED <<state, elapsed>>
    /\ streak' = IF streak < FailureThreshold THEN streak + 1 ELSE streak
    /\ Goto(c, "http")
    /\ UNCHANGED kafkaUp

\* fallback.Evaluate; whatever it answers, Publish returns.
Fallback(c) ==
    /\ pc[c] = "http"
    /\ Goto(c, "idle")
    /\ UNCHANGED <<state, failures, elapsed, kafkaUp, streak>>

\* Time passes; only an open breaker looks at it.
Tick ==
    /\ state = "open" /\ elapsed < ResetTimeout
    /\ elapsed' = elapsed + 1
    /\ UNCHANGED <<state, failures, pc, kafkaUp, streak>>

BrokerChanges ==
    /\ kafkaUp' = ~kafkaUp
    /\ UNCHANGED <<state, failures, elapsed, pc, streak>>

InsidePublish(c) ==
    \/ PublishToKafka(c)
    \/ onSuccess(c)
    \/ onFailure(c)
    \/ Fallback(c)

Next ==
    \/ \E c \in Callers : Allow(c)
    \/ \E c \in Callers : InsidePublish(c)
    \/ Tick
    \/ BrokerChanges

Spec == Init /\ [][Next]_vars

\* Every goroutine inside Publish gets on (the write and the HTTP call have
\* timeouts) and time passes.  Nobody is obliged to call Publish.
FairSpec == Spec /\ WF_vars(Tick) /\ \A c \in Callers : WF_vars(InsidePublish(c))

-----------------------------------------------------------------------------
(* Properties. *)

\* The count stays below the threshold, whatever order the reports of calls
\* admitted in another state come in.
TypeOK ==
    /\ state \in {"closed", "open", "half-open"}
    /\ failures \in 0..(FailureThreshold - 1)
    /\ elapsed \in 0..ResetTimeout
    /\ pc \in [Callers -> Steps]
    /\ kafkaUp \in BOOLEAN
    /\ streak \in 0..FailureThreshold

\* ADR-0008: Kafka fails several times in a row, then the breaker opens.  A
\* closed breaker opens only on FailureThreshold failures with no success
\* reported among them, late reports from before it last closed included.
OpensOnAStreakOnly ==
    [][state = "closed" /\ state' = "open" => streak' = FailureThreshold]_vars

\* More than that: with goroutines that report late and to another state than the
\* one they were admitted in, the breaker is one that counts failures in a row, and
\* opens when and only when they reach the threshold (breaker.go, onFailure).
Streaks == INSTANCE StreakBreaker WITH Threshold <- FailureThreshold, mode <- state

ImplementsStreakBreaker == Streaks!StreakSpec

\* While it is closed the count is the streak: no failure is forgotten and
\* none is counted twice.
CountIsTheStreak == state = "closed" => failures = streak

\* Payments keep being created.
Traffic == []<>(\E c \in Callers : pc[c] # "idle")

\* ADR-0008: if Kafka comes back for good and payments keep being created, they
\* go through it again for good.
Recovers == (Traffic /\ <>[]kafkaUp) => <>[](state = "closed")

\* If Kafka is down for good and payments keep being created, from some time on
\* the breaker is never closed again and spares them the timeout.
OutageIsNoticed == (Traffic /\ <>[](~kafkaUp)) => <>[](state # "closed")
=============================================================================
