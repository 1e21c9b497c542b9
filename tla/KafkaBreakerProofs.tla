------------------------- MODULE KafkaBreakerProofs -------------------------
(***************************************************************************)
(* For any number of goroutines, any threshold and any timeout: the count  *)
(* of a closed breaker is the streak of failures reported, so it opens on  *)
(* FailureThreshold failures in a row and on nothing less.                 *)
(***************************************************************************)
EXTENDS KafkaBreaker, TLAPS

\* The two invariants are inductive together: the count needs its range, and
\* the streak is only compared while the breaker is closed, which it becomes
\* only when a success clears both.
BreakerInv == TypeOK /\ CountIsTheStreak

LEMMA BreakerInvInit == Init => BreakerInv
BY BreakerAssumption DEF Init, BreakerInv, TypeOK, CountIsTheStreak, Steps

\* No step breaks the range of the variables or the agreement of count and streak.
LEMMA BreakerInvStep == BreakerInv /\ [Next]_vars => BreakerInv'
<1> SUFFICES ASSUME BreakerInv, [Next]_vars PROVE BreakerInv'
  OBVIOUS
<1> USE BreakerAssumption DEF BreakerInv, TypeOK, CountIsTheStreak
<1>1. ASSUME NEW c \in Callers, Allow(c) PROVE BreakerInv'
  <2>1. pc' \in [Callers -> Steps]
    BY <1>1 DEF Allow, AfterTimeout, Goto, Steps
  <2> QED
    BY <1>1, <2>1 DEF Allow, AfterTimeout
<1>2. ASSUME NEW c \in Callers, PublishToKafka(c) PROVE BreakerInv'
  BY <1>2 DEF PublishToKafka, Goto, Steps
<1>3. ASSUME NEW c \in Callers, onSuccess(c) PROVE BreakerInv'
  BY <1>3 DEF onSuccess, Goto, Steps
<1>4. ASSUME NEW c \in Callers, onFailure(c) PROVE BreakerInv'
  <2>1. pc' \in [Callers -> Steps]
    BY <1>4 DEF onFailure, Goto, Steps
  <2>2. failures' \in 0..(FailureThreshold - 1)
    BY <1>4 DEF onFailure, AtThreshold, trip
  <2> QED
    BY <1>4, <2>1, <2>2 DEF onFailure, AtThreshold, trip
<1>5. ASSUME NEW c \in Callers, Fallback(c) PROVE BreakerInv'
  BY <1>5 DEF Fallback, Goto, Steps
<1>6. CASE Tick
  BY <1>6 DEF Tick
<1>7. CASE BrokerChanges
  BY <1>7 DEF BrokerChanges
<1>8. CASE UNCHANGED vars
  BY <1>8 DEF vars
<1> QED
  BY <1>1, <1>2, <1>3, <1>4, <1>5, <1>6, <1>7, <1>8 DEF Next, InsidePublish

\* The variables keep their ranges, whatever order the reports come in.
THEOREM BreakerTypeCorrect == Spec => []TypeOK
<1> QED
  BY BreakerInvInit, BreakerInvStep, PTL DEF Spec, BreakerInv

\* A closed breaker has counted every failure since the last success, once.
THEOREM CountIsAlwaysTheStreak == Spec => []CountIsTheStreak
<1> QED
  BY BreakerInvInit, BreakerInvStep, PTL DEF Spec, BreakerInv

\* A closed breaker opens only on FailureThreshold failures in a row (ADR-0008).
THEOREM OpensOnlyOnAStreak == Spec => OpensOnAStreakOnly
<1>1. BreakerInv /\ [Next]_vars
        => [state = "closed" /\ state' = "open" => streak' = FailureThreshold]_vars
  <2> SUFFICES ASSUME BreakerInv, [Next]_vars, state = "closed", state' = "open"
               PROVE  streak' = FailureThreshold
    OBVIOUS
  <2>1. PICK c \in Callers : onFailure(c)
    BY DEF Next, InsidePublish, Allow, AfterTimeout, PublishToKafka, onSuccess, Fallback,
           Tick, BrokerChanges, vars
  <2>2. failures + 1 >= FailureThreshold
    BY <2>1 DEF onFailure, AtThreshold
  <2> QED
    BY <2>1, <2>2, BreakerAssumption
       DEF onFailure, BreakerInv, TypeOK, CountIsTheStreak
<1> QED
  BY <1>1, BreakerInvInit, BreakerInvStep, PTL DEF Spec, OpensOnAStreakOnly

\* Each report is a success or a failure of the abstract breaker, whatever call it
\* is about; the rest leaves mode and streak alone but for the timeout.
LEMMA StepIsOfStreakBreaker ==
    ASSUME BreakerInv, [Next]_vars
    PROVE  Streaks!StreakNext \/ UNCHANGED <<state, streak>>
<1> USE BreakerAssumption DEF Streaks!StreakNext
<1>1. ASSUME NEW c \in Callers, Allow(c)
      PROVE  Streaks!Probe \/ UNCHANGED <<state, streak>>
  BY <1>1 DEF Allow, AfterTimeout, Streaks!Probe
<1>2. ASSUME NEW c \in Callers, onSuccess(c) PROVE Streaks!Succeed
  BY <1>2 DEF onSuccess, Streaks!Succeed
<1>3. ASSUME NEW c \in Callers, onFailure(c) PROVE Streaks!Fail
  <2>1. /\ streak \in 0..FailureThreshold /\ failures \in 0..(FailureThreshold - 1)
        /\ state \in {"closed", "open", "half-open"} /\ (state = "closed" => failures = streak)
    BY DEF BreakerInv, TypeOK, CountIsTheStreak
  <2>2. streak' = IF streak < FailureThreshold THEN streak + 1 ELSE streak
    BY <1>3 DEF onFailure
  <2>3. CASE state = "half-open" \/ AtThreshold
    <3>1. state' = "open"
      BY <1>3, <2>3 DEF onFailure, trip
    <3>2. state = "closed" => ~(streak' < FailureThreshold)
      BY <2>1, <2>2, <2>3 DEF AtThreshold
    <3> QED
      BY <2>2, <3>1, <3>2 DEF Streaks!Fail
  <2>4. CASE state # "half-open" /\ ~AtThreshold
    <3>1. state' = state
      BY <1>3, <2>4 DEF onFailure
    <3>2. state = "closed" => streak' < FailureThreshold
      BY <2>1, <2>2, <2>4 DEF AtThreshold
    <3> QED
      BY <2>1, <2>2, <2>4, <3>1, <3>2 DEF Streaks!Fail
  <2> QED
    BY <2>3, <2>4
<1>4. ASSUME NEW c \in Callers, PublishToKafka(c) \/ Fallback(c) PROVE UNCHANGED <<state, streak>>
  BY <1>4 DEF PublishToKafka, Fallback
<1>5. CASE Tick \/ BrokerChanges \/ UNCHANGED vars
  BY <1>5 DEF Tick, BrokerChanges, vars
<1> QED
  BY <1>1, <1>2, <1>3, <1>4, <1>5 DEF Next, InsidePublish

\* For any number of goroutines, and although the mutex does not cover the calls,
\* the breaker counts failures in a row and opens exactly on the threshold
\* (ADR-0008; breaker.go).
THEOREM BreakerImplementsStreaks == Spec => ImplementsStreakBreaker
<1>1. Init => Streaks!StreakInit
  BY DEF Init, Streaks!StreakInit
<1>2. BreakerInv /\ [Next]_vars => [Streaks!StreakNext]_<<state, streak>>
  BY StepIsOfStreakBreaker
<1> QED
  BY <1>1, <1>2, BreakerInvInit, BreakerInvStep, PTL DEF Spec, ImplementsStreakBreaker, Streaks!StreakSpec
=============================================================================
