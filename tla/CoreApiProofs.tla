--------------------------- MODULE CoreApiProofs ---------------------------
(***************************************************************************)
(* What TLC checks on one intent and three goroutines, for any number of   *)
(* intents, goroutines, evaluations and results, and whatever statuses     *)
(* clients ask for by PATCH.                                               *)
(***************************************************************************)
EXTENDS CoreApiRefinement, TLAPS

USE DEF NoStatus

\* A transition of the table never leads back to PENDING and never leaves a
\* terminal status; the trigger therefore keeps what has been sent sent.
LEMMA TriggerFacts ==
    ASSUME NEW old, NEW new, enforce_status_transition(old, new), old # NoStatus
    PROVE  /\ old \in Terminal => new = old
           /\ old # "PENDING" => new # "PENDING"
           /\ new # old => CanTransitionTo(old, new)
           /\ new # NoStatus
BY DEF enforce_status_transition, payment_status_transitions, Terminal,
       CanTransitionTo, allowedTransitions

\* The target of a legal transition is a status and is not PENDING.
LEMMA TransitionFacts ==
    ASSUME NEW s, NEW t, CanTransitionTo(s, t)
    PROVE  t \in Status \ {"PENDING"}
BY DEF CanTransitionTo, allowedTransitions, Status

\* A decision asks for one of three statuses, a terminal one iff it is final.
LEMMA StatusForFacts ==
    ASSUME NEW d \in RiskDecision
    PROVE  /\ StatusFor(d) \in Status \ {"PENDING"}
           /\ d # "REVIEW" => StatusFor(d) \in Resolved
           /\ d = "REVIEW" => StatusFor(d) = "UNDER_REVIEW"
BY DEF StatusFor, RiskDecision, Status, Resolved

-----------------------------------------------------------------------------
(* Types. *)

LEMMA IdleIsCall == Idle \in Call
BY DEF Idle, Call, Reasons

\* Type correctness is preserved by every step.
LEMMA TypeStep == TypeOK /\ CallsAreGrounded /\ [Next]_vars => TypeOK'
<1> SUFFICES ASSUME TypeOK, CallsAreGrounded, [Next]_vars PROVE TypeOK'
  OBVIOUS
<1> USE CoreAssumption, IdleIsCall
<1>1. ASSUME NEW h \in Handlers, NEW i \in Intents, Create(h, i) PROVE TypeOK'
  <2>1. [prev |-> NoStatus, new |-> "PENDING", reason |-> "created"] \in HistoryRow
    BY DEF HistoryRow, Status, Reasons
  <2>2. Write(i, "PENDING", "UNDER_REVIEW", NoRisk, "sent_to_risk") \in Call
    BY DEF Write, Call, Status, Reasons
  <2>3. [status |-> "PENDING", risk |-> NoRisk] \in Row
    BY DEF Row, Status
  <2>4. calls' \in [Procs -> Call]
    BY <1>1, <2>2 DEF TypeOK, Create
  <2>5. rows' \in [Intents -> Row]
    BY <1>1, <2>3 DEF TypeOK, Create
  <2>6. history' \in [Intents -> Seq(HistoryRow)]
    BY <1>1, <2>1 DEF TypeOK, Create
  <2> QED
    BY <1>1, <2>4, <2>5, <2>6 DEF TypeOK, Create
<1>2. ASSUME NEW h \in Handlers, Publish(h) PROVE TypeOK'
  <2>1. calls[h].intent \in Intents /\ calls[h] \in Call /\ h \in Procs
    BY <1>2 DEF Publish, CallsAreGrounded, Grounded, Procs, TypeOK
  <2>2. [calls[h] EXCEPT !.pc = "fallback"] \in Call
    BY <2>1 DEF Call
  <2> QED
    BY <1>2, <2>1, <2>2 DEF Publish, TypeOK
<1>3. ASSUME NEW h \in Handlers, EvaluateOverHTTP(h) PROVE TypeOK'
  <2>1. calls[h].intent \in Intents
    BY <1>3 DEF EvaluateOverHTTP, CallsAreGrounded, Grounded, Procs
  <2>2. \A e \in Evaluations : Apply(calls[h].intent, e, "risk_http") \in Call
    BY <2>1 DEF Apply, Call, Reasons
  <2>3. UNCHANGED <<rows, history, requested, completed, offset>>
    BY <1>3 DEF EvaluateOverHTTP
  <2>4. calls' \in [Procs -> Call]
    <3>1. PICK next \in Call : calls' = [calls EXCEPT ![h] = next]
      BY <1>3, <2>2 DEF EvaluateOverHTTP
    <3> QED
      BY <3>1 DEF TypeOK
  <2>5. answered' \in [Intents -> SUBSET Evaluations]
    <3>1. PICK E \in SUBSET Evaluations :
            answered' = answered \/ answered' = [answered EXCEPT ![calls[h].intent] = @ \cup E]
      BY <1>3 DEF EvaluateOverHTTP
    <3> QED
      BY <2>1, <3>1 DEF TypeOK
  <2> QED
    BY <2>3, <2>4, <2>5 DEF TypeOK
<1>4. ASSUME NEW h \in Handlers, NEW i \in Intents, NEW next \in PatchTargets,
             UpdateStatus(h, i, next)
      PROVE  TypeOK'
  <2>1. Write(i, rows[i].status, next, rows[i].risk, "manual") \in Call
    BY DEF TypeOK, Row, Write, Call, Reasons
  <2> QED
    BY <1>4, <2>1 DEF UpdateStatus, TypeOK
<1>5. ASSUME NEW p \in Procs, LoadAndDecide(p) PROVE TypeOK'
  <2>1. calls[p].intent \in Intents /\ calls[p].risk \in Evaluations /\ calls[p] \in Call
    BY <1>5 DEF LoadAndDecide, CallsAreGrounded, Grounded, TypeOK
  <2>2. rows[calls[p].intent].status \in Status \cup {NoStatus}
    BY <2>1 DEF TypeOK, Row
  <2>3. StatusFor(Decision[calls[p].risk]) \in Status
    BY <2>1, StatusForFacts
  <2>4. Write(calls[p].intent, rows[calls[p].intent].status,
              StatusFor(Decision[calls[p].risk]), calls[p].risk, calls[p].reason) \in Call
    BY <2>1, <2>2, <2>3 DEF Write, Call
  <2> QED
    BY <1>5, <2>4 DEF LoadAndDecide, TypeOK
<1>6. ASSUME NEW p \in Procs, CommitWrite(p) PROVE TypeOK'
  <2>1. calls[p].intent \in Intents /\ calls[p].new \in Status /\ calls[p] \in Call
    BY <1>6 DEF CommitWrite, CallsAreGrounded, Grounded, TypeOK
  <2>2. NewHistoryRow(calls[p]) \in HistoryRow /\ Updated(calls[p]) \in Row
    BY <2>1 DEF NewHistoryRow, HistoryRow, Updated, Row, Call
  <2>3. AfterWrite(calls[p]) \in Call
    BY <2>1 DEF AfterWrite, Call, Idle, Reasons
  <2>4. Append(history[calls[p].intent], NewHistoryRow(calls[p])) \in Seq(HistoryRow)
    BY <2>1, <2>2 DEF TypeOK
  <2> QED
    BY <1>6, <2>1, <2>2, <2>3, <2>4 DEF CommitWrite, TypeOK
<1>7. ASSUME NEW p \in Procs, AbortWrite(p) PROVE TypeOK'
  BY <1>7 DEF AbortWrite, TypeOK
<1>8. ASSUME ReadMessage PROVE TypeOK'
  <2>1. completed[offset + 1] \in Result /\ offset + 1 \in 0..Len(completed)
    BY <1>8 DEF ReadMessage, TypeOK
  <2>2. Apply(completed[offset + 1].intent, completed[offset + 1].risk, "risk_kafka") \in Call
    BY <2>1 DEF Result, Apply, Call, Reasons
  <2> QED
    BY <1>8, <2>1, <2>2 DEF ReadMessage, TypeOK
<1>9. ASSUME NEW i \in Intents, NEW e \in Evaluations, RiskAnswers(i, e) PROVE TypeOK'
  <2>1. [intent |-> i, risk |-> e] \in Result
    BY DEF Result
  <2>2. completed' \in Seq(Result) /\ Len(completed') = Len(completed) + 1
    BY <1>9, <2>1 DEF RiskAnswers, TypeOK
  <2>3. offset' \in 0..Len(completed')
    BY <1>9, <2>2 DEF RiskAnswers, TypeOK
  <2> QED
    BY <1>9, <2>2, <2>3 DEF RiskAnswers, TypeOK
<1>10. ASSUME Crash PROVE TypeOK'
  BY <1>10 DEF Crash, TypeOK
<1>11. ASSUME UNCHANGED vars PROVE TypeOK'
  BY <1>11 DEF vars, TypeOK
<1> QED
  BY <1>1, <1>2, <1>3, <1>4, <1>5, <1>6, <1>7, <1>8, <1>9, <1>10, <1>11 DEF Next

-----------------------------------------------------------------------------
(* Groundedness. *)

\* What has been sent stays sent, what exists stays, and decisions taken are
\* not untaken: the reason a stale goroutine stays grounded.
LEMMA Monotone ==
    ASSUME TypeOK, CallsAreGrounded, [Next]_vars, NEW j \in Intents
    PROVE  /\ Sent(j) => Sent(j)'
           /\ Exists(j) => Exists(j)'
           /\ answered[j] \subseteq answered'[j]
<1>1. ASSUME NEW h \in Handlers, NEW i \in Intents, Create(h, i)
      PROVE  /\ Sent(j) => Sent(j)'
             /\ Exists(j) => Exists(j)'
             /\ answered[j] \subseteq answered'[j]
  BY <1>1 DEF Create, Sent, Exists, TypeOK, Row
<1>2. ASSUME NEW p \in Procs, CommitWrite(p)
      PROVE  /\ Sent(j) => Sent(j)'
             /\ Exists(j) => Exists(j)'
             /\ answered[j] \subseteq answered'[j]
  <2> DEFINE i == calls[p].intent
  <2>1. i \in Intents /\ Exists(i)
    BY <1>2 DEF CommitWrite, CallsAreGrounded, Grounded
  <2>2. enforce_status_transition(rows[i].status, calls[p].new)
    BY <1>2 DEF CommitWrite, DatabaseAccepts
  <2>3. /\ rows[i].status # "PENDING" => calls[p].new # "PENDING"
        /\ calls[p].new # NoStatus
    BY <2>1, <2>2, TriggerFacts DEF Exists
  <2>4. rows' = [rows EXCEPT ![i] = Updated(calls[p])] /\ answered' = answered
    BY <1>2 DEF CommitWrite
  <2>5. rows'[j].status = IF j = i THEN calls[p].new ELSE rows[j].status
    BY <2>1, <2>4 DEF TypeOK, Updated
  <2> QED
    BY <2>3, <2>4, <2>5 DEF Sent, Exists
<1>3. ASSUME rows' = rows, answered[j] \subseteq answered'[j]
      PROVE  /\ Sent(j) => Sent(j)'
             /\ Exists(j) => Exists(j)'
             /\ answered[j] \subseteq answered'[j]
  BY <1>3 DEF Sent, Exists
<1>4. ASSUME NEW h \in Handlers, EvaluateOverHTTP(h)
      PROVE  rows' = rows /\ answered[j] \subseteq answered'[j]
  BY <1>4 DEF EvaluateOverHTTP, TypeOK
<1>5. ASSUME NEW i \in Intents, NEW e \in Evaluations, RiskAnswers(i, e)
      PROVE  rows' = rows /\ answered[j] \subseteq answered'[j]
  BY <1>5 DEF RiskAnswers, TypeOK
<1>6. ASSUME \/ \E h \in Handlers : Publish(h)
             \/ \E h \in Handlers, i \in Intents, next \in PatchTargets : UpdateStatus(h, i, next)
             \/ \E p \in Procs : LoadAndDecide(p)
             \/ \E p \in Procs : AbortWrite(p)
             \/ ReadMessage
             \/ Crash
             \/ UNCHANGED vars
      PROVE  rows' = rows /\ answered[j] \subseteq answered'[j]
  BY <1>6 DEF Publish, UpdateStatus, LoadAndDecide, AbortWrite, ReadMessage, Crash, vars
<1> QED
  BY <1>1, <1>2, <1>3, <1>4, <1>5, <1>6 DEF Next

\* Calls: the goroutine that moves gets a grounded call, the others keep theirs.
LEMMA CallsStep == CoreInv /\ [Next]_vars => CallsAreGrounded'
<1> SUFFICES ASSUME CoreInv, [Next]_vars, NEW q \in Procs
             PROVE  Grounded(calls[q])'
  BY DEF CallsAreGrounded
<1> DEFINE Goal == Grounded(calls[q])'
<1>m. \A j \in Intents : /\ rows[j].status \notin {NoStatus, "PENDING"}
                               => rows'[j].status \notin {NoStatus, "PENDING"}
                         /\ rows[j].status # NoStatus => rows'[j].status # NoStatus
                         /\ answered[j] \subseteq answered'[j]
  BY Monotone DEF CoreInv, Sent, Exists
<1>t. TypeOK'
  BY TypeStep DEF CoreInv
<1>same. ASSUME calls'[q] = calls[q] PROVE Goal
  BY <1>same, <1>m DEF CoreInv, CallsAreGrounded, Grounded, Exists, Sent
<1>idle. ASSUME calls'[q] = Idle PROVE Goal
  BY <1>idle DEF Idle, Grounded
<1>1. ASSUME NEW h \in Handlers, NEW i \in Intents, Create(h, i) PROVE Goal
  <2>1. CASE calls'[q] = Write(i, "PENDING", "UNDER_REVIEW", NoRisk, "sent_to_risk")
    <3>1. rows'[i].status = "PENDING"
      BY <1>1 DEF Create, CoreInv, TypeOK
    <3> QED
      BY <2>1, <3>1 DEF Write, Status, Exists, Grounded
  <2>2. \/ calls'[q] = Write(i, "PENDING", "UNDER_REVIEW", NoRisk, "sent_to_risk")
        \/ calls'[q] \in {Idle, calls[q]}
    BY <1>1 DEF Create, CoreInv, TypeOK
  <2> QED
    BY <2>1, <2>2, <1>same, <1>idle
<1>2. ASSUME NEW h \in Handlers, Publish(h) PROVE Goal
  <2>1. CASE calls'[q] = [calls[h] EXCEPT !.pc = "fallback"]
    <3>1. calls[h].intent \in Intents /\ Sent(calls[h].intent) /\ calls[h] \in Call
      BY <1>2 DEF Publish, CoreInv, CallsAreGrounded, Grounded, TypeOK, Procs
    <3>2. calls'[q].pc = "fallback" /\ calls'[q].intent = calls[h].intent
      BY <2>1, <3>1 DEF Call
    <3> QED
      BY <3>1, <3>2, <1>m DEF Sent, Grounded
  <2>2. \/ calls'[q] = [calls[h] EXCEPT !.pc = "fallback"]
        \/ calls'[q] \in {Idle, calls[q]}
    BY <1>2 DEF Publish, CoreInv, TypeOK
  <2> QED
    BY <2>1, <2>2, <1>same, <1>idle
<1>3. ASSUME NEW h \in Handlers, EvaluateOverHTTP(h) PROVE Goal
  <2>1. ASSUME NEW e \in Evaluations,
               answered' = [answered EXCEPT ![calls[h].intent] = @ \cup {e}],
               calls'[q] = Apply(calls[h].intent, e, "risk_http")
        PROVE  Goal
    <3>1. calls[h].intent \in Intents /\ Sent(calls[h].intent)
      BY <1>3 DEF EvaluateOverHTTP, CoreInv, CallsAreGrounded, Grounded, Procs
    <3>2. e \in answered'[calls[h].intent]
      BY <2>1, <3>1 DEF CoreInv, TypeOK
    <3> QED
      BY <2>1, <3>1, <3>2, <1>m DEF Apply, Sent, Grounded
  <2>2. \/ \E e \in Evaluations :
              /\ answered' = [answered EXCEPT ![calls[h].intent] = @ \cup {e}]
              /\ calls'[q] = Apply(calls[h].intent, e, "risk_http")
        \/ calls'[q] \in {Idle, calls[q]}
    BY <1>3 DEF EvaluateOverHTTP, CoreInv, TypeOK
  <2> QED
    BY <2>1, <2>2, <1>same, <1>idle
<1>4. ASSUME NEW h \in Handlers, NEW i \in Intents, NEW next \in PatchTargets,
             UpdateStatus(h, i, next)
      PROVE  Goal
  <2>1. CASE calls'[q] = Write(i, rows[i].status, next, rows[i].risk, "manual")
    <3>1. Exists(i) /\ next \in Status
      BY <1>4, CoreAssumption DEF UpdateStatus
    <3>2. rows[i].risk # NoRisk => rows[i].risk \in answered[i]
      BY DEF CoreInv, RowsAreGrounded
    <3> QED
      BY <2>1, <3>1, <3>2, <1>m DEF Write, Exists, Grounded
  <2>2. calls'[q] \in {Write(i, rows[i].status, next, rows[i].risk, "manual"), calls[q]}
    BY <1>4 DEF UpdateStatus, CoreInv, TypeOK
  <2> QED
    BY <2>1, <2>2, <1>same
<1>5. ASSUME NEW p \in Procs, LoadAndDecide(p) PROVE Goal
  <2> DEFINE c == calls[p]
             w == Write(c.intent, rows[c.intent].status, StatusFor(Decision[c.risk]), c.risk, c.reason)
  <2>1. CASE calls'[q] = w
    <3>1. /\ c.intent \in Intents
          /\ Sent(c.intent)
          /\ c.risk \in answered[c.intent]
          /\ c.reason # "sent_to_risk"
      BY <1>5 DEF LoadAndDecide, CoreInv, CallsAreGrounded, Grounded
    <3>2. c.risk \in Evaluations
      BY <3>1 DEF CoreInv, TypeOK
    <3>3. StatusFor(Decision[c.risk]) \in Status
      BY <3>2, StatusForFacts, CoreAssumption
    <3> QED
      BY <2>1, <3>1, <3>3, <1>m DEF Write, Exists, Grounded, Sent
  <2>2. calls'[q] \in {w, Idle, calls[q]}
    BY <1>5 DEF LoadAndDecide, CoreInv, TypeOK
  <2> QED
    BY <2>1, <2>2, <1>same, <1>idle
<1>6. ASSUME NEW p \in Procs, CommitWrite(p) PROVE Goal
  <2> DEFINE c == calls[p]
  <2>1. CASE calls'[q] = AfterWrite(c) /\ c.reason = "sent_to_risk"
    <3>1. c.intent \in Intents /\ c.new = "UNDER_REVIEW"
      BY <1>6, <2>1 DEF CommitWrite, CoreInv, CallsAreGrounded, Grounded
    <3>2. rows'[c.intent].status = "UNDER_REVIEW"
      BY <1>6, <3>1 DEF CommitWrite, Updated, CoreInv, TypeOK
    <3>3. calls'[q].pc = "publish" /\ calls'[q].intent = c.intent
      BY <2>1 DEF AfterWrite, Idle
    <3> QED
      BY <3>1, <3>2, <3>3 DEF Sent, Grounded
  <2>2. \/ calls'[q] = AfterWrite(c) /\ c.reason = "sent_to_risk"
        \/ calls'[q] \in {Idle, calls[q]}
    BY <1>6 DEF CommitWrite, AfterWrite, CoreInv, TypeOK
  <2> QED
    BY <2>1, <2>2, <1>same, <1>idle
<1>7. ASSUME NEW p \in Procs, AbortWrite(p) PROVE Goal
  <2>1. calls'[q] \in {Idle, calls[q]}
    BY <1>7 DEF AbortWrite, CoreInv, TypeOK
  <2> QED
    BY <2>1, <1>same, <1>idle
<1>8. ASSUME ReadMessage PROVE Goal
  <2> DEFINE msg == completed[offset + 1]
  <2>1. CASE calls'[q] = Apply(msg.intent, msg.risk, "risk_kafka")
    <3>1. offset + 1 \in 1..Len(completed) /\ msg \in Result
      BY <1>8 DEF ReadMessage, CoreInv, TypeOK
    <3>2. Sent(msg.intent) /\ msg.risk \in answered[msg.intent] /\ msg.intent \in Intents
      BY <3>1 DEF CoreInv, ResultsAreGrounded, Result
    <3> QED
      BY <2>1, <3>2, <1>m DEF Apply, Sent, Grounded
  <2>2. calls'[q] \in {Apply(msg.intent, msg.risk, "risk_kafka"), calls[q]}
    BY <1>8 DEF ReadMessage, CoreInv, TypeOK
  <2> QED
    BY <2>1, <2>2, <1>same
<1>9. ASSUME \/ \E i \in Intents, e \in Evaluations : RiskAnswers(i, e)
             \/ UNCHANGED vars
      PROVE  Goal
  BY <1>9, <1>same DEF RiskAnswers, vars
<1>10. ASSUME Crash PROVE Goal
  BY <1>10, <1>idle DEF Crash
<1> QED
  BY <1>1, <1>2, <1>3, <1>4, <1>5, <1>6, <1>7, <1>8, <1>9, <1>10 DEF Next

\* Results already in the topic stay grounded; a new one is about an intent that
\* was requested, hence sent.
LEMMA ResultsStep == CoreInv /\ [Next]_vars => ResultsAreGrounded'
<1> SUFFICES ASSUME CoreInv, [Next]_vars, NEW k \in 1..Len(completed')
             PROVE  /\ Sent(completed[k].intent)'
                    /\ completed'[k].risk \in answered'[completed'[k].intent]
  BY DEF ResultsAreGrounded, Sent
<1>m. \A j \in Intents : /\ rows[j].status \notin {NoStatus, "PENDING"}
                               => rows'[j].status \notin {NoStatus, "PENDING"}
                         /\ answered[j] \subseteq answered'[j]
  BY Monotone DEF CoreInv, Sent
<1>1. ASSUME k \in 1..Len(completed), completed'[k] = completed[k]
      PROVE  /\ Sent(completed[k].intent)'
             /\ completed'[k].risk \in answered'[completed'[k].intent]
  <2>1. completed[k] \in Result
    BY <1>1 DEF CoreInv, TypeOK
  <2> QED
    BY <1>1, <1>m, <2>1 DEF CoreInv, ResultsAreGrounded, Sent, Result
<1>2. ASSUME NEW i \in Intents, NEW e \in Evaluations, RiskAnswers(i, e)
      PROVE  /\ Sent(completed[k].intent)'
             /\ completed'[k].risk \in answered'[completed'[k].intent]
  <2>1. CASE k \in 1..Len(completed)
    <3>1. completed'[k] = completed[k]
      BY <1>2, <2>1 DEF RiskAnswers, CoreInv, TypeOK
    <3> QED
      BY <1>1, <2>1, <3>1
  <2>2. CASE k \notin 1..Len(completed)
    <3>1. completed'[k] = [intent |-> i, risk |-> e]
      BY <1>2, <2>2 DEF RiskAnswers, CoreInv, TypeOK
    <3>2. Sent(i) /\ rows' = rows
      BY <1>2 DEF RiskAnswers, CoreInv, PublishedOnlyAfterReview, Sent
    <3>3. e \in answered'[i]
      BY <1>2 DEF RiskAnswers, CoreInv, TypeOK
    <3> QED
      BY <3>1, <3>2, <3>3 DEF Sent
  <2> QED
    BY <2>1, <2>2
<1>3. CASE completed' = completed
  BY <1>1, <1>3
<1>4. (\E i \in Intents, e \in Evaluations : RiskAnswers(i, e)) \/ completed' = completed
  BY DEF Next, vars, Create, Publish, EvaluateOverHTTP, UpdateStatus, LoadAndDecide,
         CommitWrite, AbortWrite, ReadMessage, Crash
<1> QED
  BY <1>2, <1>3, <1>4

\* Only a publish by a goroutine that has marked its intent adds an event.
LEMMA PublishedStep == CoreInv /\ [Next]_vars => PublishedOnlyAfterReview'
<1> SUFFICES ASSUME CoreInv, [Next]_vars, NEW i \in requested'
             PROVE  Sent(i)'
  BY DEF PublishedOnlyAfterReview, Sent
<1>1. i \in Intents /\ Sent(i)
  <2>1. ASSUME NEW h \in Handlers, Publish(h) PROVE i \in Intents /\ Sent(i)
    <3>1. calls[h].intent \in Intents /\ Sent(calls[h].intent)
      BY <2>1 DEF Publish, CoreInv, CallsAreGrounded, Grounded, Procs
    <3>2. i \in requested \/ i = calls[h].intent
      BY <2>1 DEF Publish
    <3> QED
      BY <3>1, <3>2 DEF CoreInv, TypeOK, PublishedOnlyAfterReview, Sent
  <2>2. ASSUME requested' = requested PROVE i \in Intents /\ Sent(i)
    BY <2>2 DEF CoreInv, TypeOK, PublishedOnlyAfterReview, Sent
  <2>3. (\E h \in Handlers : Publish(h)) \/ requested' = requested
    BY DEF Next, vars, Create, EvaluateOverHTTP, UpdateStatus, LoadAndDecide,
           CommitWrite, AbortWrite, RiskAnswers, ReadMessage, Crash
  <2> QED
    BY <2>1, <2>2, <2>3
<1> QED
  BY <1>1, Monotone DEF CoreInv

\* The only two actions that write a row.
LEMMA RowWriters ==
    [Next]_vars => \/ \E h \in Handlers, i \in Intents : Create(h, i)
                   \/ \E p \in Procs : CommitWrite(p)
                   \/ rows' = rows /\ history' = history
BY DEF Next, vars, Publish, EvaluateOverHTTP, UpdateStatus, LoadAndDecide,
       AbortWrite, RiskAnswers, ReadMessage, Crash

\* Rows and history, together: a committed write leaves the row as the writer's
\* memory has it and the history one row longer, ending in the same status.
CommitEffect(p) ==
    LET c == calls[p]
        i == c.intent
    IN  /\ i \in Intents
        /\ Exists(i)
        /\ c.new \in Status
        /\ enforce_status_transition(rows[i].status, c.new)
        /\ c.new \in Resolved => c.risk # NoRisk
        /\ c.risk # NoRisk => c.risk \in answered[i]
        /\ rows'[i] = [status |-> c.new, risk |-> c.risk]
        /\ history'[i] = Append(history[i], NewHistoryRow(c))
        /\ \A j \in Intents \ {i} : rows'[j] = rows[j] /\ history'[j] = history[j]
        /\ answered' = answered

LEMMA CommitFacts ==
    ASSUME CoreInv, NEW p \in Procs, CommitWrite(p)
    PROVE  CommitEffect(p)
<1> DEFINE c == calls[p]
           i == c.intent
<1>1. /\ i \in Intents
      /\ Exists(i)
      /\ c.new \in Status
      /\ c.risk # NoRisk => c.risk \in answered[i]
  BY DEF CoreInv, CommitWrite, CallsAreGrounded, Grounded
<1>2. /\ enforce_status_transition(rows[i].status, c.new)
      /\ c.new \in Resolved => c.risk # NoRisk
  BY DEF CommitWrite, DatabaseAccepts, ck_intent_no_silent_resolution
<1>3. /\ rows'[i] = [status |-> c.new, risk |-> c.risk]
      /\ history'[i] = Append(history[i], NewHistoryRow(c))
      /\ \A j \in Intents \ {i} : rows'[j] = rows[j] /\ history'[j] = history[j]
      /\ answered' = answered
  BY <1>1 DEF CoreInv, TypeOK, CommitWrite, Updated
<1> QED
  BY <1>1, <1>2, <1>3 DEF CommitEffect

\* An evaluation is persisted only if taken, a resolved row has one.
LEMMA RowsStep == CoreInv /\ [Next]_vars => RowsAreGrounded'
<1> SUFFICES ASSUME CoreInv, [Next]_vars, NEW j \in Intents
             PROVE  /\ rows'[j].risk # NoRisk => rows'[j].risk \in answered'[j]
                    /\ rows'[j].status \in Resolved => rows'[j].risk # NoRisk
  BY DEF RowsAreGrounded
<1>m. answered[j] \subseteq answered'[j]
  BY Monotone DEF CoreInv
<1>1. ASSUME rows'[j] = rows[j]
      PROVE  /\ rows'[j].risk # NoRisk => rows'[j].risk \in answered'[j]
             /\ rows'[j].status \in Resolved => rows'[j].risk # NoRisk
  BY <1>1, <1>m DEF CoreInv, RowsAreGrounded
<1>2. ASSUME NEW h \in Handlers, NEW i \in Intents, Create(h, i)
      PROVE  \/ rows'[j] = rows[j]
             \/ rows'[j] = [status |-> "PENDING", risk |-> NoRisk]
  BY <1>2 DEF Create, CoreInv, TypeOK
<1>3. ASSUME NEW p \in Procs, CommitWrite(p), rows'[j] # rows[j]
      PROVE  /\ rows'[j].risk # NoRisk => rows'[j].risk \in answered'[j]
             /\ rows'[j].status \in Resolved => rows'[j].risk # NoRisk
  <2>1. CommitEffect(p)
    BY <1>3, CommitFacts
  <2> QED
    BY <1>3, <1>m, <2>1 DEF CommitEffect
<1> QED
  BY <1>1, <1>2, <1>3, RowWriters DEF Resolved

\* The history of a row that is written ends in the status written.
LEMMA HistoryStep == CoreInv /\ [Next]_vars => HistoryAgrees'
<1> SUFFICES ASSUME CoreInv, [Next]_vars, NEW j \in Intents
             PROVE  (IF Exists(j)
                     THEN /\ history[j] # <<>>
                          /\ history[j][Len(history[j])].new = rows[j].status
                     ELSE history[j] = <<>>)'
  BY DEF HistoryAgrees
<1> DEFINE Goal == (IF Exists(j)
                     THEN /\ history[j] # <<>>
                          /\ history[j][Len(history[j])].new = rows[j].status
                     ELSE history[j] = <<>>)'
<1>h. history[j] \in Seq(HistoryRow)
  BY DEF CoreInv, TypeOK
<1>1. ASSUME rows'[j] = rows[j], history'[j] = history[j] PROVE Goal
  BY <1>1 DEF CoreInv, HistoryAgrees, Exists
<1>2. ASSUME NEW r, history'[j] = Append(history[j], r), rows'[j].status = r.new, r.new # NoStatus
      PROVE  Goal
  <2>1. Len(history'[j]) = Len(history[j]) + 1 /\ history'[j] # <<>>
    BY <1>2, <1>h
  <2>2. history'[j][Len(history'[j])] = r
    BY <1>2, <1>h, <2>1
  <2> QED
    BY <1>2, <2>1, <2>2 DEF Exists
<1>3. ASSUME NEW h \in Handlers, NEW i \in Intents, Create(h, i) PROVE Goal
  <2>1. CASE j = i
    <3> DEFINE r == [prev |-> NoStatus, new |-> "PENDING", reason |-> "created"]
    <3>1. history'[j] = Append(history[j], r) /\ rows'[j].status = r.new
      BY <1>3, <2>1 DEF Create, CoreInv, TypeOK
    <3> HIDE DEF r
    <3>2. r.new # NoStatus
      BY DEF r
    <3> QED
      BY <1>2, <3>1, <3>2
  <2>2. CASE j # i
    BY <1>1, <1>3, <2>2 DEF Create, CoreInv, TypeOK
  <2> QED
    BY <2>1, <2>2
<1>4. ASSUME NEW p \in Procs, CommitWrite(p) PROVE Goal
  <2>0. CommitEffect(p)
    BY <1>4, CommitFacts
  <2>1. CASE j = calls[p].intent
    <3>1. /\ history'[j] = Append(history[j], NewHistoryRow(calls[p]))
          /\ rows'[j].status = calls[p].new
          /\ calls[p].new # NoStatus
      BY <2>0, <2>1 DEF CommitEffect, Status
    <3>2. NewHistoryRow(calls[p]).new = calls[p].new
      BY DEF NewHistoryRow
    <3> QED
      BY <1>2, <3>1, <3>2
  <2>2. CASE j # calls[p].intent
    BY <1>1, <2>0, <2>2 DEF CommitEffect
  <2> QED
    BY <2>1, <2>2
<1> QED
  BY <1>1, <1>3, <1>4, RowWriters

-----------------------------------------------------------------------------
(* The invariant of core-api. *)

LEMMA CoreInvInit == Init => CoreInv
<1> SUFFICES ASSUME Init PROVE CoreInv
  OBVIOUS
<1>1. TypeOK
  BY IdleIsCall DEF Init, TypeOK, NoRow, Row, HistoryRow
<1>2. CallsAreGrounded
  BY DEF Init, CallsAreGrounded, Grounded, Idle
<1>3. ResultsAreGrounded /\ RowsAreGrounded /\ PublishedOnlyAfterReview /\ HistoryAgrees
  BY DEF Init, ResultsAreGrounded, RowsAreGrounded, PublishedOnlyAfterReview,
         HistoryAgrees, NoRow, Exists, Resolved
<1> QED
  BY <1>1, <1>2, <1>3 DEF CoreInv

LEMMA CoreInvStep == CoreInv /\ [Next]_vars => CoreInv'
<1> SUFFICES ASSUME CoreInv, [Next]_vars PROVE CoreInv'
  OBVIOUS
<1>1. TypeOK'
  BY TypeStep DEF CoreInv
<1> QED
  BY <1>1, CallsStep, ResultsStep, RowsStep, PublishedStep, HistoryStep DEF CoreInv

\* CoreInv holds in every reachable state, for every number of intents,
\* goroutines and results, and every set of statuses PATCH may be asked for.
THEOREM CoreInvariant == Spec => []CoreInv
BY CoreInvInit, CoreInvStep, PTL DEF Spec

\* Type correctness.
THEOREM TypeCorrect == Spec => []TypeOK
<1>1. CoreInv => TypeOK
  BY DEF CoreInv
<1> QED
  BY <1>1, CoreInvariant, PTL

\* The row and the last row of its history never disagree.
THEOREM HistoryAlwaysAgrees == Spec => []HistoryAgrees
<1>1. CoreInv => HistoryAgrees
  BY DEF CoreInv
<1> QED
  BY <1>1, CoreInvariant, PTL

\* No event is in Kafka for an intent still PENDING.
THEOREM NeverPublishedEarly == Spec => []PublishedOnlyAfterReview
<1>1. CoreInv => PublishedOnlyAfterReview
  BY DEF CoreInv
<1> QED
  BY <1>1, CoreInvariant, PTL

\* ADR-0003: an APPROVED or REJECTED intent carries an evaluation the risk
\* service took for it, whatever PATCH is used for.
THEOREM NeverResolvedSilently == Spec => []NoSilentResolution
<1>1. CoreInv => NoSilentResolution
  BY DEF CoreInv, RowsAreGrounded, NoSilentResolution
<1> QED
  BY <1>1, CoreInvariant, PTL

-----------------------------------------------------------------------------
(* The audit trail is a path of the state machine.                          *)

\* Appending to a legal path that ends in old a status the trigger lets old be
\* replaced by gives a legal path.
LEMMA PathStep ==
    ASSUME NEW h \in Seq(HistoryRow), NEW r \in HistoryRow,
           h # <<>>, enforce_status_transition(h[Len(h)].new, r.new),
           h[1].new = "PENDING",
           \A k \in 1..(Len(h) - 1) :
               h[k + 1].new # h[k].new => CanTransitionTo(h[k].new, h[k + 1].new)
    PROVE  LET g == Append(h, r) IN
           /\ g[1].new = "PENDING"
           /\ \A k \in 1..(Len(g) - 1) :
                 g[k + 1].new # g[k].new => CanTransitionTo(g[k].new, g[k + 1].new)
<1> DEFINE g == Append(h, r)
<1>1. Len(h) \in Nat \ {0} /\ Len(g) = Len(h) + 1
  OBVIOUS
<1>2. \A k \in 1..Len(h) : g[k] = h[k]
  OBVIOUS
<1>3. g[Len(h) + 1] = r
  OBVIOUS
<1>4. h[Len(h)] \in HistoryRow
  BY <1>1
<1>5. h[Len(h)].new # NoStatus
  BY <1>4 DEF HistoryRow, Status
<1>6. r.new # h[Len(h)].new => CanTransitionTo(h[Len(h)].new, r.new)
  BY <1>5, TriggerFacts
<1> HIDE DEF g
<1>7. ASSUME NEW k \in 1..(Len(g) - 1), g[k + 1].new # g[k].new
      PROVE  CanTransitionTo(g[k].new, g[k + 1].new)
  <2>1. CASE k = Len(h)
    BY <1>1, <1>2, <1>3, <1>6, <1>7, <2>1
  <2>2. CASE k # Len(h)
    <3>1. k \in 1..(Len(h) - 1) /\ k + 1 \in 1..Len(h)
      BY <1>1, <2>2
    <3>2. g[k] = h[k] /\ g[k + 1] = h[k + 1]
      BY <1>2, <3>1, <1>1
    <3> QED
      BY <1>7, <3>1, <3>2
  <2> QED
    BY <2>1, <2>2
<1>8. g[1].new = "PENDING"
  <2>1. 1 \in 1..Len(h)
    BY <1>1
  <2> QED
    BY <1>2, <2>1
<1>9. \A k \in 1..(Len(g) - 1) :
         g[k + 1].new # g[k].new => CanTransitionTo(g[k].new, g[k + 1].new)
  BY <1>7
<1> QED
  BY <1>8, <1>9, Zenon DEF g

LEMMA PathInvStep == CoreInv /\ StatusPathIsLegal /\ [Next]_vars => StatusPathIsLegal'
<1> SUFFICES ASSUME CoreInv, StatusPathIsLegal, [Next]_vars, NEW j \in Intents
             PROVE  LET h == history'[j] IN
                    /\ h # <<>> => h[1].new = "PENDING"
                    /\ \A k \in 1..(Len(h) - 1) :
                          h[k + 1].new # h[k].new => CanTransitionTo(h[k].new, h[k + 1].new)
  BY DEF StatusPathIsLegal
<1> DEFINE Path(h) ==
             /\ h # <<>> => h[1].new = "PENDING"
             /\ \A k \in 1..(Len(h) - 1) :
                   h[k + 1].new # h[k].new => CanTransitionTo(h[k].new, h[k + 1].new)
<1>0. Path(history[j]) /\ history[j] \in Seq(HistoryRow)
  BY DEF StatusPathIsLegal, CoreInv, TypeOK
<1>1. ASSUME NEW h \in Handlers, NEW i \in Intents, Create(h, i), i = j PROVE Path(history'[j])
  <2> DEFINE r == [prev |-> NoStatus, new |-> "PENDING", reason |-> "created"]
  <2>1. history[j] = <<>>
    BY <1>1 DEF Create, CoreInv, HistoryAgrees
  <2>2. history'[j] = Append(history[j], r)
    BY <1>1 DEF Create, CoreInv, TypeOK
  <2>3. history'[j] = <<r>>
    BY <2>1, <2>2
  <2> QED
    BY <2>3
<1>2. ASSUME NEW p \in Procs, CommitWrite(p), calls[p].intent = j PROVE Path(history'[j])
  <2>1. CommitEffect(p)
    BY <1>2, CommitFacts
  <2>2. history'[j] = Append(history[j], NewHistoryRow(calls[p]))
    BY <1>2, <2>1 DEF CommitEffect
  <2>3. NewHistoryRow(calls[p]) \in HistoryRow
    <3>1. calls[p] \in Call
      BY DEF CoreInv, TypeOK
    <3> QED
      BY <2>1, <3>1 DEF CommitEffect, NewHistoryRow, HistoryRow, Call
  <2>4. /\ history[j] # <<>>
        /\ history[j][Len(history[j])].new = rows[j].status
    BY <1>2, <2>1 DEF CommitEffect, CoreInv, HistoryAgrees
  <2>5. enforce_status_transition(history[j][Len(history[j])].new, NewHistoryRow(calls[p]).new)
    BY <1>2, <2>1, <2>4 DEF CommitEffect, NewHistoryRow
  <2> QED
    BY <1>0, <2>2, <2>3, <2>4, <2>5, PathStep
<1>3. CASE history'[j] = history[j]
  BY <1>0, <1>3
<1>4. ASSUME NEW h \in Handlers, NEW i \in Intents, Create(h, i), i # j
      PROVE  history'[j] = history[j]
  BY <1>4 DEF Create, CoreInv, TypeOK
<1>5. ASSUME NEW p \in Procs, CommitWrite(p), calls[p].intent # j
      PROVE  history'[j] = history[j]
  BY <1>5, CommitFacts DEF CommitEffect
<1> QED
  BY <1>1, <1>2, <1>3, <1>4, <1>5, RowWriters

\* The statuses recorded in the history of an intent, in commit order, are a
\* path of the transition table that starts in PENDING.
THEOREM StatusPathAlwaysLegal == Spec => []StatusPathIsLegal
<1>1. Init => StatusPathIsLegal
  BY DEF Init, StatusPathIsLegal
<1> QED
  BY <1>1, PathInvStep, CoreInvariant, PTL DEF Spec

-----------------------------------------------------------------------------
(* A status and the evaluation beside it.                                   *)

\* The decision of an evaluation, and what is not an evaluation.
LEMMA EvaluationFacts ==
    ASSUME NEW e \in Evaluations
    PROVE  Decision[e] \in RiskDecision /\ e # NoRisk
BY CoreAssumption

\* The decision to apply an evaluation carries it to the status it asks for.
LEMMA AppliedWriteMatches ==
    ASSUME NEW i, NEW prev, NEW e \in Evaluations, NEW reason
    PROVE  WriteMatches(Write(i, prev, StatusFor(Decision[e]), e, reason))
<1>1. Decision[e] \in RiskDecision /\ e # NoRisk
  BY EvaluationFacts
<1>2. CASE Decision[e] = "REVIEW"
  <2>1. StatusFor(Decision[e]) \notin Resolved
    BY <1>2 DEF StatusFor, Resolved
  <2> QED
    BY <1>2, <2>1 DEF WriteMatches, Write
<1>3. CASE Decision[e] # "REVIEW"
  <2>1. StatusFor(Decision[e]) \in Resolved
    BY <1>1, <1>3, StatusForFacts
  <2> QED
    BY <1>1, <2>1 DEF WriteMatches, Write
<1> QED
  BY <1>2, <1>3

\* A PATCH is decided on an open row, which has no evaluation or a REVIEW.
LEMMA ManualWriteMatches ==
    ASSUME OpenAwaitsDecision, NEW i \in Intents, NEW next \in PatchTargets,
           CanTransitionTo(rows[i].status, next)
    PROVE  WriteMatches(Write(i, rows[i].status, next, rows[i].risk, "manual"))
<1>1. rows[i].status \notin Resolved
  BY DEF CanTransitionTo, allowedTransitions, Resolved
<1>2. rows[i].risk # NoRisk => Decision[rows[i].risk] = "REVIEW"
  BY <1>1 DEF OpenAwaitsDecision
<1> QED
  BY <1>2 DEF WriteMatches, Write

\* Whatever a goroutine is about to write was decided on an evaluation it carries,
\* or on a row that had been left to a person.
LEMMA WritesMatchStep == RefinementInv /\ [Next]_vars => WritesMatch'
<1> SUFFICES ASSUME RefinementInv, [Next]_vars, NEW q \in Procs, calls'[q].pc = "write"
             PROVE  WriteMatches(calls'[q])
  BY DEF WritesMatch, WriteMatches
<1> USE DEF RefinementInv
<1>same. ASSUME calls'[q] = calls[q] PROVE WriteMatches(calls'[q])
  BY <1>same DEF WritesMatch
<1>idle. calls'[q] # Idle
  BY DEF Idle
<1>1. ASSUME NEW h \in Handlers, NEW i \in Intents, Create(h, i) PROVE WriteMatches(calls'[q])
  <2>1. calls'[q] \in {Write(i, "PENDING", "UNDER_REVIEW", NoRisk, "sent_to_risk"), Idle, calls[q]}
    BY <1>1 DEF Create, CoreInv, TypeOK
  <2>2. WriteMatches(Write(i, "PENDING", "UNDER_REVIEW", NoRisk, "sent_to_risk"))
    BY DEF WriteMatches, Write, Resolved
  <2> QED
    BY <2>1, <2>2, <1>same, <1>idle
<1>2. ASSUME NEW h \in Handlers, Publish(h) PROVE WriteMatches(calls'[q])
  <2>1. calls[h] \in Call /\ calls'[q] \in {[calls[h] EXCEPT !.pc = "fallback"], Idle, calls[q]}
    BY <1>2 DEF Publish, CoreInv, TypeOK, Procs
  <2>2. calls'[q] # [calls[h] EXCEPT !.pc = "fallback"]
    BY <2>1 DEF Call
  <2> QED
    BY <2>1, <2>2, <1>same, <1>idle
<1>3. ASSUME NEW h \in Handlers, EvaluateOverHTTP(h) PROVE WriteMatches(calls'[q])
  <2>1. \/ \E e \in Evaluations : calls'[q] = Apply(calls[h].intent, e, "risk_http")
        \/ calls'[q] \in {Idle, calls[q]}
    BY <1>3 DEF EvaluateOverHTTP, CoreInv, TypeOK
  <2>2. \A e \in Evaluations : calls'[q] # Apply(calls[h].intent, e, "risk_http")
    BY DEF Apply
  <2> QED
    BY <2>1, <2>2, <1>same, <1>idle
<1>4. ASSUME NEW h \in Handlers, NEW i \in Intents, NEW next \in PatchTargets,
             UpdateStatus(h, i, next)
      PROVE  WriteMatches(calls'[q])
  <2>1. calls'[q] \in {Write(i, rows[i].status, next, rows[i].risk, "manual"), calls[q]}
    BY <1>4 DEF UpdateStatus, CoreInv, TypeOK
  <2>2. WriteMatches(Write(i, rows[i].status, next, rows[i].risk, "manual"))
    BY <1>4, ManualWriteMatches DEF UpdateStatus
  <2> QED
    BY <2>1, <2>2, <1>same
<1>5. ASSUME NEW p \in Procs, LoadAndDecide(p) PROVE WriteMatches(calls'[q])
  <2> DEFINE c == calls[p]
             w == Write(c.intent, rows[c.intent].status, StatusFor(Decision[c.risk]),
                        c.risk, c.reason)
  <2>1. c.risk \in Evaluations
    BY <1>5 DEF LoadAndDecide, CoreInv, TypeOK, CallsAreGrounded, Grounded
  <2>2. calls'[q] \in {w, Idle, calls[q]}
    BY <1>5 DEF LoadAndDecide, CoreInv, TypeOK
  <2>3. WriteMatches(w)
    BY <2>1, AppliedWriteMatches
  <2> QED
    BY <2>2, <2>3, <1>same, <1>idle
<1>6. ASSUME NEW p \in Procs, CommitWrite(p) PROVE WriteMatches(calls'[q])
  <2>1. calls'[q] \in {AfterWrite(calls[p]), Idle, calls[q]}
    BY <1>6 DEF CommitWrite, CoreInv, TypeOK
  <2>2. AfterWrite(calls[p]).pc # "write"
    BY DEF AfterWrite, Idle
  <2> QED
    BY <2>1, <2>2, <1>same, <1>idle
<1>7. ASSUME NEW p \in Procs, AbortWrite(p) PROVE WriteMatches(calls'[q])
  BY <1>7, <1>same, <1>idle DEF AbortWrite, CoreInv, TypeOK
<1>8. ASSUME ReadMessage PROVE WriteMatches(calls'[q])
  <2> DEFINE msg == completed[offset + 1]
  <2>1. calls'[q] \in {Apply(msg.intent, msg.risk, "risk_kafka"), calls[q]}
    BY <1>8 DEF ReadMessage, CoreInv, TypeOK
  <2>2. calls'[q] # Apply(msg.intent, msg.risk, "risk_kafka")
    BY DEF Apply
  <2> QED
    BY <2>1, <2>2, <1>same
<1>9. ASSUME \/ \E i \in Intents, e \in Evaluations : RiskAnswers(i, e)
             \/ UNCHANGED vars
      PROVE  WriteMatches(calls'[q])
  BY <1>9, <1>same DEF RiskAnswers, vars
<1>10. ASSUME Crash PROVE WriteMatches(calls'[q])
  BY <1>10, <1>idle DEF Crash
<1> QED
  BY <1>1, <1>2, <1>3, <1>4, <1>5, <1>6, <1>7, <1>8, <1>9, <1>10 DEF Next

\* The row with the history that ends in it: what the rest of the invariant says.
RowMatches(row, hist) ==
    /\ row.status \notin Resolved /\ row.risk # NoRisk => Decision[row.risk] = "REVIEW"
    /\ row.status \in Resolved =>
          /\ row.risk # NoRisk
          /\ \/ StatusFor(Decision[row.risk]) = row.status
             \/ Decision[row.risk] = "REVIEW" /\ ClosedByHand(hist, row.status)

\* A write that matches leaves a row that matches: a person's goes into the
\* history, and the CHECK has refused it if there was no evaluation.
LEMMA CommittedRowMatches ==
    ASSUME RefinementInv, NEW p \in Procs, CommitWrite(p)
    PROVE  RowMatches(rows'[calls[p].intent], history'[calls[p].intent])
<1> DEFINE c == calls[p]
           i == c.intent
<1>1. CommitEffect(p) /\ c.pc = "write"
  BY CommitFacts DEF RefinementInv, CommitWrite
<1>2. WriteMatches(c)
  BY <1>1 DEF RefinementInv, WritesMatch
<1>3. ASSUME c.reason = "manual", c.new \in PatchTargets PROVE ClosedByHand(history'[i], c.new)
  <2>1. history[i] \in Seq(HistoryRow)
    BY <1>1 DEF CommitEffect, RefinementInv, CoreInv, TypeOK
  <2>2. /\ Len(history[i]) + 1 \in DOMAIN history'[i]
        /\ history'[i][Len(history[i]) + 1] = NewHistoryRow(c)
    BY <1>1, <2>1 DEF CommitEffect
  <2>3. NewHistoryRow(c).new = c.new /\ NewHistoryRow(c).reason = c.reason
    BY DEF NewHistoryRow
  <2> QED
    BY <1>3, <2>2, <2>3 DEF ClosedByHand
<1>4. /\ rows'[i].status = c.new /\ rows'[i].risk = c.risk
      /\ c.new \in Resolved => c.risk # NoRisk
  BY <1>1 DEF CommitEffect
<1> QED
  BY <1>2, <1>3, <1>4 DEF WriteMatches, RowMatches

\* In every row the status and the evaluation beside it agree, or a person closed
\* what the evaluation had left open.
LEMMA MatchStep == RefinementInv /\ [Next]_vars => (OpenAwaitsDecision /\ ResolutionMatchesDecision)'
<1> SUFFICES ASSUME RefinementInv, [Next]_vars, NEW j \in Intents
             PROVE  RowMatches(rows'[j], history'[j])
  BY DEF OpenAwaitsDecision, ResolutionMatchesDecision, RowMatches, ClosedByHand
<1> USE DEF RefinementInv
<1>1. ASSUME rows'[j] = rows[j], history'[j] = history[j]
      PROVE  RowMatches(rows'[j], history'[j])
  BY <1>1 DEF OpenAwaitsDecision, ResolutionMatchesDecision, RowMatches
<1>2. ASSUME NEW h \in Handlers, NEW i \in Intents, Create(h, i)
      PROVE  RowMatches(rows'[j], history'[j])
  <2>1. CASE j = i
    <3>1. rows'[j] = [status |-> "PENDING", risk |-> NoRisk]
      BY <1>2, <2>1 DEF Create, CoreInv, TypeOK
    <3> QED
      BY <3>1 DEF RowMatches, Resolved
  <2>2. CASE j # i
    BY <1>1, <1>2, <2>2 DEF Create, CoreInv, TypeOK
  <2> QED
    BY <2>1, <2>2
<1>3. ASSUME NEW p \in Procs, CommitWrite(p)
      PROVE  RowMatches(rows'[j], history'[j])
  <2>1. CASE j = calls[p].intent
    BY <1>3, <2>1, CommittedRowMatches
  <2>2. CASE j # calls[p].intent
    <3>1. CommitEffect(p)
      BY <1>3, CommitFacts
    <3>2. rows'[j] = rows[j] /\ history'[j] = history[j]
      BY <2>2, <3>1 DEF CommitEffect
    <3> QED
      BY <1>1, <3>2
  <2> QED
    BY <2>1, <2>2
<1> QED
  BY <1>1, <1>2, <1>3, RowWriters

\* The strengthened invariant of core-api, for every set of statuses that clients
\* may ask for by PATCH.
THEOREM RefinementInvariant == Spec => []RefinementInv
<1>1. Init => RefinementInv
  <2>1. Init => WritesMatch /\ OpenAwaitsDecision /\ ResolutionMatchesDecision
    BY DEF Init, WritesMatch, OpenAwaitsDecision, ResolutionMatchesDecision, Idle, NoRow, Resolved
  <2> QED
    BY <2>1, CoreInvInit DEF RefinementInv
<1>2. RefinementInv /\ [Next]_vars => RefinementInv'
  BY CoreInvStep, WritesMatchStep, MatchStep DEF RefinementInv
<1> QED
  BY <1>1, <1>2, PTL DEF Spec

\* An intent is APPROVED or REJECTED because the evaluation it carries says so, or
\* because that evaluation said REVIEW and a PATCH in its history closed it.
THEOREM ResolutionAlwaysMatches == Spec => []ResolutionMatchesDecision
<1>1. RefinementInv => ResolutionMatchesDecision
  BY DEF RefinementInv
<1> QED
  BY <1>1, RefinementInvariant, PTL

\* What a closed intent keeps, and what may replace its evaluation.
KeepsOutcome(i) ==
    /\ rows[i].status \in Terminal => rows'[i].status = rows[i].status
    /\ rows[i].status \in Resolved /\ rows'[i].risk # rows[i].risk =>
          /\ history'[i] # history[i]
          /\ \/ StatusFor(Decision[rows'[i].risk]) = rows[i].status
             \/ /\ Decision[rows'[i].risk] = "REVIEW"
                /\ history'[i][Len(history'[i])].reason = "manual"

\* A committed write that finds a closed intent repeats its status, with an
\* evaluation that decides it or with a person's review.
LEMMA WriteKeepsOutcome ==
    ASSUME RefinementInv, NEW p \in Procs, CommitWrite(p)
    PROVE  KeepsOutcome(calls[p].intent)
<1> DEFINE c == calls[p]
           i == c.intent
<1>1. CommitEffect(p) /\ c.pc = "write" /\ WriteMatches(c)
  BY CommitFacts DEF RefinementInv, CommitWrite, WritesMatch
<1>2. rows[i].status \in Terminal => c.new = rows[i].status
  BY <1>1, TriggerFacts DEF CommitEffect, Exists
<1>3. rows'[i].status = c.new /\ rows'[i].risk = c.risk
  BY <1>1 DEF CommitEffect
<1>4. /\ history'[i] # history[i]
      /\ history'[i][Len(history'[i])].reason = c.reason
  <2>1. history[i] \in Seq(HistoryRow) /\ history'[i] = Append(history[i], NewHistoryRow(c))
    BY <1>1 DEF CommitEffect, RefinementInv, CoreInv, TypeOK
  <2>2. NewHistoryRow(c).reason = c.reason
    BY DEF NewHistoryRow
  <2>3. /\ Len(history'[i]) = Len(history[i]) + 1
        /\ history'[i][Len(history'[i])] = NewHistoryRow(c)
        /\ Len(history[i]) \in Nat
    BY <2>1
  <2>4. history'[i] # history[i]
    BY <2>3
  <2> QED
    BY <2>2, <2>3, <2>4
<1>5. ASSUME rows[i].status \in Resolved
      PROVE  \/ StatusFor(Decision[c.risk]) = rows[i].status
             \/ Decision[c.risk] = "REVIEW" /\ c.reason = "manual"
  <2>1. c.new = rows[i].status /\ c.risk # NoRisk
    BY <1>1, <1>2, <1>5 DEF CommitEffect, Resolved, Terminal
  <2> QED
    BY <1>1, <1>5, <2>1 DEF WriteMatches
<1> QED
  BY <1>2, <1>3, <1>4, <1>5 DEF KeepsOutcome

\* ADR-0003: a terminal status is final, however stale the goroutine that writes.
\* The evaluation beside it is not; it is replaced only by one that decides the
\* same or, in the hands of a person, by the REVIEW that left the intent open, and
\* never without a row of history (payment_intent.go, ApplyRiskDecision).
THEOREM ClosedStaysClosed == Spec => ClosedIsFinal
<1> DEFINE A == \A i \in Intents : KeepsOutcome(i)
<1>1. RefinementInv /\ [Next]_vars => A
  <2> SUFFICES ASSUME RefinementInv, [Next]_vars, NEW j \in Intents
               PROVE  KeepsOutcome(j)
    OBVIOUS
  <2>0. ASSUME rows'[j] = rows[j] \/ rows[j].status = NoStatus PROVE KeepsOutcome(j)
    BY <2>0 DEF KeepsOutcome, Terminal, Resolved
  <2>1. ASSUME NEW h \in Handlers, NEW i \in Intents, Create(h, i)
        PROVE  rows'[j] = rows[j] \/ rows[j].status = NoStatus
    BY <2>1 DEF Create, Exists, RefinementInv, CoreInv, TypeOK
  <2>2. ASSUME NEW p \in Procs, CommitWrite(p), j # calls[p].intent PROVE rows'[j] = rows[j]
    BY <2>2, CommitFacts DEF CommitEffect, RefinementInv
  <2>3. ASSUME NEW p \in Procs, CommitWrite(p), j = calls[p].intent
        PROVE  KeepsOutcome(j)
    BY <2>3, WriteKeepsOutcome
  <2> QED
    BY <2>0, <2>1, <2>2, <2>3, RowWriters
<1>2. RefinementInv /\ [Next]_vars => [A]_vars
  BY <1>1
<1> QED
  BY <1>2, RefinementInvariant, PTL DEF Spec, ClosedIsFinal, KeepsOutcome

-----------------------------------------------------------------------------
(* Refinement. *)

LifeStatus == [i \in Intents |-> rows[i].status]
LifeAnswered == [i \in Intents |-> {Decision[e] : e \in answered[i]}]

\* A committed write is a step of the life cycle, or changes no status.
LEMMA WriteRefines ==
    ASSUME RefinementInv, NEW p \in Procs, CommitWrite(p)
    PROVE  Life!LifeNext \/ UNCHANGED Life!lifeVars
<1> DEFINE c == calls[p]
<1>1. CommitEffect(p) /\ c.pc = "write"
  BY CommitFacts DEF RefinementInv, CommitWrite
<1>0. PICK i \in Intents : i = c.intent
  BY <1>1 DEF CommitEffect
<1>2. rows[i].status # NoStatus /\ c.new \in Status /\ answered' = answered
  BY <1>0, <1>1 DEF CommitEffect, Exists
<1>3. LifeStatus' = [LifeStatus EXCEPT ![i] = c.new]
  <2>1. rows'[i].status = c.new /\ \A j \in Intents \ {i} : rows'[j] = rows[j]
    BY <1>0, <1>1 DEF CommitEffect
  <2> QED
    BY <1>2, <2>1 DEF LifeStatus
<1>4. LifeStatus[i] = rows[i].status
  BY <1>2 DEF LifeStatus
<1>5. CASE c.new = rows[i].status
  <2>1. LifeStatus' = LifeStatus
    BY <1>3, <1>4, <1>5 DEF LifeStatus
  <2> QED
    BY <1>2, <2>1 DEF Life!lifeVars, LifeStatus
<1>6. CASE c.new # rows[i].status
  <2>1. CanTransitionTo(rows[i].status, c.new)
    BY <1>0, <1>1, <1>6, TriggerFacts DEF CommitEffect, Exists
  <2>2. CASE c.new = "UNDER_REVIEW"
    <3>1. rows[i].status = "PENDING"
      BY <2>1, <2>2 DEF CanTransitionTo, allowedTransitions
    <3>2. Life!SendToReview(i)
      BY <1>2, <1>3, <1>4, <2>2, <3>1 DEF Life!SendToReview, LifeStatus
    <3>3. Life!LifeNext
      BY <3>2 DEF Life!LifeNext
    <3> QED
      BY <3>3
  <2>3. CASE c.new \in Resolved
    <3>1. rows[i].status = "UNDER_REVIEW"
      BY <2>1, <2>3 DEF CanTransitionTo, allowedTransitions, Resolved
    <3>2. c.risk \in answered[i] /\ c.risk \in Evaluations
      BY <1>0, <1>1, <2>3 DEF CommitEffect, RefinementInv, CoreInv, TypeOK
    <3>3. PICK d \in RiskDecision : d = Decision[c.risk]
      BY <3>2, EvaluationFacts
    <3>4. d \in LifeAnswered[i] /\ LifeAnswered' = LifeAnswered
      BY <1>2, <3>2, <3>3 DEF LifeAnswered
    <3>5. CASE StatusFor(d) = c.new
      <4>1. d # "REVIEW"
        BY <2>3, <3>5 DEF StatusFor, Resolved
      <4>2. Life!Resolve(i, d)
        BY <1>3, <1>4, <3>1, <3>4, <3>5, <4>1
           DEF Life!Resolve, LifeStatus, LifeAnswered, Life!StatusFor, StatusFor
      <4> QED
        BY <3>3, <4>2 DEF Life!LifeNext, Life!RiskDecision, RiskDecision
    <3>6. CASE d = "REVIEW" /\ c.new \in PatchTargets
      <4>1. PICK s \in PatchTargets \cap Resolved : s = c.new
        BY <2>3, <3>6
      <4>2. Life!ResolveByHand(i, s)
        BY <1>3, <1>4, <3>1, <3>4, <3>6, <4>1 DEF Life!ResolveByHand, LifeStatus, LifeAnswered
      <4>3. Life!LifeNext
        BY <4>2 DEF Life!LifeNext
      <4> QED
        BY <4>3
    <3>7. WriteMatches(c) /\ c.risk # NoRisk
      BY <1>1, <2>3 DEF RefinementInv, WritesMatch, CommitEffect
    <3> QED
      BY <2>3, <3>3, <3>5, <3>6, <3>7 DEF WriteMatches
  <2>4. CASE c.new \in {"EXPIRED", "CANCELLED"}
    <3>1. PICK s \in Life!Terminal : s = c.new
      BY <2>4 DEF Life!Terminal
    <3>2. Life!Withdraw(i, s)
      BY <1>2, <1>3, <1>4, <2>1, <2>4, <3>1
         DEF Life!Withdraw, LifeStatus, Life!CanTransitionTo, CanTransitionTo,
             Life!allowedTransitions, allowedTransitions
    <3>3. Life!LifeNext
      BY <3>2 DEF Life!LifeNext
    <3> QED
      BY <3>3
  <2>5. c.new # "PENDING"
    BY <2>1, TransitionFacts
  <2> QED
    BY <1>2, <2>2, <2>3, <2>4, <2>5 DEF Status, Resolved
<1> QED
  BY <1>5, <1>6

\* An evaluation the risk service makes of an intent that was sent is an Answer.
LEMMA AnswerRefines ==
    ASSUME RefinementInv, NEW i \in Intents, NEW e \in Evaluations, Sent(i), rows' = rows,
           answered' = [answered EXCEPT ![i] = @ \cup {e}]
    PROVE  Life!LifeNext
<1>1. LifeStatus' = LifeStatus /\ LifeStatus[i] \notin {NoStatus, "PENDING"}
  BY DEF LifeStatus, Sent
<1>2. PICK d \in RiskDecision : d = Decision[e]
  BY EvaluationFacts
<1>3. LifeAnswered' = [LifeAnswered EXCEPT ![i] = @ \cup {d}]
  <2>1. answered \in [Intents -> SUBSET Evaluations]
    BY DEF RefinementInv, CoreInv, TypeOK
  <2>2. ASSUME NEW j \in Intents
        PROVE  LifeAnswered'[j] = IF j = i THEN LifeAnswered[i] \cup {d} ELSE LifeAnswered[j]
    <3>1. LifeAnswered'[j] = {Decision[x] : x \in answered'[j]}
      BY DEF LifeAnswered
    <3>2. CASE j = i
      <4>1. answered'[j] = answered[i] \cup {e}
        BY <2>1, <3>2
      <4> QED
        BY <1>2, <3>1, <3>2, <4>1 DEF LifeAnswered
    <3>3. CASE j # i
      <4>1. answered'[j] = answered[j]
        BY <2>1, <3>3
      <4> QED
        BY <3>1, <3>3, <4>1 DEF LifeAnswered
    <3> QED
      BY <3>2, <3>3
  <2> QED
    BY <2>2 DEF LifeAnswered
<1>4. Life!Answer(i, d)
  BY <1>1, <1>3 DEF Life!Answer, LifeStatus, LifeAnswered, Life!NoStatus
<1> QED
  BY <1>2, <1>4 DEF Life!LifeNext, Life!RiskDecision, RiskDecision

\* core-api, with all its stale reads, aborts, lost replies, repeated answers
\* and crashes, implements the life cycle of PaymentLifecycle.
THEOREM CoreApiImplementsLifecycle == Spec => ImplementsLifecycle
<1>1. Init => Life!LifeInit
  BY DEF Init, Life!LifeInit, NoRow, Life!NoStatus
<1>2. RefinementInv /\ [Next]_vars => [Life!LifeNext]_(Life!lifeVars)
  <2> SUFFICES ASSUME RefinementInv, [Next]_vars
               PROVE  Life!LifeNext \/ UNCHANGED Life!lifeVars
    OBVIOUS
  <2>1. ASSUME NEW h \in Handlers, NEW i \in Intents, Create(h, i) PROVE Life!LifeNext
    <3>1. /\ LifeStatus[i] = NoStatus
          /\ LifeStatus' = [LifeStatus EXCEPT ![i] = "PENDING"]
          /\ answered' = answered
      BY <2>1 DEF Create, Exists, LifeStatus, RefinementInv, CoreInv, TypeOK
    <3>2. Life!Opens(i)
      BY <3>1 DEF Life!Opens, LifeStatus, Life!NoStatus
    <3> QED
      BY <3>2 DEF Life!LifeNext
  <2>2. ASSUME NEW h \in Handlers, EvaluateOverHTTP(h)
        PROVE  Life!LifeNext \/ UNCHANGED Life!lifeVars
    <3>1. /\ calls[h].intent \in Intents
          /\ Sent(calls[h].intent)
      BY <2>2 DEF EvaluateOverHTTP, RefinementInv, CoreInv, CallsAreGrounded, Grounded, Procs
    <3>2. CASE \E e \in Evaluations :
                  answered' = [answered EXCEPT ![calls[h].intent] = @ \cup {e}]
      BY <2>2, <3>1, <3>2, AnswerRefines DEF EvaluateOverHTTP
    <3>3. CASE answered' = answered
      BY <2>2, <3>3 DEF EvaluateOverHTTP, Life!lifeVars
    <3> QED
      BY <2>2, <3>2, <3>3 DEF EvaluateOverHTTP
  <2>3. ASSUME NEW i \in Intents, NEW e \in Evaluations, RiskAnswers(i, e) PROVE Life!LifeNext
    <3>1. Sent(i) /\ rows' = rows /\ answered' = [answered EXCEPT ![i] = @ \cup {e}]
      BY <2>3 DEF RiskAnswers, RefinementInv, CoreInv, PublishedOnlyAfterReview, Sent
    <3> QED
      BY <3>1, AnswerRefines
  <2>4. ASSUME NEW p \in Procs, CommitWrite(p)
        PROVE  Life!LifeNext \/ UNCHANGED Life!lifeVars
    BY <2>4, WriteRefines
  <2>5. ASSUME \/ \E h \in Handlers : Publish(h)
               \/ \E h \in Handlers, i \in Intents, next \in PatchTargets : UpdateStatus(h, i, next)
               \/ \E p \in Procs : LoadAndDecide(p)
               \/ \E p \in Procs : AbortWrite(p)
               \/ ReadMessage
               \/ Crash
               \/ UNCHANGED vars
        PROVE  UNCHANGED Life!lifeVars
    BY <2>5 DEF Publish, UpdateStatus, LoadAndDecide, AbortWrite, ReadMessage, Crash, vars,
                Life!lifeVars
  <2> QED
    BY <2>1, <2>2, <2>3, <2>4, <2>5 DEF Next
<1> QED
  BY <1>1, <1>2, RefinementInvariant, PTL DEF Spec, ImplementsLifecycle, Life!LifeSpec

-----------------------------------------------------------------------------
(* Each intent is written one write at a time.                              *)

\* The path of statuses grows with the history.
LEMMA StatusesAppended ==
    ASSUME NEW h \in Seq(HistoryRow), NEW r \in HistoryRow, NEW g, g = Append(h, r)
    PROVE  [k \in DOMAIN g |-> g[k].new] = Append([k \in DOMAIN h |-> h[k].new], r.new)
<1> DEFINE path == [k \in DOMAIN h |-> h[k].new]
<1>1. /\ Len(h) \in Nat /\ DOMAIN h = 1..Len(h) /\ DOMAIN g = 1..(Len(h) + 1)
      /\ \A k \in 1..Len(h) : g[k] = h[k] /\ h[k] \in HistoryRow
      /\ g[Len(h) + 1] = r
  OBVIOUS
<1>2. \A x \in HistoryRow : x.new \in Status
  BY DEF HistoryRow
<1>3. path \in Seq(Status) /\ Len(path) = Len(h) /\ \A k \in 1..Len(h) : path[k] = h[k].new
  BY <1>1, <1>2
<1> HIDE DEF path
<1>4. Append(path, r.new) = [k \in 1..(Len(h) + 1) |-> IF k <= Len(h) THEN path[k] ELSE r.new]
  BY <1>1, <1>2, <1>3
<1>5. ASSUME NEW k \in 1..(Len(h) + 1)
      PROVE  g[k].new = IF k <= Len(h) THEN path[k] ELSE r.new
  <2>1. CASE k <= Len(h)
    BY <1>1, <1>3, <2>1
  <2>2. CASE k = Len(h) + 1
    BY <1>1, <2>2
  <2> QED
    BY <1>1, <2>1, <2>2
<1>6. [k \in DOMAIN g |-> g[k].new] = [k \in 1..(Len(h) + 1) |-> g[k].new]
  BY <1>1
<1> QED
  BY <1>4, <1>5, <1>6 DEF path

\* A step writes an intent once, serially, or leaves its row's status and its
\* history alone.
LEMMA StepIsSerial ==
    ASSUME CoreInv, [Next]_vars, NEW j \in Intents
    PROVE  \/ Serial(j)!SerialNext
           \/ rows'[j].status = rows[j].status /\ history'[j] = history[j]
<1> DEFINE path == [k \in DOMAIN history[j] |-> history[j][k].new]
<1>h. history[j] \in Seq(HistoryRow)
  BY DEF CoreInv, TypeOK
<1>1. ASSUME NEW s \in Status, rows'[j].status = s, path' = Append(path, s),
             IF rows[j].status = NoStatus THEN s = "PENDING"
             ELSE s = rows[j].status \/ CanTransitionTo(rows[j].status, s)
      PROVE  Serial(j)!SerialNext
  <2> HIDE DEF path
  <2>1. Serial(j)!Write(s)
    BY <1>1 DEF Serial!Write, Serial!NoStatus, Serial!CanTransitionTo, CanTransitionTo,
                Serial!allowedTransitions, allowedTransitions, path
  <2> QED
    BY <2>1 DEF Serial!SerialNext, Serial!Status, Status
<1>2. ASSUME NEW h \in Handlers, NEW i \in Intents, Create(h, i), i = j
      PROVE  Serial(j)!SerialNext
  <2> DEFINE r == [prev |-> NoStatus, new |-> "PENDING", reason |-> "created"]
  <2>1. r \in HistoryRow
    BY DEF HistoryRow, Status, Reasons
  <2>2. history'[j] = Append(history[j], r) /\ rows'[j].status = "PENDING" /\ rows[j].status = NoStatus
    BY <1>2 DEF Create, Exists, CoreInv, TypeOK
  <2>3. r.new = "PENDING" /\ r.new \in Status
    BY DEF Status
  <2> HIDE DEF r
  <2>4. path' = Append(path, r.new)
    BY <1>h, <2>1, <2>2, StatusesAppended
  <2> HIDE DEF path
  <2> QED
    BY <1>1, <2>2, <2>3, <2>4
<1>3. ASSUME NEW p \in Procs, CommitWrite(p), calls[p].intent = j
      PROVE  Serial(j)!SerialNext
  <2> DEFINE r == NewHistoryRow(calls[p])
  <2>1. CommitEffect(p)
    BY <1>3, CommitFacts
  <2>2. r \in HistoryRow /\ r.new = calls[p].new
    <3>1. calls[p] \in Call
      BY DEF CoreInv, TypeOK
    <3> QED
      BY <2>1, <3>1 DEF CommitEffect, NewHistoryRow, HistoryRow, Call
  <2>3. /\ history'[j] = Append(history[j], r) /\ rows'[j].status = r.new /\ r.new \in Status
        /\ rows[j].status # NoStatus
        /\ enforce_status_transition(rows[j].status, r.new)
    BY <1>3, <2>1, <2>2 DEF CommitEffect, Exists
  <2> HIDE DEF r
  <2>4. path' = Append(path, r.new)
    BY <1>h, <2>2, <2>3, StatusesAppended
  <2>5. r.new = rows[j].status \/ CanTransitionTo(rows[j].status, r.new)
    BY <2>3, TriggerFacts
  <2> HIDE DEF path
  <2> QED
    BY <1>1, <2>3, <2>4, <2>5
<1>4. ASSUME NEW h \in Handlers, NEW i \in Intents, Create(h, i), i # j
      PROVE  rows'[j].status = rows[j].status /\ history'[j] = history[j]
  BY <1>4 DEF Create, CoreInv, TypeOK
<1>5. ASSUME NEW p \in Procs, CommitWrite(p), calls[p].intent # j
      PROVE  rows'[j].status = rows[j].status /\ history'[j] = history[j]
  <2>1. CommitEffect(p)
    BY <1>5, CommitFacts
  <2>2. rows'[j] = rows[j] /\ history'[j] = history[j]
    BY <1>5, <2>1 DEF CommitEffect
  <2> QED
    BY <2>2
<1> QED
  BY <1>2, <1>3, <1>4, <1>5, RowWriters

\* CoreApi treats as one step what RowTransactions takes apart; for each intent
\* both are SerialWrites: a write and its history row, judged against what they
\* replace, or nothing (uow.go, Execute).
THEOREM CoreApiWritesSerially == Spec => ImplementsSerialWrites
<1>1. Init => \A i \in Intents : Serial(i)!SerialInit
  BY DEF Init, NoRow, Serial!SerialInit, Serial!NoStatus
<1>2. CoreInv /\ [Next]_vars =>
         [\A i \in Intents : \/ Serial(i)!SerialNext
                             \/ rows'[i].status = rows[i].status /\ history'[i] = history[i]]_vars
  BY StepIsSerial
<1> QED
  BY <1>1, <1>2, CoreInvariant, PTL DEF Spec, ImplementsSerialWrites

\* The same in the form of a refinement, for any one intent.
COROLLARY EachIntentIsSerial ==
    ASSUME NEW i \in Intents
    PROVE  Spec => Serial(i)!SerialSpec
<1> DEFINE path == [k \in DOMAIN history[i] |-> history[i][k].new]
<1>1. Init => Serial(i)!SerialInit
  BY DEF Init, NoRow, Serial!SerialInit, Serial!NoStatus
<1>2. CoreInv /\ [Next]_vars => [Serial(i)!SerialNext]_<<rows[i].status, path>>
  BY StepIsSerial
<1> QED
  BY <1>1, <1>2, CoreInvariant, PTL DEF Spec, Serial!SerialSpec

\* Serial writes keep the history to one outcome: what is closed is only written
\* again as it is, and nothing but a review precedes a decision.
LEMMA OutcomeStep == CoreInv /\ HistoryShowsOneOutcome /\ [Next]_vars => HistoryShowsOneOutcome'
<1> SUFFICES ASSUME CoreInv, HistoryShowsOneOutcome, [Next]_vars, NEW j \in Intents
             PROVE  /\ \A k \in 1..Len(history'[j]) :
                          history'[j][k].new \in Terminal => rows'[j].status = history'[j][k].new
                    /\ rows'[j].status \in {"UNDER_REVIEW"} \cup Resolved
                          => \E k \in 1..Len(history'[j]) : history'[j][k].new = "UNDER_REVIEW"
  BY DEF HistoryShowsOneOutcome
<1> DEFINE h == history[j]
           g == history'[j]
           old == rows[j].status
           path == [k \in DOMAIN h |-> h[k].new]
           q == [k \in DOMAIN g |-> g[k].new]
<1>1. /\ h \in Seq(HistoryRow) /\ Len(h) \in Nat /\ DOMAIN h = 1..Len(h)
      /\ g \in Seq(HistoryRow) /\ Len(g) \in Nat /\ DOMAIN g = 1..Len(g)
  BY CoreInvStep DEF CoreInv, TypeOK
<1>2. /\ \A k \in 1..Len(h) : h[k].new \in Terminal => old = h[k].new
      /\ old \in {"UNDER_REVIEW"} \cup Resolved => \E k \in 1..Len(h) : h[k].new = "UNDER_REVIEW"
  BY DEF HistoryShowsOneOutcome
<1>3. CASE rows'[j].status = rows[j].status /\ history'[j] = history[j]
  BY <1>2, <1>3
<1>4. ASSUME Serial(j)!SerialNext
      PROVE  /\ \A k \in 1..Len(g) : g[k].new \in Terminal => rows'[j].status = g[k].new
             /\ rows'[j].status \in {"UNDER_REVIEW"} \cup Resolved
                   => \E k \in 1..Len(g) : g[k].new = "UNDER_REVIEW"
  <2>1. PICK s \in Status : Serial(j)!Write(s)
    BY <1>4 DEF Serial!SerialNext, Serial!Status, Status
  <2>2. /\ IF old = NoStatus THEN s = "PENDING" ELSE s = old \/ CanTransitionTo(old, s)
        /\ rows'[j].status = s
        /\ q = Append(path, s)
    BY <2>1 DEF Serial!Write, Serial!NoStatus, Serial!CanTransitionTo, CanTransitionTo,
                Serial!allowedTransitions, allowedTransitions
  <2>3. /\ Len(g) = Len(h) + 1 /\ g[Len(h) + 1].new = s
        /\ \A k \in 1..Len(h) : g[k].new = h[k].new
    <3>1. /\ path \in Seq(Status) /\ Len(path) = Len(h)
          /\ \A k \in 1..Len(h) : path[k] = h[k].new
      <4>1. \A x \in HistoryRow : x.new \in Status
        BY DEF HistoryRow
      <4>2. \A k \in 1..Len(h) : h[k] \in HistoryRow
        BY <1>1
      <4> HIDE DEF h
      <4> QED
        BY <1>1, <4>1, <4>2
    <3>2. DOMAIN q = 1..Len(g) /\ \A k \in 1..Len(g) : q[k] = g[k].new
      BY <1>1
    <3> HIDE DEF path, q, g, h
    <3>3. /\ Len(Append(path, s)) = Len(h) + 1 /\ DOMAIN Append(path, s) = 1..(Len(h) + 1)
          /\ Append(path, s)[Len(h) + 1] = s
          /\ \A k \in 1..Len(h) : Append(path, s)[k] = path[k]
      <4>1. \A f \in Seq(Status) :
               /\ Len(Append(f, s)) = Len(f) + 1 /\ DOMAIN Append(f, s) = 1..(Len(f) + 1)
               /\ Append(f, s)[Len(f) + 1] = s
               /\ \A k \in 1..Len(f) : Append(f, s)[k] = f[k]
        OBVIOUS
      <4> QED
        BY <3>1, <4>1
    <3>5. Len(g) = Len(h) + 1
      <4>1. 1..Len(g) = 1..(Len(h) + 1)
        BY <2>2, <3>2, <3>3
      <4>2. ASSUME NEW m \in Nat, NEW n \in Nat, 1..m = 1..n PROVE m = n
        <5>1. (m \in 1..m <=> m \in 1..n) /\ (n \in 1..m <=> n \in 1..n)
          BY <4>2
        <5> QED
          BY <5>1
      <4>3. Len(g) \in Nat /\ Len(h) + 1 \in Nat
        BY <1>1
      <4> QED
        BY <4>1, <4>2, <4>3
    <3>6. g[Len(h) + 1].new = s
      <4>1. Len(h) + 1 \in 1..Len(g)
        BY <1>1, <3>5
      <4>2. q[Len(h) + 1] = g[Len(h) + 1].new
        BY <3>2, <4>1
      <4> QED
        BY <2>2, <3>3, <4>2
    <3>7. ASSUME NEW k \in 1..Len(h) PROVE g[k].new = h[k].new
      <4>1. k \in 1..Len(g)
        BY <1>1, <3>5
      <4>2. q[k] = g[k].new
        BY <3>2, <4>1
      <4>3. Append(path, s)[k] = h[k].new
        BY <3>1, <3>3
      <4> QED
        BY <2>2, <4>2, <4>3
    <3> QED
      BY <3>5, <3>6, <3>7
  <2> HIDE DEF g, h, path, q
  <2>4. \A k \in 1..Len(g) : k \in 1..Len(h) \/ k = Len(h) + 1
    BY <1>1, <2>3
  <2>5. /\ old \in Terminal => s = old
        /\ s \in Resolved => old \in {"UNDER_REVIEW"} \cup Resolved
    BY <2>2 DEF CanTransitionTo, allowedTransitions, Terminal, Resolved, NoStatus
  <2>6. ASSUME NEW k \in 1..Len(g), g[k].new \in Terminal PROVE rows'[j].status = g[k].new
    BY <1>2, <2>2, <2>3, <2>4, <2>5, <2>6
  <2>7. ASSUME rows'[j].status \in {"UNDER_REVIEW"} \cup Resolved
        PROVE  \E k \in 1..Len(g) : g[k].new = "UNDER_REVIEW"
    <3>1. CASE s = "UNDER_REVIEW"
      <4>1. Len(h) + 1 \in 1..Len(g)
        BY <1>1, <2>3
      <4> QED
        BY <2>3, <3>1, <4>1
    <3>2. CASE s \in Resolved
      <4>1. PICK k \in 1..Len(h) : h[k].new = "UNDER_REVIEW"
        BY <1>2, <2>5, <3>2
      <4>2. k \in 1..Len(g)
        BY <1>1, <2>3
      <4> QED
        BY <2>3, <4>1, <4>2
    <3> QED
      BY <2>2, <2>7, <3>1, <3>2
  <2> QED
    BY <2>6, <2>7
<1> QED
  BY <1>3, <1>4, StepIsSerial

\* Read at any time, the history of an intent shows one outcome at most, the one
\* its row has, and no decision without a review (trg_intent_transition).
THEOREM HistoryAlwaysShowsOneOutcome == Spec => []HistoryShowsOneOutcome
<1>1. Init => HistoryShowsOneOutcome
  BY DEF Init, NoRow, NoStatus, Resolved, HistoryShowsOneOutcome
<1> QED
  BY <1>1, OutcomeStep, CoreInvariant, PTL DEF Spec

-----------------------------------------------------------------------------
(* An evaluation is lost to a PATCH or not at all.                          *)

\* A goroutine about to mark an intent is the only one that knows of it, clients
\* of PATCH apart: nothing was published or evaluated for it.
MarkingIsFirst ==
    \A p \in Procs :
        (calls[p].pc = "write" /\ calls[p].reason = "sent_to_risk") =>
            LET i == calls[p].intent IN
            /\ i \notin requested
            /\ answered[i] = {}
            /\ \A q \in Procs \ {p} :
                  calls[q].pc # "idle" /\ calls[q].intent = i
                      => calls[q].pc = "write" /\ calls[q].reason = "manual"

\* Why a goroutine is about to write, and with what.
WritesHaveReason ==
    \A p \in Procs : calls[p].pc = "write" =>
        \/ calls[p].reason = "sent_to_risk"
        \/ calls[p].reason = "manual" /\ calls[p].new \in PatchTargets \ {"PENDING"}
        \/ calls[p].reason \in {"risk_kafka", "risk_http"} /\ calls[p].risk # NoRisk

AnsweredExist == \A i \in Intents : answered[i] # {} => Exists(i)

MarkingInv == MarkingIsFirst /\ WritesHaveReason /\ AnsweredExist

LEMMA AnsweredStep == CoreInv /\ AnsweredExist /\ [Next]_vars => AnsweredExist'
<1> SUFFICES ASSUME CoreInv, AnsweredExist, [Next]_vars, NEW j \in Intents, answered'[j] # {}
             PROVE  Exists(j)'
  BY DEF AnsweredExist
<1>1. Exists(j)
  <2>1. ASSUME NEW h \in Handlers, EvaluateOverHTTP(h) PROVE Exists(j)
    <3>1. calls[h].intent \in Intents /\ Exists(calls[h].intent)
      BY <2>1 DEF EvaluateOverHTTP, CoreInv, CallsAreGrounded, Grounded, Sent, Exists, Procs
    <3>2. j = calls[h].intent \/ answered[j] # {}
      BY <2>1, <3>1 DEF EvaluateOverHTTP, CoreInv, TypeOK
    <3> QED
      BY <3>1, <3>2 DEF AnsweredExist
  <2>2. ASSUME NEW i \in Intents, NEW e \in Evaluations, RiskAnswers(i, e) PROVE Exists(j)
    <3>1. Exists(i)
      BY <2>2 DEF RiskAnswers, CoreInv, PublishedOnlyAfterReview, Exists
    <3>2. j = i \/ answered[j] # {}
      BY <2>2 DEF RiskAnswers, CoreInv, TypeOK
    <3> QED
      BY <3>1, <3>2 DEF AnsweredExist
  <2>3. CASE answered' = answered
    BY <2>3 DEF AnsweredExist
  <2> QED
    BY <2>1, <2>2, <2>3 DEF Next, vars, Create, Publish, UpdateStatus, LoadAndDecide, CommitWrite,
           AbortWrite, ReadMessage, Crash
<1> QED
  BY <1>1, Monotone DEF CoreInv

\* What a step makes a goroutine be about to do, by the step that does it.
CallBecomes(q) ==
    LET c == calls[q] IN
    \/ calls'[q] = c
    \/ calls'[q] = Idle
    \/ \E i \in Intents : /\ Create(q, i)
                          /\ calls'[q] = Write(i, "PENDING", "UNDER_REVIEW", NoRisk, "sent_to_risk")
    \/ c.pc = "publish" /\ calls'[q].pc = "fallback" /\ calls'[q].intent = c.intent
    \/ c.pc = "fallback" /\ \E e \in Evaluations : calls'[q] = Apply(c.intent, e, "risk_http")
    \/ \E i \in Intents, next \in PatchTargets :
          /\ CanTransitionTo(rows[i].status, next)
          /\ calls'[q] = Write(i, rows[i].status, next, rows[i].risk, "manual")
    \/ c.pc = "apply" /\ \E prev, new : calls'[q] = Write(c.intent, prev, new, c.risk, c.reason)
    \/ /\ c.pc = "write" /\ c.reason = "sent_to_risk"
       /\ calls'[q].pc = "publish" /\ calls'[q].intent = c.intent
    \/ \E k \in 1..Len(completed) :
          calls'[q] = Apply(completed[k].intent, completed[k].risk, "risk_kafka")

LEMMA CallCases ==
    ASSUME CoreInv, [Next]_vars, NEW q \in Procs
    PROVE  CallBecomes(q)
<1>t. calls \in [Procs -> Call] /\ Handlers \subseteq Procs /\ Consumer \in Procs
  BY DEF CoreInv, TypeOK, Procs
<1>1. ASSUME NEW h \in Handlers, NEW i \in Intents, Create(h, i) PROVE CallBecomes(q)
  <2>1. CASE h = q
    BY <1>1, <1>t, <2>1 DEF Create, CallBecomes
  <2>2. CASE h # q
    BY <1>1, <1>t, <2>2 DEF Create, CallBecomes
  <2> QED
    BY <2>1, <2>2
<1>2. ASSUME NEW h \in Handlers, Publish(h) PROVE CallBecomes(q)
  <2>1. CASE h = q
    <3>1. calls'[q] = Idle \/ calls'[q] = [calls[q] EXCEPT !.pc = "fallback"]
      BY <1>2, <1>t, <2>1 DEF Publish, CallBecomes
    <3>2. calls[q] \in Call /\ calls[q].pc = "publish"
      BY <1>2, <1>t, <2>1 DEF Publish, CallBecomes
    <3> QED
      BY <3>1, <3>2 DEF Call, CallBecomes
  <2>2. CASE h # q
    BY <1>2, <1>t, <2>2 DEF Publish, CallBecomes
  <2> QED
    BY <2>1, <2>2
<1>3. ASSUME NEW h \in Handlers, EvaluateOverHTTP(h) PROVE CallBecomes(q)
  <2>1. CASE h = q
    BY <1>3, <1>t, <2>1 DEF EvaluateOverHTTP, CallBecomes
  <2>2. CASE h # q
    BY <1>3, <1>t, <2>2 DEF EvaluateOverHTTP, CallBecomes
  <2> QED
    BY <2>1, <2>2
<1>4. ASSUME NEW h \in Handlers, NEW i \in Intents, NEW next \in PatchTargets, UpdateStatus(h, i, next)
      PROVE  CallBecomes(q)
  <2>1. calls'[q] \in {Write(i, rows[i].status, next, rows[i].risk, "manual"), calls[q]}
    BY <1>4, <1>t DEF UpdateStatus
  <2>2. CanTransitionTo(rows[i].status, next)
    BY <1>4 DEF UpdateStatus
  <2> QED
    BY <2>1, <2>2 DEF CallBecomes
<1>5. ASSUME NEW p \in Procs, LoadAndDecide(p) PROVE CallBecomes(q)
  <2>1. CASE p = q
    BY <1>5, <1>t, <2>1 DEF LoadAndDecide, CallBecomes
  <2>2. CASE p # q
    BY <1>5, <1>t, <2>2 DEF LoadAndDecide, CallBecomes
  <2> QED
    BY <2>1, <2>2
<1>6. ASSUME NEW p \in Procs, CommitWrite(p) PROVE CallBecomes(q)
  <2>1. CASE p = q
    <3>1. calls[q].pc = "write" /\ calls'[q] \in {AfterWrite(calls[q]), Idle}
      BY <1>6, <1>t, <2>1 DEF CommitWrite
    <3>2. CASE calls[q].reason = "sent_to_risk" /\ calls'[q] = AfterWrite(calls[q])
      BY <3>1, <3>2 DEF AfterWrite, Idle, CallBecomes
    <3>3. CASE calls[q].reason # "sent_to_risk" /\ calls'[q] = AfterWrite(calls[q])
      BY <3>3 DEF AfterWrite, CallBecomes
    <3> QED
      BY <3>1, <3>2, <3>3 DEF CallBecomes
  <2>2. CASE p # q
    BY <1>6, <1>t, <2>2 DEF CommitWrite, CallBecomes
  <2> QED
    BY <2>1, <2>2
<1>7. ASSUME NEW p \in Procs, AbortWrite(p) PROVE CallBecomes(q)
  BY <1>7, <1>t DEF AbortWrite, CallBecomes
<1>8. ASSUME ReadMessage PROVE CallBecomes(q)
  <2>1. offset + 1 \in 1..Len(completed)
    BY <1>8 DEF ReadMessage, CoreInv, TypeOK
  <2> DEFINE k == offset + 1
  <2>2. calls'[q] \in {Apply(completed[k].intent, completed[k].risk, "risk_kafka"), calls[q]}
    BY <1>8, <1>t DEF ReadMessage
  <2> QED
    BY <2>1, <2>2 DEF CallBecomes
<1>9. ASSUME Crash PROVE CallBecomes(q)
  BY <1>9 DEF Crash, CallBecomes
<1>10. ASSUME \/ \E i \in Intents, e \in Evaluations : RiskAnswers(i, e)
              \/ UNCHANGED vars
       PROVE  CallBecomes(q)
  BY <1>10 DEF RiskAnswers, vars, CallBecomes
<1> QED
  BY <1>1, <1>2, <1>3, <1>4, <1>5, <1>6, <1>7, <1>8, <1>9, <1>10 DEF Next

LEMMA WritesStep == CoreInv /\ WritesHaveReason /\ [Next]_vars => WritesHaveReason'
<1> SUFFICES ASSUME CoreInv, WritesHaveReason, [Next]_vars, NEW q \in Procs, calls'[q].pc = "write"
             PROVE  \/ calls'[q].reason = "sent_to_risk"
                    \/ calls'[q].reason = "manual" /\ calls'[q].new \in PatchTargets \ {"PENDING"}
                    \/ calls'[q].reason \in {"risk_kafka", "risk_http"} /\ calls'[q].risk # NoRisk
  BY DEF WritesHaveReason
<1>1. CASE calls'[q] = calls[q]
  BY <1>1 DEF WritesHaveReason
<1>2. ASSUME NEW i \in Intents, NEW next \in PatchTargets, CanTransitionTo(rows[i].status, next),
             calls'[q] = Write(i, rows[i].status, next, rows[i].risk, "manual")
      PROVE  calls'[q].reason = "manual" /\ calls'[q].new \in PatchTargets \ {"PENDING"}
  BY <1>2, TransitionFacts DEF Write
<1>3. ASSUME NEW prev, NEW new, calls[q].pc = "apply",
             calls'[q] = Write(calls[q].intent, prev, new, calls[q].risk, calls[q].reason)
      PROVE  calls'[q].reason \in {"risk_kafka", "risk_http"} /\ calls'[q].risk # NoRisk
  <2>1. /\ calls[q].reason \in {"risk_kafka", "risk_http"}
        /\ calls[q].intent \in Intents /\ calls[q].risk \in answered[calls[q].intent]
    BY <1>3 DEF CoreInv, CallsAreGrounded, Grounded
  <2>2. calls[q].risk \in Evaluations
    BY <2>1 DEF CoreInv, TypeOK
  <2>3. calls[q].risk # NoRisk
    BY <2>2, CoreAssumption
  <2> QED
    BY <1>3, <2>1, <2>3 DEF Write
<1>4. ASSUME NEW i \in Intents,
             calls'[q] = Write(i, "PENDING", "UNDER_REVIEW", NoRisk, "sent_to_risk")
      PROVE  calls'[q].reason = "sent_to_risk"
  BY <1>4 DEF Write
<1>5. \A i, d, reason : calls'[q] # Apply(i, d, reason)
  BY DEF Apply
<1>6. calls'[q] # Idle /\ calls'[q].pc \notin {"publish", "fallback"}
  BY DEF Idle
<1>7. CallBecomes(q)
  BY CallCases
<1> QED
  BY <1>1, <1>2, <1>3, <1>4, <1>5, <1>6, <1>7 DEF CallBecomes

\* An intent that some goroutine is still to mark stays out of Kafka and of the
\* risk service, and no other goroutine takes it up but for a PATCH.
LEMMA MarkingStep == CoreInv /\ MarkingIsFirst /\ AnsweredExist /\ [Next]_vars => MarkingIsFirst'
<1> SUFFICES ASSUME CoreInv, MarkingIsFirst, AnsweredExist, [Next]_vars,
                    NEW p \in Procs, calls'[p].pc = "write", calls'[p].reason = "sent_to_risk",
                    NEW i, i = calls'[p].intent
             PROVE  /\ i \notin requested'
                    /\ answered'[i] = {}
                    /\ \A q \in Procs \ {p} :
                          calls'[q].pc # "idle" /\ calls'[q].intent = i
                              => calls'[q].pc = "write" /\ calls'[q].reason = "manual"
  BY DEF MarkingIsFirst
<1>1. \/ calls'[p] = calls[p]
      \/ /\ i \in Intents /\ Create(p, i)
         /\ calls'[p] = Write(i, "PENDING", "UNDER_REVIEW", NoRisk, "sent_to_risk")
  <2>1. ASSUME NEW prev, NEW new, calls[p].pc = "apply",
               calls'[p] = Write(calls[p].intent, prev, new, calls[p].risk, calls[p].reason)
        PROVE  FALSE
    <3>1. calls[p].reason \in {"risk_kafka", "risk_http"}
      BY <2>1 DEF CoreInv, CallsAreGrounded, Grounded
    <3> QED
      BY <2>1, <3>1 DEF Write
  <2>2. \A j, d, reason : calls'[p] # Apply(j, d, reason)
    BY DEF Apply
  <2>3. \A j, s, next, d : calls'[p] # Write(j, s, next, d, "manual")
    BY DEF Write
  <2>4. calls'[p] # Idle /\ calls'[p].pc \notin {"publish", "fallback"}
    BY DEF Idle
  <2>5. ASSUME NEW j \in Intents, Create(p, j),
               calls'[p] = Write(j, "PENDING", "UNDER_REVIEW", NoRisk, "sent_to_risk")
        PROVE  j = i
    BY <2>5 DEF Write
  <2>6. CallBecomes(p)
    BY CallCases
  <2> QED
    BY <2>1, <2>2, <2>3, <2>4, <2>5, <2>6 DEF CallBecomes
<1>t. calls \in [Procs -> Call] /\ Handlers \subseteq Procs
  BY DEF CoreInv, TypeOK, Procs
<1>g. \A q \in Procs : calls[q].pc # "idle" => calls[q].intent \in Intents /\ Exists(calls[q].intent)
  <2> SUFFICES ASSUME NEW q \in Procs, calls[q].pc # "idle"
               PROVE  calls[q].intent \in Intents /\ Exists(calls[q].intent)
    OBVIOUS
  <2>1. calls[q].pc \in {"idle", "write", "publish", "fallback", "apply"}
    BY <1>t DEF Call
  <2> QED
    BY <2>1 DEF CoreInv, CallsAreGrounded, Grounded, Sent, Exists
<1>2. CASE /\ i \in Intents /\ Create(p, i)
           /\ calls'[p] = Write(i, "PENDING", "UNDER_REVIEW", NoRisk, "sent_to_risk")
  <2>1. /\ ~Exists(i) /\ requested' = requested /\ answered' = answered
        /\ \A q \in Procs \ {p} : calls'[q] = calls[q]
    BY <1>2, <1>t DEF Create
  <2>2. i \notin requested /\ answered[i] = {}
    BY <1>2, <2>1 DEF CoreInv, PublishedOnlyAfterReview, AnsweredExist, Exists
  <2> QED
    BY <1>g, <2>1, <2>2
<1>3. CASE calls'[p] = calls[p]
  <2>1. /\ i \in Intents /\ Exists(i) /\ i \notin requested /\ answered[i] = {}
        /\ calls[p].pc = "write" /\ calls[p].intent = i
        /\ \A q \in Procs \ {p} : calls[q].pc # "idle" /\ calls[q].intent = i
                                     => calls[q].pc = "write" /\ calls[q].reason = "manual"
    BY <1>3, <1>g DEF MarkingIsFirst
  <2>2. \A q \in Procs : calls[q].pc \in {"publish", "fallback", "apply"} => calls[q].intent # i
    BY <2>1
  <2>3. i \notin requested'
    <3>1. ASSUME NEW h \in Handlers, Publish(h) PROVE i \notin requested'
      BY <3>1, <1>t, <2>1, <2>2 DEF Publish
    <3>2. CASE requested' = requested
      BY <2>1, <3>2
    <3> QED
      BY <3>1, <3>2 DEF Next, vars, Create, EvaluateOverHTTP, UpdateStatus, LoadAndDecide,
             CommitWrite, AbortWrite, RiskAnswers, ReadMessage, Crash
  <2>4. answered'[i] = {}
    <3>1. ASSUME NEW h \in Handlers, EvaluateOverHTTP(h) PROVE answered'[i] = {}
      <4>1. calls[h].intent # i
        BY <1>t, <2>2, <3>1 DEF EvaluateOverHTTP
      <4> QED
        BY <2>1, <3>1, <4>1 DEF EvaluateOverHTTP, CoreInv, TypeOK
    <3>2. ASSUME NEW j \in Intents, NEW e \in Evaluations, RiskAnswers(j, e) PROVE answered'[i] = {}
      <4>1. j # i
        BY <2>1, <3>2 DEF RiskAnswers
      <4> QED
        BY <2>1, <3>2, <4>1 DEF RiskAnswers, CoreInv, TypeOK
    <3>3. CASE answered' = answered
      BY <2>1, <3>3
    <3> QED
      BY <3>1, <3>2, <3>3 DEF Next, vars, Create, Publish, UpdateStatus, LoadAndDecide,
             CommitWrite, AbortWrite, ReadMessage, Crash
  <2>5. ASSUME NEW q \in Procs \ {p}, calls'[q].pc # "idle", calls'[q].intent = i
        PROVE  calls'[q].pc = "write" /\ calls'[q].reason = "manual"
    <3>1. calls'[q] # Idle
      BY <2>5 DEF Idle
    <3>2. ASSUME NEW j \in Intents, Create(q, j),
                 calls'[q] = Write(j, "PENDING", "UNDER_REVIEW", NoRisk, "sent_to_risk")
          PROVE  FALSE
      BY <2>1, <2>5, <3>2 DEF Write, Create
    <3>3. ASSUME NEW e \in Evaluations, calls[q].pc = "fallback",
                 calls'[q] = Apply(calls[q].intent, e, "risk_http")
          PROVE  FALSE
      BY <2>2, <2>5, <3>3 DEF Apply
    <3>4. ASSUME NEW j \in Intents, NEW next \in PatchTargets,
                 calls'[q] = Write(j, rows[j].status, next, rows[j].risk, "manual")
          PROVE  calls'[q].pc = "write" /\ calls'[q].reason = "manual"
      BY <3>4 DEF Write
    <3>5. ASSUME NEW prev, NEW new, calls[q].pc = "apply",
                 calls'[q] = Write(calls[q].intent, prev, new, calls[q].risk, calls[q].reason)
          PROVE  FALSE
      BY <2>2, <2>5, <3>5 DEF Write
    <3>6. ASSUME NEW k \in 1..Len(completed),
                 calls'[q] = Apply(completed[k].intent, completed[k].risk, "risk_kafka")
          PROVE  FALSE
      <4>1. completed[k].risk \in answered[completed[k].intent]
        BY DEF CoreInv, ResultsAreGrounded
      <4>2. completed[k].intent = i
        BY <2>5, <3>6 DEF Apply
      <4> QED
        BY <2>1, <4>1, <4>2
    <3>7. CASE calls'[q] = calls[q]
      BY <2>1, <2>5, <3>7
    <3>8. CASE \/ calls[q].pc = "publish" /\ calls'[q].intent = calls[q].intent
               \/ /\ calls[q].pc = "write" /\ calls[q].reason = "sent_to_risk"
                  /\ calls'[q].intent = calls[q].intent
      BY <2>1, <2>2, <2>5, <3>8
    <3>9. CallBecomes(q)
      BY CallCases
    <3> QED
      BY <3>1, <3>2, <3>3, <3>4, <3>5, <3>6, <3>7, <3>8, <3>9 DEF CallBecomes
  <2> QED
    BY <2>3, <2>4, <2>5
<1> QED
  BY <1>1, <1>2, <1>3

LEMMA MarkingInvariant == Spec => [](CoreInv /\ MarkingInv)
<1>1. Init => MarkingInv
  BY DEF Init, MarkingInv, MarkingIsFirst, WritesHaveReason, AnsweredExist, Idle
<1>2. CoreInv /\ MarkingInv /\ [Next]_vars => MarkingInv'
  BY AnsweredStep, WritesStep, MarkingStep DEF MarkingInv
<1> QED
  BY <1>1, <1>2, CoreInvariant, PTL DEF Spec

\* An intent loses its evaluation only to a PATCH that leaves it unresolved: a write
\* without an evaluation is the marking, which comes before any, or a PATCH decided
\* on an older read (payment_intent_service.go, UpdateStatus).
THEOREM EvaluationLostOnlyToPatch == Spec => LostOnlyToPatch
<1> DEFINE A == \A i \in Intents :
                   rows[i].risk # NoRisk /\ rows'[i].risk = NoRisk =>
                       /\ rows'[i].status \in PatchTargets \ Resolved
                       /\ history'[i][Len(history'[i])].reason = "manual"
<1>1. CoreInv /\ MarkingInv /\ [Next]_vars => A
  <2> SUFFICES ASSUME CoreInv, MarkingInv, [Next]_vars,
                      NEW i \in Intents, rows[i].risk # NoRisk, rows'[i].risk = NoRisk
               PROVE  /\ rows'[i].status \in PatchTargets \ Resolved
                      /\ history'[i][Len(history'[i])].reason = "manual"
    OBVIOUS
  <2>1. answered[i] # {} /\ Exists(i) /\ rows'[i] # rows[i]
    BY DEF CoreInv, RowsAreGrounded, MarkingInv, AnsweredExist
  <2>2. ASSUME NEW h \in Handlers, NEW j \in Intents, Create(h, j) PROVE FALSE
    BY <2>1, <2>2 DEF Create, CoreInv, TypeOK
  <2>3. ASSUME NEW p \in Procs, CommitWrite(p)
        PROVE  /\ rows'[i].status \in PatchTargets \ Resolved
               /\ history'[i][Len(history'[i])].reason = "manual"
    <3> DEFINE c == calls[p]
    <3>1. CommitEffect(p) /\ c.pc = "write"
      BY <2>3, CommitFacts DEF CommitWrite
    <3>2. c.intent = i /\ rows'[i] = [status |-> c.new, risk |-> c.risk]
      BY <2>1, <3>1 DEF CommitEffect
    <3>3. /\ c.risk = NoRisk /\ rows'[i].status = c.new
          /\ c.new \in Status \ Resolved
      BY <3>1, <3>2 DEF CommitEffect
    <3>4. c.reason # "sent_to_risk"
      BY <2>1, <3>1, <3>2 DEF MarkingInv, MarkingIsFirst
    <3>5. c.reason = "manual" /\ c.new \in PatchTargets
      BY <3>1, <3>3, <3>4 DEF MarkingInv, WritesHaveReason
    <3>6. history'[i][Len(history'[i])].reason = c.reason
      <4>1. history[i] \in Seq(HistoryRow) /\ history'[i] = Append(history[i], NewHistoryRow(c))
        BY <3>1, <3>2 DEF CommitEffect, CoreInv, TypeOK
      <4>2. NewHistoryRow(c).reason = c.reason
        BY DEF NewHistoryRow
      <4>3. history'[i][Len(history'[i])] = NewHistoryRow(c)
        BY <4>1
      <4> QED
        BY <4>2, <4>3
    <3> QED
      BY <3>3, <3>5, <3>6
  <2> QED
    BY <2>1, <2>2, <2>3, RowWriters
<1>2. CoreInv /\ MarkingInv /\ [Next]_vars => [A]_vars
  BY <1>1
<1> QED
  BY <1>2, MarkingInvariant, PTL DEF Spec, LostOnlyToPatch
=============================================================================
