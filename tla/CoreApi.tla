------------------------------ MODULE CoreApi ------------------------------
(***************************************************************************)
(* core-api after a payment intent gets its identifier: the request        *)
(* goroutines that insert it, mark it, publish it and maybe evaluate it    *)
(* over HTTP, the goroutine that applies the results read from Kafka, and  *)
(* the PATCH that the reconciliation worker uses.  Each of them reads the  *)
(* row outside any transaction and later overwrites it whole, so between   *)
(* the two steps every other one may have written.                         *)
(*                                                                         *)
(* One transaction (UPDATE or INSERT, history row, COMMIT) is one step:    *)
(* PostgreSQL holds the row lock from the UPDATE to the COMMIT and the     *)
(* trigger sees the locked version.  A transaction may abort, and it may   *)
(* commit while its client only sees an error.                             *)
(***************************************************************************)
EXTENDS PaymentDomain, Naturals, Sequences

CONSTANTS
    Intents,        \* identifiers NewPaymentIntent draws
    Handlers,       \* request goroutines
    Consumer,       \* the goroutine of RiskResultConsumer.Run
    NoIntent,
    PatchTargets,   \* statuses clients send to PATCH /status
    Evaluations,    \* what the risk service may send: decision, score, reason
                    \* codes and model_version
    Decision,       \* the decision of each
    MaxAnswers      \* bound on the length of risk.evaluation.completed

ASSUME CoreAssumption ==
    /\ Consumer \notin Handlers
    /\ NoIntent \notin Intents
    /\ PatchTargets \subseteq Status
    /\ Decision \in [Evaluations -> RiskDecision]
    /\ NoRisk \notin Evaluations
    /\ MaxAnswers \in Nat

VARIABLES
    rows,       \* payments.payment_intents
    history,    \* payments.payment_intent_status_history, per intent, in commit order
    calls,      \* what each goroutine is about to do, with what it has in memory
    requested,  \* intents on risk.evaluation.requested
    completed,  \* the single partition of risk.evaluation.completed
    offset,     \* its committed offset for core-api's group
    answered    \* evaluations the risk service has made, over Kafka or HTTP

vars == <<rows, history, calls, requested, completed, offset, answered>>

Procs == Handlers \cup {Consumer}

Reasons == {"created", "sent_to_risk", "risk_kafka", "risk_http", "manual"}

\* risk: the four columns of the evaluation, written together.
Row == [status: Status \cup {NoStatus}, risk: Evaluations \cup {NoRisk}]
HistoryRow == [prev: Status \cup {NoStatus}, new: Status, reason: Reasons]
Result == [intent: Intents, risk: Evaluations]

\* pc "write": about to run the transaction that sets status to new and the
\* risk fields to risk, whatever they are by then.  "apply": about to load the
\* row to apply evaluation risk.  "publish", "fallback": inside Publish.
Call == [pc: {"idle", "write", "publish", "fallback", "apply"},
         intent: Intents \cup {NoIntent},
         prev: Status \cup {NoStatus}, new: Status \cup {NoStatus},
         risk: Evaluations \cup {NoRisk}, reason: Reasons]

NoRow == [status |-> NoStatus, risk |-> NoRisk]

Idle == [pc |-> "idle", intent |-> NoIntent, prev |-> NoStatus, new |-> NoStatus,
         risk |-> NoRisk, reason |-> "created"]

Write(i, prev, new, risk, reason) ==
    [pc |-> "write", intent |-> i, prev |-> prev, new |-> new, risk |-> risk, reason |-> reason]

Apply(i, e, reason) ==
    [pc |-> "apply", intent |-> i, prev |-> NoStatus, new |-> NoStatus, risk |-> e, reason |-> reason]

Exists(i) == rows[i].status # NoStatus

Init ==
    /\ rows = [i \in Intents |-> NoRow]
    /\ history = [i \in Intents |-> <<>>]
    /\ calls = [p \in Procs |-> Idle]
    /\ requested = {}
    /\ completed = <<>>
    /\ offset = 0
    /\ answered = [i \in Intents |-> {}]

-----------------------------------------------------------------------------
(* Transactions. *)

\* NewPaymentIntentStatusHistory with what the goroutine has in memory: prev
\* is the status it read, not the one the UPDATE replaces.
NewHistoryRow(c) == [prev |-> c.prev, new |-> c.new, reason |-> c.reason]

\* What the database accepts of the UPDATE and the history INSERT of c.
DatabaseAccepts(c, hist) ==
    /\ enforce_status_transition(rows[c.intent].status, c.new)
    /\ ck_intent_no_silent_resolution(c.new, c.risk)
    /\ require_history_row(hist, c.new)

\* Mutant of Updated: the first evaluation wins.
UpdatedFirstRisk(c) ==
    [status |-> c.new,
     risk |-> IF rows[c.intent].risk = NoRisk THEN c.risk ELSE rows[c.intent].risk]

\* PaymentIntentRepository.Update: every field from memory, WHERE id only.
Updated(c) == [status |-> c.new, risk |-> c.risk]

\* Create goes on to Publish after marking; everything else returns.
AfterWrite(c) ==
    IF c.reason = "sent_to_risk"
    THEN [Idle EXCEPT !.pc = "publish", !.intent = c.intent]
    ELSE Idle

\* uow.Execute(Update; history.Create), shared by markUnderReview,
\* applyRiskResult and UpdateStatus.
CommitWrite(p) ==
    LET c == calls[p]
        hist == Append(history[c.intent], NewHistoryRow(c))
    IN  /\ c.pc = "write"
        /\ DatabaseAccepts(c, hist)
        /\ rows' = [rows EXCEPT ![c.intent] = Updated(c)]
        /\ history' = [history EXCEPT ![c.intent] = hist]
        /\ \E next \in {AfterWrite(c), Idle} :     \* Idle: the COMMIT's reply is lost
              calls' = [calls EXCEPT ![p] = next]
        /\ UNCHANGED <<requested, completed, offset, answered>>

\* Mutant of AbortWrite: history.Create runs on the pool, not in the transaction.
HistoryOutsideTransaction(p) ==
    LET c == calls[p]
    IN  /\ c.pc = "write"
        /\ history' = [history EXCEPT ![c.intent] = Append(@, NewHistoryRow(c))]
        /\ calls' = [calls EXCEPT ![p] = Idle]
        /\ UNCHANGED <<rows, requested, completed, offset, answered>>

\* A trigger, a constraint or the connection makes the transaction fail: the
\* goroutine returns the error (the consumer only logs it).
AbortWrite(p) ==
    /\ calls[p].pc = "write"
    /\ calls' = [calls EXCEPT ![p] = Idle]
    /\ UNCHANGED <<rows, history, requested, completed, offset, answered>>

-----------------------------------------------------------------------------
(* Create, from its INSERT on. *)

\* Mutant of Create: the event is published before the intent is marked.
PublishBeforeMarking(h, i) ==
    /\ calls[h].pc = "idle"
    /\ ~Exists(i)
    /\ rows' = [rows EXCEPT ![i] = [status |-> "PENDING", risk |-> NoRisk]]
    /\ history' = [history EXCEPT ![i] =
                      <<[prev |-> NoStatus, new |-> "PENDING", reason |-> "created"]>>]
    /\ calls' = [calls EXCEPT ![h] = [Idle EXCEPT !.pc = "publish", !.intent = i]]
    /\ UNCHANGED <<requested, completed, offset, answered>>

\* The row is born PENDING with its first history row; the goroutine then holds
\* a PENDING intent in memory that markUnderReview turns into UNDER_REVIEW.
Create(h, i) ==
    LET hist == Append(history[i], [prev |-> NoStatus, new |-> "PENDING", reason |-> "created"])
    IN  /\ calls[h].pc = "idle"
        /\ ~Exists(i)
        /\ require_history_row(hist, "PENDING")
        /\ rows' = [rows EXCEPT ![i] = [status |-> "PENDING", risk |-> NoRisk]]
        /\ history' = [history EXCEPT ![i] = hist]
        /\ \E next \in {Write(i, "PENDING", "UNDER_REVIEW", NoRisk, "sent_to_risk"), Idle} :
              calls' = [calls EXCEPT ![h] = next]
        /\ UNCHANGED <<requested, completed, offset, answered>>

\* Mutant of Publish: the intent is marked once more when the broker acknowledges.
PublishAndMarkAgain(h) ==
    LET i == calls[h].intent
    IN  /\ calls[h].pc = "publish"
        /\ \/ /\ requested' = requested \cup {i}
              /\ calls' = [calls EXCEPT ![h] =
                             Write(i, "UNDER_REVIEW", "UNDER_REVIEW", NoRisk, "sent_to_risk")]
           \/ /\ requested' \in {requested, requested \cup {i}}
              /\ calls' = [calls EXCEPT ![h].pc = "fallback"]
        /\ UNCHANGED <<rows, history, completed, offset, answered>>

\* RiskRequestPublisher.Publish, Kafka half: acknowledged, stored although the
\* producer sees an error, or not stored (or not even tried: breaker open).
Publish(h) ==
    LET i == calls[h].intent
    IN  /\ calls[h].pc = "publish"
        /\ \/ /\ requested' = requested \cup {i}
              /\ calls' = [calls EXCEPT ![h] = Idle]
           \/ /\ requested' \in {requested, requested \cup {i}}
              /\ calls' = [calls EXCEPT ![h].pc = "fallback"]
        /\ UNCHANGED <<rows, history, completed, offset, answered>>

\* Publish, HTTP half: the risk service answers, answers too late to be heard,
\* or is not reached.
EvaluateOverHTTP(h) ==
    LET i == calls[h].intent
    IN  /\ calls[h].pc = "fallback"
        /\ \/ \E e \in Evaluations :
                /\ answered' = [answered EXCEPT ![i] = @ \cup {e}]
                /\ \E next \in {Apply(i, e, "risk_http"), Idle} :
                      calls' = [calls EXCEPT ![h] = next]
           \/ /\ calls' = [calls EXCEPT ![h] = Idle]
              /\ UNCHANGED answered
        /\ UNCHANGED <<rows, history, requested, completed, offset>>

-----------------------------------------------------------------------------
(* Risk results. *)

\* The risk service, seen from here: it may answer a request any number of
\* times (its delivery is at least once), and core-api does nothing to make the
\* answers alike: thresholds are configuration that a restart may change, and an
\* event without merchant_recent_intents is judged by a window that moves.
RiskAnswers(i, e) ==
    /\ i \in requested
    /\ Len(completed) < MaxAnswers
    /\ completed' = Append(completed, [intent |-> i, risk |-> e])
    /\ answered' = [answered EXCEPT ![i] = @ \cup {e}]
    /\ UNCHANGED <<rows, history, calls, requested, offset>>

\* Mutant of ReadMessage: the offset committed is the one after the next message.
ReadMessageCommittingAhead ==
    LET msg == completed[offset + 1]
    IN  /\ calls[Consumer].pc = "idle"
        /\ offset < Len(completed)
        /\ offset' = offset + 2
        /\ calls' = [calls EXCEPT ![Consumer] = Apply(msg.intent, msg.risk, "risk_kafka")]
        /\ UNCHANGED <<rows, history, requested, completed, answered>>

\* reader.ReadMessage commits the offset before it returns the message.
ReadMessage ==
    LET msg == completed[offset + 1]
    IN  /\ calls[Consumer].pc = "idle"
        /\ offset < Len(completed)
        /\ offset' = offset + 1
        /\ calls' = [calls EXCEPT ![Consumer] = Apply(msg.intent, msg.risk, "risk_kafka")]
        /\ UNCHANGED <<rows, history, requested, completed, answered>>

\* applyRiskResult up to its transaction: GetByID, then ApplyRiskDecision on
\* the copy read: an equal decision on a closed intent is accepted, and its
\* evaluation is written.  An invalid transition and a failed read both give up.
LoadAndDecide(p) ==
    LET c == calls[p]
        read == rows[c.intent].status
    IN  /\ c.pc = "apply"
        /\ \/ /\ AcceptsDecision(read, Decision[c.risk])
              /\ calls' = [calls EXCEPT ![p] =
                             Write(c.intent, read, StatusFor(Decision[c.risk]), c.risk, c.reason)]
           \/ calls' = [calls EXCEPT ![p] = Idle]
        /\ UNCHANGED <<rows, history, requested, completed, offset, answered>>

-----------------------------------------------------------------------------
(* PATCH /payment-intents/{id}/status. *)

\* UpdateStatus up to its transaction.  Nothing changes when the intent does
\* not exist (404), is in that status already (409) or cannot go there (422).
UpdateStatus(h, i, next) ==
    /\ calls[h].pc = "idle"
    /\ Exists(i)
    /\ rows[i].status # next
    /\ CanTransitionTo(rows[i].status, next)
    /\ calls' = [calls EXCEPT ![h] = Write(i, rows[i].status, next, rows[i].risk, "manual")]
    /\ UNCHANGED <<rows, history, requested, completed, offset, answered>>

-----------------------------------------------------------------------------

\* The process dies and restarts: everything in memory is gone.
Crash ==
    /\ \E p \in Procs : calls[p] # Idle
    /\ calls' = [p \in Procs |-> Idle]
    /\ UNCHANGED <<rows, history, requested, completed, offset, answered>>

Next ==
    \/ \E h \in Handlers, i \in Intents : Create(h, i)
    \/ \E h \in Handlers : Publish(h)
    \/ \E h \in Handlers : EvaluateOverHTTP(h)
    \/ \E h \in Handlers, i \in Intents, next \in PatchTargets : UpdateStatus(h, i, next)
    \/ \E p \in Procs : LoadAndDecide(p)
    \/ \E p \in Procs : CommitWrite(p)
    \/ \E p \in Procs : AbortWrite(p)
    \/ ReadMessage
    \/ \E i \in Intents, e \in Evaluations : RiskAnswers(i, e)
    \/ Crash

Spec == Init /\ [][Next]_vars

-----------------------------------------------------------------------------
(* Properties. *)

TypeOK ==
    /\ rows \in [Intents -> Row]
    /\ history \in [Intents -> Seq(HistoryRow)]
    /\ calls \in [Procs -> Call]
    /\ requested \subseteq Intents
    /\ completed \in Seq(Result)
    /\ offset \in 0..Len(completed)
    /\ answered \in [Intents -> SUBSET Evaluations]

\* The evidence agrees with the row: whatever goroutines raced, aborted or died,
\* the last committed history row carries the status the intent has
\* (uow.Execute with trg_intent_requires_history; esquema-de-datos.md, 3).
HistoryAgrees ==
    \A i \in Intents :
        IF Exists(i)
        THEN /\ history[i] # <<>>
             /\ history[i][Len(history[i])].new = rows[i].status
        ELSE history[i] = <<>>

\* Read in commit order, the statuses of the history are a path of the state
\* machine from PENDING, although every writer decided on a row that may have
\* been stale (the domain table checked at read, the trigger checked at write).
StatusPathIsLegal ==
    \A i \in Intents : LET h == history[i] IN
        /\ h # <<>> => h[1].new = "PENDING"
        /\ \A k \in 1..(Len(h) - 1) :
              h[k + 1].new # h[k].new => CanTransitionTo(h[k].new, h[k + 1].new)

\* Whenever the history is read, and whatever raced before or will, it never shows
\* two outcomes: a closing status in it is the one the intent still has, and an
\* intent resolved by a decision was under review before (esquema-de-datos.md, 3).
HistoryShowsOneOutcome ==
    \A i \in Intents : LET h == history[i] IN
        /\ \A k \in 1..Len(h) : h[k].new \in Terminal => rows[i].status = h[k].new
        /\ rows[i].status \in {"UNDER_REVIEW"} \cup Resolved
              => \E k \in 1..Len(h) : h[k].new = "UNDER_REVIEW"

\* ADR-0003: no intent ends APPROVED or REJECTED unless the risk service did
\* answer for it: without an answer core-api decides nothing, over HTTP, over
\* Kafka, or because a PATCH asks for it: the domain table lets one go from
\* UNDER_REVIEW to APPROVED, and only ck_intent_no_silent_resolution stands in its
\* way while the row has no evaluation.
NoSilentResolution ==
    \A i \in Intents : rows[i].status \in Resolved => rows[i].risk \in answered[i]

\* A person closed the intent that way, and its history says so.
ClosedByHand(hist, s) ==
    s \in PatchTargets /\ \E k \in DOMAIN hist : hist[k].new = s /\ hist[k].reason = "manual"

\* An intent is APPROVED or REJECTED because the evaluation it carries says so, or
\* because that evaluation left it to a person who then closed it by PATCH:
\* contrary results, whole-row overwrites and stale requests never leave a status
\* with an evaluation that decided otherwise.
ResolutionMatchesDecision ==
    \A i \in Intents : rows[i].status \in Resolved =>
        /\ rows[i].risk # NoRisk
        /\ \/ StatusFor(Decision[rows[i].risk]) = rows[i].status
           \/ Decision[rows[i].risk] = "REVIEW" /\ ClosedByHand(history[i], rows[i].status)

\* ADR-0001: an event is never in Kafka for an intent that does not show it was
\* sent, wherever core-api dies between the two transactions and the publish.
PublishedOnlyAfterReview ==
    \A i \in requested : rows[i].status \notin {NoStatus, "PENDING"}

\* A closed intent keeps its status for good (ADR-0003, terminal statuses).  Its
\* evaluation is not final: a second equal decision overwrites score, reason codes
\* and model_version (payment_intent.go, ApplyRiskDecision, accepts it), and a PATCH
\* that was late puts back the REVIEW it had read.  But what replaces it decides the
\* same or left it to that person, and each time the history grows by a row.
ClosedIsFinal ==
    [][\A i \in Intents :
          /\ rows[i].status \in Terminal => rows'[i].status = rows[i].status
          /\ rows[i].status \in Resolved /\ rows'[i].risk # rows[i].risk =>
                /\ history'[i] # history[i]
                /\ \/ StatusFor(Decision[rows'[i].risk]) = rows[i].status
                   \/ /\ Decision[rows'[i].risk] = "REVIEW"
                      /\ history'[i][Len(history'[i])].reason = "manual"]_vars

-----------------------------------------------------------------------------
(* The inductive invariant behind the properties above.                    *)

\* The intent has left PENDING.
Sent(i) == rows[i].status \notin {NoStatus, "PENDING"}

\* What a goroutine holds in memory is still good for something when it gets
\* to use it: the row is there, the decision was taken, the intent was sent.
Grounded(c) ==
    /\ c.pc # "idle" => c.intent \in Intents
    /\ c.pc = "write" =>
          /\ c.new \in Status
          /\ c.reason = "sent_to_risk" => c.new = "UNDER_REVIEW"
          /\ Exists(c.intent)
          /\ c.risk # NoRisk => c.risk \in answered[c.intent]
    /\ c.pc = "apply" =>
          /\ c.reason \in {"risk_kafka", "risk_http"}
          /\ c.risk \in answered[c.intent]
          /\ Sent(c.intent)
    /\ c.pc \in {"publish", "fallback"} => Sent(c.intent)

CallsAreGrounded == \A p \in Procs : Grounded(calls[p])

\* Every result in the topic was made for an intent that had been sent.
ResultsAreGrounded ==
    \A k \in 1..Len(completed) :
        /\ Sent(completed[k].intent)
        /\ completed[k].risk \in answered[completed[k].intent]

\* Every evaluation persisted was made.
RowsAreGrounded ==
    \A i \in Intents :
        /\ rows[i].risk # NoRisk => rows[i].risk \in answered[i]
        /\ rows[i].status \in Resolved => rows[i].risk # NoRisk

CoreInv ==
    /\ TypeOK
    /\ CallsAreGrounded
    /\ ResultsAreGrounded
    /\ RowsAreGrounded
    /\ PublishedOnlyAfterReview
    /\ HistoryAgrees

-----------------------------------------------------------------------------
(* Statements of the repository that the code does not keep. *)

\* contratos-entre-servicios.md: core-api persists the evaluation, without it
\* nobody would know how a past payment was decided.  So it is never erased.
EvaluationIsKept ==
    [][\A i \in Intents : rows[i].risk # NoRisk => rows'[i].risk # NoRisk]_vars

\* contratos-entre-servicios.md: a late result is applied when it arrives,
\* however late, and is not lost.  So while an intent is open and has no
\* evaluation, no result for it has been consumed and forgotten.
ConsumedResultIsApplied ==
    \A k \in 1..offset :
        LET i == completed[k].intent IN
        \/ rows[i].status \in Terminal
        \/ rows[i].risk # NoRisk
        \/ \E p \in Procs : calls[p].intent = i
=============================================================================
