---------------------------- MODULE ReconcileCycle ----------------------------
(***************************************************************************)
(* The reconciliation worker's cycle: on a tick it lists the open intents, *)
(* one page per status, keeps those already due, and asks core-api to      *)
(* expire them one by one, through a client that retries, logs in again    *)
(* and breaks the circuit.  Of core-api there is what answers: the list    *)
(* and the PATCH with its transaction.  Around them intents are created,   *)
(* sent to review, resolved and fall due at any moment, and a PATCH whose  *)
(* answer was lost may still take effect.  Slots stand for intents; the    *)
(* slot of a closed intent the worker has forgotten serves a new one.      *)
(***************************************************************************)
EXTENDS Integers, Sequences, FiniteSets

CONSTANTS
    Slots,              \* at most this many intents open at once
    PageSize,           \* the worker's page_size
    DefaultLimit,       \* core-api's, for a limit it cannot use
    MaxLimit,           \* the most it lists
    MaxRetries,         \* max_retries
    FailureThreshold    \* breaker_failure_threshold

ASSUME CycleAssumption ==
    /\ PageSize \in Int
    /\ DefaultLimit \in Nat \ {0} /\ MaxLimit \in Nat \ {0}
    /\ MaxRetries \in Nat
    /\ FailureThreshold \in Nat \ {0}

VARIABLES
    status,      \* what core-api stores
    newer,       \* for each intent, those with a later created_at
    due,         \* intents whose expires_at, as it is served, is past
    late,        \* intents with a PATCH still to take effect
    coreUp,      \* core-api answers in time
    token,       \* the client's token: "none", "valid" or "expired"
    breaker,     \* the client's circuit breaker
    cycle        \* the cycle in progress, or the one that ended last

core == <<status, newer, due, late>>
vars == <<status, newer, due, late, coreUp, token, breaker, cycle>>

EXPIRABLE_STATUSES == {"PENDING", "UNDER_REVIEW"}
Statuses == EXPIRABLE_STATUSES \cup {"NONE", "RESOLVED", "EXPIRED"}
Outcomes == {"expired", "already_expired", "rejected", "failed"}

Candidates == EXPIRABLE_STATUSES \X Slots

\* pc "poll": waiting for a tick; "patch": about to send one; "serving": core-api
\* has read the intent and found it open.  statuses: still to be listed.
\* candidates: still to be expired, under the status they were listed with.
\* attempt: of the request in progress.  cutoff: what was due when the cycle
\* took `now`.  report: the outcomes so far.
Cycle == [pc : {"down", "poll", "list", "patch", "serving"},
          statuses : Seq(EXPIRABLE_STATUSES),
          candidates : SUBSET Candidates, attempt : 0..MaxRetries,
          cutoff : SUBSET Slots, report : SUBSET (Slots \X Outcomes)]

Breaker == [state : {"closed", "open", "half_open"}, failures : 0..(FailureThreshold - 1)]

Closed == [state |-> "closed", failures |-> 0]

Idle == [pc |-> "poll", statuses |-> <<>>, candidates |-> {}, attempt |-> 0,
         cutoff |-> {}, report |-> {}]

Init ==
    /\ status = [s \in Slots |-> "NONE"]
    /\ newer = [s \in Slots |-> {}]
    /\ due = {} /\ late = {}
    /\ coreUp = TRUE
    /\ token = "none" /\ breaker = Closed /\ cycle = Idle

Open(s) == status[s] \in EXPIRABLE_STATUSES

-------------------------------------------------------------------------------
(* core-api and its other clients                                            *)

\* A slot is free when nothing refers to its last intent any more.
Free(s) ==
    /\ ~Open(s)
    /\ s \notin late \cup cycle.cutoff
    /\ \A o \in Outcomes : <<s, o>> \notin cycle.report

CreateIntent(s) ==
    /\ Free(s)
    /\ status' = [status EXCEPT ![s] = "PENDING"]
    /\ newer' = [t \in Slots |-> IF t = s THEN {} ELSE newer[t] \cup {s}]
    /\ due' = due \ {s}
    /\ UNCHANGED <<late, coreUp, token, breaker, cycle>>

\* Sent to review, resolved or cancelled.
MoveIntent(s) ==
    /\ Open(s)
    /\ \E next \in {"UNDER_REVIEW", "RESOLVED"} :
          next # status[s] /\ status' = [status EXCEPT ![s] = next]
    /\ UNCHANGED <<newer, due, late, coreUp, token, breaker, cycle>>

\* expires_at is created_at plus a fixed window: the oldest fall due first.
FallDue(s) ==
    /\ status[s] # "NONE" /\ s \notin due
    /\ \A t \in Slots : s \in newer[t] /\ status[t] # "NONE" => t \in due
    /\ due' = due \cup {s}
    /\ UNCHANGED <<status, newer, late, coreUp, token, breaker, cycle>>

\* Mutant of DatabaseAccepts: no trigger.
NoTransitionTrigger(s) == TRUE

\* enforce_status_transition, for EXPIRED.
DatabaseAccepts(s) == Open(s) \/ status[s] = "EXPIRED"

\* The transaction of an UpdateStatus that read the intent open, whenever.
CommitExpired(s) ==
    status' = [status EXCEPT ![s] = IF DatabaseAccepts(s) THEN "EXPIRED" ELSE @]

TakesEffect(s) ==
    /\ s \in late
    /\ late' = late \ {s}
    /\ CommitExpired(s)
    /\ UNCHANGED <<newer, due, coreUp, token, breaker, cycle>>

CoreGoesUpOrDown ==
    /\ coreUp' = ~coreUp
    /\ UNCHANGED <<core, token, breaker, cycle>>

TokenExpires ==
    /\ token = "valid"
    /\ token' = "expired"
    /\ UNCHANGED <<core, coreUp, breaker, cycle>>

\* UpdateStatus(EXPIRED), by the status it reads.
UpdateStatus(read) ==
    CASE read \in EXPIRABLE_STATUSES -> "ok"
      [] read = "EXPIRED" -> "ErrConflict"
      [] OTHER -> "ErrInvalidTransition"

handleError(error) ==
    CASE error = "ok" -> 200
      [] error = "ErrConflict" -> 409
      [] error = "ErrInvalidTransition" -> 422
      [] OTHER -> 500

-------------------------------------------------------------------------------
(* CircuitBreaker: one thread, so each method is part of the request's step. *)

trip == [state |-> "open", failures |-> 0]

\* Mutant of on_failure: one failure too many.
on_failureLate(b) ==
    IF b.state = "half_open" \/ b.failures + 1 > FailureThreshold
    THEN trip
    ELSE [b EXCEPT !.failures = @ + 1]

on_failure(b) ==
    IF b.state = "half_open" \/ b.failures + 1 >= FailureThreshold
    THEN trip
    ELSE [b EXCEPT !.failures = @ + 1]

on_success(b) == [b EXCEPT !.failures = 0, !.state = "closed"]

\* The reset timeout passes; `state` turns to half-open when it is next read.
ResetTimeout ==
    /\ breaker.state = "open"
    /\ breaker' = [breaker EXCEPT !.state = "half_open"]
    /\ UNCHANGED <<core, coreUp, token, cycle>>

-------------------------------------------------------------------------------
(* CoreClient._request, up to its answer.  An answer ends the request;       *)
(* anything else uses up an attempt.                                         *)

CircuitOpen == breaker.state = "open"

LastAttempt == cycle.attempt = MaxRetries

NextAttempt == cycle' = [cycle EXCEPT !.attempt = @ + 1]

\* RequireAuth lets the request through: a valid token, or a login on the way.
Admitted ==
    /\ ~CircuitOpen /\ coreUp
    /\ token # "expired"
    /\ token' = "valid"

Answered == Admitted /\ breaker' = on_success(breaker)

\* Mutant of Reject401: the next attempt sends the same token.
Reject401KeepingToken == UNCHANGED <<token, breaker>>

\* 401: the token is dropped, the breaker hears nothing.
Reject401 == token' = "none" /\ UNCHANGED breaker

Unauthorized ==
    /\ ~CircuitOpen /\ coreUp
    /\ token = "expired"
    /\ Reject401

\* Timeout, refused connection, retryable status, or a login that failed.
Failed ==
    /\ ~CircuitOpen /\ ~coreUp
    /\ breaker' = on_failure(breaker)
    /\ token' \in IF token = "none" THEN {"none", "valid"} ELSE {token}

-------------------------------------------------------------------------------
(* ReconcileExpired._collect                                                 *)

\* Mutant of ListedStatuses: the later status first.
SortedBackwards == <<"UNDER_REVIEW", "PENDING">>

\* sorted(EXPIRABLE_STATUSES)
ListedStatuses == <<"PENDING", "UNDER_REVIEW">>

\* What the service makes of the limit it is asked for.
Limit ==
    IF PageSize <= 0 THEN DefaultLimit
    ELSE IF PageSize > MaxLimit THEN MaxLimit ELSE PageSize

\* List, first page: ORDER BY created_at DESC LIMIT.
Page(st) ==
    {s \in Slots :
        /\ status[s] = st
        /\ Cardinality({t \in newer[s] : status[t] = st}) < Limit}

\* Mutant of filter_expired: whatever was listed.
Unfiltered(page) == page

\* now >= expires_at, for the `now` of the cycle.
filter_expired(page) == page \cap cycle.cutoff

StartCycle ==
    /\ cycle.pc = "poll"
    /\ cycle' = [Idle EXCEPT !.pc = "list", !.statuses = ListedStatuses, !.cutoff = due]
    /\ UNCHANGED <<core, coreUp, token, breaker>>

\* One status is listed; after the last, on to the candidates.
PageArrives ==
    LET st    == Head(cycle.statuses)
        rest  == Tail(cycle.statuses)
        found == cycle.candidates \cup ({st} \X filter_expired(Page(st)))
    IN cycle' = [cycle EXCEPT !.statuses = rest, !.candidates = found, !.attempt = 0,
                    !.pc = IF rest # <<>> THEN "list" ELSE IF found # {} THEN "patch" ELSE "poll"]

\* CoreUnavailable: the cycle is given up, with an empty report.
AbortCycle == cycle' = Idle

List ==
    /\ cycle.pc = "list"
    /\ \/ Answered /\ PageArrives
       \/ (Unauthorized \/ Failed) /\ ~LastAttempt /\ NextAttempt
       \/ (Unauthorized \/ Failed) /\ LastAttempt /\ AbortCycle
       \/ CircuitOpen /\ AbortCycle /\ UNCHANGED <<token, breaker>>
    /\ UNCHANGED <<core, coreUp>>

-------------------------------------------------------------------------------
(* ReconcileExpired._run, one candidate after the other                      *)

\* The pages in the order of the listings, each with the newest first.
Precedes(d, c) ==
    \/ d[1] = "PENDING" /\ c[1] = "UNDER_REVIEW"
    \/ d[1] = c[1] /\ d[2] \in newer[c[2]]

IsNext(c) == \A d \in cycle.candidates : ~Precedes(d, c)

\* The outcome is counted and the next candidate is taken.
Count(c, outcome) ==
    LET rest == cycle.candidates \ {c} IN
    cycle' = [cycle EXCEPT !.candidates = rest, !.attempt = 0,
                 !.report = @ \cup {<<c[2], outcome>>},
                 !.pc = IF rest = {} THEN "poll" ELSE "patch"]

\* The attempt is spent: another one, or CoreUnavailable.
Spent(c) ==
    \/ ~LastAttempt /\ cycle' = [cycle EXCEPT !.attempt = @ + 1, !.pc = "patch"]
    \/ LastAttempt /\ Count(c, "failed")

\* Mutant of OutcomeOf: any refusal is the end that was wanted.
OutcomeOfAnyRefusal(code) == IF code = 200 THEN "expired" ELSE "already_expired"

\* expire(), for the codes that are not retried.
OutcomeOf(code) ==
    CASE code = 200 -> "expired" [] code = 409 -> "already_expired" [] code = 422 -> "rejected"

\* Failed, with a request that was never received or is still on its way.
PatchFailed(c) ==
    /\ Failed
    /\ late' \in {late, late \cup {c[2]}}
    /\ Spent(c)
    /\ UNCHANGED status

\* The request until core-api has read the intent.
Patch(c) ==
    /\ cycle.pc = "patch" /\ c \in cycle.candidates /\ IsNext(c)
    /\ \/ /\ Open(c[2]) /\ Admitted
          /\ cycle' = [cycle EXCEPT !.pc = "serving"]
          /\ UNCHANGED <<status, late, breaker>>
       \/ /\ ~Open(c[2]) /\ Answered
          /\ Count(c, OutcomeOf(handleError(UpdateStatus(status[c[2]]))))
          /\ UNCHANGED <<status, late>>
       \/ Unauthorized /\ Spent(c) /\ UNCHANGED <<status, late>>
       \/ PatchFailed(c)
       \/ CircuitOpen /\ Count(c, "failed") /\ UNCHANGED <<status, late, token, breaker>>
    /\ UNCHANGED <<newer, due, coreUp>>

\* The transaction, and its answer: an intent that was closed since it was read
\* makes the trigger refuse, which is a 500 and as good as an outage.
Serve(c) ==
    /\ cycle.pc = "serving" /\ c \in cycle.candidates /\ IsNext(c)
    /\ \/ /\ coreUp /\ DatabaseAccepts(c[2])
          /\ CommitExpired(c[2])
          /\ breaker' = on_success(breaker)
          /\ Count(c, OutcomeOf(200))
          /\ UNCHANGED <<late, token>>
       \/ /\ coreUp /\ ~DatabaseAccepts(c[2])
          /\ breaker' = on_failure(breaker)
          /\ Spent(c)
          /\ UNCHANGED <<status, late, token>>
       \/ PatchFailed(c)
    /\ UNCHANGED <<newer, due, coreUp>>

-------------------------------------------------------------------------------

\* The worker dies: what it held in memory is gone, and what core-api was
\* serving may take effect.
Crash ==
    /\ cycle.pc # "down"
    /\ token' = "none" /\ breaker' = Closed /\ cycle' = [Idle EXCEPT !.pc = "down"]
    /\ late' \in {late} \cup {late \cup {c[2]} : c \in {d \in cycle.candidates :
                                                     cycle.pc = "serving" /\ IsNext(d)}}
    /\ UNCHANGED <<status, newer, due, coreUp>>

Start ==
    /\ cycle.pc = "down"
    /\ cycle' = Idle
    /\ UNCHANGED <<core, coreUp, token, breaker>>

-------------------------------------------------------------------------------

Environment ==
    \/ \E s \in Slots : CreateIntent(s) \/ MoveIntent(s) \/ FallDue(s) \/ TakesEffect(s)
    \/ CoreGoesUpOrDown \/ TokenExpires \/ Crash

Worker == Start \/ StartCycle \/ List \/ \E c \in Candidates : Patch(c) \/ Serve(c)

Next == Environment \/ Worker \/ ResetTimeout

Spec == Init /\ [][Next]_vars

\* Docker restarts the worker, ticks keep coming, every request is answered or
\* times out, and time passes.
FairSpec == Spec /\ WF_vars(Worker) /\ WF_vars(ResetTimeout)

-------------------------------------------------------------------------------

\* Every variable has its type; a request has at most MaxRetries + 1 attempts.
TypeOK ==
    /\ status \in [Slots -> Statuses]
    /\ newer \in [Slots -> SUBSET Slots]
    /\ due \subseteq Slots /\ late \subseteq Slots
    /\ coreUp \in BOOLEAN
    /\ token \in {"none", "valid", "expired"}
    /\ breaker \in Breaker
    /\ breaker.state # "closed" => breaker.failures = 0
    /\ cycle \in Cycle

\* The report of a cycle is true of core-api, whatever was retried, lost, late or
\* refused by the trigger: what it counts as expired, now or already, is expired,
\* and what it counts as rejected was closed otherwise (reconcile.py, _run).
ReportIsTrue ==
    \A s \in Slots :
        /\ <<s, "expired">> \in cycle.report => status[s] = "EXPIRED"
        /\ <<s, "already_expired">> \in cycle.report => status[s] = "EXPIRED"
        /\ <<s, "rejected">> \in cycle.report => status[s] = "RESOLVED"

\* No intent is expired before its time, although the list that was filtered is
\* old when the PATCH is sent, and a late PATCH is older still (expiry.py,
\* is_expired).
NeverExpiresEarly == \A s \in Slots : status[s] = "EXPIRED" => s \in due

\* As long as a page holds every open intent, what was due when the cycle
\* started and is still open is a candidate until the cycle ends, or counted as
\* failed: neither the two listings, between which intents move, nor the run over
\* the candidates loses one (reconcile.py, _collect and _run).
CycleMissesNothing ==
    cycle.pc \in {"patch", "serving", "poll"} =>
        \A s \in cycle.cutoff : Open(s) =>
            \/ cycle.pc # "poll" /\ \E st \in EXPIRABLE_STATUSES : <<st, s>> \in cycle.candidates
            \/ <<s, "failed">> \in cycle.report

\* "Los vencidos no empeoran por esperar y el siguiente disparo los recupera"
\* (reconcile.py, _run): with core-api answering and the worker up, every intent
\* that is due ends closed, after whatever outage, lost answer or expired token.
DueIsClosed ==
    <>[](coreUp /\ cycle.pc # "down") =>
        \A s \in Slots : (Open(s) /\ s \in due) ~> ~Open(s)
===============================================================================
