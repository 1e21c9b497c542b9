-------------------------- MODULE RowTransactions --------------------------
(***************************************************************************)
(* The transactions of UnitOfWork.Execute on the row of one intent, one    *)
(* statement at a time: what CoreApi takes as one step.  A goroutine       *)
(* decides on a copy it read outside the transaction, then runs UPDATE,    *)
(* history INSERT and COMMIT.  PostgreSQL (READ COMMITTED) makes an UPDATE *)
(* wait for the transaction that holds the row, and hands the trigger the  *)
(* version that transaction left; before the COMMIT others see none of it. *)
(* Time is core-api's clock, in readings: two readings are never equal.    *)
(***************************************************************************)
EXTENDS PaymentDomain, Naturals, Sequences, FiniteSets

CONSTANTS
    Writers,    \* goroutines: request handlers and the result consumer
    NoOne,
    Horizon,    \* bound on the readings of the clock
    MaxHistory  \* bound on the history a decision may still be taken at

ASSUME RowAssumption ==
    NoOne \notin Writers /\ Horizon \in Nat /\ MaxHistory \in Nat

VARIABLES
    row,        \* the committed status, NoStatus before the INSERT commits
    hist,       \* committed history rows, in commit order
    lock,       \* the writer whose transaction holds the row
    txs,        \* each writer's transaction
    now         \* the next reading of core-api's clock

rowVars == <<row, hist, lock, txs, now>>

\* pc "decided": the new status is in memory, the UPDATE is next.  "updated":
\* it has run, the history INSERT is next.  "evidenced": the COMMIT is next.
Tx == [pc: {"idle", "decided", "updated", "evidenced"},
       new: Status \cup {NoStatus}, updatedAt: Nat, createdAt: Nat]

NoTx == [pc |-> "idle", new |-> NoStatus, updatedAt |-> 0, createdAt |-> 0]

Init ==
    /\ row = NoStatus
    /\ hist = <<>>
    /\ lock = NoOne
    /\ txs = [w \in Writers |-> NoTx]
    /\ now = 0

-----------------------------------------------------------------------------

\* NewPaymentIntent, ChangeStatus and ApplyRiskDecision on the copy read: an
\* identifier is inserted by the goroutine that drew it; a PATCH or the marking
\* must be a transition, a decision may also ask for the status there is, open
\* or closed, and is written again.
Asks(w, s) ==
    IF row = NoStatus
    THEN s = "PENDING" /\ \A v \in Writers : txs[v].pc = "idle"
    ELSE \/ CanTransitionTo(row, s)
         \/ \E d \in RiskDecision : StatusFor(d) = s /\ AcceptsDecision(row, d)

\* The read, the decision, and the time it leaves in UpdatedAt.
Decide(w, s) ==
    /\ txs[w].pc = "idle"
    /\ now < Horizon /\ Len(hist) < MaxHistory
    /\ Asks(w, s)
    /\ txs' = [txs EXCEPT ![w] = [pc |-> "decided", new |-> s,
                                  updatedAt |-> now, createdAt |-> 0]]
    /\ now' = now + 1
    /\ UNCHANGED <<row, hist, lock>>

\* What the trigger says of the version of the row the UPDATE meets.
Accepted(w) == row = NoStatus \/ enforce_status_transition(row, txs[w].new)

\* Mutant of Update: it runs on the pool, not on the transaction of the context.
UpdateOnThePool(w) ==
    /\ txs[w].pc = "decided"
    /\ Accepted(w)
    /\ row' = txs[w].new
    /\ txs' = [txs EXCEPT ![w].pc = "updated"]
    /\ UNCHANGED <<hist, lock, now>>

\* Repository.Create or Update with the querier of the context: it waits for
\* the row, and the trigger compares with what it then is.
Update(w) ==
    /\ txs[w].pc = "decided"
    /\ lock = NoOne
    /\ Accepted(w)
    /\ lock' = w
    /\ txs' = [txs EXCEPT ![w].pc = "updated"]
    /\ UNCHANGED <<row, hist, now>>

\* Mutant of CreatedAt: the time of the decision, before the row was locked.
CreatedAtDecision(w) == txs[w].updatedAt

\* NewPaymentIntentStatusHistory reads the clock inside the transaction.
CreatedAt(w) == now

\* history.Create on the same transaction.
AddHistory(w) ==
    /\ txs[w].pc = "updated"
    /\ txs' = [txs EXCEPT ![w].pc = "evidenced", ![w].createdAt = CreatedAt(w)]
    /\ now' = now + 1
    /\ UNCHANGED <<row, hist, lock>>

\* Whether the caller hears of it is not told apart: either way it is idle.
Commit(w) ==
    LET h == Append(hist, [new |-> txs[w].new, at |-> txs[w].createdAt])
    IN  /\ txs[w].pc = "evidenced"
        /\ require_history_row(h, txs[w].new)
        /\ row' = txs[w].new
        /\ hist' = h
        /\ lock' = NoOne
        /\ txs' = [txs EXCEPT ![w] = NoTx]
        /\ UNCHANGED now

\* Mutant of Rollback: Execute returns the error and leaves the transaction open.
ReturnWithoutRollback(w) ==
    /\ txs[w].pc # "idle"
    /\ txs' = [txs EXCEPT ![w] = NoTx]
    /\ UNCHANGED <<row, hist, lock, now>>

\* A statement fails (the trigger, the connection), the context is cancelled or
\* the process dies: Execute rolls back, or PostgreSQL does for it.
Rollback(w) ==
    /\ txs[w].pc # "idle"
    /\ lock' = IF lock = w THEN NoOne ELSE lock
    /\ txs' = [txs EXCEPT ![w] = NoTx]
    /\ UNCHANGED <<row, hist, now>>

Next == \E w \in Writers :
    \/ \E s \in Status : Decide(w, s)
    \/ Update(w)
    \/ AddHistory(w)
    \/ Commit(w)
    \/ Rollback(w)

Spec == Init /\ [][Next]_rowVars

\* PostgreSQL serves those who wait for a row in turn, and a statement returns.
Served(w) ==
    \/ Update(w)
    \/ txs[w].pc = "decided" /\ lock = NoOne /\ ~Accepted(w) /\ Rollback(w)

FairSpec ==
    /\ Spec
    /\ \A w \in Writers :
          SF_rowVars(Served(w)) /\ WF_rowVars(AddHistory(w)) /\ WF_rowVars(Commit(w))

-----------------------------------------------------------------------------
(* GET /payment-intents/{id}/history. *)

\* ListByPaymentIntentID: the row at place k has k - 1 rows created before it
\* (ORDER BY created_at).
ListByPaymentIntentID ==
    [k \in DOMAIN hist |->
        hist[CHOOSE r \in DOMAIN hist :
                Cardinality({q \in DOMAIN hist : hist[q].at < hist[r].at}) = k - 1]]

-----------------------------------------------------------------------------
(* Properties. *)

\* Types; and the row is held by the writer between its UPDATE and the end of
\* its transaction, by nobody otherwise.
TypeOK ==
    /\ row \in Status \cup {NoStatus}
    /\ hist \in Seq([new: Status, at: Nat])
    /\ lock \in Writers \cup {NoOne}
    /\ txs \in [Writers -> Tx]
    /\ now \in Nat
    /\ \A w \in Writers : lock = w <=> txs[w].pc \in {"updated", "evidenced"}

\* The history as GET lists it, ordered by the times core-api put, tells what
\* happened: it starts at PENDING, follows the state machine and ends at the
\* status of the row, whoever waited for whom between reading and writing
\* (core-api-v1.yaml: "Entradas en orden cronologico").
HistoryTellsThePath ==
    LET h == ListByPaymentIntentID IN
    /\ hist = <<>> <=> row = NoStatus
    /\ hist # <<>> => h[1].new = "PENDING" /\ h[Len(hist)].new = row
    /\ \A k \in 1..(Len(hist) - 1) :
          h[k + 1].new = h[k].new \/ CanTransitionTo(h[k].new, h[k + 1].new)

Serial == INSTANCE SerialWrites
            WITH current <- row, path <- [k \in DOMAIN hist |-> hist[k].new]

\* Each transaction, whatever runs beside it, is one serial write with one entry
\* in the history, or nothing.
ImplementsSerialWrites == Serial!SerialSpec

\* No goroutine waits for the row for ever: every transaction lets it go.
WritesEnd == \A w \in Writers : txs[w].pc = "decided" ~> txs[w].pc = "idle"
=============================================================================
