----------------------- MODULE RowTransactionsProofs -----------------------
(***************************************************************************)
(* The transactions on a row are serial writes, for any number of writers. *)
(* What carries it: while a transaction holds the row, the row is the one  *)
(* its trigger accepted, and the time it put in its history row is later   *)
(* than every committed one, because it was read after the wait.           *)
(***************************************************************************)
EXTENDS RowTransactions, FiniteSetTheorems, TLAPS

\* A row is written by a legal transition or rewritten with its own status, and
\* inserted PENDING.
Legal(old, s) ==
    IF old = NoStatus THEN s = "PENDING" ELSE s = old \/ CanTransitionTo(old, s)

Times ==
    /\ \A k \in 1..Len(hist) : hist[k].at < now
    /\ \A j, k \in 1..Len(hist) : j < k => hist[j].at < hist[k].at

Evidence ==
    /\ row = NoStatus => hist = <<>>
    /\ row # NoStatus => /\ Len(hist) > 0
                         /\ hist[1].new = "PENDING"
                         /\ hist[Len(hist)].new = row
    /\ \A k \in 1..(Len(hist) - 1) : Legal(hist[k].new, hist[k + 1].new)

Holds(w) ==
    /\ txs[w].pc # "idle" => /\ txs[w].new \in Status
                             /\ row = NoStatus => txs[w].new = "PENDING"
    /\ txs[w].pc \in {"updated", "evidenced"} => Legal(row, txs[w].new)
    /\ txs[w].pc = "evidenced" =>
          /\ txs[w].createdAt < now
          /\ \A k \in 1..Len(hist) : hist[k].at < txs[w].createdAt

RowInv == TypeOK /\ Times /\ Evidence /\ \A w \in Writers : Holds(w)

USE RowAssumption

\* The trigger's table and the domain's agree, so what the trigger accepts is legal.
LEMMA TriggerIsLegal ==
    ASSUME NEW old \in Status, NEW s \in Status, enforce_status_transition(old, s)
    PROVE  Legal(old, s)
  BY DEF enforce_status_transition, payment_status_transitions, Legal, CanTransitionTo,
         allowedTransitions, NoStatus, Status

LEMMA HistoryTypes ==
    ASSUME TypeOK
    PROVE  /\ DOMAIN hist = 1..Len(hist) /\ Len(hist) \in Nat
           /\ hist = <<>> <=> Len(hist) = 0
           /\ \A k \in 1..Len(hist) : hist[k].new \in Status /\ hist[k].at \in Nat
  <1> DEFINE S == [new: Status, at: Nat]
  <1>1. \A r \in S : r.new \in Status /\ r.at \in Nat
    OBVIOUS
  <1>2. hist \in Seq(S)
    BY DEF TypeOK
  <1> HIDE DEF S
  <1>3. /\ DOMAIN hist = 1..Len(hist) /\ Len(hist) \in Nat
        /\ hist = <<>> <=> Len(hist) = 0
        /\ \A k \in 1..Len(hist) : hist[k] \in S
    BY <1>2
  <1> QED BY <1>1, <1>3

LEMMA InitHolds == Init => RowInv
  BY DEF Init, RowInv, TypeOK, Times, Evidence, Holds, NoTx, Tx, Status, NoStatus

LEMMA DecideKeeps ==
    ASSUME RowInv, NEW w \in Writers, NEW s \in Status, Decide(w, s)
    PROVE  RowInv'
  <1>1. /\ s \in Status /\ (row = NoStatus => s = "PENDING")
        /\ txs'[w] = [pc |-> "decided", new |-> s, updatedAt |-> now, createdAt |-> 0]
        /\ \A v \in Writers : v # w => txs'[v] = txs[v]
        /\ UNCHANGED <<row, hist, lock>> /\ now' = now + 1 /\ txs[w].pc = "idle"
    BY DEF Decide, Asks, RowInv, TypeOK
  <1>2. TypeOK'
    BY DEF Decide, RowInv, TypeOK, Tx
  <1>3. Times' /\ Evidence'
    <2>1. now \in Nat /\ Len(hist) \in Nat /\ \A k \in 1..Len(hist) : hist[k].at \in Nat
      BY HistoryTypes DEF RowInv, TypeOK
    <2>2. Times'
      BY <1>1, <2>1 DEF RowInv, Times
    <2>3. Evidence'
      BY <1>1 DEF RowInv, Evidence
    <2> QED BY <2>2, <2>3
  <1>4. ASSUME NEW v \in Writers PROVE Holds(v)'
    <2>1. CASE v = w
      BY <1>1, <2>1 DEF Holds
    <2>2. CASE v # w
      BY <1>1, <2>2 DEF Holds, RowInv, TypeOK, Tx
    <2> QED BY <2>1, <2>2
  <1> QED BY <1>2, <1>3, <1>4 DEF RowInv

LEMMA UpdateKeeps ==
    ASSUME RowInv, NEW w \in Writers, Update(w)
    PROVE  RowInv'
  <1>1. /\ txs[w].pc = "decided" /\ lock = NoOne /\ lock' = w /\ Accepted(w)
        /\ txs' = [txs EXCEPT ![w].pc = "updated"]
        /\ UNCHANGED <<row, hist, now>>
    BY DEF Update
  <1>2. TypeOK'
    BY <1>1 DEF RowInv, TypeOK, Tx
  <1>3. Times' /\ Evidence'
    BY <1>1 DEF RowInv, Times, Evidence
  <1>4. Legal(row, txs[w].new)
    <2>1. txs[w].new \in Status /\ (row = NoStatus => txs[w].new = "PENDING")
      BY <1>1 DEF RowInv, Holds
    <2>2. CASE row = NoStatus
      BY <2>1, <2>2 DEF Legal
    <2>3. CASE row # NoStatus
      BY <1>1, <2>1, <2>3, TriggerIsLegal DEF Accepted, RowInv, TypeOK
    <2> QED BY <2>2, <2>3
  <1>5. ASSUME NEW v \in Writers PROVE Holds(v)'
    <2>1. CASE v = w
      <3>1. txs'[w].pc = "updated" /\ txs'[w].new = txs[w].new
        BY <1>1 DEF RowInv, TypeOK, Tx
      <3> QED BY <1>1, <1>4, <2>1, <3>1 DEF Holds, RowInv
    <2>2. CASE v # w
      BY <1>1, <2>2 DEF Holds, RowInv, TypeOK
    <2> QED BY <2>1, <2>2
  <1> QED BY <1>2, <1>3, <1>5 DEF RowInv

LEMMA AddHistoryKeeps ==
    ASSUME RowInv, NEW w \in Writers, AddHistory(w)
    PROVE  RowInv'
  <1>1. /\ txs[w].pc = "updated"
        /\ txs' = [txs EXCEPT ![w] = [txs[w] EXCEPT !.pc = "evidenced", !.createdAt = now]]
        /\ now' = now + 1
        /\ UNCHANGED <<row, hist, lock>>
    BY DEF AddHistory, CreatedAt, RowInv, TypeOK
  <1>2. TypeOK'
    <2>1. now \in Nat /\ txs[w] \in Tx
      BY DEF RowInv, TypeOK
    <2>2. [txs[w] EXCEPT !.pc = "evidenced", !.createdAt = now] \in Tx
      BY <2>1 DEF Tx
    <2>3. txs' \in [Writers -> Tx] /\ now' \in Nat
      BY <1>1, <2>1, <2>2 DEF RowInv, TypeOK
    <2>4. txs'[w].pc = "evidenced" /\ \A v \in Writers : v # w => txs'[v] = txs[v]
      BY <1>1, <2>1 DEF RowInv, TypeOK, Tx
    <2> QED BY <1>1, <2>3, <2>4 DEF RowInv, TypeOK
  <1>3. Times' /\ Evidence'
    <2>1. now \in Nat /\ Len(hist) \in Nat /\ \A k \in 1..Len(hist) : hist[k].at \in Nat
      BY HistoryTypes DEF RowInv, TypeOK
    <2>2. Times'
      BY <1>1, <2>1 DEF RowInv, Times
    <2>3. Evidence'
      BY <1>1 DEF RowInv, Evidence
    <2> QED BY <2>2, <2>3
  <1>4. ASSUME NEW v \in Writers PROVE Holds(v)'
    <2>1. CASE v = w
      <3>1. txs'[w].pc = "evidenced" /\ txs'[w].new = txs[w].new /\ txs'[w].createdAt = now
        BY <1>1 DEF RowInv, TypeOK, Tx
      <3> QED BY <1>1, <2>1, <3>1 DEF Holds, RowInv, Times, TypeOK
    <2>2. CASE v # w
      BY <1>1, <2>2 DEF Holds, RowInv, TypeOK, Tx
    <2> QED BY <2>1, <2>2
  <1> QED BY <1>2, <1>3, <1>4 DEF RowInv

\* What a Commit does, in the terms of the refinement.
LEMMA CommitWrites ==
    ASSUME RowInv, NEW w \in Writers, Commit(w)
    PROVE  /\ Legal(row, txs[w].new) /\ txs[w].new \in Status /\ row' = txs[w].new
           /\ hist' = Append(hist, [new |-> txs[w].new, at |-> txs[w].createdAt])
           /\ Len(hist') = Len(hist) + 1
           /\ \A k \in 1..Len(hist) : hist'[k] = hist[k]
           /\ hist'[Len(hist')].new = txs[w].new
           /\ hist'[Len(hist')].at = txs[w].createdAt
           /\ lock = w /\ lock' = NoOne /\ now' = now
           /\ txs' = [txs EXCEPT ![w] = NoTx]
  <1>1. /\ txs[w].pc = "evidenced" /\ row' = txs[w].new /\ lock' = NoOne /\ now' = now
        /\ hist' = Append(hist, [new |-> txs[w].new, at |-> txs[w].createdAt])
        /\ txs' = [txs EXCEPT ![w] = NoTx]
    BY DEF Commit
  <1>2. hist \in Seq([new: Status, at: Nat]) /\ lock = w
        /\ txs[w].new \in Status /\ txs[w].createdAt \in Nat /\ Legal(row, txs[w].new)
    BY <1>1 DEF RowInv, TypeOK, Holds, Tx
  <1> QED BY <1>1, <1>2

LEMMA CommitKeeps ==
    ASSUME RowInv, NEW w \in Writers, Commit(w)
    PROVE  RowInv'
  <1>1. /\ Legal(row, txs[w].new) /\ txs[w].new \in Status /\ row' = txs[w].new
        /\ hist' = Append(hist, [new |-> txs[w].new, at |-> txs[w].createdAt])
        /\ Len(hist') = Len(hist) + 1
        /\ \A k \in 1..Len(hist) : hist'[k] = hist[k]
        /\ hist'[Len(hist')].new = txs[w].new
        /\ hist'[Len(hist')].at = txs[w].createdAt
        /\ lock = w /\ lock' = NoOne /\ now' = now
        /\ txs' = [txs EXCEPT ![w] = NoTx]
    BY CommitWrites
  <1>2. /\ txs[w].pc = "evidenced" /\ txs[w].createdAt < now /\ txs[w].createdAt \in Nat
        /\ \A k \in 1..Len(hist) : hist[k].at < txs[w].createdAt
        /\ Len(hist) \in Nat
    BY DEF Commit, RowInv, Holds, TypeOK, Tx
  <1>3. TypeOK'
    <2>1. hist' \in Seq([new: Status, at: Nat])
      BY <1>1, <1>2 DEF RowInv, TypeOK
    <2> QED BY <1>1, <2>1 DEF RowInv, TypeOK, Tx, NoTx
  <1>4. Times'
    BY <1>1, <1>2 DEF RowInv, Times, TypeOK
  <1>5. Evidence'
    <2>1. row' # NoStatus /\ Len(hist') > 0
      BY <1>1, <1>2 DEF Status, NoStatus
    <2>2. hist'[1].new = "PENDING"
      <3>1. CASE row = NoStatus
        BY <1>1, <3>1 DEF RowInv, Evidence, Legal
      <3>2. CASE row # NoStatus
        BY <1>1, <1>2, <3>2 DEF RowInv, Evidence
      <3> QED BY <3>1, <3>2
    <2>3. ASSUME NEW k \in 1..(Len(hist') - 1)
          PROVE  Legal(hist'[k].new, hist'[k + 1].new)
      <3>1. CASE k = Len(hist)
        <4>1. row # NoStatus /\ hist[k].new = row
          BY <1>2, <3>1 DEF RowInv, Evidence
        <4> QED BY <1>1, <1>2, <3>1, <4>1
      <3>2. CASE k # Len(hist)
        <4>1. k \in 1..(Len(hist) - 1) /\ k \in 1..Len(hist) /\ k + 1 \in 1..Len(hist)
          BY <1>1, <1>2, <3>2
        <4> QED BY <1>1, <4>1 DEF RowInv, Evidence
      <3> QED BY <3>1, <3>2
    <2> QED BY <1>1, <2>1, <2>2, <2>3 DEF Evidence
  <1>6. ASSUME NEW v \in Writers PROVE Holds(v)'
    <2>1. CASE v = w
      BY <1>1, <2>1 DEF Holds, NoTx, RowInv, TypeOK
    <2>2. CASE v # w
      <3>1. txs'[v] = txs[v] /\ txs[v].pc \notin {"updated", "evidenced"}
        BY <1>1, <2>2 DEF RowInv, TypeOK
      <3>2. row' # NoStatus
        BY <1>1 DEF Status, NoStatus
      <3> QED BY <3>1, <3>2 DEF Holds, RowInv
    <2> QED BY <2>1, <2>2
  <1> QED BY <1>3, <1>4, <1>5, <1>6 DEF RowInv

LEMMA RollbackKeeps ==
    ASSUME RowInv, NEW w \in Writers, Rollback(w)
    PROVE  RowInv'
  <1>1. /\ lock' = IF lock = w THEN NoOne ELSE lock
        /\ txs' = [txs EXCEPT ![w] = NoTx]
        /\ UNCHANGED <<row, hist, now>>
    BY DEF Rollback
  <1>2. TypeOK'
    BY <1>1 DEF RowInv, TypeOK, Tx, NoTx
  <1>3. Times' /\ Evidence'
    BY <1>1 DEF RowInv, Times, Evidence
  <1>4. ASSUME NEW v \in Writers PROVE Holds(v)'
    BY <1>1 DEF Holds, RowInv, TypeOK, NoTx
  <1> QED BY <1>2, <1>3, <1>4 DEF RowInv

LEMMA NextKeeps == RowInv /\ [Next]_rowVars => RowInv'
  <1> SUFFICES ASSUME RowInv, [Next]_rowVars PROVE RowInv'
    OBVIOUS
  <1>1. ASSUME NEW w \in Writers, NEW s \in Status, Decide(w, s) PROVE RowInv'
    BY <1>1, DecideKeeps
  <1>2. ASSUME NEW w \in Writers, Update(w) PROVE RowInv'
    BY <1>2, UpdateKeeps
  <1>3. ASSUME NEW w \in Writers, AddHistory(w) PROVE RowInv'
    BY <1>3, AddHistoryKeeps
  <1>4. ASSUME NEW w \in Writers, Commit(w) PROVE RowInv'
    BY <1>4, CommitKeeps
  <1>5. ASSUME NEW w \in Writers, Rollback(w) PROVE RowInv'
    BY <1>5, RollbackKeeps
  <1>6. CASE UNCHANGED rowVars
    BY <1>6 DEF rowVars, RowInv, TypeOK, Times, Evidence, Holds
  <1> QED BY <1>1, <1>2, <1>3, <1>4, <1>5, <1>6 DEF Next

\* The inductive invariant of the transactions on a row.
THEOREM RowInvariant == Spec => []RowInv
  BY InitHolds, NextKeeps, PTL DEF Spec

\* Types, and the row is held exactly from an UPDATE to the end of its transaction.
THEOREM RowTypeCorrect == Spec => []TypeOK
  <1>1. RowInv => TypeOK
    BY DEF RowInv
  <1> QED BY <1>1, RowInvariant, PTL

\* Increasing times put the listed history in commit order.
LEMMA ListedInCommitOrder ==
    ASSUME RowInv, NEW k \in 1..Len(hist)
    PROVE  ListByPaymentIntentID[k] = hist[k]
  <1> DEFINE Before(r) == {q \in DOMAIN hist : hist[q].at < hist[r].at}
  <1>1. DOMAIN hist = 1..Len(hist) /\ Len(hist) \in Nat
        /\ \A j \in 1..Len(hist) : hist[j].at \in Nat
    BY HistoryTypes DEF RowInv
  <1>2. ASSUME NEW r \in DOMAIN hist PROVE Cardinality(Before(r)) = r - 1
    <2>1. Before(r) = 1..(r - 1)
      <3>1. ASSUME NEW q \in DOMAIN hist PROVE hist[q].at < hist[r].at <=> q < r
        BY <1>1 DEF RowInv, Times
      <3> QED BY <1>1, <3>1
    <2>2. Cardinality(1..(r - 1)) = r - 1
      <3>1. r \in Nat /\ r >= 1
        BY <1>1
      <3>2. 1 \in Int /\ r - 1 \in Int
        BY <3>1
      <3>3. Cardinality(1..(r - 1)) = IF 1 > r - 1 THEN 0 ELSE (r - 1) - 1 + 1
        BY <3>2, FS_Interval
      <3> QED BY <3>1, <3>3
    <2> QED BY <2>1, <2>2
  <1>3. ASSUME NEW r \in DOMAIN hist PROVE Cardinality(Before(r)) = k - 1 <=> r = k
    BY <1>1, <1>2
  <1>4. (CHOOSE r \in DOMAIN hist : Cardinality(Before(r)) = k - 1) = k
    BY <1>1, <1>3
  <1> QED BY <1>1, <1>4 DEF ListByPaymentIntentID

\* The history as it is listed, by time, tells what happened to the row.
THEOREM HistoryAlwaysTellsThePath == Spec => []HistoryTellsThePath
  <1>1. ASSUME RowInv PROVE HistoryTellsThePath
    <2>1. /\ Len(hist) \in Nat /\ (hist = <<>> <=> Len(hist) = 0)
          /\ \A k \in 1..Len(hist) : ListByPaymentIntentID[k] = hist[k] /\ hist[k].new \in Status
      <3>1. Len(hist) \in Nat /\ (hist = <<>> <=> Len(hist) = 0)
            /\ \A k \in 1..Len(hist) : hist[k].new \in Status
        BY <1>1, HistoryTypes DEF RowInv
      <3> QED BY <1>1, <3>1, ListedInCommitOrder
    <2>2. hist = <<>> <=> row = NoStatus
      BY <1>1, <2>1 DEF RowInv, Evidence
    <2>3. ASSUME hist # <<>>
          PROVE  ListByPaymentIntentID[1].new = "PENDING"
                 /\ ListByPaymentIntentID[Len(hist)].new = row
      BY <1>1, <2>1, <2>2, <2>3 DEF RowInv, Evidence
    <2>4. ASSUME NEW k \in 1..(Len(hist) - 1)
          PROVE  LET h == ListByPaymentIntentID IN
                 h[k + 1].new = h[k].new \/ CanTransitionTo(h[k].new, h[k + 1].new)
      <3>1. k \in 1..Len(hist) /\ k + 1 \in 1..Len(hist)
        BY <2>1
      <3>2. Legal(hist[k].new, hist[k + 1].new) /\ hist[k].new # NoStatus
        BY <1>1, <2>1, <3>1 DEF RowInv, Evidence, Status, NoStatus
      <3> QED BY <2>1, <3>1, <3>2 DEF Legal
    <2> QED BY <2>2, <2>3, <2>4 DEF HistoryTellsThePath
  <1> QED BY <1>1, RowInvariant, PTL

\* Every transaction is one serial write or nothing.
THEOREM TransactionsAreSerial == Spec => ImplementsSerialWrites
  <1> DEFINE path == [k \in DOMAIN hist |-> hist[k].new]
  <1>1. Init => row = NoStatus /\ path = <<>>
    BY DEF Init
  <1>2. ASSUME RowInv, [Next]_rowVars
        PROVE  [\E s \in Status : Serial!Write(s)]_<<row, path>>
    <2>1. ASSUME NEW w \in Writers, Commit(w)
          PROVE  \E s \in Status : Serial!Write(s)
      <3> DEFINE s == txs[w].new
      <3>1. /\ Legal(row, s) /\ s \in Status /\ row' = s
            /\ Len(hist') = Len(hist) + 1
            /\ \A k \in 1..Len(hist) : hist'[k] = hist[k]
            /\ hist'[Len(hist')].new = s
            /\ hist' = Append(hist, [new |-> s, at |-> txs[w].createdAt])
        BY <1>2, <2>1, CommitWrites
      <3>2. hist \in Seq([new: Status, at: Nat]) /\ hist' \in Seq([new: Status, at: Nat])
        BY <1>2, <2>1, CommitKeeps DEF RowInv, TypeOK
      <3>3. path' = Append(path, s)
        <4>1. /\ Len(hist) \in Nat /\ DOMAIN hist = 1..Len(hist)
              /\ DOMAIN hist' = 1..(Len(hist) + 1)
              /\ \A k \in 1..Len(hist) : hist[k].new \in Status
          BY <1>2, <3>1, <3>2, HistoryTypes DEF RowInv
        <4>2. path \in Seq(Status) /\ Len(path) = Len(hist)
          BY <4>1
        <4>3. path' = [k \in 1..(Len(hist) + 1) |-> hist'[k].new]
          BY <4>1
        <4>4. Append(path, s) = [k \in 1..(Len(hist) + 1) |-> IF k <= Len(hist) THEN path[k] ELSE s]
          BY <3>1, <4>1, <4>2
        <4>5. ASSUME NEW k \in 1..(Len(hist) + 1)
              PROVE  hist'[k].new = IF k <= Len(hist) THEN path[k] ELSE s
          <5>1. CASE k <= Len(hist)
            BY <3>1, <4>1, <5>1
          <5>2. CASE k = Len(hist) + 1
            BY <3>1, <4>1, <5>2
          <5> QED BY <4>1, <5>1, <5>2
        <4> HIDE DEF path, s
        <4> QED BY <4>3, <4>4, <4>5
      <3>4. IF row = NoStatus THEN s = "PENDING" ELSE s = row \/ CanTransitionTo(row, s)
        BY <3>1 DEF Legal
      <3> HIDE DEF s, path
      <3> QED
        BY <3>1, <3>3, <3>4 DEF Serial!Write, Serial!CanTransitionTo, CanTransitionTo,
           Serial!allowedTransitions, allowedTransitions, Serial!NoStatus, NoStatus, path
    <2>2. ASSUME NEW w \in Writers,
                 \/ \E s \in Status : Decide(w, s)
                 \/ Update(w) \/ AddHistory(w) \/ Rollback(w)
          PROVE  UNCHANGED <<row, hist>>
      BY <2>2 DEF Decide, Update, AddHistory, Rollback
    <2>3. CASE UNCHANGED rowVars
      BY <2>3 DEF rowVars
    <2> QED BY <1>2, <2>1, <2>2, <2>3 DEF Next
  <1> QED
    BY <1>1, <1>2, RowInvariant, PTL DEF Spec, ImplementsSerialWrites, Serial!SerialSpec, Serial!SerialInit, Serial!SerialNext,
       Serial!NoStatus, NoStatus, Serial!Status, Status
=============================================================================
