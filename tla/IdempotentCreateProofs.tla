----------------------- MODULE IdempotentCreateProofs -----------------------
(***************************************************************************)
(* For any number of requests, keys, references and intents: Create keeps  *)
(* the promise of OnceRegister.  The lock plays no part in the argument,   *)
(* as ADR-0002 says: it is the unique constraints, and what each request   *)
(* may still remember of the table, which only grows.                      *)
(***************************************************************************)
EXTENDS IdempotentCreate, TLAPS

\* What the constraints of the table keep.
RowsAreUnique ==
    \A r, s \in rows : (r.id = s.id \/ r.key = s.key \/ r.ref = s.ref) => r = s

\* Request r answers with, or goes on with, an intent stored under its key.
HasItsRow(r) == \E s \in rows : s.id = r.intent /\ s.key = r.key

Owns(r) == r.pc \in {"mark", "publish"}

\* What a request holds in memory is true of the table.
Grounded(r) ==
    /\ Owns(r) => HasItsRow(r)
    /\ r.reply = "intent" => HasItsRow(r)
    /\ r.pc # "idle" => r.key \in Keys /\ r.ref \in Refs
    /\ r.pc = "reread" => \E s \in rows : s.key = r.key \/ s.ref = r.ref
    /\ r.reply = "conflict" => \E s \in rows : s.ref = r.ref /\ s.key # r.key
    /\ r.reply # "none" => r.pc \in {"return", "done", "dead"}

\* Only the request that inserted an intent can publish it, once.
OneOwner ==
    /\ \A p, q \in Requests :
          (Owns(req[p]) /\ Owns(req[q]) /\ req[p].intent = req[q].intent) => p = q
    /\ \A p \in Requests : Owns(req[p]) => published[req[p].intent] = 0
    /\ \A i \in Intents : published[i] # 0 => \E r \in rows : r.id = i

CreateInv ==
    /\ TypeOK
    /\ RowsAreUnique
    /\ \A p \in Requests : Grounded(req[p])
    /\ OneOwner
    /\ PublishedAtMostOnce

LEMMA CreateInvInit == Init => CreateInv
BY CreateAssumption
   DEF Init, CreateInv, TypeOK, RowsAreUnique, Grounded, Owns, OneOwner, PublishedAtMostOnce,
       Request, Steps, Replies

-----------------------------------------------------------------------------

\* Steps of one request that leave the table and the count alone: it gets a new
\* memory, which the table must justify.
RequestStep(p) ==
    /\ rows' = rows
    /\ published' = published
    /\ lock' \in [Keys -> Requests \cup {NoOne}]
    /\ \E r \in Request : /\ req' = [req EXCEPT ![p] = r]
                          /\ Grounded(r)
                          /\ Owns(r) => Owns(req[p]) /\ r.intent = req[p].intent

\* Such a step keeps the invariant.
LEMMA RequestStepKeeps ==
    ASSUME CreateInv, NEW p \in Requests, RequestStep(p)
    PROVE  CreateInv'
<1>1. PICK r \in Request : /\ req' = [req EXCEPT ![p] = r]
                           /\ Grounded(r)
                           /\ Owns(r) => Owns(req[p]) /\ r.intent = req[p].intent
  BY DEF RequestStep
<1>2. rows' = rows /\ published' = published /\ lock' \in [Keys -> Requests \cup {NoOne}]
  BY DEF RequestStep
<1>3. TypeOK'
  BY <1>1, <1>2 DEF CreateInv, TypeOK
<1>4. req'[p] = r /\ \A q \in Requests : q # p => req'[q] = req[q]
  BY <1>1 DEF CreateInv, TypeOK
<1>5. (\A q \in Requests : Grounded(req[q]))'
  BY <1>1, <1>2, <1>4 DEF CreateInv, Grounded, HasItsRow, Owns
<1>6. OneOwner'
  BY <1>1, <1>2, <1>4 DEF CreateInv, OneOwner, Owns
<1> QED
  BY <1>2, <1>3, <1>5, <1>6 DEF CreateInv, RowsAreUnique, PublishedAtMostOnce

\* What a step that is not shared leaves alone.
Frame ==
    /\ rows' = rows
    /\ published' = published
    /\ lock' \in [Keys -> Requests \cup {NoOne}]

\* To answer with an intent of one's key is such a step.
LEMMA AnswerIsRequestStep ==
    ASSUME CreateInv, Frame, NEW p \in Requests, req[p].pc # "idle",
           NEW s \in rows, s.key = req[p].key, ReturnIntent(p, s.id)
    PROVE  RequestStep(p)
<1> DEFINE r == [req[p] EXCEPT !.pc = "return", !.reply = "intent", !.intent = s.id]
<1>1. req[p] \in Request /\ Grounded(req[p]) /\ s \in IntentRow
  BY DEF CreateInv, TypeOK
<1>2. req' = [req EXCEPT ![p] = r]
  BY <1>1 DEF ReturnIntent, CreateInv, TypeOK, Request
<1>3. r \in Request
  BY <1>1 DEF Request, Steps, Replies, IntentRow
<1>4. Grounded(r) /\ ~Owns(r)
  BY <1>1 DEF Grounded, Owns, HasItsRow, Request
<1> QED
  BY <1>2, <1>3, <1>4 DEF RequestStep, Frame

\* So is to fail, with ErrConflict only when the reference is taken by another key.
LEMMA FailIsRequestStep ==
    ASSUME CreateInv, Frame, NEW p \in Requests, req[p].pc # "idle",
           NEW reply \in {"error", "conflict"}, Fail(p, reply),
           reply = "conflict" => \E s \in rows : s.ref = req[p].ref /\ s.key # req[p].key
    PROVE  RequestStep(p)
<1> DEFINE r == [req[p] EXCEPT !.pc = "return", !.reply = reply]
<1>1. req[p] \in Request /\ Grounded(req[p])
  BY DEF CreateInv, TypeOK
<1>2. req' = [req EXCEPT ![p] = r]
  BY <1>1 DEF Fail, CreateInv, TypeOK, Request
<1>3. r \in Request
  BY <1>1 DEF Request, Steps, Replies
<1>4. Grounded(r) /\ ~Owns(r)
  BY <1>1 DEF Grounded, Owns, HasItsRow, Request
<1> QED
  BY <1>2, <1>3, <1>4 DEF RequestStep, Frame

\* So is to go on to a step that asks nothing of the table, or from one that
\* owns the row to another.
LEMMA MoveIsRequestStep ==
    ASSUME CreateInv, Frame, NEW p \in Requests, req[p].pc # "idle", NEW step \in Steps,
           step \notin {"idle", "reread", "mark"}, Goto(p, step),
           step = "publish" => Owns(req[p]),
           req[p].reply # "none" => step \in {"return", "done", "dead"}
    PROVE  RequestStep(p)
<1> DEFINE r == [req[p] EXCEPT !.pc = step]
<1>1. req[p] \in Request /\ Grounded(req[p])
  BY DEF CreateInv, TypeOK
<1>2. req' = [req EXCEPT ![p] = r]
  BY <1>1 DEF Goto, CreateInv, TypeOK, Request
<1>3. r \in Request
  BY <1>1 DEF Request
<1>4. Grounded(r) /\ (Owns(r) => Owns(req[p]) /\ r.intent = req[p].intent)
  BY <1>1 DEF Grounded, Owns, HasItsRow, Request
<1> QED
  BY <1>2, <1>3, <1>4 DEF RequestStep, Frame

\* A request that is on its way has not replied.
LEMMA NoReplyYet ==
    ASSUME CreateInv, NEW p \in Requests, req[p].pc \notin {"return", "done", "dead"}
    PROVE  req[p].reply = "none"
BY DEF CreateInv, Grounded

-----------------------------------------------------------------------------
(* One lemma per action. *)

LEMMA StartIsRequestStep ==
    ASSUME CreateInv, NEW p \in Requests, NEW k \in Keys, NEW ref \in Refs, Start(p, k, ref)
    PROVE  RequestStep(p)
<1> DEFINE r == [req[p] EXCEPT !.pc = "lookup", !.key = k, !.ref = ref]
<1>1. req[p] \in Request /\ Grounded(req[p]) /\ req[p].reply = "none"
  BY NoReplyYet DEF CreateInv, TypeOK, Start
<1>2. req' = [req EXCEPT ![p] = r]
  BY <1>1 DEF Start, CreateInv, TypeOK, Request
<1>3. r \in Request
  BY <1>1 DEF Request, Steps
<1>4. Grounded(r) /\ ~Owns(r)
  BY <1>1 DEF Grounded, Owns, Request
<1> QED
  BY <1>2, <1>3, <1>4 DEF RequestStep, Start, CreateInv, TypeOK

LEMMA QueryIsRequestStep ==
    ASSUME CreateInv, NEW p \in Requests, NEW at \in {"lookup", "recheck"},
           NEW otherwise \in {"acquire", "prepare"}, Query(p, at, otherwise)
    PROVE  RequestStep(p)
<1>1. Frame /\ req[p].pc = at /\ req[p].reply = "none"
  BY NoReplyYet DEF Query, Frame, CreateInv, TypeOK
<1>2. ASSUME NEW s \in WithKey(req[p].key), ReturnIntent(p, s.id) PROVE RequestStep(p)
  <2>1. s \in rows /\ s.key = req[p].key
    BY DEF WithKey
  <2> QED
    BY <1>1, <1>2, <2>1, AnswerIsRequestStep
<1>3. ASSUME Goto(p, otherwise) PROVE RequestStep(p)
  <2>1. otherwise \in Steps /\ otherwise \notin {"idle", "reread", "mark", "publish"}
    BY DEF Steps
  <2> QED
    BY <1>1, <1>3, <2>1, MoveIsRequestStep
<1>4. ASSUME Fail(p, "error") PROVE RequestStep(p)
  BY <1>1, <1>4, FailIsRequestStep
<1> QED
  BY <1>2, <1>3, <1>4 DEF Query

LEMMA AcquireIsRequestStep ==
    ASSUME CreateInv, NEW p \in Requests, Acquire(p)
    PROVE  RequestStep(p)
<1>1. req[p] \in Request /\ Grounded(req[p]) /\ req[p].pc = "acquire" /\ req[p].reply = "none"
  BY NoReplyYet DEF CreateInv, TypeOK, Acquire
<1>2. Frame
  BY DEF Frame, Acquire, CreateInv, TypeOK
<1>3. CASE Goto(p, "recheck")
  BY <1>1, <1>2, <1>3, MoveIsRequestStep DEF Steps
<1>4. CASE req' = [req EXCEPT ![p].pc = "prepare", ![p].holds = TRUE]
  <2> DEFINE r == [req[p] EXCEPT !.pc = "prepare", !.holds = TRUE]
  <2>1. req' = [req EXCEPT ![p] = r]
    BY <1>1, <1>4 DEF CreateInv, TypeOK, Request
  <2>2. r \in Request
    BY <1>1 DEF Request, Steps
  <2>3. Grounded(r) /\ ~Owns(r)
    BY <1>1 DEF Grounded, Owns, Request
  <2> QED
    BY <1>2, <2>1, <2>2, <2>3 DEF RequestStep, Frame
<1> QED
  BY <1>3, <1>4 DEF Acquire

LEMMA PrepareIsRequestStep ==
    ASSUME CreateInv, NEW p \in Requests, Prepare(p) \/ InsertFails(p)
    PROVE  RequestStep(p)
<1>1. Frame /\ req[p].pc \in {"prepare", "insert"} /\ req[p].reply = "none"
  BY NoReplyYet DEF Prepare, InsertFails, Frame, CreateInv, TypeOK
<1>2. CASE Goto(p, "insert")
  BY <1>1, <1>2, MoveIsRequestStep DEF Steps
<1>3. CASE Fail(p, "error")
  BY <1>1, <1>3, FailIsRequestStep
<1> QED
  BY <1>2, <1>3 DEF Prepare, InsertFails

\* The row that made the INSERT fail is still there: if it is not of this key,
\* it is of this reference, and of another key.
LEMMA RereadIsRequestStep ==
    ASSUME CreateInv, NEW p \in Requests, Reread(p)
    PROVE  RequestStep(p)
<1>1. Frame /\ req[p].pc = "reread" /\ req[p].reply = "none"
  BY NoReplyYet DEF Reread, Frame, CreateInv, TypeOK
<1>2. ASSUME NEW s \in WithKey(req[p].key), ReturnIntent(p, s.id) PROVE RequestStep(p)
  <2>1. s \in rows /\ s.key = req[p].key
    BY DEF WithKey
  <2> QED
    BY <1>1, <1>2, <2>1, AnswerIsRequestStep
<1>3. CASE WithKey(req[p].key) = {} /\ Fail(p, "conflict")
  <2>1. \E s \in rows : s.key = req[p].key \/ s.ref = req[p].ref
    BY <1>1 DEF CreateInv, Grounded
  <2>2. \E s \in rows : s.ref = req[p].ref /\ s.key # req[p].key
    BY <1>3, <2>1 DEF WithKey
  <2> QED
    BY <1>1, <1>3, <2>2, FailIsRequestStep
<1>4. CASE Fail(p, "error")
  BY <1>1, <1>4, FailIsRequestStep
<1> QED
  BY <1>2, <1>3, <1>4 DEF Reread

LEMMA MarkIsRequestStep ==
    ASSUME CreateInv, NEW p \in Requests, MarkUnderReview(p)
    PROVE  RequestStep(p)
<1>1. Frame /\ req[p].pc = "mark" /\ req[p].reply = "none"
  BY NoReplyYet DEF MarkUnderReview, Frame, CreateInv, TypeOK
<1>2. CASE Goto(p, "publish")
  BY <1>1, <1>2, MoveIsRequestStep DEF Steps, Owns
<1>3. CASE Fail(p, "error")
  BY <1>1, <1>3, FailIsRequestStep
<1> QED
  BY <1>2, <1>3 DEF MarkUnderReview

LEMMA ReturnIsRequestStep ==
    ASSUME CreateInv, NEW p \in Requests, Return(p)
    PROVE  RequestStep(p)
<1>1. Frame
  BY DEF Return, Released, Frame, CreateInv, TypeOK
<1>2. Goto(p, "done") /\ req[p].pc = "return"
  BY DEF Return
<1> QED
  BY <1>1, <1>2, MoveIsRequestStep DEF Steps

-----------------------------------------------------------------------------
(* The steps that change the table, the count or every request. *)

\* The table grows by a row that no constraint forbids, owned by its inserter.
LEMMA InsertKeeps ==
    ASSUME CreateInv, NEW p \in Requests, NEW i \in Intents, Insert(p, i)
    PROVE  CreateInv'
<1> DEFINE row == NewPaymentIntent(p, i)
<1>1. /\ req[p] \in Request /\ Grounded(req[p]) /\ req[p].pc = "insert"
      /\ req[p].reply = "none"
      /\ req[p].key \in Keys /\ req[p].ref \in Refs
  BY NoReplyYet DEF CreateInv, TypeOK, Insert, Grounded
<1>2. published' = published /\ lock' = lock /\ \A r \in rows : r.id # i
  BY DEF Insert
<1>3. CASE ViolatesUnique(row) /\ Goto(p, "reread") /\ rows' = rows
  <2> DEFINE r == [req[p] EXCEPT !.pc = "reread"]
  <2>1. req' = [req EXCEPT ![p] = r]
    BY <1>1, <1>3 DEF Goto, CreateInv, TypeOK, Request
  <2>2. r \in Request /\ ~Owns(r)
    BY <1>1 DEF Request, Steps, Owns
  <2>3. Grounded(r)
    BY <1>1, <1>3 DEF Grounded, Owns, Request, ViolatesUnique, NewPaymentIntent
  <2>4. RequestStep(p)
    BY <1>2, <1>3, <2>1, <2>2, <2>3 DEF RequestStep, CreateInv, TypeOK
  <2> QED
    BY <2>4, RequestStepKeeps
<1>4. ASSUME ~ViolatesUnique(row), rows' = rows \cup {row},
             NEW r \in Request, req' = [req EXCEPT ![p] = r],
             r.key = req[p].key, r.ref = req[p].ref,
             \/ r.pc = "mark" /\ r.intent = i /\ r.reply = "none"
             \/ r.pc = "return" /\ r.reply = "error"
      PROVE  CreateInv'
  <2>1. /\ row \in IntentRow /\ row.id = i /\ row.key = req[p].key /\ row.ref = req[p].ref
    BY <1>1 DEF NewPaymentIntent, IntentRow
  <2>2. req'[p] = r /\ \A q \in Requests : q # p => req'[q] = req[q]
    BY <1>4 DEF CreateInv, TypeOK
  <2>3. TypeOK'
    BY <1>2, <1>4, <2>1 DEF CreateInv, TypeOK
  <2>4. RowsAreUnique'
    BY <1>2, <1>4, <2>1 DEF CreateInv, RowsAreUnique, ViolatesUnique
  <2>5. Grounded(req[p])'
    BY <1>1, <1>4, <2>1, <2>2 DEF Grounded, Owns, HasItsRow
  <2>6. ASSUME NEW q \in Requests, q # p PROVE Grounded(req[q])'
    <3>1. Grounded(req[q]) /\ req'[q] = req[q] /\ rows \subseteq rows'
      BY <1>4, <2>2, <2>6 DEF CreateInv
    <3> QED
      BY <3>1 DEF Grounded, HasItsRow, Owns
  <2>7. OneOwner'
    <3>1. \A q \in Requests : Owns(req[q]) => req[q].intent # i
      BY <1>2 DEF CreateInv, Grounded, HasItsRow
    <3>2. published[i] = 0
      BY <1>2 DEF CreateInv, OneOwner
    <3> QED
      BY <1>2, <1>4, <2>2, <3>1, <3>2 DEF CreateInv, OneOwner, Owns
  <2> QED
    BY <1>2, <2>3, <2>4, <2>5, <2>6, <2>7 DEF CreateInv, PublishedAtMostOnce
<1>5. CASE ~ViolatesUnique(row) /\ rows' = rows \cup {row}
           /\ req' = [req EXCEPT ![p].pc = "mark", ![p].intent = i]
  <2> DEFINE r == [req[p] EXCEPT !.pc = "mark", !.intent = i]
  <2>1. r \in Request /\ r.key = req[p].key /\ r.ref = req[p].ref
        /\ r.pc = "mark" /\ r.intent = i /\ r.reply = "none"
    BY <1>1 DEF Request, Steps
  <2>2. req' = [req EXCEPT ![p] = r]
    BY <1>1, <1>5 DEF CreateInv, TypeOK, Request
  <2> HIDE DEF r
  <2> QED
    BY <1>4, <1>5, <2>1, <2>2
<1>6. CASE ~ViolatesUnique(row) /\ rows' = rows \cup {row} /\ Fail(p, "error")
  <2> DEFINE r == [req[p] EXCEPT !.pc = "return", !.reply = "error"]
  <2>1. r \in Request /\ r.key = req[p].key /\ r.ref = req[p].ref
        /\ r.pc = "return" /\ r.reply = "error"
    BY <1>1 DEF Request, Steps, Replies
  <2>2. req' = [req EXCEPT ![p] = r]
    BY <1>1, <1>6 DEF Fail, CreateInv, TypeOK, Request
  <2> HIDE DEF r
  <2> QED
    BY <1>4, <1>6, <2>1, <2>2
<1> QED
  BY <1>3, <1>5, <1>6 DEF Insert

\* The owner publishes and stops owning; the count says it did.
LEMMA PublishKeeps ==
    ASSUME CreateInv, NEW p \in Requests, Publish(p)
    PROVE  CreateInv'
<1> DEFINE i == req[p].intent
           r == [req[p] EXCEPT !.pc = "return", !.reply = "intent", !.intent = i]
<1>1. req[p] \in Request /\ Grounded(req[p]) /\ Owns(req[p]) /\ HasItsRow(req[p])
  BY DEF CreateInv, TypeOK, Publish, Grounded, Owns
<1>2. i \in Intents /\ published[i] = 0
  BY <1>1 DEF CreateInv, TypeOK, OneOwner, HasItsRow, IntentRow
<1>3. rows' = rows /\ lock' = lock /\ published' = [published EXCEPT ![i] = 1]
  BY <1>2 DEF Publish
<1>4. req' = [req EXCEPT ![p] = r]
  BY <1>1 DEF Publish, ReturnIntent, CreateInv, TypeOK, Request
<1>5. r \in Request
  BY <1>1, <1>2 DEF Request, Steps, Replies
<1>6. Grounded(r) /\ ~Owns(r)
  BY <1>1 DEF Grounded, Owns, HasItsRow, Request
<1>7. req'[p] = r /\ \A q \in Requests : q # p => req'[q] = req[q]
  BY <1>4 DEF CreateInv, TypeOK
<1>8. TypeOK'
  BY <1>3, <1>4, <1>5 DEF CreateInv, TypeOK
<1>9. (\A q \in Requests : Grounded(req[q]))'
  <2>1. \A q \in Requests : Grounded(req'[q])
    <3> HIDE DEF r
    <3> QED
      BY <1>6, <1>7 DEF CreateInv
  <2> QED
    BY <1>3, <2>1 DEF Grounded, HasItsRow, Owns
<1>10. OneOwner'
  <2>1. (\A q, t \in Requests :
           (Owns(req[q]) /\ Owns(req[t]) /\ req[q].intent = req[t].intent) => q = t)'
    BY <1>6, <1>7 DEF CreateInv, OneOwner, Owns
  <2>2. (\A q \in Requests : Owns(req[q]) => published[req[q].intent] = 0)'
    <3> SUFFICES ASSUME NEW q \in Requests, Owns(req[q])' PROVE published'[req'[q].intent] = 0
      OBVIOUS
    <3>1. q # p /\ req'[q] = req[q] /\ Owns(req[q])
      BY <1>6, <1>7 DEF Owns
    <3>2. req[q].intent # i /\ published[req[q].intent] = 0
      BY <1>1, <3>1 DEF CreateInv, OneOwner
    <3>3. req[q].intent \in Intents
      BY <3>1 DEF CreateInv, TypeOK, Grounded, HasItsRow, IntentRow
    <3> QED
      BY <1>3, <3>1, <3>2, <3>3 DEF CreateInv, TypeOK
  <2>3. (\A j \in Intents : published[j] # 0 => \E s \in rows : s.id = j)'
    BY <1>1, <1>3 DEF CreateInv, TypeOK, OneOwner, HasItsRow
  <2> QED
    BY <2>1, <2>2, <2>3 DEF OneOwner
<1>11. RowsAreUnique' /\ PublishedAtMostOnce'
  BY <1>2, <1>3 DEF CreateInv, TypeOK, RowsAreUnique, PublishedAtMostOnce
<1> QED
  BY <1>8, <1>9, <1>10, <1>11 DEF CreateInv

LEMMA LockExpiresKeeps ==
    ASSUME CreateInv, NEW k \in Keys, LockExpires(k)
    PROVE  CreateInv'
<1>1. rows' = rows /\ req' = req /\ published' = published /\ TypeOK'
  BY DEF LockExpires, CreateInv, TypeOK
<1> QED
  BY <1>1 DEF CreateInv, RowsAreUnique, Grounded, HasItsRow, Owns, OneOwner, PublishedAtMostOnce

LEMMA CrashKeeps ==
    ASSUME CreateInv, Crash
    PROVE  CreateInv'
<1>1. rows' = rows /\ lock' = lock /\ published' = published
  BY DEF Crash
<1>2. \A p \in Requests : \/ req'[p] = req[p]
                          \/ req[p].pc # "idle" /\ req'[p] = [req[p] EXCEPT !.pc = "dead"]
  BY DEF Crash
<1>3. \A p \in Requests : req'[p] \in Request /\ Grounded(req'[p])
  <2> SUFFICES ASSUME NEW p \in Requests, req[p].pc # "idle",
                      req'[p] = [req[p] EXCEPT !.pc = "dead"]
               PROVE  req'[p] \in Request /\ Grounded(req'[p])
    BY <1>2 DEF CreateInv, TypeOK
  <2>1. req[p] \in Request /\ Grounded(req[p])
    BY DEF CreateInv, TypeOK
  <2> QED
    BY <2>1 DEF Request, Steps, Grounded, Owns, HasItsRow
<1>4. \A p \in Requests : Owns(req'[p]) => req'[p] = req[p]
  BY <1>2 DEF Owns, CreateInv, TypeOK, Request
<1>5. TypeOK'
  <2>1. req' \in [Requests -> Request]
    BY <1>3 DEF Crash
  <2> QED
    BY <1>1, <2>1 DEF CreateInv, TypeOK
<1>6. (\A p \in Requests : Grounded(req[p]))'
  BY <1>1, <1>3 DEF Grounded, HasItsRow, Owns
<1>7. OneOwner'
  BY <1>1, <1>4 DEF CreateInv, OneOwner, Owns
<1> QED
  BY <1>1, <1>5, <1>6, <1>7 DEF CreateInv, RowsAreUnique, PublishedAtMostOnce

-----------------------------------------------------------------------------

\* The steps of RequestStep.
LEMMA PrivateSteps ==
    ASSUME CreateInv, NEW p \in Requests,
           \/ \E k \in Keys, ref \in Refs : Start(p, k, ref)
           \/ Lookup(p)
           \/ Acquire(p)
           \/ Recheck(p)
           \/ Prepare(p)
           \/ InsertFails(p)
           \/ Reread(p)
           \/ MarkUnderReview(p)
           \/ Return(p)
    PROVE  RequestStep(p)
<1>1. CASE Lookup(p)
  BY <1>1, QueryIsRequestStep DEF Lookup
<1>2. CASE Recheck(p)
  BY <1>2, QueryIsRequestStep DEF Recheck
<1> QED
  BY <1>1, <1>2, StartIsRequestStep, AcquireIsRequestStep, PrepareIsRequestStep,
     RereadIsRequestStep, MarkIsRequestStep, ReturnIsRequestStep

LEMMA CreateInvStep == CreateInv /\ [Next]_vars => CreateInv'
<1> SUFFICES ASSUME CreateInv, [Next]_vars PROVE CreateInv'
  OBVIOUS
<1>1. ASSUME NEW p \in Requests, RequestStep(p) PROVE CreateInv'
  BY <1>1, RequestStepKeeps
<1>2. CASE UNCHANGED vars
  BY <1>2 DEF vars, CreateInv, TypeOK, RowsAreUnique, Grounded, HasItsRow, Owns, OneOwner,
              PublishedAtMostOnce
<1> QED
  BY <1>1, <1>2, PrivateSteps, InsertKeeps, PublishKeeps, LockExpiresKeeps, CrashKeeps DEF Next

THEOREM CreateInvariant == Spec => []CreateInv
<1> QED
  BY CreateInvInit, CreateInvStep, PTL DEF Spec

\* The variables keep their types.
THEOREM CreateTypeCorrect == Spec => []TypeOK
<1> QED
  BY CreateInvariant, PTL DEF CreateInv

\* ADR-0002: all requests of a key are told one intent, which is stored under it.
THEOREM RepliesAlwaysAgree == Spec => []RepliesAgree
<1>1. CreateInv => RepliesAgree
  BY DEF CreateInv, RowsAreUnique, Grounded, HasItsRow, RepliesAgree
<1> QED
  BY <1>1, CreateInvariant, PTL

\* ADR-0002: a legitimate retry is never answered with a conflict.
THEOREM NoRetryConflicts == Spec => []ConflictIsNeverARetry
<1>1. CreateInv => ConflictIsNeverARetry
  BY DEF CreateInv, Grounded, ConflictIsNeverARetry
<1> QED
  BY <1>1, CreateInvariant, PTL

\* No retry publishes the event of an intent again.
THEOREM NeverPublishedTwice == Spec => []PublishedAtMostOnce
<1> QED
  BY CreateInvariant, PTL DEF CreateInv

\* Only its holder or its expiry frees a lock.
THEOREM LocksAreFreedByTheirHolder == Spec => ReleaseFreesOnlyItsOwn
<1>1. CreateInv /\ [Next]_vars
        => [\A k \in Keys, p \in Requests :
              (lock[k] = p /\ lock'[k] # p)
                => \/ req[p].pc = "return" /\ req[p].holds /\ req'[p].pc = "done"
                   \/ LockExpires(k)]_vars
  <2> SUFFICES ASSUME CreateInv, Next, NEW k \in Keys, NEW p \in Requests,
                      lock[k] = p, lock'[k] # p, ~LockExpires(k)
               PROVE  req[p].pc = "return" /\ req[p].holds /\ req'[p].pc = "done"
    BY DEF vars
  <2>1. p # NoOne
    BY CreateAssumption
  <2>2. \A q \in Requests : Acquire(q) => lock'[k] = p
    BY <2>1 DEF Acquire, CreateInv, TypeOK
  <2>3. \A j \in Keys : LockExpires(j) => lock'[k] = p
    BY DEF LockExpires, CreateInv, TypeOK
  <2>4. PICK q \in Requests : Return(q)
    BY <2>2, <2>3 DEF Next, Start, Lookup, Recheck, Query, Prepare, Insert, InsertFails,
                      Reread, MarkUnderReview, Publish, Crash
  <2>5. q = p
    BY <2>4 DEF Return, Released, CreateInv, TypeOK
  <2> QED
    BY <2>4, <2>5 DEF Return, Goto, CreateInv, TypeOK
<1> QED
  BY <1>1, CreateInvariant, PTL DEF Spec, ReleaseFreesOnlyItsOwn

-----------------------------------------------------------------------------
(* The refinement.  Register is the INSERT, Tell is the answer to a client. *)

Owner == {<<r.key, r.id>> : r \in rows}
Told == {<<req[p].key, req[p].intent>> :
            p \in {q \in Requests : req[q].pc = "done" /\ req[q].reply = "intent"}}

\* Who was told what only changes when a request is done, by what it was told.
LEMMA ToldGrowsBy ==
    ASSUME CreateInv, NEW p \in Requests,
           \A q \in Requests : q # p => req'[q] = req[q],
           req[p].pc # "done",
           req'[p].pc = "done" => req'[p] = [req[p] EXCEPT !.pc = "done"]
    PROVE  IF req'[p].pc = "done" /\ req[p].reply = "intent"
           THEN Told' = Told \cup {<<req[p].key, req[p].intent>>}
           ELSE Told' = Told
<1>1. req[p] \in Request
  BY DEF CreateInv, TypeOK
<1>2. CASE req'[p].pc = "done"
  <2>1. /\ req'[p].key = req[p].key /\ req'[p].intent = req[p].intent
        /\ req'[p].reply = req[p].reply
    BY <1>1, <1>2 DEF Request
  <2> QED
    BY <1>2, <2>1 DEF Told
<1>3. CASE req'[p].pc # "done"
  BY <1>3 DEF Told
<1> QED
  BY <1>2, <1>3

\* Create with its races, lost replies and crashes implements OnceRegister.
THEOREM CreateImplementsOnce == Spec => ImplementsOnce
<1>1. Init => Once!OnceInit
  <2> SUFFICES ASSUME Init PROVE Owner = {} /\ Told = {}
    BY DEF Once!OnceInit, Owner, Told
  <2> QED
    BY DEF Init, Owner, Told
<1>2. CreateInv /\ [Next]_vars => [Once!OnceNext]_(Once!onceVars)
  <2> SUFFICES ASSUME CreateInv, [Next]_vars
               PROVE  Once!OnceNext \/ (Owner' = Owner /\ Told' = Told)
    BY DEF Once!onceVars, Owner, Told
  <2>1. ASSUME NEW p \in Requests, NEW i \in Intents, Insert(p, i)
        PROVE  Once!OnceNext \/ (Owner' = Owner /\ Told' = Told)
    <3> DEFINE row == NewPaymentIntent(p, i)
    <3>1. req[p].pc = "insert" /\ req[p] \in Request /\ req[p].key \in Keys
      BY <2>1 DEF Insert, CreateInv, TypeOK, Grounded
    <3>2. /\ \A q \in Requests : q # p => req'[q] = req[q]
          /\ req'[p].pc # "done"
      BY <2>1, <3>1 DEF Insert, Fail, Goto, CreateInv, TypeOK, Request
    <3>3. Told' = Told
      BY <3>1, <3>2, ToldGrowsBy
    <3>4. CASE rows' = rows
      BY <3>3, <3>4 DEF Owner
    <3>5. CASE ~ViolatesUnique(row) /\ rows' = rows \cup {row}
      <4>1. row.key = req[p].key /\ row.id = i
        BY DEF NewPaymentIntent
      <4>2. PICK k \in Keys : k = req[p].key
        BY <3>1
      <4>3. Owner' = Owner \cup {<<k, i>>}
        BY <3>5, <4>1, <4>2 DEF Owner
      <4>4. \A pair \in Owner : pair[1] # k /\ pair[2] # i
        BY <2>1, <3>5, <4>1, <4>2 DEF Insert, Owner, ViolatesUnique
      <4>5. Once!Register(k, i)
        BY <3>3, <4>3, <4>4 DEF Once!Register, Owner, Told
      <4> QED
        BY <4>5 DEF Once!OnceNext
    <3> QED
      BY <2>1, <3>4, <3>5 DEF Insert
  <2>2. ASSUME NEW p \in Requests, Return(p)
        PROVE  Once!OnceNext \/ (Owner' = Owner /\ Told' = Told)
    <3>1. /\ req[p].pc = "return" /\ req[p] \in Request /\ Grounded(req[p])
          /\ rows' = rows /\ req' = [req EXCEPT ![p].pc = "done"]
      BY <2>2 DEF Return, Goto, CreateInv, TypeOK
    <3>2. /\ \A q \in Requests : q # p => req'[q] = req[q]
          /\ req'[p] = [req[p] EXCEPT !.pc = "done"]
          /\ req'[p].pc = "done"
      BY <3>1 DEF CreateInv, TypeOK, Request
    <3>3. Owner' = Owner
      BY <3>1 DEF Owner
    <3>4. CASE req[p].reply # "intent"
      BY <3>1, <3>2, <3>3, <3>4, ToldGrowsBy
    <3>5. CASE req[p].reply = "intent"
      <4>1. Told' = Told \cup {<<req[p].key, req[p].intent>>}
        BY <3>1, <3>2, <3>5, ToldGrowsBy
      <4>2. PICK pair \in Keys \X Intents :
               pair = <<req[p].key, req[p].intent>> /\ pair \in Owner
        <5>1. PICK s \in rows : s.id = req[p].intent /\ s.key = req[p].key
          BY <3>1, <3>5 DEF Grounded, HasItsRow
        <5>2. s.key \in Keys /\ s.id \in Intents
          BY DEF CreateInv, TypeOK, IntentRow
        <5> QED
          BY <5>1, <5>2 DEF Owner
      <4>3. Once!Tell(pair)
        BY <3>3, <4>1, <4>2 DEF Once!Tell, Owner, Told
      <4> QED
        BY <4>3 DEF Once!OnceNext
    <3> QED
      BY <3>4, <3>5
  <2>3. ASSUME NEW p \in Requests, rows' = rows,
               \A q \in Requests : q # p => req'[q] = req[q],
               req[p].pc # "done", req'[p].pc # "done"
        PROVE  Owner' = Owner /\ Told' = Told
    BY <2>3, ToldGrowsBy DEF Owner
  <2>4. ASSUME NEW p \in Requests,
               \/ \E k \in Keys, ref \in Refs : Start(p, k, ref)
               \/ Lookup(p) \/ Recheck(p) \/ Acquire(p) \/ Prepare(p) \/ InsertFails(p)
               \/ Reread(p) \/ MarkUnderReview(p) \/ Publish(p)
        PROVE  Owner' = Owner /\ Told' = Told
    <3>1. req[p].pc \notin {"return", "done", "dead"} /\ req[p] \in Request /\ rows' = rows
      BY <2>4 DEF Start, Lookup, Recheck, Query, Acquire, Prepare, InsertFails, Reread,
                  MarkUnderReview, Publish, CreateInv, TypeOK
    <3>2. \A q \in Requests : q # p => req'[q] = req[q]
      BY <2>4 DEF Start, Lookup, Recheck, Query, Acquire, Prepare, InsertFails, Reread,
                  MarkUnderReview, Publish, Goto, Fail, ReturnIntent, CreateInv, TypeOK
    <3>3. \E step \in Steps \ {"done"} :
             \/ Goto(p, step)
             \/ \E reply \in Replies : Fail(p, reply)
             \/ \E i \in Intents : ReturnIntent(p, i)
             \/ \E k \in Keys, ref \in Refs : Start(p, k, ref)
             \/ req' = [req EXCEPT ![p].pc = "prepare", ![p].holds = TRUE]
      <4>1. CASE \E k \in Keys, ref \in Refs : Start(p, k, ref)
        BY <4>1 DEF Steps
      <4>2. CASE Lookup(p) \/ Recheck(p) \/ Reread(p)
        <5>1. \A s \in WithKey(req[p].key) : s.id \in Intents
          BY DEF WithKey, CreateInv, TypeOK, IntentRow
        <5> QED
          BY <4>2, <5>1 DEF Lookup, Recheck, Query, Reread, Steps, Replies
      <4>3. CASE Acquire(p)
        BY <4>3 DEF Acquire, Steps
      <4>4. CASE Prepare(p) \/ InsertFails(p) \/ MarkUnderReview(p)
        BY <4>4 DEF Prepare, InsertFails, MarkUnderReview, Steps, Replies
      <4>5. CASE Publish(p)
        <5>1. req[p].intent \in Intents
          BY <4>5 DEF Publish, CreateInv, TypeOK, Grounded, Owns, HasItsRow, IntentRow
        <5> QED
          BY <4>5, <5>1 DEF Publish, Steps
      <4> QED
        BY <2>4, <4>1, <4>2, <4>3, <4>4, <4>5
    <3>4. req'[p].pc # "done"
      <4>1. req \in [Requests -> Request]
        BY DEF CreateInv, TypeOK
      <4>2. ASSUME NEW step \in Steps \ {"done"}, Goto(p, step) PROVE req'[p].pc # "done"
        BY <3>1, <4>1, <4>2 DEF Goto, Request
      <4>3. ASSUME NEW reply \in Replies, Fail(p, reply) PROVE req'[p].pc # "done"
        BY <3>1, <4>1, <4>3 DEF Fail, Request
      <4>4. ASSUME NEW i \in Intents, ReturnIntent(p, i) PROVE req'[p].pc # "done"
        BY <3>1, <4>1, <4>4 DEF ReturnIntent, Request
      <4>5. ASSUME NEW k \in Keys, NEW ref \in Refs, Start(p, k, ref)
            PROVE  req'[p].pc # "done"
        BY <3>1, <4>1, <4>5 DEF Start, Request
      <4>6. CASE req' = [req EXCEPT ![p].pc = "prepare", ![p].holds = TRUE]
        BY <3>1, <4>1, <4>6 DEF Request
      <4> QED
        BY <3>3, <4>2, <4>3, <4>4, <4>5, <4>6
    <3> QED
      BY <2>3, <3>1, <3>2, <3>4
  <2>5. CASE \E k \in Keys : LockExpires(k)
    BY <2>5 DEF LockExpires, Owner, Told
  <2>6. CASE Crash
    <3>1. rows' = rows
      BY <2>6 DEF Crash
    <3>2. \A p \in Requests : (req[p].pc = "done" \/ req'[p].pc = "done") => req'[p] = req[p]
      BY <2>6 DEF Crash, CreateInv, TypeOK, Request
    <3> QED
      BY <3>1, <3>2 DEF Owner, Told
  <2>7. CASE UNCHANGED vars
    BY <2>7 DEF vars, Owner, Told
  <2> QED
    BY <2>1, <2>2, <2>4, <2>5, <2>6, <2>7 DEF Next
<1> QED
  BY <1>1, <1>2, CreateInvariant, PTL DEF Spec, ImplementsOnce, Once!OnceSpec
=============================================================================
