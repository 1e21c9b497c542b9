-------------------------- MODULE IdempotentCreate --------------------------
(***************************************************************************)
(* PaymentIntentService.Create as the owner of idempotency keys: requests  *)
(* with the same key race through a lookup, a Redis lock that is only best *)
(* effort (it expires, it may be unreachable, its reply may be lost) and a *)
(* unique constraint that is the guarantee.  What happens to the intent    *)
(* after the INSERT is CoreApi's subject; here only who goes on to         *)
(* publish it matters.                                                     *)
(*                                                                         *)
(* A request is one goroutine: it handles one call and ends, a retry of    *)
(* the client is another request with the same key.                        *)
(***************************************************************************)
EXTENDS Naturals, FiniteSets

CONSTANTS
    Requests,   \* HTTP requests, and the random token each draws for its lock
    Keys,       \* idempotency keys
    Refs,       \* (merchant, external_reference) pairs
    Intents,    \* identifiers NewPaymentIntent draws
    NoOne, NoIntent, NoKey, NoRef

ASSUME CreateAssumption ==
    /\ NoOne \notin Requests
    /\ NoIntent \notin Intents
    /\ NoKey \notin Keys
    /\ NoRef \notin Refs

VARIABLES
    rows,       \* payments.payment_intents: id and its two unique keys
    lock,       \* the token under idempotency-lock:<key>, or NoOne
    req,        \* per request: where it is and what it has in memory
    published   \* how often Publish was called per intent

vars == <<rows, lock, req, published>>

IntentRow == [id : Intents, key : Keys, ref : Refs]

\* "intent": 2xx with an intent; "conflict": ErrConflict; "error": any other.
Replies == {"none", "intent", "conflict", "error"}

Steps == {"idle", "lookup", "acquire", "recheck", "prepare", "insert", "reread",
          "mark", "publish", "return", "done", "dead"}

Request == [pc : Steps, key : Keys \cup {NoKey}, ref : Refs \cup {NoRef},
            holds : BOOLEAN, intent : Intents \cup {NoIntent}, reply : Replies]

Init ==
    /\ rows = {}
    /\ lock = [k \in Keys |-> NoOne]
    /\ req = [p \in Requests |-> [pc |-> "idle", key |-> NoKey, ref |-> NoRef,
                                  holds |-> FALSE, intent |-> NoIntent, reply |-> "none"]]
    /\ published = [i \in Intents |-> 0]

Goto(p, pc) == req' = [req EXCEPT ![p].pc = pc]

\* The handler's return value; the deferred release still has to run.
ReturnIntent(p, i) ==
    req' = [req EXCEPT ![p].pc = "return", ![p].reply = "intent", ![p].intent = i]
Fail(p, reply) == req' = [req EXCEPT ![p].pc = "return", ![p].reply = reply]

\* The rows GetByIdempotencyKey may return.
WithKey(k) == {r \in rows : r.key = k}

-----------------------------------------------------------------------------

Start(p, k, ref) ==
    /\ req[p].pc = "idle"
    /\ req' = [req EXCEPT ![p].pc = "lookup", ![p].key = k, ![p].ref = ref]
    /\ UNCHANGED <<rows, lock, published>>

\* GetByIdempotencyKey before the lock, and again by whoever did not get it:
\* an intent found is the answer, a failed query is an error.
Query(p, at, otherwise) ==
    /\ req[p].pc = at
    /\ \/ \E r \in WithKey(req[p].key) : ReturnIntent(p, r.id)
       \/ WithKey(req[p].key) = {} /\ Goto(p, otherwise)
       \/ Fail(p, "error")
    /\ UNCHANGED <<rows, lock, published>>

Lookup(p) == Query(p, "lookup", "acquire")
Recheck(p) == Query(p, "recheck", "prepare")

\* IdempotencyLocker.Acquire.  SET NX takes a free lock, even when its reply
\* is lost; without a reply, or with the lock busy, the request goes on after
\* a short sleep without a lock to release.
Acquire(p) ==
    LET k == req[p].key
    IN  /\ req[p].pc = "acquire"
        /\ \/ /\ lock[k] = NoOne
              /\ lock' = [lock EXCEPT ![k] = p]
              /\ \/ req' = [req EXCEPT ![p].pc = "prepare", ![p].holds = TRUE]
                 \/ Goto(p, "recheck")
           \/ Goto(p, "recheck") /\ UNCHANGED lock
        /\ UNCHANGED <<rows, published>>

\* NewPaymentIntent, merchants.GetByID and CountRecentByMerchant only read:
\* each may end the request with an error.
Prepare(p) ==
    /\ req[p].pc = "prepare"
    /\ Goto(p, "insert") \/ Fail(p, "error")
    /\ UNCHANGED <<rows, lock, published>>

\* Mutant of NewPaymentIntent: the reference is not bound.
NewPaymentIntentWithoutRef(p, i) == [id |-> i, key |-> req[p].key, ref |-> NoRef]

NewPaymentIntent(p, i) == [id |-> i, key |-> req[p].key, ref |-> req[p].ref]

\* uq_intent_idempotency and uq_intent_external_ref.
ViolatesUnique(r) == \E s \in rows : s.key = r.key \/ s.ref = r.ref

\* The transaction that inserts the row, under a fresh identifier.
Insert(p, i) ==
    LET row == NewPaymentIntent(p, i)
    IN  /\ req[p].pc = "insert"
        /\ \A r \in rows : r.id # i
        /\ \/ /\ ~ViolatesUnique(row)
              /\ rows' = rows \cup {row}
              /\ \/ req' = [req EXCEPT ![p].pc = "mark", ![p].intent = i]
                 \/ Fail(p, "error")                \* the COMMIT's reply is lost
           \/ /\ ViolatesUnique(row)
              /\ Goto(p, "reread")
              /\ UNCHANGED rows
        /\ UNCHANGED <<lock, published>>

\* The transaction fails for a reason that is not a unique constraint.
InsertFails(p) ==
    /\ req[p].pc = "insert"
    /\ Fail(p, "error")
    /\ UNCHANGED <<rows, lock, published>>

\* Mutants of Reread: the conflict is passed on; the request goes on with the
\* intent found; the answer is the intent that was not stored.
RereadNothing(p) ==
    /\ req[p].pc = "reread"
    /\ Fail(p, "conflict")
    /\ UNCHANGED <<rows, lock, published>>

RereadAndGoOn(p) ==
    /\ req[p].pc = "reread"
    /\ \E r \in WithKey(req[p].key) :
          req' = [req EXCEPT ![p].pc = "mark", ![p].intent = r.id]
    /\ UNCHANGED <<rows, lock, published>>

RereadOwn(p) ==
    /\ req[p].pc = "reread"
    /\ \E i \in Intents : (\A r \in rows : r.id # i) /\ ReturnIntent(p, i)
    /\ UNCHANGED <<rows, lock, published>>

\* ErrConflict: the intent of the key, if there is one, is the answer.
Reread(p) ==
    /\ req[p].pc = "reread"
    /\ \/ \E r \in WithKey(req[p].key) : ReturnIntent(p, r.id)
       \/ WithKey(req[p].key) = {} /\ Fail(p, "conflict")
       \/ Fail(p, "error")
    /\ UNCHANGED <<rows, lock, published>>

MarkUnderReview(p) ==
    /\ req[p].pc = "mark"
    /\ Goto(p, "publish") \/ Fail(p, "error")
    /\ UNCHANGED <<rows, lock, published>>

\* Best effort: whatever comes of it, the request answers with its intent.
Publish(p) ==
    /\ req[p].pc = "publish"
    /\ published' = [published EXCEPT ![req[p].intent] = @ + 1]
    /\ ReturnIntent(p, req[p].intent)
    /\ UNCHANGED <<rows, lock>>

\* Mutant of Released: a plain DEL.
ReleasedWhoever(p) == [lock EXCEPT ![req[p].key] = NoOne]

\* releaseScript: delete the lock only if it still carries this token.
Released(p) ==
    IF lock[req[p].key] = p THEN [lock EXCEPT ![req[p].key] = NoOne] ELSE lock

\* The deferred release and the answer.  Redis may not be reached (its error is
\* ignored); a request that did not get the lock has nothing to release.
Return(p) ==
    /\ req[p].pc = "return"
    /\ \/ req[p].holds /\ lock' = Released(p)
       \/ UNCHANGED lock
    /\ Goto(p, "done")
    /\ UNCHANGED <<rows, published>>

\* Redis drops the lock: its TTL passed, or Redis restarted.
LockExpires(k) ==
    /\ lock[k] # NoOne
    /\ lock' = [lock EXCEPT ![k] = NoOne]
    /\ UNCHANGED <<rows, req, published>>

\* core-api dies: its goroutines are gone, their locks stay.
Crash ==
    /\ req' = [p \in Requests |->
                 IF req[p].pc \in {"idle", "done", "dead"} THEN req[p]
                 ELSE [req[p] EXCEPT !.pc = "dead"]]
    /\ req' # req
    /\ UNCHANGED <<rows, lock, published>>

Next ==
    \/ \E p \in Requests, k \in Keys, ref \in Refs : Start(p, k, ref)
    \/ \E p \in Requests : Lookup(p)
    \/ \E p \in Requests : Acquire(p)
    \/ \E p \in Requests : Recheck(p)
    \/ \E p \in Requests : Prepare(p)
    \/ \E p \in Requests, i \in Intents : Insert(p, i)
    \/ \E p \in Requests : InsertFails(p)
    \/ \E p \in Requests : Reread(p)
    \/ \E p \in Requests : MarkUnderReview(p)
    \/ \E p \in Requests : Publish(p)
    \/ \E p \in Requests : Return(p)
    \/ \E k \in Keys : LockExpires(k)
    \/ Crash

Spec == Init /\ [][Next]_vars

-----------------------------------------------------------------------------
(* Properties. *)

TypeOK ==
    /\ rows \subseteq IntentRow
    /\ lock \in [Keys -> Requests \cup {NoOne}]
    /\ req \in [Requests -> Request]
    /\ published \in [Intents -> Nat]

\* ADR-0002: requests with one key are all told the same intent, stored under
\* that key, whatever lock expired, reply was lost or process died between them.
RepliesAgree ==
    \A p \in Requests :
        (req[p].pc \in {"return", "done"} /\ req[p].reply = "intent")
            => /\ \E r \in rows : r.id = req[p].intent /\ r.key = req[p].key
               /\ \A r \in rows : r.key = req[p].key => r.id = req[p].intent

\* ADR-0002: a conflict never reaches a client as an error when it is a
\* legitimate retry.  So ErrConflict is only told to a request whose reference
\* another key had taken before.
ConflictIsNeverARetry ==
    \A p \in Requests :
        req[p].reply = "conflict"
            => \E r \in rows : r.ref = req[p].ref /\ r.key # req[p].key

\* The comment of Create: a retry never publishes the event again.
PublishedAtMostOnce == \A i \in Intents : published[i] <= 1

\* The comment of releaseScript: a late release never frees the lock another
\* request has taken meanwhile; only its holder or its expiry frees a lock.
ReleaseFreesOnlyItsOwn ==
    [][\A k \in Keys, p \in Requests :
          (lock[k] = p /\ lock'[k] # p)
              => \/ req[p].pc = "return" /\ req[p].holds /\ req'[p].pc = "done"
                 \/ LockExpires(k)]_vars

\* Seen from outside, Create is the register of OnceRegister.
Once == INSTANCE OnceRegister
          WITH owner <- {<<r.key, r.id>> : r \in rows},
               told <- {<<req[p].key, req[p].intent>> :
                          p \in {q \in Requests : req[q].pc = "done" /\ req[q].reply = "intent"}}

ImplementsOnce == Once!OnceSpec
=============================================================================
