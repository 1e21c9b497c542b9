# MOVA: formal verification of the payment core

TLA+ models of MOVA, their model-checking configurations, and machine-checked
proofs about them. Paths are relative to `src/`.

## 1. The system

MOVA takes payment intents from merchants, has each one judged for risk, and
closes it. Four processes share a PostgreSQL database, Redis and Kafka.

| Part | State it keeps | Operations | Talks to |
|---|---|---|---|
| Payment state machine (`core-api/internal/domain/payment_intent.go`, `migrations/0003`) | the transition map, twice: Go and SQL | `CanTransitionTo`, `ChangeStatus`, `ApplyRiskDecision` | called by the service; the trigger reads the SQL copy |
| `PaymentIntentService` (`core-api/internal/application`) | none; copies of rows in goroutines | `Create`, `ApplyRiskResult`, `UpdateStatus`, `Get`, `List`, `History` | repositories, locker, publisher |
| PostgreSQL repositories and unit of work | `payment_intents`, `payment_intent_status_history`, row locks | one transaction per status change; list; history by intent | triggers and constraints of `migrations/` |
| Redis locker | `idempotency-lock:<key>` with a 5 s TTL | `Acquire`, release | `Create` |
| Kafka publisher and breaker | breaker state, failures, openedAt | `Publish`, `allow`, `onSuccess`, `onFailure` | `risk.evaluation.requested`, HTTP fallback |
| Risk result consumer | committed offset, reconnection attempt | `EnsureTopics`, `Run`, `consumeUntilError` | `risk.evaluation.completed`, `ApplyRiskResult` |
| HTTP fallback client | none | `Evaluate` | risk-service |
| risk-service (Python) | sliding window per merchant, consumer offset | consume, evaluate, publish; HTTP evaluation | both topics |
| reconciliation-worker (Python) | last tick id, offset, token, breaker | read a tick, drop it if stale or repeated, else run a cycle: list open intents, PATCH the expired ones; commit | `reconciliation.tick`, core-api over HTTP |
| reconciliation-scheduler (Python) | none but its wait | publish a tick per interval | `reconciliation.tick` |
| Merchants, authentication, routing, readiness, metrics | `merchants` | stateless handlers | - |

The hard behaviours, and the properties that make each part correct:

- **Read, then overwrite.** Every writer of a status reads the row outside any
  transaction and later overwrites it whole (`payment_intent_service.go:214`,
  `:245`; `payment_intent_repository.go:74`). A Kafka result, an HTTP answer and
  several PATCH calls may be between the two at once. Wanted: closed intents
  stay closed, the history is a legal path that agrees with the row, and no
  intent is resolved without an evaluation.
- **Failure between steps.** Transactions abort, commit with a lost reply, and
  the process dies between INSERT, move to review, publish and apply. Wanted:
  no event for an intent that does not show it was sent; evidence and row agree.
- **Two answers.** Kafka may store a message whose write failed, and the HTTP
  fallback then evaluates it again, perhaps otherwise, perhaps with another score
  or under another model. Wanted: the first decision that closes the intent
  stands, and whatever evaluation the row then carries agrees with it.
- **Idempotent creation** through a lock that is only best effort and a unique
  constraint. Wanted: one intent per key, one publication per intent, no
  legitimate retry told a conflict.
- **A shared breaker** whose mutex does not cover the call it guards. Wanted:
  it opens on a streak only, recovers, and does not stay closed in an outage.
- **At-least-once evaluation.** The risk service commits a request after its
  answer is published, both feed on a window that moves meanwhile, and the HTTP
  fallback evaluates the same events in other threads. An exception nobody
  catches ends the task in a process that goes on. Wanted: nothing committed
  unanswered, repeats that agree, everything answered that can be reached.
- **Polling reconciliation.** The worker acts on a listing that is old by the
  time it is used, through a client that retries, logs in again and breaks the
  circuit, against requests whose effect may come late. Wanted: a true report,
  no early expiry, every due intent closed.
- **Statements of one transaction**, between which other goroutines decide on
  what is still committed and then wait for the row. Wanted: each transaction is
  one serial write or nothing, the history sorted by core-api's clock tells the
  path, nobody waits for ever.
- **A consumer that must outlive its broker**, from a topic that may not exist
  yet. Wanted: every result passed on in order, none twice, and no more lost than
  the one in hand.
- **Deduplication of ticks** by the last identifier alone, with staleness by
  age, offsets committed after the cycle, sends that take time and schedulers
  that overlap. Wanted: one cycle per window, a backlog run down in a few, no tick
  that counts left behind, cycles going on.

## 2. Modules

```
PaymentDomain ── PaymentLifecycle (abstract) ◄──refines── CoreApiRefinement ── MCCoreApi
      │└──────── CoreApi ────────────────────────────────┘        └── CoreApiProofs
      ├───────── SerialWrites (abstract) ◄──refines── CoreApiRefinement, RowTransactions
      └───────── RowTransactions ── MCRowTransactions
                      └── RowTransactionsProofs
OnceRegister (abstract) ◄──refines── IdempotentCreate ── MCIdempotentCreate
                                        └── IdempotentCreateProofs
StreakBreaker (abstract) ◄──refines── KafkaBreaker ── MCKafkaBreaker
                                        └── KafkaBreakerProofs
AtMostOnce (abstract) ◄──refines── ResultConsumer ── MCResultConsumer
                                        └── ResultConsumerProofs
AtLeastOnce (abstract) ◄──refines── RiskService ── MCRiskService
                      RiskRules ───────┘└── RiskServiceProofs
TickStream ── MCTickStream                └─ TickStreamProofs
ReconcileCycle ── MCReconcileCycle        └─ ReconcileCycleProofs
```

The modules meet where the processes do, each taking from its neighbour what
that neighbour's module shows:

- CoreApi takes a transaction as one step; RowTransactions opens it into
  statements and shows it is one. Both implement SerialWrites.
- `RiskAnswers` of CoreApi is what RiskService guarantees as an AtLeastOnce: any
  number of answers to a request that was sent, and to nothing else.
- `ReadMessage` of CoreApi reads on from the committed offset; ResultConsumer
  shows that this is an AtMostOnce, in order, and that it goes on.
- `StartCycle` of ReconcileCycle may happen at any time; TickStream shows when a
  tick starts one, and that some always will.
- `CommitExpired` of ReconcileCycle is what `UpdateStatus` of CoreApi does for a
  request to EXPIRED that it read open.

**PaymentDomain** holds the state machine in both its copies and the database
rules: `allowedTransitions` is the Go map, `payment_status_transitions` the rows
of migration 0003, `enforce_status_transition` the trigger that compares the
locked row with the new one, `ck_intent_no_silent_resolution` the CHECK and
`require_history_row` the deferred trigger.

**PaymentLifecycle** is the promise: an intent is opened, sent to review, and
leaves it for good: resolved by a decision that was really taken, resolved by a
person after a review, or withdrawn.

**CoreApi** is core-api after an intent has its identifier. `rows` and `history`
are the two tables; `calls[p]` is what goroutine `p` (a request handler or the
consumer) is about to do with what it holds in memory; `requested` and
`completed` are the topics, `offset` the committed offset, and `answered` a
ghost variable: the evaluations the risk service made. An evaluation is the
decision with its score, reason codes and model version, which are written
together; `Evaluations` has several with one decision, because a second equal
decision is accepted on a closed intent and replaces them. Its actions:

| Action | Code |
|---|---|
| `Create` | the INSERT transaction of `Create`, `payment_intent_service.go:115-141` |
| `CommitWrite`, `AbortWrite` | `UnitOfWork.Execute` around `Update` and `history.Create`, used by `markUnderReview`, `applyRiskResult` and `UpdateStatus`; the commit's reply may be lost |
| `Publish`, `EvaluateOverHTTP` | the two halves of `RiskRequestPublisher.Publish`: acknowledged, stored but not acknowledged, or not stored; then heard, decided but not heard, or not reached |
| `ReadMessage` | `reader.ReadMessage` of a group reader: the offset is committed first |
| `LoadAndDecide` | `applyRiskResult` up to its transaction |
| `UpdateStatus` | PATCH up to its transaction |
| `RiskAnswers` | the risk service answering a request, any number of times, with any evaluation |
| `Crash` | the process restarts: memory is gone, tables and topics stay |

A transaction is one step here, which RowTransactions justifies. What is *not*
one step is the read before it, which is where the races are.

**CoreApiRefinement** maps CoreApi onto PaymentLifecycle by `rows[i].status` and
the decisions of `answered`. PATCH may ask for any status, APPROVED and REJECTED
included: `payment_intent_handler.go:107` and the domain table accept them, and
what refuses to resolve an intent that was never evaluated is the CHECK on the
row. After a REVIEW a person may close an intent either way, which the abstract
life cycle allows under `ByHand`. It also maps the row and the history of each
intent onto SerialWrites (below): the same promise that the statements of
RowTransactions keep.

**RowTransactions** is the same transactions statement by statement, on one
intent. `row` and `hist` are what is committed, `lock` the writer whose UPDATE
holds the row, `txs[w]` how far a goroutine is: `Decide` (the read and the
decision, with the time it leaves in `UpdatedAt`), `Update` (waits for the row,
then the trigger judges the version it finds), `AddHistory` (reads the clock
inside the transaction), `Commit` (with the deferred trigger), `Rollback`.
Before the COMMIT others see nothing of it. `ListByPaymentIntentID` is the
history as GET sorts it. `Asks` is what a goroutine may decide to write: a
transition of the domain table, or a decision equal to the status it read, open
or closed, which is written again with its history row. **SerialWrites** is what
callers of `Execute` count on: a write is one step, judged against the status it
replaces, with one entry in the history. It is a module of its own and not part
of CoreApi because the statements of three writers multiply every state of what
surrounds them.

**IdempotentCreate** is `Create` up to its publication, as the owner of
idempotency keys; each request carries its program counter, key, reference,
whether it holds the lock, and the reply. The lock expires at any moment (a TTL
or a Redis restart), a SET may take it although its reply is lost, the INSERT
may commit although its reply is lost, and the process may die anywhere. A
retry is another request with the same key. **OnceRegister** is what ADR-0002
promises of a key.

**KafkaBreaker** is `circuitBreaker` with the goroutines that call it. Each
mutex section is an action; the write to Kafka between `allow` and the report is
another, so reports come late. The clock is the time since the breaker opened,
up to `resetTimeout`, which is all the code compares. `streak` is a ghost
variable: failures reported since the last success. **StreakBreaker** is the
breaker ADR-0008 describes, told of one call at a time; the mapping forgets the
goroutines, the count and the clock.

**ResultConsumer** is the reconnecting loop around the reader. `topic` holds the
results (some of them not JSON), `committed` the group's offset, `position` what
the reader has read, `handed` what was passed to `ApplyRiskResult`. A read
commits, then returns; a commit that fails may have taken effect, and then the
message is behind. A reader that joins its group before the topic exists is
`assigned` no partition. How long `Run` waits before it reconnects is left open:
`backoffWithJitter` draws the wait uniformly from zero to a ceiling, and nothing
depends on it but when the wait ends.
**AtMostOnce** is what core-api gets out of its topic: results handed over in
order, none twice, none before its offset is committed, any of them perhaps
never. The identity on `topic`, `committed` and `handed` is the mapping.

**RiskRules** is the decision as a pure function: the first rule that fires
decides alone, and the score adds a base, up to 20 points for the amount, and
the points of that rule. An event keeps what the rules look at.

**RiskService** is the process: `at[a]` is what the consumer task, or an HTTP
thread, is about to do and with what. `count()` and `record()` are atomic and
separate, so evaluations interleave between them (`Count`,
`RecordAndEvaluate`). The window is `age`, the ticks since each intent was last
recorded: pruning drops what counting already ignores, so it is not a step. The
HTTP threads start with `EvaluateNow`; the task goes through `Fetch`, the two
steps above, `Publish` and `Commit`. The last two succeed, or raise after or
before taking effect, and then the task is "dead": the process goes on, serves
HTTP, and `consumer_up` stays true. So it is after a message whose parsing raises
what `_handle` does not name (`Uncaught`: JSON that is not an object, which has
no `get`; an infinite amount, which has no `int`). A `Malformed` message is one
it does name, and is committed. "down" is the process being restarted.
`told` is a ghost variable: what HTTP callers were answered. **AtLeastOnce** is
what core-api counts on when it leaves a request in the topic, the counterpart
of AtMostOnce: requests answered in order, each perhaps several times, and none
passed by the offset without an answer unless nobody can read it. The mapping
keeps the intent of each message and of each answer.

**TickStream** is the clock of the reconciliation. Nothing in its code depends on
the date, only on ages and on the boundaries of windows, so a moment is kept as
its age and `phase` is the present within its window. `clocks` are the waits of
the schedulers, `sending` the age of the tick each has fired and not yet
published, `topic` the ages of the ticks past the committed offset, `last` the
age of the tick `_last_tick_id` comes from, `done` those this process ran a cycle
for. `Fire` stamps a tick; up to `SendDelay` later `Publish` stores it, or
`PublishFails` does not, and only then the wait of a whole interval starts;
meanwhile `StoreUnanswered` may store it without the producer knowing. Two
schedulers may so store ticks in another order than they fired them in.
`Handle` sets `_last_tick_id` before the cycle runs; `FinishCycle` returns or
raises; `Commit` returns, or raises before or after taking effect. What raises
leaves the worker "dead": its task has ended and its process waits for a signal.
A worker of a group that never committed starts at the end of the topic. What is
stale behind the head may be forgotten when the topic is full, since all it does
is to move the offset. Three ghost variables serve the properties: `apart`, the
age of the last moment two schedulers were alive; `since`, the age of the
worker's start when a backlog waited for it and no overlap is that recent; and
`burst`, the cycles it ran since then for ticks fired before it.

**ReconcileCycle** is one worker and the core-api it sees. `cycle` is the cycle
in progress, or the report of the last: the statuses to list, the candidates to
expire, the attempt of the current request and `cutoff`, what was due when the
cycle took `now`. `List`, `Patch` and `Serve` make one attempt each: `Answered`,
`Unauthorized` (the token is dropped and the breaker hears nothing), `Failed`
(the breaker counts it; a PATCH may be in `late`, to take effect at any later
time), or refused by the open breaker. Between `Patch` and `Serve` core-api has
read the intent and not yet written: if it is closed meanwhile the trigger
refuses, and the 500 counts as an outage. `newer` is the order of `created_at`;
`Page` is what core-api lists, newest first, up to its own maximum. The
candidates are a set: `IsNext` is the order in which the code takes them.
core-api moves intents between any two steps. Slots stand for intents: when
nothing refers to a closed intent its slot serves a new one, so the stream of
intents is endless and starvation can show. Nobody but the worker expires
intents here.

## 3. Runs

| Run | Question | Bounds |
|---|---|---|
| `core_lifecycle` | do races, aborts, lost replies and crashes break the life cycle? | 1 intent, 2 handlers, the consumer, 2 results out of 4 evaluations (two of which approve), PATCH to any status but PENDING |
| `row_transactions` | is a transaction one step, and is its history in order? | 3 writers, 7 readings of the clock, histories of up to 3 at a decision |
| `create_idempotent` | is a key bound to one intent, once? | 3 requests, 2 keys, 2 references, 3 identifiers |
| `breaker` | does the breaker count, open, recover and give up as it should? | 3 goroutines, threshold 3 (the code's), reset timeout of 2 ticks |
| `result_consumer` | are results handed on in order, once, and for ever? | 4 results |
| `risk_service` | is every request answered, once committed and in the end, and always alike? | 2 events of one merchant, malformed and uncaught messages, 1 HTTP thread, topic of 2 messages, window of 1 tick, threshold of 0 recent intents |
| `tick_stream` | which ticks run a cycle, and does one always run again? | 2 schedulers, interval of 2 units, sends of up to 1, 3 ticks past the offset that matter |
| `reconcile` | is the report true, and does everything due end closed? | 2 slots, page of 3 cut to 2, 2 attempts per request, breaker threshold 3 |
| `core_evaluation_kept`, `core_result_applied`, `risk_readiness`, `reconcile_backlog` | statements of the repository the code does not keep | the smallest instance that shows it |

Why these bounds are enough. Intents never touch each other's rows, so one
intent has every race there is on a row; two handlers and the consumer give a
Create or its HTTP answer together with a PATCH and a result, or two PATCH calls
with a result; two results and the HTTP answer give a second evaluation that is
contrary, or equal but another. With three requests a key can be contended by a
first request, its retry and a request of another key that claims the same
reference. With three goroutines and a threshold of three, a report can arrive
in a state other than the one it was admitted in, and the streak can be
completed by late reports. In `row_transactions` two writers can wait for the
row while a third holds it, each having decided on an older status, and the
history rows (PENDING, UNDER_REVIEW, a closing one, and that one repeated) let
the order of decisions differ from that of commits, also of two goroutines that
repeat a closing status. In `result_consumer` four results let an older one be
lost, repeated or skipped between others, and two be lost one after the other.
In `tick_stream` an interval of two units lets a tick be fired at the start or
at the end of a window, and a send of one unit lets it be stored in the next;
two schedulers, one replacing the other, give a window two ticks, besides those
stored twice, and store them out of order; and three unprocessed ticks that are
not stale are as many as the three windows a fresh age spans. In `risk_service`
either event in the window exceeds the velocity threshold; one is above the
review amount and carries the core's count, the other carries none, so that it
is judged by the window; a topic of two messages puts a malformed or an uncaught
one before or behind either; one thread is enough to put an evaluation between
the `count()` and the `record()` of the task. In `reconcile` a page holds every
open intent (the premise of `CycleMissesNothing`), and a breaker threshold of 3
with 2 attempts makes the breaker open in a later request than the one it counts
from. The proofs below do not depend on any bound. `CHECK_DEADLOCK FALSE` is set
wherever the system may come to rest: all requests answered, no result left, the
clock's bound reached; the models of the breaker, the risk service, the tick
stream and the worker never rest (time and their environments go on) but share
the setting.

`TypeOK` apart, the properties are these.

- `NoSilentResolution`: a resolved intent carries an evaluation really made for
  it, whatever status PATCH asks for.
- `ResolutionMatchesDecision`: its status is the one that evaluation asks for, or
  the evaluation asked for a review and a person closed it.
- `PublishedOnlyAfterReview`: no event for an intent that is still PENDING.
- `ClosedIsFinal` (action property): a closed intent keeps its status. Its
  evaluation is *not* final: a second equal decision replaces it, and so does the
  older copy of a PATCH that closed it after a review. What replaces it agrees
  with the status, and the history grows by a row each time.
- `LostOnlyToPatch` (action property): only a PATCH decided on an older read
  erases an evaluation, and never that of a resolved intent.
  `core_evaluation_kept` shows that one does; this says that no other stale copy
  of a row can, marking included.
- `ImplementsLifecycle`, `ImplementsOnce`: the refinements of PaymentLifecycle and
  OnceRegister.
- `ConflictIsNeverARetry`, `PublishedAtMostOnce`,
  `ReleaseFreesOnlyItsOwn`: ADR-0002, request by request.
- `ImplementsStreakBreaker`: the refinement of StreakBreaker. The closed breaker
  opens when, and only when, as many failures in a row as its threshold were
  reported, late reports included (`OpensOnAStreakOnly` is the "only").
- `Recovers`, `OutageIsNoticed` (liveness): with payments arriving, a Kafka that
  is up for good gets the traffic back for good, and one that is down for good
  is eventually never waited for by a closed breaker.
- `HistoryTellsThePath`: the history in the order of `created_at`, a time
  core-api puts, starts at PENDING, follows the state machine and ends at the
  row's status. It holds because the clock is read after the row is locked.
- `ImplementsSerialWrites`: the refinement of SerialWrites, by the statements of
  RowTransactions (`row_transactions`) and, intent by intent, by CoreApi
  (`core_lifecycle`): row and history change together or not at all, each write
  judged against the status it replaces although it was decided on a row that may
  have been stale. In CoreApi it implies `HistoryAgrees` (the last history row
  carries the intent's status) and `StatusPathIsLegal` (the history is a path of
  the state machine), which are proved as well.
- `WritesEnd` (liveness): every goroutine that waits for the row gets it or fails.
- `ImplementsAtMostOnce`: the refinement of AtMostOnce, across reconnections,
  failed commits, restarts and crashes. It implies `AppliedInOrderOnce`.
- `LosesOneAtMost` (action property): a connection or a process that is lost
  costs one result at most, the one committed and not yet applied, and nothing
  else costs any.
- `EveryResultIsRead` (liveness): with Kafka and the process up for good, the
  consumer gets past every result.
- `ImplementsAtLeastOnce`: the refinement of AtLeastOnce, wherever the task or
  the process dies. It implies `CommittedIsAnswered`.
- `RepeatsAgree`: an event with the core's count gets the same answer over either
  transport, however often and whatever the window then holds.
- `ScoresSeparateDecisions`: scores of different decisions never overlap.
- `ReachableIsAnswered` (liveness): up to the first message whose parsing raises
  what `_handle` does not name, every message is committed and every request
  answered, malformed ones before it notwithstanding, if a task that ended is
  restarted and failures cease. Behind it nothing is, which is a theorem
  (`UncaughtStopsThePartition`).
- `WindowRunsOnce` (action property): one process runs no window twice, if no two
  schedulers were alive within the age that still counts. Without that premise it
  does not hold: a send of the last window that is stored behind a tick of the
  present one makes both windows run again.
- `BacklogIsCollapsed`: at most three cycles for whatever waited for the worker at
  its start, however long each takes and whatever is fired meanwhile.
- `CommittedWasHandled` (action property): the offset only passes a tick that is
  stale or whose window a cycle has run to its end.
- `CyclesGoOn` (liveness): with Kafka, a scheduler and the worker's task up for
  good, cycles go on, however long they take.
- `ReportIsTrue`: what a cycle counts as expired is expired, what it counts as
  rejected was resolved, after any retry, lost answer or late effect.
- `NeverExpiresEarly`: no intent is expired before its time.
- `CycleMissesNothing`: listing PENDING before UNDER_REVIEW misses none of the
  intents that move from one to the other meanwhile, and what was due when the
  cycle began is, when it ends, closed or reported as failed.
- `DueIsClosed` (liveness): with core-api up for good, what is due ends closed.

**Fairness.** Six specifications assume any. In `breaker`, `Tick` (time passes)
and every step of a goroutine inside `Publish` (the Kafka writer and the HTTP
client have timeouts). Nobody is obliged to call `Publish`: that payments keep
arriving is a premise of the two properties (`Traffic`), because every
transition of the breaker waits for a caller. In `risk_service`, `Start` (Docker
restarts the container) and the steps of the task (the event loop runs it, and
the calls of the Kafka client return or raise). Nothing restarts a task that
ended but someone who restarts the process, again and again, which is the premise
`TaskIsRestarted`; with it, that from some time on publications, commits and the
process do not fail is the premise `FailuresCease`. Neither excludes an uncaught
message, after which the task ends each time. In `reconcile`,
the worker's steps (ticks keep coming, requests time out, Docker restarts it)
and `ResetTimeout` (time passes); a core-api that answers and a worker that is
not killed, from some moment on, are the premise of `DueIsClosed`. In
`row_transactions`, a statement returns, and PostgreSQL serves those who wait
for a row in turn, so that a writer is not overtaken for ever (strong fairness
of `Served`, which is the UPDATE or its refusal). In `result_consumer`, the
goroutine runs and its waits end; `ReadMessage` is strongly fair because a
broker that can be reached again and again does not refuse every read; `Start`
is not fair, a process that stays up is a premise. In `tick_stream`, timers
fire, a send ends, the event loop runs the task and a cycle's thread ends (every
request has a timeout); time passes although the instant steps at one moment may
compete with it (strong fairness of `Pass`, which waits for them). The premises of
`CyclesGoOn` name what must stay up.

### What the failing runs show

- `core_evaluation_kept`: `Update` writes the risk columns from memory. A PATCH
  that read the intent before its REVIEW result arrived expires it and sets
  decision, score, reasons and model version back to NULL.
- `core_result_applied`: the offset is committed when the message is read. If
  the transaction then fails, or the process dies, the result is never applied.
- `risk_readiness`: an exception of parsing that `_handle` does not name, of a
  publication or of a commit ends the consumer task; nobody looks at the task,
  and readiness still answers ready.
- `reconcile_backlog`: the worker reads one page per status, and core-api lists
  the newest first. With more open intents in a status than a page holds, an
  expired one may never be listed, cycle after cycle. The same configuration as
  `reconcile` with core-api's maximum of 1, below the worker's `page_size`: a
  larger `page_size` cannot help, since core-api cuts it. The counterexample is
  a fair lasso.

### Other differences between the code and what is said of it

Met while translating; no run is about them.

- `payment_intent_service.go:239-241` promises 409 to a PATCH for the status an
  intent already has. The check is made on the copy read (`:250`) and the trigger
  lets a status be rewritten with itself: of two concurrent PATCH calls to
  EXPIRED both may commit, each with its history row, and both get 200.
- `breaker.go:40-42` says the breaker lets one probe through. While it is
  half-open, `allow` admits every caller.
- `migrations/0002:92-94` and `docs/esquema-de-datos.md:181` say the database
  puts `created_at` of the history. The INSERT of
  `payment_intent_status_history_repository.go:22-32` passes core-api's time.
- The `previous_status` of a history row is the status of the copy, which may
  differ from the `new_status` of the row before it, and `updated_at` may go
  back, being taken at the decision.
- `kafka_consumer.py:138-139` says an invalid message cannot block the partition,
  and `docs/contratos-entre-servicios.md:112` that a malformed event does not.
  The clause at `:137` names `MalformedEvent`, `JSONDecodeError`, `TypeError` and
  `ValueError`. JSON that is not an object raises `AttributeError` at
  `payload.get`, and an infinite amount `OverflowError` at `int`: the task ends
  with the offset uncommitted, the next process reads the same message and its
  task ends too. Nothing behind it is answered over Kafka
  (`UncaughtStopsThePartition`).
- ADR-0003 calls a second equal decision a no-op that leaves a history row
  (`:49-54`, and its diagram). `ApplyRiskDecision` (`payment_intent.go:161-173`)
  changes no status but overwrites decision, score, reason codes and
  `model_version`, also of an intent that is closed. So the model version on a
  row is that of the last evaluation applied, not always of the one the payment
  was decided with, which is what `docs/contratos-entre-servicios.md:102-103`
  wants it for.
- ADR-0003 says that the domain's transition table guarantees that no intent ends
  APPROVED or REJECTED without an answer of the risk service. The table lets
  PATCH take any intent from UNDER_REVIEW to either; it is
  `ck_intent_no_silent_resolution` of `migrations/0002` that refuses (with a 500).
- The diagram of ADR-0006 (`:63-70`) has four accumulated ticks end in *one*
  cycle. Ticks of up to two intervals of age are not stale, so two or three run:
  `BacklogIsCollapsed` is about three, and three are reached.
- `tick.py:34-41` says two schedulers in a deployment produce the same identifier
  and the worker drops the duplicate. It remembers one identifier: if a send is
  slow, the topic may hold the windows A, B, A, B in turn, and each runs twice.
  ADR-0006 admits that the identifiers "amortiguan pero no resuelven".
- `core_client.py:102-106` says only infrastructure is retried, never the
  domain. A PATCH the trigger refuses is a 500 (`errors.go:45`), and retried.
- `attempt` of `Run` is never reset: after a long life a reconnection may wait up
  to the cap at once.
- `parse_tick` of JSON that is not an object raises what `_handle` does not
  catch, which ends the task like a failing commit.

## 4. Proofs

All are safety results, for every value of the constants that satisfies the
named assumptions of the modules (`CoreAssumption`, `RowAssumption`,
`CreateAssumption`, `BreakerAssumption`, `ResultsAssumption`,
`RulesAssumption`, `ServiceAssumption`, `TickAssumption`, `CycleAssumption`).

**CoreApiProofs.** None of the properties is inductive: what keeps them is what
goroutines hold in memory. `CoreInv` adds `CallsAreGrounded` (a goroutine about
to write names an existing intent and an evaluation that was taken; one about to
apply or publish names an intent that was sent), `ResultsAreGrounded` (the same
of each message in the topic) and `RowsAreGrounded`. It rests on `Monotone`: no
step makes an intent unsent or a taken decision untaken, so a memory copy may be
stale but is never false. From it: `TypeCorrect`, `HistoryAlwaysAgrees`,
`NeverPublishedEarly`, `NeverResolvedSilently` and, by `PathStep`,
`StatusPathAlwaysLegal`: the trigger compares with the locked row, and
`HistoryAgrees` makes that row the end of the path. With `WritesMatch` (a
goroutine about to resolve an intent holds the evaluation that says so, or is a
person's with a review, or with nothing, and is refused) and `OpenAwaitsDecision`
(an intent that is not resolved has no evaluation or a review) `RefinementInv` is
inductive, and gives `ResolutionAlwaysMatches`, `ClosedStaysClosed` and
`CoreApiImplementsLifecycle`. All of them hold for every set of statuses PATCH
may ask for.
`StepIsSerial` shows of each step that it writes an intent once, as SerialWrites
does, or leaves its status and its history alone; `CoreApiWritesSerially` lifts
it to behaviours and `EachIntentIsSerial` to the specification SerialWrites of
any one intent. From serial writes alone follows `HistoryAlwaysShowsOneOutcome`:
a closing status found in the history is the one the intent still has, and an
intent resolved by a decision has a review in its history.
`EvaluationLostOnlyToPatch` needs to know that the goroutine that marks an
intent, and so writes its row without an evaluation, cannot come after one:
`MarkingIsFirst` says that until it has written, the intent was not published,
nothing was decided of it, and only PATCH calls hold it besides. With what each
pending write may carry (`WritesHaveReason`) it is inductive over `CoreInv`
(`MarkingInv`). That a resolved intent keeps some evaluation is the CHECK's work.

**RowTransactionsProofs.** `RowInv` adds to the type invariant (which ties the
lock to the program counters) that committed history rows have increasing times
below the clock (`Times`), that the history is a path to the row's status
(`Evidence`), and that a writer that holds the row has a transition the row
accepts, to itself perhaps, and a time later than all committed (`Holds`):
nobody else can move the row meanwhile. With increasing times,
`ListByPaymentIntentID` is the history itself, which needs the cardinality of
the rows before a row (`HistoryAlwaysTellsThePath`). `TransactionsAreSerial`
maps COMMIT to a write and everything else to a stutter.

**IdempotentCreateProofs.** `CreateInv` says who owns an intent between INSERT
and publication: each stored, unpublished intent has at most one request that
can still publish it, and each reply is backed by a row. Every request-local
action is shown once to be a "request step" that preserves it
(`RequestStepKeeps`); `Insert`, `Publish`, `LockExpires` and `Crash` have lemmas
of their own. From it the five properties and `CreateImplementsOnce`.

**KafkaBreakerProofs.** `BreakerInv` relates `failures` and `streak`, also while
the breaker is open and half-open, which is what makes `CountIsTheStreak` and
`OpensOnAStreakOnly` hold across late reports. By the first, every report is one
of StreakBreaker, whatever call it is about (`BreakerImplementsStreaks`).

**ResultConsumerProofs.** `ConsumerInv` adds that a working reader has read
exactly what is committed (`ReaderIsCommitted`) and that nothing handed over
lies beyond the offset, nor at or behind a message in hand
(`HandedIsCommitted`): the next position is then greater than all before
(`AlwaysAppliedInOrderOnce`), and each step is one of AtMostOnce or none
(`DeliversAtMostOnce`). `NoReaderWithoutPartition` is the safety half of
`EveryResultIsRead`: a process that runs has created the topic, so its readers
were given the partition. `AlwaysLosesOneAtMost` follows step by step: a read
loses nothing while the result is in hand, and what a failed read or a stop may
add is the one position between what was handed over and the offset
(`OneMoreLosesOne`).

**TickStreamProofs.** `InOrder(x, y)` says that a tick fired after the last
overlap of two schedulers is followed by none fired before it. `TickInv` adds
that this orders what was run, what is stored and what is being sent (`Ordered`);
that only a scheduler whose time has come sends, and two of them make an overlap
(`Senders`); what became of the tick in hand (`InHand`, from which
`CommittedAlwaysHandled`); and that the cycles counted had increasing windows, of
which those fresh at the start span three (`Counts`, from which
`BacklogAlwaysCollapsed`). Storing a tick keeps the order because another one
still being sent is sent in an overlap (`StoredInOrder`). Away from overlaps
equal windows are then adjacent, and one remembered identifier is enough
(`WindowAlwaysRunsOnce`). When time passes all windows shift alike
(`WindowsShift`), but that of the age where ages stop growing.

**ReconcileCycleProofs.** `CycleInv` adds that whatever may still be expired (a
candidate, a late PATCH) was due when the cycle began, and that what is due is
an intent (`OnlyDue`); that a request being served was let through by the
breaker; and the order of the listings. The actions keep it because the slot of
an intent a cycle, a late PATCH or a report refers to is not given to another.
`CompleteInv` adds that between the two listings every PENDING intent of the
cutoff is a candidate (`PendingIsCovered`): the only move between open statuses
goes the way the listings go. From the second listing on, what was due and is
open is a candidate or reported as failed, until the cycle ends with no
candidate left. `CycleNeverMisses` has a premise of its own,
no more slots than core-api lists, which `PageHoldsAll` turns into pages that
miss nobody and without which `reconcile_backlog` shows what is lost.

**RiskServiceProofs.** `EvaluateAnswers` shows of the rules, for any amount and
any thresholds, that an answer names its event and its score lies in the range
of its decision (`AmountPoints` bounds the gradual part). `TypeInv` adds to
`TypeOK` that the task holds a message (being counted, recorded, published or
committed) only while the offset is short of the topic's end, which is what
keeps the offset in range. `Delivery` adds to `CommittedIsAnswered` what the
task has in hand: the message being evaluated or published is the next one, and
one about to be committed is already answered, so none is that was not caught
(`UncaughtStopsThePartition`). `AllRight` says of every answer, published, told
or in hand, that its score is in the range of its decision and that, if its
event carries the core's count, the rules give no other. From these:
`RiskTypeCorrect`, `CommittedAlwaysAnswered`, `RepeatsAlwaysAgree`,
`ScoresAlwaysSeparate`. `StepIsAtLeastOnce` maps a publication to an answer to
the message at the offset, a commit to a commit and the rest to a stutter
(`AnswersAtLeastOnce`); a message appended is a key appended (`KeysAppended`).
`WorseIsNeverBetter` compares two evaluations: the rule that decides for the
better payment is no stricter (the order of `RULES` matters), the points of the
amount grow with it because dividing by one threshold keeps the order
(`QuotientGrows`), and the ceilings keep what grows in its range.

Only model-checked: `Recovers`, `OutageIsNoticed`, `ReachableIsAnswered`,
`WritesEnd`, `EveryResultIsRead`, `CyclesGoOn` and `DueIsClosed`, because
liveness under fairness is beyond the prover. Every other property of a passing
run is a theorem.

## 5. Not modelled

- Merchants, routing, readiness and metrics of core-api: single statements or
  stateless plumbing. Of authentication and the queries only what the worker
  depends on is modelled (ReconcileCycle), and the history by intent.
- Field values: amounts, references, reason codes and texts (an evaluation keeps
  its identity and its decision). Field validation is
  one failing outcome of `Prepare`.
- The append-only trigger and the grants: no code path mutates history.
- More than one replica of core-api: the deployment runs one. Its clock is taken
  to be monotonic.
- The count of recent intents core-api sends: two requests of one merchant may
  both count before either inserts. The code promises only that an intent does
  not count itself, so there is nothing to violate; RiskService takes any count.
- Malformed ticks, and a worker whose cycles outlast `max_poll_interval_ms` other
  than as a commit that raises. A send is taken to last an interval at most (the
  producer gives up after 40 s; the interval is 300 s by default).
- How long the result consumer waits before it reconnects: between zero and a
  ceiling that doubles up to 30 s, by `rand.Int63n`. A wait ends; no other state
  depends on its length.
- In the cycle: the demonstration override of the expiry, the 404 and 405 of a
  core-api without the endpoint, codes core-api does not answer, clients other
  than the worker that expire intents, and `run_once.py`, which runs one cycle
  by hand. `expires_at` is served cut to seconds: `due` is by the served value.
- The connection attempts of the risk service and the worker at start-up: one
  step that succeeds in the end, since a process that gives up is started again.
- Rebalances: one consumer per group, as deployed.
- The whole system in one module: intents, two topics, a worker with its client
  and a core-api with its goroutines multiply past what TLC can search on an
  instance where anything happens. The modules meet at the interfaces named in
  section 2 instead, and no end-to-end liveness theorem is claimed.

## 6. What could follow

1. An abstract specification of the reconciliation (open intents that are due
   get closed) that TickStream and ReconcileCycle together implement.
2. The answers to GET while transactions run, on RowTransactions.
3. A second replica of core-api and of the result consumer, with rebalances.
