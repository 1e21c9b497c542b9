----------------------------- MODULE TickStream -----------------------------
(***************************************************************************)
(* The clock of the reconciliation: reconciliation-scheduler publishes a   *)
(* tick per interval, reconciliation-worker runs a cycle per tick unless   *)
(* it is old or repeats the last one.  ReconcileCycle is what a cycle does.*)
(*                                                                         *)
(* Nothing in the code depends on the date, only on how long ago things    *)
(* were and on the boundaries between windows, so a moment is kept as its  *)
(* age, up to OldAge, and phase is the present within its window.  Polls   *)
(* and commits take no time to speak of in units of the interval; a send   *)
(* may take SendDelay, so a tick is stored after it was fired; cycles take *)
(* any time.                                                               *)
(***************************************************************************)
EXTENDS Integers, Sequences

CONSTANTS
    Schedulers,     \* processes; two only while one replaces the other
    Interval,       \* interval_seconds, in units of time
    SendDelay,      \* bound on send_and_wait, retries and timeout included
    MaxBacklog      \* bound on the ticks that matter past the committed offset

ASSUME TickAssumption ==
    /\ Interval \in Nat \ {0} /\ MaxBacklog \in Nat \ {0}
    /\ SendDelay \in 0..Interval

VARIABLES
    phase,      \* the present, from the start of its window
    clocks,     \* time until each scheduler publishes again, or Off
    sending,    \* age of the tick each scheduler is publishing, or None
    topic,      \* ages of the ticks past the worker's committed offset
    committed,  \* whether the group has ever committed an offset
    worker,     \* what TickConsumer.run is about to do
    last,       \* age of the tick _last_tick_id comes from, or None
    done,       \* ages of the ticks this process ran a cycle for
    apart,      \* ghost: age of the last moment with two schedulers alive
    since,      \* ghost: age of the worker's start, OldAge when not counting
    burst       \* ghost: cycles it ran for ticks no younger than its start

vars == <<phase, clocks, sending, topic, committed, worker, last, done,
          apart, since, burst>>

Off == -1
None == -1

STALE_MULTIPLIER == 2

\* From this age on a tick is stale and no longer shares a window with one that
\* is not.
OldAge == 3 * Interval
Ages == 0..OldAge

\* Mutants of tick_id_for: the moment of the firing, and its place in the window.
tick_id_of_moment(age) == phase - age
tick_id_of_place(age) == (phase - age) % Interval

\* The window a tick was fired in, counted from the present one.
tick_id_for(age) == (phase - age) \div Interval

\* Mutant of is_stale: nothing is.
nothing_is_stale(age) == age < 0

is_stale(age) == age > Interval * STALE_MULTIPLIER

Init ==
    /\ phase \in 0..(Interval - 1)
    /\ clocks = [s \in Schedulers |-> Off]
    /\ sending = [s \in Schedulers |-> None]
    /\ topic = <<>>
    /\ committed = FALSE
    /\ worker = "down"
    /\ last = None
    /\ done = {}
    /\ apart = OldAge
    /\ since = OldAge
    /\ burst = 0

-----------------------------------------------------------------------------
(* Scheduler. *)

Alive(s) == clocks[s] # Off

\* It takes a while to start, and publishes as soon as it is connected.
StartScheduler(s) ==
    /\ ~Alive(s)
    /\ clocks' = [clocks EXCEPT ![s] = 1]
    /\ IF \E t \in Schedulers : Alive(t)
       THEN apart' = 0 /\ since' = OldAge /\ burst' = 0
       ELSE UNCHANGED <<apart, since, burst>>
    /\ UNCHANGED <<phase, sending, topic, committed, worker, last, done>>

\* SIGTERM while it waits, or the process dies, with a send under way or not.
StopScheduler(s) ==
    /\ Alive(s)
    /\ clocks' = [clocks EXCEPT ![s] = Off]
    /\ sending' = [sending EXCEPT ![s] = None]
    /\ UNCHANGED <<phase, topic, committed, worker, last, done, apart, since, burst>>

\* A stale tick behind the head only moves the offset when its turn comes, so a
\* full topic may forget one.
Forgettable == {k \in 2..Len(topic) : is_stale(topic[k])}

Room == Len(topic) < MaxBacklog \/ Forgettable # {}

Stored(tick) ==
    IF Len(topic) < MaxBacklog THEN Append(topic, tick)
    ELSE LET k == CHOOSE k \in Forgettable : TRUE
         IN  [j \in 1..Len(topic) |-> IF j < k THEN topic[j]
                                      ELSE IF j < Len(topic) THEN topic[j + 1] ELSE tick]

\* build_tick stamps the tick, and publish awaits the broker.
Fire(s) ==
    /\ clocks[s] = 0 /\ sending[s] = None
    /\ sending' = [sending EXCEPT ![s] = 0]
    /\ UNCHANGED <<phase, clocks, topic, committed, worker, last, done,
                   apart, since, burst>>

\* The broker stores the tick and its answer is lost: the producer writes it
\* again, and may end up giving up on what is stored.
StoreUnanswered(s) ==
    /\ sending[s] # None
    /\ Len(topic) < MaxBacklog - 1
    /\ topic' = Append(topic, sending[s])
    /\ UNCHANGED <<phase, clocks, sending, committed, worker, last, done,
                   apart, since, burst>>

\* publish returns and the wait starts.
Returns(s) ==
    /\ sending[s] # None
    /\ sending' = [sending EXCEPT ![s] = None]
    /\ clocks' = [clocks EXCEPT ![s] = Interval]
    /\ UNCHANGED <<phase, committed, worker, last, done, apart, since, burst>>

Publish(s) == Returns(s) /\ Room /\ topic' = Stored(sending[s])

\* It returns False; the tick is not repeated.
PublishFails(s) == Returns(s) /\ UNCHANGED topic

-----------------------------------------------------------------------------
(* Worker. *)

\* connect_with_retry succeeds.  A group that never committed starts at the end
\* of the topic (auto_offset_reset="latest").
Start ==
    /\ worker = "down"
    /\ worker' = "polling"
    /\ topic' = IF committed THEN topic ELSE <<>>
    /\ since' = IF apart = OldAge /\ topic' # <<>> THEN 0 ELSE OldAge
    /\ UNCHANGED <<phase, clocks, sending, committed, last, done, apart, burst>>

\* What the process remembers is of no use once it is gone, or its task is.
Forget == last' = None /\ done' = {} /\ since' = OldAge /\ burst' = 0

Stop ==
    /\ worker # "down"
    /\ worker' = "down"
    /\ Forget
    /\ UNCHANGED <<phase, clocks, sending, topic, committed, apart>>

\* The ticks _handle returns from without a cycle.
Discarded(tick) ==
    is_stale(tick) \/ (last # None /\ tick_id_for(tick) = tick_id_for(last))

\* The cycle of a tick that waited for the worker, or of a later one.
Counted(tick) == IF tick >= since THEN burst + 1 ELSE burst

\* Mutant of Handle: offsets are committed when a message is fetched.
HandleAutoCommitting ==
    /\ worker = "polling" /\ topic # <<>>
    /\ IF Discarded(Head(topic))
       THEN worker' = "committing" /\ UNCHANGED <<last, burst>>
       ELSE worker' = "running" /\ last' = Head(topic) /\ burst' = Counted(Head(topic))
    /\ topic' = Tail(topic)
    /\ UNCHANGED <<phase, clocks, sending, committed, done, apart, since>>

\* _handle up to the cycle: _last_tick_id is set before it runs.
Handle ==
    /\ worker = "polling" /\ topic # <<>>
    /\ IF Discarded(Head(topic))
       THEN worker' = "committing" /\ UNCHANGED <<last, burst>>
       ELSE worker' = "running" /\ last' = Head(topic) /\ burst' = Counted(Head(topic))
    /\ UNCHANGED <<phase, clocks, sending, topic, committed, done, apart, since>>

\* Mutant of FinishCycle: whatever the cycle raises is swallowed.
FinishCycleAnyhow ==
    /\ worker = "running"
    /\ worker' = "committing"
    /\ done' \in {done, done \cup {Head(topic)}}
    /\ UNCHANGED <<phase, clocks, sending, topic, committed, last, apart, since, burst>>

\* The thread returns its report, or raises what the use case does not catch:
\* then run() ends, and nobody awaits its task.
FinishCycle ==
    /\ worker = "running"
    /\ \/ /\ worker' = "committing" /\ done' = done \cup {Head(topic)}
          /\ UNCHANGED <<last, since, burst>>
       \/ worker' = "dead" /\ Forget
    /\ UNCHANGED <<phase, clocks, sending, topic, committed, apart>>

\* commit() takes effect and returns; or it raises, after or before the effect
\* (an answer lost, or the group gave the partition away because the cycle took
\* longer than max_poll_interval_ms), and run() ends.
Commit ==
    /\ worker = "committing"
    /\ \/ topic' = Tail(topic) /\ committed' = TRUE
       \/ worker' = "dead" /\ UNCHANGED <<topic, committed>>
    /\ \/ worker' = "polling" /\ UNCHANGED <<last, done, since, burst>>
       \/ worker' = "dead" /\ Forget
    /\ UNCHANGED <<phase, clocks, sending, apart>>

-----------------------------------------------------------------------------

Older(age) == IF age < OldAge THEN age + 1 ELSE age

\* Time passes when nobody has something to do that takes none.
Pass ==
    /\ \A s \in Schedulers : clocks[s] = 0 => sending[s] \in 0..(SendDelay - 1)
    /\ worker # "committing" /\ (worker = "polling" => topic = <<>>)
    /\ phase' = (phase + 1) % Interval
    /\ clocks' = [s \in Schedulers |-> IF clocks[s] > 0 THEN clocks[s] - 1 ELSE clocks[s]]
    /\ sending' = [s \in Schedulers |-> IF sending[s] = None THEN None ELSE sending[s] + 1]
    /\ topic' = [k \in DOMAIN topic |-> Older(topic[k])]
    /\ last' = IF last = None THEN None ELSE Older(last)
    /\ done' = {a \in Ages : a - 1 \in done /\ a < OldAge}
    /\ apart' = IF \E s, t \in Schedulers : s # t /\ Alive(s) /\ Alive(t) THEN 0 ELSE Older(apart)
    /\ since' = Older(since)
    /\ burst' = IF since' = OldAge THEN 0 ELSE burst
    /\ UNCHANGED <<committed, worker>>

Next ==
    \/ \E s \in Schedulers :
          \/ StartScheduler(s) \/ StopScheduler(s)
          \/ Fire(s) \/ StoreUnanswered(s) \/ Publish(s) \/ PublishFails(s)
    \/ Start \/ Stop
    \/ Handle \/ FinishCycle \/ Commit
    \/ Pass

Spec == Init /\ [][Next]_vars

\* Time passes, timers fire, the event loop runs the task and the thread of a
\* cycle ends.
FairSpec ==
    /\ Spec
    /\ SF_vars(Pass)
    /\ \A s \in Schedulers : WF_vars(Fire(s)) /\ WF_vars(Publish(s))
    /\ WF_vars(Handle) /\ WF_vars(FinishCycle) /\ WF_vars(Commit)

-----------------------------------------------------------------------------
(* Properties. *)

\* Types; what the worker has in hand is at the head of the topic.
TypeOK ==
    /\ phase \in 0..(Interval - 1)
    /\ clocks \in [Schedulers -> Off..Interval]
    /\ sending \in [Schedulers -> 0..SendDelay \cup {None}]
    /\ topic \in Seq(Ages)
    /\ committed \in BOOLEAN
    /\ worker \in {"down", "polling", "running", "committing", "dead"}
    /\ last \in Ages \cup {None}
    /\ done \subseteq Ages
    /\ apart \in Ages /\ since \in Ages /\ burst \in Nat
    /\ worker \in {"running", "committing"} => topic # <<>>

\* The interval of time a tick of that age was fired in.
WindowOf(age) == (phase - age) \div Interval

\* A process of the worker runs no window twice, with a scheduler restarted, one
\* replaced by another some time before, or writes stored twice, although it
\* remembers one identifier only (consumer.py, _last_tick_id).  Not so while two
\* schedulers overlap, nor shortly after: a tick whose send took longer may be
\* stored behind one of the next window, and both windows then run again; the
\* identifiers "amortiguan pero no resuelven" (ADR-0006).
WindowRunsOnce ==
    [][(worker = "polling" /\ worker' = "running" /\ apart = OldAge) =>
            \A a \in done : WindowOf(a) # WindowOf(Head(topic))]_vars

\* A worker that starts behind a backlog runs three cycles at most for what was
\* fired until then, however much waited and however long its cycles take
\* (ticks.py, is_stale).  ADR-0006 draws a single cycle: the limit of two
\* intervals lets three windows pass.
BacklogIsCollapsed == burst <= 3

\* A tick that still counts is only left behind when a cycle has run to its end
\* for its window, wherever a cycle, a commit or the process fails.
CommittedWasHandled ==
    [][(worker = "committing" /\ topic' # topic) =>
            LET tick == Head(topic) IN
            \/ is_stale(tick)
            \/ \E a \in done : WindowOf(a) = WindowOf(tick)]_vars

\* With Kafka, one scheduler and the worker's task up for good, cycles go on for
\* ever, after any outage and however long cycles take: the ticks that grew old
\* behind a slow one do not keep the fresh ones from running.
CyclesGoOn ==
    (/\ \E s \in Schedulers : <>[](clocks[s] # Off)
     /\ <>[][\A s \in Schedulers : ~PublishFails(s)]_vars
     /\ <>[](worker \notin {"down", "dead"})) => []<>(worker = "running")
=============================================================================
