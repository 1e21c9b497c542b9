------------------------- MODULE ReconcileCycleProofs -------------------------
(***************************************************************************)
(* The safety properties of ReconcileCycle for any number of intents, page *)
(* size, retries and threshold.  Whatever the worker or a late PATCH still *)
(* may expire was due when the cycle began, and the slot of an intent that *)
(* the cycle, a late PATCH or a report refers to is not given to another.  *)
(***************************************************************************)
EXTENDS ReconcileCycle, FiniteSetTheorems, TLAPS

\* What may still be expired is due, and what is due is an intent.
OnlyDue ==
    /\ late \subseteq due
    /\ cycle.cutoff \subseteq due
    /\ \A c \in cycle.candidates : c[2] \in cycle.cutoff
    /\ \A s \in due : status[s] # "NONE"

\* A request in progress was let through by the breaker.
ServedIsAdmitted == cycle.pc = "serving" => breaker.state # "open"

\* What is left to list.
ListingInOrder == cycle.pc = "list" => cycle.statuses \in {ListedStatuses, <<"UNDER_REVIEW">>}

CycleInv ==
    TypeOK /\ OnlyDue /\ ServedIsAdmitted /\ ListingInOrder /\ ReportIsTrue /\ NeverExpiresEarly

\* The fields of a cycle.
LEMMA CycleTypes ==
    ASSUME TypeOK
    PROVE  /\ cycle.pc \in {"down", "poll", "list", "patch", "serving"}
           /\ cycle.candidates \subseteq Candidates
           /\ cycle.attempt \in 0..MaxRetries
           /\ cycle.cutoff \subseteq Slots
           /\ cycle.report \subseteq Slots \X Outcomes
  BY DEF TypeOK, Cycle

LEMMA IdleTypes ==
    /\ Idle.pc = "poll" /\ Idle.candidates = {} /\ Idle.cutoff = {} /\ Idle.report = {}
    /\ Idle \in Cycle
  BY CycleAssumption DEF Idle, Cycle

LEMMA BreakerTypes ==
    ASSUME TypeOK, breaker.state # "open", NEW b \in {on_failure(breaker), on_success(breaker)}
    PROVE  b \in Breaker /\ (b.state # "closed" => b.failures = 0)
  <1>1. breaker \in Breaker /\ (breaker.state # "closed" => breaker.failures = 0)
    BY DEF TypeOK
  <1>2. FailureThreshold \in Nat \ {0} /\ 0 \in 0..(FailureThreshold - 1)
    BY CycleAssumption
  <1>3. CASE b = on_success(breaker)
    <2>1. b = [breaker EXCEPT !.failures = 0, !.state = "closed"]
      BY <1>3 DEF on_success
    <2> QED BY <1>1, <1>2, <2>1 DEF Breaker
  <1>4. CASE b = on_failure(breaker)
    <2>1. CASE breaker.state = "half_open" \/ breaker.failures + 1 >= FailureThreshold
      <3>1. b = [state |-> "open", failures |-> 0]
        BY <1>4, <2>1 DEF on_failure, trip
      <3> QED BY <1>2, <3>1 DEF Breaker
    <2>2. CASE ~(breaker.state = "half_open" \/ breaker.failures + 1 >= FailureThreshold)
      <3>1. breaker.state = "closed" /\ breaker.failures + 1 \in 0..(FailureThreshold - 1)
        BY <1>1, <1>2, <2>2 DEF Breaker
      <3>2. b = [breaker EXCEPT !.failures = @ + 1]
        BY <1>4, <2>2 DEF on_failure
      <3> QED BY <1>1, <3>1, <3>2 DEF Breaker
    <2> QED BY <2>1, <2>2
  <1> QED BY <1>3, <1>4

\* Counting an outcome takes the candidate out and puts the outcome in.
LEMMA CountKeepsTypes ==
    ASSUME TypeOK, NEW c \in cycle.candidates, NEW o \in Outcomes, Count(c, o)
    PROVE  /\ cycle' \in Cycle
           /\ cycle'.pc \in {"poll", "patch"} /\ cycle'.cutoff = cycle.cutoff
           /\ cycle'.candidates = cycle.candidates \ {c}
           /\ cycle'.pc = "poll" => cycle'.candidates = {}
           /\ cycle'.report = cycle.report \cup {<<c[2], o>>}
  <1>1. cycle' = [cycle EXCEPT !.candidates = cycle.candidates \ {c}, !.attempt = 0,
                    !.report = cycle.report \cup {<<c[2], o>>},
                    !.pc = IF cycle.candidates \ {c} = {} THEN "poll" ELSE "patch"]
    BY CycleTypes DEF Count
  <1>2. /\ cycle.candidates \ {c} \subseteq Candidates
        /\ cycle.report \cup {<<c[2], o>>} \subseteq Slots \X Outcomes
    BY CycleTypes DEF Candidates
  <1>3. 0 \in 0..MaxRetries
    BY CycleAssumption
  <1>4. cycle \in Cycle
    BY DEF TypeOK
  <1> QED BY <1>1, <1>2, <1>3, <1>4 DEF Cycle

\* Another attempt changes nothing else.
LEMMA RetryKeepsTypes ==
    ASSUME TypeOK, ~LastAttempt,
           NEW pc \in {"list", "patch"}, cycle' = [cycle EXCEPT !.attempt = @ + 1, !.pc = pc]
    PROVE  /\ cycle' \in Cycle
           /\ cycle'.pc = pc /\ cycle'.statuses = cycle.statuses
           /\ cycle'.cutoff = cycle.cutoff
           /\ cycle'.candidates = cycle.candidates
           /\ cycle'.report = cycle.report
  <1>1. cycle.attempt + 1 \in 0..MaxRetries
    BY CycleTypes, CycleAssumption DEF LastAttempt
  <1>2. cycle \in Cycle
    BY DEF TypeOK
  <1> QED BY <1>1, <1>2 DEF Cycle

LEMMA SpentKeepsTypes ==
    ASSUME TypeOK, NEW c \in cycle.candidates, Spent(c)
    PROVE  /\ cycle' \in Cycle
           /\ cycle'.pc \in {"poll", "patch"} /\ cycle'.cutoff = cycle.cutoff
           /\ cycle'.candidates \subseteq cycle.candidates
           /\ cycle'.report \subseteq cycle.report \cup {<<c[2], "failed">>}
  <1>1. CASE LastAttempt /\ Count(c, "failed")
    BY <1>1, CountKeepsTypes DEF Outcomes
  <1>2. CASE ~LastAttempt /\ cycle' = [cycle EXCEPT !.attempt = @ + 1, !.pc = "patch"]
    BY <1>2, RetryKeepsTypes
  <1> QED BY <1>1, <1>2 DEF Spent

\* What stays true of the report when a closed intent stays closed and what is
\* added is true.
LEMMA ReportKeeps ==
    ASSUME TypeOK, ReportIsTrue, NEW x \in Slots, NEW o \in Outcomes,
           \A s \in Slots : status[s] \in {"EXPIRED", "RESOLVED"} => status'[s] = status[s],
           cycle'.report \subseteq cycle.report \cup {<<x, o>>},
           o \in {"expired", "already_expired"} => status'[x] = "EXPIRED",
           o = "rejected" => status'[x] = "RESOLVED"
    PROVE  ReportIsTrue'
  <1> SUFFICES ASSUME NEW s \in Slots
               PROVE  /\ <<s, "expired">> \in cycle'.report => status'[s] = "EXPIRED"
                      /\ <<s, "already_expired">> \in cycle'.report => status'[s] = "EXPIRED"
                      /\ <<s, "rejected">> \in cycle'.report => status'[s] = "RESOLVED"
    BY DEF ReportIsTrue
  <1>1. ASSUME NEW p \in Outcomes, <<s, p>> \in cycle'.report
        PROVE  <<s, p>> \in cycle.report \/ (s = x /\ p = o)
    BY <1>1
  <1> QED BY <1>1 DEF ReportIsTrue, Outcomes

\* What the transaction of an expiry does.
LEMMA CommitFacts ==
    ASSUME TypeOK, NEW x \in Slots, CommitExpired(x)
    PROVE  /\ status' \in [Slots -> Statuses]
           /\ \A s \in Slots : status[s] \in {"EXPIRED", "RESOLVED"} => status'[s] = status[s]
           /\ \A s \in Slots : status'[s] = "EXPIRED" => status[s] = "EXPIRED" \/ s = x
           /\ DatabaseAccepts(x) => status'[x] = "EXPIRED"
           /\ \A s \in Slots : status[s] # "NONE" => status'[s] # "NONE"
           /\ \A s \in Slots : status'[s] \in EXPIRABLE_STATUSES => status'[s] = status[s]
  BY DEF TypeOK, CommitExpired, DatabaseAccepts, Open, Statuses, EXPIRABLE_STATUSES

-------------------------------------------------------------------------------

LEMMA InitHolds == Init => CycleInv
  <1> SUFFICES ASSUME Init PROVE CycleInv
    OBVIOUS
  <1>1. Closed \in Breaker /\ Closed.state = "closed"
    <2>1. 0 \in 0..(FailureThreshold - 1)
      BY CycleAssumption
    <2> QED BY <2>1 DEF Closed, Breaker
  <1>2. TypeOK
    BY <1>1, IdleTypes DEF Init, TypeOK, Statuses
  <1> QED BY <1>1, <1>2, IdleTypes
         DEF Init, CycleInv, OnlyDue, ServedIsAdmitted, ListingInOrder, ReportIsTrue, NeverExpiresEarly

LEMMA CreateKeeps ==
    ASSUME CycleInv, NEW s \in Slots, CreateIntent(s)
    PROVE  CycleInv'
  <1>1. /\ TypeOK /\ OnlyDue /\ ServedIsAdmitted /\ ListingInOrder /\ ReportIsTrue /\ NeverExpiresEarly
        /\ s \notin late /\ s \notin cycle.cutoff
        /\ \A o \in Outcomes : <<s, o>> \notin cycle.report
        /\ status' = [status EXCEPT ![s] = "PENDING"]
        /\ due' = due \ {s}
        /\ newer' = [t \in Slots |-> IF t = s THEN {} ELSE newer[t] \cup {s}]
        /\ UNCHANGED <<late, coreUp, token, breaker, cycle>>
    BY DEF CreateIntent, Free, CycleInv
  <1>2. TypeOK'
    <2>1. newer' \in [Slots -> SUBSET Slots]
      BY <1>1 DEF TypeOK
    <2>2. status' \in [Slots -> Statuses]
      BY <1>1 DEF TypeOK, Statuses, EXPIRABLE_STATUSES
    <2> QED BY <1>1, <2>1, <2>2 DEF TypeOK
  <1>3. OnlyDue'
    BY <1>1 DEF OnlyDue, TypeOK
  <1>4. ReportIsTrue'
    BY <1>1 DEF ReportIsTrue, Outcomes, TypeOK
  <1>5. NeverExpiresEarly'
    BY <1>1 DEF NeverExpiresEarly, TypeOK
  <1> QED BY <1>1, <1>2, <1>3, <1>4, <1>5 DEF CycleInv, ServedIsAdmitted, ListingInOrder

LEMMA MoveKeeps ==
    ASSUME CycleInv, NEW s \in Slots, MoveIntent(s)
    PROVE  CycleInv'
  <1>1. /\ TypeOK /\ OnlyDue /\ ServedIsAdmitted /\ ListingInOrder /\ ReportIsTrue /\ NeverExpiresEarly
        /\ Open(s)
        /\ UNCHANGED <<newer, due, late, coreUp, token, breaker, cycle>>
    BY DEF MoveIntent, CycleInv
  <1>2. PICK next \in {"UNDER_REVIEW", "RESOLVED"} : status' = [status EXCEPT ![s] = next]
    BY DEF MoveIntent
  <1>3. TypeOK'
    <2>1. status' \in [Slots -> Statuses]
      BY <1>1, <1>2 DEF TypeOK, Statuses, EXPIRABLE_STATUSES
    <2> QED BY <1>1, <2>1 DEF TypeOK
  <1>4. ReportIsTrue' /\ NeverExpiresEarly'
    BY <1>1, <1>2 DEF ReportIsTrue, NeverExpiresEarly, TypeOK, Open, EXPIRABLE_STATUSES
  <1>5. OnlyDue'
    BY <1>1, <1>2 DEF OnlyDue, TypeOK
  <1> QED BY <1>1, <1>3, <1>4, <1>5 DEF CycleInv, ServedIsAdmitted, ListingInOrder

LEMMA FallDueKeeps ==
    ASSUME CycleInv, NEW s \in Slots, FallDue(s)
    PROVE  CycleInv'
  <1>1. /\ TypeOK /\ OnlyDue /\ ServedIsAdmitted /\ ListingInOrder /\ ReportIsTrue /\ NeverExpiresEarly
        /\ due' = due \cup {s} /\ status[s] # "NONE"
        /\ UNCHANGED <<status, newer, late, coreUp, token, breaker, cycle>>
    BY DEF FallDue, CycleInv
  <1> QED BY <1>1 DEF CycleInv, TypeOK, OnlyDue, ServedIsAdmitted, ListingInOrder, ReportIsTrue,
                      NeverExpiresEarly

LEMMA LateKeeps ==
    ASSUME CycleInv, NEW s \in Slots, TakesEffect(s)
    PROVE  CycleInv'
  <1>1. /\ TypeOK /\ OnlyDue /\ ServedIsAdmitted /\ ListingInOrder /\ ReportIsTrue /\ NeverExpiresEarly
        /\ s \in due /\ late' = late \ {s} /\ CommitExpired(s)
        /\ UNCHANGED <<newer, due, coreUp, token, breaker, cycle>>
    BY DEF TakesEffect, CycleInv, OnlyDue
  <1>2. TypeOK'
    BY <1>1, CommitFacts DEF TypeOK
  <1>3. ReportIsTrue'
    BY <1>1, CommitFacts, ReportKeeps DEF Outcomes
  <1>4. NeverExpiresEarly'
    BY <1>1, CommitFacts DEF NeverExpiresEarly
  <1>5. OnlyDue'
    BY <1>1, CommitFacts DEF OnlyDue, TypeOK
  <1> QED BY <1>1, <1>2, <1>3, <1>4, <1>5 DEF CycleInv, ServedIsAdmitted, ListingInOrder

\* core-api, the token and the breaker's clock.
LEMMA AroundKeeps ==
    ASSUME CycleInv, CoreGoesUpOrDown \/ TokenExpires \/ ResetTimeout
    PROVE  CycleInv'
  <1>1. /\ TypeOK /\ OnlyDue /\ ServedIsAdmitted /\ ListingInOrder /\ ReportIsTrue /\ NeverExpiresEarly
        /\ UNCHANGED <<status, newer, due, late, cycle>>
    BY DEF CoreGoesUpOrDown, TokenExpires, ResetTimeout, CycleInv, core
  <1>2. /\ coreUp' \in BOOLEAN /\ token' \in {"none", "valid", "expired"}
        /\ breaker' = breaker \/ breaker' = [breaker EXCEPT !.state = "half_open"]
        /\ breaker' # breaker => breaker.state = "open"
    BY <1>1 DEF CoreGoesUpOrDown, TokenExpires, ResetTimeout, TypeOK
  <1>3. breaker' \in Breaker /\ (breaker'.state # "closed" => breaker'.failures = 0)
        /\ (breaker.state # "open" => breaker'.state # "open")
    BY <1>1, <1>2 DEF TypeOK, Breaker
  <1>4. TypeOK'
    BY <1>1, <1>2, <1>3 DEF TypeOK
  <1> QED BY <1>1, <1>3, <1>4 DEF CycleInv, OnlyDue, ServedIsAdmitted, ListingInOrder, ReportIsTrue,
                                  NeverExpiresEarly

\* What a step of the worker has to leave.
LEMMA WorkerKeeps ==
    ASSUME CycleInv, UNCHANGED <<newer, due, coreUp>>,
           status' \in [Slots -> Statuses], late' \subseteq due,
           \A s \in Slots : status'[s] = "EXPIRED" => status[s] = "EXPIRED" \/ s \in due,
           \A s \in Slots : status[s] # "NONE" => status'[s] # "NONE",
           token' \in {"none", "valid", "expired"},
           breaker' \in Breaker, breaker'.state # "closed" => breaker'.failures = 0,
           cycle' \in Cycle, cycle'.cutoff \subseteq due,
           \A c \in cycle'.candidates : c[2] \in cycle'.cutoff,
           cycle'.pc = "serving" => breaker'.state # "open",
           cycle'.pc = "list" => cycle'.statuses \in {ListedStatuses, <<"UNDER_REVIEW">>},
           ReportIsTrue'
    PROVE  CycleInv'
  <1>1. TypeOK /\ OnlyDue /\ NeverExpiresEarly
    BY DEF CycleInv
  <1>2. TypeOK'
    BY <1>1 DEF TypeOK
  <1>3. NeverExpiresEarly'
    BY <1>1 DEF NeverExpiresEarly
  <1>4. \A s \in due' : status'[s] # "NONE"
    BY <1>1 DEF OnlyDue, TypeOK
  <1> QED BY <1>2, <1>3, <1>4 DEF CycleInv, OnlyDue, ServedIsAdmitted, ListingInOrder

LEMMA IdleKeeps ==
    ASSUME CycleInv, UNCHANGED <<status, newer, due, coreUp>>, late' \subseteq due,
           token' \in {"none", "valid", "expired"},
           breaker' \in Breaker, breaker'.state # "closed" => breaker'.failures = 0,
           cycle' \in Cycle, cycle'.pc \in {"down", "poll"},
           cycle'.candidates = {}, cycle'.cutoff = {}, cycle'.report = {}
    PROVE  CycleInv'
  <1>1. ReportIsTrue'
    BY DEF ReportIsTrue
  <1>2. status' \in [Slots -> Statuses]
    BY DEF CycleInv, TypeOK
  <1> QED BY <1>1, <1>2, WorkerKeeps

LEMMA CrashKeeps ==
    ASSUME CycleInv, Crash
    PROVE  CycleInv'
  <1>1. TypeOK /\ OnlyDue
    BY DEF CycleInv
  <1>2. late' \subseteq due
    BY <1>1 DEF Crash, OnlyDue
  <1>3. Closed \in Breaker /\ Closed.state = "closed"
    <2>1. 0 \in 0..(FailureThreshold - 1)
      BY CycleAssumption
    <2> QED BY <2>1 DEF Closed, Breaker
  <1>4. /\ cycle' \in Cycle /\ cycle'.pc = "down" /\ cycle'.candidates = {}
        /\ cycle'.cutoff = {} /\ cycle'.report = {}
    <2>1. cycle' = [Idle EXCEPT !.pc = "down"]
      BY DEF Crash
    <2> QED BY <2>1, IdleTypes DEF Cycle, Idle
  <1> QED BY <1>2, <1>3, <1>4, IdleKeeps DEF Crash

LEMMA StartKeeps ==
    ASSUME CycleInv, Start
    PROVE  CycleInv'
  <1>1. TypeOK /\ OnlyDue
    BY DEF CycleInv
  <1> QED BY <1>1, IdleTypes, IdleKeeps DEF Start, core, TypeOK, OnlyDue

LEMMA StartCycleKeeps ==
    ASSUME CycleInv, StartCycle
    PROVE  CycleInv'
  <1>1. /\ TypeOK /\ OnlyDue /\ UNCHANGED <<status, newer, due, late, coreUp, token, breaker>>
        /\ cycle' = [Idle EXCEPT !.pc = "list", !.statuses = ListedStatuses, !.cutoff = due]
    BY DEF CycleInv, StartCycle, core
  <1>2. due \subseteq Slots /\ ListedStatuses \in Seq(EXPIRABLE_STATUSES)
    BY <1>1 DEF TypeOK, ListedStatuses, EXPIRABLE_STATUSES
  <1>3. /\ cycle' \in Cycle /\ cycle'.pc = "list" /\ cycle'.statuses = ListedStatuses
        /\ cycle'.candidates = {} /\ cycle'.cutoff = due /\ cycle'.report = {}
    BY <1>1, <1>2, IdleTypes DEF Cycle, Idle
  <1>4. ReportIsTrue'
    BY <1>3 DEF ReportIsTrue
  <1> QED BY <1>1, <1>3, <1>4, WorkerKeeps DEF TypeOK, OnlyDue

\* The token and the breaker after a request, when it was let through.
LEMMA RequestFacts ==
    ASSUME TypeOK, Answered \/ Unauthorized \/ Failed
    PROVE  /\ token' \in {"none", "valid", "expired"}
           /\ breaker' \in Breaker /\ (breaker'.state # "closed" => breaker'.failures = 0)
  <1>1. breaker.state # "open"
    BY DEF Answered, Admitted, Unauthorized, Failed, CircuitOpen
  <1>2. token' \in {"none", "valid", "expired"}
    BY DEF TypeOK, Answered, Admitted, Unauthorized, Reject401, Failed
  <1>3. breaker' \in {breaker, on_failure(breaker), on_success(breaker)}
    BY DEF Answered, Unauthorized, Reject401, Failed
  <1> QED BY <1>1, <1>2, <1>3, BreakerTypes DEF TypeOK

\* The listings that are left.
LEMMA ListedFacts ==
    ASSUME NEW q \in {ListedStatuses, <<"UNDER_REVIEW">>}
    PROVE  /\ Head(q) \in EXPIRABLE_STATUSES /\ Tail(q) \in Seq(EXPIRABLE_STATUSES)
           /\ Tail(q) # <<>> => Tail(q) = <<"UNDER_REVIEW">>
  <1>1. CASE q = <<"PENDING", "UNDER_REVIEW">>
    <2>1. Head(q) = "PENDING" /\ Tail(q) = <<"UNDER_REVIEW">>
      BY <1>1
    <2>2. <<"UNDER_REVIEW">> \in Seq(EXPIRABLE_STATUSES)
      BY DEF EXPIRABLE_STATUSES
    <2> QED BY <2>1, <2>2 DEF EXPIRABLE_STATUSES
  <1>2. CASE q = <<"UNDER_REVIEW">>
    <2>1. Head(q) = "UNDER_REVIEW" /\ Tail(q) = <<>>
      BY <1>2
    <2>2. <<>> \in Seq(EXPIRABLE_STATUSES)
      OBVIOUS
    <2> QED BY <2>1, <2>2 DEF EXPIRABLE_STATUSES
  <1> QED BY <1>1, <1>2 DEF ListedStatuses

LEMMA ListKeeps ==
    ASSUME CycleInv, List
    PROVE  CycleInv'
  <1>1. /\ TypeOK /\ OnlyDue /\ ReportIsTrue /\ ListingInOrder
        /\ cycle.pc = "list" /\ UNCHANGED <<status, newer, due, late, coreUp>>
    BY DEF CycleInv, List, core
  <1>2. CASE Answered /\ PageArrives
    <2> DEFINE st == Head(cycle.statuses)
               rest == Tail(cycle.statuses)
               found == cycle.candidates \cup ({st} \X filter_expired(Page(st)))
               pc == IF rest # <<>> THEN "list" ELSE IF found # {} THEN "patch" ELSE "poll"
    <2>1. cycle' = [cycle EXCEPT !.statuses = rest, !.candidates = found, !.attempt = 0, !.pc = pc]
      BY <1>2 DEF PageArrives
    <2>2. /\ st \in EXPIRABLE_STATUSES /\ rest \in Seq(EXPIRABLE_STATUSES)
          /\ rest # <<>> => rest = <<"UNDER_REVIEW">>
      BY <1>1, ListedFacts DEF ListingInOrder
    <2>3. found \subseteq Candidates /\ \A c \in found : c[2] \in cycle.cutoff
      <3>1. filter_expired(Page(st)) \subseteq Slots \cap cycle.cutoff
        BY DEF filter_expired, Page
      <3>2. cycle.candidates \subseteq Candidates /\ \A c \in cycle.candidates : c[2] \in cycle.cutoff
        BY <1>1, CycleTypes DEF OnlyDue
      <3> QED BY <2>2, <3>1, <3>2 DEF Candidates
    <2>4. 0 \in 0..MaxRetries /\ pc \in {"poll", "list", "patch"} /\ (pc = "list" => rest # <<>>)
      BY CycleAssumption
    <2> HIDE DEF st, rest, found, pc
    <2>5. /\ cycle' \in Cycle /\ cycle'.pc = pc /\ cycle'.statuses = rest
          /\ cycle'.candidates = found /\ cycle'.cutoff = cycle.cutoff /\ cycle'.report = cycle.report
      BY <1>1, <2>1, <2>2, <2>3, <2>4 DEF TypeOK, Cycle
    <2>6. ReportIsTrue'
      BY <1>1, <2>5 DEF ReportIsTrue
    <2> QED BY <1>1, <1>2, <2>2, <2>3, <2>4, <2>5, <2>6, RequestFacts, WorkerKeeps DEF TypeOK, OnlyDue
  <1>3. CASE (Unauthorized \/ Failed) /\ ~LastAttempt /\ NextAttempt
    <2>1. cycle' = [cycle EXCEPT !.attempt = @ + 1, !.pc = "list"]
      BY <1>1, <1>3 DEF NextAttempt, TypeOK, Cycle
    <2>2. /\ cycle' \in Cycle /\ cycle'.pc = "list" /\ cycle'.statuses = cycle.statuses
          /\ cycle'.cutoff = cycle.cutoff /\ cycle'.candidates = cycle.candidates
          /\ cycle'.report = cycle.report
      BY <1>1, <1>3, <2>1, RetryKeepsTypes
    <2>3. ReportIsTrue'
      BY <1>1, <2>2 DEF ReportIsTrue
    <2> QED BY <1>1, <1>3, <2>2, <2>3, RequestFacts, WorkerKeeps DEF TypeOK, OnlyDue, ListingInOrder
  <1>4. CASE (Unauthorized \/ Failed) /\ LastAttempt /\ AbortCycle
    BY <1>1, <1>4, RequestFacts, IdleTypes, IdleKeeps DEF AbortCycle, OnlyDue
  <1>5. CASE CircuitOpen /\ AbortCycle /\ UNCHANGED <<token, breaker>>
    BY <1>1, <1>5, IdleTypes, IdleKeeps DEF AbortCycle, OnlyDue, TypeOK
  <1> QED BY <1>2, <1>3, <1>4, <1>5 DEF List

\* A candidate's outcome, or another attempt, leaves the cycle well formed.
LEMMA OutcomeKeeps ==
    ASSUME CycleInv, NEW c \in cycle.candidates, NEW o \in Outcomes,
           UNCHANGED <<newer, due, coreUp>>,
           status' \in [Slots -> Statuses], late' \subseteq due,
           \A s \in Slots : status[s] \in {"EXPIRED", "RESOLVED"} => status'[s] = status[s],
           \A s \in Slots : status'[s] = "EXPIRED" => status[s] = "EXPIRED" \/ s \in due,
           \A s \in Slots : status[s] # "NONE" => status'[s] # "NONE",
           token' \in {"none", "valid", "expired"},
           breaker' \in Breaker, breaker'.state # "closed" => breaker'.failures = 0,
           Count(c, o) \/ (Spent(c) /\ o = "failed"),
           o \in {"expired", "already_expired"} => status'[c[2]] = "EXPIRED",
           o = "rejected" => status'[c[2]] = "RESOLVED"
    PROVE  CycleInv'
  <1>1. TypeOK /\ OnlyDue /\ ReportIsTrue
    BY DEF CycleInv
  <1>2. c[2] \in Slots
    BY <1>1, CycleTypes DEF Candidates
  <1>3. /\ cycle' \in Cycle /\ cycle'.pc \in {"poll", "patch"}
        /\ cycle'.cutoff = cycle.cutoff
        /\ cycle'.candidates \subseteq cycle.candidates
        /\ cycle'.report \subseteq cycle.report \cup {<<c[2], o>>}
    <2>1. CASE Count(c, o)
      BY <1>1, <2>1, CountKeepsTypes
    <2>2. CASE Spent(c) /\ o = "failed"
      BY <1>1, <2>2, SpentKeepsTypes
    <2> QED BY <2>1, <2>2
  <1>4. ReportIsTrue'
    BY <1>1, <1>2, <1>3, ReportKeeps
  <1> QED BY <1>1, <1>3, <1>4, WorkerKeeps DEF OnlyDue

\* Facts about the candidate that is being expired.
LEMMA CandidateFacts ==
    ASSUME CycleInv, NEW c \in cycle.candidates
    PROVE  c[2] \in Slots /\ c[2] \in due /\ late \cup {c[2]} \subseteq due /\ late \subseteq due
  BY CycleTypes DEF CycleInv, OnlyDue, Candidates

LEMMA PatchFailedKeeps ==
    ASSUME CycleInv, NEW c \in cycle.candidates, PatchFailed(c), UNCHANGED <<newer, due, coreUp>>
    PROVE  CycleInv'
  <1>1. TypeOK /\ NeverExpiresEarly
    BY DEF CycleInv
  <1>2. Failed /\ Spent(c) /\ status' = status /\ late' \subseteq due
    BY CandidateFacts DEF PatchFailed
  <1>3. "failed" \in Outcomes
    BY DEF Outcomes
  <1> QED BY <1>1, <1>2, <1>3, RequestFacts, OutcomeKeeps DEF TypeOK

LEMMA PatchKeeps ==
    ASSUME CycleInv, NEW c \in Candidates, Patch(c)
    PROVE  CycleInv'
  <1>1. /\ TypeOK /\ OnlyDue /\ ReportIsTrue /\ NeverExpiresEarly
        /\ c \in cycle.candidates /\ cycle.pc = "patch"
        /\ UNCHANGED <<newer, due, coreUp>>
    BY DEF CycleInv, Patch
  <1>2. CASE /\ Open(c[2]) /\ Admitted /\ cycle' = [cycle EXCEPT !.pc = "serving"]
             /\ UNCHANGED <<status, late, breaker>>
    <2>1. /\ cycle' \in Cycle /\ cycle'.pc = "serving"
          /\ cycle'.cutoff = cycle.cutoff /\ cycle'.candidates = cycle.candidates
          /\ cycle'.report = cycle.report
      BY <1>1, <1>2 DEF TypeOK, Cycle
    <2>2. breaker'.state # "open" /\ token' = "valid"
      BY <1>2 DEF Admitted, CircuitOpen
    <2>3. ReportIsTrue'
      BY <1>1, <1>2, <2>1 DEF ReportIsTrue
    <2> QED BY <1>1, <1>2, <2>1, <2>2, <2>3, WorkerKeeps DEF TypeOK, OnlyDue
  <1>3. CASE /\ ~Open(c[2]) /\ Answered
             /\ Count(c, OutcomeOf(handleError(UpdateStatus(status[c[2]]))))
             /\ UNCHANGED <<status, late>>
    <2> DEFINE o == OutcomeOf(handleError(UpdateStatus(status[c[2]])))
    <2>1. status[c[2]] # "NONE"
      BY <1>1, CandidateFacts DEF OnlyDue
    <2>2. \/ status[c[2]] = "EXPIRED" /\ o = "already_expired"
          \/ status[c[2]] = "RESOLVED" /\ o = "rejected"
      BY <1>1, <1>3, <2>1, CandidateFacts
         DEF OutcomeOf, handleError, UpdateStatus, Open, TypeOK, Statuses, EXPIRABLE_STATUSES
    <2>3. o \in Outcomes
      BY <2>2 DEF Outcomes
    <2> HIDE DEF o
    <2> QED BY <1>1, <1>3, <2>2, <2>3, RequestFacts, CandidateFacts, OutcomeKeeps DEF TypeOK, o
  <1>4. CASE Unauthorized /\ Spent(c) /\ UNCHANGED <<status, late>>
    BY <1>1, <1>4, RequestFacts, CandidateFacts, OutcomeKeeps DEF TypeOK, Outcomes
  <1>5. CASE PatchFailed(c)
    BY <1>1, <1>5, PatchFailedKeeps
  <1>6. CASE CircuitOpen /\ Count(c, "failed") /\ UNCHANGED <<status, late, token, breaker>>
    BY <1>1, <1>6, CandidateFacts, OutcomeKeeps DEF TypeOK, Outcomes
  <1> QED BY <1>2, <1>3, <1>4, <1>5, <1>6 DEF Patch

\* The transaction and its answer.
LEMMA ServeKeeps ==
    ASSUME CycleInv, NEW c \in Candidates, Serve(c)
    PROVE  CycleInv'
  <1>1. /\ TypeOK /\ OnlyDue /\ NeverExpiresEarly
        /\ c \in cycle.candidates /\ breaker.state # "open"
        /\ UNCHANGED <<newer, due, coreUp>>
    BY DEF CycleInv, ServedIsAdmitted, Serve
  <1>2. CASE /\ coreUp /\ DatabaseAccepts(c[2]) /\ CommitExpired(c[2])
             /\ breaker' = on_success(breaker) /\ Count(c, OutcomeOf(200))
             /\ UNCHANGED <<late, token>>
    <2>1. OutcomeOf(200) = "expired" /\ "expired" \in Outcomes
      BY DEF OutcomeOf, Outcomes
    <2>2. /\ status' \in [Slots -> Statuses] /\ status'[c[2]] = "EXPIRED"
          /\ \A s \in Slots : status[s] \in {"EXPIRED", "RESOLVED"} => status'[s] = status[s]
          /\ \A s \in Slots : status[s] # "NONE" => status'[s] # "NONE"
          /\ \A s \in Slots : status'[s] = "EXPIRED" => status[s] = "EXPIRED" \/ s \in due
      BY <1>1, <1>2, CandidateFacts, CommitFacts
    <2>3. breaker' \in Breaker /\ (breaker'.state # "closed" => breaker'.failures = 0)
      BY <1>1, <1>2, BreakerTypes
    <2>4. Count(c, "expired") /\ late' \subseteq due /\ token' \in {"none", "valid", "expired"}
      BY <1>1, <1>2, <2>1 DEF TypeOK, OnlyDue
    <2> QED BY <1>1, <2>1, <2>2, <2>3, <2>4, OutcomeKeeps
  <1>3. CASE /\ coreUp /\ ~DatabaseAccepts(c[2])
             /\ breaker' = on_failure(breaker) /\ Spent(c)
             /\ UNCHANGED <<status, late, token>>
    <2>1. breaker' \in Breaker /\ (breaker'.state # "closed" => breaker'.failures = 0)
      BY <1>1, <1>3, BreakerTypes
    <2>2. late' \subseteq due /\ token' \in {"none", "valid", "expired"} /\ "failed" \in Outcomes
      BY <1>1, <1>3 DEF TypeOK, OnlyDue, Outcomes
    <2> QED BY <1>1, <1>3, <2>1, <2>2, OutcomeKeeps DEF TypeOK, NeverExpiresEarly
  <1>4. CASE PatchFailed(c)
    BY <1>1, <1>4, PatchFailedKeeps
  <1> QED BY <1>1, <1>2, <1>3, <1>4 DEF Serve

-------------------------------------------------------------------------------

LEMMA NextKeeps == CycleInv /\ [Next]_vars => CycleInv'
  <1> SUFFICES ASSUME CycleInv, [Next]_vars PROVE CycleInv'
    OBVIOUS
  <1>1. ASSUME NEW s \in Slots, CreateIntent(s) \/ MoveIntent(s) \/ FallDue(s) \/ TakesEffect(s)
        PROVE  CycleInv'
    BY <1>1, CreateKeeps, MoveKeeps, FallDueKeeps, LateKeeps
  <1>2. CASE Crash \/ Start \/ StartCycle \/ List
    BY <1>2, CrashKeeps, StartKeeps, StartCycleKeeps, ListKeeps
  <1>3. ASSUME NEW c \in Candidates, Patch(c) \/ Serve(c) PROVE CycleInv'
    BY <1>3, PatchKeeps, ServeKeeps
  <1>4. CASE CoreGoesUpOrDown \/ TokenExpires \/ ResetTimeout
    BY <1>4, AroundKeeps
  <1>5. CASE UNCHANGED vars
    BY <1>5 DEF vars, CycleInv, TypeOK, OnlyDue, ServedIsAdmitted, ListingInOrder, ReportIsTrue,
                NeverExpiresEarly
  <1> QED BY <1>1, <1>2, <1>3, <1>4, <1>5 DEF Next, Environment, Worker

\* The inductive invariant holds throughout, for every value of the constants.
THEOREM CycleInvariant == Spec => []CycleInv
  BY InitHolds, NextKeeps, PTL DEF Spec

\* Every variable keeps its type, and no request has more than MaxRetries + 1
\* attempts (core_client.py, _request).
THEOREM CycleTypeCorrect == Spec => []TypeOK
  <1>1. CycleInv => TypeOK
    BY DEF CycleInv
  <1> QED BY <1>1, CycleInvariant, PTL

\* However many intents, retries and late requests, the report says what
\* core-api stores (reconcile.py, _run).
THEOREM ReportAlwaysTrue == Spec => []ReportIsTrue
  <1>1. CycleInv => ReportIsTrue
    BY DEF CycleInv
  <1> QED BY <1>1, CycleInvariant, PTL

\* No intent is expired before its time, however old the listing or the request
\* that expires it (expiry.py, is_expired).
THEOREM NeverExpiredEarly == Spec => []NeverExpiresEarly
  <1>1. CycleInv => NeverExpiresEarly
    BY DEF CycleInv
  <1> QED BY <1>1, CycleInvariant, PTL

-------------------------------------------------------------------------------
(* Nothing is missed when a page holds every intent.                         *)

NewerIsAnother == \A s \in Slots : s \notin newer[s]

Covered(s) ==
    \/ \E st \in EXPIRABLE_STATUSES : <<st, s>> \in cycle.candidates
    \/ <<s, "failed">> \in cycle.report

\* Between the two listings.
PendingIsCovered ==
    cycle.pc = "list" /\ cycle.statuses = <<"UNDER_REVIEW">> =>
        \A s \in cycle.cutoff : status[s] = "PENDING" => Covered(s)

CompleteInv == CycleInv /\ NewerIsAnother /\ PendingIsCovered /\ CycleMissesNothing

\* A page that can hold every intent does.
LEMMA PageHoldsAll ==
    ASSUME IsFiniteSet(Slots), Cardinality(Slots) <= Limit, Limit \in Nat,
           NewerIsAnother, newer \in [Slots -> SUBSET Slots],
           NEW st, NEW s \in Slots, status[s] = st
    PROVE  s \in Page(st)
  <1> DEFINE above == {t \in newer[s] : status[t] = st}
  <1>1. above \subseteq Slots \ {s}
    BY DEF NewerIsAnother
  <1>2. IsFiniteSet(Slots \ {s}) /\ Cardinality(Slots \ {s}) = Cardinality(Slots) - 1
    BY FS_RemoveElement
  <1>3. Cardinality(above) <= Cardinality(Slots \ {s})
    BY <1>1, <1>2, FS_Subset
  <1>4. IsFiniteSet(above) /\ Cardinality(above) \in Nat /\ Cardinality(Slots) \in Nat
    BY <1>1, <1>2, FS_Subset, FS_CardinalityType
  <1>5. Cardinality(above) < Limit
    BY <1>2, <1>3, <1>4
  <1> QED BY <1>5 DEF Page

LEMMA LimitIsNat == Limit \in Nat
  BY CycleAssumption DEF Limit

\* Steps of others: an open intent of the cutoff stays what it was, is sent to
\* review or is closed.
LEMMA OthersKeepComplete ==
    ASSUME CompleteInv, cycle' = cycle,
           \A s \in cycle.cutoff : status'[s] \in EXPIRABLE_STATUSES =>
               /\ status[s] \in EXPIRABLE_STATUSES
               /\ status'[s] = "PENDING" => status[s] = "PENDING"
    PROVE  PendingIsCovered' /\ CycleMissesNothing'
  <1>1. PendingIsCovered'
    BY DEF CompleteInv, PendingIsCovered, Covered, EXPIRABLE_STATUSES
  <1>2. CycleMissesNothing'
    BY DEF CompleteInv, CycleMissesNothing, Open
  <1> QED BY <1>1, <1>2

\* Steps that leave nothing to be listed or expired.
LEMMA IdleIsComplete ==
    ASSUME \/ cycle'.pc = "down"
           \/ cycle'.pc = "poll" /\ cycle'.cutoff = {}
           \/ cycle'.pc = "list" /\ cycle'.statuses = ListedStatuses
    PROVE  PendingIsCovered' /\ CycleMissesNothing'
  <1>1. ListedStatuses # <<"UNDER_REVIEW">>
    BY DEF ListedStatuses
  <1> QED BY <1>1 DEF PendingIsCovered, CycleMissesNothing

\* A candidate goes when its intent is closed or counted as failed.
LEMMA OutcomeKeepsComplete ==
    ASSUME CompleteInv, cycle.pc \in {"patch", "serving"}, NEW c \in cycle.candidates, NEW o \in Outcomes,
           \A s \in Slots : status'[s] \in EXPIRABLE_STATUSES => status'[s] = status[s],
           Count(c, o) \/ (Spent(c) /\ o = "failed"),
           o # "failed" => status'[c[2]] \notin EXPIRABLE_STATUSES
    PROVE  PendingIsCovered' /\ CycleMissesNothing'
  <1>1. /\ TypeOK /\ CycleMissesNothing /\ cycle.cutoff \subseteq Slots
        /\ cycle.candidates \subseteq EXPIRABLE_STATUSES \X Slots
    BY CycleTypes DEF CompleteInv, CycleInv, Candidates
  <1>2. CASE Count(c, o)
    <2>1. /\ cycle'.pc # "list" /\ cycle'.cutoff = cycle.cutoff
          /\ cycle'.candidates = cycle.candidates \ {c}
          /\ cycle'.pc = "poll" => cycle'.candidates = {}
          /\ cycle'.report = cycle.report \cup {<<c[2], o>>}
      BY <1>1, <1>2, CountKeepsTypes
    <2>2. ASSUME NEW s \in cycle.cutoff, status'[s] \in EXPIRABLE_STATUSES
          PROVE  Covered(s)'
      <3>1. Covered(s)
        BY <1>1, <2>2 DEF CycleMissesNothing, Covered, Open
      <3>2. CASE s = c[2]
        BY <2>1, <2>2, <3>2 DEF Covered
      <3>3. CASE s # c[2]
        BY <1>1, <2>1, <3>1, <3>3 DEF Covered
      <3> QED BY <3>2, <3>3
    <2> QED BY <2>1, <2>2 DEF PendingIsCovered, CycleMissesNothing, Covered, Open
  <1>3. CASE cycle' = [cycle EXCEPT !.attempt = @ + 1, !.pc = "patch"] /\ ~LastAttempt
    <2>1. /\ cycle'.pc = "patch" /\ cycle'.cutoff = cycle.cutoff
          /\ cycle'.candidates = cycle.candidates /\ cycle'.report = cycle.report
      BY <1>1, <1>3, RetryKeepsTypes
    <2> QED BY <1>1, <2>1 DEF PendingIsCovered, CycleMissesNothing, Open
  <1> QED BY <1>2, <1>3 DEF Spent

LEMMA WorkerPatchComplete ==
    ASSUME CompleteInv, NEW c \in Candidates, Patch(c) \/ Serve(c)
    PROVE  PendingIsCovered' /\ CycleMissesNothing'
  <1>1. /\ TypeOK /\ CycleInv /\ c \in cycle.candidates /\ cycle.pc \in {"patch", "serving"}
        /\ c[2] \in Slots /\ "failed" \in Outcomes
    BY CandidateFacts DEF CompleteInv, CycleInv, Patch, Serve, Outcomes
  <1>2. CASE cycle' = [cycle EXCEPT !.pc = "serving"] /\ UNCHANGED status
    <2>1. /\ cycle'.pc = "serving" /\ cycle'.cutoff = cycle.cutoff
          /\ cycle'.candidates = cycle.candidates /\ cycle'.report = cycle.report
      BY <1>1, <1>2 DEF TypeOK, Cycle
    <2> QED BY <1>1, <1>2, <2>1 DEF CompleteInv, PendingIsCovered, CycleMissesNothing, Open
  <1>3. CASE UNCHANGED status /\ (Spent(c) \/ Count(c, "failed"))
    BY <1>1, <1>3, OutcomeKeepsComplete
  <1>4. CASE /\ ~Open(c[2]) /\ UNCHANGED status
             /\ Count(c, OutcomeOf(handleError(UpdateStatus(status[c[2]]))))
    <2> DEFINE o == OutcomeOf(handleError(UpdateStatus(status[c[2]])))
    <2>1. status[c[2]] # "NONE"
      BY <1>1, CandidateFacts DEF CycleInv, OnlyDue
    <2>2. o \in Outcomes
      BY <1>1, <1>4, <2>1
         DEF OutcomeOf, handleError, UpdateStatus, Open, TypeOK, Statuses, EXPIRABLE_STATUSES, Outcomes
    <2>3. Count(c, o)
      BY <1>4
    <2> HIDE DEF o
    <2> QED BY <1>1, <1>4, <2>2, <2>3, OutcomeKeepsComplete DEF Open
  <1>5. CASE DatabaseAccepts(c[2]) /\ CommitExpired(c[2]) /\ Count(c, OutcomeOf(200))
    <2>1. OutcomeOf(200) = "expired" /\ "expired" \in Outcomes
      BY DEF OutcomeOf, Outcomes
    <2>2. /\ status'[c[2]] \notin EXPIRABLE_STATUSES
          /\ \A s \in Slots : status'[s] \in EXPIRABLE_STATUSES => status'[s] = status[s]
      BY <1>1, <1>5, CommitFacts DEF EXPIRABLE_STATUSES
    <2>3. Count(c, "expired")
      BY <1>5, <2>1
    <2> QED BY <1>1, <2>1, <2>2, <2>3, OutcomeKeepsComplete
  <1> QED BY <1>2, <1>3, <1>4, <1>5 DEF Patch, Serve, PatchFailed

LEMMA WorkerListComplete ==
    ASSUME IsFiniteSet(Slots), Cardinality(Slots) <= Limit, CompleteInv, List
    PROVE  PendingIsCovered' /\ CycleMissesNothing'
  <1>1. /\ TypeOK /\ CycleInv /\ PendingIsCovered /\ NewerIsAnother
        /\ cycle.pc = "list" /\ UNCHANGED status
        /\ cycle.statuses \in {ListedStatuses, <<"UNDER_REVIEW">>}
        /\ newer \in [Slots -> SUBSET Slots] /\ cycle.cutoff \subseteq Slots
    BY CycleTypes DEF CompleteInv, CycleInv, TypeOK, ListingInOrder, List, core
  <1>2. CASE PageArrives
    <2> DEFINE st == Head(cycle.statuses)
               rest == Tail(cycle.statuses)
               found == cycle.candidates \cup ({st} \X filter_expired(Page(st)))
               pc == IF rest # <<>> THEN "list" ELSE IF found # {} THEN "patch" ELSE "poll"
    <2>1. /\ cycle'.pc = pc /\ cycle'.statuses = rest /\ cycle'.candidates = found
          /\ cycle'.cutoff = cycle.cutoff /\ cycle'.report = cycle.report
      <3>1. cycle' = [cycle EXCEPT !.statuses = rest, !.candidates = found, !.attempt = 0, !.pc = pc]
        BY <1>2 DEF PageArrives
      <3> HIDE DEF rest, found, pc
      <3> QED BY <1>1, <3>1 DEF TypeOK, Cycle
    <2>2. ASSUME NEW s \in cycle.cutoff, status[s] = st
          PROVE  <<st, s>> \in found
      BY <1>1, <2>2, PageHoldsAll, LimitIsNat DEF filter_expired
    <2>3. CASE cycle.statuses = ListedStatuses
      <3>1. st = "PENDING" /\ rest = <<"UNDER_REVIEW">>
        BY <2>3 DEF ListedStatuses
      <3>2. cycle'.pc = "list" /\ \A s \in cycle.cutoff : status'[s] = "PENDING" => Covered(s)'
        BY <1>1, <2>1, <2>2, <3>1 DEF Covered, EXPIRABLE_STATUSES
      <3> QED BY <2>1, <3>2 DEF PendingIsCovered, CycleMissesNothing
    <2>4. CASE cycle.statuses = <<"UNDER_REVIEW">>
      <3>1. st = "UNDER_REVIEW" /\ rest = <<>>
        BY <2>4
      <3>2. ASSUME NEW s \in cycle.cutoff, status'[s] \in EXPIRABLE_STATUSES
            PROVE  Covered(s)'
        <4>1. CASE status[s] = "PENDING"
          <5>1. Covered(s)
            BY <1>1, <2>4, <4>1 DEF PendingIsCovered
          <5> QED BY <2>1, <5>1 DEF Covered
        <4>2. CASE status[s] = "UNDER_REVIEW"
          BY <2>1, <2>2, <3>1, <4>2 DEF Covered, EXPIRABLE_STATUSES
        <4> QED BY <1>1, <3>2, <4>1, <4>2 DEF EXPIRABLE_STATUSES
      <3>3. cycle'.pc # "list"
        BY <2>1, <3>1
      <3> QED BY <2>1, <3>2, <3>3 DEF PendingIsCovered, CycleMissesNothing, Covered, Open
    <2> QED BY <1>1, <2>3, <2>4
  <1>3. CASE ~LastAttempt /\ NextAttempt
    <2>1. cycle' = [cycle EXCEPT !.attempt = @ + 1, !.pc = "list"]
      BY <1>1, <1>3 DEF NextAttempt, TypeOK, Cycle
    <2>2. /\ cycle'.pc = "list" /\ cycle'.statuses = cycle.statuses /\ cycle'.cutoff = cycle.cutoff
          /\ cycle'.candidates = cycle.candidates /\ cycle'.report = cycle.report
      BY <1>1, <1>3, <2>1, RetryKeepsTypes
    <2> QED BY <1>1, <2>2 DEF PendingIsCovered, CycleMissesNothing, Covered
  <1>4. CASE AbortCycle
    BY <1>4, IdleTypes, IdleIsComplete DEF AbortCycle
  <1> QED BY <1>2, <1>3, <1>4 DEF List

LEMMA NextKeepsComplete ==
    ASSUME IsFiniteSet(Slots), Cardinality(Slots) <= Limit, CompleteInv, [Next]_vars
    PROVE  CompleteInv'
  <1>1. CycleInv /\ CycleInv' /\ TypeOK /\ OnlyDue
    BY NextKeeps DEF CompleteInv, CycleInv
  <1>2. NewerIsAnother'
    <2>1. CASE UNCHANGED newer
      BY <2>1 DEF CompleteInv, NewerIsAnother
    <2>2. ASSUME NEW s \in Slots, CreateIntent(s)
          PROVE  NewerIsAnother'
      BY <2>2 DEF CompleteInv, NewerIsAnother, CreateIntent
    <2> QED BY <2>1, <2>2 DEF Next, Environment, Worker, vars, core, MoveIntent, FallDue, TakesEffect,
               CoreGoesUpOrDown, TokenExpires, Crash, Start, StartCycle, List, Patch, Serve, ResetTimeout
  <1>3. PendingIsCovered' /\ CycleMissesNothing'
    <2>1. ASSUME NEW s \in Slots, CreateIntent(s)
          PROVE  PendingIsCovered' /\ CycleMissesNothing'
      <3>1. s \notin cycle.cutoff /\ cycle' = cycle /\ status' = [status EXCEPT ![s] = "PENDING"]
        BY <2>1 DEF CreateIntent, Free
      <3> QED BY <1>1, <3>1, CycleTypes, OthersKeepComplete DEF TypeOK
    <2>2. ASSUME NEW s \in Slots, MoveIntent(s)
          PROVE  PendingIsCovered' /\ CycleMissesNothing'
      <3>1. PICK next \in {"UNDER_REVIEW", "RESOLVED"} : status' = [status EXCEPT ![s] = next]
        BY <2>2 DEF MoveIntent
      <3>2. cycle' = cycle /\ status[s] \in EXPIRABLE_STATUSES
        BY <2>2 DEF MoveIntent, Open
      <3> QED BY <1>1, <3>1, <3>2, CycleTypes, OthersKeepComplete DEF TypeOK, EXPIRABLE_STATUSES
    <2>3. ASSUME NEW s \in Slots, TakesEffect(s)
          PROVE  PendingIsCovered' /\ CycleMissesNothing'
      <3>1. CommitExpired(s) /\ cycle' = cycle
        BY <2>3 DEF TakesEffect
      <3>2. \A t \in Slots : status'[t] \in EXPIRABLE_STATUSES => status'[t] = status[t]
        BY <1>1, <3>1, CommitFacts
      <3> QED BY <1>1, <3>1, <3>2, CycleTypes, OthersKeepComplete
    <2>4. CASE UNCHANGED <<status, cycle>>
      BY <2>4, OthersKeepComplete
    <2>5. CASE Crash \/ Start \/ StartCycle
      <3>1. \/ cycle'.pc = "down"
            \/ cycle'.pc = "poll" /\ cycle'.cutoff = {}
            \/ cycle'.pc = "list" /\ cycle'.statuses = ListedStatuses
        BY <2>5, IdleTypes DEF Crash, Start, StartCycle, Idle
      <3> QED BY <3>1, IdleIsComplete
    <2>6. CASE List
      BY <2>6, WorkerListComplete
    <2>7. ASSUME NEW c \in Candidates, Patch(c) \/ Serve(c)
          PROVE  PendingIsCovered' /\ CycleMissesNothing'
      BY <2>7, WorkerPatchComplete
    <2> QED BY <2>1, <2>2, <2>3, <2>4, <2>5, <2>6, <2>7
            DEF Next, Environment, Worker, vars, core, FallDue, CoreGoesUpOrDown, TokenExpires, ResetTimeout
  <1> QED BY <1>1, <1>2, <1>3 DEF CompleteInv

\* When a page can hold every open intent, the cycle misses none that was due
\* when it started, however intents move between the listings and whatever
\* becomes of the requests: at its end each is closed or counted as failed
\* (reconcile.py, _collect and _run).
THEOREM CycleNeverMisses ==
    ASSUME IsFiniteSet(Slots), Cardinality(Slots) <= Limit
    PROVE  Spec => []CycleMissesNothing
  <1>1. Init => CompleteInv
    BY InitHolds, IdleTypes DEF Init, CompleteInv, NewerIsAnother, PendingIsCovered, CycleMissesNothing
  <1>2. CompleteInv /\ [Next]_vars => CompleteInv'
    BY NextKeepsComplete
  <1>3. CompleteInv => CycleMissesNothing
    BY DEF CompleteInv
  <1> QED BY <1>1, <1>2, <1>3, PTL DEF Spec
===============================================================================
