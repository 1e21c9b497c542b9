--------------------------- MODULE RiskServiceProofs ---------------------------
(* The safety results of RiskService, for any set of events, any thresholds,   *)
(* any number of HTTP threads and any window.                                  *)
EXTENDS RiskService, FiniteSetTheorems, TLAPS

\* The range of an answer's score is set by its decision.
Separate(r) ==
    /\ r.decision = "APPROVE" => r.score \in 5..25
    /\ r.decision = "REVIEW" => r.score \in 60..80
    /\ r.decision = "REJECT" => r.score = 100

\* The amount adds between 0 and 20 points.
LEMMA AmountPoints ==
    ASSUME NEW amount \in Nat
    PROVE  amount_points(amount) \in 0..20
<1>1. CASE ReviewAmount = 0
    BY <1>1 DEF amount_points
<1>2. CASE ReviewAmount # 0
    <2>1. ReviewAmount \in Nat /\ ReviewAmount > 0
        BY <1>2, RulesAssumption
    <2>2. (20 * amount) \div ReviewAmount \in Nat
        BY <2>1
    <2> QED
        BY <1>2, <2>2 DEF amount_points, AtMost, AmountPointsMax
<1> QED
    BY <1>1, <1>2

LEMMA ReasonType ==
    ASSUME NEW e, NEW n
    PROVE  Reason(e, n) \in ReasonCodes
BY DEF Reason, ReasonCodes

\* What the rules return is an answer to the event they were asked about, and its
\* score is in the range of its decision.
LEMMA EvaluateAnswers ==
    ASSUME NEW e \in Events, NEW n \in Nat
    PROVE  /\ Evaluate(e, n) \in Answers
           /\ Evaluate(e, n).intent = e.intent
           /\ Separate(Evaluate(e, n))
<1> DEFINE code == Reason(e, n)
           p == amount_points(e.amount)
<1>1. code \in ReasonCodes
    BY ReasonType
<1>2. p \in 0..20
    <2>1. e.amount \in Nat
        BY ServiceAssumption
    <2> QED
        BY <2>1, AmountPoints
<1>3. e.intent \in Intents
    BY DEF Intents
<1>4. Evaluate(e, n) = [intent |-> e.intent, decision |-> DecisionFor[code],
                        reason |-> code, score |-> score_for(code, e.amount)]
    BY DEF Evaluate
<1> HIDE DEF code, p
<1>5. score_for(code, e.amount) =
        IF 5 + p + RULE_POINTS[code] <= 100 THEN 5 + p + RULE_POINTS[code] ELSE 100
    BY DEF score_for, AtMost, ScoreMax, BasePoints, p
<1>6. CASE code = "LOW_RISK"
    <2>1. RULE_POINTS[code] = 0 /\ DecisionFor[code] = "APPROVE"
        BY <1>6 DEF RULE_POINTS, DecisionFor, ReasonCodes
    <2>2. score_for(code, e.amount) \in 5..25
        BY <1>2, <1>5, <2>1
    <2> QED
        BY <1>1, <1>3, <1>4, <2>1, <2>2 DEF Answers, Separate, ScoreMax
<1>7. CASE code = "AMOUNT_ABOVE_REVIEW_THRESHOLD"
    <2>1. RULE_POINTS[code] = 55 /\ DecisionFor[code] = "REVIEW"
        BY <1>7 DEF RULE_POINTS, DecisionFor, ReasonCodes
    <2>2. score_for(code, e.amount) \in 60..80
        BY <1>2, <1>5, <2>1
    <2> QED
        BY <1>1, <1>3, <1>4, <2>1, <2>2 DEF Answers, Separate, ScoreMax
<1>8. CASE code \notin {"LOW_RISK", "AMOUNT_ABOVE_REVIEW_THRESHOLD"}
    <2>1. RULE_POINTS[code] \in {95, 100} /\ DecisionFor[code] = "REJECT"
        BY <1>1, <1>8 DEF RULE_POINTS, DecisionFor, ReasonCodes
    <2>2. score_for(code, e.amount) = 100
        BY <1>2, <1>5, <2>1
    <2> QED
        BY <1>1, <1>3, <1>4, <2>1, <2>2 DEF Answers, Separate, ScoreMax
<1> QED
    BY <1>6, <1>7, <1>8

--------------------------------------------------------------------------------
(* The rules are monotone                                                      *)

\* Dividing by the same threshold keeps the order.
LEMMA QuotientGrows ==
    ASSUME NEW x \in Nat, NEW y \in Nat, x <= y, NEW d \in Nat \ {0}
    PROVE  (x \div d) \in Nat /\ (y \div d) \in Nat /\ (x \div d) <= (y \div d)
<1> DEFINE p == x \div d
           q == y \div d
<1>1. p \in Nat /\ q \in Nat
    OBVIOUS
<1>2. d * p <= x /\ y < d * q + d
    OBVIOUS
<1> HIDE DEF p, q
<1>3. d * p < d * q + d
    BY <1>1, <1>2
<1>4. ASSUME p > q PROVE FALSE
    <2>1. PICK r \in Nat : p = q + 1 + r
        <3>1. p - q - 1 \in Nat /\ p = q + 1 + (p - q - 1)
            BY <1>1, <1>4
        <3> QED
            BY <3>1
    <2>2. d * p = d * q + d + d * r /\ d * r \in Nat
        BY <1>1, <2>1
    <2>3. d * p \in Nat /\ d * q \in Nat
        BY <1>1
    <2> QED
        BY <1>3, <2>2, <2>3
<1> QED
    BY <1>1, <1>4 DEF p, q

\* A greater amount is never given fewer points.
LEMMA AmountPointsGrow ==
    ASSUME NEW a \in Nat, NEW b \in Nat, a <= b
    PROVE  amount_points(a) <= amount_points(b)
<1>1. CASE ReviewAmount = 0
    BY <1>1 DEF amount_points
<1>2. CASE ReviewAmount # 0
    <2> DEFINE p == (20 * a) \div ReviewAmount
               q == (20 * b) \div ReviewAmount
    <2>1. ReviewAmount \in Nat \ {0} /\ 20 * a \in Nat /\ 20 * b \in Nat /\ 20 * a <= 20 * b
        BY <1>2, RulesAssumption
    <2>2. p \in Nat /\ q \in Nat /\ p <= q
        BY <2>1, QuotientGrows
    <2>3. amount_points(a) = AtMost(20, p) /\ amount_points(b) = AtMost(20, q)
        BY <1>2 DEF amount_points, AmountPointsMax
    <2> HIDE DEF p, q
    <2> QED
        BY <2>2, <2>3 DEF AtMost
<1> QED
    BY <1>1, <1>2

Severity == [d \in {"APPROVE", "REVIEW", "REJECT"} |->
                CASE d = "APPROVE" -> 0 [] d = "REVIEW" -> 1 [] d = "REJECT" -> 2]

\* A payment that is worse in every respect the rules look at (merchant, reference,
\* recent payments, amount) is never decided more kindly nor given a lower score,
\* for any thresholds (rules.py, RULES and evaluate; scoring.py, score_for).
THEOREM WorseIsNeverBetter ==
    ASSUME NEW e \in Events, NEW m \in Nat, NEW f \in Events, NEW n \in Nat,
           e.blocked => f.blocked, e.suspicious => f.suspicious,
           e.amount <= f.amount, m <= n
    PROVE  /\ Severity[Evaluate(e, m).decision] <= Severity[Evaluate(f, n).decision]
           /\ Evaluate(e, m).score <= Evaluate(f, n).score
<1> DEFINE c == Reason(e, m)
           d == Reason(f, n)
           p == amount_points(e.amount)
           q == amount_points(f.amount)
<1>1. e.amount \in Nat /\ f.amount \in Nat /\ VelocityMax \in Nat /\ ReviewAmount \in Nat
    BY ServiceAssumption, RulesAssumption
<1>2. p \in 0..20 /\ q \in 0..20 /\ p <= q
    BY <1>1, AmountPoints, AmountPointsGrow
<1>3. c \in ReasonCodes /\ d \in ReasonCodes
    BY ReasonType
<1>4. /\ Evaluate(e, m).decision = DecisionFor[c] /\ Evaluate(e, m).score = score_for(c, e.amount)
      /\ Evaluate(f, n).decision = DecisionFor[d] /\ Evaluate(f, n).score = score_for(d, f.amount)
    BY DEF Evaluate
\* What lets f through lets e through.
<1>5. /\ d = "LOW_RISK" => c = "LOW_RISK"
      /\ d = "AMOUNT_ABOVE_REVIEW_THRESHOLD" => c \in {"LOW_RISK", "AMOUNT_ABOVE_REVIEW_THRESHOLD"}
    <2>1. Fires("ABNORMAL_VELOCITY", e, m) => Fires("ABNORMAL_VELOCITY", f, n)
        BY <1>1 DEF Fires
    <2>2. Fires("AMOUNT_ABOVE_REVIEW_THRESHOLD", e, m) => Fires("AMOUNT_ABOVE_REVIEW_THRESHOLD", f, n)
        BY <1>1 DEF Fires
    <2>3. /\ Fires("MERCHANT_BLOCKED", e, m) => Fires("MERCHANT_BLOCKED", f, n)
          /\ Fires("SUSPICIOUS_REFERENCE", e, m) => Fires("SUSPICIOUS_REFERENCE", f, n)
        BY DEF Fires
    <2> QED
        BY <2>1, <2>2, <2>3 DEF Reason
<1> HIDE DEF c, d, p, q
<1>6. /\ score_for(c, e.amount) = AtMost(100, 5 + p + RULE_POINTS[c])
      /\ score_for(d, f.amount) = AtMost(100, 5 + q + RULE_POINTS[d])
    BY DEF score_for, ScoreMax, BasePoints, p, q
<1>7. \A r \in ReasonCodes :
         \/ r = "LOW_RISK" /\ RULE_POINTS[r] = 0 /\ Severity[DecisionFor[r]] = 0
         \/ r = "AMOUNT_ABOVE_REVIEW_THRESHOLD"
               /\ RULE_POINTS[r] = 55 /\ Severity[DecisionFor[r]] = 1
         \/ r \notin {"LOW_RISK", "AMOUNT_ABOVE_REVIEW_THRESHOLD"}
               /\ RULE_POINTS[r] \in {95, 100} /\ Severity[DecisionFor[r]] = 2
    BY DEF ReasonCodes, RULE_POINTS, DecisionFor, Severity
<1>8. Severity[DecisionFor[c]] <= Severity[DecisionFor[d]]
    BY <1>3, <1>5, <1>7
<1>9. score_for(c, e.amount) <= score_for(d, f.amount)
    <2>1. CASE d = "LOW_RISK"
        <3>1. RULE_POINTS[c] = 0 /\ RULE_POINTS[d] = 0
            BY <1>3, <1>5, <1>7, <2>1
        <3> QED
            BY <1>2, <1>6, <3>1 DEF AtMost
    <2>2. CASE d = "AMOUNT_ABOVE_REVIEW_THRESHOLD"
        <3>1. RULE_POINTS[c] \in {0, 55} /\ RULE_POINTS[d] = 55
            BY <1>3, <1>5, <1>7, <2>2
        <3> QED
            BY <1>2, <1>6, <3>1 DEF AtMost
    <2>3. CASE d \notin {"LOW_RISK", "AMOUNT_ABOVE_REVIEW_THRESHOLD"}
        <3>1. RULE_POINTS[c] \in {0, 55, 95, 100} /\ RULE_POINTS[d] \in {95, 100}
            BY <1>3, <1>7, <2>3
        <3> QED
            BY <1>2, <1>6, <3>1 DEF AtMost
    <2> QED
        BY <2>1, <2>2, <2>3
<1> QED
    BY <1>4, <1>8, <1>9

--------------------------------------------------------------------------------
(* Types of the helpers                                                        *)

\* count() is a natural number.
LEMMA RecentType ==
    ASSUME NEW m
    PROVE  Recent(m) \in Nat
<1> DEFINE S == {e \in Events : e.merchant = m /\ age[e.intent] < Window}
<1>1. IsFiniteSet(Events)
    BY ServiceAssumption
<1>2. S \subseteq Events
    OBVIOUS
<1>3. IsFiniteSet(S)
    BY <1>1, <1>2, FS_Subset
<1> QED
    BY <1>3, FS_CardinalityType DEF Recent

LEMMA ResolveType ==
    ASSUME NEW e \in Events, NEW own \in Nat
    PROVE  Resolve(e, own) \in Nat
BY ServiceAssumption DEF Resolve

\* What an actor holds is told by its program counter.
LEMMA Held ==
    ASSUME TypeOK, NEW a \in Actors
    PROVE  /\ At(a, "count") => at[a].event \in Events
           /\ At(a, "record") => at[a].event \in Events /\ at[a].own \in Nat
           /\ At(a, "publish") => at[a].event \in Events /\ at[a].answer \in Answers
<1>1. at[a] \in Steps
    BY DEF TypeOK
<1> QED
    BY <1>1 DEF Steps, At

\* What the three kinds of message make of the task.
LEMMA ParseType ==
    ASSUME NEW m \in Messages
    PROVE  /\ Parse(m) \in Steps
           /\ m = Malformed => Parse(m) = [pc |-> "commit"]
           /\ m = Uncaught => Parse(m) = [pc |-> "dead"]
           /\ m \in Events => Parse(m) = [pc |-> "count", event |-> m]
<1>1. CASE m = Malformed
    BY <1>1, ServiceAssumption DEF Parse, Steps
<1>2. CASE m = Uncaught
    BY <1>2, ServiceAssumption DEF Parse, Steps
<1>3. CASE m \in Events
    BY <1>3, ServiceAssumption DEF Parse, Steps
<1> QED
    BY <1>1, <1>2, <1>3 DEF Messages

--------------------------------------------------------------------------------
(* Types                                                                       *)

\* While the task is at a message, that message is in the topic.
Reading == at[Consumer].pc \in {"count", "record", "publish", "commit"}
               => offset < Len(requested)

TypeInv == TypeOK /\ Reading

LEMMA Windows == Window \in Nat /\ Window > 0 /\ Consumer \notin Threads
BY ServiceAssumption

LEMMA TypeStart == Init => TypeInv
<1> SUFFICES ASSUME Init PROVE TypeInv
    OBVIOUS
<1>1. at \in [Actors -> Steps]
    BY DEF Init, Steps
<1>2. at[Consumer].pc = "down" /\ \A t \in Threads : at[t].pc = "idle"
    BY Windows DEF Init, Actors
<1>3. age \in [Intents -> 0..Window]
    BY Windows DEF Init
<1>4. /\ requested \in Seq(Messages) /\ offset \in 0..Len(requested)
      /\ completed \subseteq Answers /\ told \subseteq Answers /\ consumer_up \in BOOLEAN
    <2>1. /\ requested = <<>> /\ offset = 0
          /\ completed = {} /\ told = {} /\ consumer_up = FALSE
        BY DEF Init
    <2>2. requested \in Seq(Messages) /\ Len(requested) = 0
        BY <2>1
    <2>3. offset \in 0..Len(requested)
        BY <2>1, <2>2
    <2> QED
        BY <2>1, <2>2, <2>3
<1> QED
    BY <1>1, <1>2, <1>3, <1>4 DEF TypeInv, TypeOK, Reading

\* count() and EvaluateNow only replace what one actor holds.
LEMMA TypeOfCount ==
    ASSUME TypeInv, NEW a \in Actors, Count(a)
    PROVE  TypeInv'
<1>1. at[a].event \in Events
    BY Held DEF Count, TypeInv
<1>2. Recent(at[a].event.merchant) \in Nat
    BY RecentType
<1> DEFINE s == [pc |-> "record", event |-> at[a].event,
                 own |-> Recent(at[a].event.merchant)]
<1>3. s \in Steps /\ s.pc = "record" /\ at[a].pc = "count"
    BY <1>1, <1>2 DEF Steps, Count, At
<1>4. at' = [at EXCEPT ![a] = s]
      /\ UNCHANGED <<requested, offset, completed, told, age, consumer_up>>
    BY DEF Count, Becomes
<1> HIDE DEF s
<1> QED
    BY <1>3, <1>4 DEF TypeInv, TypeOK, Reading, Actors

LEMMA TypeOfEvaluateNow ==
    ASSUME TypeInv, NEW t \in Threads, EvaluateNow(t)
    PROVE  TypeInv'
<1>1. PICK e \in Events : at' = [at EXCEPT ![t] = [pc |-> "count", event |-> e]]
    BY DEF EvaluateNow, Becomes
<1>2. [pc |-> "count", event |-> e] \in Steps
    BY DEF Steps
<1>3. UNCHANGED <<requested, offset, completed, told, age, consumer_up>>
    BY DEF EvaluateNow
<1> QED
    BY <1>1, <1>2, <1>3, Windows DEF TypeInv, TypeOK, Reading, Actors

\* What RecordAndEvaluate does, with the answer's properties.
LEMMA Evaluated ==
    ASSUME TypeInv, NEW a \in Actors, RecordAndEvaluate(a),
           NEW e, e = at[a].event, NEW r, r = Evaluate(e, Resolve(e, at[a].own))
    PROVE  /\ e \in Events /\ at[a].own \in Nat
           /\ r \in Answers /\ r.intent = e.intent /\ Separate(r)
           /\ e.recent # NoCount => r = Evaluate(e, e.recent)
           /\ at[a].pc = "record"
           /\ age' = [age EXCEPT ![e.intent] = 0]
           /\ UNCHANGED <<requested, offset, completed, consumer_up>>
           /\ \/ /\ a = Consumer
                 /\ at' = [at EXCEPT ![a] = [pc |-> "publish", event |-> e, answer |-> r]]
                 /\ UNCHANGED told
              \/ /\ a # Consumer
                 /\ at' = [at EXCEPT ![a] = [pc |-> "idle"]]
                 /\ told' = told \cup {r}
<1>1. e \in Events /\ at[a].own \in Nat
    BY Held DEF RecordAndEvaluate, TypeInv
<1>2. r \in Answers /\ r.intent = e.intent /\ Separate(r)
    BY <1>1, ResolveType, EvaluateAnswers
<1>3. e.recent # NoCount => r = Evaluate(e, e.recent)
    BY DEF Resolve
<1> QED
    BY <1>1, <1>2, <1>3 DEF RecordAndEvaluate, Becomes, At

LEMMA TypeOfRecord ==
    ASSUME TypeInv, NEW a \in Actors, RecordAndEvaluate(a)
    PROVE  TypeInv'
<1> DEFINE e == at[a].event
           r == Evaluate(e, Resolve(e, at[a].own))
           p == [pc |-> "publish", event |-> e, answer |-> r]
           i == [pc |-> "idle"]
<1>1. /\ e \in Events /\ r \in Answers /\ at[a].pc = "record"
      /\ age' = [age EXCEPT ![e.intent] = 0]
      /\ UNCHANGED <<requested, offset, completed, consumer_up>>
      /\ \/ a = Consumer /\ at' = [at EXCEPT ![a] = p] /\ UNCHANGED told
         \/ a # Consumer /\ at' = [at EXCEPT ![a] = i] /\ told' = told \cup {r}
    BY Evaluated
<1>2. p \in Steps /\ i \in Steps /\ p.pc = "publish" /\ i.pc = "idle"
    BY <1>1 DEF Steps
<1> HIDE DEF e, r, p, i
<1>3. age' \in [Intents -> 0..Window]
    <2>1. age \in [Intents -> 0..Window]
        BY DEF TypeInv, TypeOK
    <2>2. 0 \in 0..Window
        BY Windows
    <2>3. age' = [age EXCEPT ![e.intent] = 0]
        BY <1>1
    <2> QED
        BY <2>1, <2>2, <2>3
<1>4. told' \subseteq Answers
    BY <1>1 DEF TypeInv, TypeOK
<1>5. /\ at' \in [Actors -> Steps]
      /\ \A t \in Threads : at'[t].pc \in {"idle", "count", "record"}
    <2>1. /\ at \in [Actors -> Steps]
          /\ \A t \in Threads : t \in Actors /\ at[t].pc \in {"idle", "count", "record"}
        BY DEF TypeInv, TypeOK, Actors
    <2>2. CASE a = Consumer /\ at' = [at EXCEPT ![a] = p]
        BY <2>1, <2>2, <1>2, Windows
    <2>3. CASE a # Consumer /\ at' = [at EXCEPT ![a] = i]
        BY <2>1, <2>3, <1>2
    <2> QED
        BY <1>1, <2>2, <2>3
<1>6. Reading'
    BY <1>1, <1>2, Windows DEF TypeInv, TypeOK, Reading, Actors
<1> QED
    BY <1>1, <1>3, <1>4, <1>5, <1>6 DEF TypeInv, TypeOK

LEMMA TypeStep == TypeInv /\ [Next]_vars => TypeInv'
<1> SUFFICES ASSUME TypeInv, [Next]_vars PROVE TypeInv'
    OBVIOUS
<1>1. CASE Request
    <2>1. PICK m \in Messages : requested' = Append(requested, m)
        BY <1>1 DEF Request
    <2>2. requested' \in Seq(Messages) /\ Len(requested') = Len(requested) + 1
        BY <2>1 DEF TypeInv, TypeOK
    <2> QED
        BY <1>1, <2>2 DEF TypeInv, TypeOK, Reading, Request
<1>2. CASE Tick
    <2>1. age' \in [Intents -> 0..Window]
        BY <1>2, Windows DEF TypeInv, TypeOK, Tick, AtMost
    <2> QED
        BY <1>2, <2>1 DEF TypeInv, TypeOK, Reading, Tick
<1>3. CASE Crash
    <2>1. at' \in [Actors -> Steps]
        BY <1>3 DEF Crash, Steps
    <2>2. at'[Consumer].pc = "down" /\ \A t \in Threads : at'[t].pc = "idle"
        BY <1>3, Windows DEF Crash, Actors
    <2>3. age' \in [Intents -> 0..Window]
        BY <1>3, Windows DEF Crash
    <2>4. consumer_up' \in BOOLEAN /\ UNCHANGED <<requested, offset, completed, told>>
        BY <1>3 DEF Crash
    <2> QED
        BY <2>1, <2>2, <2>3, <2>4 DEF TypeInv, TypeOK, Reading
<1>4. CASE Start
    <2>1. [pc |-> "poll"] \in Steps
        BY DEF Steps
    <2> QED
        BY <1>4, <2>1, Windows DEF TypeInv, TypeOK, Reading, Start, Becomes, Actors
<1>5. ASSUME NEW a \in Actors, Count(a) PROVE TypeInv'
    BY <1>5, TypeOfCount
<1>6. ASSUME NEW a \in Actors, RecordAndEvaluate(a) PROVE TypeInv'
    BY <1>6, TypeOfRecord
<1>7. ASSUME NEW t \in Threads, EvaluateNow(t) PROVE TypeInv'
    BY <1>7, TypeOfEvaluateNow
<1>8. CASE Fetch
    <2> DEFINE s == Parse(requested[offset + 1])
    <2>1. requested[offset + 1] \in Messages /\ offset < Len(requested)
        BY <1>8 DEF TypeInv, TypeOK, Fetch
    <2>2. s \in Steps
        BY <2>1, ParseType
    <2>3. at' = [at EXCEPT ![Consumer] = s]
          /\ UNCHANGED <<requested, offset, completed, told, age, consumer_up>>
        BY <1>8 DEF Fetch, Becomes
    <2> HIDE DEF s
    <2> QED
        BY <2>1, <2>2, <2>3, Windows DEF TypeInv, TypeOK, Reading, Actors
<1>9. CASE Publish
    <2>1. at[Consumer].answer \in Answers
        BY <1>9, Held DEF Publish, TypeInv, Actors
    <2>2. [pc |-> "commit"] \in Steps /\ [pc |-> "dead"] \in Steps
        BY DEF Steps
    <2> QED
        BY <1>9, <2>1, <2>2, Windows
        DEF TypeInv, TypeOK, Reading, Publish, Send, Becomes, At, Actors
<1>10. CASE Commit
    <2>1. [pc |-> "poll"] \in Steps /\ [pc |-> "dead"] \in Steps
        BY DEF Steps
    <2> QED
        BY <1>10, <2>1, Windows DEF TypeInv, TypeOK, Reading, Commit, Becomes, At, Actors
<1>11. CASE UNCHANGED vars
    BY <1>11 DEF TypeInv, TypeOK, Reading, vars
<1> QED
    BY <1>1, <1>2, <1>3, <1>4, <1>5, <1>6, <1>7, <1>8, <1>9, <1>10, <1>11
    DEF Next, ConsumerStep, Actors

\* RiskService: the types, with the offset inside the topic.
THEOREM RiskTypeCorrect == Spec => []TypeOK
<1>1. Spec => []TypeInv
    BY TypeStart, TypeStep, PTL DEF Spec
<1>2. TypeInv => TypeOK
    BY DEF TypeInv
<1> QED
    BY <1>1, <1>2, PTL

--------------------------------------------------------------------------------
(* At-least-once answers                                                       *)

\* The task works at the first message that is not committed, and commits it
\* only when its answer is in the topic.
Delivery ==
    /\ CommittedIsAnswered
    /\ at[Consumer].pc \in {"count", "record", "publish"}
           => at[Consumer].event = requested[offset + 1]
    /\ at[Consumer].pc = "publish" => at[Consumer].answer.intent = at[Consumer].event.intent
    /\ at[Consumer].pc = "commit" => IsAnswered(offset + 1)

\* The messages below a position that stay in the topic stay answered.
LEMMA StaysAnswered ==
    ASSUME completed \subseteq completed', NEW k, requested'[k] = requested[k], IsAnswered(k)
    PROVE  IsAnswered(k)'
BY DEF IsAnswered

\* A step of another actor, or of the environment, leaves the delivery alone.
LEMMA DeliveryElsewhere ==
    ASSUME Delivery, at'[Consumer] = at[Consumer],
           requested' = requested, offset' = offset, completed' = completed
    PROVE  Delivery'
BY DEF Delivery, CommittedIsAnswered, IsAnswered

LEMMA DeliveryStep == TypeInv /\ Delivery /\ [Next]_vars => Delivery'
<1> SUFFICES ASSUME TypeInv, Delivery, [Next]_vars PROVE Delivery'
    OBVIOUS
<1>0. Consumer \in Actors /\ at \in [Actors -> Steps] /\ offset \in 0..Len(requested)
    BY DEF TypeInv, TypeOK, Actors
<1>1. CASE Request
    <2>1. PICK m \in Messages : requested' = Append(requested, m)
        BY <1>1 DEF Request
    <2>2. \A k \in 1..Len(requested) : requested'[k] = requested[k]
        BY <2>1 DEF TypeInv, TypeOK
    <2>3. UNCHANGED <<offset, completed, at>>
        BY <1>1 DEF Request
    <2>4. \A k \in 1..Len(requested) : IsAnswered(k) => IsAnswered(k)'
        BY <2>2, <2>3, StaysAnswered
    <2>5. at[Consumer].pc \in {"count", "record", "publish", "commit"}
             => offset + 1 \in 1..Len(requested)
        BY <1>0 DEF TypeInv, TypeOK, Reading
    <2>6. CommittedIsAnswered'
        BY <1>0, <2>3, <2>4 DEF Delivery, CommittedIsAnswered, TypeInv, TypeOK
    <2> QED
        BY <2>2, <2>3, <2>4, <2>5, <2>6 DEF Delivery
<1>2. CASE Tick
    BY <1>2, DeliveryElsewhere DEF Tick
<1>3. CASE Crash
    <2>1. at'[Consumer].pc = "down" /\ UNCHANGED <<requested, offset, completed>>
        BY <1>3, <1>0 DEF Crash
    <2> QED
        BY <2>1 DEF Delivery, CommittedIsAnswered, IsAnswered
<1>4. CASE Start
    <2>1. at'[Consumer].pc = "poll" /\ UNCHANGED <<requested, offset, completed>>
        BY <1>4, <1>0 DEF Start, Becomes
    <2> QED
        BY <2>1 DEF Delivery, CommittedIsAnswered, IsAnswered
<1>5. ASSUME NEW a \in Actors, Count(a) PROVE Delivery'
    <2>1. UNCHANGED <<requested, offset, completed>>
        BY <1>5 DEF Count
    <2>2. CASE a = Consumer
        <3>1. /\ at[Consumer].pc = "count" /\ at'[Consumer].pc = "record"
              /\ at'[Consumer].event = at[Consumer].event
            BY <1>5, <1>0, <2>2 DEF Count, Becomes, At
        <3> QED
            BY <2>1, <3>1 DEF Delivery, CommittedIsAnswered, IsAnswered
    <2>3. CASE a # Consumer
        <3>1. at'[Consumer] = at[Consumer]
            BY <1>5, <1>0, <2>3 DEF Count, Becomes
        <3> QED
            BY <2>1, <3>1, DeliveryElsewhere
    <2> QED
        BY <2>2, <2>3
<1>6. ASSUME NEW a \in Actors, RecordAndEvaluate(a) PROVE Delivery'
    <2> DEFINE e == at[a].event
               r == Evaluate(e, Resolve(e, at[a].own))
               p == [pc |-> "publish", event |-> e, answer |-> r]
    <2>1. /\ r.intent = e.intent /\ at[a].pc = "record"
          /\ UNCHANGED <<requested, offset, completed>>
          /\ \/ a = Consumer /\ at' = [at EXCEPT ![a] = p]
             \/ a # Consumer /\ at' = [at EXCEPT ![a] = [pc |-> "idle"]]
        BY <1>6, Evaluated
    <2>2. p.pc = "publish" /\ p.event = e /\ p.answer = r
        OBVIOUS
    <2> HIDE DEF r, p
    <2>3. CASE a = Consumer
        <3>1. at'[Consumer] = p
            BY <1>0, <2>1, <2>3
        <3> QED
            BY <2>1, <2>2, <2>3, <3>1 DEF Delivery, CommittedIsAnswered, IsAnswered
    <2>4. CASE a # Consumer
        <3>1. at'[Consumer] = at[Consumer]
            BY <1>0, <2>1, <2>4
        <3> QED
            BY <2>1, <3>1, DeliveryElsewhere
    <2> QED
        BY <2>3, <2>4
<1>7. ASSUME NEW t \in Threads, EvaluateNow(t) PROVE Delivery'
    <2>1. at'[Consumer] = at[Consumer]
        BY <1>7, <1>0, Windows DEF EvaluateNow, Becomes
    <2> QED
        BY <1>7, <2>1, DeliveryElsewhere DEF EvaluateNow
<1>8. CASE Fetch
    <2>1. at'[Consumer] = Parse(requested[offset + 1])
          /\ UNCHANGED <<requested, offset, completed>>
        BY <1>8, <1>0 DEF Fetch, Becomes
    <2>2. requested[offset + 1] \in Messages
        BY <1>8 DEF TypeInv, TypeOK, Fetch
    <2>3. CASE requested[offset + 1] = Malformed
        <3>1. at'[Consumer].pc = "commit" /\ IsAnswered(offset + 1)
            BY <2>1, <2>2, <2>3, ParseType DEF IsAnswered
        <3> QED
            BY <2>1, <3>1 DEF Delivery, CommittedIsAnswered, IsAnswered
    <2>4. CASE requested[offset + 1] = Uncaught
        <3>1. at'[Consumer].pc = "dead"
            BY <2>1, <2>2, <2>4, ParseType
        <3> QED
            BY <2>1, <3>1 DEF Delivery, CommittedIsAnswered, IsAnswered
    <2>5. CASE requested[offset + 1] \in Events
        <3>1. at'[Consumer].pc = "count" /\ at'[Consumer].event = requested[offset + 1]
            BY <2>1, <2>2, <2>5, ParseType
        <3> QED
            BY <2>1, <3>1 DEF Delivery, CommittedIsAnswered, IsAnswered
    <2> QED
        BY <2>2, <2>3, <2>4, <2>5 DEF Messages
<1>9. CASE Publish
    <2>1. UNCHANGED <<requested, offset>> /\ completed \subseteq completed'
        BY <1>9 DEF Publish, Send
    <2>2. at[Consumer].pc = "publish"
        BY <1>9 DEF Publish, At
    <2>3. \/ at'[Consumer].pc = "commit" /\ at[Consumer].answer \in completed'
          \/ at'[Consumer].pc = "dead"
        BY <1>9, <1>0 DEF Publish, Send, Becomes
    <2>4. at[Consumer].answer \in completed' => IsAnswered(offset + 1)'
        <3>1. at[Consumer].event \in Events
            BY <1>0, <2>2, Held DEF TypeInv, At
        <3> QED
            BY <2>1, <2>2, <3>1 DEF Delivery, IsAnswered
    <2>5. CommittedIsAnswered'
        BY <2>1, StaysAnswered DEF Delivery, CommittedIsAnswered
    <2> QED
        BY <2>1, <2>3, <2>4, <2>5 DEF Delivery
<1>10. CASE Commit
    <2>1. at'[Consumer].pc \in {"poll", "dead"} /\ UNCHANGED <<requested, completed>>
        BY <1>10, <1>0 DEF Commit, Becomes
    <2>2. offset' \in {offset, offset + 1}
        BY <1>10 DEF Commit
    <2>3. IsAnswered(offset + 1)
        BY <1>10 DEF Commit, At, Delivery
    <2>4. \A k \in 1..offset' : IsAnswered(k)
        BY <1>0, <2>2, <2>3 DEF Delivery, CommittedIsAnswered
    <2>5. CommittedIsAnswered'
        BY <2>1, <2>4 DEF CommittedIsAnswered, IsAnswered
    <2> QED
        BY <2>1, <2>5 DEF Delivery
<1>11. CASE UNCHANGED vars
    BY <1>11, DeliveryElsewhere DEF vars
<1> QED
    BY <1>1, <1>2, <1>3, <1>4, <1>5, <1>6, <1>7, <1>8, <1>9, <1>10, <1>11
    DEF Next, ConsumerStep, Actors

LEMMA DeliveryAlways == Spec => [](TypeInv /\ Delivery)
<1>1. Init => TypeInv /\ Delivery
    <2> SUFFICES ASSUME Init PROVE Delivery
        BY TypeStart
    <2>1. at[Consumer].pc = "down" /\ offset = 0
        BY DEF Init, Actors
    <2> QED
        BY <2>1 DEF Delivery, CommittedIsAnswered
<1>2. TypeInv /\ Delivery /\ [Next]_vars => (TypeInv /\ Delivery)'
    BY TypeStep, DeliveryStep
<1> QED
    BY <1>1, <1>2, PTL DEF Spec

\* RiskEventWorker.run: whatever dies and wherever, a committed message was
\* malformed or has its answer in the topic.
THEOREM CommittedAlwaysAnswered == Spec => []CommittedIsAnswered
<1>1. TypeInv /\ Delivery => CommittedIsAnswered
    BY DEF Delivery
<1> QED
    BY <1>1, DeliveryAlways, PTL

\* Nothing from a message that _handle does not catch on is ever committed, however
\* often the process is restarted: it stops the partition, which _handle says an
\* invalid message cannot do.
THEOREM UncaughtStopsThePartition ==
    Spec => [](\A k \in 1..Len(requested) : requested[k] = Uncaught => offset < k)
<1>1. TypeInv /\ Delivery =>
        \A k \in 1..Len(requested) : requested[k] = Uncaught => offset < k
    <2> SUFFICES ASSUME TypeInv, Delivery, NEW k \in 1..Len(requested),
                        requested[k] = Uncaught, ~(offset < k)
                 PROVE  FALSE
        OBVIOUS
    <2>1. k \in 1..offset
        BY DEF TypeInv, TypeOK
    <2>2. requested[k] = Malformed \/ requested[k] \in Events
        BY <2>1 DEF Delivery, CommittedIsAnswered, IsAnswered
    <2> QED
        BY <2>2, ServiceAssumption
<1> QED
    BY <1>1, DeliveryAlways, PTL

\* The topic as AtLeastOnce sees it.
KeyTopic == [k \in DOMAIN requested |-> KeyOf(requested[k])]

\* Append, value by value.
LEMMA AppendedKeys ==
    ASSUME NEW S, NEW q \in Seq(S), NEW x \in S
    PROVE  Append(q, x) = [k \in 1..(Len(q) + 1) |-> IF k <= Len(q) THEN q[k] ELSE x]
<1> DEFINE a == Append(q, x)
           f == [k \in 1..(Len(q) + 1) |-> IF k <= Len(q) THEN q[k] ELSE x]
<1>1. a \in Seq(S) /\ Len(a) = Len(q) + 1 /\ Len(q) \in Nat
    OBVIOUS
<1>2. \A k \in 1..(Len(q) + 1) : a[k] = IF k <= Len(q) THEN q[k] ELSE x
    OBVIOUS
<1>3. \A k \in 1..(Len(q) + 1) : a[k] = f[k]
    BY <1>2
<1>4. \A s \in Seq(S) : s = [k \in 1..Len(s) |-> s[k]]
    OBVIOUS
<1>5. f = [k \in 1..(Len(q) + 1) |-> f[k]]
    OBVIOUS
<1> HIDE DEF a, f
<1>6. a = f
    BY <1>1, <1>3, <1>4, <1>5
<1> QED
    BY <1>6 DEF a, f

\* A message appended is a key appended.
LEMMA KeysAppended ==
    ASSUME NEW m \in Messages, TypeOK, requested' = Append(requested, m)
    PROVE  KeyTopic' = Append(KeyTopic, KeyOf(m))
<1> DEFINE n == Len(requested)
           K == Intents \cup {Malformed}
<1>1. /\ requested \in Seq(Messages) /\ n \in Nat
      /\ DOMAIN requested = 1..n /\ DOMAIN requested' = 1..(n + 1)
      /\ \A k \in 1..n : requested'[k] = requested[k] /\ requested[k] \in Messages
      /\ requested'[n + 1] = m
    BY DEF TypeOK
<1> HIDE DEF n
<1>2. \A x \in Messages : KeyOf(x) \in K
    BY DEF KeyOf, Intents
<1> HIDE DEF K
<1>3. KeyTopic \in Seq(K) /\ Len(KeyTopic) = n /\ \A k \in 1..n : KeyTopic[k] = KeyOf(requested[k])
    BY <1>1, <1>2 DEF KeyTopic
<1>4. Append(KeyTopic, KeyOf(m)) =
        [k \in 1..(n + 1) |-> IF k <= n THEN KeyTopic[k] ELSE KeyOf(m)]
    BY <1>2, <1>3, AppendedKeys
<1>5. KeyTopic' = [k \in 1..(n + 1) |-> KeyOf(requested'[k])]
    BY <1>1 DEF KeyTopic, KeyOf
<1>6. \A k \in 1..(n + 1) : KeyOf(requested'[k]) = IF k <= n THEN KeyTopic[k] ELSE KeyOf(m)
    <2> SUFFICES ASSUME NEW k \in 1..(n + 1)
                 PROVE  KeyOf(requested'[k]) = IF k <= n THEN KeyTopic[k] ELSE KeyOf(m)
        OBVIOUS
    <2>1. CASE k \in 1..n
        BY <1>1, <1>3, <2>1
    <2>2. CASE k = n + 1
        BY <1>1, <2>2
    <2> QED
        BY <1>1, <2>1, <2>2
<1> QED
    BY <1>4, <1>5, <1>6

\* The message the task is at, as AtLeastOnce sees it.
LEMMA CurrentKey ==
    ASSUME TypeOK, offset < Len(requested)
    PROVE  /\ offset < Len(KeyTopic)
           /\ requested[offset + 1] \in Messages
           /\ KeyTopic[offset + 1] = KeyOf(requested[offset + 1])
<1>1. /\ requested \in Seq(Messages) /\ Len(requested) \in Nat
      /\ offset + 1 \in 1..Len(requested) /\ DOMAIN requested = 1..Len(requested)
    BY DEF TypeOK
<1>2. Len(KeyTopic) = Len(requested)
    BY <1>1 DEF KeyTopic
<1> QED
    BY <1>1, <1>2 DEF KeyTopic

\* The three steps of the delivery: core-api asks, the task answers what it is at,
\* the task commits what it is at.
LEMMA StepIsAtLeastOnce ==
    ASSUME TypeInv, Delivery, [Next]_vars
    PROVE  LeastOnce!LeastNext
              \/ UNCHANGED <<KeyTopic, offset, {r.intent : r \in completed}>>
<1> DEFINE Done == {r.intent : r \in completed}
<1>0. TypeOK /\ Reading
    BY DEF TypeInv
<1>1. ASSUME UNCHANGED <<requested, offset, completed>>
      PROVE  UNCHANGED <<KeyTopic, offset, Done>>
    BY <1>1 DEF KeyTopic, KeyOf
<1>2. CASE Request
    <2>1. PICK m \in Messages : requested' = Append(requested, m)
        BY <1>2 DEF Request
    <2>2. KeyTopic' = Append(KeyTopic, KeyOf(m)) /\ KeyOf(m) \in Intents \cup {Malformed}
        BY <1>0, <2>1, KeysAppended DEF KeyOf, Intents
    <2>3. UNCHANGED <<offset, Done>>
        BY <1>2 DEF Request
    <2> QED
        BY <2>2, <2>3 DEF LeastOnce!LeastNext, LeastOnce!Produce, KeyTopic
<1>3. CASE Publish
    <2>1. /\ UNCHANGED <<requested, offset>> /\ at[Consumer].pc = "publish"
          /\ completed' = completed \/ completed' = completed \cup {at[Consumer].answer}
        BY <1>3 DEF Publish, Send, At
    <2>2. CASE completed' = completed
        BY <1>1, <2>1, <2>2
    <2>3. CASE completed' = completed \cup {at[Consumer].answer}
        <3>1. /\ offset < Len(requested)
              /\ at[Consumer].event \in Events
              /\ at[Consumer].event = requested[offset + 1]
              /\ at[Consumer].answer.intent = requested[offset + 1].intent
            BY <1>0, <2>1, Held DEF Reading, Delivery, At, Actors
        <3>2. /\ KeyOf(requested[offset + 1]) = requested[offset + 1].intent
              /\ requested[offset + 1].intent # Malformed
            BY <3>1, ServiceAssumption DEF KeyOf, Intents
        <3>3. Done' = Done \cup {at[Consumer].answer.intent}
            BY <2>3
        <3>4. /\ offset < Len(KeyTopic) /\ KeyTopic[offset + 1] # Malformed
              /\ Done' = Done \cup {KeyTopic[offset + 1]}
            BY <1>0, <3>1, <3>2, <3>3, CurrentKey
        <3>5. UNCHANGED <<KeyTopic, offset>>
            BY <2>1 DEF KeyTopic, KeyOf
        <3> QED
            BY <3>4, <3>5 DEF LeastOnce!LeastNext, LeastOnce!Answer, LeastOnce!Current, KeyTopic
    <2> QED
        BY <2>1, <2>2, <2>3
<1>4. CASE Commit
    <2>1. /\ UNCHANGED <<requested, completed>> /\ at[Consumer].pc = "commit"
          /\ offset' = offset \/ offset' = offset + 1
        BY <1>4 DEF Commit, At
    <2>2. CASE offset' = offset
        BY <1>1, <2>1, <2>2
    <2>3. CASE offset' = offset + 1
        <3>1. offset < Len(requested) /\ IsAnswered(offset + 1)
            BY <1>0, <2>1 DEF Reading, Delivery
        <3>2. /\ offset < Len(KeyTopic)
              /\ KeyTopic[offset + 1] = KeyOf(requested[offset + 1])
            BY <1>0, <3>1, CurrentKey
        <3>3. KeyTopic[offset + 1] \in Done \cup {Malformed}
            <4>1. CASE requested[offset + 1] = Malformed
                BY <3>2, <4>1, ServiceAssumption DEF KeyOf
            <4>2. CASE requested[offset + 1] \in Events
                <5>1. KeyTopic[offset + 1] = requested[offset + 1].intent
                    BY <3>2, <4>2 DEF KeyOf
                <5>2. requested[offset + 1] # Malformed
                    BY <4>2, ServiceAssumption
                <5>3. PICK r \in completed : r.intent = requested[offset + 1].intent
                    BY <3>1, <5>2 DEF IsAnswered
                <5> QED
                    BY <5>1, <5>3
            <4> QED
                BY <3>1, <4>1, <4>2 DEF IsAnswered
        <3>4. UNCHANGED <<KeyTopic, Done>>
            BY <2>1 DEF KeyTopic, KeyOf
        <3> QED
            BY <2>3, <3>2, <3>3, <3>4
            DEF LeastOnce!LeastNext, LeastOnce!Commit, LeastOnce!Current, KeyTopic
    <2> QED
        BY <2>1, <2>2, <2>3
<1>5. CASE Tick \/ Crash \/ Start \/ Fetch \/ UNCHANGED vars
    BY <1>1, <1>5 DEF Tick, Crash, Start, Fetch, vars
<1>6. ASSUME NEW a \in Actors, Count(a) \/ RecordAndEvaluate(a) \/ EvaluateNow(a)
      PROVE  UNCHANGED <<requested, offset, completed>>
    BY <1>6 DEF Count, RecordAndEvaluate, EvaluateNow
<1> QED
    BY <1>1, <1>2, <1>3, <1>4, <1>5, <1>6 DEF Next, ConsumerStep, Actors

\* However the task, the process, a publication or a commit ends, the service is an
\* at-least-once delivery of the topic (kafka_consumer.py, RiskEventWorker.run).
THEOREM AnswersAtLeastOnce == Spec => ImplementsAtLeastOnce
<1> DEFINE seen == <<KeyTopic, offset, {r.intent : r \in completed}>>
<1>1. Init => LeastOnce!LeastInit
    <2> SUFFICES ASSUME Init PROVE LeastOnce!LeastInit
        OBVIOUS
    <2>1. requested = <<>> /\ offset = 0 /\ completed = {}
        BY DEF Init
    <2>2. [k \in DOMAIN requested |-> KeyOf(requested[k])] = <<>>
        BY <2>1
    <2>3. {r.intent : r \in completed} = {}
        BY <2>1
    <2> QED
        BY <2>1, <2>2, <2>3 DEF LeastOnce!LeastInit
<1>2. TypeInv /\ Delivery /\ [Next]_vars => [LeastOnce!LeastNext]_seen
    BY StepIsAtLeastOnce
<1> QED
    BY <1>1, <1>2, DeliveryAlways, PTL
    DEF Spec, ImplementsAtLeastOnce, LeastOnce!LeastSpec, KeyTopic

--------------------------------------------------------------------------------
(* The answers                                                                 *)

\* An answer that explains itself and, when the event carries the core's count,
\* that no other evaluation of the event can differ from.
Right(r) ==
    /\ Separate(r)
    /\ \A e \in Events : e.recent # NoCount /\ r.intent = e.intent
                            => r = Evaluate(e, e.recent)

AllRight ==
    /\ \A r \in completed \cup told : Right(r)
    /\ at[Consumer].pc = "publish" => Right(at[Consumer].answer)

\* Two evaluations of an event that carries the core's count are equal, because
\* what they share, the window, is not looked at.
LEMMA EvaluatedIsRight ==
    ASSUME NEW e \in Events, NEW r, Separate(r), r.intent = e.intent,
           e.recent # NoCount => r = Evaluate(e, e.recent)
    PROVE  Right(r)
<1>1. \A f \in Events : f.intent = e.intent => f = e
    BY ServiceAssumption
<1> QED
    BY <1>1 DEF Right

LEMMA AllRightStep == TypeInv /\ AllRight /\ [Next]_vars => AllRight'
<1> SUFFICES ASSUME TypeInv, AllRight, [Next]_vars PROVE AllRight'
    OBVIOUS
<1>0. Consumer \in Actors /\ at \in [Actors -> Steps]
    BY DEF TypeInv, TypeOK, Actors
<1>1. ASSUME completed' = completed, told' = told, at'[Consumer] = at[Consumer]
      PROVE  AllRight'
    BY <1>1 DEF AllRight
<1>2. ASSUME completed' = completed, told' = told, at'[Consumer].pc # "publish"
      PROVE  AllRight'
    BY <1>2 DEF AllRight
<1>3. CASE Request \/ Tick \/ UNCHANGED vars
    BY <1>1, <1>3 DEF Request, Tick, vars
<1>4. CASE Crash
    <2>1. at'[Consumer].pc = "down" /\ completed' = completed /\ told' = told
        BY <1>0, <1>4 DEF Crash
    <2> QED
        BY <1>2, <2>1
<1>5. CASE Start
    <2>1. at'[Consumer].pc = "poll" /\ completed' = completed /\ told' = told
        BY <1>0, <1>5 DEF Start, Becomes
    <2> QED
        BY <1>2, <2>1
<1>6. ASSUME NEW a \in Actors, Count(a) PROVE AllRight'
    <2>1. completed' = completed /\ told' = told
        BY <1>6 DEF Count
    <2>2. at'[Consumer] = at[Consumer] \/ at'[Consumer].pc = "record"
        BY <1>0, <1>6 DEF Count, Becomes
    <2> QED
        BY <1>1, <1>2, <2>1, <2>2
<1>7. ASSUME NEW a \in Actors, RecordAndEvaluate(a) PROVE AllRight'
    <2> DEFINE e == at[a].event
               r == Evaluate(e, Resolve(e, at[a].own))
               p == [pc |-> "publish", event |-> e, answer |-> r]
    <2>1. /\ e \in Events /\ r.intent = e.intent /\ Separate(r)
          /\ e.recent # NoCount => r = Evaluate(e, e.recent)
          /\ completed' = completed
          /\ \/ a = Consumer /\ at' = [at EXCEPT ![a] = p] /\ told' = told
             \/ a # Consumer /\ at' = [at EXCEPT ![a] = [pc |-> "idle"]]
                             /\ told' = told \cup {r}
        BY <1>7, Evaluated
    <2>2. p.answer = r
        OBVIOUS
    <2> HIDE DEF e, r, p
    <2>3. Right(r)
        BY <2>1, EvaluatedIsRight
    <2>4. CASE a = Consumer
        <3>1. at'[Consumer] = p /\ told' = told
            BY <1>0, <2>1, <2>4
        <3> QED
            BY <2>1, <2>2, <2>3, <3>1 DEF AllRight
    <2>5. CASE a # Consumer
        <3>1. at'[Consumer] = at[Consumer] /\ told' = told \cup {r}
            BY <1>0, <2>1, <2>5
        <3> QED
            BY <2>1, <2>3, <3>1 DEF AllRight
    <2> QED
        BY <2>4, <2>5
<1>8. ASSUME NEW t \in Threads, EvaluateNow(t) PROVE AllRight'
    <2>1. at'[Consumer] = at[Consumer]
        BY <1>0, <1>8, Windows DEF EvaluateNow, Becomes
    <2> QED
        BY <1>1, <1>8, <2>1 DEF EvaluateNow
<1>9. CASE Fetch
    <2>1. at'[Consumer] = Parse(requested[offset + 1]) /\ requested[offset + 1] \in Messages
        BY <1>0, <1>9 DEF Fetch, Becomes, TypeInv, TypeOK
    <2>2. at'[Consumer].pc # "publish"
        BY <2>1, ParseType DEF Messages
    <2> QED
        BY <1>2, <1>9, <2>2 DEF Fetch
<1>10. CASE Publish
    <2>1. at'[Consumer].pc \in {"commit", "dead"} /\ told' = told
          /\ completed' \subseteq completed \cup {at[Consumer].answer}
          /\ at[Consumer].pc = "publish"
        BY <1>0, <1>10 DEF Publish, Send, Becomes, At
    <2> QED
        BY <2>1 DEF AllRight
<1>11. CASE Commit
    <2>1. at'[Consumer].pc \in {"poll", "dead"}
        BY <1>0, <1>11 DEF Commit, Becomes
    <2> QED
        BY <1>2, <1>11, <2>1 DEF Commit
<1> QED
    BY <1>3, <1>4, <1>5, <1>6, <1>7, <1>8, <1>9, <1>10, <1>11
    DEF Next, ConsumerStep, Actors

LEMMA AllRightAlways == Spec => [](TypeInv /\ AllRight)
<1>1. Init => TypeInv /\ AllRight
    <2> SUFFICES ASSUME Init PROVE AllRight
        BY TypeStart
    <2>1. at[Consumer].pc = "down" /\ completed = {} /\ told = {}
        BY DEF Init, Actors
    <2> QED
        BY <2>1 DEF AllRight
<1>2. TypeInv /\ AllRight /\ [Next]_vars => (TypeInv /\ AllRight)'
    BY TypeStep, AllRightStep
<1> QED
    BY <1>1, <1>2, PTL DEF Spec

\* Redelivery, Kafka and HTTP at once, restarts: every answer to an event that
\* carries the core's count is the same answer.
THEOREM RepeatsAlwaysAgree == Spec => []RepeatsAgree
<1>1. TypeInv /\ AllRight => RepeatsAgree
    BY DEF AllRight, Right, RepeatsAgree
<1> QED
    BY <1>1, AllRightAlways, PTL

\* The score of every answer lies in the range of its decision, whatever the
\* thresholds and the amount.
THEOREM ScoresAlwaysSeparate == Spec => []ScoresSeparateDecisions
<1>1. TypeInv /\ AllRight => ScoresSeparateDecisions
    BY DEF AllRight, Right, Separate, ScoresSeparateDecisions
<1> QED
    BY <1>1, AllRightAlways, PTL
================================================================================
