------------------------------- MODULE RiskRules -------------------------------
(* The decision of the risk service as a pure function: the rules of           *)
(* app/domain/rules.py and the score of app/domain/scoring.py. An event keeps  *)
(* what the rules look at: whether the merchant's status blocks it, whether    *)
(* the reference is suspicious, and the amount. The count of recent intents    *)
(* is resolved by the caller.                                                  *)
EXTENDS Integers

CONSTANTS ReviewAmount,  \* review_amount_minor
          VelocityMax    \* velocity_max_recent

ASSUME RulesAssumption == ReviewAmount \in Nat /\ VelocityMax \in Nat

ReasonCodes == {"MERCHANT_BLOCKED", "SUSPICIOUS_REFERENCE", "ABNORMAL_VELOCITY",
                "AMOUNT_ABOVE_REVIEW_THRESHOLD", "LOW_RISK"}

\* The rules, and what makes each one fire; the last always does.
Fires(code, event, recent) ==
    \/ code = "MERCHANT_BLOCKED" /\ event.blocked
    \/ code = "SUSPICIOUS_REFERENCE" /\ event.suspicious
    \/ code = "ABNORMAL_VELOCITY" /\ recent > VelocityMax
    \/ code = "AMOUNT_ABOVE_REVIEW_THRESHOLD" /\ event.amount > ReviewAmount
    \/ code = "LOW_RISK"

\* The first rule that fires decides alone.
Reason(event, recent) ==
    IF Fires("MERCHANT_BLOCKED", event, recent) THEN "MERCHANT_BLOCKED"
    ELSE IF Fires("SUSPICIOUS_REFERENCE", event, recent) THEN "SUSPICIOUS_REFERENCE"
    ELSE IF Fires("ABNORMAL_VELOCITY", event, recent) THEN "ABNORMAL_VELOCITY"
    ELSE IF Fires("AMOUNT_ABOVE_REVIEW_THRESHOLD", event, recent)
         THEN "AMOUNT_ABOVE_REVIEW_THRESHOLD"
    ELSE "LOW_RISK"

DecisionFor == [code \in ReasonCodes |->
    CASE code = "LOW_RISK" -> "APPROVE"
      [] code = "AMOUNT_ABOVE_REVIEW_THRESHOLD" -> "REVIEW"
      [] OTHER -> "REJECT"]

--------------------------------------------------------------------------------

ScoreMax == 100
BasePoints == 5
AmountPointsMax == 20

RULE_POINTS == [code \in ReasonCodes |->
    CASE code = "MERCHANT_BLOCKED" -> 100
      [] code \in {"SUSPICIOUS_REFERENCE", "ABNORMAL_VELOCITY"} -> 95
      [] code = "AMOUNT_ABOVE_REVIEW_THRESHOLD" -> 55
      [] code = "LOW_RISK" -> 0]

AtMost(bound, n) == IF n <= bound THEN n ELSE bound

\* The gradual points without their ceiling.
RawAmountPoints(amount) ==
    IF ReviewAmount = 0 THEN 0 ELSE (AmountPointsMax * amount) \div ReviewAmount

\* int(20 * (amount / threshold)) in floating point is this quotient: it can
\* only differ where the quotient is exact, and there it does not.
amount_points(amount) ==
    IF ReviewAmount = 0 THEN 0
    ELSE AtMost(AmountPointsMax, (AmountPointsMax * amount) \div ReviewAmount)

\* The sum without its ceiling.
UnboundedScore(code, amount) == BasePoints + amount_points(amount) + RULE_POINTS[code]

score_for(code, amount) ==
    AtMost(ScoreMax, BasePoints + amount_points(amount) + RULE_POINTS[code])

\* What evaluate() returns and the service publishes.
Evaluate(event, recent) ==
    LET code == Reason(event, recent) IN
    [intent |-> event.intent, decision |-> DecisionFor[code], reason |-> code,
     score |-> score_for(code, event.amount)]
================================================================================
