--------------------------- MODULE PaymentDomain ---------------------------
(***************************************************************************)
(* The state machine of a payment intent, in its two copies: the Go map    *)
(* allowedTransitions the domain consults before writing, and the rows of  *)
(* payment_status_transitions the database trigger consults when writing.  *)
(* They are separate definitions because they are separate code: a check   *)
(* that compares them would be vacuous if one were defined from the other. *)
(***************************************************************************)

\* No status: the empty previous_status of the first history row.
NoStatus == "NONE"
\* No evaluation: risk_decision IS NULL.
NoRisk == "NULL"

Status == {"PENDING", "UNDER_REVIEW", "APPROVED", "REJECTED", "CANCELLED", "EXPIRED"}

RiskDecision == {"APPROVE", "REVIEW", "REJECT"}

\* domain.allowedTransitions, as a set of <<from, to>> pairs.
allowedTransitions ==
    { <<"PENDING", "UNDER_REVIEW">>, <<"PENDING", "CANCELLED">>, <<"PENDING", "EXPIRED">>,
      <<"UNDER_REVIEW", "APPROVED">>, <<"UNDER_REVIEW", "REJECTED">>,
      <<"UNDER_REVIEW", "EXPIRED">> }

CanTransitionTo(s, next) == <<s, next>> \in allowedTransitions

\* Statuses no transition leaves.
Terminal == {"APPROVED", "REJECTED", "CANCELLED", "EXPIRED"}
Open == {"PENDING", "UNDER_REVIEW"}
Resolved == {"APPROVED", "REJECTED"}

\* ApplyRiskDecision: the status a decision asks for ...
StatusFor(d) ==
    CASE d = "APPROVE" -> "APPROVED"
      [] d = "REJECT"  -> "REJECTED"
      [] d = "REVIEW"  -> "UNDER_REVIEW"

\* ... and whether the domain accepts it: asking for the current status is not
\* a transition, anything else must be one.
AcceptsDecision(s, d) == StatusFor(d) = s \/ CanTransitionTo(s, StatusFor(d))

\* The rows migration 0003 inserts.
payment_status_transitions ==
    { <<"PENDING", "UNDER_REVIEW">>, <<"PENDING", "CANCELLED">>, <<"PENDING", "EXPIRED">>,
      <<"UNDER_REVIEW", "APPROVED">>, <<"UNDER_REVIEW", "REJECTED">>,
      <<"UNDER_REVIEW", "EXPIRED">> }

\* Mutant of enforce_status_transition: the trigger is missing.
NoTransitionTrigger(old, new) == TRUE

\* trg_intent_transition, before UPDATE OF status: OLD is the row the UPDATE
\* has locked, not the row the application read.
enforce_status_transition(old, new) ==
    new = old \/ <<old, new>> \in payment_status_transitions

\* Mutant of ck_intent_no_silent_resolution: the CHECK is missing.
NoSilentResolutionCheck(s, risk) == TRUE

\* CHECK ck_intent_no_silent_resolution.
ck_intent_no_silent_resolution(s, risk) == s \in Resolved => risk # NoRisk

\* trg_intent_requires_history, deferred to COMMIT: some history row of the
\* intent carries the status it now has.
require_history_row(hist, s) == \E k \in DOMAIN hist : hist[k].new = s
=============================================================================
