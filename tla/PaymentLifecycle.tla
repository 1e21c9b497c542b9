-------------------------- MODULE PaymentLifecycle --------------------------
(***************************************************************************)
(* What MOVA promises about a payment intent, with no database, broker or  *)
(* process in sight: an intent is opened, sent to review, and leaves       *)
(* review for good, either closed with a decision that the risk service    *)
(* really gave for it after it was sent, or by a person to whom that       *)
(* service left it, or withdrawn.  The core API (CoreApi) is shown to      *)
(* implement it.                                                           *)
(***************************************************************************)
EXTENDS PaymentDomain

CONSTANTS
    Intents,
    ByHand      \* outcomes a person may give an intent

VARIABLES
    status,     \* [Intents -> Status \cup {NoStatus}]
    answered    \* [Intents -> SUBSET RiskDecision]: decisions given so far

lifeVars == <<status, answered>>

LifeInit ==
    /\ status = [i \in Intents |-> NoStatus]
    /\ answered = [i \in Intents |-> {}]

\* A merchant's request opens the intent.
Opens(i) ==
    /\ status[i] = NoStatus
    /\ status' = [status EXCEPT ![i] = "PENDING"]
    /\ UNCHANGED answered

SendToReview(i) ==
    /\ status[i] = "PENDING"
    /\ status' = [status EXCEPT ![i] = "UNDER_REVIEW"]
    /\ UNCHANGED answered

\* The risk service decides about an intent that was sent to it; it may do so
\* late and more than once, and not always the same way.
Answer(i, d) ==
    /\ status[i] \notin {NoStatus, "PENDING"}
    /\ answered' = [answered EXCEPT ![i] = @ \cup {d}]
    /\ UNCHANGED status

\* A decision closes the intent only if it was given, and only from review.
Resolve(i, d) ==
    /\ status[i] = "UNDER_REVIEW"
    /\ d \in answered[i] \ {"REVIEW"}
    /\ status' = [status EXCEPT ![i] = StatusFor(d)]
    /\ UNCHANGED answered

\* A person closes an intent that the risk service left open.
ResolveByHand(i, s) ==
    /\ status[i] = "UNDER_REVIEW"
    /\ "REVIEW" \in answered[i]
    /\ status' = [status EXCEPT ![i] = s]
    /\ UNCHANGED answered

Withdraw(i, s) ==
    /\ s \in {"EXPIRED", "CANCELLED"}
    /\ CanTransitionTo(status[i], s)
    /\ status' = [status EXCEPT ![i] = s]
    /\ UNCHANGED answered

LifeNext ==
    \E i \in Intents :
        \/ Opens(i)
        \/ SendToReview(i)
        \/ \E d \in RiskDecision : Answer(i, d) \/ Resolve(i, d)
        \/ \E s \in ByHand : ResolveByHand(i, s)
        \/ \E s \in Terminal : Withdraw(i, s)

LifeSpec == LifeInit /\ [][LifeNext]_lifeVars
=============================================================================
