------------------------- MODULE CoreApiRefinement -------------------------
(***************************************************************************)
(* core-api implements the promise of PaymentLifecycle, with the statuses  *)
(* clients ask for by PATCH as the power people have over an intent, and   *)
(* writes each intent serially.                                            *)
(***************************************************************************)
EXTENDS CoreApi

Life == INSTANCE PaymentLifecycle
            WITH status <- [i \in Intents |-> rows[i].status],
                 answered <- [i \in Intents |-> {Decision[e] : e \in answered[i]}],
                 ByHand <- PatchTargets \cap Resolved

\* Every behaviour of core-api, races, aborts, lost replies and crashes
\* included, is one of the abstract life cycle of PaymentLifecycle.
ImplementsLifecycle == Life!LifeSpec

\* The same promise that RowTransactions keeps statement by statement, one intent
\* at a time: its status and its history are written together or not at all, each
\* write judged against the status it replaces, and nothing else touches either.
Serial(i) == INSTANCE SerialWrites
                WITH current <- rows[i].status,
                     path <- [k \in DOMAIN history[i] |-> history[i][k].new]

ImplementsSerialWrites ==
    /\ \A i \in Intents : Serial(i)!SerialInit
    /\ [][\A i \in Intents :
            \/ Serial(i)!SerialNext
            \/ rows'[i].status = rows[i].status /\ history'[i] = history[i]]_vars

\* Where an evaluation is lost (core_evaluation_kept shows that one is), a PATCH
\* decided on an older read loses it, and nothing else: neither a result nor the
\* marking does, and no intent that is resolved ever loses the evaluation it has
\* (payment_intent_service.go, UpdateStatus; payment_intent_repository.go, Update).
LostOnlyToPatch ==
    [][\A i \in Intents :
          rows[i].risk # NoRisk /\ rows'[i].risk = NoRisk =>
              /\ rows'[i].status \in PatchTargets \ Resolved
              /\ history'[i][Len(history'[i])].reason = "manual"]_vars

\* What makes ResolutionMatchesDecision inductive: a goroutine about to close an
\* intent carries the decision that does, or is a person's and carries a review
\* (or nothing, and the CHECK refuses it); any other carries no final decision.
WriteMatches(c) ==
    IF c.new \in Resolved
    THEN \/ /\ c.risk # NoRisk
            /\ StatusFor(Decision[c.risk]) = c.new
         \/ /\ c.reason = "manual" /\ c.new \in PatchTargets
            /\ c.risk # NoRisk => Decision[c.risk] = "REVIEW"
    ELSE c.risk # NoRisk => Decision[c.risk] = "REVIEW"

WritesMatch == \A p \in Procs : calls[p].pc = "write" => WriteMatches(calls[p])

\* An intent that is not resolved has no evaluation, or one that left it open.
OpenAwaitsDecision ==
    \A i \in Intents :
        rows[i].status \notin Resolved /\ rows[i].risk # NoRisk
            => Decision[rows[i].risk] = "REVIEW"

RefinementInv ==
    CoreInv /\ WritesMatch /\ OpenAwaitsDecision /\ ResolutionMatchesDecision
=============================================================================
