----------------------------- MODULE MCCoreApi -----------------------------
(* CoreApi for TLC: two evaluations that approve, one of each other kind. *)
EXTENDS CoreApiRefinement, TLC

CONSTANTS approve1, approve2, review, reject, h1, h2

MCEvaluations == {approve1, approve2, review, reject}

MCDecision == [e \in MCEvaluations |->
                  CASE e \in {approve1, approve2} -> "APPROVE"
                    [] e = review -> "REVIEW"
                    [] e = reject -> "REJECT"]

MCHandlers == {h1, h2}

Symmetry == Permutations(MCHandlers) \cup Permutations({approve1, approve2})
=============================================================================
