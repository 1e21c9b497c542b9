------------------------- MODULE MCIdempotentCreate -------------------------
(* IdempotentCreate for TLC.  Keys, references and identifiers are only     *)
(* compared, and every property is a safety property, so they may be        *)
(* permuted; so may the requests.                                           *)
EXTENDS IdempotentCreate, TLC

CreateSymmetry ==
    Permutations(Requests) \cup Permutations(Keys) \cup Permutations(Refs)
        \cup Permutations(Intents)
=============================================================================
