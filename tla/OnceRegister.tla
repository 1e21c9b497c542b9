---------------------------- MODULE OnceRegister ----------------------------
(***************************************************************************)
(* What ADR-0002 promises of an idempotency key: at most one payment       *)
(* intent is ever registered under it, and whoever is told an intent for   *)
(* the key is told that one.                                               *)
(***************************************************************************)
CONSTANTS Keys, Intents

VARIABLES
    owner,  \* the <<key, intent>> pairs registered
    told    \* the <<key, intent>> pairs some caller was told

onceVars == <<owner, told>>

OnceInit == owner = {} /\ told = {}

Register(k, i) ==
    /\ \A pair \in owner : pair[1] # k /\ pair[2] # i
    /\ owner' = owner \cup {<<k, i>>}
    /\ UNCHANGED told

Tell(pair) ==
    /\ pair \in owner
    /\ told' = told \cup {pair}
    /\ UNCHANGED owner

OnceNext ==
    \/ \E k \in Keys, i \in Intents : Register(k, i)
    \/ \E pair \in Keys \X Intents : Tell(pair)

OnceSpec == OnceInit /\ [][OnceNext]_onceVars
=============================================================================
