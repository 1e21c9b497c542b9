----------------------------- MODULE AtLeastOnce ----------------------------
(***************************************************************************)
(* What core-api counts on when it leaves a request in                     *)
(* risk.evaluation.requested: requests are answered in the order of the    *)
(* topic, each perhaps several times, and the offset goes past one only    *)
(* when its answer is in the other topic or nobody can read it.            *)
(***************************************************************************)
EXTENDS Naturals, Sequences

CONSTANTS Keys, Unreadable

VARIABLES
    topic,
    committed,  \* the group's offset
    answered    \* keys with an answer

Current == topic[committed + 1]

Produce(m) ==
    /\ topic' = Append(topic, m)
    /\ UNCHANGED <<committed, answered>>

Answer ==
    /\ committed < Len(topic)
    /\ Current # Unreadable
    /\ answered' = answered \cup {Current}
    /\ UNCHANGED <<topic, committed>>

Commit ==
    /\ committed < Len(topic)
    /\ Current \in answered \cup {Unreadable}
    /\ committed' = committed + 1
    /\ UNCHANGED <<topic, answered>>

LeastInit == topic = <<>> /\ committed = 0 /\ answered = {}

LeastNext ==
    \/ \E m \in Keys \cup {Unreadable} : Produce(m)
    \/ Answer
    \/ Commit

LeastSpec == LeastInit /\ [][LeastNext]_<<topic, committed, answered>>
=============================================================================
