----------------------------- MODULE AtMostOnce -----------------------------
(***************************************************************************)
(* What core-api gets out of risk.evaluation.completed when the offset is  *)
(* committed before the result is looked at: results are handed over in    *)
(* the order of the topic, none twice, none before its offset is           *)
(* committed, and any of them perhaps never.                               *)
(***************************************************************************)
EXTENDS Naturals, Sequences

CONSTANT Messages

VARIABLES
    topic,
    committed,  \* the group's offset
    handed      \* positions handed over, in order

Produce(m) ==
    /\ topic' = Append(topic, m)
    /\ UNCHANGED <<committed, handed>>

Commit ==
    /\ committed < Len(topic)
    /\ committed' = committed + 1
    /\ UNCHANGED <<topic, handed>>

HandOver(k) ==
    /\ k \in 1..committed
    /\ \A j \in 1..Len(handed) : handed[j] < k
    /\ handed' = Append(handed, k)
    /\ UNCHANGED <<topic, committed>>

MostInit == topic = <<>> /\ committed = 0 /\ handed = <<>>

MostNext ==
    \/ \E m \in Messages : Produce(m)
    \/ Commit
    \/ \E k \in 1..committed : HandOver(k)

MostSpec == MostInit /\ [][MostNext]_<<topic, committed, handed>>
=============================================================================
