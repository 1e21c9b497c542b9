---------------------------- MODULE SerialWrites ----------------------------
(***************************************************************************)
(* What the callers of UnitOfWork.Execute count on: a change of status is  *)
(* one step, judged against the status it replaces, and leaves exactly one *)
(* entry in the history; a failed one leaves nothing.                      *)
(***************************************************************************)
EXTENDS PaymentDomain, Sequences

VARIABLES
    current,    \* the status of the intent, NoStatus before it exists
    path        \* the statuses its history lists

Write(s) ==
    /\ IF current = NoStatus THEN s = "PENDING"
       ELSE s = current \/ CanTransitionTo(current, s)
    /\ current' = s
    /\ path' = Append(path, s)

SerialInit == current = NoStatus /\ path = <<>>

SerialNext == \E s \in Status : Write(s)

SerialSpec == SerialInit /\ [][SerialNext]_<<current, path>>
=============================================================================
