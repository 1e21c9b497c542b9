---------------------------- MODULE StreakBreaker ---------------------------
(***************************************************************************)
(* What ADR-0008 promises of the breaker in front of Kafka, as if calls    *)
(* were reported one at a time: closed, it opens on exactly Threshold      *)
(* failures in a row; open, it goes half-open after a while; then the      *)
(* first report decides, and at any time a success closes it.              *)
(***************************************************************************)
EXTENDS Naturals

CONSTANT Threshold

VARIABLES
    mode,
    streak  \* failures in a row, up to Threshold

Succeed == mode' = "closed" /\ streak' = 0

Fail ==
    /\ streak' = IF streak < Threshold THEN streak + 1 ELSE streak
    /\ mode' = IF mode = "closed" /\ streak' < Threshold THEN "closed" ELSE "open"

Probe == mode = "open" /\ mode' = "half-open" /\ UNCHANGED streak

StreakInit == mode = "closed" /\ streak = 0

StreakNext == Succeed \/ Fail \/ Probe

StreakSpec == StreakInit /\ [][StreakNext]_<<mode, streak>>
=============================================================================
