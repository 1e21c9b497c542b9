-------------------------- MODULE MCResultConsumer --------------------------
(* ResultConsumer for TLC. *)
EXTENDS ResultConsumer
=============================================================================
