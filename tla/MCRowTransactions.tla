-------------------------- MODULE MCRowTransactions --------------------------
(* RowTransactions for TLC.  No symmetry: liveness is checked. *)
EXTENDS RowTransactions
==============================================================================
