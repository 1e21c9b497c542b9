---------------------------- MODULE MCReconcileCycle ----------------------------
(* The constants are given by the configurations.                              *)
EXTENDS ReconcileCycle
==============================================================================
