---------------------------- MODULE MCTickStream ----------------------------
(* TickStream for TLC.  No symmetry: liveness is checked. *)
EXTENDS TickStream
=============================================================================
