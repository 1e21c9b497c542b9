--------------------------- MODULE MCKafkaBreaker ---------------------------
(* KafkaBreaker for TLC.  No symmetry: liveness is checked. *)
EXTENDS KafkaBreaker
=============================================================================
