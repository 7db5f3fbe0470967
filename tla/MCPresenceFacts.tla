-------------------------- MODULE MCPresenceFacts --------------------------
(* An instance of PresenceFacts for TLC: the constants are in facts.cfg. *)
EXTENDS PresenceFacts
=============================================================================
