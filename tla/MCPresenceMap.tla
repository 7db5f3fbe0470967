--------------------------- MODULE MCPresenceMap ---------------------------
(* An instance of PresenceMap for TLC: the constants are in the .cfg files. *)
EXTENDS PresenceMap
=============================================================================
