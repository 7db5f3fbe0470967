------------------------------ MODULE MCViewer ------------------------------
(* A small instance of Viewer.  Its parts share no state, so that it is    *)
(* enough that in a behaviour one of them moves and the other stays as it  *)
(* starts.  An account that stays owes no step; what the map owes is       *)
(* checked in MCPresenceMap.                                               *)
EXTENDS Viewer

VARIABLE moving

MCInit ==
    /\ moving \in {"map", "account"}
    /\ ViewerInit
    \* A map that stays still starts in one way.
    /\ moving # "map" => at = NoSlot /\ ~lead

MCNext ==
    /\ UNCHANGED moving
    /\ \/ moving = "map" /\ MapMoves
       \/ moving = "account" /\ AccountMoves

MCSpec == MCInit /\ [][MCNext]_<<moving, viewerVars>> /\ access!Fairness
=============================================================================
