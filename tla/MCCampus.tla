------------------------------ MODULE MCCampus ------------------------------
(* A small instance of Campus.  Its parts share no state, so that it is    *)
(* enough that in a behaviour one of them moves and the others stay as     *)
(* they start.                                                             *)
EXTENDS Campus

CONSTANTS lead, helper, phone, c1, c2, c3, c4, h, i1, i2, r1, r2, r3

VARIABLE moving

Wants == [d \in Devices |-> {"sos", "announce", "me"}]

MCInit ==
    /\ moving \in {"hub", "limits", "map", "bounty"}
    /\ CampusInit
    \* A part that stays still starts in one way.
    /\ moving # "hub" => who = [d \in Devices |-> Nobody]
    /\ moving # "map" => /\ cell = [p \in 1..Crowd |-> 1] /\ offDuty = {}
                         /\ viewer = 1 /\ ~isLead /\ cap = 0
    /\ moving # "bounty" => asked = [r \in Requests |-> 1]

MCNext ==
    /\ UNCHANGED moving
    /\ \/ moving = "hub" /\ HubMoves
       \/ moving = "limits" /\ LimitsMove
       \/ moving = "map" /\ MapMoves
       \/ moving = "bounty" /\ BountyMoves

MCSpec == MCInit /\ [][MCNext]_<<moving, campusVars>>
=============================================================================
