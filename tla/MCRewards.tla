----------------------------- MODULE MCRewards -----------------------------
(* Small instances of Rewards for TLC. *)
EXTENDS Rewards

CONSTANTS booth, stand, quest, s1, s2, s3, a1, a2, a3

\* Two phones at one booth and one at another; each finished scan is an event
\* of the same quest, and so is something done elsewhere (a3).
Deed == [c \in Calls |-> CASE c \in {s1, s2} -> booth [] c = s3 -> stand [] OTHER -> quest]
Event == [s \in Scans |-> IF s = s3 THEN a2 ELSE a1]
Karma == [booth |-> 2, quest |-> 2]
\* Nothing yet, or booths of the same morning.
Mornings == {[BOOTH |-> b, QUEST |-> NoRow] : b \in {NoRow, 1, 2}}
DayCaps == [BOOTH |-> 5, QUEST |-> 3]
=============================================================================
