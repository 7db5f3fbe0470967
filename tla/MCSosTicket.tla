---------------------------- MODULE MCSosTicket ----------------------------
(* Small instances of SosTicket for TLC. *)
EXTENDS SosTicket

CONSTANTS ann, bob, lea, d1, d2, m1, m2, t1, t2, w1, w2

\* Ann raises the ticket and is on duty herself, Bob is on duty, Lea is a lead.
Actors == [c \in Moves \cup Resolves |-> CASE c = t1 -> bob
                                           [] c \in {t2, m2} -> lea
                                           [] OTHER -> ann]
=============================================================================
