------------------------------- MODULE Payroll -------------------------------
(***************************************************************************)
(* What the reward services promise an account: a deed pays karma once, at *)
(* most what it is worth, and hands out its item once; nothing else moves  *)
(* the balance.  Rewards implements it in many steps.                      *)
(***************************************************************************)
EXTENDS Integers

CONSTANTS
    Deeds,    \* what is paid once
    Stalls,   \* the deeds that also hand out an item
    Worth     \* the most a deed pays

VARIABLES balance, paid, items

vars == <<balance, paid, items>>

Init ==
    /\ balance \in Nat
    /\ paid = [d \in Deeds |-> 0]
    /\ items = [d \in Stalls |-> 0]

Pay(d) ==
    /\ paid[d] = 0
    /\ \E karma \in 1..Worth[d] :
          /\ paid' = [paid EXCEPT ![d] = karma]
          /\ balance' = balance + karma
    /\ UNCHANGED items

HandOut(d) ==
    /\ items[d] = 0
    /\ items' = [items EXCEPT ![d] = 1]
    /\ UNCHANGED <<balance, paid>>

Next == (\E d \in Deeds : Pay(d)) \/ (\E d \in Stalls : HandOut(d))

Spec == Init /\ [][Next]_vars
=============================================================================
