----------------------------- MODULE StreamLimits -----------------------------
(***************************************************************************)
(* The table of slots that event streams and presence sockets share, and   *)
(* the two transports that take a slot, close a connection it replaced,    *)
(* and give it back: on a close, on an eviction, on a failed handshake and *)
(* in the hub's sweep, in whatever order those come.  A slot is named by   *)
(* the connection it was given to; the table is in the order of the ids.   *)
(***************************************************************************)
EXTENDS Integers, FiniteSets

CONSTANTS
    Conns, Accounts, Anonymous, Ips,
    Trusted,                 \* addresses of trusted egress
    TotalSlots, PerAccount, PerIp, AnonSlots, AnonPerIp

VARIABLES
    ask,        \* what each connection asked with: transport, account, address
    stage,      \* its socket
    slots,      \* connections that hold a slot
    id, nextId, \* of the slots: id, and the next
    byIp, byIpAnon, anonCount

tableVars == <<slots, id, nextId, byIp, byIpAnon, anonCount>>
limitVars == <<ask, stage, tableVars>>

NoAsk == [tr |-> "sse", acc |-> Anonymous, ip |-> CHOOSE i \in Ips : TRUE]
Wishes == {a \in [tr : {"sse", "ws"}, acc : Accounts \cup {Anonymous}, ip : Ips] :
            a.tr = "ws" => a.acc # Anonymous}

Init ==
    /\ ask = [c \in Conns |-> NoAsk] /\ stage = [c \in Conns |-> "idle"]
    /\ slots = {} /\ id = [c \in Conns |-> 0] /\ nextId = 1 /\ anonCount = 0
    /\ byIp = [i \in Ips |-> 0] /\ byIpAnon = [i \in Ips |-> 0]

OfAccount(a) == {c \in slots : ask[c].acc = a.acc}
Replaceable(a) == {c \in OfAccount(a) : ask[c].tr = a.tr}
Oldest(S) == CHOOSE c \in S : \A d \in S : id[c] <= id[d]

\* The oldest of the same transport, once the account is at its cap.
Evicted(a) ==
    IF a.acc # Anonymous /\ Cardinality(OfAccount(a)) >= PerAccount /\ Replaceable(a) # {}
    THEN {Oldest(Replaceable(a))} ELSE {}

\* Mutant: the evicted slot is discounted at every address.
FreedAnywhere(a) == Cardinality(Evicted(a))
FreedAt(a) == Cardinality({c \in Evicted(a) : ask[c].ip = a.ip})

Admits(a) ==
    /\ Cardinality(slots) - Cardinality(Evicted(a)) < TotalSlots
    /\ a.acc = Anonymous => anonCount < AnonSlots /\ byIpAnon[a.ip] < AnonPerIp
    /\ a.ip \in Trusted \/ byIp[a.ip] - FreedAt(a) < PerIp

\* The table with the slots of C released.
Fewer(n, k) == IF n - k > 0 THEN n - k ELSE 0
Mine(c) == {c} \cap slots
FreedBy(C, i, anon) == Cardinality({c \in C : ask[c].ip = i /\ (anon => ask[c].acc = Anonymous)})
Release(C) ==
    [slots |-> slots \ C,
     byIp |-> [i \in Ips |-> Fewer(byIp[i], FreedBy(C, i, FALSE))],
     byIpAnon |-> [i \in Ips |-> Fewer(byIpAnon[i], FreedBy(C, i, TRUE))],
     anonCount |-> Fewer(anonCount, Cardinality({c \in C : ask[c].acc = Anonymous}))]

Becomes(t) == slots' = t.slots /\ byIp' = t.byIp /\ byIpAnon' = t.byIpAnon /\ anonCount' = t.anonCount

Taken(t, c, a) ==
    [slots |-> t.slots \cup {c},
     byIp |-> [t.byIp EXCEPT ![a.ip] = @ + 1],
     byIpAnon |-> IF a.acc = Anonymous THEN [t.byIpAnon EXCEPT ![a.ip] = @ + 1] ELSE t.byIpAnon,
     anonCount |-> IF a.acc = Anonymous THEN t.anonCount + 1 ELSE t.anonCount]

-----------------------------------------------------------------------------
(* Connecting.  A stream may open on a response that has closed already; a *)
(* handshake may be answered with an error, and its socket closes later.   *)

\* Mutant: the transport leaves the replaced connection open.
LeftOpen(c) == stage[c]
\* The hub ends the replaced response, and has removed its client; a socket is
\* asked to close; one that is still shaking hands is in nobody's slot map.
Replaced(c) ==
    CASE ask[c].tr = "sse" -> "closed"
      [] stage[c] = "shaking" -> "shaking"
      [] OTHER -> "closing"

FirstStages(a) == IF a.tr = "sse" THEN {"open", "stillborn"} ELSE {"open", "shaking", "closed"}

Connect(c) ==
    /\ stage[c] = "idle"
    /\ \E a \in Wishes : \E first \in FirstStages(a) :
          /\ ask' = [ask EXCEPT ![c] = a]
          /\ IF Admits(a)
             THEN /\ stage' = [d \in Conns |-> IF d = c THEN first
                                               ELSE IF d \in Evicted(a) THEN Replaced(d) ELSE stage[d]]
                  /\ id' = [id EXCEPT ![c] = nextId] /\ nextId' = nextId + 1
                  /\ Becomes(IF first = "closed" THEN Release(Evicted(a)) ELSE Taken(Release(Evicted(a)), c, a))
             ELSE stage' = [stage EXCEPT ![c] = "closed"] /\ UNCHANGED tableVars

\* A peer goes away, or a handshake's socket ends: `close` gives the slot back.
Close(c) ==
    /\ stage[c] \in {"open", "closing", "shaking"}
    /\ stage' = [stage EXCEPT ![c] = "closed"]
    /\ Becomes(Release(Mine(c)))
    /\ UNCHANGED <<ask, id, nextId>>

\* A heartbeat, or a write, finds the response destroyed.
Sweep(c) ==
    /\ stage[c] = "stillborn"
    /\ stage' = [stage EXCEPT ![c] = "closed"]
    /\ Becomes(Release(Mine(c)))
    /\ UNCHANGED <<ask, id, nextId>>

Next == \E c \in Conns : Connect(c) \/ Close(c) \/ Sweep(c)

-----------------------------------------------------------------------------
(* Properties                                                              *)

CountAt(C, i) == Cardinality({c \in C : ask[c].ip = i})

\* What is open is what the table counts, at every address and in the
\* anonymous pool: no stream off the books, no slot nobody will give back.
EveryStreamIsCounted ==
    LET live == {c \in Conns : stage[c] \in {"open", "stillborn"}}
        anon == {c \in slots : ask[c].acc = Anonymous}
    IN  /\ live \subseteq slots
        /\ slots \subseteq live \cup {c \in Conns : stage[c] = "shaking"}
        /\ anonCount = Cardinality(anon)
        /\ \A i \in Ips : byIp[i] = CountAt(slots, i) /\ byIpAnon[i] = CountAt(anon, i)

\* No ceiling is passed by any order of replacements: an account has one
\* connection more than its allowance at most, when the cap was reached by
\* the other transport.
CeilingsHold ==
    /\ Cardinality(slots) <= TotalSlots /\ anonCount <= AnonSlots
    /\ \A i \in Ips : byIpAnon[i] <= AnonPerIp /\ (i \in Trusted \/ byIp[i] <= PerIp)
    /\ \A a \in Accounts : Cardinality({c \in slots : ask[c].acc = a}) <= PerAccount + 1
=============================================================================
