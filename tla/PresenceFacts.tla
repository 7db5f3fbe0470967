---------------------------- MODULE PresenceFacts ----------------------------
(***************************************************************************)
(* What the presence service believes of an account.  Facts are read in    *)
(* batches and kept for half a minute; a position is published under them, *)
(* and each tick gives an open socket the rank they name, or closes it.    *)
(* A role change, a revocation and an opt-out write the account, then      *)
(* throw its facts away and ask for them anew; a sign-out only writes.     *)
(*                                                                         *)
(* One account with one socket.  A fresh fact turns old by an action.      *)
(***************************************************************************)
EXTENDS Integers

CONSTANTS
    Writers,       \* calls that change the account
    Kinds,         \* what they may be: "role", "revoke", "logout", "optOut"
    Samples,       \* messages of the socket under way at a time
    KeepsSampling, \* the client goes on sending positions
    Flights,       \* batches under way at a time
    MaxEvents      \* bound on further sockets and failed batch reads together

None == [ver |-> -1, lead |-> FALSE, optIn |-> FALSE]
Callers == Samples \cup Writers
NoFlight == [at |-> "idle", who |-> {}, copy |-> None]

VARIABLES
    doc,          \* the account: sessionVersion, lead, presenceOptIn
    writing,      \* writers: what they are to invalidate for, or "idle", "done"
    facts, fresh, \* the cached facts, and whether younger than FACT_TTL_MS
    revalidate,   \* pendingRevalidate
    pc,           \* callers of factsFor: "idle", "entered", "waiting"
    queue,        \* pendingFacts: callers of the next batch
    flight,       \* batches
    socket,       \* the open socket: what it was granted, or None
    published,    \* the account has an entry in the store
    events        \* sockets opened and reads failed so far

vars == <<doc, writing, facts, fresh, revalidate, pc, queue, flight, socket, published, events>>

Granted(d) == [None EXCEPT !.ver = d.ver, !.lead = d.lead]

Init ==
    /\ \E lead \in BOOLEAN : doc = [ver |-> 0, lead |-> lead, optIn |-> TRUE]
    /\ writing = [w \in Writers |-> "idle"]
    /\ facts = None /\ fresh = FALSE /\ revalidate = FALSE
    /\ pc = [c \in Callers |-> "idle"] /\ queue = {} /\ flight = [f \in Flights |-> NoFlight]
    /\ socket = Granted(doc) /\ published = FALSE
    /\ events = 0

-----------------------------------------------------------------------------
(* Changes of the account                                                  *)

Changed(kind) ==
    CASE kind = "role"   -> [doc EXCEPT !.lead = ~@]
      [] kind = "optOut" -> [doc EXCEPT !.optIn = FALSE]
      [] OTHER           -> [doc EXCEPT !.ver = @ + 1]

Write(w) ==
    /\ writing[w] = "idle"
    /\ \E kind \in Kinds :
          /\ doc' = Changed(kind)
          /\ writing' = [writing EXCEPT ![w] = IF kind = "logout" THEN "done" ELSE kind]
    /\ UNCHANGED <<facts, fresh, revalidate, pc, queue, flight, socket, published, events>>

\* Drops the facts and asks for new ones; an opt-out erases the entry too.
Invalidate(w) ==
    /\ writing[w] \notin {"idle", "done"}
    /\ writing' = [writing EXCEPT ![w] = "done"]
    /\ facts' = None /\ fresh' = FALSE /\ revalidate' = TRUE
    /\ pc' = [pc EXCEPT ![w] = "entered"]
    /\ published' = (published /\ writing[w] # "optOut")
    /\ UNCHANGED <<doc, queue, flight, socket, events>>

-----------------------------------------------------------------------------
(* factsFor and flushFacts                                                 *)

Enter(c) ==
    /\ pc[c] = "idle" /\ c \in Samples /\ socket # None
    /\ KeepsSampling \/ facts = None
    /\ pc' = [pc EXCEPT ![c] = "entered"]
    /\ UNCHANGED <<doc, writing, facts, fresh, revalidate, queue, flight, socket, published, events>>

\* A sample is published under the facts it was answered with, or erased.
PublishedAfter(c, f) == IF c \in Samples THEN f.optIn ELSE published

\* Mutant: a cached fact is believed for ever.
EverFresh == facts # None
IsFresh == facts # None /\ fresh

\* After the roster and the mutes were awaited: the cached facts, or the batch.
Ask(c) ==
    /\ pc[c] = "entered"
    /\ IF IsFresh
       THEN /\ published' = PublishedAfter(c, facts)
            /\ pc' = [pc EXCEPT ![c] = "idle"] /\ UNCHANGED queue
       ELSE pc' = [pc EXCEPT ![c] = "waiting"] /\ queue' = queue \cup {c} /\ UNCHANGED published
    /\ UNCHANGED <<doc, writing, facts, fresh, revalidate, flight, socket, events>>

FlushStart(f) ==
    /\ flight[f].at = "idle" /\ queue # {}
    /\ flight' = [flight EXCEPT ![f] = [at |-> "reading", who |-> queue, copy |-> None]]
    /\ queue' = {}
    /\ UNCHANGED <<doc, writing, facts, fresh, revalidate, pc, socket, published, events>>

FlushRead(f) ==
    /\ flight[f].at = "reading"
    /\ flight' = [flight EXCEPT ![f].at = "read", ![f].copy = doc]
    /\ UNCHANGED <<doc, writing, facts, fresh, revalidate, pc, queue, socket, published, events>>

Landed(f) ==
    /\ flight' = [flight EXCEPT ![f] = NoFlight]
    /\ pc' = [c \in Callers |-> IF c \in flight[f].who THEN "idle" ELSE pc[c]]

\* The facts are cached, and every sample of the batch goes on.
FlushLand(f) ==
    /\ flight[f].at = "read" /\ Landed(f)
    /\ facts' = flight[f].copy /\ fresh' = TRUE
    /\ published' = IF flight[f].who \cap Samples # {} THEN flight[f].copy.optIn ELSE published
    /\ UNCHANGED <<doc, writing, revalidate, queue, socket, events>>

\* Every waiter is told the account is unknown: nothing is published.
FlushFails(f) ==
    /\ flight[f].at = "reading" /\ events < MaxEvents /\ Landed(f)
    /\ events' = events + 1
    /\ UNCHANGED <<doc, writing, facts, fresh, revalidate, queue, socket, published>>

FactsAge ==
    /\ fresh /\ fresh' = FALSE
    /\ UNCHANGED <<doc, writing, facts, revalidate, pc, queue, flight, socket, published, events>>

-----------------------------------------------------------------------------
(* The tick, and sockets                                                   *)

Revoked == facts # None /\ facts.ver # socket.ver

RankNow == IF facts # None THEN facts.lead ELSE socket.lead /\ ~revalidate

Tick ==
    /\ socket # None
    /\ IF Revoked
       THEN socket' = None /\ published' = FALSE /\ UNCHANGED revalidate
       ELSE /\ socket' = [socket EXCEPT !.lead = RankNow]
            /\ revalidate' = (revalidate /\ facts = None)
            /\ UNCHANGED published
    /\ UNCHANGED <<doc, writing, facts, fresh, pc, queue, flight, events>>

\* A new session on a new socket; a client may also hang up.
Connect ==
    /\ socket = None /\ events < MaxEvents
    /\ events' = events + 1
    /\ socket' = Granted(doc)
    /\ UNCHANGED <<doc, writing, facts, fresh, revalidate, pc, queue, flight, published>>

HangUp ==
    /\ socket # None /\ KeepsSampling
    /\ socket' = None /\ published' = FALSE
    /\ UNCHANGED <<doc, writing, facts, fresh, revalidate, pc, queue, flight, events>>

\* An entry without new samples expires.
Expire ==
    /\ published /\ socket = None
    /\ published' = FALSE
    /\ UNCHANGED <<doc, writing, facts, fresh, revalidate, pc, queue, flight, socket, events>>

-----------------------------------------------------------------------------
Next ==
    \/ \E w \in Writers : Write(w) \/ Invalidate(w)
    \/ \E c \in Callers : Enter(c) \/ Ask(c)
    \/ \E f \in Flights : FlushStart(f) \/ FlushRead(f) \/ FlushLand(f) \/ FlushFails(f)
    \/ FactsAge \/ Tick \/ Connect \/ HangUp \/ Expire

\* Timers run and reads come back; a client that keeps sampling does.
Fairness ==
    /\ \A w \in Writers : WF_vars(Invalidate(w))
    /\ \A c \in Callers : WF_vars(Ask(c)) /\ WF_vars(Enter(c) /\ KeepsSampling)
    /\ WF_vars(\E f \in Flights : FlushStart(f))
    /\ \A f \in Flights : WF_vars(FlushRead(f)) /\ WF_vars(FlushLand(f))
    /\ WF_vars(FactsAge) /\ WF_vars(Tick) /\ WF_vars(Expire)

Spec == Init /\ [][Next]_vars /\ Fairness

-----------------------------------------------------------------------------
(* Properties                                                              *)

\* An account that goes on sampling is caught up with, whatever batches were
\* under way when it changed: its socket ends closed or with the rank it has,
\* and it is not on the map once it opted out.
SamplerIsFollowed ==
    <>[](/\ socket # None => socket.ver = doc.ver /\ socket.lead = doc.lead
         /\ published => doc.optIn)

=============================================================================
