---------------------------- MODULE AccountAccess ----------------------------
(***************************************************************************)
(* What an account may do after it was signed out or demoted.  Requests    *)
(* and the event hub's heartbeat read the account through a cache whose    *)
(* entries live for a minute; sign-out, revocation and a role change write *)
(* the account and then drop it from the cache of their own process.  A    *)
(* request that is let in may open an event stream, which makes no further *)
(* request and is re-authorised by the heartbeat; heartbeats may overlap.  *)
(*                                                                         *)
(* One account.  A write is numbered; time is the ages of things, which    *)
(* stop at Ttl.                                                            *)
(***************************************************************************)
EXTENDS Integers

CONSTANTS
    Requests,    \* requests of the account
    Streams,     \* those that open an event stream if they are let in
    Passes,      \* heartbeats that may be under way at a time
    Writers,     \* calls of logout, revoke and setRole
    Remote,      \* those that another process serves
    Ttl,         \* ACCOUNT_CACHE_TTL_MS, in steps of the clock
    MaxFails     \* bound on failed reads

None == [seq |-> -1, ver |-> -1, lead |-> FALSE]
Loaders == Requests \cup Passes

VARIABLES
    doc,         \* the account: its writes so far, sessionVersion, whether a lead
    wrote,       \* age of its last write
    writing,     \* writers: "idle", "evict", "done"
    number,      \* writers: the write they made
    cache,       \* the account as cached, or None
    cacheAge,    \* since the load that cached it began
    pc,          \* loaders
    age,         \* loaders: since the load began
    got,         \* loaders: what they read, or None
    passed,      \* loaders: an eviction has passed their read
    overtaken,   \* history: the cached copy was installed after an eviction that followed its read
    target,      \* passes: the stream under way
    token,       \* requests: the sessionVersion in the cookie
    due,         \* history, requests: the writes older than Ttl when it came
    stream,      \* streams: what they were last granted, or None
    fails        \* history: failed reads so far

writeVars == <<doc, wrote, writing, number>>
cacheVars == <<cache, cacheAge, overtaken>>
loadVars == <<pc, age, got, passed>>
vars == <<writeVars, cacheVars, loadVars, target, token, due, stream, fails>>

Init ==
    /\ doc = [seq |-> 0, ver |-> 0, lead |-> TRUE] /\ wrote = Ttl
    /\ writing = [w \in Writers |-> "idle"] /\ number = [w \in Writers |-> 0]
    /\ cache = None /\ cacheAge = Ttl /\ overtaken = FALSE
    /\ pc = [l \in Loaders |-> "idle"] /\ age = [l \in Loaders |-> 0]
    /\ got = [l \in Loaders |-> None] /\ passed = [l \in Loaders |-> FALSE]
    /\ target = [p \in Passes |-> CHOOSE r \in Streams : TRUE]
    /\ token = [r \in Requests |-> 0] /\ due = [r \in Requests |-> 0]
    /\ stream = [r \in Streams |-> None] /\ fails = 0

Older(a) == IF a < Ttl THEN a + 1 ELSE a

Tick ==
    /\ wrote' = Older(wrote) /\ cacheAge' = Older(cacheAge)
    /\ age' = [l \in Loaders |-> IF pc[l] \in {"reading", "read"} THEN Older(age[l]) ELSE 0]
    /\ UNCHANGED <<doc, writing, number, cache, overtaken, pc, got, passed, target, token, due, stream, fails>>

-----------------------------------------------------------------------------
(* Sign-out, revocation and role changes                                   *)

\* logout and revoke move sessionVersion, setRole the role.
Write(w) ==
    /\ writing[w] = "idle"
    /\ \E next \in {[doc EXCEPT !.ver = @ + 1], [doc EXCEPT !.lead = ~@]} :
          doc' = [next EXCEPT !.seq = @ + 1]
    /\ wrote' = 0
    /\ number' = [number EXCEPT ![w] = doc'.seq]
    /\ writing' = [writing EXCEPT ![w] = IF w \in Remote THEN "done" ELSE "evict"]
    /\ UNCHANGED <<cacheVars, loadVars, target, token, due, stream, fails>>

\* Mutant: the write is not followed by evictAccountCache.
CacheKept == cache
CacheEvicted == None

Evict(w) ==
    /\ writing[w] = "evict"
    /\ writing' = [writing EXCEPT ![w] = "done"]
    /\ cache' = CacheEvicted /\ overtaken' = (overtaken /\ cache' # None)
    /\ passed' = [l \in Loaders |-> passed[l] \/ pc[l] = "read"]
    /\ UNCHANGED <<doc, wrote, number, cacheAge, pc, age, got, target, token, due, stream, fails>>

-----------------------------------------------------------------------------
(* loadAccount                                                             *)

\* Mutant: an entry never grows too old.
EverFresh == cache # None
Fresh == cache # None /\ cacheAge < Ttl

\* The cached copy, or a read of the account.
Load(l) ==
    /\ age' = [age EXCEPT ![l] = 0]
    /\ IF Fresh THEN pc' = [pc EXCEPT ![l] = "answered"] /\ got' = [got EXCEPT ![l] = cache]
                ELSE pc' = [pc EXCEPT ![l] = "reading"] /\ got' = [got EXCEPT ![l] = None]
    /\ passed' = [passed EXCEPT ![l] = FALSE]

\* Mutant: an entry is as old as its installation.
AgeOfInstall(l) == 0
AgeOfLoad(l) == age[l]

Read(l) ==
    /\ pc[l] = "reading"
    /\ pc' = [pc EXCEPT ![l] = "read"] /\ got' = [got EXCEPT ![l] = doc]
    /\ UNCHANGED <<writeVars, cacheVars, age, passed, target, token, due, stream, fails>>

Install(l) ==
    /\ pc[l] = "read"
    /\ pc' = [pc EXCEPT ![l] = "answered"] /\ passed' = [passed EXCEPT ![l] = FALSE]
    /\ cache' = got[l] /\ cacheAge' = AgeOfLoad(l) /\ overtaken' = passed[l]
    /\ UNCHANGED <<writeVars, age, got, target, token, due, stream, fails>>

\* A failed read is an error for a request, and no evidence for a heartbeat.
ReadFails(l) ==
    /\ pc[l] = "reading" /\ fails < MaxFails
    /\ fails' = fails + 1
    /\ pc' = [pc EXCEPT ![l] = IF l \in Passes THEN "idle" ELSE "decided"]
    /\ UNCHANGED <<writeVars, cacheVars, age, got, passed, target, token, due, stream>>

-----------------------------------------------------------------------------
(* attachIdentity and registerClient                                       *)

Arrive(r) ==
    /\ pc[r] = "idle"
    /\ \E v \in 0..doc.ver : token' = [token EXCEPT ![r] = v]
    /\ due' = [due EXCEPT ![r] = IF wrote = Ttl THEN doc.seq ELSE 0]
    /\ Load(r)
    /\ UNCHANGED <<writeVars, cacheVars, target, stream, fails>>

SessionHolds(r) == got[r].ver = token[r]

\* Let in, and kept if it is a stream; or anonymous.
Decide(r) ==
    /\ pc[r] = "answered"
    /\ pc' = [pc EXCEPT ![r] = "decided"]
    /\ stream' = IF SessionHolds(r) /\ r \in Streams THEN [stream EXCEPT ![r] = got[r]] ELSE stream
    /\ got' = [got EXCEPT ![r] = None]
    /\ token' = [token EXCEPT ![r] = 0] /\ due' = [due EXCEPT ![r] = 0]
    /\ UNCHANGED <<writeVars, cacheVars, age, passed, target, fails>>

-----------------------------------------------------------------------------
(* reauthorise                                                             *)

\* A heartbeat comes to a stream.
Recheck(p, r) ==
    /\ pc[p] = "idle" /\ stream[r] # None
    /\ target' = [target EXCEPT ![p] = r]
    /\ Load(p)
    /\ UNCHANGED <<writeVars, cacheVars, token, due, stream, fails>>

\* Closed if its version moved, and otherwise given the role as it was read.
Reauthorise(p) ==
    LET r == target[p]
    IN /\ pc[p] = "answered"
       /\ stream' = IF stream[r] = None THEN stream
                    ELSE [stream EXCEPT ![r] = IF got[p].ver # @.ver THEN None ELSE got[p]]
       /\ pc' = [pc EXCEPT ![p] = "idle"] /\ got' = [got EXCEPT ![p] = None]
       /\ UNCHANGED <<writeVars, cacheVars, age, passed, target, token, due, fails>>

-----------------------------------------------------------------------------
Next ==
    \/ Tick
    \/ \E w \in Writers : Write(w) \/ Evict(w)
    \/ \E l \in Loaders : Read(l) \/ Install(l) \/ ReadFails(l)
    \/ \E r \in Requests : Arrive(r) \/ Decide(r)
    \/ \E p \in Passes : Reauthorise(p) \/ \E r \in Streams : Recheck(p, r)

\* The clock and the heartbeat run, and a read comes back.
Fairness ==
    /\ WF_vars(Tick)
    /\ \A l \in Loaders : WF_vars(Read(l) \/ Install(l))
    /\ \A p \in Passes : WF_vars(Reauthorise(p))
    /\ \A r \in Streams : SF_vars(\E p \in Passes : Recheck(p, r))

Spec == Init /\ [][Next]_vars /\ Fairness

-----------------------------------------------------------------------------
(* Properties                                                              *)

Account == [seq : Nat, ver : Nat, lead : BOOLEAN]
Copy == Account \cup {None}

\* Every variable keeps its type.
TypeOK ==
    /\ doc \in Account /\ wrote \in 0..Ttl
    /\ writing \in [Writers -> {"idle", "evict", "done"}] /\ number \in [Writers -> Nat]
    /\ cache \in Copy /\ cacheAge \in 0..Ttl /\ overtaken \in BOOLEAN
    /\ pc \in [Loaders -> {"idle", "reading", "read", "answered", "decided"}]
    /\ age \in [Loaders -> 0..Ttl] /\ got \in [Loaders -> Copy]
    /\ passed \in [Loaders -> BOOLEAN] /\ target \in [Passes -> Streams]
    /\ token \in [Requests -> Nat] /\ due \in [Requests -> Nat]
    /\ stream \in [Streams -> Copy] /\ fails \in Nat

\* A minute is the bound: a request that comes Ttl after the last write is
\* answered from a copy that has it, whatever loads were under way in this
\* process, and whichever process wrote.
TtlBoundsStaleness ==
    \A r \in Requests : pc[r] = "answered" => got[r].seq >= due[r]

\* The eviction is the bound for the process that wrote: after it, an older
\* copy is served only if a read that was under way brought it back.
OldCopyIsExcused ==
    \A w \in Writers \ Remote :
       writing[w] = "done" /\ Fresh /\ cache.seq < number[w] => overtaken

\* A stream does not outlive its session or its role for good.
StreamsFollow ==
    <>[](\A r \in Streams :
            stream[r] # None => stream[r].ver = doc.ver /\ stream[r].lead = doc.lead)
=============================================================================
