------------------------------ MODULE EventHub ------------------------------
(***************************************************************************)
(* The server-sent event hub of one process: who is sent what, live and    *)
(* when a device resumes from the last id it saw.                          *)
(*                                                                         *)
(* The hub yields nowhere here, so each of its entry points is one action; *)
(* the sockets and the devices at their other end are what interleaves.  A *)
(* device has one stream at a time: one that is dead and not yet swept     *)
(* receives nothing and is forgotten when the device comes back.  Devices  *)
(* speak v2, whose every frame carries an id.  What an event says is left  *)
(* out, but for its channel and its audience.  Roles do not change: what   *)
(* becomes of an open stream when they do is in AccountAccess.             *)
(***************************************************************************)
EXTENDS Integers, Sequences, FiniteSets, FiniteSetsExt

CONSTANTS
    Devices, Accounts, Nobody,
    Leads,        \* accounts with a lead's role
    Legacy,       \* AUTH_MODE is legacy
    Asks,         \* channels a device asks for
    Keep,         \* REPLAY_MAX_EVENTS
    MaxSeq,       \* bound on the events of a process
    Troubles,     \* of "cut", "full" and "restart"
    MaxTroubles   \* bound on the troubles of a behaviour

ReplayChannels == {"sos", "announce"}
Audiences(ch) == IF ch = "announce" THEN {"ALL", "STAFF"} ELSE {"ALL"}
None == -1

VARIABLES
    who,                  \* the account a device names, or Nobody
    proven,               \* devices with a session, not merely a claimed id
    seq, log,             \* counter, and the events it numbered
    held, dropped,        \* replay buffer and drop mark, per channel
    open,                 \* devices with a client in the hub
    channels, fullSos,    \* of that client
    stalled,              \* the client's buffer is past the ceiling
    alive, wire,          \* the socket, and the frames written to it
    mark, got,            \* the device: last id seen, events received
    since,                \* the id from which the device must miss nothing
    excused,              \* history: events a device lost unannounced
    troubles

hubVars == <<seq, log, held, dropped>>
clientVars == <<open, channels, fullSos>>
deviceVars == <<mark, got, since>>
vars == <<who, proven, hubVars, clientVars, stalled, alive, wire, deviceVars, excused, troubles>>

IsLead(d) == d \in proven /\ who[d] \in Leads
MayJoin(d, ch) ==
    IF ch = "presence:exact" THEN IsLead(d)
    ELSE Legacy \/ ch = "announce" \/ who[d] # Nobody

\* Anonymous viewers of a legacy server see the open stream.
SeesAll(d) == IsLead(d) \/ (Legacy /\ who[d] = Nobody)

\* Mutant: the audience is taken from the role that is claimed.
ClaimedReaches(aud, d) == aud = "ALL" \/ (who[d] \in Leads)
AudienceReaches(aud, d) == aud = "ALL" \/ IsLead(d)

Control(kind) == [id |-> seq, kind |-> kind, full |-> FALSE]
Event(i, full) == [id |-> i, kind |-> "event", full |-> full]
Frame(d, i, ch, full) == Event(i, ch # "sos" \/ full)

Init ==
    /\ who \in [Devices -> Accounts \cup {Nobody}]
    /\ proven \in SUBSET {d \in Devices : who[d] # Nobody}
    /\ seq = 0 /\ log = <<>>
    /\ held = [ch \in ReplayChannels |-> {}] /\ dropped = [ch \in ReplayChannels |-> 0]
    /\ open = {} /\ channels = [d \in Devices |-> {}] /\ fullSos = [d \in Devices |-> FALSE]
    /\ stalled = {} /\ alive = {} /\ wire = [d \in Devices |-> <<>>]
    /\ mark = [d \in Devices |-> None] /\ got = [d \in Devices |-> {}]
    /\ since = [d \in Devices |-> None] /\ excused = [d \in Devices |-> {}]
    /\ troubles = 0

Trouble(kind) == kind \in Troubles /\ troubles < MaxTroubles /\ troubles' = troubles + 1

-----------------------------------------------------------------------------
(* Writing.  A client that is gone is removed; one whose buffer is past    *)
(* the ceiling is evicted: its EVICTED frame replaces the frame that found *)
(* it full, and carries the current id.                                    *)

Remove(D) ==
    /\ open' = open \ D
    /\ UNCHANGED <<channels, fullSos>>

\* To the clients D the frame F(d) is written, an event numbered seq'.
WriteTo(D, F(_)) ==
    LET full == (D \cap alive) \cap stalled
        bye  == [id |-> seq', kind |-> "EVICTED", full |-> FALSE]
    IN /\ Remove((D \ alive) \cup full)
       /\ wire' = [d \in Devices |->
                     IF d \notin D \cap alive THEN wire[d]
                     ELSE Append(wire[d], IF d \in full THEN bye ELSE F(d))]
       /\ excused' = [d \in Devices |-> IF d \in full THEN excused[d] \cup {seq'} ELSE excused[d]]

\* Mutant: what is dropped leaves no mark.
UnmarkedPrune(ch, gone) == dropped[ch]
MarkAfter(ch, gone) == IF gone = {} THEN dropped[ch] ELSE Max(gone \cup {dropped[ch]})

\* Prune to Keep events; older ones may have outlived their minute.  The
\* event just published has not.
Oldest(S, n) == {i \in S : Cardinality({j \in S : j < i}) < n}
Pruned(S) == {Oldest(S, n) : n \in (IF Cardinality(S) > Keep THEN Cardinality(S) - Keep ELSE 0)..Cardinality(S)}

Publish(ch, aud) ==
    /\ seq < MaxSeq
    /\ seq' = seq + 1
    /\ log' = Append(log, [ch |-> ch, aud |-> aud])
    /\ \E gone \in Pruned(held[ch] \cup {seq'}) :
         /\ seq' \notin gone
         /\ held' = [held EXCEPT ![ch] = (@ \cup {seq'}) \ gone]
         /\ dropped' = [dropped EXCEPT ![ch] = MarkAfter(ch, gone)]
    /\ WriteTo({d \in open : ch \in channels[d] /\ AudienceReaches(aud, d)},
               LAMBDA d : Frame(d, seq', ch, fullSos[d]))
    /\ UNCHANGED <<stalled, alive, deviceVars, troubles>>

\* sendToAccount: filed under proved sessions only, never buffered.
SendToAccount(a) ==
    /\ seq < MaxSeq
    /\ seq' = seq + 1
    /\ log' = Append(log, [ch |-> "me", aud |-> a])
    /\ WriteTo({d \in open : d \in proven /\ who[d] = a /\ "me" \in channels[d]},
               LAMBDA d : Event(seq', TRUE))
    /\ UNCHANGED <<held, dropped, stalled, alive, deviceVars, troubles>>

-----------------------------------------------------------------------------
(* Connecting and resuming                                                 *)

Unrecoverable(id, marks) == id > seq \/ \E m \in marks : id < m

Missed(d, ids) ==
    LET keep == {i \in ids : i > mark[d] /\ AudienceReaches(log[i].aud, d)}
    IN [n \in 1..Cardinality(keep) |->
          LET i == CHOOSE j \in keep : Cardinality({k \in keep : k < j}) = n - 1
          IN Frame(d, i, log[i].ch, SeesAll(d))]

\* What registerClient writes behind CONNECTED.
Resumed(d, replay) ==
    IF mark[d] = None THEN <<>>
    ELSE IF Unrecoverable(mark[d], {dropped'[ch] : ch \in replay}) THEN <<Control("RESYNC")>>
    ELSE Missed(d, UNION {held'[ch] : ch \in replay})

\* Each channel that is about to be replayed is pruned first.
PruneAll(replay) ==
    \E gone \in [ReplayChannels -> UNION {Pruned(held[ch]) : ch \in ReplayChannels} \cup {{}}] :
        /\ \A ch \in ReplayChannels : gone[ch] \in (IF ch \in replay THEN Pruned(held[ch]) ELSE {{}})
        /\ held' = [ch \in ReplayChannels |-> held[ch] \ gone[ch]]
        /\ dropped' = [ch \in ReplayChannels |-> MarkAfter(ch, gone[ch])]

\* registerClient; a long replay may fill the buffer and be ended there.
Connect(d) ==
    LET joined == {ch \in Asks[d] : MayJoin(d, ch)}
        replay == joined \cap ReplayChannels
        hello  == <<Control("CONNECTED")>>
    IN /\ d \notin alive /\ joined # {}
       /\ alive' = alive \cup {d} /\ stalled' = stalled \ {d}
       /\ channels' = [channels EXCEPT ![d] = joined]
       /\ fullSos' = [fullSos EXCEPT ![d] = SeesAll(d)]
       /\ PruneAll(replay)
       /\ LET frames == Resumed(d, replay)
          IN \/ /\ wire' = [wire EXCEPT ![d] = hello \o frames]
                /\ open' = open \cup {d}
                /\ UNCHANGED <<excused, troubles>>
             \/ \E k \in 1..Len(frames) - 1 :
                /\ Trouble("full")
                /\ wire' = [wire EXCEPT ![d] = hello \o SubSeq(frames, 1, k) \o <<Control("EVICTED")>>]
                /\ open' = open \ {d}
                /\ excused' = [excused EXCEPT ![d] = @ \cup {frames[n].id : n \in k + 1..Len(frames)}]
       /\ UNCHANGED <<seq, log, deviceVars>>

\* The device reads the next frame; its browser remembers the id.
Receive(d) ==
    LET f == Head(wire[d])
    IN /\ wire[d] # <<>> /\ d \notin stalled
       /\ wire' = [wire EXCEPT ![d] = Tail(@)]
       /\ mark' = [mark EXCEPT ![d] = f.id]
       /\ got' = [got EXCEPT ![d] = IF f.kind = "event" THEN @ \cup {f.id} ELSE @]
       /\ since' = [since EXCEPT ![d] =
                      IF f.kind = "RESYNC" \/ (f.kind = "CONNECTED" /\ mark[d] = None) THEN f.id ELSE @]
       /\ excused' = [excused EXCEPT ![d] = IF f.kind = "RESYNC" THEN @ \ (1..f.id) ELSE @]
       /\ alive' = IF f.kind = "EVICTED" THEN alive \ {d} ELSE alive
       /\ UNCHANGED <<hubVars, clientVars, stalled, troubles>>

-----------------------------------------------------------------------------
(* Sockets and the sweep                                                   *)

\* A device stops reading, and reads again (drain).
Stall(d) ==
    /\ Trouble("full") /\ d \in open \cap alive /\ stalled' = stalled \cup {d}
    /\ UNCHANGED <<hubVars, clientVars, alive, wire, deviceVars, excused>>

Drain(d) ==
    /\ d \in stalled /\ stalled' = stalled \ {d}
    /\ UNCHANGED <<hubVars, clientVars, alive, wire, deviceVars, excused, troubles>>

\* What is in flight: events, and the news that there was a gap.  Behind an
\* id the device has seen it is lost for good if the socket breaks.
Coming(d) == UNION {CASE wire[d][n].kind = "event" -> {wire[d][n].id}
                      [] wire[d][n].kind = "RESYNC" -> 1..wire[d][n].id
                      [] OTHER -> {} : n \in DOMAIN wire[d]}
Overtaken(d) == {i \in Coming(d) : i <= mark[d]}

Cut(d) ==
    /\ Trouble("cut") /\ d \in alive
    /\ alive' = alive \ {d} /\ stalled' = stalled \ {d}
    /\ wire' = [wire EXCEPT ![d] = <<>>]
    /\ excused' = [excused EXCEPT ![d] = @ \cup Overtaken(d)]
    /\ UNCHANGED <<hubVars, clientVars, deviceVars>>

\* The heartbeat: a dead client is removed, a full or lagging one evicted.
Sweep(d) ==
    /\ d \in open /\ (d \notin alive \/ d \in stalled)
    /\ Remove({d})
    /\ wire' = IF d \in alive THEN [wire EXCEPT ![d] = Append(@, Control("EVICTED"))] ELSE wire
    /\ UNCHANGED <<hubVars, stalled, alive, deviceVars, excused, troubles>>

\* A new process counts from zero.  A device cannot tell.
Restart ==
    /\ Trouble("restart") /\ seq > 0 /\ mark # [d \in Devices |-> None]
    /\ seq' = 0 /\ log' = <<>>
    /\ held' = [ch \in ReplayChannels |-> {}] /\ dropped' = [ch \in ReplayChannels |-> 0]
    /\ Remove(open) /\ alive' = {} /\ stalled' = {}
    /\ wire' = [d \in Devices |-> <<>>]
    /\ got' = [d \in Devices |-> {}]
    /\ since' = [d \in Devices |-> IF mark[d] = None THEN None ELSE 0]
    /\ excused' = [d \in Devices |-> IF mark[d] = None THEN {} ELSE 1..mark[d]]
    /\ UNCHANGED mark

Step ==
    \/ \E ch \in ReplayChannels : \E aud \in Audiences(ch) : Publish(ch, aud)
    \/ \E a \in Accounts : SendToAccount(a)
    \/ \E d \in Devices : Connect(d) \/ Receive(d) \/ Stall(d) \/ Drain(d) \/ Cut(d) \/ Sweep(d)
    \/ Restart

\* Who names whom, and who has proved it, stands.
Next == Step /\ UNCHANGED <<who, proven>>

Spec == Init /\ [][Next]_vars

-----------------------------------------------------------------------------
(* Properties                                                              *)

\* Neither live nor on replay is a device that has not proved itself a lead
\* sent a staff announcement, another's targeted frame, or a full ticket
\* (an anonymous viewer of a legacy server excepted).
OnlyProvenSee ==
    \A d \in Devices : \A f \in {wire[d][n] : n \in DOMAIN wire[d]} : f.kind = "event" =>
        /\ log[f.id].aud = "STAFF" => IsLead(d)
        /\ log[f.id].ch = "me" => d \in proven /\ log[f.id].aud = who[d]
        /\ log[f.id].ch = "sos" /\ f.full => IsLead(d) \/ (Legacy /\ who[d] = Nobody)

\* A public event of a replayed channel that a device asked for.
Owed(d) == {i \in 1..seq : /\ log[i].ch \in Asks[d] \cap ReplayChannels
                           /\ MayJoin(d, log[i].ch)
                           /\ log[i].aud = "ALL" /\ since[d] # None
                           /\ since[d] < i /\ i <= mark[d]}
Silent(d) == Owed(d) \ (got[d] \cup Coming(d))

\* A device that resumes has every event up to the id it shows, or was told
\* to refetch, but for those that an id ahead of them overtook: what a full
\* buffer refused, what a cut took behind a CONNECTED, and the numbers a
\* former process had already used.
MissedIsExcused == \A d \in Devices : Silent(d) \subseteq excused[d]

=============================================================================
