----------------------------- MODULE PresenceMap -----------------------------
(***************************************************************************)
(* The live map of one viewer: a presence session numbers the people it    *)
(* can see, and sends deltas about those numbers over a WebSocket that     *)
(* may skip the frames of a busy second; the page binds numbers to people  *)
(* and draws them.  The page keeps its bindings when it reconnects.        *)
(*                                                                         *)
(* People are 1..Crowd, the nearest first.  A move is modelled where the   *)
(* tick publishes it.  Cluster counts are in PresenceCohort; a head that   *)
(* carries nothing else is left out.                                       *)
(***************************************************************************)
EXTENDS Integers, FiniteSets, Sequences, FiniteSetsExt

CONSTANTS
    Crowd,      \* how many others there are
    OffDuty,    \* those only a lead may see
    Reduced,    \* detail budget on the middle rung of the load ladder
    IdxWrap,    \* IDX_WRAP
    MaxWire,    \* bound on the frames under way when a tick begins
    MaxEvents   \* bound on moves, skips, disconnects and changes of audience

\* A view fits the table: the budget of the top rung, maxDetail in the code and
\* the whole crowd here, is far below IDX_WRAP (60 in the shipped pack, and 65000).
ASSUME MapAssumption == Crowd \in Nat /\ IdxWrap \in Nat /\ Crowd < IdxWrap

People == 1..Crowd
Nobody == 0
Unseen == [pos |-> 0, of |-> Nobody]

VARIABLES
    at,       \* the store: the published position of each, 0 for no entry
    version,  \* and its version, which starts at 1 with every entry
    silent,   \* those whose last sample is too old
    self,     \* the viewer publishes a position
    rung,     \* of the load ladder
    idx, next, needsFull, \* IdxTable
    sent,     \* sentVersion
    due,      \* snapshotEveryMs have passed since the last snapshot
    lead,     \* the session's audience
    up, wire, \* the socket, and the frames on their way
    resync,   \* the page's request on its way
    slots, peers, \* the page: bindings, and who is drawn where
    events,
    skipped, renumbered \* history: a frame was skipped; numbering started again

env == <<at, version, silent, self, rung>>
table == <<idx, next, needsFull, sent, due, lead>>
page == <<slots, peers>>
vars == <<env, table, up, wire, resync, page, events, skipped, renumbered>>

NoSlot == [p \in People |-> 0]

Init ==
    /\ at \in [People -> {0, MaxEvents + 1}] /\ version = [p \in People |-> IF at[p] = 0 THEN 0 ELSE 1]
    /\ silent = {}
    /\ self = TRUE /\ rung = 0
    /\ idx = NoSlot /\ next = 1 /\ needsFull = TRUE
    /\ sent = NoSlot /\ due = TRUE
    /\ lead \in BOOLEAN
    /\ up = TRUE /\ wire = <<>> /\ resync = FALSE
    /\ slots = [i \in 1..(IdxWrap - 1) |-> Nobody] /\ peers = [p \in People |-> Unseen]
    /\ events = 0 /\ skipped = FALSE /\ renumbered = FALSE

Happens == events < MaxEvents /\ events' = events + 1

-----------------------------------------------------------------------------
(* The crowd                                                               *)

\* Positions are told apart: each is taken once.
Moves(p) ==
    /\ Happens
    /\ at' = [at EXCEPT ![p] = events + 1]
    /\ version' = [version EXCEPT ![p] = IF at[p] = 0 THEN 1 ELSE @ + 1]
    /\ silent' = silent \ {p}
    /\ UNCHANGED <<self, rung, table, up, wire, resync, page, skipped, renumbered>>

Leaves(p) ==
    /\ at[p] # 0 /\ Happens
    /\ at' = [at EXCEPT ![p] = 0] /\ silent' = silent \ {p}
    /\ UNCHANGED <<version, self, rung, table, up, wire, resync, page, skipped, renumbered>>

FallsSilent(p) ==
    /\ at[p] # 0 /\ p \notin silent /\ Happens
    /\ silent' = silent \cup {p}
    /\ UNCHANGED <<at, version, self, rung, table, up, wire, resync, page, skipped, renumbered>>

\* The viewer opts out or stops, and publishes again.
SelfStops ==
    /\ self /\ Happens /\ self' = FALSE
    /\ UNCHANGED <<at, version, silent, rung, table, up, wire, resync, page, skipped, renumbered>>

SelfPublishes ==
    /\ ~self /\ up /\ self' = TRUE
    /\ UNCHANGED <<at, version, silent, rung, table, up, wire, resync, page, events, skipped, renumbered>>

-----------------------------------------------------------------------------
(* Frames                                                                  *)

HeadFrame(joins) == [t |-> "head", joins |-> joins]
RowsFrame(full, rows) == [t |-> "rows", full |-> full, rows |-> rows]
ExpireFrame(ids) == [t |-> "expire", ids |-> ids]
NoticeFrame(r) == [t |-> "notice", rung |-> r]

\* A socket over its threshold skips what is left of this turn's frames.
Transmit(frames) ==
    \/ wire' = wire \o frames /\ UNCHANGED <<events, skipped>>
    \/ /\ frames # <<>> /\ Happens /\ skipped' = TRUE
       /\ \E n \in 0..(Len(frames) - 1) : wire' = wire \o SubSeq(frames, 1, n)

When(c, frame) == IF c THEN <<frame>> ELSE <<>>

-----------------------------------------------------------------------------
(* The session                                                             *)

Expired == {p \in silent : at[p] # 0}
Audience == {p \in People : at[p] # 0 /\ p \notin silent /\ (lead \/ p \notin OffDuty)}
Cap == CASE rung = 0 -> Crowd [] rung = 1 -> Reduced [] OTHER -> 0

\* The candidates: the nearest of the audience, and nobody for a viewer who hides.
Visible == IF self THEN {p \in Audience : Cardinality({q \in Audience : q < p}) < Cap} ELSE {}

Tracked == {p \in People \ Expired : idx[p] # 0}
New == Visible \ Tracked
Before(S, p) == Cardinality({q \in S : q < p})
NumbersOf(S) == {idx[p] : p \in S}

\* IdxTable.assign takes the candidates in order.  At the first that would go
\* past the end it forgets every number and starts again at 1: this one and all
\* after it are numbered, and joined, anew.
Overflowing == {p \in New : next + Before(New, p) >= IdxWrap}
Anew == {p \in Visible : \E q \in Overflowing : q <= p}

\* Mutant: the lowest numbers nobody holds.
LowestFree(p) ==
    LET taken == NumbersOf(Tracked)
    IN  CHOOSE i \in (1..(IdxWrap + Crowd)) \ taken : Cardinality((1..i) \ taken) = Before(New, p) + 1
NextNumber(p) == next + Before(New, p)

Number(p) ==
    IF p \in Anew THEN Before(Anew, p) + 1
    ELSE IF p \in Tracked THEN idx[p] ELSE NextNumber(p)

\* Who is named to the page, and who is given a row.
JoinedNow == IF needsFull THEN Visible ELSE New \cup Anew
Snapshot == needsFull \/ due
RowsNow == {p \in Visible : Snapshot \/ p \in JoinedNow \/ sent[p] # version[p]}

\* Mutant: who timed out is forgotten without a word.
GoneUnlessExpired == NumbersOf(Tracked \ Visible)
GoneNow == NumbersOf(Expired \cup (IF Overflowing # {} THEN {} ELSE Tracked \ Visible)) \ {0}

FramesNow ==
    LET joins == {[i |-> Number(p), p |-> p] : p \in JoinedNow}
        rows == {[i |-> Number(p), pos |-> at[p], of |-> p] : p \in RowsNow}
    IN  When(Snapshot \/ joins # {}, HeadFrame(joins)) \o When(rows # {}, RowsFrame(Snapshot, rows))
        \o When(GoneNow # {}, ExpireFrame(GoneNow))

\* The store expires, the session numbers, and the frames are sent.
Tick ==
    /\ up /\ Len(wire) < MaxWire
    /\ Transmit(FramesNow)
    /\ at' = [p \in People |-> IF p \in Expired THEN 0 ELSE at[p]] /\ silent' = {}
    /\ idx' = [p \in People |-> IF p \in Visible /\ (Overflowing = {} \/ p \in Anew) THEN Number(p) ELSE 0]
    /\ next' = IF Overflowing # {} THEN Cardinality(Anew) + 1 ELSE next + Cardinality(New)
    /\ sent' = [p \in People |-> IF p \in Visible THEN version[p] ELSE 0]
    /\ needsFull' = (~Snapshot /\ Overflowing # {}) /\ due' = FALSE
    /\ renumbered' = (renumbered \/ Overflowing # {})
    /\ UNCHANGED <<version, self, rung, lead, up, resync, page>>

SnapshotTimer ==
    /\ ~due /\ due' = TRUE
    /\ UNCHANGED <<env, idx, next, needsFull, sent, lead, up, wire, resync, page, events, skipped, renumbered>>

\* requestResync
Resynced == needsFull' = TRUE /\ sent' = NoSlot

\* setLead: another audience is a new view.
LeadChanges ==
    /\ up /\ Happens /\ lead' = ~lead /\ Resynced
    /\ UNCHANGED <<env, idx, next, due, up, wire, resync, page, skipped, renumbered>>

Climbs(r) == r < rung

\* setRung; the notice may be skipped like any frame.
RungMoves(r) ==
    /\ up /\ r # rung /\ Happens /\ rung' = r
    /\ IF Climbs(r) THEN Resynced ELSE UNCHANGED <<needsFull, sent>>
    /\ \/ wire' = Append(wire, NoticeFrame(r)) /\ UNCHANGED skipped
       \/ skipped' = TRUE /\ UNCHANGED wire
    /\ UNCHANGED <<at, version, silent, self, idx, next, due, lead, up, resync, page, renumbered>>

ServeResync ==
    /\ resync /\ resync' = FALSE /\ Resynced
    /\ UNCHANGED <<env, idx, next, due, lead, up, wire, page, events, skipped, renumbered>>

\* The socket breaks; without it the viewer may be off the map itself.
Disconnect ==
    /\ up /\ Happens
    /\ up' = FALSE /\ wire' = <<>> /\ resync' = FALSE
    /\ self' \in {self, FALSE}
    /\ UNCHANGED <<at, version, silent, rung, table, page, skipped, renumbered>>

\* A new session with a table of its own, for the page as it was left.
Reconnect ==
    /\ ~up /\ up' = TRUE
    /\ idx' = NoSlot /\ next' = 1 /\ needsFull' = TRUE
    /\ sent' = NoSlot /\ due' = TRUE
    /\ renumbered' = TRUE
    /\ UNCHANGED <<env, lead, wire, resync, page, events, skipped>>

-----------------------------------------------------------------------------
(* The page                                                                *)

\* The last of a frame wins, and a frame goes from the nearest to the furthest.
Joined(joins) ==
    [i \in DOMAIN slots |->
        IF \E j \in joins : j.i = i THEN Max({j.p : j \in {k \in joins : k.i = i}}) ELSE slots[i]]

\* applyRows: a row is drawn as whoever its number is bound to.
DrawnAs(rows, p) == {r \in rows : slots[r.i] = p}
Drawn(frame) ==
    [p \in People |->
        IF DrawnAs(frame.rows, p) # {}
        THEN LET last == CHOOSE r \in DrawnAs(frame.rows, p) : \A q \in DrawnAs(frame.rows, p) : q.of <= r.of
             IN  [pos |-> last.pos, of |-> last.of]
        ELSE IF frame.full THEN Unseen ELSE peers[p]]

Unknown(rows) == {r \in rows : slots[r.i] = Nobody}

HandleFrame ==
    LET frame == Head(wire)
    IN  /\ wire # <<>> /\ wire' = Tail(wire)
        /\ CASE frame.t = "head" ->
                  slots' = Joined(frame.joins) /\ UNCHANGED <<peers, resync>>
             [] frame.t = "rows" ->
                  /\ peers' = Drawn(frame)
                  /\ resync' = (resync \/ Unknown(frame.rows) # {})
                  /\ UNCHANGED slots
             [] frame.t = "expire" ->
                  /\ peers' = [p \in People |-> IF \E i \in frame.ids : slots[i] = p THEN Unseen ELSE peers[p]]
                  /\ slots' = [i \in DOMAIN slots |-> IF i \in frame.ids THEN Nobody ELSE slots[i]]
                  /\ UNCHANGED resync
             [] frame.t = "notice" ->
                  peers' = (IF frame.rung = 0 THEN peers ELSE [p \in People |-> Unseen]) /\ UNCHANGED <<slots, resync>>
        /\ UNCHANGED <<env, table, up, events, skipped, renumbered>>

-----------------------------------------------------------------------------
Next ==
    \/ \E p \in People : Moves(p) \/ Leaves(p) \/ FallsSilent(p)
    \/ SelfStops \/ SelfPublishes
    \/ Tick \/ SnapshotTimer \/ LeadChanges \/ ServeResync
    \/ \E r \in 0..2 : RungMoves(r)
    \/ Disconnect \/ Reconnect \/ HandleFrame

\* The timers run, the socket delivers, and the page reconnects.
Fairness ==
    /\ WF_vars(Tick /\ events' = events) /\ WF_vars(SnapshotTimer)
    /\ WF_vars(HandleFrame) /\ WF_vars(ServeResync) /\ WF_vars(Reconnect)

Spec == Init /\ [][Next]_vars /\ Fairness

-----------------------------------------------------------------------------
(* Properties                                                              *)

Rightly == \A p \in People : peers[p] = Unseen \/ peers[p].of = p

\* Nobody is drawn under another's name, whatever joins and expiries were
\* skipped, unless numbers were given out anew and a frame was skipped too.
NamesAreRight == Rightly \/ (skipped /\ renumbered)

\* What the slot table says of itself: a page can never draw a wrong name.
NeverMisbound == Rightly

\* When things settle, the page draws exactly those the viewer may see, where
\* they are, whatever was skipped; but an empty view leaves what a lost frame
\* or a lost connection left, for a snapshot without rows clears nothing.
PageSettles ==
    <>[](\/ \A p \in People : peers[p].pos = (IF p \in Visible THEN at[p] ELSE 0)
         \/ skipped /\ renumbered
         \/ (skipped \/ renumbered) /\ Visible = {})
=============================================================================
