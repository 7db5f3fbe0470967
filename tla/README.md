# A formal model of the HackIllinois volunteer platform

This directory holds TLA+ modules for the server under `src/src/` and for the
presence page under `src/public/`, the TLC configurations that check them on
small instances, and theorems about them checked by TLAPS. The server is a
Node/Express application over MongoDB. It has no locks in memory worth the name:
several processes may serve the same database, every `await` lets other requests
run, and what keeps the data right is a handful of conditional updates, unique
indexes, fencing tokens and multi-document transactions. That is what is
modelled: **one action per database round trip**, with the filter of the update
as the guard; and for the parts that live in memory, **one action per turn of
the event loop**.

## 1. The system

| Component | State | Operations | Interacts with |
|---|---|---|---|
| Registration and seat engine (`services/registration.service.ts`) | `Registration` rows; the counters `filledSlots`, `waitlistCount` of a `Shift` | `reserveShift`, `cancelRegistration` with the promotion cascade, `reindexWaitlist` | takes the volunteer lock and the idempotency record; rows are also written by the desk and by swaps |
| Reservation lock (`models/reservationLock.model.ts`) | one document per volunteer: token, `expiresAt` | acquire, steal when expired, release by token, TTL sweep | held by `reserveShift` only |
| Idempotency record (`models/idempotency.model.ts`) | status, owner token, request hash, stored response | claim, take over when stale, replay, commit, fail | wraps `reserveShift` |
| Shift life cycle (`services/shift.service.ts`) | `capacity`, `isActive` | create, update, delete (deactivate) | races with claims |
| Schedule rules (`assertNoScheduleConflicts`) | none | overlap, rest buffer, fatigue | read by reserve, cascade, swaps |
| Swap market and cycle finder (`services/swap.service.ts`, `common/utils/cycleFinder.ts`) | `ShiftSwap` documents | propose, accept (bilateral), ring pass | rewrites `volunteerId` of rows in a transaction |
| Attendance desk (`services/checkin.service.ts`) | `CheckIn` rows, nonce cache | mint token, verify and check in, check out and pay | moves rows to CHECKED_IN and COMPLETED; pays karma |
| Karma ledger (`services/karma.service.ts`) | a ledger row per account, source and day; balance and tier | `awardKarma`, `spendUnderCap` | called by desk, SOS, booths, quests, gyms, power-ups |
| Quests, stickers, booths, raids | quest progress, sticker ledger, scan rows, raid windows | `advance`, `settle`, `award`, `scan` | a finished scan emits an event that advances quests; karma |
| Bounty budget (`services/bounty.service.ts`, `common/db/withTransactionRetry.ts`) | a row per account and day | `reserve` in a retried transaction | `createTicket` |
| Gyms, gauntlet, power-ups, factions | gym document with a version, attempts, inventories, `Volunteer.faction` | battle, start, submit, spend, use, bind | karma |
| SOS (`sos.service.ts`) | tickets | raise, dispatch, transition, escalate, resolve | timer; karma; event hub |
| Event hub (`common/sse/eventHub.ts`) | clients, replay buffers, sequence number | register, publish, replay, evict, sweep, reauthorise | every service broadcasts; stream limits; account cache |
| Stream limits (`common/streamLimits.ts`) | slots by account and address | acquire, release | event hub and presence sockets |
| Identity (`middleware/identity.ts`) | account cache of one process | load, evict | every request; the hub's heartbeat |
| Presence (`presence/*`) | positions, facts, sessions, index tables | sample, tick, send, resync, ladder | its own WebSocket; account changes |
| Presence page (`public/views/players.js`) | bindings of numbers to people, who is drawn where | apply a frame, reconnect | the presence socket |
| Auth, plugins, scheduler, rate limiter, content packs, Adonix sync, UI | small tables | | |

What is hard here: a request is a sequence of writes that others interleave
with; a process can die between two of them; a write can be applied and still
be reported as failed; locks, claims, caches and facts outlive what they stand
for; frames are skipped and sockets break under a protocol of deltas. `PROJECT.json`
lists the places under `hazards`, each with its line.

What each part has to get right:

* seats: the counters equal the rows plus what is in transit; the rows in a
  seat never exceed the capacity; a seat held by a cancellation is given on or
  released, once; positions belong to waiting rows only; one live row per
  volunteer and shift;
* lock and record: the lock excludes while it lives; a stolen lock or record
  is not written by its former owner; a replay answers the request that was made;
* swaps: rows are exchanged, never duplicated or dropped; a settled proposal is
  final;
* desk: one payment per worked shift; no scan revives a row;
* economy: the ledger explains the balance, caps and budgets hold under races
  and retries, a deed is paid once, a budgeted ticket is raised once;
* arena: a rival's gym falls only to a won challenge, a shield holds, an account
  has one side;
* SOS: a ticket has a responder exactly while it should and never two in turn
  without passing the queue; an unanswered dispatch is escalated, once; a
  resolved ticket is paid once and stays closed;
* streams: every open stream is counted; a resumed device misses nothing it is
  not told of; only a proved lead sees what is for leads; a stream does not
  outlive its session for good;
* presence: names on the map are right, everybody is on it once, and it
  settles to what the viewer may see.

## 2. Modules

| Module | Models | Checked by | Proved in |
|---|---|---|---|
| `SeatAllocation` | abstract: seats go to seekers and from hand to hand, without counters | (refined by `SeatLedger`) | |
| `SeatLedger` | one shift: its two counters and its rows under reserve, cancel and cascade, reindex, edit, delete, check-in, check-out | `MCSeatLedger`: seats, edits | `SeatLedger_proofs` |
| `ReserveProtocol` | one reservation's wrapping: idempotency record, volunteer lock, commit, release | `MCReserveProtocol`: reserve | `ReserveProtocol_proofs` |
| `Roster` | who holds which row: swaps, ring passes, scans, check-outs, cancellations | `MCRoster`: roster | `Roster_proofs` |
| `SosTicket` | one distress ticket: dispatch, its responder's and a lead's moves, escalation, resolution and payment | `MCSosTicket`: sos | `SosTicket_proofs` |
| `Payroll` | abstract: a deed pays once and hands out one item | (refined by `Rewards`) | |
| `Rewards` | booth scans and quests of one account down to the ledger, the balance, the tier, the sticker and the item | `MCRewards`: rewards | `Rewards_proofs` |
| `BountyBudget` | tickets raised against a daily budget in a retried transaction | (part of `Campus`) | `Campus_proofs` |
| `Arena` | one gym: strikes, challenges, shields, sides | `MCArena`: arena | `Arena_proofs` |
| `EventHub` | what each device is sent, live and on replay | (part of `Campus`) | `Campus_proofs` |
| `StreamLimits` | the slot table and the two transports that use it | (part of `Campus`) | `Campus_proofs` |
| `AccountAccess` | the account cache, requests, and the re-authorisation of streams | (part of `Viewer`) | `Viewer_proofs` |
| `PresenceFacts` | the facts presence believes of an account, and its socket's rank | `MCPresenceFacts`: facts | |
| `PresenceMap` | one viewer's session, socket and page | `MCPresenceMap`: live, misbound | `Viewer_proofs` |
| `PresenceCohort` | rows and counts of one viewer in one tick | (part of `Campus`) | `Campus_proofs` |
| `Viewer` | `PresenceMap` beside `AccountAccess`: a viewer and the account behind its session | `MCViewer`: viewer | `Viewer_proofs` |
| `Campus` | the four that share no state, moving in any order | `MCCampus`: campus | `Campus_proofs` |

`SeatLedger`, `ReserveProtocol` and `Roster` share the `Registration` collection
in the code and are kept apart in the model: `SeatLedger` follows the counters,
`ReserveProtocol` the fencing, `Roster` the ownership. Each leaves out what
another one has, and assumes nothing of it: `ReserveProtocol` lets a cascade
promote and a volunteer cancel at any moment, whatever the seats, `SeatLedger` lets the calls of one
volunteer overlap, as they do once a lock has outlived its thirty seconds, and
`Roster` lets a cancellation interleave with a trade anywhere. `SosTicket` pays
in one step what `Rewards` shows in five, and begins where `BountyBudget` ends.
The hub takes its slots from `StreamLimits` and its roles from `AccountAccess`;
`EventHub` itself keeps roles fixed, so that what it says of replay does not
depend on the cache. `Campus` puts the hub, the slot table, the crowd on a map and
the budget side by side: they share no state and move in any order, which is
the specification its theorems are about. `MCCampus` checks the behaviours in
which one of them moves, which is enough, as each property speaks of one part.
`Viewer` does the same for a page of the map and the account behind its session: the
session learns of a role from the facts (`PresenceFacts`), not from the account cache, so
that in `PresenceMap` a change of audience is an event like a move.

### SeatLedger and SeatAllocation

`capacity`, `filledSlots`, `waitlistCount` and `isActive` are fields of the
`Shift` document; `status`, `position` and `createdAt` are fields of the rows
(0 is null, `"NONE"` a row not inserted). Each `reserveShift` call names the
row it may insert. `pc` says which round trip a call makes next, `seen` what a
cancellation read before its compare-and-set, `list` the result of the cascade's
or the reindexing's query, `dto` an organiser's request. `ceiling` is a history
variable, the largest capacity so far.

`reserveShift` is `ReserveCheck`, `ClaimSeat` or `FindFull`, `JoinQueue`,
`InsertRow`, `InsertFails` or `InsertReplyLost`, `UndoClaim` or `UndoFails`.
`cancelRegistration` is `CancelRead`, `CancelClaim` or `CancelLoses`,
`LoadCandidates`, then `SkipCandidate` and `Promote` along the list, then
`LeaveQueue`, `LoadQueue`, `Renumber`, or `ReleaseSeat`. `SkipCandidate` covers
both reasons a waiter is passed over: a schedule conflict, or a row that
changed since it was listed. `updateShift` is `EditRead` then `EditWrite`,
`deleteShift` is `DeleteCount` then `Deactivate`.

`Faults` selects what may go wrong: `"reject"` (a write fails and did not
happen), `"lost_reply"` (it happened and is reported as failed), `"crash"` (the
process dies between two round trips, and its call with it). A seat that a
crash or a refused write loses stays counted: the call that held it ends in
`"lost_seat"`, which the conservation law names rather than hides.

`SeatAllocation` is the promise: a set of seekers who sit, a set who wait, a set
of seekers and calls with a seat in hand, and how many seats there are now. A seat is
taken while fewer are taken, and from then on it moves: to a row (`Sit`), back
(`GiveBack`), from a row to the call that empties it (`Empty`), from there to a
waiter (`PassOn`). `SeatsAreAllocated` says that the ledger implements it, with the
calls at `SeatSteps` as those who have one in hand. It allows a seat to be given
back while somebody waits, as the code does when a row joins the queue after the
cascade has read it.

### ReserveProtocol

`record` is the idempotency document of each key and `aged` whether it is older
than the two-minute staleness limit; `rev` stands for its `updatedAt`, on which
the takeover is conditioned. `lock` is the token in the lock document of each
volunteer and `expired` whether its thirty seconds are over. `row` is the
status of the row an attempt wrote, `target` the status it was written with, and
`answer` whose reservation a caller was told of. Two histories excuse what no
fence prevents: `overdue`, the attempts whose lock ran out under them, and
`crossed`, the pairs of which the second was booked while a check of the first
stood and one of the two is a promotion.

A request is a shift, a volunteer and `AllowWaitlist`; `Payload` is what the
request hash covers, all three. `SameRequest` compares requests field by field, so
that `AnswersAreTrue` does not presume the hash: with a hash over the two ids,
which the code once had, a caller who would not queue is answered with
another's queue place.

`Taken` is what the partial unique index refuses, any row for the shift that
was not cancelled; `Clashes` what `assertNoScheduleConflicts` counts, the rows
that occupy the volunteer (`CONFIRMED` stands for `CHECKED_IN` and `SWAP_PENDING`
too). A queue place is not among them, so places of one volunteer may overlap and
a booking is refused by none of them. The question is asked again when a place is
promoted: `PromoteCheck` is the cascade's probe of a candidate, which leaves out
the candidate's own shift as `Overlaps` does, and `Promote` its conditional write,
without the volunteer's lock. `Cancel` and `Complete` end a row.

Steps 2 to 7 of `reserveShift` are two actions here, `Check` and `Write`; the
rest is one action per round trip. `Tries` bounds the rounds an attempt waits
for the lock; the code's bound is a number of rounds too.
`Touches` covers both readings of the library: Mongoose refreshes `updatedAt` on
the upsert that claims the record, so whether a claim that only looked at the
record makes it young again depends on the driver's handling of `timestamps`,
which is outside `src/`. `CanAge` and `CanExpire` let an instance do without
the passing of time.

### Roster

`holder` and `status` are fields of the rows, whose shift is fixed (`ShiftOf`);
`swap` the status of each proposal, whose content is fixed (`By`, `Give`,
`Want`, `Desired`, `Named`); `attendance` the check-in document of a row;
`paid` how often its award was paid. `deal` is what a bilateral acceptance
read, `mine` what a scan, a check-out or a cancellation read, and `rings`,
`ring`, `used` the work list of a ring pass and the volunteers it has moved.

A transaction of the code is one action (`AcceptTrade`, `PassRotates`), with an
action for its abort; what is read before it is an action of its own. The
depth-first search is modelled by its result: `Rings` are the simple cycles of
two to four offers of the graph `buildAdjacencyList` builds. That graph maps a
shift to the *last* offer of it and a node to the desires of the *last* row
with that key, so `Shown` and `Stated` choose one of each, which stands for
every order the query may return.

A call that an instance does not make starts as `"done"`. `MCRoster` gives the
module two openings, `RosterInit`: one in which the ring trades, and one in
which two of the volunteers have left and the others are scanned, checked out
and cancelled while one proposal is open.

### SosTicket

`status` and `assignee` are fields of the ticket, `stale` whether `dispatchedAt`
lies before the sweep's cutoff, `escalated` whether `escalatedAt` is set, `paid`
how often each account was paid the bounty. `move` is the pair of statuses a
running `transition` goes between, `work` what a resolver read and later whom it
owes. `shouts` and `late` are history: how often this dispatch was escalated,
and whether the escalation fell on a ticket that was in the queue by then.

`dispatchNearestVolunteer` is `DispatchRead`, then `DispatchClaim` or
`DispatchRefused`; which responder is nearest is data, so any may be picked.
`acknowledge`, `arrive` and `reassign` are `MoveRead`, then `MoveClaim` or
`MoveRefused`; `cancel` has `CancelCheck` in front, because it reads the ticket
once to decide and `transition` reads it again. `escalateStale` is `SweepRead`,
then `SweepClaim` or `SweepLoses`. `resolveTicket` is `ResolveRead`, then
`ResolveClaim` or `ResolveLoses`, then `Pay`, or `PaysNothing` when there is no
bounty, the karma cap leaves none of it, or the award fails or dies.

`createTicket` is in `BountyBudget`, as its one transaction.

### Rewards and Payroll

`claimed` holds the booths with a scan row and the quests with `completedAt`;
`count` is `QuestProgress.count`; `ledger` the amount of the day's row of a
source, `NoRow` before the first; `balance`, `tier`, `badges` are the account's;
`stickers` and `items` the sticker ledger and the inventory. A call's `seen` is
the progress, ledger amount or balance it last read, `want` and `grant` the karma
asked for and taken, `got` the handler's `paid` or `granted` flag. `credited`
and `leaked` are history: what each deed credited, and what a dead or refused
call took from the ledger and never credited.

`BoothService.scan` is `ScanInsert`, the award, `Sticker`, `Badge`, `Item`,
`Close`; `QuestService.advance` and `settle` are `ClaimProgress`, `Settle`, the
award, `Sticker`, `Badge`. The award is `SpendRead` and `SpendWrite`, again after
a lost round and at most `Attempts` times, then `Credit` and perhaps
`TierWrite`. `Refused` fails any write and sends the call to its catch, `Undo`;
`Crash` ends it. `Close` starts the advance that listens for the scan's event.

`Payroll` is the promise, three variables and two actions; `PaidOnce` says that
`Rewards` implements it, with `paid` mapped to `credited`.

### BountyBudget

`ledger` and `tickets` are committed data; `lock` is the open transaction that
has written the row, `seen` a transaction's snapshot, `open` its state at the
database, `bodies` and `commits` the attempts `withTransactionRetry` counts.
`OpenLedger`, `Charge` and `Create` are the body. `RunAgain` is the retry of the
whole body, `CommitUnknown` a commit of which the driver cannot tell whether it
landed (it may have), after which only the commit is sent again. The database's
part (a snapshot, a write conflict, an abort) is external and modelled from the
labels this code distinguishes.

### Arena

`gym` is the document's faction, points and `version`; `shielded` whether
`shieldExpiresAt` lies ahead; `attempt` a challenge with its status and the
version mongoose puts in the filter of a save that replaces an array. `fight` is
what a battle declared and read, `work` what a submission or a power-up read.
`battleOrContribute` is `Strike`, `BindRead`, `BindClaim`, `ReadGym`,
`WriteGym`; `spend` is `SpendCheck` and `SpendBurn` in front of the same steps;
`submit` is `SubmitRead`, `SubmitJudge`, `SubmitSave`; `usePowerUp` is `UseCheck`,
`UseTake` and `ApplyCore` or `ApplyShield`. Deadlines and shields may lapse at any time.

### EventHub

`held` and `dropped` are the replay buffer and the drop mark of each channel;
`open` the clients of the hub, `stalled` those over the back-pressure ceiling;
`wire` what was written and not yet read. `mark` and `got` belong to the
device: the last id its browser saw, and the events it received. `since` is the
id from which it has a claim to everything, `excused` what it lost in a way the
hub cannot know of. `Restart` is a new process that counts from zero.

### StreamLimits

`slots` are the connections that hold a slot and `id` the numbers they were given,
which are the order of the table, and so of an account's list (`Oldest`); `byIp`,
`byIpAnon`, `anonCount` are its counters, `stage` the socket of each connection. `"stillborn"` is a response
that had closed before its stream was registered, which only the sweep finds;
`"shaking"` a handshake that failed and whose socket will close, `"closing"` a
socket asked to close. `Connect` does what `tryAcquire` and the transport around it
do without yielding.

### AccountAccess

One account: `doc` with a number for each write, `cache` the copy of this
process and `cacheAge` its age counted from the beginning of the load, as the
code stamps it. `Read` and `Install` are the two ends of a load. `Writers` are
`logout`, `revoke` and `setRole`; those in `Remote` are served elsewhere and
evict nothing here. `Arrive` and `Decide` are a request, `Recheck` and
`Reauthorise` a heartbeat's visit to a stream; heartbeats may overlap. Time is
`Tick`: ages grow up to `Ttl`.

### PresenceFacts

`facts` and `fresh` are the cached facts of one account, `revalidate` its
membership in `pendingRevalidate`, `queue` and `flight` the batch being
collected and those being read; `socket` what its open socket was granted. A
role change, a revocation and an opt-out are `Write` and then `Invalidate`; a
sign-out is a `Write` only, as in the code.

### PresenceMap

The store is `at`, `version` and `silent`; the session `idx`, `next`,
`needsFull` (its `IdxTable`), `sent` and `due`; the page `slots` and `peers`. A
`Tick` expires, assigns numbers, and sends a head with joins, rows, and an expire
frame, of which back-pressure may skip the rest at any point (`Transmit`).
`Reconnect` gives the session a new table and leaves the page its bindings, as
`connectWs` does. A row on the wire carries whom it is about (`of`), for the
properties only: the page draws it as whoever its number is bound to.

### PresenceCohort

One tick of one viewer: `Compute` (members of the audience, the nearest as
detail, the others counted by cell) and `Send` (`computeInterest`,
`adjustedClusters`), with a sample in between, because sessions are served in
slices of a tick.

## 3. Runs

| Run | Asks | Instance |
|---|---|---|
| `seats` | do the counters account for the rows, is the shift never oversold, and do they do what an allocator would? | a full one-seat shift with two in its queue, 2 newcomers (one volunteer), 2 cancellations, rejections and crashes |
| `edits` | is a volunteer's row unique, and is every held seat settled, while an organiser resizes and deletes? | 2 reservations, 1 cancellation, 1 organiser, lost replies and crashes |
| `reserve` | do lock, record and answers agree with the rows, and are bookings that clash explained? | under one key, a request that would not queue and its retry with one for an overlapping shift, or with the same request willing to queue; or under two keys, two overlapping requests whose rows are promoted, cancelled, completed |
| `roster` | are trades balanced, final and free of duplicates; is a worked shift paid once and a terminal row left alone? | 5 rows, 4 shifts, 4 volunteers, a ring of three, one of two and a named offer, 1 acceptance, 1 ring pass, 1 cancellation; or 2 live rows, 2 scans, 2 check-outs, a cancellation and an acceptance |
| `sos` | does a ticket have one responder and one payment, and is an unanswered dispatch heard? | 2 dispatches, 2 moves (by a responder and by a lead), 2 resolvers, 2 sweeping servers, 3 accounts |
| `rewards` | do caps, ledger, tier and once-only hold while awards race and writes fail? | 3 scans of 2 booths, 3 advances of one quest, a raid, caps that the second award reaches, one fault |
| `campus` | four questions: replay and disclosure; slots; a viewer's map; budgeted tickets | a device, 3 events, a buffer of one, 2 troubles; 4 connections, 2 addresses, caps of 1 and 3; 4 people in 2 cells; 3 tickets of 1 or 2 against a budget of 3, 2 failures |
| `arena` | is a capture earned, a shield respected, a side kept? | 2 players, 2 factions, 2 attempts, a strike, a win spent twice, a shield and a core |
| `viewer` | are the names on a map right; how long may an account do what it may no longer, and does a stream come to follow it? | the instance of `live`; or 2 requests, one a stream, a heartbeat, a local and a remote write, a failed read |
| `facts` | does presence follow a changed account? | 2 changes of any kind, a sampling client, 2 overlapping batches, a failed read or a second socket |
| `live` | does the map settle? | 2 people, one off duty, numbers that wrap at 4, one second of frames on the wire, 3 events (moves, skips, breaks, audiences) |
| `misbound` (violation) | "a client can never draw ... a mis-bound sprite" (protocol.ts:203) | as `live` |

`misbound` shows the one divergence that has a run. The page keeps its bindings
over a reconnect, and the new session numbers from 1. If the first head is
skipped by back-pressure, its joins are lost and the demand for a full snapshot
is cleared all the same; the snapshot that the timer sends later has rows and no
joins; their numbers are bound, so the page asks for nothing, and draws a person
under another's name. `NamesAreRight` states what does hold: without a skipped
frame, or without a renumbering, no name is wrong.

**Type invariants.** They are left out of the runs because they are proved
(`TypeCorrect` in seven modules; in `Campus_proofs` the types are parts of the
invariants).

**Bounds.** One shift is enough in `SeatLedger`: the two counters are per shift
and no handler touches two shifts. Capacity 1 makes every reservation contend;
a holder, two waiters, two newcomers who contend for the unique index and two
cancellations give two interleaved cascades, the least that a double promotion
or a double release needs. `seats` starts from `LoadedInit`, the state
`Init` reaches when the holder and the waiters have reserved one after another;
`edits` starts from `Init`. `ReserveProtocol` needs three attempts under one key: an
owner, the one who takes over, and a re-use of the key; `MCReserveProtocol` leaves
their rows as they were written. Two attempts suffice for what becomes of
rows, since a clash is of two rows and a promotion waits for nobody; they have keys of
their own, whose records do not age. `Roster` needs a ring of three to have a
leg that is neither first nor last, and a ring of two that shares a volunteer
with it; two scans and two check-outs race for the same row. `SosTicket` is one
ticket, as no handler decides on two; two calls of each kind let a second
dispatch follow a reassignment while calls of the first are still in flight.
`Rewards` needs two awards of each source to race for a cap, and a quest whose
target is met by the last of several advances; one fault is what one handler's
catch faces, and further faults of other calls do not meet it. A buffer of one
event and three numbers let a device resume from before, at and behind the drop
mark, and after a restart from a number that is not yet used again. Two slots per
address and account, four connections: a replacement by the same transport, by the
other, from another address, and one refused. `Arena` needs two uses of one
win, and a submission that races its expiry. Two loaders and two writers give the
overtaken load of `AccountAccess`. `IdxWrap` 4 lets two people wrap the table
within three events. Symmetry is used in the runs of invariants and of action
properties only, over calls that carry no constants of their own.

**Fairness.** Most runs assume none. `sos` assumes weak fairness of each server's
sweep: the scheduler fires it again and again, and its read and its claim are
enabled until somebody else changes the ticket. Nothing is assumed of people.
`edits` assumes weak fairness of each step of a cancellation that has not
crashed: the event loop resumes every `await`. `viewer` assumes of the account that the clock
and the heartbeat's timer run and that a read comes back; the heartbeat visits
each stream again and again, so its fairness is strong: a pass that is busy
with one stream is not an excuse for never coming to another. `facts` assumes
that timers fire, that a started batch read comes back and that the client of
the promise goes on sampling (`KeepsSampling`). `live` assumes that ticks happen
(without a skip, for skips are events and finite), that the snapshot timer
fires, that an open socket delivers, and that a page reconnects.

## 4. Proofs

TLAPS checks the theorems below for every value of the constants that satisfies
the modules' ASSUMEs (any number of calls, volunteers, shifts, keys, deeds, any
capacity, price or cap). Every leaf is proved by SMT, Zenon or LS4.

A theorem about a cardinality or a sum needs an induction that the library's
theorems, which take an operator as a parameter, do not give here. Each of those
proofs states its step as a lemma (one member more, one value changed) and
reaches the whole set by the library's facts on finite sets, or by choosing a
smallest counterexample, which the well-foundedness of the naturals gives without a
parameter.

**SeatLedger_proofs.** `TypeCorrect` holds of every instance. `SeatsAreConserved`, `QueueIsConserved`,
`NoOversell` and `PositionsStayInQueue` assume `RepliesArrive`, that
`"lost_reply"` is not among the faults; with it `NeverOversold` is false (below).
The counters are compared with the *cardinality of the set of tokens*:
rows in a seat, and calls that have moved the counter and not the row. Every
action adds one token, removes one, or exchanges one for another (a promotion
passes the token from the cancelling call to the row), so the proof is a lemma
on cardinalities and one case per action. The bound `filledSlots <= ceiling` is
inductive by the guard of the claim, and with conservation it gives `NoOversell`,
since the seated rows are some of the tokens. `OffQueueHasNoPosition` needs that
a call at `insert_queue` is the only owner of a position without a waiting row.
`OneActiveEach` needs neither the assumption nor the counters: an insert is the
only step that makes a row active, and it runs into the index. A check-in or a
promotion changes a row that was active already.
`SeatsGoHandToHand` is the refinement of `SeatAllocation`, under `RepliesArrive` too.
Its abstract guard speaks of a set where the code compares two fields; conservation
makes them agree, so `filledSlots < capacity` is "fewer seats are taken than there
are now". That is stronger than `NoOversell`, which compares with the largest
capacity so far: an organiser who lowers the capacity takes no seat away, and
none is granted until enough are given back.

**ReserveProtocol_proofs.** Four invariants, each inductive relative to the
ones before it: `LockInv` (an attempt in its critical section is the lock's
holder unless it is overdue, and a steal needs the expired token it read),
`BookInv` (the check of a live holder covers every booking it could clash with
until it writes, but for promotions that crossed it; the probe of a cascade covers
every booking of its candidate, but for those that crossed it),
`RecordInv` (what a record says of its owner's progress; a committed body is a
written row; a queue place is of an attempt that takes one) and `FenceInv` (which record an attempt in the
section may still own). They give `LockExcludes`, `NoDoubleBook`,
`CommitsAreReal`, `AnswersHold` and the action property `FenceHolds`. A booking, by
an attempt or by a promotion, is one lemma (`BookingBook`): every check that stands
over it is excused or had seen it. `PayloadCovers`, that equal fingerprints are of
the same request, is what `AnswersHold` needs of the hash. No
assumption is made on timing: locks and records may expire at any moment.

**Roster_proofs.** `TypeCorrect`, `FinalHolds` (`SettledHold` for proposals,
`TerminalRowsHold` for rows), `OneRowHolds`, `PaidOnce` and `ClosedIsNeverStranded`, from the type
invariant extended with what each call has read (`Frame`), the uniqueness that
the index gives every rotation (`OneRowPerShift`), and `DeskInv`: an
attendance closed by a check-out is completed, or that check-out is
still between its close and its completion, and only it can pay. Here too there is
no assumption beyond the constants' own. The theorems are about `Spec`, whose
initial rows are all confirmed; the second opening of `MCRoster` is a state that
cancellations reach from there, but for the calls it spends.
`TradesKeepBalance` is an action property. A bilateral trade takes one confirmed row
from each side and gives it one. In a ring the legs are a function whose value at an
offer is the row of the *next* offer; since the offers of a ring have distinct
owners and distinct shifts, a volunteer of the ring gives one row and receives one,
wherever it stands, first and last legs included, and another volunteer's rows are
untouched. That the rows are confirmed comes from the filter of the transaction
(`LegsReady`), that none is counted twice from `OneRowPerShift`. It needs the
rows to be finitely many.

**SosTicket_proofs.** `Legal` joins three facts: a move in flight was legal for
the status it read (`Asked`), so was a resolution (`Observed`), and status and
responder agree (`SomebodyIsComing`). A compare-and-set that succeeds finds the
status it read, so its write is legal for the status it finds; that is the
whole of `SomebodyComes`, `AssignmentHolds` and `ClosedHolds`, and it does not
depend on how long a call stalls in between. `OneBounty` adds `Owed`: at most one
resolver has won and not yet paid, and nobody is paid while there is one.
`OneShout` adds that a ticket not marked as escalated has not been shouted about.

**Rewards_proofs.** `CapIsKept`: the clamp of the read and the range of the write
keep every row under its cap, first inserts included. `TierIsEarned`: a call at
its tier write holds a balance that was true once, and balances only grow.
`DeedsPayOnce` is the refinement of `Payroll`: the initial states map, and each
step is a payment, an item handed out, or a stutter. Its invariant says that a call at
work on a deed holds the claim, alone (`ClaimIsHeld`); that whatever was paid or
handed out still has its claim (`GivenIsClaimed`); and that the one call at work
knows of it: nothing is paid before its credit, and `got` is true after it
(`GivenIsFlagged`), so a deed that was handed back was never paid. It assumes
`NoTierFault`, that the tier write is not refused: with that fault it is false (below).
`BalanceIsExplained` needs no such assumption. A sum over calls changes by one
call's term at a time, and a lemma gives the sum after such a change; what has to be
known of the others is that the call at its credit holds a grant its ledger write
recorded, and that no event restarts an advance which is at its credit: the event of a
booth is emitted once, and from then on nobody works on the booth (`EmittedOnce`).
It assumes that an event is of one booth (`RewardsAssumption`).
`NobodyLosesTheRace`: a compare-and-set that fails finds a row that has changed since
it was read, and the row changes only when another award lands, each once. So the rounds
a call has lost are no more than the awards of its source that have landed
(`LostToOthers`), which are fewer than the calls. The theorem assumes that there are no
more of those than `Attempts` (`FewRace`), which is the code's own assumption
(karma.service.ts:94); the proof needs that an event does not start an advance again that has
asked before (`NotAsked`).

**Arena_proofs.** The invariant has four parts. `ReadBeforeShield`: a strike that
read the gym at the present version read it when no shield was up, since raising one
moves the version; with it a write that matches lands on an open gym
(`ShieldedIsSpared`). `Bound`: a battle past its binding fights for its account's
side, and a side is set once (`OneSideEach`). `WinsAreJudged`: an attempt is read at
its first version and a recorded win moves it, so one judgement is recorded.
`WinsAreSpentOnce`: the captures so far, the calls that have burnt a win and not yet
struck, and the wins not burnt are together no more than the attempts ever won,
since burning exchanges the third for the second and a capture the second for the
first (`EveryCaptureIsWon`). The save of an expiry that overwrites an attempt (below)
can only lose a win.
`ArenaAssumption` says that kinds of calls are different calls, and that attempts and
spends are finite.

**Viewer_proofs.** What a viewer may do and what it is shown: theorems of `ViewerSpec` and, for the
names, of the map's own `Spec`. `ViewerAssumption` says that the kinds of calls of an
account are different calls. *The account.* Three relations of ages.
`MissesAreYoung`: a copy that misses a write is no older, counted from the start of
its load, than that write; so a copy that misses a write of `Ttl` ago has left the
cache, and a load that began after it read it. `DueIsMet` carries that to the requests
(`TtlBounds`). `EvictionBinds`: after its eviction a write is missed only by a load the
eviction overtook, which `passed` and then `overtaken` record (`EvictionBounds`). The
proof is for any number of loads and writers in any number of processes. *The names*
(`NamesStayRight`): no page draws a person under another's name as long as no frame was
skipped or no number was given anew. Three parts. `Table`: the numbers of a session's
table are below `next` and belong to one person each. `InOrder` is for a session that
skipped nothing: what the page is bound to, changed by the frames under way in their
order, is what the table holds (`Synced`, `Leads`), and each row fits the bindings at
the place where the page will read it (`Fits`), also when the table is reset under
frames still on the wire. `Steady` is for numbers that were never given twice: then each
has one owner for good, whoever its session (`Holders`), and every binding and every
join under way agrees with it (`Knows`, `GivenBy`), skipped frames or none.
`MapAssumption` asks that the people fit below the number where the table wraps; with
more of them two would share a number at once. The code wraps at 65 000 and shows at
most 60 people in detail.

**Campus_proofs.** Theorems of `CampusSpec`, one invariant for each part, which the
other parts leave alone. *The crowd* (`MapInv`): the counts of a tick add up to the
people not shown in detail (`CohortAddsUp`), and the correction at sending takes the
viewer itself out of the one count it may stand in (`NobodyTwice`). *The budget*
(`BountyInv`): a transaction that is about to commit has the row locked, its
snapshot is the committed row, and what it adds still fits (`LockHolds`); a
transaction of which the reply was lost has landed once or not at all (`LandedOnce`),
after which only the commit is sent again (`TicketOnce`); the ledger is the sum
of the bounties of the tickets (`ChargedIsPromised`). *The slots* (`SlotsInv`):
each counter is the cardinality of the slots it counts (`Booked`), which open and
stillborn connections hold and closed ones do not (`SlotsTaken`). The clamp at nought
in a release is then never met, and the ceilings hold because the test discounts
the evicted slot exactly where the release frees it (`NoStreamOffTheBooks`,
`NoCeilingIsPassed`). *The hub* (`HubInv`): every event in a buffer belongs to the
channel's audience (`BuffersHold`), and what is on the wire of a device is a
sequence over the events its account may see (`WiresAllowed`), whether written live
or picked from the buffers in a resume (`OnlyProvenAreSent`). *The resume*
(`ResumeInv`): a buffer holds every event of its channel above the drop mark, since
what is pruned raises it (`BuffersCover`); so a device that connects with an id not
below the marks is sent all it lacks, and one below them a RESYNC. Between connects,
`Followed` says of each device: events it may claim, that it has passed or will be
shown while its client stays, have come, are on its wire or are excused
(`Heard`). The event behind a frame may be shown before the frame is read, so `Heard`
must speak of numbers the device has not seen yet (`Shown`), and of the place a
greeting still on the wire will give it (`From`). That needs order on the wire:
it begins with the greeting of a new device, ends with its eviction (`Bounded`),
and no greeting overtakes the news of a gap (`Told`). What a device saw of
a former process is excused (`Ahead`). The replay leaves nothing out because each
place in it belongs to one event and each event has a place (`Ranked`, `RanksDiffer`).
With `i <= mark[d]` this is `NothingMissed`. `CampusAssumption`
asks that caps and bounties be natural numbers, that an account may have one
connection, and that names of different kinds differ.

**Only model-checked.** The liveness properties (`HeldSeatSettles`,
`UnansweredIsHeard`, `StreamsFollow`, `SamplerIsFollowed`, `PageSettles`): liveness
under fairness and ENABLED are beyond the prover. Every other property of a passing
run is a theorem. No module uses RECURSIVE operators.

## 5. Divergences observed

Where the code departs from what its comments promise. The first has a run
(`misbound`, above); the others were reproduced with TLC while the modules were
written and are recorded here.

* A join can be handed a queue position that ties with or precedes a waiter's:
  two departures have decremented the counter and not yet renumbered the rows
  ("the waitlist is FIFO", registration.service.ts:18).
* An insert is applied and its reply lost; the compensation frees the seat under
  the row, and the next claim takes it ("never oversold", registration.service.ts:7).
* A retry of a FAILED idempotency record books the shift and cannot record it:
  the record names the first attempt (idempotency.model.ts:6).
* A row is traded between `cancelRegistration`'s ownership check and its
  compare-and-set, and the former holder cancels it (registration.service.ts:699).
* A ring rotates the rows of a proposal that a bilateral acceptance has failed
  meanwhile; its status write matches nothing (swap.service.ts:77, 518).
* A sweep that read a ticket before it went back to the queue spends the escalation
  of its next dispatch (sos.service.ts:695, 709).
* A deleted shift may have a live holder (shift.service.ts:329); after a
  reassignment and a second dispatch the former responder may still move a ticket
  (sos.service.ts:588), and a creator may cancel one dispatched meanwhile (666).
* The tier write fails after the balance was credited: `awardKarma` throws before
  its caller notes the payment, the quest or booth is handed back, and is paid again
  (karma.service.ts:210; "un-completing a quest that has already paid makes a
  once-per-event reward repeatable", quest.service.ts:396-398, is the case it means to exclude).
* A facts batch read before a demotion lands after the tick that took the rank
  away, and gives it back until the facts grow old (presence/service.ts:359, 595).
* The save of an expired challenge names no version and may overwrite a WON or
  SPENT attempt (gauntlet.service.ts:297-300).
* A device's numbers survive a restart of the server, which counts from zero: events
  whose numbers were used before are taken for seen (eventHub.ts:961).

## 6. Not modelled

Token cryptography, geofences, coordinates, clocks as numbers, HTTP, validation,
the texts of frames, listings and statistics. SWAP_PENDING is declared by the
code and written by nothing, so no row takes it. The volunteer lock is not taken
by cascades and swaps: the conflicts that promotions cause are the `crossed` pairs of
`ReserveProtocol`; those that arise between a swap and a reservation are listed as a
hazard.

* **Accounts, claim codes, magic links**: each is one conditional write behind a
  unique index; what remains is a failure between two of them, a hazard without a module.
* **Quests that collect** (distinct places) and their derived counts; the
  duty roster they may ask for.
* **Hackstop spins, loot, avatars, leaders and defenders of a gym, the battle's
  cooldown and payout**: single conditional writes, or `Rewards` again.
* **Presence**: mutes, speed strikes, fuzzing, the duty roster, the SSE fallback.
* **Rate limiter, plugins, scheduler, Adonix sync, content packs, configuration,
  geometry, surge pricing, leaderboards**: one comparison, third-party code, timers
  (their jobs are actions of the modules they belong to), or pure functions of data.
* **The 3D client, dashboards and design pipeline**, most of the repository's
  lines: drawing, layout and floating-point geometry without shared state.

## 7. Plan

1. **Schedule**, the overlap and fatigue arithmetic against its definition.
2. **Hackstop** spins with the cooldown, and mutes in presence.
