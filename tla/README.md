# Rotelyx in TLA+

Rotelyx is an end-to-end encrypted messenger and calling system written in
Rust. Its clients speak MLS to each other; what they meet on is a small set of
servers that see only opaque bytes. This directory specifies both sides where
they keep state that can go wrong. On the servers: the blind mailbox with its
meter and its registry of devices to wake, the front that multiplexes phones
onto it, admission control at the mailbox and at the relay, and the relay's
group-call rooms. On the clients: the epochs of a conversation, and the receiving
end of a call. TLC checks the modules on small instances; TLAPS proves the safety
theorems for every value of the constants.

Run a check with `tlc -config MCRooms.cfg MCRooms`, a proof with
`tlapm RoomsProofs.tla`. `PROJECT.json` lists the runs, the theorems, the
lines every definition models, the mutants that break each property, and the
hazards the properties are for.

## 1. Inventory

| Component | State | Operations | Hard parts |
|---|---|---|---|
| Mailbox store (`rotelyx-mailbox/store.rs`) | per tag a `Vec` of envelopes with deposit time and retention | deposit, collect, peek, receipt, sweep, snapshot, restore | expiry without a sweep, a clock set back, the ceiling, restart from an old snapshot |
| Mailbox server (`rotelyx-mailbox-server/main.rs`) | the store behind one lock; per session its tags; a broadcast channel of wakes; meter, tickets, wake registry | one task per session (`run_session`), requests, the wake arm, a sweeper task, a waker task, snapshots | sessions interleave; wakes are lossy; taken but unsent envelopes; crash between steps |
| Front connections at the mailbox (`run_front`) | sessions by id, each with a sealing state and two channels | hello, body, close, reply | bounded channels in a circle, a ceiling nobody is told about |
| Front (`front.rs`) | a pool of slots with route tables; per phone its own routes; two kinds of bounded channel | one task per phone, one per slot; connect, pump, lose, drain, tell, reconnect | awaits between reading and using shared state; circular waits; reuse of ids |
| Admission (`limits.rs`, mailbox and relay) | a token bucket and a count per caller, a total | admit, release, sweep of idle buckets | clock read before the lock, forgetting a bucket that is still in use |
| Rooms (`relay/room.rs`, `media/forward.rs`) | rooms, seats taken, the connection behind each seat | join, route, leave; one task per participant | copies sent after the lock is released, refused and repeated joins |
| Capabilities, meter (`rotelyx-capability`) | bytes spent per capability and period; a snapshot | auth, charge, sweep, save, load | periods and clocks, what a kill or a failed snapshot forgets |
| Wake registry (`wake.rs`) | rows of token, service, hashed secret and schedule; a sealed file | register, revoke, forget; a waker task | state read before awaiting a push service, saves after the lock, ceilings, failed saves |
| Media (`rotelyx-media`) | a counter and a history; a replay window; a jitter buffer | protect, resend; unprotect; push, pop, recover | loss, duplication, reordering, forgery; a bitmap in words; waiting for what may never come |
| Conversation (`rotelyx-crypto/group.rs`, `rotelyx-wasm`, `rotelyx-meeting`) | the group's epoch, a held commit, stored proposals, tag keys; a sealed copy on disk | invite, propose, confirm, remove, rekey, settle, receive, resume | commits at one epoch with nobody to order them; restarts from an old copy; deposits that stop half way; who may admit whom |
| Tickets, vault | tickets by tag; sealed files | leave, sweep; seal, open | |
| Mailbox client | tags, seen envelopes, a held token, several mailboxes | subscribe, deposit, collected, unsubscribe, authenticate | replies that are read by a later request |
| Core, other crypto, audio, codec, net, applications | client side | | see section 7 |

They interact as follows. A client talks to a mailbox session directly or
through a front, which rewrites one number per frame and understands nothing
else. A session deposits into the store and wakes every other session over the
broadcast channel; a woken session that listens on the tag takes what is there.
The sweeper drops what has expired and writes a snapshot; a restart reads it
back, the meter and the registry of devices likewise. Every connection is
admitted by a limiter first, and every deposit is charged. A relay admits by
identity, and seats the participants of group calls in rooms. The members of a
conversation leave each other commits, proposals and welcomes in the mailbox,
one copy per recipient under a tag of the epoch it is sent at. Calls go past the
mailbox, as datagrams between the two ends or through a room.

What makes the system correct:

- nothing expired is handed out; a full tag loses its oldest and only that;
  nothing leaves the store without a cause; a listener is served;
- a reply never crosses from one phone to another; a phone that left leaves no
  trace; a slot comes back after its mailbox does;
- what is open is counted exactly, and the rate and the ceilings hold;
- a frame is heard only from the seat it claims, in the listener's own room,
  and nobody loses a seat to somebody else;
- a quota is a quota, but for what a kill or a clock set back makes the server
  forget; a revoked device stays revoked, and a scheduled one is woken;
- a datagram is accepted at most once, frames are played once and in order, and
  playback does not stall with audio in hand;
- nobody follows an admission that one member had no right to make, and members
  that commit at one epoch end in one epoch.

## 2. Modules

| Module | Models | Extends |
|---|---|---|
| `MailboxStore` | the store | |
| `MailboxServer` | sessions, wake channel, sweeper, snapshot, restart | `MailboxStore` |
| `Front` | phone tasks, slot tasks, the mailbox's end of a slot's connection | |
| `Admission` | both limiters | |
| `Rooms` | rooms, forwarders, participants' tasks | |
| `Meter` | capabilities, quota, sweeper, snapshot, restart | |
| `WakeRegistry` | registration, revocation, the waker's task, the sealed file | |
| `Media` | one direction of a call: sender, network, replay window, jitter buffer | |
| `AtMostOnce` | what a replay window promises: the abstract specification `Media` implements | |
| `Conversation` | the epochs of a group as each device sees them, over mail in any order | |
| `MC*` | constants and symmetry for TLC | the module they name |
| `*Proofs` | theorems | the module they name |

Definitions called `...Unfiltered`, `...OneMore` and so on, each under a
comment that starts with "Mutant", are wrong variants of the definition after
them. No specification uses them; putting one in place of the right definition
must make a property fail, which shows that the property depends on the code.

### MailboxStore

`held` is the set of entries in memory. The code keeps a `Vec` per tag, pushes
at the back and removes in place, so position is arrival order; here each entry
carries its arrival number `n` and a slot is a filter of the set. `disk` is the
last snapshot, `served` what the last operation handed out, `now` the wall
clock, which `SetClock` may move either way because the code reads
`SystemTime`. Each public operation that changes or hands out anything is an
action. `Digest` is the identity on envelopes: a BLAKE3 digest over tag and
payload is taken to be free of collisions.

### MailboxServer

A session handles one event at a time: `Subscribe`, `Unsubscribe`, `Collected`,
`Deposit`, `ReceiveWake` or `Disconnect`. What it took from the store is
written to the socket one envelope per `Send`, with other sessions running in
between; until it is written it is in `outbox`. `wakes[c]` is what the
broadcast channel holds for a receiver, at most `WAKE_CAPACITY` events, the
oldest lost first (`Offer`). `SweeperTick` and `SaveMailbox` are two steps,
because the sweeper releases the lock between them; `Restart` may happen
anywhere. A deposit and its wake are one step: there is no await between the
two, and a session that runs between them on another thread sees what it would
see just before or just after. A request refused before it touches anything is
not an action. A receipt may name any digests, received or not. `receipts` is
history: which entries the last step removed on whose receipt. A snapshot that
cannot be written leaves the old one (`SaveMailbox`). The charge a deposit makes
is in `Meter`.

### Front

`at[p]` and `link[u]` are the places where a phone's task and a slot's task
await: every lock, every channel send and every socket is a step of its own, so
`PhoneHello` (choose a slot, take an id), `PhoneInsert` (register, under the
lock) and `PhoneForward` (queue the frame, when there is room) are three steps
with anything in between. `socket[p]` tells whether the phone's socket is open,
was sent a close frame ("shut": what the phone had written before is still read,
and the next mail fails to be sent) or is gone. A slot that cannot connect
sleeps and tries again (`UpRefused`, `UpAwake`). `streams[u]` is what the mailbox
holds (`Heard`, from `run_front`: a hello may fail to decode or find no room, a
body may not open), `flying[u]` the replies on their way. Payloads are sealed and
opaque to the front; a frame is its kind and its session. `pick_upstream` scans
the slots' flags in one step.

### Admission

Time runs in ticks in which a bucket earns one unit; a connection costs `COST`
units, which is the code's `f64` token count in fixed point (the mailbox earns
one token per second, the relay one per two). Both limiters read the clock
before they take the lock, so a decision is made at a time `t` up to `SKEW`
ticks behind `now`, and possibly behind the decision before it. A refill with an
older time moves `refilled` back, and the time in between is then earned a
second time; `replayed[c]` counts those ticks. A refusal for the total changes
only a metric and is not an action.

### Rooms

Calls on the table hold its lock and are one step each. `Route` clones the legs
out under the lock; `Hand` then puts the frame on one leg at a time, and may
lose it. A frame is the sender id its header claims, `None` if it does not
parse. A connection may have closed by the time its buffered join or frames are
read. `SeatRefused` keeps what the code does on the way to the refusal: the
room has been made by then, and `made` (history) remembers it.

### Meter

A capability is its id: a bought token's, or the random one
`Capability::free` draws for every connection. `spent` is the table, `disk` the
snapshot. `Charge` is `Meter::charge` whole: an unmetered id leaves no row, and
a row of another period starts again even when the charge is refused. The
sweeper sweeps and saves in two steps, because it goes on to the tickets in
between; a shutdown saves while sessions still run; `Restart` may happen
anywhere and loads what is on disk, without the rows of other periods.
`accepted`, `since` and `resets` are history: what was allowed, what of it since
the last snapshot that was written, and how often something may have been
forgotten. Signatures are left out.

### WakeRegistry

A row is a token, the service to call about it, the hash of a secret and whether
it is on the schedule. The caller names the service, and the server cannot tell
who issued a token: `Home` is what the world knows and no step of the server
reads, `Pushers` the services it has keys for. `ToWake` keeps, of the rows on the
schedule, the first of each token in the set's order, which is by token and then
by service; that row decides whom `Call` calls. What each service's `is_gone`
takes for gone is `MayCallGone`: Google's also takes a token that was never
Google's. A request acts on the registry in one step and saves in another, because the lock
is given up in between (`asked` is the handler's place); the save writes the
registry as it is by then, or fails with a warning. The waker reads whom to
wake, calls the push services one row at a time, then forgets the rows of the
tokens that were called gone as the registry is by then, and saves. Two devices
without a secret both store the empty string and count as one.

### Media and AtMostOnce

A datagram is the counter in its header; `Accept(c, FALSE)` is one that claims
`c` and does not authenticate. `seen` is the bitmap of `Receiver` as the set of
its bits; `SlideWords` is the loop over 64-bit words that moves it, and a
property says the two agree. `Push` and `PopSlot` are the jitter buffer; the
target depth comes from a floating-point estimate of the jitter, so here it is
any of `Targets` after every push. `Recover` is a receiver that asks for what
`recoverable_between` names, and a sender that answers from its history.
`oversized`, `accepted`, `played`, `missed` and `late` are history.

`AtMostOnce` says what the window promises without a window: a number admitted
is spent, and a number never admitted is spent only when it is too old beside
the one just admitted. `Spent` reads the spent counters off the bitmap.

### Conversation

A commit is named by its hash, and an epoch by the commit that leads to it, so
two commits at one epoch are two epochs. `at[d]` is the epoch of d's group,
`pending[d]` the commit it made and holds, `mail[d]` what the mailbox has for it,
`saved[d]` its sealed copy on disk. What d can hear is addressed under a tag key
it still remembers (`keys`, the last three epochs). `ReceiveCommit` is
`Conversation::receive`: an epoch already left; a rival of a held commit, decided
by the smaller hash; else processed, unless a rule refuses the admission it
makes. `Restart` reads the saved copy back and owes the group a rekey, which
`resume` makes after it has read the backlog, unless somebody else's commit paid
the debt. A rekey is held for a grace; invitations, confirmations and removals
are settled at once, and so is a change of the admin list (`SetAdmins`), which
the library offers to applications and the meeting client has no command for.
The list is part of an epoch (`Admins`): it is read at the epoch an admission was
made at. Whoever deposits several copies may lose the mailbox half
way: the client connects again and does not deposit the rest. Every save may
fail, and a process may die between any two steps.

From openmls, external, come three facts: a device that holds a commit makes no
other and no proposal; a commit takes in every stored proposal; and it can be
processed only at the epoch it was made at, with its proposals at hand.
`Careless` devices run a client that invites on its own authority, which this
client does not do, and the receivers must refuse. `joined` and `blind` are
history: where a device came in, and the commits that not everybody is sent, that
were settled without looking at a rival, or that their maker forgot in a restart
or let go of for a rival it then refused.

## 3. Runs that pass

| Run | Properties | Instance |
|---|---|---|
| `store` | `StoreTypeOK`, `ServedUnexpired`, `DisplacesOldest` | 2 tags, 2 tiers (ttl 1 and 2, ceilings 1 and 3 over an absolute 2), 3 deposits, clock 0..2 |
| `server` | `TypeOK`, `ListeningBounded`, `OutboxUnderListenedTag`, `RemovalHasACause` | 2 sessions, 2 tags, cap 2, lists of up to 2 with repeats, 2 deposits under a ceiling of 1, room for 1 wake, any receipts |
| `server_fair` | `ListenerIsServed` | 2 sessions, 1 tag, 2 deposits by tiers with ceilings 1 and 2, so that the second may displace the first or wait beside it; room for every wake |
| `front` | `FrontTypeOK`, `NoCrossing`, `EndedPhoneHasNoRoute`, `SlotReconnects` | 2 phones with one common id, 1 slot, channels of 1, a mailbox that takes 1 session, 2 session ids, 1 loss |
| `admission` | `AdmissionTypeOK`, `OpenIsCounted`, `WithinLimits`, `RateBounded` | 3 callers, one exempt, 2 connections each, total 3, burst 3, a connection costs 2 ticks, sweep above 1 entry |
| `rooms` | `RoomsTypeOK`, `SeatedIsHeld`, `HeardFromItsSeat`, `HeldIsInhabited`, `SeatIsGivenUp` | 3 connections, 2 rooms under a ceiling of 1, seats 0 to 2 of which 2 is out of range |
| `media` | `MediaTypeOK`, `SlideMovesTheBitmap`, `ResendIsUseful`, `SlotsAccountedFor`, `OnceSpec`, `PlayedInOrder`, `PlaybackDrains` | both modes, a window of 4 in 2 words, a history of 4, 5 counters, depths 1 and 2 |
| `conversation` | `ConversationTypeOK`, `UnlawfulAdmissionIsUnfollowed`, `PairConverges` | 2 members and a second device of one of them, which the other may propose or, being careless, invite; no admins at first, which any member may change; 2 commits, 2 restarts, 2 tag keys |
| `meter` | `MeterTypeOK`, `AllowanceBound`, `KillLosesOneInterval` | a token with a limit of 3, free ids with 2 and without, deposits of 2, 2 connections, periods of 2 hours over 3 hours, 2 unkind events |
| `wake` | `WakeTypeOK`, `RevokedStaysRevoked`, `OwnerKeepsTheRow`, `ScheduledIsWoken` | an Apple token and a Google token at a server that calls Google, rows that name either, 2 secrets and none, 2 connections, 2 rows per token, 3 rows, 3 requests, 1 unkind event |

`media` shows refinement: `Media` implements `AtMostOnce` under the mapping
`Spent`.

What some of the properties say, beyond their names. `RemovalHasACause`: a live
envelope leaves the store only displaced by a newer one under its tag, by the
receipt of a connection that itself listens on the tag, into the hands of a
session that listens on the tag when it gets round to its wake, or because the
process stopped. `SlotReconnects`: a slot whose connection died connects again,
unless its task and phones' tasks wait in a circle for room in each other's
channels (`InCircularWait`), which does happen in this instance (section 4).
`HeldIsInhabited`: a room that counts against the ceiling has somebody in it, or
was made by a refused join and never sat in since. `SlotsAccountedFor`: every
slot is played or given up once, and everything accepted is buffered, played or
late. `OwnerKeepsTheRow` and `ScheduledIsWoken` say what is left of a row's safety
and of the schedule when others know the token; section 4 has what is not.
`AllowanceBound`: in one period an id is allowed its limit, and the limit once more for each restart that
forgot something of it and each time the clock went back over a boundary; the
code promises no more, and it keeps this. `ResendIsUseful`: a frame still in the
sender's history that was never accepted would be accepted if sent again, unless
counters were spent on oversized frames in between, which the history does not
count and the window does. `PlaybackDrains`: once playback has begun the buffer
empties; less than a target's worth may stay behind a slot whose frame the
sender no longer has. `PairConverges`: in a group of two every fork has, on one
side, a commit that was settled before its maker could look at the other's, that
was not deposited for everybody, or that its maker forgot in a restart or let go
of for a rival it then refused. (The last of these came out of the proof; section
4 has the behaviour.)

Why the bounds are enough. The code's ceilings (256 per tag, 64 and 256 tags,
1024 wakes, 256 messages, 16 or 8 connections, 256 rooms, a window of 256, 4
rows) are constants; the instances set them to 1, 2, 3 or 4 and let the inputs
exceed each of them by at least one, so that at, under and over are all reached.
Two actors are the fewest that race, and a third is there where one more can
interfere (a refused rejoin, an exempt caller, a newcomer). Two commits are the
fewest that fork. Counters are capped by named bounds (`MaxArrivals`, `MaxNow`,
`MaxIds`, `MaxTraffic`, `MaxLosses`, `MaxAdmitted`, `MaxReplayed`, `MaxFrames`,
`MaxHour`, `MaxUnkind`, `MaxRequests`, `MaxRestarts`, and `Hashes` for commits);
behaviours end there, which is why the configurations switch the deadlock check
off, all but that of `media`, where somebody can always send another forged
frame. A server that nobody calls may stop, too. Symmetry is used only in runs
of safety properties. What an instance leaves out for its size, the theorems of
section 5 cover: a clock that moves and a second tier in `server`
(`NothingLeavesUnasked`, `OutboxCanBeAcknowledged`), a second slot in `front`
(`FrontNeverCrosses`, `NothingLeftBehind`; for `SlotReconnects` nothing does), two
rooms alive at once in `rooms` (`RoomsSafe`), a server that calls both services in
`wake` (`OnlyTheOwnerRemoves`), more members and commits in
`conversation` (`UnlawfulAdmissionsAreUnfollowed`, `PairsConverge`).

Fairness:

- `server_fair`: strong fairness of `ReceiveWake`, because `tokio::select!`
  polls its ready arms in random order, so requests cannot keep the wake arm
  out for ever although they may disable it again and again; weak fairness of
  `Send`, a socket that accepts writes.
- `front`: weak fairness of the steps a phone's task takes by itself and of the
  steps of a slot's task (tokio runs what can run) and of noticing a dead
  connection; strong fairness of `UpConnect`: `connect_async` is retried for ever
  and the mailbox comes back. Phones promise nothing.
- `rooms`: weak fairness of each participant's task.
- `media`: weak fairness of `Play` (the audio device calls on its own clock) and
  of `Recover` (the call asks for what is missing on every turn), strong fairness
  of the arrival of the datagram the next slot waits for, which may be lost each
  time it is sent but not every time.
- `wake`: weak fairness of the waker's task: the ticker fires, and a call to a
  push service is answered or times out. Clients promise nothing.

## 4. What the models show the code does not do

Two runs find a disagreement.

`server_receipt`: the head of `main.rs` (26-30) says an envelope "is removed only
when the recipient says by digest that it arrived, across tags that connection is
listening on", and that removing on delivery lost messages and was given up. That
is true of a subscription, which peeks. The wake arm (`main.rs:1050`) still
collects, which removes, and writes to the socket afterwards: two sessions, one
subscription, one deposit and one wake, and the envelope is out of the store while
nobody has it. A socket that fails then loses it, and a second device on the tag
does not receive it. The comment at the arm says so itself ("Collect it, which
removes it, so exactly one listener gets it").

`conversation_three`: three members; two of them
restart, rekey, and hold their commits for the grace. Each hears the other's and
both agree which one stands, as `group.rs:863` promises ("both sides run the same
comparison [...] They converge."). The third holds no commit of its own, so it
compares nothing and applies the first it hears. If that is the loser, it stands
alone at an epoch nobody else will enter, and each side answers the other's
commit with `TheGroupHasSplit`. The meeting client knows of the case and spreads
rekeys over a random wait (`meeting/src/lib.rs:434`), which makes it rare.
`Converges` asks this only of rekeys that were held for the full grace.

Other disagreements and limits that the models contain and no run is spent on:

- Two members may end at two epochs although each looked at the other's rekey,
  against `group.rs:1838` ("Both sides run the same comparison [...] They end at
  one epoch instead of two."), because a rival that wins clears one's own commit
  before it is processed (`group.rs:1859`). It takes three commits. a restarts.
  b's client invites on its own authority with commit 1, dies before it saves,
  comes back at the old epoch and rekeys with 3; a rekeys with 2. a hears 1, which
  wins over 2: 2 is cleared, then 1 is refused under the two member rule. a now
  hears 3 and takes it, having nothing to compare it with; b hears 2, which wins
  over its 3, and takes it. a is at 3 and b at 2.
  An interrupted removal does it too: b, which let go of its rekey for an
  invitation of a's that it then refused, makes a removal of which no copy is
  deposited, and keeps that against a's rekey, which a kept in its turn against
  the rekey b no longer has. `PairConverges`
  excuses both by name (`blind`), and is then true of every pair.
- A receiver that lags 1024 wakes behind loses one and does not notice
  (`main.rs:2201`); the deposit then waits for the next wake or subscription.
  `ListenerIsServed` is checked with room for every wake, and fails with less.
- With full channels a phone's task and a slot's task wait for each other
  (`front.rs:379`) and the slot does not reconnect, against "reconnects when the
  connection ends, for as long as the front runs". The run `front` reaches it with
  channels of 1; the code's hold 256. `SlotReconnects` excuses the circle by name.
  `run_front` has one of the same kind.
- A phone that registers after a slot's table was drained is not told
  (`front.rs:385` says the phones holding sessions are), and what it queued is
  thrown away on reconnection.
- A refused seat leaves an empty room behind that counts against the ceiling
  (`room.rs:95` says the room goes with the last one), until somebody sits in it
  and leaves.
- At the ceiling `deposit_with` counts live envelopes but drops an expired one if
  it can (`store.rs:137`), so the live ones can pass the ceiling until the next
  sweep.
- A wake skips only its own sender and then collects the whole tag, the
  listener's own earlier deposits included. `make_room_for` is asked for as many
  places as a subscription names (`main.rs:1238`), tags already held included.
- A device registered without a secret is taken over by the next one without a
  secret (`wake.rs:358`), while the comment above it (356) says the empty string
  "matches no revocation and no takeover".
- The owner's row "is not touched, not replaced and not revocable by anyone who
  cannot produce its secret" (`wake.rs:209`), yet it can be forgotten: an Apple
  device that is off the schedule is registered by somebody else as a Google one
  on the schedule; Google answers that the token is invalid, which
  `Fcm::is_gone` takes for gone (`push/src/lib.rs:563`), and `forget_token`
  removes every row of the token. `OwnerKeepsTheRow` names this case.
- The other way round, a row on the schedule that names Apple comes before one
  of the same token that names Google (`wake.rs:328`: one row per token, the
  first in order), so on a server without Apple's keys the token is skipped on
  every tick (`push/src/lib.rs:643`), and on one with them Apple is called about
  a token of Google's. `ScheduledIsWoken` names this case (`Hidden`).
- A row registered while the waker awaits the push services goes with the dead
  token. A revocation whose save failed comes back after a restart.
- The expiry of a token is looked at when it is presented and not again.
- A removal is settled but not written down (`meeting/src/lib.rs:1620`); one that
  is interrupted leaves a held commit nothing settles, and then this device can
  neither commit nor propose until a rival arrives or it restarts. A rekey and a
  removal commit every stored proposal and drop the welcome, so that a newcomer
  is a member and cannot join. A rival that wins and is then refused costs the
  rekey that was owed, while the debt counts as paid.

## 5. Proofs

All theorems hold for every value of the constants under the named ASSUMEs of
the modules, which TLC evaluates on every run. Each module proves an inductive
invariant, some a second one on top of it, and reads the theorems off it; TLC
checked each invariant before it was proved. Every invariant and action property
that a passing run checks is a theorem.

- **MailboxServerProofs**: of the store, `StoreTypes` from `StoreInv`, which adds
  the finiteness of what is held and written and that arrival numbers stay below
  `arrivals` and are not shared, which the other proofs use.
  `NothingServedExpired` follows step by step, because each operation that hands
  something out filters by the clock it hands out at. `OldestGoesFirst` uses the
  finiteness, since it compares cardinalities. Of the server, `ServerTypes`, which
  includes that no wake channel holds more than `WAKE_CAPACITY`, and `ServerSafe`
  (`ListeningBounded`); the lemmas are about what picking ascending positions out
  of a list without repeats yields. `OutboxCanBeAcknowledged` needs that what a
  subscription makes room for is not among the tags it names and that a session
  does nothing else while it writes. `NothingLeavesUnasked` (`RemovalHasACause`) is
  an action property proved from types and finiteness: a receipt removes only
  under the tags its own connection listens on, and what a wake takes is in that
  session's hands afterwards.
- **FrontProofs**: `FrontTypes`, which includes that inboxes and queues keep within
  `CHANNEL`. `FrontNeverCrosses` needs every place a session is
  named to agree with who opened it (`Owned`): the phones' own routes, the slots'
  tables, the phones a slot has still to write to, and the mail in every inbox.
  Ids are fresh because `owner` is as long as `next_id`. `NothingLeftBehind` needs
  that every route in a table is held by the phone's own task, or is the one that
  task is removing at the moment (`Held`).
- **AdmissionProofs**: `AdmissionTypes`, which includes that buckets keep within the
  burst and the clock, `LimitsAreKept`, `OpenCountsAreExact`
  (`OpenIsCounted`) and `AdmissionHolds` (`RateBounded`). That the total is the
  number of guards alive is a second invariant (`TotalInv`): the guards are
  counted as a set of pairs, one per caller and connection, which an admission
  extends and a release shortens by one. For the rate, the strengthening relates the tokens in a
  bucket to its history: from any admission on, what the admissions since have
  cost, with the tokens left, is at most the burst, the time since and what was
  replayed; for a bucket that is forgotten it uses that the bucket would have
  been full again (`ForgetAssumption`, 600 seconds against a burst earned in 20).
- **RoomsProofs**: `RoomsTypes`, `SeatsAreHeld` and `RoomsSafe`, strengthened by
  what is true of the frame a task is still sending: everybody it has yet to put
  the frame on joined the same room in another seat. `RoomsAreInhabited`
  (`HeldIsInhabited`) uses that a room is removed with its last leg and made with
  its first, or by a refusal.
- **MediaProofs**: `MediaTypes`, `SlotsAreAccountedFor` and `FramesPlayInOrder` from
  `MediaInv`: everything accepted is spent and is in the buffer, played or late, nothing was handed out before
  playback began, and every slot handed out or given up lies before `next`.
  `ReceiverImplementsAtMostOnce` rests on `RecordSpends`: what `record` makes of
  the bitmap spends the counter recorded and, besides, only counters a window
  behind it. `SlideIsTheLoop` is about every bitmap, not only the reachable ones:
  bit b of the bitmap is bit b % WORD of word b \div WORD, and the loop takes it
  from the word and the carry that bit b - step is in; it needs the window to be
  whole words. `ResendIsWorthIt` needs `ResendInv`: only counters that were used
  are anywhere, the history is the most recent frames and no more than `HISTORY`,
  and what is spent unaccepted is a window behind the highest.
- **ConversationProofs**: `ConversationTypes` and `UnlawfulAdmissionsAreUnfollowed`
  from `ConversationInv`: paths grow by one commit and stay within what was made,
  wherever a device is or its copy on disk is was made, a held commit is one's
  own and was made where one is, and the property holds of the copy on disk as of
  the one in memory, since a restart goes back there. Most actions are instances
  of one lemma (`MovedIsLawful`): a device stays, goes back to its copy, or moves
  to an epoch it may follow. The admin list is read at the epoch a commit was made
  at, for the receiver as for the property, so a change of it alters neither.
  `PairsConverge` (`PairConverges`) needs a second invariant, `PairInv`, on top.
  Its first half is where things are (`Geography`): a way contains the ways to
  its epochs and leaves each of them once (`Ways`), a device hears only under
  keys of its own way and its copy on disk lies on it (`Heard`), and members make
  the commits and send them to the others (`Makers`). From that, a commit that is
  heard and is not stale was made at the hearer's own epoch by another member
  (`Rival`): epoch numbers are cardinalities, and a way of the same length is the
  same way. Its second half is about the commits that are stood by, the ones not
  `blind`: their maker still holds them, went along them, or went along a smaller
  one (`Standing`); a copy in debt went along all of its own (`InDebt`), so that a
  maker stands by one commit per epoch (`OneEach`); and in a pair, once one member
  went along its own, the other goes along none of its own, loses to it if it
  hears it, and has heard it before it makes one (`PairYields`). Going along one's
  own is safe (`Clear`) when nobody is behind, or against a rival stood by, which
  is then the one commit the other holds. A fork needs both members to have gone
  along their own, which `PairYields` excludes, or each along the other's, and then
  `Standing` makes each commit smaller than the other.
- **MeterProofs**: `MeterTypes`, `KillsLoseOneInterval` and `AllowanceIsBounded`.
  The bound is inductive only with the periods told apart (`Bounded`): of an
  earlier period at most the limit more than what was given anew, of the current
  one at most what the table has, of a later one nothing more.
- **WakeRegistryProofs**: `WakeTypes`, `RevocationsLast` (`RevokedStaysRevoked`) and
  the action property `OnlyTheOwnerRemoves` (`OwnerKeepsTheRow`). `WakeInv` adds
  that the file is under the ceilings too, since a restart makes it the table, and
  that a secret revoked in memory has no row there yet may have one in the file
  until the revocation is saved. The action property needs one more
  (`GoneIsBelieved`): what the waker remembers as gone was said by a service that
  may say so, so Apple never said it of a token of Google's.

## 6. Only model-checked

- Liveness: `ListenerIsServed`, `SlotReconnects`, `SeatIsGivenUp`,
  `PlaybackDrains`, `ScheduledIsWoken`. Fairness and ENABLED are out of the proof
  system's reach.
- `Converges` is false, and a run shows it.

## 7. Not modelled

- Cryptography (handshakes, blind tokens, sealing, what MLS does inside) is opaque
  here; the repository has ProVerif models of it under `formal/`.
- `crates/net`, by far the largest part of the repository, is a vendored QUIC
  stack, relay protocol and resolver; of it only that `on_disconnect` runs once
  per admitted connection is used.
- Audio and codec are floating-point signal processing.
- Of the clients: messages and their sequence numbers, receipts, pictures, files,
  calls being set up, the handshake of first contact, and the mailbox client with
  its several mailboxes.
- Of the mailbox server: tickets, and the channels inside `run_front`. A snapshot
  is written at once; the code takes it under the lock and seals it outside, so
  the sweeper's and the shutdown's could be written in the other order.
- HTTP routes, counters, status pages, applications and bindings are I/O.

`PROJECT.json` gives the reason for every part.

## 8. Plan

Done: the store, the server's sessions, the front, admission, rooms, metering, the
wake registry, media, conversations. Left, in this order:

1. `MailboxClient` composed with `MailboxServer`: receipts, replies read by a
   later request, reconnection; end-to-end delivery at least once.
2. `RunFront`: the channels between `run_front`, the session tasks and the
   forwarding tasks, composed with `Front`'s view of the mailbox.
3. First contact: the welcome and the commit that mixes in the post-quantum
   secret, which race the guest's unsubscription from the meeting place.
4. Tickets, and the two writers of a snapshot.
