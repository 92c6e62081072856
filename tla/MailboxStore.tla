---------------------------- MODULE MailboxStore ----------------------------
(***************************************************************************)
(* The blind mailbox store of rotelyx-mailbox/src/store.rs: opaque         *)
(* envelopes under opaque tags, each with its own retention, plus the      *)
(* snapshot an operator writes down and reads back after a restart.        *)
(*                                                                         *)
(* The code keeps one Vec<Stored> per tag, pushes at the back and removes  *)
(* in place, so the position of an entry is the order in which it arrived. *)
(* Here the store is one set of entries that carry their arrival number n; *)
(* the slot of a tag is a filter of that set and "the front of the Vec" is *)
(* the entry with the smallest n.  A slot that is empty and a slot that is *)
(* absent are the same thing: the code removes the slots it empties.       *)
(***************************************************************************)
EXTENDS Naturals, FiniteSets

CONSTANTS
    Tags,          \* the opaque 32-byte tags
    Bodies,        \* the opaque padded payloads
    Limits,        \* the tiers' limits a deposit may be made under
    MAX_PER_TAG,   \* the absolute ceiling under one tag (256 in the code)
    MaxArrivals,   \* bound: deposits in a behaviour
    MaxNow         \* bound: the largest reading of the clock

ASSUME LimitsAssumption ==
    Limits \subseteq [ttl_seconds : Nat, max_per_tag : Nat \ {0}]

ASSUME CeilingAssumption == MAX_PER_TAG \in Nat \ {0}

ASSUME BoundsAssumption == MaxArrivals \in Nat /\ MaxNow \in Nat

VARIABLES
    held,      \* the entries in memory, over all tags
    now,       \* the wall clock, in units of the model
    arrivals,  \* how many deposits there have been: the next arrival number
    disk,      \* the entries of the last snapshot written
    served     \* the entries the last operation handed out

storeVars == <<held, now, arrivals, disk, served>>

Envelope == [tag : Tags, body : Bodies]

Stored == [n : Nat, envelope : Envelope, deposited_at : Nat, ttl_seconds : Nat]

StoreTypeOK ==
    /\ held \subseteq Stored
    /\ disk \subseteq Stored
    /\ served \subseteq Stored
    /\ now \in Nat
    /\ arrivals \in Nat

-----------------------------------------------------------------------------
(* Expiry and slots.                                                       *)

\* u64::saturating_sub: the wall clock can be set back under a deposit.
SaturatingSub(a, b) == IF a >= b THEN a - b ELSE 0

Expired(s, t) == SaturatingSub(t, s.deposited_at) >= s.ttl_seconds

Live(entries, t) == {s \in entries : ~Expired(s, t)}

Slot(tag) == {s \in held : s.envelope.tag = tag}

\* The front of the Vec: no entry of the set arrived before it.
Front(entries) == {s \in entries : \A r \in entries : s.n <= r.n}

\* A BLAKE3 digest over tag and payload: taken to name exactly one envelope.
Digest(envelope) == envelope

-----------------------------------------------------------------------------
(* The operations.                                                         *)

Ceiling(limits) ==
    IF limits.max_per_tag <= MAX_PER_TAG THEN limits.max_per_tag ELSE MAX_PER_TAG

\* Mutant: the front goes even when something expired could.
DisplacedFrontAlways(slot, ceiling) ==
    IF Cardinality(Live(slot, now)) < ceiling THEN {} ELSE Front(slot)

\* What a deposit drops to make room: nothing below the ceiling, else the
\* first expired entry if there is one, else the front of the slot.
Displaced(slot, ceiling) ==
    LET live == Live(slot, now)
    IN  IF Cardinality(live) < ceiling THEN {}
        ELSE IF slot \ live # {} THEN Front(slot \ live)
        ELSE Front(slot)

\* Mutant: the entry is dated by when it will lapse, counted the wrong way.
DepositWithBackdated(envelope, limits) ==
    /\ arrivals < MaxArrivals
    /\ held' = (held \ Displaced(Slot(envelope.tag), Ceiling(limits)))
                 \union {[n            |-> arrivals,
                          envelope     |-> envelope,
                          deposited_at |-> now - limits.ttl_seconds,
                          ttl_seconds  |-> limits.ttl_seconds]}
    /\ arrivals' = arrivals + 1
    /\ served' = {}
    /\ UNCHANGED <<now, disk>>

DepositWith(envelope, limits) ==
    /\ arrivals < MaxArrivals
    /\ held' = (held \ Displaced(Slot(envelope.tag), Ceiling(limits)))
                 \union {[n            |-> arrivals,
                          envelope     |-> envelope,
                          deposited_at |-> now,
                          ttl_seconds  |-> limits.ttl_seconds]}
    /\ arrivals' = arrivals + 1
    /\ served' = {}
    /\ UNCHANGED <<now, disk>>

\* Destructive: the slot goes, expired entries with it; the live are handed out.
Collect(tag) ==
    /\ held' = held \ Slot(tag)
    /\ served' = Live(Slot(tag), now)
    /\ UNCHANGED <<now, arrivals, disk>>

CollectMany(tags) ==
    /\ held' = {s \in held : s.envelope.tag \notin tags}
    /\ served' = Live(UNION {Slot(tag) : tag \in tags}, now)
    /\ UNCHANGED <<now, arrivals, disk>>

\* Mutant: peeking trusts the sweep to have run.
PeekManyUnfiltered(tags) ==
    /\ served' = UNION {Slot(tag) : tag \in tags}
    /\ UNCHANGED <<held, now, arrivals, disk>>

PeekMany(tags) ==
    /\ served' = Live(UNION {Slot(tag) : tag \in tags}, now)
    /\ UNCHANGED <<held, now, arrivals, disk>>

\* Every copy with that digest goes.  The digest covers the tag, so the first
\* listed tag that holds it is the only one that can.
Acknowledged(tags, digests) ==
    {s \in held : s.envelope.tag \in tags /\ Digest(s.envelope) \in digests}

\* One call per digest in the code, all of them under one lock of the store.
RemoveAcknowledged(tags, digests) ==
    /\ held' = held \ Acknowledged(tags, digests)
    /\ served' = {}
    /\ UNCHANGED <<now, arrivals, disk>>

Sweep ==
    /\ held' = Live(held, now)
    /\ served' = {}
    /\ UNCHANGED <<now, arrivals, disk>>

Snapshot ==
    /\ disk' = held
    /\ served' = {}
    /\ UNCHANGED <<held, now, arrivals>>

\* The process stops, whatever was in memory is gone, and the next one starts
\* from the snapshot without what has expired since.
Restore ==
    /\ held' = Live(disk, now)
    /\ served' = {}
    /\ UNCHANGED <<now, arrivals, disk>>

\* now_seconds() reads SystemTime, which an administrator or NTP may set back.
SetClock(t) ==
    /\ now' = t
    /\ served' = {}
    /\ UNCHANGED <<held, arrivals, disk>>

-----------------------------------------------------------------------------
StoreInit ==
    /\ held = {}
    /\ disk = {}
    /\ served = {}
    /\ now = 0
    /\ arrivals = 0

StoreNext ==
    \/ \E e \in Envelope, l \in Limits : DepositWith(e, l)
    \/ \E t \in Tags : Collect(t)
    \/ \E ts \in SUBSET Tags : CollectMany(ts)
    \/ \E ts \in SUBSET Tags : PeekMany(ts)
    \/ \E ts \in SUBSET Tags, es \in SUBSET Envelope :
          RemoveAcknowledged(ts, {Digest(e) : e \in es})
    \/ Sweep
    \/ Snapshot
    \/ Restore
    \/ \E t \in 0..MaxNow : SetClock(t)

StoreSpec == StoreInit /\ [][StoreNext]_storeVars

-----------------------------------------------------------------------------
(* Properties.                                                             *)

\* Expiry is enforced where envelopes are handed out, not only by the sweep:
\* whatever collect, collect_many or peek_many hands out is within its
\* retention even if no sweep has run since it lapsed, across restarts.
ServedUnexpired == \A s \in served : ~Expired(s, now)

\* "The oldest goes and the newest is taken": a deposit costs at most one
\* entry its place.  When that entry is live, nothing expired was left to drop
\* instead, every other entry of the tag is newer, and the tag holds as many
\* live envelopes as the depositor's ceiling allows.
DisplacesOldest ==
    [][\A e \in Envelope, l \in Limits : DepositWith(e, l) =>
         \A s \in held \ held' :
            /\ held \ held' = {s}
            /\ s.envelope.tag = e.tag
            /\ \/ Expired(s, now)
               \/ LET slot == {r \in held' : r.envelope.tag = e.tag}
                  IN  /\ \A r \in slot : r.n # arrivals => ~Expired(r, now)
                      /\ \A r \in slot : r.n > s.n
                      /\ Cardinality(slot) >= Ceiling(l)]_storeVars
=============================================================================
