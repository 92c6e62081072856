------------------------------ MODULE Admission -----------------------------
(***************************************************************************)
(* Admission of connections: rotelyx-mailbox-server/src/limits.rs, keyed   *)
(* on the caller's address, and rotelyx-relay/src/limits.rs, keyed on its  *)
(* identity.  The two decide alike: a total, then per caller a token       *)
(* bucket and a count of what it holds open.  They differ in the numbers,  *)
(* in the exempt addresses only the mailbox has, and in when the table of  *)
(* buckets is swept: always at the mailbox (SWEEP_OVER = 0), above 1024    *)
(* entries at the relay.                                                   *)
(*                                                                         *)
(* Time is counted in the ticks in which a bucket earns one unit, and a    *)
(* connection costs COST units: the f64 token count, in fixed point.       *)
(*                                                                         *)
(* Both read the clock before they take the lock, so a decision may be     *)
(* made at a time t that is behind `now', and behind the time of a         *)
(* decision made before it.                                                *)
(***************************************************************************)
EXTENDS Integers, Sequences, FiniteSets

CONSTANTS
    Callers,       \* addresses, or endpoint identities
    Exempt,        \* --exempt-address: held to the total only
    CONNECTIONS,   \* PER_ADDRESS_CONNECTIONS / PER_ENDPOINT_CONNECTIONS
    BURST,         \* PER_ADDRESS_BURST / PER_ENDPOINT_BURST, in units
    COST,          \* units one connection costs
    TOTAL,         \* max_total / TOTAL_CONNECTIONS
    FORGET_AFTER,  \* ticks an idle bucket is kept
    SWEEP_OVER,    \* the table is swept when it holds more than this
    SKEW,          \* the longest a call waits for the lock, in ticks
    MaxNow,        \* bound: the last tick
    MaxAdmitted,   \* bound: admissions of one caller
    MaxReplayed    \* bound: ticks one caller's bucket is set back by

ASSUME AdmissionAssumption ==
    /\ Exempt \subseteq Callers
    /\ CONNECTIONS \in Nat /\ BURST \in Nat /\ COST \in Nat /\ TOTAL \in Nat
    /\ SWEEP_OVER \in Nat /\ SKEW \in Nat /\ MaxNow \in Nat
    /\ MaxAdmitted \in Nat /\ MaxReplayed \in Nat

\* A bucket that is forgotten would have been full again anyway, even for a
\* call that read the clock a while ago: the burst is earned in 20 seconds and
\* the bucket kept for 600.
ASSUME ForgetAssumption == FORGET_AFTER \in Nat /\ FORGET_AFTER >= BURST + SKEW

VARIABLES
    now,         \* Instant::now(), which never goes back
    known,       \* the keys of State::buckets
    bucket,      \* bucket[c]: c's bucket, while it is known
    total_open,  \* State::total_open
    slots,       \* slots[c]: the Slot guards of c that are alive
    admitted,    \* admitted[c]: when c was let in through its bucket (history)
    replayed     \* replayed[c]: ticks c's bucket was set back by, and so earned
                 \* again (history)

vars == <<now, known, bucket, total_open, slots, admitted, replayed>>

Bucket == [tokens : Nat, refilled : Nat, open : Nat]

AdmissionTyped ==
    /\ now \in Nat
    /\ known \subseteq Callers
    /\ bucket \in [Callers -> Bucket]
    /\ total_open \in Nat
    /\ slots \in [Callers -> Nat]
    /\ admitted \in [Callers -> Seq(Nat)]
    /\ replayed \in [Callers -> Nat]

\* A bucket never holds more than the burst, and was refilled at a time the clock
\* has shown.
BucketsWithinBurst ==
    \A c \in known : bucket[c].refilled <= now /\ bucket[c].tokens <= BURST

\* The types and the ranges: no count below zero, no bucket over the burst.
AdmissionTypeOK == AdmissionTyped /\ BucketsWithinBurst

-----------------------------------------------------------------------------
Less(n) == IF n = 0 THEN 0 ELSE n - 1

AtMost(n, cap) == IF n <= cap THEN n ELSE cap

\* Instant::duration_since, which saturates.
Since(t, earlier) == IF earlier <= t THEN t - earlier ELSE 0

\* What Instant::now() may have returned to a call that now holds the lock.
Readings == {t \in 0..now : now - t <= SKEW}

\* Mutant: an idle-looking bucket is dropped although connections are open.
KeptIdle(t) ==
    IF Cardinality(known) > SWEEP_OVER
    THEN {c \in known : Since(t, bucket[c].refilled) < FORGET_AFTER}
    ELSE known

\* The keys that survive the sweep a decision starts with.
Kept(t) ==
    IF Cardinality(known) > SWEEP_OVER
    THEN {c \in known : bucket[c].open > 0 \/ Since(t, bucket[c].refilled) < FORGET_AFTER}
    ELSE known

\* Mutant: the refill is not capped at the burst.
RefilledUncapped(c, t) ==
    IF c \in Kept(t)
    THEN [bucket[c] EXCEPT !.tokens = @ + Since(t, bucket[c].refilled), !.refilled = t]
    ELSE [tokens |-> BURST, refilled |-> t, open |-> 0]

\* The caller's bucket, new or old, with what it has earned since.
Refilled(c, t) ==
    IF c \in Kept(t)
    THEN [bucket[c] EXCEPT !.tokens = AtMost(@ + Since(t, bucket[c].refilled), BURST),
                           !.refilled = t]
    ELSE [tokens |-> BURST, refilled |-> t, open |-> 0]

\* The ticks the refill moves the bucket's clock back by (history).
SetBack(c, t) == IF c \in Kept(t) THEN Since(bucket[c].refilled, t) ELSE 0

\* Mutant: one connection more than the limit.
MayEnterOneMore(b) == b.open <= CONNECTIONS /\ b.tokens >= COST

\* Mutant: nobody asks whether there is a token to take.
MayEnterUnpaid(b) == b.open < CONNECTIONS

MayEnter(b) == b.open < CONNECTIONS /\ b.tokens >= COST

\* Limits::admit for an exempt address: counted against the total only.
AdmitExempt(c) ==
    /\ total_open < TOTAL
    /\ c \in Exempt
    /\ total_open' = total_open + 1
    /\ slots' = [slots EXCEPT ![c] = @ + 1]
    /\ UNCHANGED <<now, known, bucket, admitted, replayed>>

Admit(c, t) ==
    /\ total_open < TOTAL
    /\ c \notin Exempt
    /\ Len(admitted[c]) < MaxAdmitted
    /\ replayed[c] + SetBack(c, t) <= MaxReplayed
    /\ MayEnter(Refilled(c, t))
    /\ known' = Kept(t) \union {c}
    /\ bucket' = [bucket EXCEPT ![c] = [Refilled(c, t) EXCEPT !.tokens = @ - COST,
                                                              !.open = @ + 1]]
    /\ total_open' = total_open + 1
    /\ slots' = [slots EXCEPT ![c] = @ + 1]
    /\ admitted' = [admitted EXCEPT ![c] = Append(@, t)]
    /\ replayed' = [replayed EXCEPT ![c] = @ + SetBack(c, t)]
    /\ UNCHANGED now

\* Refused for rate or for concurrency: swept and refilled all the same.  (A
\* refusal for the total touches nothing but a counter.)
Refuse(c, t) ==
    /\ total_open < TOTAL
    /\ c \notin Exempt
    /\ replayed[c] + SetBack(c, t) <= MaxReplayed
    /\ ~MayEnter(Refilled(c, t))
    /\ known' = Kept(t) \union {c}
    /\ bucket' = [bucket EXCEPT ![c] = Refilled(c, t)]
    /\ replayed' = [replayed EXCEPT ![c] = @ + SetBack(c, t)]
    /\ UNCHANGED <<now, total_open, slots, admitted>>

\* Drop for Slot / Limited::released.
Release(c) ==
    /\ slots[c] > 0
    /\ slots' = [slots EXCEPT ![c] = @ - 1]
    /\ total_open' = Less(total_open)
    /\ bucket' = IF c \in known THEN [bucket EXCEPT ![c].open = Less(@)] ELSE bucket
    /\ UNCHANGED <<now, known, admitted, replayed>>

Tick ==
    /\ now < MaxNow
    /\ now' = now + 1
    /\ UNCHANGED <<known, bucket, total_open, slots, admitted, replayed>>

Init ==
    /\ now = 0
    /\ known = {}
    /\ bucket = [c \in Callers |-> [tokens |-> 0, refilled |-> 0, open |-> 0]]
    /\ total_open = 0
    /\ slots = [c \in Callers |-> 0]
    /\ admitted = [c \in Callers |-> <<>>]
    /\ replayed = [c \in Callers |-> 0]

Next ==
    \/ \E c \in Callers : AdmitExempt(c) \/ Release(c)
    \/ \E c \in Callers, t \in Readings : Admit(c, t) \/ Refuse(c, t)
    \/ Tick

Spec == Init /\ [][Next]_vars

-----------------------------------------------------------------------------
(* Properties.                                                             *)

\* The guards that are alive, one by one.
Guards == UNION {{c} \X (1..slots[c]) : c \in Callers}

TotalCounted == total_open = Cardinality(Guards)

CallersCounted ==
    \A c \in Callers \ Exempt : slots[c] = IF c \in known THEN bucket[c].open ELSE 0

\* The saturating counts never saturate: what the state counts as open is what
\* is open, in total and, however often the table has been swept, per caller.
OpenIsCounted == TotalCounted /\ CallersCounted

\* No more than the limits: a caller never holds more than its share open, nor
\* all of them together more than the total.
WithinLimits ==
    /\ total_open <= TOTAL
    /\ \A c \in Callers \ Exempt : slots[c] <= CONNECTIONS

\* From any admission of a caller to any later one, the burst and what the time
\* between them earned pay for every connection let in, both ends included,
\* even if its bucket was forgotten and made anew in between; except for the
\* ticks that calls reaching the lock out of order earned the bucket twice.
RateBounded ==
    \A c \in Callers : \A i, j \in 1..Len(admitted[c]) :
        i <= j => COST * (j - i + 1)
                    <= BURST + (admitted[c][j] - admitted[c][i]) + replayed[c]
=============================================================================
