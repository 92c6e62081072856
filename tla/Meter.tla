-------------------------------- MODULE Meter ---------------------------------
(***************************************************************************)
(* Capabilities and the meter of the mailbox server: what a token or a     *)
(* nameless caller may deposit in a period, across connections, the        *)
(* sweeper, a clock that is set back, and restarts from the snapshot.      *)
(*                                                                         *)
(* A capability is its id: a bought token's own, or a random one drawn for *)
(* a connection that presented nothing.  Signatures are left out: Auth is  *)
(* asked with tokens that verify, and one that does not changes nothing.   *)
(***************************************************************************)
EXTENDS Integers, FiniteSets

CONSTANTS
    Conns,         \* connections
    Tokens,        \* ids of bought tokens
    FreeIds,       \* ids Capability::free may draw
    Expires,       \* claims.expires_hour of each token
    Limit,         \* limits.bytes_per_period of each id, 0 for unmetered
    Sizes,         \* payload lengths the tiers let through
    PERIOD_HOURS,  \* 24 in the code
    MaxHour,       \* bound: the clock
    MaxUnkind,     \* bound: steps back of the clock, restarts and failed saves
    None

Ids == Tokens \union FreeIds

ASSUME MeterAssumption ==
    /\ Tokens \intersect FreeIds = {}
    /\ Expires \in [Tokens -> Nat]
    /\ Limit \in [Ids -> Nat]
    /\ Sizes \subseteq Nat
    /\ PERIOD_HOURS \in Nat \ {0}
    /\ MaxHour \in Nat /\ MaxUnkind \in Nat
    /\ None \notin Ids

Period(h) == h \div PERIOD_HOURS
Periods == {Period(h) : h \in 0..MaxHour}
Spent == [period : Periods, bytes : Nat]

ASSUME NoneIsNoEntry == None \notin Spent

VARIABLES
    hour,      \* now_seconds() / 3600
    cap,       \* the capability of each connection
    drawn,     \* free ids drawn so far
    spent,     \* Meter::spent
    disk,      \* the snapshot at meter_state
    saving,    \* the sweeper has swept and has yet to save
    unkind,    \* steps back, restarts and failed saves so far
    accepted,  \* bytes allowed, by id and period (history)
    since,     \* bytes allowed since the last snapshot that was written (history)
    resets     \* times an id may have been handed its allowance again (history)

vars == <<hour, cap, drawn, spent, disk, saving, unkind, accepted, since, resets>>

MeterTypeOK ==
    /\ hour \in 0..MaxHour
    /\ cap \in [Conns -> Ids \union {None}]
    /\ drawn \subseteq FreeIds
    /\ spent \in [Ids -> Spent \union {None}]
    /\ disk \in [Ids -> Spent \union {None}]
    /\ \A i \in Ids : /\ spent[i] # None => spent[i].bytes <= Limit[i]
                      /\ disk[i] # None => disk[i].bytes <= Limit[i]
    /\ saving \in BOOLEAN
    /\ unkind \in 0..MaxUnkind
    /\ accepted \in [Ids -> [Periods -> Nat]]
    /\ since \in [Ids -> Nat]
    /\ resets \in [Ids -> Nat]

\* What a table has of an id in a period.
In(table, i, p) ==
    IF table[i] # None /\ table[i].period = p THEN table[i].bytes ELSE 0

-----------------------------------------------------------------------------
(* Meter::charge.                                                          *)

\* Mutant: the quota is looked at before the charge and not with it.
FitsBefore(i, n) == In(spent, i, Period(hour)) < Limit[i] \/ n = 0

\* would_be <= limit; the addition saturates, and no limit is u64::MAX.
Fits(i, n) == In(spent, i, Period(hour)) + n <= Limit[i]

\* An unmetered id leaves no row.  A row of another period starts again, also
\* when the charge is refused.
Charge(i, n) ==
    IF Limit[i] = 0
    THEN UNCHANGED <<spent, accepted, since>>
    ELSE LET p == Period(hour)
             more == IF Fits(i, n) THEN n ELSE 0
         IN  /\ spent' = [spent EXCEPT ![i] = [period |-> p, bytes |-> In(spent, i, p) + more]]
             /\ accepted' = [accepted EXCEPT ![i][p] = @ + more]
             /\ since' = [since EXCEPT ![i] = @ + more]

-----------------------------------------------------------------------------
(* Connections.                                                            *)

\* A connection starts on the free tier, under an id of its own.
Connect(c, i) ==
    /\ cap[c] = None
    /\ i \notin drawn
    /\ cap' = [cap EXCEPT ![c] = i]
    /\ drawn' = drawn \union {i}
    /\ UNCHANGED <<hour, spent, disk, saving, unkind, accepted, since, resets>>

Disconnect(c) ==
    /\ cap[c] # None
    /\ cap' = [cap EXCEPT ![c] = None]
    /\ UNCHANGED <<hour, drawn, spent, disk, saving, unkind, accepted, since, resets>>

\* Request::Auth: the expiry is looked at here and never again, and the reply
\* reads the meter with a charge of nothing.  Request::AuthBlind is the same of a
\* token that never expires.
Auth(c, t) ==
    /\ cap[c] # None
    /\ hour < Expires[t]
    /\ cap' = [cap EXCEPT ![c] = t]
    /\ Charge(t, 0)
    /\ UNCHANGED <<hour, drawn, disk, saving, unkind, resets>>

\* Request::Deposit, as far as the meter: what is charged is charged whether or
\* not the store takes the envelope.
Deposit(c, n) ==
    /\ cap[c] # None
    /\ Charge(cap[c], n)
    /\ UNCHANGED <<hour, cap, drawn, disk, saving, unkind, resets>>

-----------------------------------------------------------------------------
(* The sweeper, the snapshot and the clock.                                *)

\* Mutant: only rows of earlier periods count as passed, and the current one's.
SweptTooMuch(table, h) ==
    [i \in Ids |-> IF table[i] # None /\ table[i].period > Period(h) THEN table[i] ELSE None]

\* Meter::sweep
Swept(table, h) ==
    [i \in Ids |-> IF table[i] # None /\ table[i].period = Period(h) THEN table[i] ELSE None]

\* A tick of the sweeper forgets the counters of other periods, and goes on to
\* the tickets before it saves.
Sweep ==
    /\ ~saving
    /\ spent' = Swept(spent, hour)
    /\ saving' = TRUE
    /\ UNCHANGED <<hour, cap, drawn, disk, unkind, accepted, since, resets>>

\* Mutant: the snapshot is reported written when it was not.
SnapshotUnwritten ==
    /\ UNCHANGED <<disk, unkind>>
    /\ since' = [i \in Ids |-> 0]

\* save_meter, under the lock, or a warning in the log.
Snapshot ==
    \/ disk' = spent /\ since' = [i \in Ids |-> 0] /\ UNCHANGED unkind
    \/ unkind < MaxUnkind /\ unkind' = unkind + 1 /\ UNCHANGED <<disk, since>>

SweeperSaves ==
    /\ saving
    /\ saving' = FALSE
    /\ Snapshot
    /\ UNCHANGED <<hour, cap, drawn, spent, accepted, resets>>

\* A signalled shutdown saves; sessions go on until the process is gone.
ShutdownSaves ==
    /\ Snapshot
    /\ UNCHANGED <<hour, cap, drawn, spent, saving, accepted, resets>>

\* The process ends, signalled or killed, and the next one loads the snapshot.
Restart ==
    /\ unkind < MaxUnkind
    /\ unkind' = unkind + 1
    /\ spent' = Swept(disk, hour)
    /\ cap' = [c \in Conns |-> None]
    /\ saving' = FALSE
    /\ resets' = [i \in Ids |-> IF since[i] > 0 THEN resets[i] + 1 ELSE resets[i]]
    /\ since' = [i \in Ids |-> 0]
    /\ UNCHANGED <<hour, drawn, disk, accepted>>

Tick ==
    /\ hour < MaxHour
    /\ hour' = hour + 1
    /\ UNCHANGED <<cap, drawn, spent, disk, saving, unkind, accepted, since, resets>>

\* The operator or NTP sets the clock back.
SetBack(h) ==
    /\ h < hour
    /\ unkind < MaxUnkind
    /\ unkind' = unkind + 1
    /\ hour' = h
    /\ resets' = IF Period(h) = Period(hour) THEN resets
                 ELSE [i \in Ids |-> resets[i] + 1]
    /\ UNCHANGED <<cap, drawn, spent, disk, saving, accepted, since>>

-----------------------------------------------------------------------------
Init ==
    /\ hour = 0
    /\ cap = [c \in Conns |-> None]
    /\ drawn = {}
    /\ spent = [i \in Ids |-> None]
    /\ disk = [i \in Ids |-> None]
    /\ saving = FALSE
    /\ unkind = 0
    /\ accepted = [i \in Ids |-> [p \in Periods |-> 0]]
    /\ since = [i \in Ids |-> 0]
    /\ resets = [i \in Ids |-> 0]

Next ==
    \/ \E c \in Conns : \/ \E i \in FreeIds : Connect(c, i)
                        \/ Disconnect(c)
                        \/ \E t \in Tokens : Auth(c, t)
                        \/ \E n \in Sizes : Deposit(c, n)
    \/ Sweep
    \/ SweeperSaves
    \/ ShutdownSaves
    \/ Restart
    \/ Tick
    \/ \E h \in 0..MaxHour : SetBack(h)

Spec == Init /\ [][Next]_vars

-----------------------------------------------------------------------------
(* Properties.                                                             *)

\* A quota is a quota: in one period nobody is allowed more than the limit, and
\* once more the limit for each restart that forgot something of theirs and for
\* each time the clock went back over the end of a period.
AllowanceBound ==
    \A i \in Ids : Limit[i] # 0 =>
        \A p \in Periods : accepted[i][p] <= Limit[i] * (resets[i] + 1)

\* "A hard kill loses at most one interval of spending": whatever of a period
\* is not in the snapshot was allowed since that snapshot was written.
KillLosesOneInterval ==
    \A i \in Ids : \A p \in Periods :
        In(spent, i, p) <= In(disk, i, p) + since[i]
=============================================================================
