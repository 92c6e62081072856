---------------------------- MODULE WakeRegistry ------------------------------
(***************************************************************************)
(* The devices a mailbox server wakes: registration and revocation from    *)
(* several connections, the task that wakes every device on a schedule and *)
(* forgets the ones the push services call dead, the sealed file the       *)
(* registry is kept in, and restarts from it.                              *)
(*                                                                         *)
(* A secret stands for its hash.  A device that gives none stores the      *)
(* empty string, which is the hash of no secret.  Each row names the       *)
(* service to call about it, and it is whoever registers that says which:  *)
(* the server cannot tell from a token who issued it.  The push services   *)
(* are external: a call is answered, and may be answered that the token is *)
(* gone.  Requests that are refused (a short secret, a malformed token, a  *)
(* server that can call nobody) change nothing and are left out.           *)
(***************************************************************************)
EXTENDS Integers, FiniteSets

CONSTANTS
    Tokens,              \* push tokens
    Home,                \* Home[t]: the service that issued t, unknown to the server
    Pushers,             \* the services this server has keys for
    Secrets,             \* hashes of the secrets devices make up
    NoSecret,            \* what a device without one stores
    Handlers,            \* connections
    MAX_ROWS_PER_TOKEN,  \* 4 in the code
    MAX_DEVICES,         \* 100 000 in the code
    MaxRequests,         \* bound: requests
    MaxUnkind,           \* bound: restarts and failed saves
    None

\* The services a row may name.
Kinds == {"apns", "fcm"}

ASSUME WakeAssumption ==
    /\ Home \in [Tokens -> Kinds]
    /\ Pushers \subseteq Kinds /\ Pushers # {}
    /\ NoSecret \notin Secrets
    /\ None \notin Secrets \union {NoSecret}
    /\ MAX_ROWS_PER_TOKEN \in Nat \ {0} /\ MAX_DEVICES \in Nat \ {0}
    /\ MaxRequests \in Nat /\ MaxUnkind \in Nat

VARIABLES
    devices,   \* Registry::devices
    disk,      \* the sealed registry at wake_state
    asked,     \* the secret a handler has acted on and has yet to save for
    waker,     \* the waker's task: phase, calls to make, calls made, calls answered "gone"
    requests,  \* requests so far
    unkind,    \* restarts and failed saves so far
    revoked    \* secrets revoked, "memory" until a save has written it (history)

vars == <<devices, disk, asked, waker, requests, unkind, revoked>>

Device == [token : Tokens, kind : Kinds, hash : Secrets \union {NoSecret},
           onSchedule : BOOLEAN]

\* A row as the sweep uses it: whom to call about which token.
Wake == [token : Tokens, kind : Kinds]

RowsOf(t) == {r \in devices : r.token = t}

\* The types, and the two ceilings a registration may not lift the table over.
WakeTypeOK ==
    /\ devices \subseteq Device
    /\ Cardinality(devices) <= MAX_DEVICES
    /\ \A t \in Tokens : Cardinality(RowsOf(t)) <= MAX_ROWS_PER_TOKEN
    /\ disk \subseteq Device
    /\ asked \in [Handlers -> Secrets \union {NoSecret, None}]
    /\ waker \in [phase : {"idle", "calling", "forgot"}, todo : SUBSET Wake,
                  called : SUBSET Wake, dead : SUBSET Wake]
    /\ requests \in 0..MaxRequests
    /\ unkind \in 0..MaxUnkind
    /\ revoked \in [Secrets -> {"no", "memory", "disk"}]

-----------------------------------------------------------------------------
(* Registry.                                                               *)

\* Mutant: any row of the token is the caller's own.
MineByToken(row) == RowsOf(row.token)

\* The caller's own rows: the same token, and the same secret.
Mine(row) == {r \in RowsOf(row.token) : r.hash = row.hash}

\* Mutant: the ceiling is looked at for the whole table only.
RegisteredUnbounded(row) ==
    IF Mine(row) # {} THEN (devices \ Mine(row)) \union {row}
    ELSE IF Cardinality(devices) >= MAX_DEVICES THEN devices
    ELSE devices \union {row}

\* Registry::register: replace one's own row, or add one, or, at a ceiling, say
\* so to nobody.
Registered(row) ==
    IF Mine(row) # {} THEN (devices \ Mine(row)) \union {row}
    ELSE IF \/ Cardinality(RowsOf(row.token)) >= MAX_ROWS_PER_TOKEN
            \/ Cardinality(devices) >= MAX_DEVICES
         THEN devices
    ELSE devices \union {row}

\* Mutant: revocation stops at the first row it finds.
RevokedFirst(s) ==
    LET rows == {r \in devices : r.hash = s}
    IN  IF rows = {} THEN devices ELSE devices \ {CHOOSE r \in rows : TRUE}

\* Registry::revoke: every row of the secret, whatever its token.
Revoked(s) == {r \in devices : r.hash # s}

\* The rows of a token that come first in the set's order.  It is by token, then
\* by kind; what it goes by after that the sweep does not look at.
First(rows) == {r \in rows : r.kind = "apns" \/ \A q \in rows : q.kind = "fcm"}

OnSchedule(t) == {r \in RowsOf(t) : r.onSchedule}

\* Mutant: one row per token is picked before the schedule is asked about.
ToWakeFirst ==
    {[token |-> r.token, kind |-> r.kind] :
        r \in {d \in devices : d.onSchedule /\ d \in First(RowsOf(d.token))
                              /\ d = CHOOSE q \in First(RowsOf(d.token)) : TRUE}}

\* Registry::to_wake: of the rows on the schedule the first of each token.
ToWake ==
    {[token |-> r.token, kind |-> r.kind] :
        r \in {d \in devices : d \in First(OnSchedule(d.token))}}

-----------------------------------------------------------------------------
(* Requests.                                                               *)

\* Request::RegisterWake, as far as the registry; save_wake and the reply are
\* still to come.
RegisterWake(h, row) ==
    /\ asked[h] = None /\ requests < MaxRequests
    /\ devices' = Registered(row)
    /\ asked' = [asked EXCEPT ![h] = row.hash]
    /\ requests' = requests + 1
    /\ revoked' = [s \in Secrets |-> IF s = row.hash THEN "no" ELSE revoked[s]]
    /\ UNCHANGED <<disk, waker, unkind>>

\* Request::RevokeWake, likewise.
RevokeWake(h, s) ==
    /\ asked[h] = None /\ requests < MaxRequests
    /\ devices' = Revoked(s)
    /\ asked' = [asked EXCEPT ![h] = s]
    /\ requests' = requests + 1
    /\ revoked' = [revoked EXCEPT ![s] = "memory"]
    /\ UNCHANGED <<disk, waker, unkind>>

\* save_wake: the registry as it is now, under its lock, or a warning in the log.
SaveWake ==
    \/ /\ disk' = devices
       /\ revoked' = [s \in Secrets |-> IF revoked[s] = "memory" THEN "disk" ELSE revoked[s]]
       /\ UNCHANGED unkind
    \/ /\ unkind < MaxUnkind
       /\ unkind' = unkind + 1
       /\ UNCHANGED <<disk, revoked>>

\* The handler saves and answers.
Answer(h) ==
    /\ asked[h] # None
    /\ SaveWake
    /\ asked' = [asked EXCEPT ![h] = None]
    /\ UNCHANGED <<devices, waker, requests>>

-----------------------------------------------------------------------------
(* The waker's task.                                                       *)

Idle == [phase |-> "idle", todo |-> {}, called |-> {}, dead |-> {}]

\* A tick: read whom to wake, and let go of the registry.
WakeTick ==
    /\ waker.phase = "idle"
    /\ ToWake # {}
    /\ waker' = [phase |-> "calling", todo |-> ToWake, called |-> {}, dead |-> {}]
    /\ UNCHANGED <<devices, disk, asked, requests, unkind, revoked>>

\* What Apns::is_gone and Fcm::is_gone take for "gone for good": Apple says it of
\* a token it issued, Google also of one that was never its own.
MayCallGone(w) == w.kind = Home[w.token] \/ w.kind = "fcm"

\* rotelyx_push::sweep makes one call after the other, each to the service the
\* row names; a row of a service there are no keys for is skipped.
Call(w) ==
    /\ waker.phase = "calling"
    /\ w \in waker.todo
    /\ \E made \in SUBSET {w}, gone \in SUBSET {w} :
          /\ made = {v \in {w} : v.kind \in Pushers}
          /\ gone \subseteq {v \in made : MayCallGone(v)}
          /\ waker' = [waker EXCEPT !.todo = @ \ {w},
                                    !.called = @ \union made,
                                    !.dead = @ \union gone]
    /\ UNCHANGED <<devices, disk, asked, requests, unkind, revoked>>

\* Registry::forget_token of every token that was called dead, as the registry
\* is by now.
Forget ==
    /\ waker.phase = "calling" /\ waker.todo = {}
    /\ IF waker.dead = {}
       THEN waker' = Idle /\ UNCHANGED devices
       ELSE /\ waker' = [waker EXCEPT !.phase = "forgot"]
            /\ devices' = {r \in devices : \A w \in waker.dead : w.token # r.token}
    /\ UNCHANGED <<disk, asked, requests, unkind, revoked>>

WakerSaves ==
    /\ waker.phase = "forgot"
    /\ SaveWake
    /\ waker' = Idle
    /\ UNCHANGED <<devices, asked, requests>>

\* The process ends between any two steps, and the next one restores what is on
\* disk.
Restart ==
    /\ unkind < MaxUnkind
    /\ unkind' = unkind + 1
    /\ devices' = disk
    /\ asked' = [h \in Handlers |-> None]
    /\ waker' = Idle
    /\ revoked' = [s \in Secrets |-> IF revoked[s] = "memory" THEN "no" ELSE revoked[s]]
    /\ UNCHANGED <<disk, requests>>

-----------------------------------------------------------------------------
Init ==
    /\ devices = {}
    /\ disk = {}
    /\ asked = [h \in Handlers |-> None]
    /\ waker = Idle
    /\ requests = 0
    /\ unkind = 0
    /\ revoked = [s \in Secrets |-> "no"]

Waking == WakeTick \/ (\E w \in Wake : Call(w)) \/ Forget \/ WakerSaves

Next ==
    \/ \E h \in Handlers : \/ \E row \in Device : RegisterWake(h, row)
                           \/ \E s \in Secrets : RevokeWake(h, s)
                           \/ Answer(h)
    \/ Waking
    \/ Restart

Spec == Init /\ [][Next]_vars

\* The ticker fires and the push services answer or time out, so the waker's
\* task goes on.
FairSpec == Spec /\ WF_vars(Waking)

-----------------------------------------------------------------------------
(* Properties.                                                             *)

\* A secret whose revocation was written down wakes nothing until somebody
\* registers with it again: no row of it is in memory or on disk, whatever other
\* handlers and the waker save in between and however often the server restarts.
RevokedStaysRevoked ==
    \A s \in Secrets : revoked[s] = "disk" =>
        \A r \in devices \union disk : r.hash # s

\* A push token is an address, not a credential.  While the server runs, a row
\* goes only when its secret is shown, or with a token that was called gone by
\* the service that issued it, or by Google which was asked about a token of
\* Apple's.  In this sense a row registered without a secret has one that
\* everybody knows: registering without one replaces it.
OwnerKeepsTheRow ==
    [][\A r \in devices \ devices' :
          \/ unkind' # unkind
          \/ \E h \in Handlers : asked[h] = None /\ asked'[h] = r.hash
          \/ [token |-> r.token, kind |-> Home[r.token]] \in waker.dead
          \/ Home[r.token] = "apns" /\ [token |-> r.token, kind |-> "fcm"] \in waker.dead]_vars

\* A row of the token asks for the schedule and names the right service.
Wanted(t) == \E r \in OnSchedule(t) : r.kind = Home[t]

\* A row that comes before it names another.
Hidden(t) == \E r \in OnSchedule(t) : r.kind = "apns" /\ Home[t] = "fcm"

\* A device that asked for the schedule is called by its own service again and
\* again for as long as a row says so, whoever else registered its token: an
\* Apple device always, one of Google's unless a row that names Apple and is on
\* the schedule takes the one call its token gets.
ScheduledIsWoken ==
    \A t \in Tokens : Home[t] \in Pushers =>
        (Wanted(t) ~> \/ [token |-> t, kind |-> Home[t]] \in waker.called
                      \/ ~Wanted(t)
                      \/ Hidden(t))
=============================================================================
