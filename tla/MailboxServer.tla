---------------------------- MODULE MailboxServer ---------------------------
(***************************************************************************)
(* The mailbox server of rotelyx-mailbox-server/src/main.rs: the sessions  *)
(* (run_session, handle_request), the wake channel between them, the       *)
(* sweeper task, and a process that may stop at any moment and come back   *)
(* from its last snapshot.  The store is module MailboxStore, reached      *)
(* under one lock.                                                         *)
(*                                                                         *)
(* A session is one task.  It handles one event at a time: a request, a    *)
(* wake, or the loss of its socket.  What it took from the store is handed *)
(* to the socket one envelope at a time with other sessions running in     *)
(* between, so what is taken and not yet written is state (outbox).        *)
(*                                                                         *)
(* A request the handler answers with an error before it touches anything  *)
(* (bad hex, too many tags, payload over the tier's limit, over quota)     *)
(* changes no state here and is not an action.                             *)
(***************************************************************************)
EXTENDS MailboxStore, Sequences

CONSTANTS
    Conns,                      \* connection ids; next_connection never reuses one
    MAX_TAGS_PER_SUBSCRIPTION,  \* 64 in the code
    MAX_TAGS_PER_CONNECTION,    \* 256 in the code
    WAKE_CAPACITY               \* slots of the broadcast channel, 1024 in the code

ASSUME SessionAssumption ==
    /\ MAX_TAGS_PER_SUBSCRIPTION \in Nat
    /\ MAX_TAGS_PER_CONNECTION \in Nat
    /\ MAX_TAGS_PER_SUBSCRIPTION <= MAX_TAGS_PER_CONNECTION
    /\ WAKE_CAPACITY \in Nat \ {0}

VARIABLES
    session,    \* session[c]: "new", "open" or "closed"
    listening,  \* listening[c]: the tags c listens on, oldest first
    wakes,      \* wakes[c]: wake events c has not received yet
    outbox,     \* outbox[c]: taken from the store, not yet written to the socket
    received,   \* received[c]: what was written to c's socket (history)
    from,       \* from[n + 1]: the connection that made deposit n (history)
    receipts,   \* <<n, c>>: the last step removed deposit n on a receipt of c's
    sweeper     \* "idle", or "save" between the sweep and the snapshot

sessionVars == <<session, listening, wakes, outbox, received, from, receipts, sweeper>>

vars == <<storeVars, sessionVars>>

Wake == [tag : Tags, from : Conns]

\* The types, and the room there is in a wake channel.
TypeOK ==
    /\ StoreTypeOK
    /\ session \in [Conns -> {"new", "open", "closed"}]
    /\ listening \in [Conns -> Seq(Tags)]
    /\ wakes \in [Conns -> Seq(Wake)]
    /\ \A c \in Conns : Len(wakes[c]) <= WAKE_CAPACITY
    /\ outbox \in [Conns -> SUBSET Stored]
    /\ received \in [Conns -> SUBSET Stored]
    /\ from \in Seq(Conns)
    /\ receipts \subseteq Nat \X Conns
    /\ sweeper \in {"idle", "save"}

-----------------------------------------------------------------------------
(* Listening: what one connection listens on.                              *)

TagsOf(order) == {order[i] : i \in 1..Len(order)}

\* Listening::make_room_for: drop from the front until `wanted` more fit.
MakeRoomFor(order, wanted) ==
    LET excess == SaturatingSub(Len(order) + wanted, MAX_TAGS_PER_CONNECTION)
    IN  IF excess > Len(order) THEN <<>>
        ELSE SubSeq(order, excess + 1, Len(order))

\* Mutant: add pushes to the list although the set already holds the tag.
FirstMentionsUnchecked(order, parsed) ==
    {i \in 1..Len(parsed) : \A j \in 1..(i - 1) : parsed[j] # parsed[i]}

\* Listening::add over a list: the first mention of each tag not yet held.
FirstMentions(order, parsed) ==
    {i \in 1..Len(parsed) : /\ parsed[i] \notin TagsOf(order)
                            /\ \A j \in 1..(i - 1) : parsed[j] # parsed[i]}

\* The one way to list a finite set of positions in ascending order.
Ascending(S) ==
    {f \in [1..Cardinality(S) -> S] :
        \A i, j \in 1..Cardinality(S) : i < j => f[i] < f[j]}

\* The elements of a list at the picked positions.
Picked(list, pick) == [k \in 1..Len(pick) |-> list[pick[k]]]

\* Listening::remove over a list: the positions that stay.
Without(order, tags) == {i \in 1..Len(order) : order[i] \notin tags}

ListensOn(c, tag) == session[c] = "open" /\ tag \in TagsOf(listening[c])

\* A session that is not writing envelopes is back in its select loop.
Idle(c) == session[c] = "open" /\ outbox[c] = {}

\* The store is left alone in this step.
StoreIdle == PeekMany({})

-----------------------------------------------------------------------------
(* The wake channel: tokio's broadcast channel.                            *)

\* Mutant: a receiver that lags keeps everything.
OfferUnbounded(queue, event) == Append(queue, event)

\* A receiver more than the capacity behind loses the oldest events; recv
\* answers Lagged, which the select arm `Ok(event)` does not match.
Offer(queue, event) ==
    IF Len(queue) < WAKE_CAPACITY THEN Append(queue, event)
    ELSE Append(Tail(queue), event)

\* Mutant: a session busy writing is not offered the event.
BroadcastToIdle(event) ==
    wakes' = [c \in Conns |-> IF Idle(c) THEN Offer(wakes[c], event) ELSE wakes[c]]

Broadcast(event) ==
    wakes' = [c \in Conns |-> IF session[c] = "open" THEN Offer(wakes[c], event)
                              ELSE wakes[c]]

-----------------------------------------------------------------------------
(* Sessions.                                                               *)

Connect(c) ==
    /\ session[c] = "new"
    /\ session' = [session EXCEPT ![c] = "open"]
    /\ StoreIdle
    /\ receipts' = {}
    /\ UNCHANGED <<listening, wakes, outbox, received, from, sweeper>>

\* Request::Subscribe.  The backlog is peeked under the lock and written out
\* before Ready; nothing leaves the store.
Subscribe(c, parsed) ==
    /\ Idle(c)
    /\ Len(parsed) <= MAX_TAGS_PER_SUBSCRIPTION
    /\ LET room == MakeRoomFor(listening[c], Len(parsed))
       IN  \E pick \in Ascending(FirstMentions(room, parsed)) :
              listening' = [listening EXCEPT ![c] = room \o Picked(parsed, pick)]
    /\ PeekMany(TagsOf(parsed))
    /\ outbox' = [outbox EXCEPT ![c] = served']
    /\ receipts' = {}
    /\ UNCHANGED <<session, wakes, received, from, sweeper>>

\* Request::Unsubscribe
Unsubscribe(c, tags) ==
    /\ Idle(c)
    /\ \E pick \in Ascending(Without(listening[c], tags)) :
          listening' = [listening EXCEPT ![c] = Picked(@, pick)]
    /\ StoreIdle
    /\ receipts' = {}
    /\ UNCHANGED <<session, wakes, outbox, received, from, sweeper>>

\* Mutant: a receipt is honoured under any tag somebody listens on.
CollectedAnywhere(c, digests) ==
    /\ Idle(c)
    /\ LET tags == UNION {TagsOf(listening[d]) : d \in Conns}
       IN  /\ RemoveAcknowledged(tags, digests)
           /\ receipts' = {<<s.n, c>> : s \in Acknowledged(tags, digests)}
    /\ UNCHANGED <<session, listening, wakes, outbox, received, from, sweeper>>

\* Request::Collected.  A client names any digests it likes; the server honours
\* a receipt only across the tags this connection listens on.
Collected(c, digests) ==
    /\ Idle(c)
    /\ LET tags == TagsOf(listening[c])
       IN  /\ RemoveAcknowledged(tags, digests)
           /\ receipts' = {<<s.n, c>> : s \in Acknowledged(tags, digests)}
    /\ UNCHANGED <<session, listening, wakes, outbox, received, from, sweeper>>

\* Request::Deposit, once it is charged: store, then wake every session.
Deposit(c, envelope, limits) ==
    /\ Idle(c)
    /\ DepositWith(envelope, limits)
    /\ Broadcast([tag |-> envelope.tag, from |-> c])
    /\ from' = Append(from, c)
    /\ receipts' = {}
    /\ UNCHANGED <<session, listening, outbox, received, sweeper>>

\* Mutant: the wake arm does not ask whether the tag is still listened on.
ReceiveWakeUnasked(c) ==
    /\ Idle(c)
    /\ wakes[c] # <<>>
    /\ wakes' = [wakes EXCEPT ![c] = Tail(@)]
    /\ LET event == Head(wakes[c])
       IN  IF event.from = c
           THEN /\ StoreIdle
                /\ UNCHANGED outbox
           ELSE /\ Collect(event.tag)
                /\ outbox' = [outbox EXCEPT ![c] = served']
    /\ receipts' = {}
    /\ UNCHANGED <<session, listening, received, from, sweeper>>

\* The wake arm of run_session: not one's own deposit, and only under a tag
\* listened on.  Collection removes.
ReceiveWake(c) ==
    /\ Idle(c)
    /\ wakes[c] # <<>>
    /\ wakes' = [wakes EXCEPT ![c] = Tail(@)]
    /\ LET event == Head(wakes[c])
       IN  IF event.from = c \/ event.tag \notin TagsOf(listening[c])
           THEN /\ StoreIdle
                /\ UNCHANGED outbox
           ELSE /\ Collect(event.tag)
                /\ outbox' = [outbox EXCEPT ![c] = served']
    /\ receipts' = {}
    /\ UNCHANGED <<session, listening, received, from, sweeper>>

\* One successful socket.send of an envelope.  Under one tag they go in the
\* order they arrived.
Send(c) ==
    /\ session[c] = "open"
    /\ \E s \in outbox[c] :
          /\ \A r \in outbox[c] : r.envelope.tag = s.envelope.tag => s.n <= r.n
          /\ outbox' = [outbox EXCEPT ![c] = @ \ {s}]
          /\ received' = [received EXCEPT ![c] = @ \union {s}]
    /\ StoreIdle
    /\ receipts' = {}
    /\ UNCHANGED <<session, listening, wakes, from, sweeper>>

\* The socket is gone: a send fails or the next read says so.  The task ends
\* and everything it held goes with it.
Disconnect(c) ==
    /\ session[c] = "open"
    /\ session' = [session EXCEPT ![c] = "closed"]
    /\ listening' = [listening EXCEPT ![c] = <<>>]
    /\ wakes' = [wakes EXCEPT ![c] = <<>>]
    /\ outbox' = [outbox EXCEPT ![c] = {}]
    /\ StoreIdle
    /\ receipts' = {}
    /\ UNCHANGED <<received, from, sweeper>>

-----------------------------------------------------------------------------
(* The sweeper task and the process.                                       *)

SweeperTick ==
    /\ sweeper = "idle"
    /\ sweeper' = "save"
    /\ Sweep
    /\ receipts' = {}
    /\ UNCHANGED <<session, listening, wakes, outbox, received, from>>

\* save_mailbox: the lock was released since the sweep.  A file that cannot be
\* written is a warning in the log.
SaveMailbox ==
    /\ sweeper = "save"
    /\ sweeper' = "idle"
    /\ Snapshot \/ StoreIdle
    /\ receipts' = {}
    /\ UNCHANGED <<session, listening, wakes, outbox, received, from>>

\* The process is killed and started again: every session ends and the store
\* is what the last snapshot holds.  (A signalled shutdown is SaveMailbox and
\* then this.)
Restart ==
    /\ session' = [c \in Conns |-> IF session[c] = "new" THEN "new" ELSE "closed"]
    /\ listening' = [c \in Conns |-> <<>>]
    /\ wakes' = [c \in Conns |-> <<>>]
    /\ outbox' = [c \in Conns |-> {}]
    /\ sweeper' = "idle"
    /\ Restore
    /\ receipts' = {}
    /\ UNCHANGED <<received, from>>

Clock ==
    /\ \E t \in 0..MaxNow : SetClock(t)
    /\ receipts' = {}
    /\ UNCHANGED <<session, listening, wakes, outbox, received, from, sweeper>>

-----------------------------------------------------------------------------
Init ==
    /\ StoreInit
    /\ session = [c \in Conns |-> "new"]
    /\ listening = [c \in Conns |-> <<>>]
    /\ wakes = [c \in Conns |-> <<>>]
    /\ outbox = [c \in Conns |-> {}]
    /\ received = [c \in Conns |-> {}]
    /\ from = <<>>
    /\ receipts = {}
    /\ sweeper = "idle"

\* The lists of tags a subscription may name.
TagLists == UNION {[1..k -> Tags] : k \in 0..MAX_TAGS_PER_SUBSCRIPTION}

Request(c) ==
    \/ \E parsed \in TagLists : Subscribe(c, parsed)
    \/ \E tags \in SUBSET Tags : Unsubscribe(c, tags)
    \/ \E digests \in SUBSET {Digest(e) : e \in Envelope} : Collected(c, digests)
    \/ \E e \in Envelope, l \in Limits : Deposit(c, e, l)

Next ==
    \/ \E c \in Conns : \/ Connect(c)
                        \/ Request(c)
                        \/ ReceiveWake(c)
                        \/ Send(c)
                        \/ Disconnect(c)
    \/ SweeperTick
    \/ SaveMailbox
    \/ Restart
    \/ Clock

Spec == Init /\ [][Next]_vars

\* A session task is scheduled and its socket accepts writes; select! polls its
\* ready arms in random order, so requests cannot starve the wake arm forever.
Fairness == \A c \in Conns : SF_vars(ReceiveWake(c)) /\ WF_vars(Send(c))

FairSpec == Spec /\ Fairness

-----------------------------------------------------------------------------
(* Properties.                                                             *)

\* A connection never holds more tags than the cap, however often it
\* subscribes, and never one tag twice, so the ordered list and the set in
\* Listening agree and unsubscribing really removes.
ListeningBounded ==
    \A c \in Conns :
        /\ Len(listening[c]) <= MAX_TAGS_PER_CONNECTION
        /\ \A i, j \in 1..Len(listening[c]) :
              listening[c][i] = listening[c][j] => i = j

\* Whatever is on its way to a client lies under a tag that connection still
\* listens on: a subscription is never trimmed to make room for itself, and
\* nothing is taken from the store for a connection that cannot acknowledge it.
OutboxUnderListenedTag ==
    \A c \in Conns : \A s \in outbox[c] : ListensOn(c, s.envelope.tag)

\* An entry of the store makes way for a newer one under its tag.
MakesWay(s) == \E r \in held' \ held : r.envelope.tag = s.envelope.tag /\ r.n > s.n

\* A receipt of c's removes the entry, under a tag c listens on.
Receipted(s, c) == <<s.n, c>> \in receipts' /\ ListensOn(c, s.envelope.tag)

\* The wake arm of c takes the entry, under a tag c listens on; nothing has been
\* written to the client.
TakenFor(s, c) == s \in outbox'[c] \ outbox[c] /\ ListensOn(c, s.envelope.tag)

\* A live envelope leaves the store only displaced by a deposit under its own
\* tag, by the receipt of a connection that itself listens on the tag, into the
\* hands of a session that listens on the tag when it gets round to a wake, or
\* because the process stopped.
RemovalHasACause ==
    [][\A s \in held \ held' :
         \/ Expired(s, now)
         \/ MakesWay(s)
         \/ \E c \in Conns : Receipted(s, c) \/ TakenFor(s, c)
         \/ \A c \in Conns : session'[c] # "open"]_vars

\* The head of main.rs: an envelope "is removed only when the recipient says by
\* digest that it arrived, across tags that connection is listening on", and
\* otherwise "sits until its TTL"; making way for a newer one and a restart from
\* an older snapshot are granted.
RemovedOnReceiptOnly ==
    [][\A s \in held \ held' :
         \/ Expired(s, now)
         \/ MakesWay(s)
         \/ \E c \in Conns : Receipted(s, c)
         \/ \A c \in Conns : session'[c] # "open"]_vars

\* A client listening on a tag is handed what another client deposited under
\* it, unless somebody else takes it first, it expires or is displaced, or the
\* connection stops listening.
ListenerIsServed ==
    \A c \in Conns, n \in 0..(MaxArrivals - 1) :
        (\E s \in held : s.n = n /\ from[n + 1] # c /\ ListensOn(c, s.envelope.tag))
        ~> \/ ~\E s \in held : s.n = n
           \/ \E s \in received[c] : s.n = n
           \/ \E s \in held : s.n = n /\ ~ListensOn(c, s.envelope.tag)
=============================================================================
