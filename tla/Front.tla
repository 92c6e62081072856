------------------------------- MODULE Front --------------------------------
(***************************************************************************)
(* The front of rotelyx-mailbox-server/src/front.rs: a multiplexer that    *)
(* carries the sessions of many phones over a small pool of connections to *)
(* one mailbox, together with the mailbox's end of such a connection       *)
(* (run_front in main.rs).                                                 *)
(*                                                                         *)
(* There is one task per phone connection (serve_phone) and one per slot   *)
(* of the pool (spawn_upstream).  They share the slots' route tables and   *)
(* talk through two kinds of bounded channel: `out`, phone tasks to slot   *)
(* task, and `inbox`, slot tasks to phone task.  A task that awaits room   *)
(* in a channel handles nothing else meanwhile, so every await is a step   *)
(* of its own.                                                             *)
(*                                                                         *)
(* What a frame carries is sealed and opaque to the front: a frame is its  *)
(* kind and the session it names.                                          *)
(***************************************************************************)
EXTENDS Naturals, Sequences, FiniteSets

CONSTANTS
    Phones,        \* phone connections
    Sids,          \* the session ids phones choose, the same ones among phones
    Upstreams,     \* the slots of the pool
    CHANNEL,       \* room in each channel, 256 in the code
    MAX_SESSIONS,  \* sessions the mailbox takes on one connection, 256
    MaxIds,        \* bound: sessions opened in a behaviour
    MaxTraffic,    \* bound: bodies and replies in a behaviour
    MaxLosses      \* bound: connections to the mailbox that die

ASSUME FrontAssumption ==
    /\ CHANNEL \in Nat \ {0}
    /\ MAX_SESSIONS \in Nat
    /\ MaxIds \in Nat
    /\ MaxTraffic \in Nat
    /\ MaxLosses \in Nat

VARIABLES
    next_id,   \* Front::next_id, the upstream ids given out so far
    at,        \* at[p]: where p's serve_phone task is
    doing,     \* doing[p]: the session that step is about, if any
    socket,    \* socket[p]: "open", "shut" once a close was written to it, or
               \* "left" once p's loop has ended
    local,     \* local[p]: p's sessions, as its own task knows them
    inbox,     \* inbox[p]: what slots have queued for p's socket
    link,      \* link[u]: where slot u's task is
    out,       \* out[u]: frames queued for the mailbox
    routes,    \* routes[u]: the shared table, upstream id to phone
    pending,   \* pending[u]: the phones the slot's task has left to write to
    conn,      \* conn[u]: the connection itself: "none", "open" or "dead"
    streams,   \* streams[u]: the sessions the mailbox holds on it
    flying,    \* flying[u]: sessions whose reply is on its way to the front
    owner,     \* owner[i]: who opened upstream session i (history)
    traffic,   \* bodies and replies so far
    losses     \* connections lost so far

phoneVars == <<at, doing, socket, local>>
slotVars  == <<link, pending>>
mailVars  == <<conn, streams, flying>>

vars == <<next_id, phoneVars, inbox, slotVars, out, routes, mailVars, owner,
          traffic, losses>>

Route     == [sid : Sids, up : Upstreams, id : Nat]
PhoneSlot == [id : Nat, phone : Phones, sid : Sids]
Frame     == [kind : {"hello", "body", "close"}, id : Nat]
Mail      == [kind : {"reply", "close"}, id : Nat, sid : Sids]

\* Where a task may be waiting.
PhoneStep == {"new", "idle", "insert", "hello", "body", "close", "deregister",
              "leaving", "ended"}
SlotStep  == {"down", "up", "delivering", "lost", "telling", "asleep"}

\* The types, and the room there is in a channel.
FrontTypeOK ==
    /\ next_id \in Nat
    /\ at \in [Phones -> PhoneStep]
    /\ doing \in [Phones -> SUBSET Route]
    /\ socket \in [Phones -> {"open", "shut", "left"}]
    /\ local \in [Phones -> SUBSET Route]
    /\ inbox \in [Phones -> Seq(Mail)]
    /\ \A p \in Phones : Len(inbox[p]) <= CHANNEL
    /\ link \in [Upstreams -> SlotStep]
    /\ out \in [Upstreams -> Seq(Frame)]
    /\ \A u \in Upstreams : Len(out[u]) <= CHANNEL
    /\ routes \in [Upstreams -> SUBSET PhoneSlot]
    /\ pending \in [Upstreams -> SUBSET PhoneSlot]
    /\ conn \in [Upstreams -> {"none", "open", "dead"}]
    /\ streams \in [Upstreams -> SUBSET Nat]
    /\ flying \in [Upstreams -> SUBSET Nat]
    /\ owner \in Seq(Phones \X Sids)
    /\ traffic \in Nat
    /\ losses \in Nat

-----------------------------------------------------------------------------
(* What the tasks share.                                                   *)

\* Upstream::alive, stored true once connected and false once lost.
Alive(u) == link[u] \in {"up", "delivering"}

HasMailbox == \E u \in Upstreams : Alive(u)

\* The slots pick_upstream may return: the cursor is shared by all phones, so
\* for one of them it is any live slot.
PickUpstream == {u \in Upstreams : Alive(u)}

Holds(p, sid) == \E r \in local[p] : r.sid = sid

\* Mutant: the channel to a phone is an unbounded one.
RoomForAnything(p) == TRUE

\* mpsc::Sender::send: waits for room; a receiver that is gone refuses at once.
RoomFor(p) == at[p] = "ended" \/ Len(inbox[p]) < CHANNEL

Post(p, mail) ==
    inbox' = IF at[p] = "ended" THEN inbox
             ELSE [inbox EXCEPT ![p] = Append(@, mail)]

-----------------------------------------------------------------------------
(* serve_phone: one phone connection.                                      *)

\* phone_handler refuses a phone while no slot is connected.
PhoneConnect(p) ==
    /\ at[p] = "new"
    /\ HasMailbox
    /\ at' = [at EXCEPT ![p] = "idle"]
    /\ UNCHANGED <<next_id, doing, socket, local, inbox, slotVars, out, routes,
                   mailVars, owner, traffic, losses>>

\* Mutant: the id is the next place in the slot's table, not a fresh number.
PhoneHelloByPlace(p, sid) ==
    /\ at[p] = "idle"
    /\ ~Holds(p, sid)
    /\ next_id < MaxIds
    /\ \E u \in PickUpstream :
          doing' = [doing EXCEPT ![p] = {[sid |-> sid, up |-> u,
                                         id |-> Cardinality(routes[u]) + 1]}]
    /\ next_id' = next_id + 1
    /\ owner' = Append(owner, <<p, sid>>)
    /\ at' = [at EXCEPT ![p] = "insert"]
    /\ UNCHANGED <<socket, local, inbox, slotVars, out, routes, mailVars, traffic, losses>>

\* A hello: pick_upstream reads `alive` and the id is taken, both before the
\* await on the route table.
PhoneHello(p, sid) ==
    /\ at[p] = "idle"
    /\ ~Holds(p, sid)
    /\ next_id < MaxIds
    /\ \E u \in PickUpstream :
          doing' = [doing EXCEPT ![p] = {[sid |-> sid, up |-> u, id |-> next_id + 1]}]
    /\ next_id' = next_id + 1
    /\ owner' = Append(owner, <<p, sid>>)
    /\ at' = [at EXCEPT ![p] = "insert"]
    /\ UNCHANGED <<socket, local, inbox, slotVars, out, routes, mailVars, traffic, losses>>

\* A hello that finds no live slot ends the connection.
PhoneHelloRefused(p, sid) ==
    /\ at[p] = "idle"
    /\ ~Holds(p, sid)
    /\ PickUpstream = {}
    /\ at' = [at EXCEPT ![p] = "leaving"]
    /\ socket' = [socket EXCEPT ![p] = "left"]
    /\ UNCHANGED <<next_id, doing, local, inbox, slotVars, out, routes, mailVars,
                   owner, traffic, losses>>

\* The lock is held: the shared table and the task's own both learn of it.
PhoneInsert(p) ==
    /\ at[p] = "insert"
    /\ \E r \in doing[p] :
          /\ routes' = [routes EXCEPT ![r.up] =
                           @ \union {[id |-> r.id, phone |-> p, sid |-> r.sid]}]
          /\ local' = [local EXCEPT ![p] = @ \union {r}]
    /\ at' = [at EXCEPT ![p] = "hello"]
    /\ UNCHANGED <<next_id, doing, socket, inbox, slotVars, out, mailVars, owner,
                   traffic, losses>>

PhoneBody(p, sid) ==
    /\ at[p] = "idle"
    /\ traffic < MaxTraffic
    /\ \E r \in local[p] :
          /\ r.sid = sid
          /\ doing' = [doing EXCEPT ![p] = {r}]
    /\ at' = [at EXCEPT ![p] = "body"]
    /\ traffic' = traffic + 1
    /\ UNCHANGED <<next_id, socket, local, inbox, slotVars, out, routes, mailVars,
                   owner, losses>>

PhoneClose(p, sid) ==
    /\ at[p] = "idle"
    /\ \E r \in local[p] :
          /\ r.sid = sid
          /\ doing' = [doing EXCEPT ![p] = {r}]
          /\ local' = [local EXCEPT ![p] = @ \ {r}]
    /\ at' = [at EXCEPT ![p] = "close"]
    /\ UNCHANGED <<next_id, socket, inbox, slotVars, out, routes, mailVars, owner,
                   traffic, losses>>

\* The socket says the phone left.
PhoneGone(p) ==
    /\ at[p] = "idle"
    /\ at' = [at EXCEPT ![p] = "leaving"]
    /\ socket' = [socket EXCEPT ![p] = "left"]
    /\ UNCHANGED <<next_id, doing, local, inbox, slotVars, out, routes, mailVars,
                   owner, traffic, losses>>

\* One mail goes out on the socket.  Once that was a close the websocket takes
\* nothing more: the loop still reads what the phone had sent, until the phone
\* has left or the next mail fails to be sent.
PhoneReply(p) ==
    /\ at[p] = "idle"
    /\ inbox[p] # <<>>
    /\ inbox' = [inbox EXCEPT ![p] = Tail(@)]
    /\ \/ /\ socket[p] = "open"
          /\ socket' = [socket EXCEPT ![p] = IF Head(inbox[p]).kind = "close" THEN "shut" ELSE @]
          /\ UNCHANGED at
       \/ /\ socket[p] = "shut"
          /\ socket' = [socket EXCEPT ![p] = "left"]
          /\ at' = [at EXCEPT ![p] = "leaving"]
    /\ UNCHANGED <<next_id, doing, local, slotVars, out, routes, mailVars, owner,
                   traffic, losses>>

\* out.send(..).await: the task waits here while the slot's queue is full.
PhoneForward(p) ==
    /\ at[p] \in {"hello", "body", "close"}
    /\ \E r \in doing[p] :
          /\ Len(out[r.up]) < CHANNEL
          /\ out' = [out EXCEPT ![r.up] = Append(@, [kind |-> at[p], id |-> r.id])]
    /\ at' = [at EXCEPT ![p] = IF @ = "close" THEN "deregister" ELSE "idle"]
    /\ UNCHANGED <<next_id, doing, socket, local, inbox, slotVars, routes, mailVars,
                   owner, traffic, losses>>

\* Mutant: the mailbox is told, the shared table is not cleaned.
PhoneDeregisterForgotten(p) ==
    /\ at[p] = "deregister"
    /\ at' = [at EXCEPT ![p] = IF socket[p] = "left" THEN "leaving" ELSE "idle"]
    /\ UNCHANGED <<next_id, doing, socket, local, inbox, slotVars, out, routes,
                   mailVars, owner, traffic, losses>>

PhoneDeregister(p) ==
    /\ at[p] = "deregister"
    /\ \E r \in doing[p] :
          routes' = [routes EXCEPT ![r.up] = {s \in @ : s.id # r.id}]
    /\ at' = [at EXCEPT ![p] = IF socket[p] = "left" THEN "leaving" ELSE "idle"]
    /\ UNCHANGED <<next_id, doing, socket, local, inbox, slotVars, out, mailVars,
                   owner, traffic, losses>>

\* After the loop: every session is closed upstream and deregistered; the
\* inbox is not read any more, and goes when the task returns.
PhoneLeave(p) ==
    /\ at[p] = "leaving"
    /\ \/ \E r \in local[p] :
             /\ doing' = [doing EXCEPT ![p] = {r}]
             /\ local' = [local EXCEPT ![p] = @ \ {r}]
             /\ at' = [at EXCEPT ![p] = "close"]
             /\ UNCHANGED inbox
       \/ /\ local[p] = {}
          /\ doing' = [doing EXCEPT ![p] = {}]
          /\ at' = [at EXCEPT ![p] = "ended"]
          /\ inbox' = [inbox EXCEPT ![p] = <<>>]
          /\ UNCHANGED local
    /\ UNCHANGED <<next_id, socket, slotVars, out, routes, mailVars, owner, traffic, losses>>

-----------------------------------------------------------------------------
(* spawn_upstream: one slot of the pool.                                   *)

\* connect_async succeeds.  What was queued while the slot was down is thrown
\* away before it is marked alive.
UpConnect(u) ==
    /\ link[u] = "down"
    /\ link' = [link EXCEPT ![u] = "up"]
    /\ conn' = [conn EXCEPT ![u] = "open"]
    /\ out' = [out EXCEPT ![u] = <<>>]
    /\ UNCHANGED <<next_id, phoneVars, inbox, routes, pending, streams, flying,
                   owner, traffic, losses>>

\* connect_async fails: the slot waits before it tries again.
UpRefused(u) ==
    /\ link[u] = "down"
    /\ link' = [link EXCEPT ![u] = "asleep"]
    /\ UNCHANGED <<next_id, phoneVars, inbox, pending, out, routes, mailVars,
                   owner, traffic, losses>>

\* sleep(backoff) is over.
UpAwake(u) ==
    /\ link[u] = "asleep"
    /\ link' = [link EXCEPT ![u] = "down"]
    /\ UNCHANGED <<next_id, phoneVars, inbox, pending, out, routes, mailVars,
                   owner, traffic, losses>>

\* The mailbox's end, run_front: the sessions it may hold after a frame.  A
\* hello opens one if there is room and it can be accepted, and is ignored
\* otherwise; a close drops it, and so does a body that will not open.
Heard(held, frame) ==
    CASE frame.kind = "hello" /\ Cardinality(held) < MAX_SESSIONS -> {held, held \union {frame.id}}
      [] frame.kind = "body"  -> {held, held \ {frame.id}}
      [] frame.kind = "close" -> {held \ {frame.id}}
      [] OTHER -> {held}

\* A frame is written.  On a connection that has died it is lost.
UpSend(u) ==
    /\ link[u] = "up"
    /\ out[u] # <<>>
    /\ out' = [out EXCEPT ![u] = Tail(@)]
    /\ \E after \in IF conn[u] = "open" THEN Heard(streams[u], Head(out[u]))
                   ELSE {streams[u]} :
          streams' = [streams EXCEPT ![u] = after]
    /\ UNCHANGED <<next_id, phoneVars, inbox, slotVars, routes, conn, flying,
                   owner, traffic, losses>>

\* A reply is read and its phone looked up; an unknown session's is dropped.
UpReceive(u) ==
    /\ link[u] = "up"
    /\ conn[u] = "open"
    /\ \E i \in flying[u] :
          /\ flying' = [flying EXCEPT ![u] = @ \ {i}]
          /\ LET found == {s \in routes[u] : s.id = i}
             IN  /\ pending' = [pending EXCEPT ![u] = found]
                 /\ link' = [link EXCEPT ![u] = IF found = {} THEN "up" ELSE "delivering"]
    /\ UNCHANGED <<next_id, phoneVars, inbox, out, routes, conn, streams, owner,
                   traffic, losses>>

\* slot.inbox.send(..).await, the id rewritten back to the phone's own.
UpDeliver(u) ==
    /\ link[u] = "delivering"
    /\ \E s \in pending[u] :
          /\ RoomFor(s.phone)
          /\ Post(s.phone, [kind |-> "reply", id |-> s.id, sid |-> s.sid])
    /\ pending' = [pending EXCEPT ![u] = {}]
    /\ link' = [link EXCEPT ![u] = "up"]
    /\ UNCHANGED <<next_id, phoneVars, out, routes, mailVars, owner, traffic, losses>>

\* Mutant: only a failed write is noticed.
UpLostOnWrite(u) ==
    /\ link[u] = "up"
    /\ conn[u] = "dead"
    /\ out[u] # <<>>
    /\ link' = [link EXCEPT ![u] = "lost"]
    /\ UNCHANGED <<next_id, phoneVars, inbox, pending, out, routes, mailVars,
                   owner, traffic, losses>>

\* The read or the write fails: the slot is no longer alive.
UpLost(u) ==
    /\ link[u] = "up"
    /\ conn[u] = "dead"
    /\ link' = [link EXCEPT ![u] = "lost"]
    /\ UNCHANGED <<next_id, phoneVars, inbox, pending, out, routes, mailVars,
                   owner, traffic, losses>>

\* The table is emptied under its lock; the phones in it are to be told.
UpDrain(u) ==
    /\ link[u] = "lost"
    /\ link' = [link EXCEPT ![u] = "telling"]
    /\ pending' = [pending EXCEPT ![u] = routes[u]]
    /\ routes' = [routes EXCEPT ![u] = {}]
    /\ UNCHANGED <<next_id, phoneVars, inbox, out, mailVars, owner, traffic, losses>>

UpTell(u) ==
    /\ link[u] = "telling"
    /\ \/ \E s \in pending[u] :
             /\ RoomFor(s.phone)
             /\ Post(s.phone, [kind |-> "close", id |-> s.id, sid |-> s.sid])
             /\ pending' = [pending EXCEPT ![u] = @ \ {s}]
             /\ UNCHANGED <<link, conn>>
       \/ /\ pending[u] = {}
          /\ link' = [link EXCEPT ![u] = "asleep"]
          /\ conn' = [conn EXCEPT ![u] = "none"]
          /\ UNCHANGED <<pending, inbox>>
    /\ UNCHANGED <<next_id, phoneVars, out, routes, streams, flying, owner,
                   traffic, losses>>

-----------------------------------------------------------------------------
(* The mailbox and the network.                                            *)

\* A session at the mailbox answers, or is woken: a reply sets out.
MailboxReplies(u) ==
    /\ conn[u] = "open"
    /\ traffic < MaxTraffic
    /\ traffic' = traffic + 1
    /\ \E i \in streams[u] : flying' = [flying EXCEPT ![u] = @ \union {i}]
    /\ UNCHANGED <<next_id, phoneVars, inbox, slotVars, out, routes, conn, streams,
                   owner, losses>>

\* The mailbox restarts or the path to it breaks: its sessions end with it.
ConnectionDies(u) ==
    /\ conn[u] = "open"
    /\ losses < MaxLosses
    /\ losses' = losses + 1
    /\ conn' = [conn EXCEPT ![u] = "dead"]
    /\ streams' = [streams EXCEPT ![u] = {}]
    /\ flying' = [flying EXCEPT ![u] = {}]
    /\ UNCHANGED <<next_id, phoneVars, inbox, slotVars, out, routes, owner, traffic>>

-----------------------------------------------------------------------------
Init ==
    /\ next_id = 0
    /\ at = [p \in Phones |-> "new"]
    /\ doing = [p \in Phones |-> {}]
    /\ socket = [p \in Phones |-> "open"]
    /\ local = [p \in Phones |-> {}]
    /\ inbox = [p \in Phones |-> <<>>]
    /\ link = [u \in Upstreams |-> "down"]
    /\ out = [u \in Upstreams |-> <<>>]
    /\ routes = [u \in Upstreams |-> {}]
    /\ pending = [u \in Upstreams |-> {}]
    /\ conn = [u \in Upstreams |-> "none"]
    /\ streams = [u \in Upstreams |-> {}]
    /\ flying = [u \in Upstreams |-> {}]
    /\ owner = <<>>
    /\ traffic = 0
    /\ losses = 0

PhoneAsks(p) ==
    \/ PhoneConnect(p)
    \/ \E sid \in Sids : \/ PhoneHello(p, sid)
                         \/ PhoneHelloRefused(p, sid)
                         \/ PhoneBody(p, sid)
                         \/ PhoneClose(p, sid)
    \/ PhoneGone(p)

PhoneContinues(p) ==
    \/ PhoneInsert(p)
    \/ PhoneForward(p)
    \/ PhoneDeregister(p)
    \/ PhoneLeave(p)
    \/ PhoneReply(p)

SlotContinues(u) ==
    \/ UpConnect(u)
    \/ UpRefused(u)
    \/ UpAwake(u)
    \/ UpSend(u)
    \/ UpReceive(u)
    \/ UpDeliver(u)
    \/ UpLost(u)
    \/ UpDrain(u)
    \/ UpTell(u)

Next ==
    \/ \E p \in Phones : PhoneAsks(p) \/ PhoneContinues(p)
    \/ \E u \in Upstreams : SlotContinues(u) \/ MailboxReplies(u) \/ ConnectionDies(u)

Spec == Init /\ [][Next]_vars

\* Every task that can go on is scheduled, and the mailbox comes back: a slot
\* that tries for ever has a connect_async succeed.  Phones promise nothing.
Fairness ==
    /\ \A p \in Phones : WF_vars(PhoneContinues(p))
    /\ \A u \in Upstreams : /\ WF_vars(SlotContinues(u))
                            /\ WF_vars(UpLost(u))
                            /\ SF_vars(UpConnect(u))

FairSpec == Spec /\ Fairness

-----------------------------------------------------------------------------
(* Properties.                                                             *)

\* "The one number it rewrites": whatever reaches a phone's socket belongs to
\* a session that very phone opened, under the very id it opened it with, for
\* all that other phones chose the same id and shared the connection.
NoCrossing ==
    \A p \in Phones : \A i \in 1..Len(inbox[p]) :
        owner[inbox[p][i].id] = <<p, inbox[p][i].sid>>

\* When serve_phone returns nothing of the phone is left in a route table,
\* even if a slot was lost and found again in the middle of its leaving.
EndedPhoneHasNoRoute ==
    \A u \in Upstreams : \A s \in routes[u] : at[s.phone] # "ended"

\* Slot u's task waits for room in the inbox of p.
SlotAwaits(u, p) ==
    /\ link[u] \in {"delivering", "telling"}
    /\ \E s \in pending[u] : s.phone = p
    /\ ~RoomFor(p)

\* Phone p's task waits for room in the queue of slot u.
PhoneAwaits(p, u) ==
    /\ at[p] \in {"hello", "body", "close"}
    /\ \E r \in doing[p] : r.up = u
    /\ Len(out[u]) = CHANNEL

\* Slot u waits for a phone that waits, at the end of a chain of such waits, for
\* one of the tasks in the chain: none of them goes on again.
InCircularWait(u) ==
    \E waiting \in SUBSET Upstreams, phones \in SUBSET Phones :
        /\ u \in waiting
        /\ \A v \in waiting : \E p \in phones : SlotAwaits(v, p)
        /\ \A p \in phones : \E v \in waiting : PhoneAwaits(p, v)

\* front.rs: the task behind a slot "reconnects when the connection ends, for as
\* long as the front runs".  It does, whatever is queued in the channels, short
\* of one thing: the two kinds of task awaiting room in each other's channels.
SlotReconnects ==
    \A u \in Upstreams : (conn[u] = "dead") ~> (conn[u] = "open" \/ InCircularWait(u))
=============================================================================
