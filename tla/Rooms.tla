------------------------------- MODULE Rooms --------------------------------
(***************************************************************************)
(* The group-call rooms of a relay: rotelyx-relay/src/room.rs (the table,  *)
(* and the task behind each participant) over rotelyx-media/src/forward.rs *)
(* (who is seated, and where a datagram goes).                             *)
(*                                                                         *)
(* Every call on the table holds its lock, so each is one step; a routed   *)
(* frame is put on the legs after the lock is released, one leg at a time. *)
(* A frame is reduced to what the forwarder reads of it, the sender id its *)
(* header claims.                                                          *)
(***************************************************************************)
EXTENDS Naturals, FiniteSets

CONSTANTS
    Conns,        \* connections accept_media returns, each used once
    RoomIds,
    Seats,        \* what the seat byte of a join may say
    MAX_SENDERS,  \* seats of one call: 0 .. MAX_SENDERS - 1
    MAX_ROOMS,    \* rooms one relay holds
    None,         \* no connection, no join, no sender id that parses
    MaxFrames     \* bound: frames one connection sends

Join == [room : RoomIds, seat : Seats]
Handed == [room : RoomIds, claimed : Seats, by : Conns]

ASSUME RoomsAssumption ==
    /\ Seats \subseteq Nat
    /\ MAX_SENDERS \in Nat /\ MAX_ROOMS \in Nat /\ MaxFrames \in Nat
    /\ None \notin Conns /\ None \notin Seats /\ None \notin Join

VARIABLES
    rooms,   \* the keys of Rooms::inner
    seen,    \* seen[r]: Forwarder::seen of room r, without the counts
    legs,    \* legs[r][s]: the connection behind seat s, or None
    task,    \* task[c]: where participant(c) stands
    join,    \* join[c]: the parsed join, None before there is one
    frame,   \* frame[c]: the sender id claimed by the frame c sent last
    out,     \* out[c]: the legs that frame has still to be put on
    open,    \* the connections that are not closed
    frames,  \* frames[c]: frames c has sent so far
    made,    \* rooms a refused join made and nobody has sat in since (history)
    heard    \* heard[c]: who sent, and as which seat of which room, each
             \* frame put on c's leg (history)

vars == <<rooms, seen, legs, task, join, frame, out, open, frames, made, heard>>
table == <<rooms, seen, legs, made>>

RoomsTypeOK ==
    /\ rooms \subseteq RoomIds
    /\ seen \in [RoomIds -> SUBSET Seats]
    /\ legs \in [RoomIds -> [Seats -> Conns \union {None}]]
    /\ task \in [Conns -> {"new", "waiting", "carrying", "done"}]
    /\ join \in [Conns -> Join \union {None}]
    /\ frame \in [Conns -> Seats \union {None}]
    /\ out \in [Conns -> SUBSET Conns]
    /\ open \subseteq Conns
    /\ frames \in [Conns -> Nat]
    /\ made \subseteq RoomIds
    /\ heard \in [Conns -> SUBSET Handed]

-----------------------------------------------------------------------------
\* Rooms::join: the room is held already, or there is room for another.
RoomFor(r) == r \in rooms \/ Cardinality(rooms) < MAX_ROOMS

\* What Forwarder::join accepts, given who is seated.
MaySit(s, seated) ==
    /\ s < MAX_SENDERS
    /\ s \notin seated
    /\ Cardinality(seated) < MAX_SENDERS

\* serve: a connection is accepted and its task spawned.
Accept(c) ==
    /\ task[c] = "new"
    /\ task' = [task EXCEPT ![c] = "waiting"]
    /\ open' = open \union {c}
    /\ UNCHANGED <<rooms, seen, legs, join, frame, out, frames, made, heard>>

\* The first datagram parses as a join and the seat is free.  It may have been
\* waiting in the buffer of a connection that has closed since.
Seat(c, r, s) ==
    /\ task[c] = "waiting"
    /\ RoomFor(r)
    /\ MaySit(s, seen[r])
    /\ rooms' = rooms \union {r}
    /\ seen' = [seen EXCEPT ![r] = @ \union {s}]
    /\ legs' = [legs EXCEPT ![r][s] = c]
    /\ task' = [task EXCEPT ![c] = "carrying"]
    /\ join' = [join EXCEPT ![c] = [room |-> r, seat |-> s]]
    /\ made' = made \ {r}
    /\ UNCHANGED <<frame, out, open, frames, heard>>

\* Mutant: a refused join is followed by the leave all the same.
SeatRefusedThenLeave(c, r, s) ==
    /\ task[c] = "waiting"
    /\ ~(RoomFor(r) /\ MaySit(s, seen[r]))
    /\ rooms' = IF RoomFor(r) THEN rooms \union {r} ELSE rooms
    /\ made' = made \union (rooms' \ rooms)
    /\ seen' = [seen EXCEPT ![r] = @ \ {s}]
    /\ legs' = [legs EXCEPT ![r][s] = None]
    /\ task' = [task EXCEPT ![c] = "done"]
    /\ open' = open \ {c}
    /\ UNCHANGED <<join, frame, out, frames, heard>>

\* The join is refused: the task returns without a leave and the connection is
\* dropped.  The room a refused seat asked for has been made by then.
SeatRefused(c, r, s) ==
    /\ task[c] = "waiting"
    /\ ~(RoomFor(r) /\ MaySit(s, seen[r]))
    /\ rooms' = IF RoomFor(r) THEN rooms \union {r} ELSE rooms
    /\ made' = made \union (rooms' \ rooms)
    /\ task' = [task EXCEPT ![c] = "done"]
    /\ open' = open \ {c}
    /\ UNCHANGED <<seen, legs, join, frame, out, frames, heard>>

\* The first datagram is not a join, or the connection closed before it came.
NotAJoin(c) ==
    /\ task[c] = "waiting"
    /\ task' = [task EXCEPT ![c] = "done"]
    /\ open' = open \ {c}
    /\ UNCHANGED <<rooms, seen, legs, join, frame, out, frames, made, heard>>

\* Mutant: the header is not checked against the connection.
RoutableTrusting(c, claimed) ==
    /\ claimed # None
    /\ join[c].room \in rooms
    /\ join[c].seat \in seen[join[c].room]

\* Mutant: a header that does not parse is let through with the rest.
RoutableUnparsed(c, claimed) ==
    /\ join[c].room \in rooms
    /\ join[c].seat \in seen[join[c].room]
    /\ claimed \in {join[c].seat, None}

\* What Rooms::route and Forwarder::route accept: the header parses, the room is
\* still there, the connection's seat is taken, and the header claims it.
Routable(c, claimed) ==
    /\ claimed # None
    /\ join[c].room \in rooms
    /\ join[c].seat \in seen[join[c].room]
    /\ claimed = join[c].seat

\* carry: read_datagram returns the next frame, the ones a connection had buffered
\* when it closed among them.
Read(c, claimed) ==
    /\ task[c] = "carrying" /\ out[c] = {}
    /\ frames[c] < MaxFrames
    /\ frames' = [frames EXCEPT ![c] = @ + 1]
    /\ frame' = [frame EXCEPT ![c] = claimed]
    /\ UNCHANGED <<rooms, seen, legs, task, join, open, made, heard>>

\* Routed::to, everybody seated but the sender.
To(c) == seen[join[c].room] \ {join[c].seat}

\* The legs of those a frame goes to are cloned out under the lock.
Route(c, claimed) ==
    /\ Read(c, claimed)
    /\ Routable(c, claimed)
    /\ out' = [out EXCEPT ![c] = {legs[join[c].room][s] : s \in To(c)} \ {None}]

\* A frame that cannot be routed is dropped and the participant stays.
RouteRefused(c, claimed) ==
    /\ Read(c, claimed)
    /\ ~Routable(c, claimed)
    /\ UNCHANGED out

\* Mutant: the send waits for a leg whose connection has closed.
HandWaiting(c, d) ==
    /\ d \in out[c] /\ d \in open
    /\ out' = [out EXCEPT ![c] = @ \ {d}]
    /\ heard' = [heard EXCEPT ![d] = @ \union
           {[room |-> join[c].room, claimed |-> frame[c], by |-> c]}]
    /\ UNCHANGED <<rooms, seen, legs, task, join, frame, open, frames, made>>

\* send_datagram on the next leg: best effort, so it may also be lost.
Hand(c, d) ==
    /\ d \in out[c]
    /\ out' = [out EXCEPT ![c] = @ \ {d}]
    /\ \/ /\ d \in open
          /\ heard' = [heard EXCEPT ![d] = @ \union
                 {[room |-> join[c].room, claimed |-> frame[c], by |-> c]}]
       \/ UNCHANGED heard
    /\ UNCHANGED <<rooms, seen, legs, task, join, frame, open, frames, made>>

\* The participant, or the network, ends the connection.
Close(c) ==
    /\ c \in open
    /\ open' = open \ {c}
    /\ UNCHANGED <<rooms, seen, legs, task, join, frame, out, frames, made, heard>>

\* Mutant: whether the room is empty is asked before the leg is removed.
LeaveAskedEarly(c) ==
    LET r == join[c].room
        s == join[c].seat
    IN  /\ task[c] = "carrying" /\ out[c] = {} /\ c \notin open
        /\ task' = [task EXCEPT ![c] = "done"]
        /\ IF r \in rooms
           THEN /\ legs' = [legs EXCEPT ![r][s] = None]
                /\ seen' = [seen EXCEPT ![r] = @ \ {s}]
                /\ rooms' = IF \A t \in Seats : legs[r][t] = None THEN rooms \ {r} ELSE rooms
                /\ UNCHANGED made
           ELSE UNCHANGED table
        /\ UNCHANGED <<join, frame, out, open, frames, heard>>

\* read_datagram fails on the closed connection: Rooms::leave.  A room with no
\* leg left is removed, and its forwarder with it.
Leave(c) ==
    LET r == join[c].room
        s == join[c].seat
    IN  /\ task[c] = "carrying" /\ out[c] = {} /\ c \notin open
        /\ task' = [task EXCEPT ![c] = "done"]
        /\ IF r \in rooms
           THEN /\ legs' = [legs EXCEPT ![r][s] = None]
                /\ IF \A t \in Seats \ {s} : legs[r][t] = None
                   THEN rooms' = rooms \ {r} /\ seen' = [seen EXCEPT ![r] = {}]
                   ELSE UNCHANGED rooms /\ seen' = [seen EXCEPT ![r] = @ \ {s}]
                /\ UNCHANGED made
           ELSE UNCHANGED table
        /\ UNCHANGED <<join, frame, out, open, frames, heard>>

\* Whom the relay's own scheduling advances: the task behind a connection.
TaskStep(c) == Leave(c) \/ \E d \in Conns : Hand(c, d)

Init ==
    /\ rooms = {}
    /\ seen = [r \in RoomIds |-> {}]
    /\ legs = [r \in RoomIds |-> [s \in Seats |-> None]]
    /\ task = [c \in Conns |-> "new"]
    /\ join = [c \in Conns |-> None]
    /\ frame = [c \in Conns |-> None]
    /\ out = [c \in Conns |-> {}]
    /\ open = {}
    /\ frames = [c \in Conns |-> 0]
    /\ made = {}
    /\ heard = [c \in Conns |-> {}]

Next ==
    \/ \E c \in Conns : Accept(c) \/ NotAJoin(c) \/ Close(c) \/ Leave(c)
    \/ \E c \in Conns, r \in RoomIds, s \in Seats : Seat(c, r, s) \/ SeatRefused(c, r, s)
    \/ \E c \in Conns, s \in Seats \union {None} : Route(c, s) \/ RouteRefused(c, s)
    \/ \E c, d \in Conns : Hand(c, d)

Spec == Init /\ [][Next]_vars

\* A spawned task that can run is run: the tasks await nothing but their own
\* connection, and no lock is held across an await.
FairSpec == Spec /\ \A c \in Conns : WF_vars(TaskStep(c))

-----------------------------------------------------------------------------
(* Properties.                                                             *)

\* The forwarder and the connections never disagree: a seat is taken in
\* Forwarder::seen exactly when a leg is behind it, only rooms the table holds
\* have either, and each participant being carried has its own seat, which no
\* refused, late or rejoining connection has taken from it.
SeatedIsHeld ==
    /\ \A r \in RoomIds : seen[r] = {s \in Seats : legs[r][s] # None}
    /\ \A r \in RoomIds : seen[r] # {} => r \in rooms
    /\ \A c \in Conns : task[c] = "carrying" =>
           join[c] # None /\ legs[join[c].room][join[c].seat] = c

\* Whoever hears a frame is another participant of the room it was sent in, and
\* the sender id in its header is the seat of the connection it came from,
\* although the copies go out after the lock is released.
HeardFromItsSeat ==
    \A c \in Conns : \A h \in heard[c] :
        /\ h.by # c
        /\ join[c] # None /\ join[c].room = h.room
        /\ join[h.by] # None /\ join[h.by].room = h.room /\ join[h.by].seat = h.claimed

\* room.rs: "The room goes with the last one".  Every room that counts against
\* MAX_ROOMS has somebody seated in it, however joins, refusals and late leaves
\* interleave, but for one a refused join made and nobody has sat in since.
HeldIsInhabited ==
    \A r \in rooms : r \in made \/ \E s \in Seats : legs[r][s] # None

\* A seat is given up once the connection behind it is closed, although its task
\* may first have a frame to put on other legs, closed ones among them.
SeatIsGivenUp ==
    \A c \in Conns, r \in RoomIds, s \in Seats :
        (legs[r][s] = c /\ c \notin open) ~> (legs[r][s] # c)
=============================================================================
