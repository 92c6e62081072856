---------------------------- MODULE RoomsProofs -----------------------------
(***************************************************************************)
(* Theorems about a relay's rooms, for every set of connections, rooms and *)
(* seats and every limit.                                                  *)
(***************************************************************************)
EXTENDS Rooms, TLAPS

\* A leg belongs to the one participant that was seated there and is still
\* being carried: what keeps two connections off one seat.
LegIsItsOwner ==
    \A r \in RoomIds, s \in Seats :
        legs[r][s] # None =>
            /\ task[legs[r][s]] = "carrying"
            /\ join[legs[r][s]] = [room |-> r, seat |-> s]

\* Before its join a connection has no seat and nothing to hand on.
UnseatedIsSilent ==
    \A c \in Conns : task[c] \in {"new", "waiting"} => join[c] = None

\* A frame under way goes from a seated connection to others that joined the
\* same room, and claims the seat it came from.
OnItsWay ==
    \A c \in Conns : \A d \in out[c] :
        /\ join[c] # None /\ join[d] # None
        /\ d # c /\ join[d].room = join[c].room
        /\ frame[c] = join[c].seat

\* The inductive invariant.
RoomsInv ==
    /\ RoomsTypeOK
    /\ SeatedIsHeld
    /\ LegIsItsOwner
    /\ UnseatedIsSilent
    /\ OnItsWay
    /\ HeardFromItsSeat

LEMMA RoomsInitial == Init => RoomsInv
  BY RoomsAssumption DEF Init, RoomsInv, RoomsTypeOK, SeatedIsHeld, LegIsItsOwner,
     UnseatedIsSilent, OnItsWay, HeardFromItsSeat

\* A step that seats and unseats nobody, at most makes a room, and leaves the
\* joins and the frames alone, keeps the invariant.
LEMMA QuietStep ==
    ASSUME RoomsInv,
           UNCHANGED <<seen, legs, join, frame, out, frames, heard>>,
           rooms \subseteq rooms', rooms' \subseteq RoomIds, made' \subseteq RoomIds,
           NEW c \in Conns,
           \/ task[c] = "new" /\ task' = [task EXCEPT ![c] = "waiting"]
           \/ task[c] = "waiting" /\ task' = [task EXCEPT ![c] = "done"]
           \/ UNCHANGED task,
           open' \subseteq Conns
    PROVE  RoomsInv'
  <1>1. RoomsTypeOK'
    BY DEF RoomsInv, RoomsTypeOK
  <1>2. \A d \in Conns : task'[d] = "carrying" <=> task[d] = "carrying"
    BY DEF RoomsInv, RoomsTypeOK
  <1>3. \A d \in Conns : task'[d] \in {"new", "waiting"} => task[d] \in {"new", "waiting"}
    BY DEF RoomsInv, RoomsTypeOK
  <1>4. SeatedIsHeld'
    BY <1>2 DEF RoomsInv, SeatedIsHeld
  <1>5. LegIsItsOwner'
    BY <1>2 DEF RoomsInv, RoomsTypeOK, LegIsItsOwner
  <1>6. UnseatedIsSilent'
    BY <1>3 DEF RoomsInv, UnseatedIsSilent
  <1>7. OnItsWay' /\ HeardFromItsSeat'
    BY DEF RoomsInv, OnItsWay, HeardFromItsSeat
  <1> QED
    BY <1>1, <1>4, <1>5, <1>6, <1>7 DEF RoomsInv

\* Rooms::join seats the connection where nobody sat.
LEMMA SeatKeeps ==
    ASSUME RoomsInv, NEW c \in Conns, NEW r \in RoomIds, NEW s \in Seats, Seat(c, r, s)
    PROVE  RoomsInv'
  <1> DEFINE j == [room |-> r, seat |-> s]
  <1>1. j \in Join /\ j # None /\ c # None
    BY RoomsAssumption DEF Join
  <1>2. /\ join' = [join EXCEPT ![c] = j]
        /\ task' = [task EXCEPT ![c] = "carrying"]
        /\ legs' = [legs EXCEPT ![r][s] = c]
        /\ seen' = [seen EXCEPT ![r] = @ \union {s}]
        /\ rooms' = rooms \union {r} /\ made' = made \ {r}
        /\ UNCHANGED <<frame, out, open, frames, heard>>
    BY DEF Seat
  <1>3. task[c] = "waiting" /\ join[c] = None /\ s \notin seen[r]
    BY DEF Seat, MaySit, RoomsInv, UnseatedIsSilent
  <1> HIDE DEF j
  <1>4. RoomsTypeOK'
    BY <1>1, <1>2 DEF RoomsInv, RoomsTypeOK
  <1>5. legs[r][s] = None
    BY <1>3 DEF RoomsInv, SeatedIsHeld
  <1>6. \A q \in RoomIds, t \in Seats :
           legs'[q][t] = IF q = r /\ t = s THEN c ELSE legs[q][t]
    BY <1>2 DEF RoomsInv, RoomsTypeOK
  <1>7. \A d \in Conns : join'[d] = (IF d = c THEN j ELSE join[d])
                      /\ task'[d] = (IF d = c THEN "carrying" ELSE task[d])
    BY <1>2 DEF RoomsInv, RoomsTypeOK
  <1>8. \A q \in RoomIds, t \in Seats : legs[q][t] # c
    BY <1>1, <1>3 DEF RoomsInv, LegIsItsOwner
  <1>9. SeatedIsHeld'
    <2>1. \A q \in RoomIds : seen'[q] = {t \in Seats : legs'[q][t] # None}
      <3> TAKE q \in RoomIds
      <3>1. CASE q = r
        <4>1. seen'[q] = seen[q] \union {s} /\ seen[q] = {t \in Seats : legs[q][t] # None}
          BY <3>1, <1>2 DEF RoomsInv, RoomsTypeOK, SeatedIsHeld
        <4> QED
          BY <4>1, <3>1, <1>6, <1>1
      <3>2. CASE q # r
        <4>1. seen'[q] = seen[q] /\ seen[q] = {t \in Seats : legs[q][t] # None}
          BY <3>2, <1>2 DEF RoomsInv, RoomsTypeOK, SeatedIsHeld
        <4> QED
          BY <4>1, <3>2, <1>6
      <3> QED BY <3>1, <3>2
    <2>2. \A q \in RoomIds : seen'[q] # {} => q \in rooms'
      BY <1>2 DEF RoomsInv, RoomsTypeOK, SeatedIsHeld
    <2>3. ASSUME NEW d \in Conns, task'[d] = "carrying"
          PROVE  join'[d] # None /\ legs'[join'[d].room][join'[d].seat] = d
      <3>1. CASE d = c
        BY <3>1, <1>1, <1>6, <1>7 DEF j
      <3>2. CASE d # c
        <4>1. /\ join'[d] = join[d] /\ join[d] # None
              /\ legs[join[d].room][join[d].seat] = d
          BY <2>3, <3>2, <1>7 DEF RoomsInv, SeatedIsHeld
        <4>2. join[d].room \in RoomIds /\ join[d].seat \in Seats
          BY <4>1 DEF RoomsInv, RoomsTypeOK, Join
        <4>3. d # None
          BY RoomsAssumption
        <4>4. ~(join[d].room = r /\ join[d].seat = s)
          BY <4>1, <4>3, <1>5
        <4>5. legs'[join[d].room][join[d].seat] = legs[join[d].room][join[d].seat]
          BY <4>2, <4>4, <1>6
        <4> QED
          BY <4>1, <4>5
      <3> QED BY <3>1, <3>2
    <2> QED BY <2>1, <2>2, <2>3 DEF SeatedIsHeld
  <1>10. LegIsItsOwner'
    <2> SUFFICES ASSUME NEW q \in RoomIds, NEW t \in Seats, legs'[q][t] # None
                 PROVE  /\ task'[legs'[q][t]] = "carrying"
                        /\ join'[legs'[q][t]] = [room |-> q, seat |-> t]
      BY DEF LegIsItsOwner
    <2>1. CASE q = r /\ t = s
      BY <2>1, <1>6, <1>7 DEF j
    <2>2. CASE ~(q = r /\ t = s)
      <3>1. legs'[q][t] = legs[q][t] /\ legs[q][t] \in Conns /\ legs[q][t] # c
        BY <2>2, <1>6, <1>8 DEF RoomsInv, RoomsTypeOK
      <3> QED
        BY <3>1, <1>7 DEF RoomsInv, LegIsItsOwner
    <2> QED BY <2>1, <2>2
  <1>11. UnseatedIsSilent'
    BY <1>7 DEF RoomsInv, UnseatedIsSilent
  <1>12. OnItsWay'
    BY <1>2, <1>3, <1>7 DEF RoomsInv, RoomsTypeOK, OnItsWay
  <1>13. HeardFromItsSeat'
    <2> SUFFICES ASSUME NEW d \in Conns, NEW h \in heard[d]
                 PROVE  /\ h.by # d
                        /\ join'[d] # None /\ join'[d].room = h.room
                        /\ join'[h.by] # None /\ join'[h.by].room = h.room
                        /\ join'[h.by].seat = h.claimed
      BY <1>2 DEF HeardFromItsSeat
    <2>1. h.by \in Conns
      BY DEF RoomsInv, RoomsTypeOK, Handed
    <2> QED
      BY <2>1, <1>3, <1>7 DEF RoomsInv, HeardFromItsSeat
  <1> QED
    BY <1>4, <1>9, <1>10, <1>11, <1>12, <1>13 DEF RoomsInv

\* A frame that is read, routed or not, goes to other participants of the room.
LEMMA ReadKeeps ==
    ASSUME RoomsInv, NEW c \in Conns, NEW claimed \in Seats \union {None},
           Route(c, claimed) \/ RouteRefused(c, claimed)
    PROVE  RoomsInv'
  <1>1. /\ task[c] = "carrying" /\ out[c] = {}
        /\ frame' = [frame EXCEPT ![c] = claimed]
        /\ frames' = [frames EXCEPT ![c] = @ + 1]
        /\ UNCHANGED <<rooms, seen, legs, task, join, open, made, heard>>
    BY DEF Route, RouteRefused, Read
  <1>2. join[c] # None /\ join[c] \in Join
    BY <1>1 DEF RoomsInv, RoomsTypeOK, SeatedIsHeld
  <1>3. PICK r \in RoomIds, s \in Seats : r = join[c].room /\ s = join[c].seat
    BY <1>2 DEF Join
  <1>4. legs[r][s] = c
    BY <1>1, <1>3 DEF RoomsInv, SeatedIsHeld
  <1>5. PICK to \in SUBSET Conns :
           /\ out' = [out EXCEPT ![c] = to]
           /\ \A d \in to : /\ join[d] # None /\ d # c /\ join[d].room = r
                            /\ claimed = s
    <2>1. CASE Route(c, claimed)
      <3> DEFINE to == {legs[r][t] : t \in seen[r] \ {s}} \ {None}
      <3>1. out' = [out EXCEPT ![c] = to] /\ claimed = s
        BY <2>1, <1>3 DEF Route, Routable, To
      <3>2. ASSUME NEW d \in to
            PROVE  d \in Conns /\ join[d] # None /\ d # c /\ join[d].room = r
        <4>1. PICK t \in seen[r] \ {s} : d = legs[r][t] /\ d # None
          OBVIOUS
        <4>2. t \in Seats /\ t # s
          BY <4>1 DEF RoomsInv, RoomsTypeOK
        <4>3. d \in Conns /\ join[d] = [room |-> r, seat |-> t]
          BY <4>1, <4>2 DEF RoomsInv, RoomsTypeOK, LegIsItsOwner
        <4>4. join[d] \in Join
          BY <4>3, <4>2 DEF Join
        <4> QED
          BY <4>2, <4>3, <4>4, <1>3, RoomsAssumption
      <3> QED
        BY <3>1, <3>2
    <2>2. CASE RouteRefused(c, claimed)
      <3>1. out' = [out EXCEPT ![c] = {}]
        BY <2>2, <1>1 DEF RouteRefused, RoomsInv, RoomsTypeOK
      <3>2. {} \in SUBSET Conns
        OBVIOUS
      <3> QED
        BY <3>1, <3>2
    <2> QED
      BY <2>1, <2>2
  <1>6. RoomsTypeOK'
    BY <1>1, <1>5 DEF RoomsInv, RoomsTypeOK
  <1>7. SeatedIsHeld' /\ LegIsItsOwner' /\ UnseatedIsSilent' /\ HeardFromItsSeat'
    BY <1>1 DEF RoomsInv, SeatedIsHeld, LegIsItsOwner, UnseatedIsSilent, HeardFromItsSeat
  <1>8. OnItsWay'
    <2> SUFFICES ASSUME NEW e \in Conns, NEW d \in out'[e]
                 PROVE  /\ join[e] # None /\ join[d] # None
                        /\ d # e /\ join[d].room = join[e].room
                        /\ frame'[e] = join[e].seat
      BY <1>1 DEF OnItsWay
    <2>1. CASE e = c
      BY <2>1, <1>1, <1>2, <1>3, <1>5 DEF RoomsInv, RoomsTypeOK
    <2>2. CASE e # c
      BY <2>2, <1>1, <1>5 DEF RoomsInv, RoomsTypeOK, OnItsWay
    <2> QED BY <2>1, <2>2
  <1> QED
    BY <1>6, <1>7, <1>8 DEF RoomsInv

\* What is put on a leg came from another seat of the same room.
LEMMA HandKeeps ==
    ASSUME RoomsInv, NEW c \in Conns, NEW d \in Conns, Hand(c, d)
    PROVE  RoomsInv'
  <1> DEFINE h == [room |-> join[c].room, claimed |-> frame[c], by |-> c]
  <1>1. /\ d \in out[c]
        /\ out' = [out EXCEPT ![c] = @ \ {d}]
        /\ UNCHANGED <<rooms, seen, legs, task, join, frame, open, frames, made>>
        /\ heard' = [heard EXCEPT ![d] = @ \union {h}] \/ UNCHANGED heard
    BY DEF Hand
  <1>2. /\ join[c] # None /\ join[d] # None /\ d # c
        /\ join[d].room = join[c].room /\ frame[c] = join[c].seat
    BY <1>1 DEF RoomsInv, OnItsWay
  <1>3. join[c].room \in RoomIds /\ join[c].seat \in Seats
    BY <1>2 DEF RoomsInv, RoomsTypeOK, Join
  <1>4. h \in Handed
    BY <1>2, <1>3 DEF Handed
  <1>5. /\ h.by = c /\ h.room = join[c].room /\ h.claimed = join[c].seat
    BY <1>2
  <1> HIDE DEF h
  <1>6. RoomsTypeOK'
    BY <1>1, <1>4 DEF RoomsInv, RoomsTypeOK
  <1>7. SeatedIsHeld' /\ LegIsItsOwner' /\ UnseatedIsSilent'
    BY <1>1 DEF RoomsInv, SeatedIsHeld, LegIsItsOwner, UnseatedIsSilent
  <1>8. \A e \in Conns : out'[e] \subseteq out[e]
    BY <1>1 DEF RoomsInv, RoomsTypeOK
  <1>9. OnItsWay'
    BY <1>1, <1>8 DEF RoomsInv, OnItsWay
  <1>10. \A e \in Conns : \A k \in heard'[e] : k \in heard[e] \/ (e = d /\ k = h)
    BY <1>1 DEF RoomsInv, RoomsTypeOK
  <1>11. HeardFromItsSeat'
    BY <1>1, <1>2, <1>5, <1>10 DEF RoomsInv, HeardFromItsSeat
  <1> QED
    BY <1>6, <1>7, <1>9, <1>11 DEF RoomsInv

\* Rooms::leave takes away the leaver's own seat and nobody else's, and the room
\* only when that was the last one.
LEMMA LeaveKeeps ==
    ASSUME RoomsInv, NEW c \in Conns, Leave(c)
    PROVE  RoomsInv'
  <1>1. task[c] = "carrying" /\ out[c] = {} /\ join[c] # None
    BY DEF Leave, RoomsInv, SeatedIsHeld
  <1>2. PICK r \in RoomIds, s \in Seats : r = join[c].room /\ s = join[c].seat
    BY <1>1 DEF RoomsInv, RoomsTypeOK, Join
  <1>3. legs[r][s] = c /\ c # None
    BY <1>1, <1>2, RoomsAssumption DEF RoomsInv, SeatedIsHeld
  <1>4. s \in seen[r] /\ r \in rooms
    BY <1>3 DEF RoomsInv, SeatedIsHeld
  <1>5. /\ task' = [task EXCEPT ![c] = "done"]
        /\ legs' = [legs EXCEPT ![r][s] = None]
        /\ UNCHANGED <<join, frame, out, open, frames, made, heard>>
        /\ \/ /\ \A t \in Seats \ {s} : legs[r][t] = None
              /\ rooms' = rooms \ {r} /\ seen' = [seen EXCEPT ![r] = {}]
           \/ /\ UNCHANGED rooms
              /\ seen' = [seen EXCEPT ![r] = @ \ {s}]
    BY <1>2, <1>4 DEF Leave
  <1>6. RoomsTypeOK'
    BY <1>5 DEF RoomsInv, RoomsTypeOK
  <1>7. \A q \in RoomIds, t \in Seats :
           legs'[q][t] = IF q = r /\ t = s THEN None ELSE legs[q][t]
    BY <1>5 DEF RoomsInv, RoomsTypeOK
  <1>8. \A d \in Conns : task'[d] = IF d = c THEN "done" ELSE task[d]
    BY <1>5 DEF RoomsInv, RoomsTypeOK
  <1>9. seen[r] = {t \in Seats : legs[r][t] # None}
    BY DEF RoomsInv, SeatedIsHeld
  <1>10. seen'[r] = seen[r] \ {s}
    BY <1>5, <1>9 DEF RoomsInv, RoomsTypeOK
  <1>11. \A q \in RoomIds \ {r} : seen'[q] = seen[q] /\ (q \in rooms' <=> q \in rooms)
    BY <1>5 DEF RoomsInv, RoomsTypeOK
  <1>12. \A q \in RoomIds : seen'[q] = {t \in Seats : legs'[q][t] # None}
    <2>1. ASSUME NEW q \in RoomIds, q # r
          PROVE  seen'[q] = {t \in Seats : legs'[q][t] # None}
      BY <2>1, <1>7, <1>11 DEF RoomsInv, SeatedIsHeld
    <2>2. seen'[r] = {t \in Seats : legs'[r][t] # None}
      BY <1>7, <1>9, <1>10
    <2> QED BY <2>1, <2>2
  <1>13. \A q \in RoomIds : seen'[q] # {} => q \in rooms'
    <2>1. ASSUME NEW q \in RoomIds, q # r, seen'[q] # {}
          PROVE  q \in rooms'
      BY <2>1, <1>11 DEF RoomsInv, SeatedIsHeld
    <2>2. seen'[r] # {} => r \in rooms'
      BY <1>4, <1>5, <1>9, <1>10
    <2> QED BY <2>1, <2>2
  <1>14. \A d \in Conns : task'[d] = "carrying" =>
            join'[d] # None /\ legs'[join'[d].room][join'[d].seat] = d
    <2> SUFFICES ASSUME NEW d \in Conns, d # c, task[d] = "carrying"
                 PROVE  join[d] # None /\ legs'[join[d].room][join[d].seat] = d
      BY <1>5, <1>8
    <2>1. join[d] # None /\ legs[join[d].room][join[d].seat] = d
      BY DEF RoomsInv, SeatedIsHeld
    <2>2. join[d].room \in RoomIds /\ join[d].seat \in Seats
      BY <2>1 DEF RoomsInv, RoomsTypeOK, Join
    <2> QED
      BY <2>1, <2>2, <1>3, <1>7
  <1>15. SeatedIsHeld'
    BY <1>12, <1>13, <1>14 DEF SeatedIsHeld
  <1>16. LegIsItsOwner'
    <2> SUFFICES ASSUME NEW q \in RoomIds, NEW t \in Seats, legs'[q][t] # None
                 PROVE  /\ task'[legs'[q][t]] = "carrying"
                        /\ join[legs'[q][t]] = [room |-> q, seat |-> t]
      BY <1>5 DEF LegIsItsOwner
    <2>1. ~(q = r /\ t = s) /\ legs'[q][t] = legs[q][t] /\ legs[q][t] \in Conns
      BY <1>7 DEF RoomsInv, RoomsTypeOK
    <2>2. /\ task[legs[q][t]] = "carrying"
          /\ join[legs[q][t]] = [room |-> q, seat |-> t]
      BY <2>1 DEF RoomsInv, LegIsItsOwner
    <2>3. legs[q][t] # c
      BY <2>1, <2>2, <1>2
    <2> QED
      BY <2>1, <2>2, <2>3, <1>8
  <1>17. UnseatedIsSilent' /\ OnItsWay' /\ HeardFromItsSeat'
    BY <1>5, <1>8 DEF RoomsInv, UnseatedIsSilent, OnItsWay, HeardFromItsSeat
  <1> QED
    BY <1>6, <1>15, <1>16, <1>17 DEF RoomsInv

LEMMA RoomsInductive == RoomsInv /\ [Next]_vars => RoomsInv'
  <1> SUFFICES ASSUME RoomsInv, [Next]_vars PROVE RoomsInv'
    OBVIOUS
  <1>1. ASSUME NEW c \in Conns, Accept(c) \/ NotAJoin(c) \/ Close(c)
        PROVE  RoomsInv'
    BY <1>1, QuietStep DEF Accept, NotAJoin, Close, RoomsInv, RoomsTypeOK
  <1>2. ASSUME NEW c \in Conns, NEW r \in RoomIds, NEW s \in Seats, SeatRefused(c, r, s)
        PROVE  RoomsInv'
    BY <1>2, QuietStep DEF SeatRefused, RoomsInv, RoomsTypeOK
  <1>3. CASE UNCHANGED vars
    BY <1>3 DEF vars, RoomsInv, RoomsTypeOK, SeatedIsHeld, LegIsItsOwner,
       UnseatedIsSilent, OnItsWay, HeardFromItsSeat
  <1> QED
    BY <1>1, <1>2, <1>3, SeatKeeps, ReadKeeps, HandKeeps, LeaveKeeps DEF Next

\* The rooms, seats, connections and frames on their way keep their types.
THEOREM RoomsTypes == Spec => []RoomsTypeOK
  <1>1. RoomsInv => RoomsTypeOK
    BY DEF RoomsInv
  <1> QED
    BY <1>1, RoomsInitial, RoomsInductive, PTL DEF Spec

\* However participants join, leave and close, the forwarder's seats and the
\* connections behind them agree.
THEOREM SeatsAreHeld == Spec => []SeatedIsHeld
  <1>1. RoomsInv => SeatedIsHeld
    BY DEF RoomsInv
  <1> QED
    BY <1>1, RoomsInitial, RoomsInductive, PTL DEF Spec

\* Every frame is heard in its own room, by others only, under the seat it was
\* sent from.
THEOREM RoomsSafe == Spec => []HeardFromItsSeat
  <1>1. RoomsInv => HeardFromItsSeat
    BY DEF RoomsInv
  <1> QED
    BY <1>1, RoomsInitial, RoomsInductive, PTL DEF Spec

\* Every room the table holds has somebody seated in it, or was made by a refused
\* join and nobody has sat in it since.
THEOREM RoomsAreInhabited == Spec => []HeldIsInhabited
  <1>1. Init => HeldIsInhabited
    BY DEF Init, HeldIsInhabited
  <1>2. ASSUME RoomsInv, HeldIsInhabited, [Next]_vars PROVE HeldIsInhabited'
    <2> USE <1>2 DEF HeldIsInhabited
    <2>1. /\ rooms \subseteq RoomIds
          /\ legs \in [RoomIds -> [Seats -> Conns \union {None}]]
      BY DEF RoomsInv, RoomsTypeOK
    <2>2. ASSUME NEW c \in Conns, NEW r \in RoomIds, NEW s \in Seats, Seat(c, r, s)
          PROVE  HeldIsInhabited'
      <3>1. /\ rooms' = rooms \union {r} /\ made' = made \ {r}
            /\ legs' = [legs EXCEPT ![r][s] = c]
        BY <2>2 DEF Seat
      <3>2. legs'[r][s] = c /\ c # None
        BY <2>1, <3>1, RoomsAssumption
      <3>3. \A q \in RoomIds : q # r => legs'[q] = legs[q]
        BY <2>1, <3>1
      <3> QED
        BY <2>1, <3>1, <3>2, <3>3
    <2>3. ASSUME NEW c \in Conns, NEW r \in RoomIds, NEW s \in Seats, SeatRefused(c, r, s)
          PROVE  HeldIsInhabited'
      <3>1. made' = made \union (rooms' \ rooms) /\ legs' = legs
        BY <2>3 DEF SeatRefused
      <3> QED
        BY <3>1
    <2>4. ASSUME NEW c \in Conns, Leave(c)
          PROVE  HeldIsInhabited'
      <3> DEFINE r == join[c].room
                 s == join[c].seat
      <3>1. CASE r \notin rooms
        BY <2>4, <3>1 DEF Leave, table
      <3>2. CASE r \in rooms
        <4>1. /\ legs' = [legs EXCEPT ![r][s] = None] /\ made' = made
              /\ \/ rooms' = rooms \ {r}
                 \/ rooms' = rooms /\ \E t \in Seats \ {s} : legs[r][t] # None
          BY <2>4, <3>2 DEF Leave
        <4>2. \A q \in RoomIds : q # r => legs'[q] = legs[q]
          BY <2>1, <4>1
        <4>3. \A t \in Seats \ {s} : legs'[r][t] = legs[r][t]
          BY <2>1, <3>2, <4>1
        <4> HIDE DEF r, s
        <4> QED
          BY <2>1, <4>1, <4>2, <4>3
      <3> QED
        BY <3>1, <3>2
    <2>5. ASSUME UNCHANGED table
          PROVE  HeldIsInhabited'
      BY <2>5 DEF table
    <2>6. ASSUME NEW c \in Conns
          PROVE  /\ (Accept(c) \/ NotAJoin(c) \/ Close(c)) => UNCHANGED table
                 /\ \A t \in Seats \union {None} :
                       (Route(c, t) \/ RouteRefused(c, t)) => UNCHANGED table
                 /\ \A d \in Conns : Hand(c, d) => UNCHANGED table
      BY DEF Accept, NotAJoin, Close, Route, RouteRefused, Read, Hand, table
    <2>7. UNCHANGED vars => UNCHANGED table
      BY DEF vars, table
    <2> QED
      BY <2>2, <2>3, <2>4, <2>5, <2>6, <2>7 DEF Next
  <1> QED
    BY <1>1, <1>2, RoomsInitial, RoomsInductive, PTL DEF Spec
=============================================================================
