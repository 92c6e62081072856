------------------------- MODULE MailboxServerProofs ------------------------
(***************************************************************************)
(* Theorems about the mailbox store and the mailbox server around it, for  *)
(* every number of connections, tags and envelopes, and every value of the *)
(* limits, ceilings and caps.                                              *)
(***************************************************************************)
EXTENDS MailboxServer, FiniteSetTheorems, SequenceTheorems, WellFoundedInduction, TLAPS

-----------------------------------------------------------------------------
(* The store.                                                              *)

\* What the numbers of the entries stand for, the places in a Vec that is pushed at
\* the back: no two entries share one and the next deposit comes behind them all.
ArrivalOrder ==
    \A s \in held \union disk :
        /\ s.n < arrivals
        /\ \A r \in held \union disk : r.n = s.n => r = s

\* The inductive invariant of the store: types, the arrival order, and that memory and
\* snapshot are finite, which the cardinalities in deposit_with need.
StoreInv ==
    /\ StoreTypeOK
    /\ ArrivalOrder
    /\ IsFiniteSet(held)
    /\ IsFiniteSet(disk)

\* What a deposit pushes is an entry of the store's type.
LEMMA NewEntryType ==
    ASSUME StoreTypeOK, NEW e \in Envelope, NEW l \in Limits
    PROVE  [n |-> arrivals, envelope |-> e, deposited_at |-> now,
            ttl_seconds |-> l.ttl_seconds] \in Stored
  BY LimitsAssumption DEF StoreTypeOK, Stored

\* The ceiling a deposit is measured against is a positive number.
LEMMA CeilingType ==
    ASSUME NEW l \in Limits
    PROVE  Ceiling(l) \in Nat \ {0}
  BY LimitsAssumption, CeilingAssumption DEF Ceiling

\* A deposit displaces entries of the slot only.
LEMMA DisplacedInSlot ==
    ASSUME NEW slot, NEW c
    PROVE  Displaced(slot, c) \subseteq slot
  BY DEF Displaced, Front, Live

\* The front of a set of entries is at most one entry, because arrival
\* numbers are never shared.
LEMMA FrontIsOne ==
    ASSUME StoreTypeOK, ArrivalOrder, NEW X \in SUBSET held,
           NEW r \in Front(X), NEW s \in Front(X)
    PROVE  r = s
  <1>1. r \in held /\ s \in held /\ r.n <= s.n /\ s.n <= r.n
    BY DEF Front
  <1>2. r.n \in Nat /\ s.n \in Nat
    BY <1>1 DEF StoreTypeOK, Stored
  <1> QED
    BY <1>1, <1>2 DEF ArrivalOrder

\* The invariant holds at start-up and every operation of the store keeps it.
LEMMA StoreInvInductive ==
    /\ StoreInit => StoreInv
    /\ StoreInv /\ [StoreNext]_storeVars => StoreInv'
  <1>1. StoreInit => StoreInv
    BY FS_EmptySet DEF StoreInit, StoreInv, StoreTypeOK, ArrivalOrder
  <1>2. ASSUME StoreInv, [StoreNext]_storeVars
        PROVE  StoreInv'
    <2> USE <1>2 DEF StoreInv
    <2>1. ASSUME NEW e \in Envelope, NEW l \in Limits, DepositWith(e, l)
          PROVE  StoreInv'
      <3> DEFINE new == [n |-> arrivals, envelope |-> e, deposited_at |-> now,
                         ttl_seconds |-> l.ttl_seconds]
                 kept == held \ Displaced(Slot(e.tag), Ceiling(l))
      <3>1. /\ held' = kept \union {new}
            /\ arrivals' = arrivals + 1
            /\ UNCHANGED <<now, disk>>
            /\ served' = {}
        BY <2>1 DEF DepositWith
      <3>2. new \in Stored /\ new.n = arrivals
        BY NewEntryType
      <3>3. kept \subseteq held
        OBVIOUS
      <3> HIDE DEF new, kept
      <3>4. StoreTypeOK'
        BY <3>1, <3>2, <3>3 DEF StoreTypeOK
      <3>5. ArrivalOrder'
        <4>1. \A s \in held \union disk : s.n \in Nat /\ s.n < arrivals
          BY DEF StoreTypeOK, Stored, ArrivalOrder
        <4>2. (held \union disk)' \subseteq (held \union disk) \union {new}
          BY <3>1, <3>3
        <4> QED
          BY <3>1, <3>2, <4>1, <4>2 DEF ArrivalOrder, StoreTypeOK
      <3>6. IsFiniteSet(held')
        BY <3>1, <3>3, FS_Subset, FS_AddElement
      <3> QED
        BY <3>1, <3>4, <3>5, <3>6
    <2>2. ASSUME held' \subseteq held \union disk, disk' \subseteq held \union disk,
                 served' \subseteq held, arrivals' = arrivals, now' \in Nat
          PROVE  StoreInv'
      <3>1. StoreTypeOK'
        BY <2>2 DEF StoreTypeOK
      <3>2. ArrivalOrder'
        BY <2>2 DEF ArrivalOrder
      <3>3. IsFiniteSet(held') /\ IsFiniteSet(disk')
        BY <2>2, FS_Union, FS_Subset
      <3> QED
        BY <3>1, <3>2, <3>3
    <2>3. CASE \E t \in Tags : Collect(t)
      BY <2>2, <2>3 DEF Collect, Live, Slot, StoreTypeOK
    <2>4. CASE \E ts \in SUBSET Tags : CollectMany(ts)
      BY <2>2, <2>4 DEF CollectMany, Live, Slot, StoreTypeOK
    <2>5. CASE \E ts \in SUBSET Tags : PeekMany(ts)
      BY <2>2, <2>5 DEF PeekMany, Live, Slot, StoreTypeOK
    <2>6. CASE \E ts \in SUBSET Tags, es \in SUBSET Envelope :
                  RemoveAcknowledged(ts, {Digest(e) : e \in es})
      BY <2>2, <2>6 DEF RemoveAcknowledged, StoreTypeOK
    <2>7. CASE Sweep
      BY <2>2, <2>7 DEF Sweep, Live, StoreTypeOK
    <2>8. CASE Snapshot
      BY <2>2, <2>8 DEF Snapshot, StoreTypeOK
    <2>9. CASE Restore
      BY <2>2, <2>9 DEF Restore, Live, StoreTypeOK
    <2>10. CASE \E t \in 0..MaxNow : SetClock(t)
      BY <2>2, <2>10, BoundsAssumption DEF SetClock, StoreTypeOK
    <2>11. CASE UNCHANGED storeVars
      BY <2>11 DEF storeVars, StoreTypeOK, ArrivalOrder
    <2> QED
      BY <2>1, <2>3, <2>4, <2>5, <2>6, <2>7, <2>8, <2>9, <2>10, <2>11
         DEF StoreNext
  <1> QED
    BY <1>1, <1>2

\* Whatever was deposited, removed, snapshot and restored, memory, snapshot and
\* what is handed out are entries with a time and a retention that are natural
\* numbers: nothing is ever dated before the clock's zero.
THEOREM StoreTypes == StoreSpec => []StoreTypeOK
  <1>1. StoreInv => StoreTypeOK
    BY DEF StoreInv
  <1> QED
    BY <1>1, StoreInvInductive, PTL DEF StoreSpec

\* Nothing is handed out past its retention, however long ago the last sweep
\* ran and whatever the clock did since the deposit.
THEOREM NothingServedExpired == StoreSpec => []ServedUnexpired
  <1>1. StoreInit => ServedUnexpired
    BY DEF StoreInit, ServedUnexpired
  <1>2. ASSUME ServedUnexpired, [StoreNext]_storeVars
        PROVE  ServedUnexpired'
    <2> USE <1>2 DEF ServedUnexpired
    <2>1. CASE served' = {}
      BY <2>1
    <2>2. CASE \E t \in Tags : Collect(t)
      BY <2>2 DEF Collect, Live, Expired
    <2>3. CASE \E ts \in SUBSET Tags : CollectMany(ts)
      BY <2>3 DEF CollectMany, Live, Expired
    <2>4. CASE \E ts \in SUBSET Tags : PeekMany(ts)
      BY <2>4 DEF PeekMany, Live, Expired
    <2>5. CASE UNCHANGED storeVars
      BY <2>5 DEF storeVars, Expired
    <2> QED
      BY <2>1, <2>2, <2>3, <2>4, <2>5
         DEF StoreNext, DepositWith, RemoveAcknowledged, Sweep, Snapshot,
             Restore, SetClock
  <1> QED
    BY <1>1, <1>2, PTL DEF StoreSpec

\* A deposit drops at most one entry, under its own tag; a live one only when
\* the tag is at the depositor's ceiling, nothing in it has expired and
\* everything that stays is newer.
THEOREM OldestGoesFirst == StoreSpec => DisplacesOldest
  <1> DEFINE Drops(e, l) ==
         \A s \in held \ held' :
            /\ held \ held' = {s}
            /\ s.envelope.tag = e.tag
            /\ \/ Expired(s, now)
               \/ LET slot == {r \in held' : r.envelope.tag = e.tag}
                  IN  /\ \A r \in slot : r.n # arrivals => ~Expired(r, now)
                      /\ \A r \in slot : r.n > s.n
                      /\ Cardinality(slot) >= Ceiling(l)
  <1>1. ASSUME StoreInv, NEW e \in Envelope, NEW l \in Limits, DepositWith(e, l)
        PROVE  Drops(e, l)
    <2> SUFFICES ASSUME NEW s \in held \ held'
                 PROVE  /\ held \ held' = {s}
                        /\ s.envelope.tag = e.tag
                        /\ \/ Expired(s, now)
                           \/ LET slot == {r \in held' : r.envelope.tag = e.tag}
                              IN  /\ \A r \in slot : r.n # arrivals => ~Expired(r, now)
                                  /\ \A r \in slot : r.n > s.n
                                  /\ Cardinality(slot) >= Ceiling(l)
      OBVIOUS
    <2> DEFINE old == Slot(e.tag)
               live == Live(old, now)
               gone == Displaced(old, Ceiling(l))
               new == [n |-> arrivals, envelope |-> e, deposited_at |-> now,
                       ttl_seconds |-> l.ttl_seconds]
               slot == {r \in held' : r.envelope.tag = e.tag}
    <2>1. held' = (held \ gone) \union {new}
      BY <1>1 DEF DepositWith
    <2>2. new.n = arrivals /\ new.envelope = e
      OBVIOUS
    <2>3. \A r \in held : r.n \in Nat /\ r.n < arrivals
      BY <1>1 DEF StoreInv, StoreTypeOK, Stored, ArrivalOrder
    <2>4. old \subseteq held /\ live \subseteq old
      BY DEF Slot, Live
    <2>5. gone \subseteq old
      BY DisplacedInSlot
    <2>6. held \ held' = gone
      <3>1. new \notin held
        BY <2>2, <2>3 DEF StoreInv, StoreTypeOK
      <3> HIDE DEF new, gone, old
      <3> QED
        BY <2>1, <2>4, <2>5, <3>1
    <2>7. s \in gone
      BY <2>6
    <2>8. ~(Cardinality(live) < Ceiling(l))
      BY <2>7 DEF Displaced
    <2>9. gone = IF old \ live # {} THEN Front(old \ live) ELSE Front(old)
      BY <2>8 DEF Displaced
    <2>10. gone = {s}
      <3>1. \A r \in gone : r = s
        <4> HIDE DEF old, live, gone
        <4>1. CASE old \ live # {}
          BY <1>1, <2>4, <2>7, <2>9, <4>1, FrontIsOne DEF StoreInv
        <4>2. CASE old \ live = {}
          BY <1>1, <2>4, <2>7, <2>9, <4>2, FrontIsOne DEF StoreInv
        <4> QED
          BY <4>1, <4>2
      <3> QED
        BY <2>7, <3>1
    <2>11. s.envelope.tag = e.tag
      BY <2>5, <2>7 DEF Slot
    <2>12. CASE old \ live # {}
      <3>1. Expired(s, now)
        BY <2>7, <2>9, <2>12 DEF Front, Live
      <3> QED
        BY <2>6, <2>10, <2>11, <3>1
    <2>13. CASE old \ live = {}
      <3>1. live = old
        BY <2>4, <2>13
      <3>2. s \in old /\ \A r \in old : s.n <= r.n
        BY <2>7, <2>9, <2>13 DEF Front
      <3>3. slot = (old \ {s}) \union {new}
        <4> HIDE DEF gone
        <4> QED
          BY <2>1, <2>2, <2>10 DEF Slot
      <3>4. \A r \in slot : r.n # arrivals => ~Expired(r, now)
        BY <2>2, <3>1, <3>3 DEF Live
      <3>5. \A r \in slot : r.n > s.n
        <4>1. ASSUME NEW r \in old \ {s} PROVE r.n > s.n
          <5>1. r \in held /\ s \in held /\ r # s /\ s.n <= r.n
            BY <2>4, <3>2
          <5>2. r.n # s.n
            BY <1>1, <5>1 DEF StoreInv, ArrivalOrder
          <5> QED
            BY <2>3, <5>1, <5>2
        <4>2. new.n > s.n
          BY <2>2, <2>3
        <4> HIDE DEF new, old, slot
        <4> QED
          BY <3>3, <4>1, <4>2
      <3>6. Cardinality(slot) >= Ceiling(l)
        <4>1. IsFiniteSet(old)
          BY <1>1, <2>4, FS_Subset DEF StoreInv
        <4>2. Cardinality(old) \in Nat /\ Cardinality(old) >= Ceiling(l)
          BY <2>8, <3>1, <4>1, FS_CardinalityType, CeilingType
        <4>3. IsFiniteSet(old \ {s}) /\ Cardinality(old \ {s}) = Cardinality(old) - 1
          BY <3>2, <4>1, FS_RemoveElement
        <4>4. new \notin old \ {s}
          BY <2>2, <2>3, <2>4
        <4> HIDE DEF old, slot, new
        <4>5. Cardinality((old \ {s}) \union {new}) = Cardinality(old \ {s}) + 1
          BY <4>3, <4>4, FS_AddElement
        <4> QED
          BY <3>3, <4>2, <4>3, <4>5, CeilingType
      <3> QED
        BY <2>6, <2>10, <2>11, <3>4, <3>5, <3>6
    <2> QED
      BY <2>12, <2>13
  <1>2. StoreInv => [\A e \in Envelope, l \in Limits :
                        DepositWith(e, l) => Drops(e, l)]_storeVars
    BY <1>1
  <1> QED
    BY <1>2, StoreInvInductive, PTL DEF StoreSpec, DisplacesOldest

-----------------------------------------------------------------------------
(* The server.                                                             *)

\* The inductive invariant of the server: the store's, the types, and the listening lists.
ServerInv == StoreInv /\ TypeOK /\ ListeningBounded

\* A list that holds no tag twice.
Distinct(order) == \A i, j \in 1..Len(order) : order[i] = order[j] => i = j

-----------------------------------------------------------------------------
(* Lists of tags.                                                          *)

\* A list picked by positions has as many elements as positions, each of them
\* an element of the original list.
LEMMA PickedType ==
    ASSUME NEW list \in Seq(Tags), NEW P \in SUBSET (1..Len(list)),
           NEW pick \in Ascending(P)
    PROVE  /\ Cardinality(P) \in Nat
           /\ Cardinality(P) <= Len(list)
           /\ Len(pick) = Cardinality(P)
           /\ Picked(list, pick) \in Seq(Tags)
           /\ Len(Picked(list, pick)) = Cardinality(P)
           /\ \A k \in 1..Cardinality(P) :
                 pick[k] \in P /\ Picked(list, pick)[k] = list[pick[k]]
           /\ \A k, m \in 1..Cardinality(P) : k < m => pick[k] < pick[m]
  <1>1. Len(list) \in Nat
    OBVIOUS
  <1>2. IsFiniteSet(1..Len(list)) /\ Cardinality(1..Len(list)) = Len(list)
    <2>1. 1 \in Int /\ Len(list) \in Int
      BY <1>1
    <2>2. /\ IsFiniteSet(1..Len(list))
          /\ Cardinality(1..Len(list)) = IF 1 > Len(list) THEN 0 ELSE Len(list) - 1 + 1
      BY <2>1, FS_Interval
    <2> QED
      BY <1>1, <2>2
  <1>3. Cardinality(P) \in Nat /\ Cardinality(P) <= Len(list)
    BY <1>2, FS_Subset, FS_CardinalityType
  <1>4. /\ pick \in [1..Cardinality(P) -> P]
        /\ \A k, m \in 1..Cardinality(P) : k < m => pick[k] < pick[m]
    BY DEF Ascending
  <1>5. Len(pick) = Cardinality(P)
    BY <1>3, <1>4
  <1>6. \A k \in 1..Cardinality(P) : pick[k] \in P /\ list[pick[k]] \in Tags
    <2>1. \A p \in 1..Len(list) : list[p] \in Tags
      OBVIOUS
    <2>2. \A k \in 1..Cardinality(P) : pick[k] \in P
      BY <1>4
    <2> QED
      BY <2>1, <2>2
  <1> QED
    BY <1>3, <1>4, <1>5, <1>6 DEF Picked

\* Dropping from the front leaves a shorter list with no tag twice, with room
\* for what is wanted when that fits under the cap at all.
LEMMA MakeRoomForType ==
    ASSUME NEW order \in Seq(Tags), Distinct(order),
           NEW wanted \in Nat, wanted <= MAX_TAGS_PER_CONNECTION
    PROVE  /\ MakeRoomFor(order, wanted) \in Seq(Tags)
           /\ Distinct(MakeRoomFor(order, wanted))
           /\ Len(MakeRoomFor(order, wanted)) + wanted <= MAX_TAGS_PER_CONNECTION
  <1> DEFINE excess == SaturatingSub(Len(order) + wanted, MAX_TAGS_PER_CONNECTION)
             room == SubSeq(order, excess + 1, Len(order))
  <1>1. Len(order) \in Nat /\ MAX_TAGS_PER_CONNECTION \in Nat
    BY SessionAssumption
  <1>2. /\ excess \in Nat
        /\ Len(order) + wanted <= MAX_TAGS_PER_CONNECTION + excess
        /\ excess <= Len(order)
    BY <1>1 DEF SaturatingSub
  <1>3. MakeRoomFor(order, wanted) = room
    BY <1>1, <1>2 DEF MakeRoomFor
  <1> HIDE DEF excess
  <1>4. /\ room \in Seq(Tags)
        /\ Len(room) = Len(order) - excess
        /\ \A i \in 1..Len(room) : room[i] = order[i + excess]
    <2>1. \A i \in (excess + 1)..Len(order) : order[i] \in Tags
      BY <1>2
    <2>2. /\ room \in Seq(Tags)
          /\ Len(room) = IF excess + 1 <= Len(order)
                         THEN Len(order) - (excess + 1) + 1 ELSE 0
          /\ \A i \in 1..(Len(order) - (excess + 1) + 1) :
                room[i] = order[(excess + 1) + i - 1]
      <3>1. excess + 1 \in Int /\ Len(order) \in Int
        BY <1>1, <1>2
      <3> QED BY <2>1, <3>1, SubSeqProperties
    <2> HIDE DEF room
    <2>3. Len(room) = Len(order) - excess
      BY <1>1, <1>2, <2>2
    <2>4. ASSUME NEW i \in 1..Len(room) PROVE room[i] = order[i + excess]
      <3>1. i \in 1..(Len(order) - (excess + 1) + 1) /\ (excess + 1) + i - 1 = i + excess
        BY <1>1, <1>2, <2>3
      <3> QED BY <2>2, <3>1
    <2> QED BY <2>2, <2>3, <2>4
  <1> HIDE DEF room
  <1>5. Distinct(room)
    <2> SUFFICES ASSUME NEW i \in 1..Len(room), NEW j \in 1..Len(room),
                        room[i] = room[j]
                 PROVE  i = j
      BY DEF Distinct
    <2>1. i + excess \in 1..Len(order) /\ j + excess \in 1..Len(order)
      BY <1>1, <1>2, <1>4
    <2>2. order[i + excess] = order[j + excess]
      BY <1>4
    <2>3. i + excess = j + excess
      BY <2>1, <2>2 DEF Distinct
    <2> QED
      BY <1>2, <1>4, <2>3
  <1> QED
    BY <1>1, <1>2, <1>3, <1>4, <1>5

\* Appending one list without repetitions to another gives a list without
\* repetitions when they share no tag.
LEMMA ConcatDistinct ==
    ASSUME NEW a \in Seq(Tags), NEW b \in Seq(Tags), Distinct(a), Distinct(b),
           \A i \in 1..Len(a), j \in 1..Len(b) : a[i] # b[j]
    PROVE  Distinct(a \o b)
  <1> DEFINE ab == a \o b
  <1>1. /\ ab \in Seq(Tags)
        /\ Len(a) \in Nat /\ Len(b) \in Nat
        /\ Len(ab) = Len(a) + Len(b)
        /\ \A i \in 1..Len(ab) : ab[i] = IF i <= Len(a) THEN a[i] ELSE b[i - Len(a)]
    OBVIOUS
  <1> HIDE DEF ab
  <1> SUFFICES ASSUME NEW i \in 1..Len(ab), NEW j \in 1..Len(ab), ab[i] = ab[j]
               PROVE  i = j
    BY DEF Distinct, ab
  <1>2. CASE i <= Len(a) /\ j <= Len(a)
    BY <1>1, <1>2 DEF Distinct
  <1>3. CASE i <= Len(a) /\ ~(j <= Len(a))
    BY <1>1, <1>3
  <1>4. CASE ~(i <= Len(a)) /\ j <= Len(a)
    <2>1. i - Len(a) \in 1..Len(b) /\ j \in 1..Len(a)
      BY <1>1, <1>4
    <2>2. ab[i] = b[i - Len(a)] /\ ab[j] = a[j]
      BY <1>1, <1>4
    <2> QED
      BY <2>1, <2>2
  <1>5. CASE ~(i <= Len(a)) /\ ~(j <= Len(a))
    <2>1. i - Len(a) \in 1..Len(b) /\ j - Len(a) \in 1..Len(b)
      BY <1>1, <1>5
    <2>2. b[i - Len(a)] = b[j - Len(a)]
      BY <1>1, <1>5
    <2>3. i - Len(a) = j - Len(a)
      BY <2>1, <2>2 DEF Distinct
    <2> QED
      BY <1>1, <2>3
  <1> QED
    BY <1>2, <1>3, <1>4, <1>5

\* What a subscription leaves: a list under the cap with no tag twice.
LEMMA SubscribedList ==
    ASSUME NEW order \in Seq(Tags), Distinct(order),
           NEW parsed \in Seq(Tags), Len(parsed) <= MAX_TAGS_PER_SUBSCRIPTION,
           NEW pick \in Ascending(FirstMentions(MakeRoomFor(order, Len(parsed)), parsed))
    PROVE  LET after == MakeRoomFor(order, Len(parsed)) \o Picked(parsed, pick)
           IN  /\ after \in Seq(Tags)
               /\ Distinct(after)
               /\ Len(after) <= MAX_TAGS_PER_CONNECTION
  <1> DEFINE room == MakeRoomFor(order, Len(parsed))
             P == FirstMentions(room, parsed)
             new == Picked(parsed, pick)
  <1>1. Len(parsed) \in Nat /\ Len(parsed) <= MAX_TAGS_PER_CONNECTION
    BY SessionAssumption
  <1>2. /\ room \in Seq(Tags)
        /\ Distinct(room)
        /\ Len(room) + Len(parsed) <= MAX_TAGS_PER_CONNECTION
    BY <1>1, MakeRoomForType
  <1>3. /\ P \subseteq 1..Len(parsed)
        /\ \A p \in P : /\ parsed[p] \notin TagsOf(room)
                        /\ \A q \in 1..(p - 1) : parsed[q] # parsed[p]
    BY DEF FirstMentions
  <1> HIDE DEF room
  <1> HIDE DEF P
  <1>4. pick \in Ascending(P)
    BY DEF P, room
  <1> HIDE DEF new
  <1>5. /\ Cardinality(P) \in Nat
        /\ Cardinality(P) <= Len(parsed)
        /\ new \in Seq(Tags)
        /\ Len(new) = Cardinality(P)
        /\ \A k \in 1..Cardinality(P) : pick[k] \in P /\ new[k] = parsed[pick[k]]
        /\ \A k, m \in 1..Cardinality(P) : k < m => pick[k] < pick[m]
    <2>1. P \in SUBSET (1..Len(parsed))
      BY <1>3
    <2> QED
      BY <1>4, <2>1, PickedType DEF new
  <1>6. Distinct(new)
    <2> SUFFICES ASSUME NEW k \in 1..Len(new), NEW m \in 1..Len(new), k < m
                 PROVE  new[k] # new[m]
      BY <1>5 DEF Distinct
    <2>1. pick[k] \in P /\ pick[m] \in P /\ pick[k] < pick[m]
      BY <1>5
    <2>2. pick[k] \in 1..(pick[m] - 1)
      <3>1. pick[k] \in 1..Len(parsed) /\ pick[m] \in 1..Len(parsed)
        BY <1>3, <2>1
      <3> QED
        BY <1>1, <2>1, <3>1
    <2>3. parsed[pick[k]] # parsed[pick[m]]
      BY <1>3, <2>1, <2>2
    <2> QED
      BY <1>5, <2>3
  <1>7. \A i \in 1..Len(room), k \in 1..Len(new) : room[i] # new[k]
    <2> SUFFICES ASSUME NEW i \in 1..Len(room), NEW k \in 1..Len(new)
                 PROVE  room[i] # new[k]
      OBVIOUS
    <2>1. room[i] \in TagsOf(room)
      BY DEF TagsOf
    <2>2. new[k] \notin TagsOf(room)
      BY <1>3, <1>5
    <2> QED
      BY <2>1, <2>2
  <1>8. Distinct(room \o new)
    BY <1>2, <1>5, <1>6, <1>7, ConcatDistinct
  <1>9. room \o new \in Seq(Tags) /\ Len(room \o new) = Len(room) + Len(new)
    BY <1>2, <1>5, ConcatProperties
  <1>10. Len(room) \in Nat /\ MAX_TAGS_PER_CONNECTION \in Nat
    BY <1>2, SessionAssumption
  <1>11. Len(room \o new) <= MAX_TAGS_PER_CONNECTION
    BY <1>1, <1>2, <1>5, <1>9, <1>10
  <1> QED
    BY <1>8, <1>9, <1>11 DEF room, new

\* What an unsubscription leaves: no longer than before and no tag twice.
LEMMA UnsubscribedList ==
    ASSUME NEW order \in Seq(Tags), Distinct(order), NEW tags,
           NEW pick \in Ascending(Without(order, tags))
    PROVE  /\ Picked(order, pick) \in Seq(Tags)
           /\ Distinct(Picked(order, pick))
           /\ Len(Picked(order, pick)) <= Len(order)
  <1> DEFINE P == Without(order, tags)
             kept == Picked(order, pick)
  <1>1. P \subseteq 1..Len(order)
    BY DEF Without
  <1> HIDE DEF P
  <1>2. pick \in Ascending(P)
    BY DEF P
  <1>3. /\ Cardinality(P) \in Nat
        /\ Cardinality(P) <= Len(order)
        /\ kept \in Seq(Tags)
        /\ Len(kept) = Cardinality(P)
        /\ \A k \in 1..Cardinality(P) : pick[k] \in P /\ kept[k] = order[pick[k]]
        /\ \A k, m \in 1..Cardinality(P) : k < m => pick[k] < pick[m]
    BY <1>1, <1>2, PickedType
  <1> HIDE DEF kept
  <1>4. Distinct(kept)
    <2> SUFFICES ASSUME NEW k \in 1..Len(kept), NEW m \in 1..Len(kept), k < m
                 PROVE  kept[k] # kept[m]
      BY <1>3 DEF Distinct
    <2>1. pick[k] \in 1..Len(order) /\ pick[m] \in 1..Len(order) /\ pick[k] < pick[m]
      BY <1>1, <1>3
    <2>2. order[pick[k]] # order[pick[m]]
      BY <2>1 DEF Distinct
    <2> QED
      BY <1>3, <2>2
  <1> QED
    BY <1>3, <1>4 DEF kept

-----------------------------------------------------------------------------
(* What a step of the server does to the store.                            *)

\* The tags a well-typed list names are tags.
LEMMA TagsOfType ==
    ASSUME NEW order \in Seq(Tags)
    PROVE  TagsOf(order) \subseteq Tags
  <1>1. \A i \in 1..Len(order) : order[i] \in Tags
    OBVIOUS
  <1> QED
    BY <1>1 DEF TagsOf

\* The lists a subscription may name are lists of tags.
LEMMA TagListsType == TagLists \subseteq Seq(Tags)
  BY SessionAssumption DEF TagLists

\* Every step of the server is one operation of the store, or none.
LEMMA StepIsStoreStep ==
    ASSUME TypeOK, [Next]_vars
    PROVE  [StoreNext]_storeVars
  <1>1. StoreIdle => StoreNext
    BY DEF StoreIdle, StoreNext
  <1>2. ASSUME NEW c \in Conns, NEW parsed \in TagLists, Subscribe(c, parsed)
        PROVE  StoreNext
    <2>1. TagsOf(parsed) \in SUBSET Tags
      BY TagListsType, TagsOfType
    <2>2. PeekMany(TagsOf(parsed))
      BY <1>2 DEF Subscribe
    <2> QED
      BY <2>1, <2>2 DEF StoreNext
  <1>3. ASSUME NEW c \in Conns, NEW digests \in SUBSET {Digest(e) : e \in Envelope},
               Collected(c, digests)
        PROVE  StoreNext
    <2>1. TagsOf(listening[c]) \in SUBSET Tags
      BY TagsOfType DEF TypeOK
    <2>2. digests \in SUBSET Envelope /\ digests = {Digest(e) : e \in digests}
      BY DEF Digest
    <2>3. RemoveAcknowledged(TagsOf(listening[c]), digests)
      BY <1>3 DEF Collected
    <2> QED
      BY <2>1, <2>2, <2>3 DEF StoreNext
  <1>4. ASSUME NEW c \in Conns, NEW e \in Envelope, NEW l \in Limits, Deposit(c, e, l)
        PROVE  StoreNext
    BY <1>4 DEF Deposit, StoreNext
  <1>5. ASSUME NEW c \in Conns, ReceiveWake(c)
        PROVE  StoreNext
    <2>1. Head(wakes[c]).tag \in Tags
      <3>1. wakes[c] \in Seq(Wake) /\ wakes[c] # <<>>
        BY <1>5 DEF TypeOK, ReceiveWake
      <3>2. Head(wakes[c]) \in Wake
        BY <3>1
      <3> QED
        BY <3>2 DEF Wake
    <2>2. StoreIdle \/ Collect(Head(wakes[c]).tag)
      BY <1>5 DEF ReceiveWake
    <2> QED
      BY <1>1, <2>1, <2>2 DEF StoreNext
  <1>6. ASSUME NEW c \in Conns,
               Connect(c) \/ Send(c) \/ Disconnect(c)
                 \/ \E tags \in SUBSET Tags : Unsubscribe(c, tags)
        PROVE  StoreNext
    BY <1>1, <1>6 DEF Connect, Send, Disconnect, Unsubscribe
  <1>7. SweeperTick \/ SaveMailbox \/ Restart \/ Clock => StoreNext
    BY <1>1 DEF SweeperTick, SaveMailbox, Restart, Clock, StoreNext
  <1>8. CASE UNCHANGED vars
    BY <1>8 DEF vars
  <1> QED
    BY <1>2, <1>3, <1>4, <1>5, <1>6, <1>7, <1>8 DEF Next, Request

-----------------------------------------------------------------------------
(* The inductive invariant.                                                *)

\* Where listening is left alone it stays bounded.
LEMMA ListeningKept ==
    ASSUME ListeningBounded, listening' = listening
    PROVE  ListeningBounded'
  BY DEF ListeningBounded

\* A connection that gets a good list keeps every list good.
LEMMA ListeningReplaced ==
    ASSUME TypeOK, ListeningBounded, NEW c \in Conns, NEW after \in Seq(Tags),
           Distinct(after), Len(after) <= MAX_TAGS_PER_CONNECTION,
           listening' = [listening EXCEPT ![c] = after]
    PROVE  listening' \in [Conns -> Seq(Tags)] /\ ListeningBounded'
  <1>1. listening \in [Conns -> Seq(Tags)]
    BY DEF TypeOK
  <1>2. listening' \in [Conns -> Seq(Tags)]
    BY <1>1
  <1>3. ASSUME NEW d \in Conns
        PROVE  /\ Len(listening'[d]) <= MAX_TAGS_PER_CONNECTION
               /\ \A i, j \in 1..Len(listening'[d]) :
                     listening'[d][i] = listening'[d][j] => i = j
    <2>1. CASE d = c
      <3>1. listening'[d] = after
        BY <1>1, <2>1
      <3> QED
        BY <3>1 DEF Distinct
    <2>2. CASE d # c
      <3>1. listening'[d] = listening[d]
        BY <1>1, <2>2
      <3> QED
        BY <3>1 DEF ListeningBounded
    <2> QED
      BY <2>1, <2>2
  <1> QED
    BY <1>2, <1>3 DEF ListeningBounded

\* A queue of wakes stays one within its capacity when an event is offered to it.
LEMMA OfferType ==
    ASSUME NEW queue \in Seq(Wake), NEW event \in Wake, Len(queue) <= WAKE_CAPACITY
    PROVE  Offer(queue, event) \in Seq(Wake) /\ Len(Offer(queue, event)) <= WAKE_CAPACITY
  <1>0. Len(queue) \in Nat /\ WAKE_CAPACITY \in Nat \ {0}
    BY SessionAssumption
  <1>1. CASE Len(queue) < WAKE_CAPACITY
    BY <1>0, <1>1 DEF Offer
  <1>2. CASE ~(Len(queue) < WAKE_CAPACITY)
    <2>1. queue # <<>>
      BY <1>0, <1>2
    <2>2. Tail(queue) \in Seq(Wake) /\ Len(Tail(queue)) = Len(queue) - 1
      BY <2>1
    <2> QED
      BY <1>0, <1>2, <2>2 DEF Offer
  <1> QED
    BY <1>1, <1>2

\* No step leaves a session with more wakes than its channel has room for.
LEMMA WakesBounded ==
    ASSUME TypeOK, [Next]_vars, NEW d \in Conns
    PROVE  Len(wakes'[d]) <= WAKE_CAPACITY
  <1>1. wakes \in [Conns -> Seq(Wake)] /\ Len(wakes[d]) <= WAKE_CAPACITY
    BY DEF TypeOK
  <1>2. WAKE_CAPACITY \in Nat /\ Len(<<>>) = 0
    BY SessionAssumption
  <1>3. CASE wakes' = wakes
    BY <1>1, <1>3
  <1>4. ASSUME NEW c \in Conns, NEW e \in Envelope, NEW l \in Limits, Deposit(c, e, l)
        PROVE  Len(wakes'[d]) <= WAKE_CAPACITY
    <2> DEFINE event == [tag |-> e.tag, from |-> c]
    <2>1. event \in Wake
      BY DEF Wake, Envelope
    <2>2. wakes'[d] = wakes[d] \/ wakes'[d] = Offer(wakes[d], event)
      BY <1>4 DEF Deposit, Broadcast
    <2> HIDE DEF event
    <2> QED
      BY <1>1, <2>1, <2>2, OfferType
  <1>5. ASSUME NEW c \in Conns, ReceiveWake(c)
        PROVE  Len(wakes'[d]) <= WAKE_CAPACITY
    <2>1. wakes[c] # <<>> /\ wakes' = [wakes EXCEPT ![c] = Tail(wakes[c])]
      BY <1>5 DEF ReceiveWake
    <2>2. CASE d # c
      BY <1>1, <2>1, <2>2
    <2>3. CASE d = c
      <3>1. Len(wakes'[d]) = Len(wakes[d]) - 1 /\ Len(wakes[d]) \in Nat
        BY <1>1, <2>1, <2>3
      <3> QED
        BY <1>1, <1>2, <3>1
    <2> QED
      BY <2>2, <2>3
  <1>6. ASSUME NEW c \in Conns, Disconnect(c)
        PROVE  Len(wakes'[d]) <= WAKE_CAPACITY
    <2>1. wakes' = [wakes EXCEPT ![c] = <<>>]
      BY <1>6 DEF Disconnect
    <2>2. wakes'[d] = wakes[d] \/ wakes'[d] = <<>>
      BY <1>1, <2>1
    <2> QED
      BY <1>1, <1>2, <2>2
  <1>7. ASSUME Restart
        PROVE  Len(wakes'[d]) <= WAKE_CAPACITY
    <2>1. wakes'[d] = <<>>
      BY <1>7 DEF Restart
    <2> QED
      BY <1>2, <2>1
  <1>8. ASSUME NEW c \in Conns
        PROVE  /\ Connect(c) \/ Send(c) => wakes' = wakes
               /\ \A parsed \in TagLists : Subscribe(c, parsed) => wakes' = wakes
               /\ \A tags \in SUBSET Tags : Unsubscribe(c, tags) => wakes' = wakes
               /\ \A digests : Collected(c, digests) => wakes' = wakes
    BY DEF Connect, Send, Subscribe, Unsubscribe, Collected
  <1>9. SweeperTick \/ SaveMailbox \/ Clock \/ UNCHANGED vars => wakes' = wakes
    BY DEF SweeperTick, SaveMailbox, Clock, vars, sessionVars
  <1> QED
    BY <1>3, <1>4, <1>5, <1>6, <1>7, <1>8, <1>9 DEF Next, Request

\* Every step leaves pairs of a deposit and a connection in receipts.
LEMMA ReceiptsType ==
    ASSUME TypeOK, [Next]_vars
    PROVE  receipts' \subseteq Nat \X Conns
  <1>1. CASE receipts' = {} \/ receipts' = receipts
    BY <1>1 DEF TypeOK
  <1>2. ASSUME NEW c \in Conns, NEW digests, Collected(c, digests)
        PROVE  receipts' \subseteq Nat \X Conns
    <2>1. receipts' = {<<s.n, c>> : s \in Acknowledged(TagsOf(listening[c]), digests)}
      BY <1>2 DEF Collected
    <2>2. \A s \in Acknowledged(TagsOf(listening[c]), digests) : s.n \in Nat
      BY DEF Acknowledged, TypeOK, StoreTypeOK, Stored
    <2> QED
      BY <2>1, <2>2
  <1>3. ASSUME NEW c \in Conns
        PROVE  /\ Connect(c) \/ Send(c) \/ ReceiveWake(c) \/ Disconnect(c) => receipts' = {}
               /\ \A parsed \in TagLists : Subscribe(c, parsed) => receipts' = {}
               /\ \A tags \in SUBSET Tags : Unsubscribe(c, tags) => receipts' = {}
               /\ \A e \in Envelope, l \in Limits : Deposit(c, e, l) => receipts' = {}
    BY DEF Connect, Send, ReceiveWake, Disconnect, Subscribe, Unsubscribe, Deposit
  <1>4. SweeperTick \/ SaveMailbox \/ Restart \/ Clock => receipts' = {}
    BY DEF SweeperTick, SaveMailbox, Restart, Clock
  <1>5. UNCHANGED vars => receipts' = receipts
    BY DEF vars, sessionVars
  <1> QED
    BY <1>1, <1>2, <1>3, <1>4, <1>5 DEF Next, Request

\* The invariant holds at start-up and every step of the server keeps it.
LEMMA ServerInvInductive ==
    /\ Init => ServerInv
    /\ ServerInv /\ [Next]_vars => ServerInv'
  <1>1. Init => ServerInv
    <2> SUFFICES ASSUME Init PROVE ServerInv
      OBVIOUS
    <2>1. StoreInv
      BY StoreInvInductive DEF Init
    <2>2. TypeOK
      BY <2>1, SessionAssumption DEF Init, TypeOK, StoreInv
    <2>3. ListeningBounded
      BY SessionAssumption DEF Init, ListeningBounded
    <2> QED
      BY <2>1, <2>2, <2>3 DEF ServerInv
  <1>2. ASSUME ServerInv, [Next]_vars
        PROVE  ServerInv'
    <2>1. StoreInv /\ TypeOK /\ ListeningBounded
      BY <1>2 DEF ServerInv
    <2>2. StoreInv'
      BY <1>2, <2>1, StepIsStoreStep, StoreInvInductive
    <2>3. /\ StoreTypeOK' /\ served' \in SUBSET Stored
          /\ receipts' \subseteq Nat \X Conns
          /\ \A d \in Conns : Len(wakes'[d]) <= WAKE_CAPACITY
      BY <1>2, <2>1, <2>2, ReceiptsType, WakesBounded DEF StoreInv, StoreTypeOK
    <2>4. /\ session \in [Conns -> {"new", "open", "closed"}]
          /\ listening \in [Conns -> Seq(Tags)]
          /\ wakes \in [Conns -> Seq(Wake)]
          /\ outbox \in [Conns -> SUBSET Stored]
          /\ received \in [Conns -> SUBSET Stored]
          /\ from \in Seq(Conns)
          /\ sweeper \in {"idle", "save"}
      BY <2>1 DEF TypeOK
    <2>5. ASSUME NEW c \in Conns, NEW parsed \in TagLists, Subscribe(c, parsed)
          PROVE  TypeOK' /\ ListeningBounded'
      <3> DEFINE room == MakeRoomFor(listening[c], Len(parsed))
      <3>1. /\ parsed \in Seq(Tags)
            /\ Len(parsed) <= MAX_TAGS_PER_SUBSCRIPTION
        BY <2>5, TagListsType DEF Subscribe
      <3>2. PICK pick \in Ascending(FirstMentions(room, parsed)) :
               listening' = [listening EXCEPT ![c] = room \o Picked(parsed, pick)]
        BY <2>5 DEF Subscribe
      <3>3. listening[c] \in Seq(Tags) /\ Distinct(listening[c])
        BY <2>1, <2>4 DEF ListeningBounded, Distinct
      <3>4. /\ room \o Picked(parsed, pick) \in Seq(Tags)
            /\ Distinct(room \o Picked(parsed, pick))
            /\ Len(room \o Picked(parsed, pick)) <= MAX_TAGS_PER_CONNECTION
        BY <3>1, <3>3, SubscribedList
      <3> HIDE DEF room
      <3>5. listening' \in [Conns -> Seq(Tags)] /\ ListeningBounded'
        BY <2>1, <3>2, <3>4, ListeningReplaced
      <3>6. /\ outbox' \in [Conns -> SUBSET Stored]
            /\ UNCHANGED <<session, wakes, received, from, sweeper>>
        BY <2>3, <2>4, <2>5 DEF Subscribe
      <3> QED
        BY <2>3, <2>4, <3>5, <3>6 DEF TypeOK
    <2>6. ASSUME NEW c \in Conns, NEW tags \in SUBSET Tags, Unsubscribe(c, tags)
          PROVE  TypeOK' /\ ListeningBounded'
      <3>1. PICK pick \in Ascending(Without(listening[c], tags)) :
               listening' = [listening EXCEPT ![c] = Picked(@, pick)]
        BY <2>6 DEF Unsubscribe
      <3>2. listening' = [listening EXCEPT ![c] = Picked(listening[c], pick)]
        BY <3>1
      <3>3. listening[c] \in Seq(Tags) /\ Distinct(listening[c])
        BY <2>1, <2>4 DEF ListeningBounded, Distinct
      <3>4. /\ Picked(listening[c], pick) \in Seq(Tags)
            /\ Distinct(Picked(listening[c], pick))
            /\ Len(Picked(listening[c], pick)) <= Len(listening[c])
        BY <3>3, UnsubscribedList
      <3>5. Len(Picked(listening[c], pick)) <= MAX_TAGS_PER_CONNECTION
        <4>1. Len(listening[c]) <= MAX_TAGS_PER_CONNECTION
          BY <2>1 DEF ListeningBounded
        <4>2. /\ Len(listening[c]) \in Nat
              /\ Len(Picked(listening[c], pick)) \in Nat
              /\ MAX_TAGS_PER_CONNECTION \in Nat
          BY <3>3, <3>4, SessionAssumption
        <4> QED
          BY <3>4, <4>1, <4>2
      <3>6. listening' \in [Conns -> Seq(Tags)] /\ ListeningBounded'
        BY <2>1, <3>2, <3>4, <3>5, ListeningReplaced
      <3>7. UNCHANGED <<session, wakes, outbox, received, from, sweeper>>
        BY <2>6 DEF Unsubscribe
      <3> QED
        BY <2>3, <2>4, <3>6, <3>7 DEF TypeOK
    <2>7. ASSUME UNCHANGED <<session, listening, wakes, outbox, received, from, sweeper>>
          PROVE  TypeOK' /\ ListeningBounded'
      BY <2>1, <2>3, <2>4, <2>7, ListeningKept DEF TypeOK
    <2>8. ASSUME NEW c \in Conns, NEW e \in Envelope, NEW l \in Limits, Deposit(c, e, l)
          PROVE  TypeOK' /\ ListeningBounded'
      <3> DEFINE event == [tag |-> e.tag, from |-> c]
      <3>1. event \in Wake
        BY DEF Wake, Envelope
      <3>2. wakes' = [d \in Conns |-> IF session[d] = "open" THEN Offer(wakes[d], event)
                                      ELSE wakes[d]]
        BY <2>8 DEF Deposit, Broadcast
      <3> HIDE DEF event
      <3>3. wakes' \in [Conns -> Seq(Wake)]
        BY <2>1, <2>4, <3>1, <3>2, OfferType DEF TypeOK
      <3>4. /\ from' \in Seq(Conns)
            /\ UNCHANGED <<session, listening, outbox, received, sweeper>>
        BY <2>4, <2>8 DEF Deposit
      <3> QED
        BY <2>1, <2>3, <2>4, <3>3, <3>4, ListeningKept DEF TypeOK
    <2>9. ASSUME NEW c \in Conns, ReceiveWake(c)
          PROVE  TypeOK' /\ ListeningBounded'
      <3>1. wakes[c] \in Seq(Wake) /\ wakes[c] # <<>>
        BY <2>4, <2>9 DEF ReceiveWake
      <3>2. wakes' \in [Conns -> Seq(Wake)]
        <4>1. Tail(wakes[c]) \in Seq(Wake)
          BY <3>1
        <4>2. wakes' = [wakes EXCEPT ![c] = Tail(wakes[c])]
          BY <2>9 DEF ReceiveWake
        <4> QED
          BY <2>4, <4>1, <4>2
      <3>3. outbox' = outbox \/ outbox' = [outbox EXCEPT ![c] = served']
        BY <2>9 DEF ReceiveWake
      <3>4. outbox' \in [Conns -> SUBSET Stored]
        BY <2>3, <2>4, <3>3
      <3>5. UNCHANGED <<session, listening, received, from, sweeper>>
        BY <2>9 DEF ReceiveWake
      <3> QED
        BY <2>1, <2>3, <2>4, <3>2, <3>4, <3>5, ListeningKept DEF TypeOK
    <2>10. ASSUME NEW c \in Conns, Send(c)
           PROVE  TypeOK' /\ ListeningBounded'
      <3>1. PICK s \in outbox[c] :
               /\ outbox' = [outbox EXCEPT ![c] = @ \ {s}]
               /\ received' = [received EXCEPT ![c] = @ \union {s}]
        BY <2>10 DEF Send
      <3>2. s \in Stored
        BY <2>4
      <3>3. outbox' \in [Conns -> SUBSET Stored] /\ received' \in [Conns -> SUBSET Stored]
        BY <2>4, <3>1, <3>2
      <3>4. UNCHANGED <<session, listening, wakes, from, sweeper>>
        BY <2>10 DEF Send
      <3> QED
        BY <2>1, <2>3, <2>4, <3>3, <3>4, ListeningKept DEF TypeOK
    <2>11. ASSUME NEW c \in Conns, Connect(c)
           PROVE  TypeOK' /\ ListeningBounded'
      BY <2>1, <2>3, <2>4, <2>11, ListeningKept DEF Connect, TypeOK
    <2>12. <<>> \in Seq(Tags) /\ <<>> \in Seq(Wake) /\ Distinct(<<>>)
             /\ Len(<<>>) <= MAX_TAGS_PER_CONNECTION
      BY SessionAssumption DEF Distinct
    <2>13. ASSUME NEW c \in Conns, Disconnect(c)
           PROVE  TypeOK' /\ ListeningBounded'
      <3>1. listening' = [listening EXCEPT ![c] = <<>>]
        BY <2>13 DEF Disconnect
      <3>2. listening' \in [Conns -> Seq(Tags)] /\ ListeningBounded'
        BY <2>1, <2>12, <3>1, ListeningReplaced
      <3>3. /\ session' \in [Conns -> {"new", "open", "closed"}]
            /\ wakes' \in [Conns -> Seq(Wake)]
            /\ outbox' \in [Conns -> SUBSET Stored]
            /\ UNCHANGED <<received, from, sweeper>>
        BY <2>4, <2>12, <2>13 DEF Disconnect
      <3> QED
        BY <2>3, <2>4, <3>2, <3>3 DEF TypeOK
    <2>14. ASSUME SweeperTick
           PROVE  TypeOK' /\ ListeningBounded'
      BY <2>1, <2>3, <2>4, <2>14, ListeningKept DEF SweeperTick, TypeOK
    <2>15. ASSUME SaveMailbox
           PROVE  TypeOK' /\ ListeningBounded'
      BY <2>1, <2>3, <2>4, <2>15, ListeningKept DEF SaveMailbox, TypeOK
    <2>16. ASSUME Restart
           PROVE  TypeOK' /\ ListeningBounded'
      <3>1. /\ session' \in [Conns -> {"new", "open", "closed"}]
            /\ listening' \in [Conns -> Seq(Tags)]
            /\ wakes' \in [Conns -> Seq(Wake)]
            /\ outbox' \in [Conns -> SUBSET Stored]
            /\ sweeper' = "idle"
            /\ UNCHANGED <<received, from>>
        BY <2>4, <2>12, <2>16 DEF Restart
      <3>2. \A d \in Conns : listening'[d] = <<>>
        BY <2>16 DEF Restart
      <3>3. ListeningBounded'
        BY <2>12, <3>2 DEF ListeningBounded, Distinct
      <3> QED
        BY <2>3, <2>4, <3>1, <3>3 DEF TypeOK
    <2>17. ASSUME UNCHANGED vars
           PROVE  TypeOK' /\ ListeningBounded'
      BY <2>7, <2>17 DEF vars, sessionVars
    <2>18. ASSUME NEW c \in Conns,
                  NEW digests \in SUBSET {Digest(e) : e \in Envelope},
                  Collected(c, digests)
           PROVE  TypeOK' /\ ListeningBounded'
      BY <2>7, <2>18 DEF Collected
    <2>19. ASSUME Clock
           PROVE  TypeOK' /\ ListeningBounded'
      BY <2>7, <2>19 DEF Clock
    <2>20. TypeOK' /\ ListeningBounded'
      BY <1>2, <2>5, <2>6, <2>8, <2>9, <2>10, <2>11, <2>13, <2>14, <2>15,
         <2>16, <2>17, <2>18, <2>19 DEF Next, Request
    <2> QED
      BY <2>2, <2>20 DEF ServerInv
  <1> QED
    BY <1>1, <1>2

-----------------------------------------------------------------------------
(* A subscription holds what it asked for.                                 *)

LEMMA LeastExists ==
    ASSUME NEW S \in SUBSET Nat, S # {}
    PROVE  \E m \in S : \A k \in S : m <= k
  <1> DEFINE R == OpToRel(<, Nat)
  <1>1. IsWellFoundedOn(R, Nat)
    BY NatLessThanWellFounded
  <1> HIDE DEF R
  <1>2. PICK m \in S : \A k \in S : ~(<<k, m>> \in R)
    BY <1>1, WFMin
  <1>3. \A k \in S : ~(k < m)
    BY <1>2 DEF R, OpToRel
  <1> QED
    BY <1>3

\* Listing a set of positions in ascending order leaves none of them out.
LEMMA AscendingIsOnto ==
    ASSUME NEW n \in Nat, NEW P \in SUBSET (1..n), NEW pick \in Ascending(P)
    PROVE  \A p \in P : \E k \in 1..Len(pick) : pick[k] = p
  <1>1. IsFiniteSet(P) /\ Cardinality(P) \in Nat
    <2>1. IsFiniteSet(1..n)
      <3>1. 1 \in Int /\ n \in Int
        OBVIOUS
      <3> QED BY <3>1, FS_Interval
    <2> QED BY <2>1, FS_Subset, FS_CardinalityType
  <1> DEFINE K == 1..Cardinality(P)
  <1>2. IsFiniteSet(K) /\ Cardinality(K) = Cardinality(P)
    <2>1. 1 \in Int /\ Cardinality(P) \in Int
      BY <1>1
    <2>2. IsFiniteSet(K) /\ Cardinality(K) = IF 1 > Cardinality(P) THEN 0 ELSE Cardinality(P) - 1 + 1
      BY <2>1, FS_Interval
    <2> QED BY <1>1, <2>2
  <1>3. /\ pick \in [K -> P]
        /\ \A k, m \in K : k < m => pick[k] < pick[m]
    BY DEF Ascending
  <1>4. Len(pick) = Cardinality(P)
    BY <1>1, <1>3
  <1>5. \A k, m \in K : pick[k] = pick[m] => k = m
    <2> SUFFICES ASSUME NEW k \in K, NEW m \in K, pick[k] = pick[m], k # m PROVE FALSE
      OBVIOUS
    <2>1. k \in Nat /\ m \in Nat /\ pick[k] \in Nat /\ pick[m] \in Nat
      <3>1. k \in Nat /\ m \in Nat
        BY <1>1
      <3>2. pick[k] \in 1..n /\ pick[m] \in 1..n
        BY <1>3
      <3> QED BY <3>1, <3>2
    <2>2. k < m \/ m < k
      BY <2>1
    <2> QED BY <1>3, <2>1, <2>2
  <1> HIDE DEF K
  <1>6. pick \in Injection(K, P)
    BY <1>3, <1>5 DEF Injection, IsInjective
  <1>7. pick \in Surjection(K, P)
    BY <1>1, <1>2, <1>6, FS_Injection
  <1> QED
    BY <1>4, <1>7 DEF Surjection, K

\* Whatever was trimmed to make room, every tag of the request is listened on.
LEMMA SubscribedIsListened ==
    ASSUME NEW room \in Seq(Tags), NEW parsed \in Seq(Tags),
           NEW pick \in Ascending(FirstMentions(room, parsed))
    PROVE  TagsOf(parsed) \subseteq TagsOf(room \o Picked(parsed, pick))
  <1> DEFINE P == FirstMentions(room, parsed)
             more == Picked(parsed, pick)
  <1>1. P \in SUBSET (1..Len(parsed)) /\ Len(parsed) \in Nat
    BY DEF FirstMentions
  <1>2. /\ more \in Seq(Tags) /\ Len(more) = Len(pick)
        /\ \A k \in 1..Len(pick) : more[k] = parsed[pick[k]]
    BY <1>1, PickedType
  <1>3. \A p \in P : \E k \in 1..Len(pick) : pick[k] = p
    BY <1>1, AscendingIsOnto
  <1> HIDE DEF more
  <1>4. /\ Len(room) \in Nat /\ Len(more) \in Nat
        /\ Len(room \o more) = Len(room) + Len(more)
        /\ \A i \in 1..Len(room) : (room \o more)[i] = room[i]
        /\ \A i \in 1..Len(more) : (room \o more)[Len(room) + i] = more[i]
    BY <1>2
  <1> SUFFICES ASSUME NEW i \in 1..Len(parsed)
               PROVE  \E j \in 1..Len(room \o more) : (room \o more)[j] = parsed[i]
    BY DEF TagsOf, more
  <1>5. CASE parsed[i] \in TagsOf(room)
    BY <1>4, <1>5 DEF TagsOf
  <1>6. CASE parsed[i] \notin TagsOf(room)
    <2> DEFINE S == {j \in 1..Len(parsed) : parsed[j] = parsed[i]}
    <2>1. PICK m \in S : \A k \in S : m <= k
      <3>1. S \in SUBSET Nat /\ S # {}
        BY <1>1
      <3> HIDE DEF S
      <3> QED BY <3>1, LeastExists
    <2>2. m \in P
      <3>1. ASSUME NEW j \in 1..(m - 1), parsed[j] = parsed[m] PROVE FALSE
        BY <1>1, <2>1, <3>1
      <3> QED BY <1>6, <2>1, <3>1 DEF FirstMentions
    <2>3. PICK k \in 1..Len(pick) : pick[k] = m
      BY <1>3, <2>2
    <2>4. more[k] = parsed[i]
      BY <1>2, <2>1, <2>3
    <2>5. Len(room) + k \in 1..Len(room \o more)
      BY <1>2, <1>4, <2>3
    <2> QED BY <1>2, <1>4, <2>4, <2>5
  <1> QED BY <1>5, <1>6

-----------------------------------------------------------------------------
(* The theorems.                                                           *)

\* The server's state keeps its types, and no session's wake channel holds more than
\* its capacity, through any requests, wakes and restarts.
THEOREM ServerTypes == Spec => []TypeOK
  <1>1. ServerInv => TypeOK
    BY DEF ServerInv
  <1> QED
    BY <1>1, ServerInvInductive, PTL DEF Spec

\* No connection ever holds more tags than the cap or one tag twice, however it
\* subscribes and unsubscribes.
THEOREM ServerSafe == Spec => []ListeningBounded
  <1>1. ServerInv => ListeningBounded
    BY DEF ServerInv
  <1> QED
    BY <1>1, ServerInvInductive, PTL DEF Spec

\* What a session has taken or peeked for its client lies under tags it still
\* listens on, whatever make_room_for dropped and whatever wakes came late.
THEOREM OutboxCanBeAcknowledged == Spec => []OutboxUnderListenedTag
  <1>1. Init => OutboxUnderListenedTag
    BY DEF Init, OutboxUnderListenedTag
  <1>2. ASSUME ServerInv, OutboxUnderListenedTag, [Next]_vars
        PROVE  OutboxUnderListenedTag'
    <2>1. /\ session \in [Conns -> {"new", "open", "closed"}]
          /\ listening \in [Conns -> Seq(Tags)]
          /\ outbox \in [Conns -> SUBSET Stored]
      BY <1>2 DEF ServerInv, TypeOK
    <2> USE <1>2 DEF OutboxUnderListenedTag, ListensOn
    <2>2. ASSUME UNCHANGED <<session, listening, outbox>>
          PROVE  OutboxUnderListenedTag'
      BY <2>2
    <2>3. ASSUME NEW c \in Conns, NEW parsed \in TagLists, Subscribe(c, parsed)
          PROVE  OutboxUnderListenedTag'
      <3> DEFINE room == MakeRoomFor(listening[c], Len(parsed))
      <3>1. parsed \in Seq(Tags)
        BY SessionAssumption DEF TagLists
      <3>2. Len(parsed) \in Nat /\ Len(parsed) <= MAX_TAGS_PER_CONNECTION
        BY <2>3, <3>1, SessionAssumption DEF Subscribe
      <3>3. room \in Seq(Tags)
        BY <2>1, <3>2, MakeRoomForType DEF ServerInv, ListeningBounded, Distinct
      <3>4. PICK pick \in Ascending(FirstMentions(room, parsed)) :
               listening' = [listening EXCEPT ![c] = room \o Picked(parsed, pick)]
        BY <2>3 DEF Subscribe
      <3> HIDE DEF room
      <3>5. TagsOf(parsed) \subseteq TagsOf(listening'[c])
        BY <2>1, <3>1, <3>3, <3>4, SubscribedIsListened
      <3>6. /\ outbox' = [outbox EXCEPT ![c] = served']
            /\ \A s \in served' : s.envelope.tag \in TagsOf(parsed)
            /\ session' = session /\ session[c] = "open"
        BY <2>3 DEF Subscribe, PeekMany, Slot, Live, Idle
      <3>7. \A d \in Conns \ {c} : outbox'[d] = outbox[d] /\ listening'[d] = listening[d]
        BY <2>1, <3>4, <3>6
      <3>8. outbox'[c] = served'
        BY <2>1, <3>6
      <3> QED BY <3>5, <3>6, <3>7, <3>8
    <2>4. ASSUME NEW c \in Conns, NEW tags \in SUBSET Tags, Unsubscribe(c, tags)
          PROVE  OutboxUnderListenedTag'
      <3>1. outbox[c] = {} /\ outbox' = outbox /\ session' = session
        BY <2>4 DEF Unsubscribe, Idle
      <3>2. \A d \in Conns \ {c} : listening'[d] = listening[d]
        BY <2>1, <2>4 DEF Unsubscribe
      <3> QED BY <3>1, <3>2
    <2>5. ASSUME NEW c \in Conns, ReceiveWake(c)
          PROVE  OutboxUnderListenedTag'
      <3> DEFINE tag == Head(wakes[c]).tag
      <3>1. session' = session /\ listening' = listening /\ session[c] = "open"
        BY <2>5 DEF ReceiveWake, Idle
      <3>2. CASE outbox' = outbox
        BY <3>1, <3>2
      <3>3. CASE outbox' # outbox
        <4>1. /\ tag \in TagsOf(listening[c])
              /\ Collect(tag)
              /\ outbox' = [outbox EXCEPT ![c] = served']
          BY <2>5, <3>3 DEF ReceiveWake
        <4>2. \A s \in served' : s.envelope.tag = tag
          BY <4>1 DEF Collect, Slot, Live
        <4>3. outbox'[c] = served' /\ \A d \in Conns \ {c} : outbox'[d] = outbox[d]
          BY <2>1, <4>1
        <4> QED BY <3>1, <4>1, <4>2, <4>3
      <3> QED BY <3>2, <3>3
    <2>6. ASSUME NEW c \in Conns, Send(c)
          PROVE  OutboxUnderListenedTag'
      <3>1. \A d \in Conns : outbox'[d] \subseteq outbox[d]
        BY <2>1, <2>6 DEF Send
      <3>2. session' = session /\ listening' = listening
        BY <2>6 DEF Send
      <3> QED BY <3>1, <3>2
    <2>7. ASSUME NEW c \in Conns, Connect(c)
          PROVE  OutboxUnderListenedTag'
      <3>1. outbox[c] = {} /\ outbox' = outbox /\ listening' = listening
        BY <2>7 DEF Connect
      <3>2. \A d \in Conns \ {c} : session'[d] = session[d]
        BY <2>1, <2>7 DEF Connect
      <3> QED BY <3>1, <3>2
    <2>8. ASSUME NEW c \in Conns, Disconnect(c)
          PROVE  OutboxUnderListenedTag'
      <3>1. outbox'[c] = {}
        BY <2>1, <2>8 DEF Disconnect
      <3>2. \A d \in Conns \ {c} : /\ outbox'[d] = outbox[d] /\ session'[d] = session[d]
                                   /\ listening'[d] = listening[d]
        BY <2>1, <2>8 DEF Disconnect
      <3> QED BY <3>1, <3>2
    <2>9. ASSUME Restart
          PROVE  OutboxUnderListenedTag'
      BY <2>9 DEF Restart
    <2>10. ASSUME NEW c \in Conns, NEW e \in Envelope, NEW l \in Limits, Deposit(c, e, l)
           PROVE  OutboxUnderListenedTag'
      BY <2>2, <2>10 DEF Deposit
    <2>11. ASSUME NEW c \in Conns,
                  NEW digests \in SUBSET {Digest(e) : e \in Envelope},
                  Collected(c, digests)
           PROVE  OutboxUnderListenedTag'
      BY <2>2, <2>11 DEF Collected, sessionVars
    <2>12. ASSUME SweeperTick \/ SaveMailbox \/ Clock \/ UNCHANGED vars
           PROVE  OutboxUnderListenedTag'
      BY <2>2, <2>12 DEF SweeperTick, SaveMailbox, Clock, sessionVars, vars
    <2> QED
      BY <1>2, <2>3, <2>4, <2>5, <2>6, <2>7, <2>8, <2>9, <2>10, <2>11, <2>12
         DEF Next, Request
  <1> QED
    BY <1>1, <1>2, ServerInvInductive, PTL DEF Spec

\* A live envelope leaves the store only displaced by a newer deposit under its
\* tag, on the receipt of a connection that itself listens on the tag, into the
\* hands of a session that listens on it, or because the process stopped.
THEOREM NothingLeavesUnasked == Spec => RemovalHasACause
  <1> DEFINE Cause ==
         \A s \in held \ held' :
            \/ Expired(s, now)
            \/ MakesWay(s)
            \/ \E c \in Conns : Receipted(s, c) \/ TakenFor(s, c)
            \/ \A c \in Conns : session'[c] # "open"
  <1>1. ASSUME ServerInv, Next
        PROVE  Cause
    <2> SUFFICES ASSUME NEW s \in held \ held' PROVE
            \/ Expired(s, now)
            \/ MakesWay(s)
            \/ \E c \in Conns : Receipted(s, c) \/ TakenFor(s, c)
            \/ \A c \in Conns : session'[c] # "open"
      OBVIOUS
    <2>1. ASSUME NEW c \in Conns, NEW e \in Envelope, NEW l \in Limits, Deposit(c, e, l)
          PROVE  MakesWay(s)
      <3> DEFINE new == [n |-> arrivals, envelope |-> e, deposited_at |-> now,
                         ttl_seconds |-> l.ttl_seconds]
                 gone == Displaced(Slot(e.tag), Ceiling(l))
      <3>1. held' = (held \ gone) \union {new}
        BY <2>1 DEF Deposit, DepositWith
      <3>2. \A r \in held : r.n \in Nat /\ r.n < arrivals
        BY <1>1 DEF ServerInv, StoreInv, StoreTypeOK, Stored, ArrivalOrder
      <3>3. new.n = arrivals /\ new.envelope = e
        OBVIOUS
      <3>4. new \notin held
        BY <1>1, <3>2, <3>3 DEF ServerInv, StoreInv, StoreTypeOK
      <3>5. gone \subseteq Slot(e.tag)
        BY DisplacedInSlot
      <3> HIDE DEF new, gone
      <3>6. s \in gone
        BY <3>1
      <3>7. s.envelope.tag = e.tag
        BY <3>5, <3>6 DEF Slot
      <3>8. arrivals > s.n
        BY <1>1, <3>2 DEF ServerInv, StoreInv, StoreTypeOK
      <3> QED
        BY <3>1, <3>3, <3>4, <3>7, <3>8 DEF MakesWay
    <2>2. ASSUME NEW c \in Conns, ReceiveWake(c), ~Expired(s, now)
          PROVE  TakenFor(s, c)
      <3> DEFINE tag == Head(wakes[c]).tag
      <3>1. ~StoreIdle
        BY DEF StoreIdle, PeekMany
      <3>2. /\ Collect(tag) /\ tag \in TagsOf(listening[c])
            /\ outbox' = [outbox EXCEPT ![c] = served']
            /\ session[c] = "open" /\ outbox[c] = {}
        BY <2>2, <3>1 DEF ReceiveWake, Idle
      <3>3. s \in Slot(tag) /\ s \in served'
        BY <2>2, <3>2 DEF Collect, Live
      <3>4. outbox'[c] = served'
        BY <1>1, <3>2 DEF ServerInv, TypeOK
      <3> QED
        BY <3>2, <3>3, <3>4 DEF Slot, TakenFor, ListensOn
    <2>3. ASSUME NEW c \in Conns,
                 NEW digests \in SUBSET {Digest(e) : e \in Envelope},
                 Collected(c, digests)
          PROVE  Receipted(s, c)
      <3>1. s \in Acknowledged(TagsOf(listening[c]), digests)
        BY <2>3 DEF Collected, RemoveAcknowledged
      <3>2. <<s.n, c>> \in receipts'
        BY <2>3, <3>1 DEF Collected
      <3> QED
        BY <2>3, <3>1, <3>2 DEF Collected, Idle, Acknowledged, ListensOn, Receipted
    <2>4. ASSUME SweeperTick
          PROVE  Expired(s, now)
      BY <2>4 DEF SweeperTick, Sweep, Live
    <2>5. ASSUME Restart
          PROVE  \A c \in Conns : session'[c] # "open"
      BY <2>5 DEF Restart
    <2>6. ASSUME NEW c \in Conns, NEW parsed \in TagLists
          PROVE  ~Subscribe(c, parsed)
      BY DEF Subscribe, PeekMany
    <2>7. ASSUME NEW c \in Conns
          PROVE  /\ ~Connect(c) /\ ~Send(c) /\ ~Disconnect(c)
                 /\ \A tags \in SUBSET Tags : ~Unsubscribe(c, tags)
      BY DEF Connect, Send, Disconnect, Unsubscribe, StoreIdle, PeekMany
    <2>8. ~SaveMailbox /\ ~Clock
      BY DEF SaveMailbox, Snapshot, StoreIdle, PeekMany, Clock, SetClock
    <2> QED
      BY <1>1, <2>1, <2>2, <2>3, <2>4, <2>5, <2>6, <2>7, <2>8 DEF Next, Request
  <1>2. ServerInv /\ [Next]_vars => [Cause]_vars
    BY <1>1
  <1> QED
    BY <1>2, ServerInvInductive, PTL DEF Spec, RemovalHasACause
=============================================================================
