------------------------- MODULE WakeRegistryProofs --------------------------
(***************************************************************************)
(* Theorems about the wake registry, for every set of tokens, secrets and  *)
(* connections and every value of the two ceilings.                        *)
(***************************************************************************)
EXTENDS WakeRegistry, FiniteSetTheorems, TLAPS

\* The rows of a token in any table, in memory or on disk.
Rows(table, t) == {r \in table : r.token = t}

\* A table under both ceilings.
UnderCeilings(table) ==
    /\ IsFiniteSet(table)
    /\ Cardinality(table) <= MAX_DEVICES
    /\ \A t \in Tokens : Cardinality(Rows(table, t)) <= MAX_ROWS_PER_TOKEN

\* A secret revoked in memory has no row there, and one whose revocation was
\* saved has none on disk either: nobody can save or restore it.
RevocationsStand ==
    \A s \in Secrets :
        /\ revoked[s] # "no" => \A r \in devices : r.hash # s
        /\ revoked[s] = "disk" => \A r \in disk : r.hash # s

\* The inductive invariant: what is on disk keeps the ceilings as well, for a
\* restart makes it the table.
WakeInv ==
    /\ WakeTypeOK
    /\ UnderCeilings(devices)
    /\ UnderCeilings(disk)
    /\ RevocationsStand

-----------------------------------------------------------------------------
(* Tables.                                                                 *)

\* An element more makes a finite set larger by one at most.
LEMMA OneMore ==
    ASSUME NEW S, IsFiniteSet(S), NEW x
    PROVE  /\ IsFiniteSet(S \union {x})
           /\ Cardinality(S) \in Nat /\ Cardinality(S \union {x}) \in Nat
           /\ Cardinality(S \union {x}) <= Cardinality(S) + 1
  <1>1. Cardinality(S) \in Nat
    BY FS_CardinalityType
  <1>2. /\ IsFiniteSet(S \union {x})
        /\ Cardinality(S \union {x}) = IF x \in S THEN Cardinality(S) ELSE Cardinality(S) + 1
    BY FS_AddElement
  <1> QED BY <1>1, <1>2

\* Replacing some of a table's elements by one does not make it larger.
LEMMA ReplacedIsNoLarger ==
    ASSUME NEW S, IsFiniteSet(S), NEW mine \in SUBSET S, mine # {}, NEW row
    PROVE  /\ IsFiniteSet((S \ mine) \union {row})
           /\ Cardinality((S \ mine) \union {row}) <= Cardinality(S)
  <1>1. PICK m \in mine : TRUE
    OBVIOUS
  <1>2. /\ IsFiniteSet(S \ {m}) /\ Cardinality(S) \in Nat
        /\ Cardinality(S \ {m}) = Cardinality(S) - 1
    BY <1>1, FS_RemoveElement, FS_CardinalityType
  <1>3. /\ IsFiniteSet((S \ {m}) \union {row})
        /\ Cardinality((S \ {m}) \union {row}) <= Cardinality(S)
        /\ Cardinality((S \ {m}) \union {row}) \in Nat
    <2>1. /\ IsFiniteSet((S \ {m}) \union {row})
          /\ Cardinality((S \ {m}) \union {row}) \in Nat
          /\ Cardinality((S \ {m}) \union {row}) <= Cardinality(S \ {m}) + 1
      BY <1>2, OneMore
    <2> QED BY <1>2, <2>1
  <1>4. (S \ mine) \union {row} \subseteq (S \ {m}) \union {row}
    BY <1>1
  <1>5. /\ IsFiniteSet((S \ mine) \union {row})
        /\ Cardinality((S \ mine) \union {row}) <= Cardinality((S \ {m}) \union {row})
        /\ Cardinality((S \ mine) \union {row}) \in Nat
    BY <1>3, <1>4, FS_Subset, FS_CardinalityType
  <1> QED BY <1>2, <1>3, <1>5

\* A table that loses rows stays under the ceilings.
LEMMA FewerRowsStayUnder ==
    ASSUME NEW S, UnderCeilings(S), NEW T \in SUBSET S
    PROVE  UnderCeilings(T)
  <1>1. IsFiniteSet(T) /\ Cardinality(T) <= MAX_DEVICES
    <2>1. IsFiniteSet(S) /\ Cardinality(S) <= MAX_DEVICES
      BY DEF UnderCeilings
    <2>2. /\ IsFiniteSet(T) /\ Cardinality(T) <= Cardinality(S)
          /\ Cardinality(S) \in Nat /\ Cardinality(T) \in Nat
      BY <2>1, FS_Subset, FS_CardinalityType
    <2> QED BY <2>1, <2>2, WakeAssumption
  <1>2. ASSUME NEW t \in Tokens
        PROVE  Cardinality(Rows(T, t)) <= MAX_ROWS_PER_TOKEN
    <2>1. Rows(T, t) \subseteq Rows(S, t) /\ Rows(S, t) \subseteq S
      BY DEF Rows
    <2>2. IsFiniteSet(Rows(S, t)) /\ Cardinality(Rows(S, t)) <= MAX_ROWS_PER_TOKEN
      BY <2>1, FS_Subset DEF UnderCeilings
    <2>3. /\ Cardinality(Rows(T, t)) <= Cardinality(Rows(S, t))
          /\ Cardinality(Rows(S, t)) \in Nat /\ Cardinality(Rows(T, t)) \in Nat
      BY <2>1, <2>2, FS_Subset, FS_CardinalityType
    <2> QED BY <2>2, <2>3, WakeAssumption
  <1> QED BY <1>1, <1>2 DEF UnderCeilings

\* An empty table is under the ceilings.
LEMMA EmptyIsUnder == UnderCeilings({})
  <1>1. \A t \in Tokens : Rows({}, t) = {}
    BY DEF Rows
  <1> QED BY <1>1, FS_EmptySet, WakeAssumption DEF UnderCeilings

\* A registration adds a row under the ceilings, replaces the caller's own, or
\* does nothing; the table stays under both ceilings.
LEMMA RegisteredIsUnder ==
    ASSUME WakeInv, NEW row \in Device
    PROVE  /\ UnderCeilings(Registered(row))
           /\ Registered(row) \subseteq devices \union {row}
           /\ \A r \in devices \ Registered(row) : r.hash = row.hash
  <1>1. /\ IsFiniteSet(devices) /\ Cardinality(devices) \in Nat
        /\ Cardinality(devices) <= MAX_DEVICES
        /\ \A t \in Tokens : /\ IsFiniteSet(Rows(devices, t))
                             /\ Cardinality(Rows(devices, t)) \in Nat
                             /\ Cardinality(Rows(devices, t)) <= MAX_ROWS_PER_TOKEN
    <2>1. \A t \in Tokens : Rows(devices, t) \subseteq devices
      BY DEF Rows
    <2> QED BY <2>1, FS_Subset, FS_CardinalityType DEF WakeInv, UnderCeilings
  <1>2. row.token \in Tokens /\ RowsOf(row.token) = Rows(devices, row.token)
    BY DEF Device, RowsOf, Rows
  <1>3. CASE Mine(row) # {}
    <2>1. Registered(row) = (devices \ Mine(row)) \union {row}
      BY <1>3 DEF Registered
    <2>2. /\ Mine(row) \subseteq Rows(devices, row.token) /\ Mine(row) \subseteq devices
          /\ \A r \in Mine(row) : r.hash = row.hash /\ r.token = row.token
      BY DEF Mine, RowsOf, Rows
    <2>3. /\ IsFiniteSet(Registered(row))
          /\ Cardinality(Registered(row)) <= Cardinality(devices)
          /\ Cardinality(Registered(row)) \in Nat
      <3>1. /\ IsFiniteSet((devices \ Mine(row)) \union {row})
            /\ Cardinality((devices \ Mine(row)) \union {row}) <= Cardinality(devices)
        BY <1>1, <1>3, <2>2, ReplacedIsNoLarger
      <3> QED BY <2>1, <3>1, FS_CardinalityType
    <2>4. ASSUME NEW t \in Tokens
          PROVE  Cardinality(Rows(Registered(row), t)) <= MAX_ROWS_PER_TOKEN
      <3>1. CASE t = row.token
        <4>1. Rows(Registered(row), t) = (Rows(devices, t) \ Mine(row)) \union {row}
          BY <3>1, <2>1, <2>2 DEF Rows
        <4>2. /\ IsFiniteSet(Rows(Registered(row), t))
              /\ Cardinality(Rows(Registered(row), t)) <= Cardinality(Rows(devices, t))
              /\ Cardinality(Rows(Registered(row), t)) \in Nat
          <5>1. Mine(row) \subseteq Rows(devices, t) /\ IsFiniteSet(Rows(devices, t))
            BY <1>1, <2>2, <3>1
          <5>2. /\ IsFiniteSet((Rows(devices, t) \ Mine(row)) \union {row})
                /\ Cardinality((Rows(devices, t) \ Mine(row)) \union {row})
                     <= Cardinality(Rows(devices, t))
            BY <1>3, <5>1, ReplacedIsNoLarger
          <5> QED BY <4>1, <5>2, FS_CardinalityType
        <4> QED BY <1>1, <4>2, WakeAssumption
      <3>2. CASE t # row.token
        <4>1. Rows(Registered(row), t) = Rows(devices, t)
          BY <3>2, <2>1, <2>2 DEF Rows
        <4> QED BY <1>1, <4>1
      <3> QED BY <3>1, <3>2
    <2>5. Cardinality(Registered(row)) <= MAX_DEVICES
      BY <1>1, <2>3, WakeAssumption
    <2> QED BY <2>1, <2>2, <2>3, <2>4, <2>5 DEF UnderCeilings
  <1>4. CASE /\ Mine(row) = {}
             /\ \/ Cardinality(RowsOf(row.token)) >= MAX_ROWS_PER_TOKEN
                \/ Cardinality(devices) >= MAX_DEVICES
    BY <1>4 DEF Registered, WakeInv
  <1>5. CASE /\ Mine(row) = {}
             /\ ~(Cardinality(RowsOf(row.token)) >= MAX_ROWS_PER_TOKEN)
             /\ ~(Cardinality(devices) >= MAX_DEVICES)
    <2>1. Registered(row) = devices \union {row}
      BY <1>5 DEF Registered
    <2>2. IsFiniteSet(Registered(row)) /\ Cardinality(Registered(row)) <= MAX_DEVICES
      <3>1. /\ IsFiniteSet(devices \union {row})
            /\ Cardinality(devices \union {row}) \in Nat
            /\ Cardinality(devices \union {row}) <= Cardinality(devices) + 1
        BY <1>1, OneMore
      <3> QED BY <1>1, <1>5, <2>1, <3>1, WakeAssumption
    <2>3. ASSUME NEW t \in Tokens
          PROVE  Cardinality(Rows(Registered(row), t)) <= MAX_ROWS_PER_TOKEN
      <3>1. CASE t = row.token
        <4>1. Rows(Registered(row), t) = Rows(devices, t) \union {row}
          BY <3>1, <2>1 DEF Rows
        <4>2. /\ Cardinality(Rows(devices, t) \union {row}) \in Nat
              /\ Cardinality(Rows(devices, t) \union {row}) <= Cardinality(Rows(devices, t)) + 1
          BY <1>1, OneMore
        <4>3. /\ Cardinality(Rows(devices, t)) \in Nat
              /\ Cardinality(Rows(devices, t)) < MAX_ROWS_PER_TOKEN
          BY <1>1, <1>2, <1>5, <3>1, WakeAssumption
        <4> QED BY <4>1, <4>2, <4>3, WakeAssumption
      <3>2. CASE t # row.token
        <4>1. Rows(Registered(row), t) = Rows(devices, t)
          BY <3>2, <2>1 DEF Rows
        <4> QED BY <1>1, <4>1
      <3> QED BY <3>1, <3>2
    <2> QED BY <2>1, <2>2, <2>3 DEF UnderCeilings
  <1> QED BY <1>3, <1>4, <1>5

-----------------------------------------------------------------------------
(* The invariant.                                                          *)

\* What WakeTypeOK says of the table in memory is that it is under the ceilings.
LEMMA TypesFromParts ==
    ASSUME UnderCeilings(devices)',
           (devices \subseteq Device)', (disk \subseteq Device)',
           (asked \in [Handlers -> Secrets \union {NoSecret, None}])',
           (waker \in [phase : {"idle", "calling", "forgot"}, todo : SUBSET Wake,
                       called : SUBSET Wake, dead : SUBSET Wake])',
           (requests \in 0..MaxRequests)', (unkind \in 0..MaxUnkind)',
           (revoked \in [Secrets -> {"no", "memory", "disk"}])'
    PROVE  WakeTypeOK'
  BY DEF WakeTypeOK, UnderCeilings, Rows, RowsOf

\* A registration.
LEMMA RegisterKeeps ==
    ASSUME WakeInv, NEW h \in Handlers, NEW row \in Device, RegisterWake(h, row)
    PROVE  WakeInv'
  <1>1. /\ requests < MaxRequests
        /\ devices' = Registered(row)
        /\ asked' = [asked EXCEPT ![h] = row.hash]
        /\ requests' = requests + 1
        /\ revoked' = [s \in Secrets |-> IF s = row.hash THEN "no" ELSE revoked[s]]
        /\ disk' = disk /\ waker' = waker /\ unkind' = unkind
    BY DEF RegisterWake
  <1>2. row.hash \in Secrets \union {NoSecret}
    BY DEF Device
  <1>3. UnderCeilings(devices') /\ UnderCeilings(disk')
    BY <1>1, RegisteredIsUnder DEF WakeInv
  <1>4. devices' \subseteq Device /\ disk' \subseteq Device
    BY <1>1, RegisteredIsUnder DEF WakeInv, WakeTypeOK
  <1>5. requests' \in 0..MaxRequests /\ unkind' \in 0..MaxUnkind
    BY <1>1, WakeAssumption DEF WakeInv, WakeTypeOK
  <1>6. asked' \in [Handlers -> Secrets \union {NoSecret, None}]
    BY <1>1, <1>2 DEF WakeInv, WakeTypeOK
  <1>7. revoked' \in [Secrets -> {"no", "memory", "disk"}]
    BY <1>1 DEF WakeInv, WakeTypeOK
  <1>8. waker' \in [phase : {"idle", "calling", "forgot"}, todo : SUBSET Wake,
                    called : SUBSET Wake, dead : SUBSET Wake]
    BY <1>1 DEF WakeInv, WakeTypeOK
  <1>9. RevocationsStand'
    BY <1>1, RegisteredIsUnder DEF WakeInv, RevocationsStand
  <1> QED
    BY <1>3, <1>4, <1>5, <1>6, <1>7, <1>8, <1>9, TypesFromParts DEF WakeInv, UnderCeilings, Rows

\* A revocation.
LEMMA RevokeKeeps ==
    ASSUME WakeInv, NEW h \in Handlers, NEW s \in Secrets, RevokeWake(h, s)
    PROVE  WakeInv'
  <1>1. /\ requests < MaxRequests
        /\ devices' = {r \in devices : r.hash # s}
        /\ asked' = [asked EXCEPT ![h] = s]
        /\ requests' = requests + 1
        /\ revoked' = [revoked EXCEPT ![s] = "memory"]
        /\ disk' = disk /\ waker' = waker /\ unkind' = unkind
    BY DEF RevokeWake, Revoked
  <1>2. UnderCeilings(devices') /\ UnderCeilings(disk')
    <2>1. devices' \in SUBSET devices
      BY <1>1
    <2> QED BY <1>1, <2>1, FewerRowsStayUnder DEF WakeInv
  <1>3. /\ devices' \subseteq Device /\ disk' \subseteq Device
        /\ revoked' \in [Secrets -> {"no", "memory", "disk"}]
        /\ asked' \in [Handlers -> Secrets \union {NoSecret, None}]
    BY <1>1 DEF WakeInv, WakeTypeOK
  <1>4. requests' \in 0..MaxRequests /\ unkind' \in 0..MaxUnkind
    BY <1>1, WakeAssumption DEF WakeInv, WakeTypeOK
  <1>5. waker' \in [phase : {"idle", "calling", "forgot"}, todo : SUBSET Wake,
                    called : SUBSET Wake, dead : SUBSET Wake]
    BY <1>1 DEF WakeInv, WakeTypeOK
  <1>6. RevocationsStand'
    <2> SUFFICES ASSUME NEW q \in Secrets
                 PROVE  /\ revoked'[q] # "no" => \A r \in devices' : r.hash # q
                        /\ revoked'[q] = "disk" => \A r \in disk' : r.hash # q
      BY DEF RevocationsStand
    <2>1. CASE q = s
      BY <1>1, <2>1 DEF WakeInv, WakeTypeOK
    <2>2. CASE q # s
      BY <1>1, <2>2 DEF WakeInv, WakeTypeOK, RevocationsStand
    <2> QED BY <2>1, <2>2
  <1> QED
    BY <1>2, <1>3, <1>4, <1>5, <1>6, TypesFromParts DEF WakeInv, UnderCeilings, Rows

\* What a save, by whomever, does to the disk and to the history of revocations.
LEMMA SaveKeeps ==
    ASSUME WakeInv, SaveWake, devices' = devices
    PROVE  /\ UnderCeilings(devices)' /\ UnderCeilings(disk)'
           /\ (devices \subseteq Device)' /\ (disk \subseteq Device)'
           /\ (unkind \in 0..MaxUnkind)'
           /\ (revoked \in [Secrets -> {"no", "memory", "disk"}])'
           /\ RevocationsStand'
  <1>1. CASE /\ disk' = devices
             /\ revoked' = [s \in Secrets |-> IF revoked[s] = "memory" THEN "disk" ELSE revoked[s]]
             /\ unkind' = unkind
    <2>1. UnderCeilings(devices') /\ UnderCeilings(disk')
      BY <1>1 DEF WakeInv
    <2>2. devices' \subseteq Device /\ disk' \subseteq Device /\ unkind' \in 0..MaxUnkind
      BY <1>1 DEF WakeInv, WakeTypeOK
    <2>3. revoked' \in [Secrets -> {"no", "memory", "disk"}]
      BY <1>1 DEF WakeInv, WakeTypeOK
    <2>4. RevocationsStand'
      BY <1>1 DEF WakeInv, WakeTypeOK, RevocationsStand
    <2> QED BY <2>1, <2>2, <2>3, <2>4 DEF UnderCeilings, Rows
  <1>2. CASE unkind < MaxUnkind /\ unkind' = unkind + 1 /\ disk' = disk /\ revoked' = revoked
    <2>1. unkind' \in 0..MaxUnkind
      BY <1>2, WakeAssumption DEF WakeInv, WakeTypeOK
    <2>2. UnderCeilings(devices') /\ UnderCeilings(disk')
      BY <1>2 DEF WakeInv
    <2>3. RevocationsStand'
      BY <1>2 DEF WakeInv, RevocationsStand
    <2>4. /\ devices' \subseteq Device /\ disk' \subseteq Device
          /\ revoked' \in [Secrets -> {"no", "memory", "disk"}]
      BY <1>2 DEF WakeInv, WakeTypeOK
    <2> QED BY <2>1, <2>2, <2>3, <2>4 DEF UnderCeilings, Rows
  <1> QED BY <1>1, <1>2 DEF SaveWake

\* A handler that saves and answers, and the waker's task that saves.
LEMMA SaversKeep ==
    ASSUME WakeInv, WakerSaves \/ \E h \in Handlers : Answer(h)
    PROVE  WakeInv'
  <1>1. /\ SaveWake /\ devices' = devices /\ requests' = requests
        /\ asked' = asked \/ \E h \in Handlers : asked' = [asked EXCEPT ![h] = None]
        /\ waker' = waker \/ waker' = Idle
    BY DEF WakerSaves, Answer
  <1>2. requests' \in 0..MaxRequests
    BY <1>1 DEF WakeInv, WakeTypeOK
  <1>3. asked' \in [Handlers -> Secrets \union {NoSecret, None}]
    BY <1>1 DEF WakeInv, WakeTypeOK
  <1>4. waker' \in [phase : {"idle", "calling", "forgot"}, todo : SUBSET Wake,
                    called : SUBSET Wake, dead : SUBSET Wake]
    BY <1>1 DEF WakeInv, WakeTypeOK, Idle
  <1> QED BY <1>1, <1>2, <1>3, <1>4, SaveKeeps, TypesFromParts DEF WakeInv

\* The waker's task: a tick, a call, and forgetting the dead.
LEMMA WakerKeeps ==
    ASSUME WakeInv, WakeTick \/ Forget \/ \E w \in Wake : Call(w)
    PROVE  WakeInv'
  <1>1. /\ devices' \subseteq devices /\ disk' = disk /\ asked' = asked
        /\ requests' = requests /\ unkind' = unkind /\ revoked' = revoked
    BY DEF WakeTick, Forget, Call
  <1>2. UnderCeilings(devices') /\ UnderCeilings(disk')
    BY <1>1, FewerRowsStayUnder DEF WakeInv
  <1>3. waker' \in [phase : {"idle", "calling", "forgot"}, todo : SUBSET Wake,
                    called : SUBSET Wake, dead : SUBSET Wake]
    <2>1. CASE WakeTick
      <3>1. ToWake \subseteq Wake
        BY DEF ToWake, WakeInv, WakeTypeOK, Device, Wake
      <3> QED BY <2>1, <3>1 DEF WakeTick
    <2>2. CASE Forget
      BY <2>2 DEF Forget, Idle, WakeInv, WakeTypeOK
    <2>3. ASSUME NEW w \in Wake, Call(w)
          PROVE  waker' \in [phase : {"idle", "calling", "forgot"}, todo : SUBSET Wake,
                             called : SUBSET Wake, dead : SUBSET Wake]
      <3>1. PICK made \in SUBSET {w}, gone \in SUBSET {w} :
               waker' = [waker EXCEPT !.todo = @ \ {w},
                                      !.called = @ \union made,
                                      !.dead = @ \union gone]
        BY <2>3 DEF Call
      <3>2. /\ waker.todo \ {w} \subseteq Wake
            /\ waker.called \union made \subseteq Wake
            /\ waker.dead \union gone \subseteq Wake
        BY DEF WakeInv, WakeTypeOK
      <3> QED BY <3>1, <3>2 DEF WakeInv, WakeTypeOK
    <2> QED BY <2>1, <2>2, <2>3
  <1>4. RevocationsStand'
    BY <1>1 DEF WakeInv, RevocationsStand
  <1>5. /\ devices' \subseteq Device /\ disk' \subseteq Device
        /\ asked' \in [Handlers -> Secrets \union {NoSecret, None}]
        /\ requests' \in 0..MaxRequests /\ unkind' \in 0..MaxUnkind
        /\ revoked' \in [Secrets -> {"no", "memory", "disk"}]
    BY <1>1 DEF WakeInv, WakeTypeOK
  <1> QED
    BY <1>2, <1>3, <1>4, <1>5, TypesFromParts DEF WakeInv, UnderCeilings, Rows

\* A restart from what is on disk.
LEMMA RestartKeeps ==
    ASSUME WakeInv, Restart
    PROVE  WakeInv'
  <1>1. /\ unkind < MaxUnkind /\ unkind' = unkind + 1
        /\ devices' = disk /\ disk' = disk /\ requests' = requests
        /\ asked' = [h \in Handlers |-> None]
        /\ waker' = Idle
        /\ revoked' = [s \in Secrets |-> IF revoked[s] = "memory" THEN "no" ELSE revoked[s]]
    BY DEF Restart
  <1>2. UnderCeilings(devices') /\ UnderCeilings(disk')
    BY <1>1 DEF WakeInv
  <1>3. RevocationsStand'
    BY <1>1 DEF WakeInv, WakeTypeOK, RevocationsStand
  <1>4. /\ devices' \subseteq Device /\ disk' \subseteq Device
        /\ asked' \in [Handlers -> Secrets \union {NoSecret, None}]
        /\ requests' \in 0..MaxRequests
    BY <1>1 DEF WakeInv, WakeTypeOK
  <1>5. unkind' \in 0..MaxUnkind
    BY <1>1, WakeAssumption DEF WakeInv, WakeTypeOK
  <1>6. revoked' \in [Secrets -> {"no", "memory", "disk"}]
    BY <1>1 DEF WakeInv, WakeTypeOK
  <1>7. waker' \in [phase : {"idle", "calling", "forgot"}, todo : SUBSET Wake,
                    called : SUBSET Wake, dead : SUBSET Wake]
    BY <1>1 DEF Idle
  <1> QED
    BY <1>2, <1>3, <1>4, <1>5, <1>6, <1>7, TypesFromParts DEF WakeInv, UnderCeilings, Rows

\* The initial state satisfies the invariant and every step keeps it.
LEMMA WakeInductive == Spec => []WakeInv
  <1>1. Init => WakeInv
    <2> SUFFICES ASSUME Init PROVE WakeInv
      OBVIOUS
    <2>1. UnderCeilings(devices) /\ UnderCeilings(disk)
      BY EmptyIsUnder DEF Init
    <2>2. RevocationsStand
      BY DEF Init, RevocationsStand
    <2>3. WakeTypeOK
      BY <2>1, WakeAssumption DEF Init, WakeTypeOK, UnderCeilings, Rows, RowsOf, Idle
    <2> QED BY <2>1, <2>2, <2>3 DEF WakeInv
  <1>2. WakeInv /\ [Next]_vars => WakeInv'
    <2> SUFFICES ASSUME WakeInv, [Next]_vars PROVE WakeInv'
      OBVIOUS
    <2>1. CASE UNCHANGED vars
      BY <2>1 DEF vars, WakeInv, WakeTypeOK, RowsOf, UnderCeilings, Rows, RevocationsStand
    <2>2. CASE \E h \in Handlers : \E row \in Device : RegisterWake(h, row)
      BY <2>2, RegisterKeeps
    <2>3. CASE \E h \in Handlers : \E s \in Secrets : RevokeWake(h, s)
      BY <2>3, RevokeKeeps
    <2> QED
      BY <2>1, <2>2, <2>3, SaversKeep, WakerKeeps, RestartKeeps DEF Next, Waking
  <1> QED
    BY <1>1, <1>2, PTL DEF Spec

\* What the waker holds to be gone was said by a service that says such things.
GoneIsBelieved == \A w \in waker.dead : MayCallGone(w)

LEMMA OnlyBelievable == Spec => []GoneIsBelieved
  <1>1. Init => GoneIsBelieved
    BY DEF Init, Idle, GoneIsBelieved
  <1>2. WakeInv /\ GoneIsBelieved /\ [Next]_vars => GoneIsBelieved'
    <2> SUFFICES ASSUME WakeInv, GoneIsBelieved, [Next]_vars PROVE GoneIsBelieved'
      OBVIOUS
    <2>1. ASSUME NEW w \in Wake, Call(w) PROVE GoneIsBelieved'
      <3>1. PICK made \in SUBSET {w}, gone \in SUBSET {w} :
               /\ gone \subseteq {v \in made : MayCallGone(v)}
               /\ waker' = [waker EXCEPT !.todo = @ \ {w},
                                         !.called = @ \union made,
                                         !.dead = @ \union gone]
        BY <2>1 DEF Call
      <3>2. waker'.dead = waker.dead \union gone
        BY <3>1 DEF WakeInv, WakeTypeOK
      <3> QED BY <3>1, <3>2 DEF GoneIsBelieved, MayCallGone
    <2>2. CASE waker' = waker
      BY <2>2 DEF GoneIsBelieved, MayCallGone
    <2>3. CASE waker'.dead = {}
      BY <2>3 DEF GoneIsBelieved
    <2>4. CASE Forget
      <3>1. waker'.dead = {} \/ waker'.dead = waker.dead
        BY <2>4 DEF Forget, Idle, WakeInv, WakeTypeOK
      <3> QED BY <3>1 DEF GoneIsBelieved, MayCallGone
    <2> QED
      BY <2>1, <2>2, <2>3, <2>4
      DEF vars, Next, Waking, RegisterWake, RevokeWake, Answer, WakeTick, WakerSaves, Restart, Idle
  <1> QED BY <1>1, <1>2, WakeInductive, PTL DEF Spec

-----------------------------------------------------------------------------
(* Theorems.                                                               *)

\* The registry keeps its types, and no registration, however many connections
\* register and however often the server restarts, lifts the table over
\* MAX_DEVICES rows or a token over MAX_ROWS_PER_TOKEN.
THEOREM WakeTypes == Spec => []WakeTypeOK
  <1>1. WakeInv => WakeTypeOK
    BY DEF WakeInv
  <1> QED BY <1>1, WakeInductive, PTL

\* A secret whose revocation was saved has no row in memory or on disk until
\* somebody registers with it again, whoever saves and restarts in between.
THEOREM RevocationsLast == Spec => []RevokedStaysRevoked
  <1>1. WakeInv => RevokedStaysRevoked
    BY DEF WakeInv, RevocationsStand, RevokedStaysRevoked
  <1> QED BY <1>1, WakeInductive, PTL

\* While the server runs, a row goes only when its secret is shown, or when its
\* token was called gone, and only the service that issued the token, or Google
\* when it was asked about one of Apple's, is ever believed about that.
THEOREM OnlyTheOwnerRemoves == Spec => OwnerKeepsTheRow
  <1> DEFINE CalledGone(r) ==
               \/ [token |-> r.token, kind |-> Home[r.token]] \in waker.dead
               \/ Home[r.token] = "apns" /\ [token |-> r.token, kind |-> "fcm"] \in waker.dead
             Shown(r) == \E h \in Handlers : asked[h] = None /\ asked'[h] = r.hash
             Justified == \A r \in devices \ devices' :
               \/ unkind' # unkind
               \/ \E h \in Handlers : asked[h] = None /\ asked'[h] = r.hash
               \/ [token |-> r.token, kind |-> Home[r.token]] \in waker.dead
               \/ Home[r.token] = "apns" /\ [token |-> r.token, kind |-> "fcm"] \in waker.dead
  <1>1. WakeInv /\ GoneIsBelieved /\ [Next]_vars
          => [Justified]_vars
    <2> SUFFICES ASSUME WakeInv, GoneIsBelieved, Next, NEW r \in devices \ devices'
                 PROVE  unkind' # unkind \/ Shown(r) \/ CalledGone(r)
      OBVIOUS
    <2>1. ASSUME NEW h \in Handlers, NEW row \in Device, RegisterWake(h, row)
          PROVE  asked[h] = None /\ asked'[h] = r.hash
      <3>1. r.hash = row.hash
        BY <2>1, RegisteredIsUnder DEF RegisterWake
      <3> QED BY <2>1, <3>1 DEF RegisterWake, WakeInv, WakeTypeOK
    <2>2. ASSUME NEW h \in Handlers, NEW s \in Secrets, RevokeWake(h, s)
          PROVE  asked[h] = None /\ asked'[h] = r.hash
      BY <2>2 DEF RevokeWake, Revoked, WakeInv, WakeTypeOK
    <2>3. ASSUME Forget PROVE CalledGone(r)
      <3>1. PICK w \in waker.dead : w.token = r.token
        BY <2>3 DEF Forget
      <3>2. w \in Wake /\ MayCallGone(w)
        BY DEF GoneIsBelieved, WakeInv, WakeTypeOK
      <3>3. r.token \in Tokens /\ Home[r.token] \in Kinds
        BY WakeAssumption DEF WakeInv, WakeTypeOK, Device
      <3>4. w = [token |-> r.token, kind |-> w.kind]
        BY <3>1, <3>2 DEF Wake
      <3>5. CASE w.kind = Home[r.token]
        BY <3>4, <3>5
      <3>6. CASE w.kind = "fcm"
        BY <3>3, <3>4, <3>6 DEF Kinds
      <3> QED BY <3>1, <3>2, <3>5, <3>6 DEF MayCallGone
    <2>4. CASE Restart
      <3>1. unkind \in Nat /\ unkind' = unkind + 1
        BY <2>4 DEF Restart, WakeInv, WakeTypeOK
      <3> QED BY <3>1
    <2>5. CASE WakeTick \/ WakerSaves \/ (\E w \in Wake : Call(w)) \/ \E h \in Handlers : Answer(h)
      BY <2>5 DEF WakeTick, WakerSaves, Call, Answer
    <2> QED
      BY <2>1, <2>2, <2>3, <2>4, <2>5 DEF Next, Waking
  <1> QED
    BY <1>1, WakeInductive, OnlyBelievable, PTL DEF Spec, OwnerKeepsTheRow
=============================================================================
