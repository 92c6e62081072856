----------------------------- MODULE MeterProofs ------------------------------
(***************************************************************************)
(* The quota, for any limits, sizes, period and number of restarts.        *)
(*                                                                         *)
(* AllowanceBound is not inductive.  What was allowed in the running       *)
(* period is bounded through the row the meter has for it; what was        *)
(* allowed in a period the clock has yet to come to again is bounded       *)
(* without the allowance that period is about to be given; and a restart   *)
(* that forgot nothing of an id hands it nothing only because the snapshot *)
(* has all but what was allowed since.                                     *)
(***************************************************************************)
EXTENDS Meter, TLAPS

Given(i) == Limit[i] * resets[i]

Bounded(i, p) ==
    /\ p < Period(hour) => accepted[i][p] <= Given(i) + Limit[i]
    /\ p = Period(hour) => accepted[i][p] <= Given(i) + In(spent, i, p)
    /\ p > Period(hour) => accepted[i][p] <= Given(i)

MeterInv ==
    /\ MeterTypeOK
    /\ KillLosesOneInterval
    /\ \A i \in Ids : \A p \in Periods : Limit[i] # 0 => Bounded(i, p)

-----------------------------------------------------------------------------
(* Arithmetic.                                                             *)

LEMMA PeriodType ==
    ASSUME NEW h \in 0..MaxHour
    PROVE  Period(h) \in Periods /\ Period(h) \in Nat
<1>1. h \div PERIOD_HOURS \in Nat
    BY MeterAssumption
<1> QED
    BY <1>1 DEF Period, Periods

LEMMA PeriodsAreNat ==
    ASSUME NEW p \in Periods
    PROVE  p \in Nat
BY PeriodType DEF Periods

LEMMA PeriodMonotone ==
    ASSUME NEW h \in 0..MaxHour, h < MaxHour
    PROVE  Period(h) <= Period(h + 1)
<1>1. h \in Nat /\ PERIOD_HOURS \in Nat \ {0}
    BY MeterAssumption
<1>2. h \div PERIOD_HOURS <= (h + 1) \div PERIOD_HOURS
    BY <1>1
<1> QED
    BY <1>2 DEF Period

LEMMA OneMore ==
    ASSUME NEW l \in Nat, NEW r \in Nat
    PROVE  l * r \in Nat /\ l * (r + 1) = l * r + l
OBVIOUS

\* What a table says is a number, and at most the limit.
LEMMA InType ==
    ASSUME MeterTypeOK, NEW i \in Ids, NEW p
    PROVE  /\ In(spent, i, p) \in Nat /\ In(spent, i, p) <= Limit[i]
           /\ In(disk, i, p) \in Nat /\ In(disk, i, p) <= Limit[i]
<1>1. Limit[i] \in Nat
    BY MeterAssumption
<1>2. spent[i] # None => spent[i].bytes \in Nat /\ spent[i].bytes <= Limit[i]
    BY DEF MeterTypeOK, Spent
<1>3. disk[i] # None => disk[i].bytes \in Nat /\ disk[i].bytes <= Limit[i]
    BY DEF MeterTypeOK, Spent
<1> QED
    BY <1>1, <1>2, <1>3 DEF In

LEMMA GivenType ==
    ASSUME MeterTypeOK, NEW i \in Ids
    PROVE  Given(i) \in Nat /\ Limit[i] \in Nat /\ resets[i] \in Nat
<1>1. Limit[i] \in Nat /\ resets[i] \in Nat
    BY MeterAssumption DEF MeterTypeOK
<1> QED
    BY <1>1, OneMore DEF Given

-----------------------------------------------------------------------------
(* One lemma per kind of step.                                             *)

LEMMA ChargeKeeps ==
    ASSUME MeterInv, NEW i \in Ids, NEW n \in Nat, Charge(i, n),
           cap' \in [Conns -> Ids \union {None}],
           UNCHANGED <<hour, drawn, disk, saving, unkind, resets>>
    PROVE  MeterInv'
<1>0. MeterTypeOK /\ hour \in 0..MaxHour
    BY DEF MeterInv, MeterTypeOK
<1>1. CASE Limit[i] = 0
    <2>1. UNCHANGED <<spent, accepted, since>>
        BY <1>1 DEF Charge
    <2>2. MeterTypeOK'
        BY <1>0, <2>1 DEF MeterTypeOK
    <2>3. KillLosesOneInterval'
        BY <2>1 DEF MeterInv, KillLosesOneInterval, In
    <2>4. \A j \in Ids : \A p \in Periods : Limit[j] # 0 => Bounded(j, p)'
        BY <2>1 DEF MeterInv, Bounded, In, Given
    <2> QED
        BY <2>2, <2>3, <2>4 DEF MeterInv
<1>2. CASE Limit[i] # 0
    <2>0. Period(hour) \in Periods /\ Period(hour) \in Nat
        BY <1>0, PeriodType
    <2>a. PICK p0 \in Periods : p0 = Period(hour) /\ p0 \in Nat
        BY <2>0
    <2>b. PICK more \in Nat : more = IF Fits(i, n) THEN n ELSE 0
        OBVIOUS
    <2>c. PICK was \in Nat : was = In(spent, i, p0)
        BY <1>0, InType
    <2>d. PICK row : row = [period |-> p0, bytes |-> was + more]
        OBVIOUS
    <2>1. /\ spent' = [spent EXCEPT ![i] = row]
          /\ accepted' = [accepted EXCEPT ![i][p0] = @ + more]
          /\ since' = [since EXCEPT ![i] = @ + more]
        BY <1>2, <2>a, <2>b, <2>c, <2>d DEF Charge
    <2>2. Limit[i] \in Nat
        BY <1>0, GivenType
    <2>3. was + more <= Limit[i]
        BY <1>0, <2>a, <2>b, <2>c, <2>2, InType DEF Fits
    <2>4. row \in Spent /\ row.period = p0 /\ row.bytes = was + more /\ row # None
        BY <2>d, NoneIsNoEntry DEF Spent
    <2>5. Period(hour)' = p0
        BY <2>a DEF Period
    <2>6. /\ spent' \in [Ids -> Spent \union {None}] /\ spent'[i] = row
          /\ \A j \in Ids \ {i} : spent'[j] = spent[j]
        BY <1>0, <2>1, <2>4 DEF MeterTypeOK
    <2>7. /\ accepted' \in [Ids -> [Periods -> Nat]]
          /\ accepted'[i][p0] = accepted[i][p0] + more
          /\ \A p \in Periods \ {p0} : accepted'[i][p] = accepted[i][p]
          /\ \A j \in Ids \ {i} : accepted'[j] = accepted[j]
        BY <1>0, <2>1 DEF MeterTypeOK
    <2>8. since' \in [Ids -> Nat] /\ since'[i] = since[i] + more
          /\ \A j \in Ids \ {i} : since'[j] = since[j]
        BY <1>0, <2>1 DEF MeterTypeOK
    <2>9. MeterTypeOK'
        BY <1>0, <2>3, <2>4, <2>6, <2>7, <2>8 DEF MeterTypeOK
    <2>10. /\ In(spent, i, p0)' = was + more
           /\ \A p \in Periods \ {p0} : In(spent, i, p)' = 0
           /\ \A j \in Ids \ {i} : \A p \in Periods : In(spent, j, p)' = In(spent, j, p)
           /\ \A j \in Ids : \A p \in Periods : In(disk, j, p)' = In(disk, j, p)
        BY <2>4, <2>6 DEF In
    <2>11. KillLosesOneInterval'
        <3>1. ASSUME NEW j \in Ids, NEW p \in Periods
              PROVE  In(spent, j, p)' <= In(disk, j, p)' + since'[j]
            <4>1. In(spent, j, p) <= In(disk, j, p) + since[j]
                BY DEF MeterInv, KillLosesOneInterval
            <4>2. In(disk, j, p) \in Nat /\ In(spent, j, p) \in Nat /\ since[j] \in Nat
                BY <1>0, InType DEF MeterTypeOK
            <4>3. CASE j = i /\ p = p0
                BY <2>c, <2>8, <2>10, <4>1, <4>2, <4>3
            <4>4. CASE j = i /\ p # p0
                BY <2>8, <2>10, <4>2, <4>4
            <4>5. CASE j # i
                BY <2>8, <2>10, <4>1, <4>5
            <4> QED
                BY <4>3, <4>4, <4>5
        <3> QED
            BY <3>1 DEF KillLosesOneInterval
    <2>12. ASSUME NEW j \in Ids, NEW p \in Periods, Limit[j] # 0
           PROVE  Bounded(j, p)'
        <3>1. Bounded(j, p) /\ Given(j)' = Given(j) /\ Given(j) \in Nat
            BY <1>0, <2>12, GivenType DEF MeterInv, Given
        <3>2. accepted[j][p] \in Nat /\ p \in Nat /\ In(spent, j, p) \in Nat
            BY <1>0, InType, PeriodsAreNat DEF MeterTypeOK
        <3>3. CASE j = i /\ p = p0
            BY <2>a, <2>c, <2>5, <2>7, <2>10, <3>1, <3>2, <3>3 DEF Bounded
        <3>4. CASE j = i /\ p # p0
            BY <2>a, <2>5, <2>7, <3>1, <3>2, <3>4 DEF Bounded
        <3>5. CASE j # i
            BY <2>a, <2>5, <2>7, <2>10, <3>1, <3>5 DEF Bounded
        <3> QED
            BY <3>3, <3>4, <3>5
    <2> QED
        BY <2>9, <2>11, <2>12 DEF MeterInv
<1> QED
    BY <1>1, <1>2

\* Sweeping keeps what the running period has.
LEMMA SweptType ==
    ASSUME MeterTypeOK, NEW table \in {spent, disk}
    PROVE  /\ Swept(table, hour) \in [Ids -> Spent \union {None}]
           /\ \A i \in Ids : Swept(table, hour)[i] \in {table[i], None}
           /\ \A i \in Ids : In(Swept(table, hour), i, Period(hour)) = In(table, i, Period(hour))
           /\ \A i \in Ids : \A p \in Periods \ {Period(hour)} : In(Swept(table, hour), i, p) = 0
<1>1. table \in [Ids -> Spent \union {None}]
    BY DEF MeterTypeOK
<1> QED
    BY <1>1 DEF Swept, In

\* The meter is left alone.
LEMMA LeftAlone ==
    ASSUME MeterInv, UNCHANGED <<hour, spent, disk, accepted, since, resets>>,
           cap' \in [Conns -> Ids \union {None}], drawn' \subseteq FreeIds,
           saving' \in BOOLEAN, unkind' \in 0..MaxUnkind
    PROVE  MeterInv'
<1>1. MeterTypeOK'
    BY DEF MeterInv, MeterTypeOK
<1>2. KillLosesOneInterval'
    BY DEF MeterInv, KillLosesOneInterval, In
<1>3. \A j \in Ids : \A p \in Periods : Limit[j] # 0 => Bounded(j, p)'
    BY DEF MeterInv, Bounded, In, Given
<1> QED
    BY <1>1, <1>2, <1>3 DEF MeterInv

LEMMA SweepKeeps ==
    ASSUME MeterInv, Sweep
    PROVE  MeterInv'
<1>1. /\ spent' = Swept(spent, hour) /\ saving' = TRUE
      /\ UNCHANGED <<hour, cap, drawn, disk, unkind, accepted, since, resets>>
    BY DEF Sweep
<1>2. MeterTypeOK /\ hour \in 0..MaxHour
    BY DEF MeterInv, MeterTypeOK
<1>3. /\ spent' \in [Ids -> Spent \union {None}]
      /\ \A i \in Ids : spent'[i] \in {spent[i], None}
      /\ \A i \in Ids : In(spent', i, Period(hour)) = In(spent, i, Period(hour))
      /\ \A i \in Ids : \A p \in Periods \ {Period(hour)} : In(spent', i, p) = 0
    BY <1>1, <1>2, SweptType
<1>4. MeterTypeOK'
    BY <1>1, <1>2, <1>3 DEF MeterTypeOK
<1>5. PICK p0 \in Periods : p0 = Period(hour) /\ p0 \in Nat
    BY <1>2, PeriodType
<1>6. /\ Period(hour)' = p0
      /\ \A i \in Ids : In(spent, i, p0)' = In(spent, i, p0)
      /\ \A i \in Ids : \A p \in Periods \ {p0} : In(spent, i, p)' = 0
      /\ \A i \in Ids : \A p \in Periods : In(disk, i, p)' = In(disk, i, p)
    BY <1>1, <1>3, <1>5 DEF In, Period
<1>7. ASSUME NEW i \in Ids, NEW p \in Periods
      PROVE  In(spent, i, p)' <= In(disk, i, p)' + since'[i]
    <2>1. /\ In(spent, i, p) <= In(disk, i, p) + since[i] /\ since'[i] = since[i]
          /\ In(disk, i, p) \in Nat /\ since[i] \in Nat
        BY <1>1, <1>2, InType DEF MeterInv, KillLosesOneInterval, MeterTypeOK
    <2> QED
        BY <1>6, <2>1
<1>8. ASSUME NEW i \in Ids, NEW p \in Periods, Limit[i] # 0
      PROVE  Bounded(i, p)'
    <2>1. Bounded(i, p) /\ Given(i)' = Given(i) /\ accepted' = accepted
        BY <1>1, <1>8 DEF MeterInv, Given
    <2> QED
        BY <1>5, <1>6, <2>1 DEF Bounded
<1> QED
    BY <1>4, <1>7, <1>8 DEF MeterInv, KillLosesOneInterval

LEMMA SnapshotKeeps ==
    ASSUME MeterInv, Snapshot, saving' \in BOOLEAN,
           UNCHANGED <<hour, cap, drawn, spent, accepted, resets>>
    PROVE  MeterInv'
<1>1. MeterTypeOK
    BY DEF MeterInv
<1>2. CASE disk' = spent /\ since' = [i \in Ids |-> 0] /\ UNCHANGED unkind
    <2>1. MeterTypeOK'
        BY <1>1, <1>2 DEF MeterTypeOK
    <2>2. ASSUME NEW i \in Ids, NEW p \in Periods
          PROVE  In(spent, i, p)' <= In(disk, i, p)' + since'[i]
        <3>1. In(spent, i, p)' = In(spent, i, p) /\ In(disk, i, p)' = In(spent, i, p)
            BY <1>2 DEF In
        <3>2. In(spent, i, p) \in Nat /\ since'[i] = 0
            BY <1>1, <1>2, InType
        <3> QED
            BY <3>1, <3>2
    <2>3. \A i \in Ids : \A p \in Periods : Limit[i] # 0 => Bounded(i, p)'
        BY DEF MeterInv, Bounded, In, Given
    <2> QED
        BY <2>1, <2>2, <2>3 DEF MeterInv, KillLosesOneInterval
<1>3. CASE unkind < MaxUnkind /\ unkind' = unkind + 1 /\ UNCHANGED <<disk, since>>
    <2>1. unkind' \in 0..MaxUnkind
        BY <1>1, <1>3, MeterAssumption DEF MeterTypeOK
    <2> QED
        BY <1>1, <1>3, <2>1, LeftAlone DEF MeterTypeOK
<1> QED
    BY <1>2, <1>3 DEF Snapshot

LEMMA RestartKeeps ==
    ASSUME MeterInv, Restart
    PROVE  MeterInv'
<1>1. /\ unkind < MaxUnkind /\ unkind' = unkind + 1
      /\ spent' = Swept(disk, hour)
      /\ cap' = [c \in Conns |-> None] /\ saving' = FALSE
      /\ resets' = [i \in Ids |-> IF since[i] > 0 THEN resets[i] + 1 ELSE resets[i]]
      /\ since' = [i \in Ids |-> 0]
      /\ UNCHANGED <<hour, drawn, disk, accepted>>
    BY DEF Restart
<1>2. MeterTypeOK /\ hour \in 0..MaxHour
    BY DEF MeterInv, MeterTypeOK
<1>3. /\ spent' \in [Ids -> Spent \union {None}]
      /\ \A i \in Ids : spent'[i] \in {disk[i], None}
      /\ \A i \in Ids : In(spent', i, Period(hour)) = In(disk, i, Period(hour))
      /\ \A i \in Ids : \A p \in Periods \ {Period(hour)} : In(spent', i, p) = 0
    BY <1>1, <1>2, SweptType
<1>4. resets' \in [Ids -> Nat] /\ since' \in [Ids -> Nat] /\ unkind' \in 0..MaxUnkind
      /\ cap' \in [Conns -> Ids \union {None}]
    BY <1>1, <1>2, MeterAssumption DEF MeterTypeOK
<1>5. MeterTypeOK'
    BY <1>1, <1>2, <1>3, <1>4 DEF MeterTypeOK
<1>6. PICK p0 \in Periods : p0 = Period(hour) /\ p0 \in Nat
    BY <1>2, PeriodType
<1>7. /\ Period(hour)' = p0
      /\ \A i \in Ids : In(spent, i, p0)' = In(disk, i, p0)
      /\ \A i \in Ids : \A p \in Periods \ {p0} : In(spent, i, p)' = 0
      /\ \A i \in Ids : \A p \in Periods : In(disk, i, p)' = In(disk, i, p)
    BY <1>1, <1>3, <1>6 DEF In, Period
<1>8. ASSUME NEW i \in Ids, NEW p \in Periods
      PROVE  In(spent, i, p)' <= In(disk, i, p)' + since'[i]
    <2>1. In(disk, i, p) \in Nat /\ since'[i] = 0
        BY <1>1, <1>2, InType
    <2> QED
        BY <1>7, <2>1
<1>9. ASSUME NEW i \in Ids, NEW p \in Periods, Limit[i] # 0
      PROVE  Bounded(i, p)'
    <2>1. Bounded(i, p) /\ accepted' = accepted
        BY <1>1, <1>9 DEF MeterInv
    <2>2. /\ In(spent, i, p) \in Nat /\ In(spent, i, p) <= Limit[i]
          /\ In(disk, i, p) \in Nat /\ Given(i) \in Nat /\ Limit[i] \in Nat
          /\ resets[i] \in Nat /\ since[i] \in Nat /\ accepted[i][p] \in Nat /\ p \in Nat
          /\ In(spent, i, p) <= In(disk, i, p) + since[i]
        BY <1>2, InType, GivenType, PeriodsAreNat
           DEF MeterTypeOK, MeterInv, KillLosesOneInterval
    <2>3. CASE since[i] > 0
        <3>1. resets'[i] = resets[i] + 1
            BY <1>1, <2>3
        <3>2. Given(i)' = Given(i) + Limit[i]
            BY <2>2, <3>1, OneMore DEF Given
        <3> QED
            BY <1>6, <1>7, <2>1, <2>2, <3>2 DEF Bounded
    <2>4. CASE since[i] = 0
        <3>1. resets'[i] = resets[i]
            BY <1>1, <2>4
        <3>2. Given(i)' = Given(i)
            BY <3>1 DEF Given
        <3> QED
            BY <1>6, <1>7, <2>1, <2>2, <2>4, <3>2 DEF Bounded
    <2> QED
        BY <2>2, <2>3, <2>4
<1> QED
    BY <1>5, <1>8, <1>9 DEF MeterInv, KillLosesOneInterval

LEMMA TickKeeps ==
    ASSUME MeterInv, Tick
    PROVE  MeterInv'
<1>1. /\ hour < MaxHour /\ hour' = hour + 1
      /\ UNCHANGED <<cap, drawn, spent, disk, saving, unkind, accepted, since, resets>>
    BY DEF Tick
<1>2. MeterTypeOK /\ hour \in 0..MaxHour /\ hour' \in 0..MaxHour
    BY <1>1, MeterAssumption DEF MeterInv, MeterTypeOK
<1>3. MeterTypeOK'
    BY <1>1, <1>2 DEF MeterTypeOK
<1>4. KillLosesOneInterval'
    BY <1>1 DEF MeterInv, KillLosesOneInterval, In
<1>5. PICK q \in Nat : q = Period(hour)
    BY <1>2, PeriodType
<1>6. PICK r \in Nat : r = Period(hour + 1)
    BY <1>1, <1>2, PeriodType
<1>7. q <= r /\ Period(hour)' = r
    BY <1>1, <1>2, <1>5, <1>6, PeriodMonotone DEF Period
<1>8. ASSUME NEW i \in Ids, NEW p \in Periods, Limit[i] # 0
      PROVE  Bounded(i, p)'
    <2>1. Bounded(i, p) /\ accepted' = accepted /\ Given(i)' = Given(i)
          /\ In(spent, i, p)' = In(spent, i, p)
        BY <1>1, <1>8 DEF MeterInv, Given, In
    <2>2. /\ In(spent, i, p) \in Nat /\ In(spent, i, p) <= Limit[i]
          /\ Given(i) \in Nat /\ Limit[i] \in Nat
          /\ accepted[i][p] \in Nat /\ p \in Nat
        BY <1>2, InType, GivenType, PeriodsAreNat DEF MeterTypeOK
    <2> QED
        BY <1>5, <1>7, <2>1, <2>2 DEF Bounded
<1> QED
    BY <1>3, <1>4, <1>8 DEF MeterInv

LEMMA SetBackKeeps ==
    ASSUME MeterInv, NEW h \in 0..MaxHour, SetBack(h)
    PROVE  MeterInv'
<1>1. /\ h < hour /\ unkind < MaxUnkind /\ unkind' = unkind + 1 /\ hour' = h
      /\ resets' = IF Period(h) = Period(hour) THEN resets
                   ELSE [i \in Ids |-> resets[i] + 1]
      /\ UNCHANGED <<cap, drawn, spent, disk, saving, accepted, since>>
    BY DEF SetBack
<1>2. MeterTypeOK /\ hour \in 0..MaxHour
    BY DEF MeterInv, MeterTypeOK
<1>3. resets' \in [Ids -> Nat] /\ unkind' \in 0..MaxUnkind
    BY <1>1, <1>2, MeterAssumption DEF MeterTypeOK
<1>4. MeterTypeOK'
    BY <1>1, <1>2, <1>3 DEF MeterTypeOK
<1>5. KillLosesOneInterval'
    BY <1>1 DEF MeterInv, KillLosesOneInterval, In
<1>6. PICK q \in Nat : q = Period(hour)
    BY <1>2, PeriodType
<1>7. PICK r \in Nat : r = Period(h)
    BY PeriodType
<1>8. Period(hour)' = r
    BY <1>1, <1>7 DEF Period
<1>9. ASSUME NEW i \in Ids, NEW p \in Periods, Limit[i] # 0
      PROVE  Bounded(i, p)'
    <2>1. Bounded(i, p) /\ accepted' = accepted /\ In(spent, i, p)' = In(spent, i, p)
        BY <1>1, <1>9 DEF MeterInv, In
    <2>2. /\ In(spent, i, p) \in Nat /\ In(spent, i, p) <= Limit[i]
          /\ Given(i) \in Nat /\ Limit[i] \in Nat /\ resets[i] \in Nat
          /\ accepted[i][p] \in Nat /\ p \in Nat
        BY <1>2, InType, GivenType, PeriodsAreNat DEF MeterTypeOK
    <2>3. CASE q = r
        <3>1. Given(i)' = Given(i)
            BY <1>1, <1>6, <1>7, <2>3 DEF Given
        <3> QED
            BY <1>6, <1>8, <2>1, <2>3, <3>1 DEF Bounded
    <2>4. CASE q # r
        <3>1. resets'[i] = resets[i] + 1
            BY <1>1, <1>6, <1>7, <2>4
        <3>2. Given(i)' = Given(i) + Limit[i]
            BY <2>2, <3>1, OneMore DEF Given
        <3>3. accepted[i][p] <= Given(i) + Limit[i]
            BY <1>6, <2>1, <2>2 DEF Bounded
        <3> QED
            BY <1>8, <2>1, <2>2, <3>2, <3>3 DEF Bounded
    <2> QED
        BY <2>3, <2>4
<1> QED
    BY <1>4, <1>5, <1>9 DEF MeterInv

-----------------------------------------------------------------------------
(* Theorems.                                                               *)

LEMMA InitInv == Init => MeterInv
<1> SUFFICES ASSUME Init PROVE MeterInv
    OBVIOUS
<1>0. hour \in 0..MaxHour /\ unkind \in 0..MaxUnkind
    BY MeterAssumption DEF Init
<1>c. cap \in [Conns -> Ids \union {None}] /\ drawn \subseteq FreeIds
    BY DEF Init
<1>d. saving \in BOOLEAN
    BY DEF Init
<1>a. spent \in [Ids -> Spent \union {None}] /\ disk \in [Ids -> Spent \union {None}]
      /\ \A i \in Ids : spent[i] = None /\ disk[i] = None
    BY DEF Init
<1>b. since \in [Ids -> Nat] /\ resets \in [Ids -> Nat] /\ accepted \in [Ids -> [Periods -> Nat]]
    BY DEF Init
<1>1. MeterTypeOK
    BY <1>0, <1>a, <1>b, <1>c, <1>d DEF MeterTypeOK
<1>2. \A i \in Ids : \A p \in Periods : In(spent, i, p) = 0 /\ In(disk, i, p) = 0
    BY DEF Init, In
<1>3. KillLosesOneInterval
    BY <1>2 DEF Init, KillLosesOneInterval
<1>4. ASSUME NEW i \in Ids, NEW p \in Periods
      PROVE  Bounded(i, p)
    <2>1. Given(i) \in Nat /\ Limit[i] \in Nat /\ accepted[i][p] = 0
        BY <1>1, GivenType DEF Init
    <2> QED
        BY <1>2, <2>1 DEF Bounded
<1> QED
    BY <1>1, <1>3, <1>4 DEF MeterInv

LEMMA NextInv == MeterInv /\ [Next]_vars => MeterInv'
<1> SUFFICES ASSUME MeterInv, [Next]_vars PROVE MeterInv'
    OBVIOUS
<1>1. MeterTypeOK
    BY DEF MeterInv
<1>2. CASE UNCHANGED vars
    BY <1>1, <1>2, LeftAlone DEF vars, MeterTypeOK
<1>3. ASSUME NEW c \in Conns, NEW i \in FreeIds, Connect(c, i)
      PROVE  MeterInv'
    <2>1. cap' \in [Conns -> Ids \union {None}] /\ drawn' \subseteq FreeIds
        BY <1>1, <1>3 DEF Connect, MeterTypeOK, Ids
    <2> QED
        BY <1>1, <1>3, <2>1, LeftAlone DEF Connect, MeterTypeOK
<1>4. ASSUME NEW c \in Conns, Disconnect(c)
      PROVE  MeterInv'
    <2>1. cap' \in [Conns -> Ids \union {None}]
        BY <1>1, <1>4 DEF Disconnect, MeterTypeOK
    <2> QED
        BY <1>1, <1>4, <2>1, LeftAlone DEF Disconnect, MeterTypeOK
<1>5. ASSUME NEW c \in Conns, NEW t \in Tokens, Auth(c, t)
      PROVE  MeterInv'
    <2>1. cap' \in [Conns -> Ids \union {None}] /\ t \in Ids /\ 0 \in Nat
        BY <1>1, <1>5 DEF Auth, MeterTypeOK, Ids
    <2> QED
        BY <1>5, <2>1, ChargeKeeps DEF Auth
<1>6. ASSUME NEW c \in Conns, NEW n \in Sizes, Deposit(c, n)
      PROVE  MeterInv'
    <2>1. cap' \in [Conns -> Ids \union {None}] /\ cap[c] \in Ids /\ n \in Nat
        BY <1>1, <1>6, MeterAssumption DEF Deposit, MeterTypeOK
    <2> QED
        BY <1>6, <2>1, ChargeKeeps DEF Deposit
<1>7. CASE SweeperSaves \/ ShutdownSaves
    BY <1>1, <1>7, SnapshotKeeps DEF SweeperSaves, ShutdownSaves, MeterTypeOK
<1> QED
    BY <1>2, <1>3, <1>4, <1>5, <1>6, <1>7, SweepKeeps, RestartKeeps, TickKeeps, SetBackKeeps
       DEF Next

\* The rows and the snapshot keep their types, and no row, in memory or on disk,
\* ever says more than the limit.
THEOREM MeterTypes == Spec => []MeterTypeOK
<1>1. MeterInv => MeterTypeOK
    BY DEF MeterInv
<1> QED
    BY InitInv, NextInv, <1>1, PTL DEF Spec

\* Meter::charge keeps every id within its quota in every period, up to one
\* more allowance for each restart that forgot something of it and for each
\* time the clock was set back over the end of a period.
THEOREM AllowanceIsBounded == Spec => []AllowanceBound
<1>1. MeterInv => AllowanceBound
    <2> SUFFICES ASSUME MeterInv, NEW i \in Ids, NEW p \in Periods, Limit[i] # 0
                 PROVE  accepted[i][p] <= Limit[i] * (resets[i] + 1)
        BY DEF AllowanceBound
    <2>1. /\ Bounded(i, p) /\ hour \in 0..MaxHour /\ MeterTypeOK
          /\ accepted[i][p] \in Nat
        BY DEF MeterInv, MeterTypeOK
    <2>2. /\ In(spent, i, p) \in Nat /\ In(spent, i, p) <= Limit[i] /\ p \in Nat
          /\ Given(i) \in Nat /\ Limit[i] \in Nat /\ resets[i] \in Nat
        BY <2>1, InType, GivenType, PeriodsAreNat
    <2>3. Period(hour) \in Nat
        BY <2>1, PeriodType
    <2>4. accepted[i][p] <= Given(i) + Limit[i]
        BY <2>1, <2>2, <2>3 DEF Bounded
    <2> QED
        BY <2>2, <2>4, OneMore DEF Given
<1> QED
    BY InitInv, NextInv, <1>1, PTL DEF Spec

\* Meter::save and Meter::load: a restart forgets no more than was allowed
\* since the last snapshot that was written.
THEOREM KillsLoseOneInterval == Spec => []KillLosesOneInterval
<1>1. MeterInv => KillLosesOneInterval
    BY DEF MeterInv
<1> QED
    BY InitInv, NextInv, <1>1, PTL DEF Spec
=============================================================================
