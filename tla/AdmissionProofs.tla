-------------------------- MODULE AdmissionProofs ---------------------------
(***************************************************************************)
(* Theorems about admission control, for every set of callers, every limit *)
(* and every bound on how long a call waits for the lock.                  *)
(***************************************************************************)
EXTENDS Admission, FiniteSetTheorems, TLAPS

\* A bucket's clock is never ahead of time, nor its tokens above the burst, and
\* exempt addresses have none.
BucketsSane ==
    /\ known \cap Exempt = {}
    /\ BucketsWithinBurst

\* For a caller with a bucket: what it was let in for since its i-th admission,
\* and what is left in the bucket, were paid by the burst and by time.
KnownPaid ==
    \A c \in known : \A i \in 1..Len(admitted[c]) :
        COST * (Len(admitted[c]) - i + 1) + bucket[c].tokens
            <= BURST + (bucket[c].refilled - admitted[c][i]) + replayed[c]

\* For a caller whose bucket was forgotten: time alone has paid, as read by any
\* call that may be waiting for the lock, so a full new bucket is fair.
ForgottenPaid ==
    \A c \in Callers \ known : \A i \in 1..Len(admitted[c]) :
        COST * (Len(admitted[c]) - i + 1) <= (now - SKEW - admitted[c][i]) + replayed[c]

\* The inductive invariant of the two counts and of the rate.
AdmissionInv ==
    /\ AdmissionTyped
    /\ CallersCounted
    /\ WithinLimits
    /\ BucketsSane
    /\ KnownPaid
    /\ ForgottenPaid
    /\ RateBounded

\* What any number of connections costs is an integer.
LEMMA CostIsInt ==
    ASSUME NEW k \in Int
    PROVE  COST * k \in Int
  BY AdmissionAssumption

\* What time earns a bucket, and what it earns again after being set back, keep
\* the account balanced.
LEMMA Earned ==
    ASSUME NEW p \in Int, NEW a \in Int, NEW burst \in Int, NEW tok \in Int, NEW ref \in Int,
           NEW rep \in Int, NEW t \in Int, NEW new \in Int, NEW earned \in Int, NEW back \in Int,
           p + tok <= burst + (ref - a) + rep,
           new <= tok + earned, earned = (t - ref) + back
    PROVE  p + new <= burst + (t - a) + (rep + back)
  OBVIOUS

\* Being set back once more only loosens the account.
LEMMA Loosened ==
    ASSUME NEW p \in Int, NEW burst \in Int, NEW x \in Int, NEW y \in Int, NEW rep \in Int,
           NEW back \in Nat,
           p <= burst + (x - y) + rep
    PROVE  p <= burst + (x - y) + (rep + back)
  OBVIOUS

\* A bucket that has been idle long enough owes nothing.
LEMMA Idle ==
    ASSUME NEW p \in Int, NEW a \in Int, NEW burst \in Int, NEW tok \in Nat, NEW ref \in Int,
           NEW rep \in Int, NEW t \in Int, NEW skew \in Int,
           p + tok <= burst + (ref - a) + rep,
           ref + burst + skew <= t
    PROVE  p <= (t - skew - a) + rep
  OBVIOUS

\* What time has paid as read by every waiting call, it has paid at time t.
LEMMA PaidByNow ==
    ASSUME NEW p \in Int, NEW a \in Int, NEW rep \in Int, NEW n \in Int, NEW t \in Int,
           NEW skew \in Nat,
           p <= (n - skew - a) + rep, n - t <= skew
    PROVE  p <= (t - a) + rep
  OBVIOUS

\* The sweep forgets only buckets with nothing open, and only once the burst
\* has been earned again for every call that may still be under way.
LEMMA KeptFacts ==
    ASSUME AdmissionInv, NEW t \in Readings
    PROVE  /\ Kept(t) \subseteq known
           /\ \A c \in known \ Kept(t) : /\ bucket[c].open = 0
                                         /\ bucket[c].refilled + BURST + SKEW <= t
  <1>1. t \in Nat /\ t <= now /\ now - t <= SKEW /\ now \in Nat
    BY DEF Readings, AdmissionInv, AdmissionTyped
  <1>2. Kept(t) \subseteq known
    BY DEF Kept
  <1>3. ASSUME NEW c \in known \ Kept(t)
        PROVE  bucket[c].open = 0 /\ bucket[c].refilled + BURST + SKEW <= t
    <2>1. /\ bucket[c].open \in Nat /\ bucket[c].refilled \in Nat
          /\ bucket[c].refilled <= now
      BY DEF AdmissionInv, AdmissionTyped, BucketsSane, BucketsWithinBurst, Bucket
    <2>2. ~(bucket[c].open > 0 \/ Since(t, bucket[c].refilled) < FORGET_AFTER)
      BY DEF Kept
    <2>3. Since(t, bucket[c].refilled) >= BURST + SKEW
      BY <1>1, <2>1, <2>2, AdmissionAssumption, ForgetAssumption DEF Since
    <2> QED
      BY <1>1, <2>1, <2>2, <2>3, AdmissionAssumption DEF Since
  <1> QED
    BY <1>2, <1>3

\* What a decision finds in the caller's bucket is paid for up to its reading
\* of the clock.
LEMMA RefilledFacts ==
    ASSUME AdmissionInv, NEW t \in Readings, NEW c \in Callers
    PROVE  /\ Refilled(c, t) \in Bucket
           /\ Refilled(c, t).refilled = t
           /\ Refilled(c, t).tokens <= BURST
           /\ c \notin Exempt => Refilled(c, t).open = slots[c]
           /\ SetBack(c, t) \in Nat
           /\ \A i \in 1..Len(admitted[c]) :
                COST * (Len(admitted[c]) - i + 1) + Refilled(c, t).tokens
                    <= BURST + (t - admitted[c][i]) + (replayed[c] + SetBack(c, t))
  <1>1. t \in Nat /\ t <= now /\ now - t <= SKEW /\ now \in Nat
    BY DEF Readings, AdmissionInv, AdmissionTyped
  <1>2. /\ bucket[c] \in Bucket /\ bucket[c].open \in Nat
        /\ bucket[c].refilled \in Nat /\ bucket[c].tokens \in Nat
        /\ replayed[c] \in Nat /\ slots[c] \in Nat
    BY DEF AdmissionInv, AdmissionTyped, Bucket
  <1>3. \A i \in 1..Len(admitted[c]) :
           /\ admitted[c][i] \in Nat
           /\ COST * (Len(admitted[c]) - i + 1) \in Int
    BY AdmissionAssumption DEF AdmissionInv, AdmissionTyped
  <1>4. CASE c \in Kept(t)
    <2>1. c \in known
      BY <1>4, KeptFacts
    <2>2. Refilled(c, t) =
            [bucket[c] EXCEPT !.tokens = AtMost(@ + Since(t, bucket[c].refilled), BURST),
                              !.refilled = t]
      BY <1>4 DEF Refilled
    <2>3. /\ Refilled(c, t).tokens = AtMost(bucket[c].tokens + Since(t, bucket[c].refilled), BURST)
          /\ Refilled(c, t).refilled = t
          /\ Refilled(c, t).open = bucket[c].open
      BY <1>2, <2>2 DEF Bucket
    <2>4. /\ Since(t, bucket[c].refilled) \in Nat
          /\ SetBack(c, t) \in Nat
          /\ Since(t, bucket[c].refilled) = (t - bucket[c].refilled) + SetBack(c, t)
      BY <1>1, <1>2, <1>4 DEF Since, SetBack
    <2>5. /\ Refilled(c, t).tokens \in Nat /\ Refilled(c, t).tokens <= BURST
          /\ Refilled(c, t).tokens <= bucket[c].tokens + Since(t, bucket[c].refilled)
      BY <1>2, <2>3, <2>4, AdmissionAssumption DEF AtMost
    <2>6. Refilled(c, t) \in Bucket
      BY <1>1, <1>2, <2>2, <2>3, <2>5 DEF Bucket
    <2>7. c \notin Exempt => Refilled(c, t).open = slots[c]
      BY <2>1, <2>3 DEF AdmissionInv, CallersCounted
    <2>8. ASSUME NEW i \in 1..Len(admitted[c])
          PROVE  COST * (Len(admitted[c]) - i + 1) + Refilled(c, t).tokens
                    <= BURST + (t - admitted[c][i]) + (replayed[c] + SetBack(c, t))
      <3>1. COST * (Len(admitted[c]) - i + 1) + bucket[c].tokens
                <= BURST + (bucket[c].refilled - admitted[c][i]) + replayed[c]
        BY <2>1 DEF AdmissionInv, KnownPaid
      <3>2. PICK p \in Int, a \in Nat : /\ p = COST * (Len(admitted[c]) - i + 1)
                                       /\ a = admitted[c][i]
        BY <1>3
      <3>3. p + bucket[c].tokens <= BURST + (bucket[c].refilled - a) + replayed[c]
        BY <3>1, <3>2
      <3>4. p + Refilled(c, t).tokens <= BURST + (t - a) + (replayed[c] + SetBack(c, t))
        <4>1. Refilled(c, t).tokens \in Int /\ bucket[c].tokens \in Int
          BY <1>2, <2>5
        <4>2. /\ bucket[c].refilled \in Int /\ replayed[c] \in Int /\ t \in Int /\ a \in Int
              /\ Since(t, bucket[c].refilled) \in Int /\ SetBack(c, t) \in Int /\ BURST \in Int
          BY <1>1, <1>2, <2>4, AdmissionAssumption
        <4> QED
          BY <4>1, <4>2, <3>3, <2>4, <2>5, Earned
      <3> QED
        BY <3>2, <3>4
    <2> QED
      BY <2>3, <2>4, <2>5, <2>6, <2>7, <2>8
  <1>5. CASE c \notin Kept(t)
    <2>1. Refilled(c, t) = [tokens |-> BURST, refilled |-> t, open |-> 0]
      BY <1>5 DEF Refilled
    <2>2. SetBack(c, t) = 0
      BY <1>5 DEF SetBack
    <2>3. Refilled(c, t) \in Bucket
      BY <1>1, <2>1, AdmissionAssumption DEF Bucket
    <2>4. c \notin Exempt => slots[c] = 0
      BY <1>5, KeptFacts DEF AdmissionInv, CallersCounted
    <2>5. ASSUME NEW i \in 1..Len(admitted[c])
          PROVE  COST * (Len(admitted[c]) - i + 1) <= (t - admitted[c][i]) + replayed[c]
      <3>1. CASE c \in known
        <4>1. COST * (Len(admitted[c]) - i + 1) + bucket[c].tokens
                 <= BURST + (bucket[c].refilled - admitted[c][i]) + replayed[c]
          BY <3>1 DEF AdmissionInv, KnownPaid
        <4>2. bucket[c].refilled + BURST + SKEW <= t
          BY <3>1, <1>5, KeptFacts
        <4>3. PICK p \in Int, a \in Nat : /\ p = COST * (Len(admitted[c]) - i + 1)
                                         /\ a = admitted[c][i]
          BY <1>3
        <4>4. p + bucket[c].tokens <= BURST + (bucket[c].refilled - a) + replayed[c]
          BY <4>1, <4>3
        <4>5. p <= (t - a) + replayed[c]
          <5>1. p <= (t - SKEW - a) + replayed[c]
            <6>1. /\ bucket[c].refilled \in Int /\ replayed[c] \in Int /\ t \in Int /\ a \in Int
                  /\ BURST \in Int /\ SKEW \in Int /\ bucket[c].tokens \in Nat
              BY <1>1, <1>2, AdmissionAssumption
            <6> QED
              BY <6>1, <4>2, <4>4, Idle
          <5>2. /\ replayed[c] \in Int /\ t \in Int /\ a \in Int
                /\ SKEW \in Nat /\ t - t <= SKEW
            BY <1>1, <1>2, AdmissionAssumption
          <5> QED
            BY <5>1, <5>2, PaidByNow
        <4> QED
          BY <4>3, <4>5
      <3>2. CASE c \notin known
        <4>1. COST * (Len(admitted[c]) - i + 1) <= (now - SKEW - admitted[c][i]) + replayed[c]
          BY <3>2 DEF AdmissionInv, ForgottenPaid
        <4>2. /\ now \in Int /\ t \in Int /\ now - t <= SKEW /\ SKEW \in Nat
              /\ replayed[c] \in Int
          BY <1>1, <1>2, AdmissionAssumption
        <4>3. admitted[c][i] \in Int /\ COST * (Len(admitted[c]) - i + 1) \in Int
          BY <1>3
        <4> QED
          BY <4>1, <4>2, <4>3, PaidByNow
      <3> QED BY <3>1, <3>2
    <2>6. ASSUME NEW i \in 1..Len(admitted[c])
          PROVE  COST * (Len(admitted[c]) - i + 1) + BURST
                    <= BURST + (t - admitted[c][i]) + (replayed[c] + 0)
      <3>1. PICK p \in Int, a \in Nat : /\ p = COST * (Len(admitted[c]) - i + 1)
                                       /\ a = admitted[c][i]
        BY <1>3
      <3>2. p <= (t - a) + replayed[c]
        BY <2>5, <3>1
      <3>3. p + BURST <= BURST + (t - a) + (replayed[c] + 0)
        BY <3>2, <1>1, <1>2, AdmissionAssumption
      <3> QED
        BY <3>1, <3>3
    <2> QED
      BY <2>1, <2>2, <2>3, <2>4, <2>6, AdmissionAssumption
  <1> QED BY <1>4, <1>5

\* One caller's part of the invariant.
Account(c) ==
    /\ c \notin Exempt => slots[c] = (IF c \in known THEN bucket[c].open ELSE 0)
    /\ c \notin Exempt => slots[c] <= CONNECTIONS
    /\ c \in known =>
        /\ c \notin Exempt
        /\ bucket[c].refilled <= now /\ bucket[c].tokens <= BURST
        /\ \A i \in 1..Len(admitted[c]) :
              COST * (Len(admitted[c]) - i + 1) + bucket[c].tokens
                  <= BURST + (bucket[c].refilled - admitted[c][i]) + replayed[c]
    /\ c \notin known => \A i \in 1..Len(admitted[c]) :
          COST * (Len(admitted[c]) - i + 1) <= (now - SKEW - admitted[c][i]) + replayed[c]
    /\ \A i, j \in 1..Len(admitted[c]) :
          i <= j => COST * (j - i + 1)
                      <= BURST + (admitted[c][j] - admitted[c][i]) + replayed[c]

LEMMA AccountsAreTheInvariant ==
    AdmissionTyped =>
        (AdmissionInv <=> total_open <= TOTAL /\ \A c \in Callers : Account(c))
  <1> SUFFICES ASSUME AdmissionTyped
               PROVE  AdmissionInv <=> total_open <= TOTAL /\ \A c \in Callers : Account(c)
    OBVIOUS
  <1>1. known \subseteq Callers
    BY DEF AdmissionTyped
  <1>2. AdmissionInv => total_open <= TOTAL /\ \A c \in Callers : Account(c)
    BY DEF AdmissionInv, CallersCounted, WithinLimits, BucketsSane, BucketsWithinBurst, KnownPaid,
       ForgottenPaid, RateBounded, Account
  <1>3. ASSUME total_open <= TOTAL, \A c \in Callers : Account(c)
        PROVE  AdmissionInv
    <2>1. CallersCounted /\ WithinLimits
      BY <1>3 DEF CallersCounted, WithinLimits, Account
    <2>2. BucketsSane
      BY <1>1, <1>3 DEF BucketsSane, BucketsWithinBurst, Account
    <2>3. KnownPaid /\ ForgottenPaid
      BY <1>1, <1>3 DEF KnownPaid, ForgottenPaid, Account
    <2>4. RateBounded
      BY <1>3 DEF RateBounded, Account
    <2> QED BY <2>1, <2>2, <2>3, <2>4 DEF AdmissionInv
  <1> QED BY <1>2, <1>3

\* The same after a step.
LEMMA AccountsAreTheInvariantAfter ==
    (AdmissionTyped =>
        (AdmissionInv <=> total_open <= TOTAL /\ \A c \in Callers : Account(c)))'
  BY AccountsAreTheInvariant, PTL

\* A decision about one caller leaves the accounts of the others balanced,
\* although its sweep may forget their buckets.
LEMMA OthersBalanced ==
    ASSUME AdmissionInv, NEW t \in Readings, NEW c \in Callers, NEW d \in Callers \ {c},
           now' = now, known' = Kept(t) \union {c},
           bucket'[d] = bucket[d], slots'[d] = slots[d],
           admitted'[d] = admitted[d], replayed'[d] = replayed[d]
    PROVE  Account(d)'
  <1>1. Account(d)
    BY AccountsAreTheInvariant DEF AdmissionInv
  <1>2. CASE d \in known /\ d \notin Kept(t)
    <2>1. bucket[d].open = 0 /\ bucket[d].refilled + BURST + SKEW <= t
      BY <1>2, KeptFacts
    <2>2. /\ bucket[d].refilled \in Int /\ bucket[d].tokens \in Nat /\ replayed[d] \in Int
          /\ t \in Int /\ now \in Int /\ t <= now /\ BURST \in Int /\ SKEW \in Int
      BY AdmissionAssumption DEF AdmissionInv, AdmissionTyped, Bucket, Readings
    <2>3. ASSUME NEW i \in 1..Len(admitted[d])
          PROVE  COST * (Len(admitted[d]) - i + 1)
                    <= (now - SKEW - admitted[d][i]) + replayed[d]
      <3>1. PICK p \in Int, a \in Int : /\ p = COST * (Len(admitted[d]) - i + 1)
                                       /\ a = admitted[d][i]
        <4>1. COST * (Len(admitted[d]) - i + 1) \in Int /\ admitted[d][i] \in Int
          BY AdmissionAssumption DEF AdmissionInv, AdmissionTyped
        <4> QED BY <4>1
      <3>2. p + bucket[d].tokens <= BURST + (bucket[d].refilled - a) + replayed[d]
        BY <1>1, <1>2, <3>1 DEF Account
      <3>3. p <= (t - SKEW - a) + replayed[d]
        BY <3>2, <2>1, <2>2, Idle
      <3>4. p <= (now - SKEW - a) + replayed[d]
        BY <3>3, <2>2
      <3> QED BY <3>1, <3>4
    <2> QED
      BY <1>1, <1>2, <2>1, <2>3 DEF Account
  <1>3. CASE d \in known <=> d \in Kept(t)
    BY <1>1, <1>3, KeptFacts DEF Account
  <1> QED BY <1>2, <1>3, KeptFacts

\* A refusal refills, and nothing else.
LEMMA RefuseBalanced ==
    ASSUME AdmissionInv, NEW c \in Callers, NEW t \in Readings, Refuse(c, t)
    PROVE  AdmissionInv'
  <1> DEFINE b == Refilled(c, t)
  <1>1. /\ b \in Bucket /\ b.refilled = t /\ b.tokens <= BURST
        /\ c \notin Exempt => b.open = slots[c]
        /\ SetBack(c, t) \in Nat
        /\ \A i \in 1..Len(admitted[c]) :
             COST * (Len(admitted[c]) - i + 1) + b.tokens
                 <= BURST + (t - admitted[c][i]) + (replayed[c] + SetBack(c, t))
    BY RefilledFacts
  <1>2. /\ c \notin Exempt /\ known' = Kept(t) \union {c}
        /\ bucket' = [bucket EXCEPT ![c] = b]
        /\ replayed' = [replayed EXCEPT ![c] = @ + SetBack(c, t)]
        /\ UNCHANGED <<now, total_open, slots, admitted>>
    BY DEF Refuse
  <1> HIDE DEF b
  <1>3. AdmissionTyped'
    BY <1>1, <1>2, KeptFacts DEF AdmissionInv, AdmissionTyped
  <1>4. \A d \in Callers \ {c} : Account(d)'
    BY <1>2, OthersBalanced DEF AdmissionInv, AdmissionTyped
  <1>5. Account(c)'
    <2>1. /\ bucket'[c] = b /\ replayed'[c] = replayed[c] + SetBack(c, t)
          /\ c \in known' /\ t <= now
      BY <1>2 DEF AdmissionInv, AdmissionTyped, Readings
    <2>2. slots[c] <= CONNECTIONS
      BY <1>2 DEF AdmissionInv, WithinLimits
    <2>3. ASSUME NEW i \in 1..Len(admitted[c]), NEW j \in 1..Len(admitted[c]), i <= j
          PROVE  COST * (j - i + 1)
                    <= BURST + (admitted[c][j] - admitted[c][i]) + (replayed[c] + SetBack(c, t))
      <3>1. PICK p \in Int, x \in Int, y \in Int :
               p = COST * (j - i + 1) /\ x = admitted[c][j] /\ y = admitted[c][i]
        <4>1. COST * (j - i + 1) \in Int
          <5>1. j - i + 1 \in Int
            OBVIOUS
          <5> QED BY <5>1, CostIsInt
        <4>2. admitted[c][j] \in Int /\ admitted[c][i] \in Int
          BY DEF AdmissionInv, AdmissionTyped
        <4> QED BY <4>1, <4>2
      <3>2. p <= BURST + (x - y) + replayed[c]
        BY <2>3, <3>1 DEF AdmissionInv, RateBounded
      <3>3. replayed[c] \in Nat
        BY DEF AdmissionInv, AdmissionTyped
      <3>4. p <= BURST + (x - y) + (replayed[c] + SetBack(c, t))
        BY <3>2, <3>3, <1>1, AdmissionAssumption
      <3> QED BY <3>1, <3>4
    <2> QED
      BY <1>1, <1>2, <2>1, <2>2, <2>3 DEF Account
  <1> QED
    BY <1>2, <1>3, <1>4, <1>5, AccountsAreTheInvariantAfter DEF AdmissionInv, WithinLimits

\* An admission takes what it costs out of a bucket that has it.
LEMMA AdmitBalanced ==
    ASSUME AdmissionInv, NEW c \in Callers, NEW t \in Readings, Admit(c, t)
    PROVE  AdmissionInv'
  <1>1. PICK b : b = Refilled(c, t)
    OBVIOUS
  <1>2. PICK back \in Nat : back = SetBack(c, t)
    BY RefilledFacts
  <1>3. /\ b \in Bucket /\ b.refilled = t /\ b.tokens <= BURST
        /\ c \notin Exempt => b.open = slots[c]
        /\ \A i \in 1..Len(admitted[c]) :
             COST * (Len(admitted[c]) - i + 1) + b.tokens
                 <= BURST + (t - admitted[c][i]) + (replayed[c] + back)
    BY <1>1, <1>2, RefilledFacts
  <1>4. PICK paid : paid = [b EXCEPT !.tokens = @ - COST, !.open = @ + 1]
    OBVIOUS
  <1>5. /\ c \notin Exempt /\ known' = Kept(t) \union {c}
        /\ bucket' = [bucket EXCEPT ![c] = paid]
        /\ total_open < TOTAL /\ total_open' = total_open + 1
        /\ slots' = [slots EXCEPT ![c] = @ + 1]
        /\ admitted' = [admitted EXCEPT ![c] = Append(@, t)]
        /\ replayed' = [replayed EXCEPT ![c] = @ + back]
        /\ now' = now
        /\ b.open < CONNECTIONS /\ b.tokens >= COST
    BY <1>1, <1>2, <1>4 DEF Admit, MayEnter
  <1>6. /\ b.tokens \in Nat /\ b.open \in Nat /\ t \in Nat /\ t <= now /\ now \in Nat
        /\ replayed[c] \in Nat /\ slots[c] \in Nat /\ admitted[c] \in Seq(Nat)
        /\ Len(admitted[c]) \in Nat
    BY <1>3 DEF AdmissionInv, AdmissionTyped, Bucket, Readings
  <1>7. /\ paid.tokens = b.tokens - COST /\ paid.open = b.open + 1 /\ paid.refilled = t
        /\ paid \in Bucket
    <2>1. PICK tok \in Nat, op \in Nat : tok = b.tokens /\ op = b.open
      BY <1>6
    <2>2. b = [tokens |-> tok, refilled |-> t, open |-> op]
      BY <1>3, <2>1 DEF Bucket
    <2>3. paid = [tokens |-> tok - COST, refilled |-> t, open |-> op + 1]
      BY <1>4, <2>2
    <2>4. tok >= COST
      BY <1>5, <2>1
    <2>5. tok - COST \in Nat /\ op + 1 \in Nat
      BY <2>4, AdmissionAssumption
    <2> QED
      BY <1>6, <2>1, <2>3, <2>5 DEF Bucket
  <1>8. AdmissionTyped'
    <2>1. known' \subseteq Callers /\ bucket' \in [Callers -> Bucket] /\ now' \in Nat
      BY <1>5, <1>7, KeptFacts DEF AdmissionInv, AdmissionTyped
    <2>2. total_open' \in Nat /\ slots' \in [Callers -> Nat]
      BY <1>5 DEF AdmissionInv, AdmissionTyped
    <2>3. admitted' \in [Callers -> Seq(Nat)]
      BY <1>5, <1>6 DEF AdmissionInv, AdmissionTyped
    <2>4. replayed' \in [Callers -> Nat]
      BY <1>5, <1>6 DEF AdmissionInv, AdmissionTyped
    <2> QED BY <2>1, <2>2, <2>3, <2>4 DEF AdmissionTyped
  <1>9. \A d \in Callers \ {c} : Account(d)'
    BY <1>5, OthersBalanced DEF AdmissionInv, AdmissionTyped
  <1>10. PICK len \in Nat : len = Len(admitted[c])
    BY <1>6
  <1>11. /\ Len(admitted'[c]) = len + 1 /\ admitted'[c][len + 1] = t
         /\ \A i \in 1..len : admitted'[c][i] = admitted[c][i] /\ admitted[c][i] \in Nat
    BY <1>5, <1>6, <1>10 DEF AdmissionInv, AdmissionTyped
  <1>12. /\ bucket'[c] = paid /\ replayed'[c] = replayed[c] + back
         /\ c \in known' /\ slots'[c] = slots[c] + 1
    BY <1>5 DEF AdmissionInv, AdmissionTyped
  <1>13. \A i \in 1..(len + 1) :
            COST * (len + 1 - i + 1) + paid.tokens
                <= BURST + (t - admitted'[c][i]) + (replayed[c] + back)
    <2>1. ASSUME NEW i \in 1..len
          PROVE  COST * (len + 1 - i + 1) + paid.tokens
                    <= BURST + (t - admitted'[c][i]) + (replayed[c] + back)
      <3>1. PICK p \in Int, a \in Int : p = COST * (len - i + 1) /\ a = admitted[c][i]
        <4>1. COST * (len - i + 1) \in Int
          <5>1. len - i + 1 \in Int
            OBVIOUS
          <5> QED BY <5>1, CostIsInt
        <4>2. admitted[c][i] \in Int
          BY <1>11
        <4> QED BY <4>1, <4>2
      <3>2. p + b.tokens <= BURST + (t - a) + (replayed[c] + back)
        BY <1>3, <1>10, <3>1
      <3>3. COST * (len + 1 - i + 1) = p + COST
        BY <3>1, AdmissionAssumption
      <3>4. (p + COST) + paid.tokens <= BURST + (t - a) + (replayed[c] + back)
        BY <3>2, <1>6, <1>7, AdmissionAssumption
      <3> QED BY <3>1, <3>3, <3>4, <1>11
    <2>2. COST * (len + 1 - (len + 1) + 1) + paid.tokens
             <= BURST + (t - admitted'[c][len + 1]) + (replayed[c] + back)
      <3>1. COST * (len + 1 - (len + 1) + 1) = COST
        BY AdmissionAssumption
      <3>2. COST + paid.tokens <= BURST + (t - t) + (replayed[c] + back)
        BY <1>3, <1>6, <1>7, AdmissionAssumption
      <3> QED BY <3>1, <3>2, <1>11
    <2> QED BY <2>1, <2>2
  <1>14. \A i, j \in 1..(len + 1) : i <= j =>
            COST * (j - i + 1)
                <= BURST + (admitted'[c][j] - admitted'[c][i]) + (replayed[c] + back)
    <2>1. ASSUME NEW i \in 1..len, NEW j \in 1..len, i <= j
          PROVE  COST * (j - i + 1)
                    <= BURST + (admitted'[c][j] - admitted'[c][i]) + (replayed[c] + back)
      <3>1. PICK p \in Int, x \in Int, y \in Int :
               p = COST * (j - i + 1) /\ x = admitted[c][j] /\ y = admitted[c][i]
        <4>1. COST * (j - i + 1) \in Int
          <5>1. j - i + 1 \in Int
            OBVIOUS
          <5> QED BY <5>1, CostIsInt
        <4>2. admitted[c][j] \in Int /\ admitted[c][i] \in Int
          BY <1>11
        <4> QED BY <4>1, <4>2
      <3>2. p <= BURST + (x - y) + replayed[c]
        BY <2>1, <3>1, <1>10 DEF AdmissionInv, RateBounded
      <3>3. replayed[c] \in Int /\ BURST \in Int
        BY <1>6, AdmissionAssumption
      <3>4. p <= BURST + (x - y) + (replayed[c] + back)
        BY <3>2, <3>3, Loosened
      <3> QED BY <3>1, <3>4, <1>11
    <2>2. ASSUME NEW i \in 1..(len + 1)
          PROVE  COST * (len + 1 - i + 1)
                    <= BURST + (admitted'[c][len + 1] - admitted'[c][i]) + (replayed[c] + back)
      <3>1. PICK p \in Int, a \in Int : p = COST * (len + 1 - i + 1) /\ a = admitted'[c][i]
        <4>1. admitted'[c][i] \in Int
          BY <1>6, <1>11
        <4>2. COST * (len + 1 - i + 1) \in Int
          <5>1. len + 1 - i + 1 \in Int
            OBVIOUS
          <5> QED BY <5>1, CostIsInt
        <4> QED BY <4>1, <4>2
      <3>2. p + paid.tokens <= BURST + (t - a) + (replayed[c] + back)
        BY <1>13, <3>1
      <3>3. paid.tokens \in Nat
        BY <1>7 DEF Bucket
      <3>4. p <= BURST + (t - a) + (replayed[c] + back)
        BY <3>2, <3>3, <1>6, AdmissionAssumption
      <3> QED BY <3>1, <3>4, <1>11
    <2>3. ASSUME NEW i \in 1..(len + 1), NEW j \in 1..(len + 1), i <= j
          PROVE  (i \in 1..len /\ j \in 1..len) \/ j = len + 1
      BY <2>3
    <2> SUFFICES ASSUME NEW i \in 1..(len + 1), NEW j \in 1..(len + 1), i <= j
                 PROVE  COST * (j - i + 1)
                    <= BURST + (admitted'[c][j] - admitted'[c][i]) + (replayed[c] + back)
      OBVIOUS
    <2>4. CASE j = len + 1
      BY <2>2, <2>4
    <2>5. CASE i \in 1..len /\ j \in 1..len
      BY <2>1, <2>5
    <2> QED BY <2>3, <2>4, <2>5
  <1>15. Account(c)'
    <2>1. slots'[c] = paid.open /\ slots'[c] <= CONNECTIONS
      BY <1>3, <1>5, <1>6, <1>7, <1>12, AdmissionAssumption
    <2>2. paid.refilled <= now /\ paid.tokens <= BURST
      BY <1>3, <1>6, <1>7, AdmissionAssumption
    <2>3. \A i \in 1..Len(admitted'[c]) :
             COST * (Len(admitted'[c]) - i + 1) + bucket'[c].tokens
                 <= BURST + (bucket'[c].refilled - admitted'[c][i]) + replayed'[c]
      BY <1>7, <1>11, <1>12, <1>13
    <2>4. \A i, j \in 1..Len(admitted'[c]) :
             i <= j => COST * (j - i + 1)
                         <= BURST + (admitted'[c][j] - admitted'[c][i]) + replayed'[c]
      BY <1>11, <1>12, <1>14
    <2>5. /\ slots'[c] = (IF c \in known' THEN bucket'[c].open ELSE 0)
          /\ slots'[c] <= CONNECTIONS
          /\ bucket'[c].refilled <= now' /\ bucket'[c].tokens <= BURST
      BY <1>5, <1>12, <2>1, <2>2
    <2> QED
      BY <1>5, <1>12, <2>3, <2>4, <2>5 DEF Account
  <1>16. total_open' <= TOTAL
    BY <1>5, AdmissionAssumption DEF AdmissionInv, AdmissionTyped
  <1> QED
    BY <1>8, <1>9, <1>15, <1>16, AccountsAreTheInvariantAfter

\* Exempt admissions, releases and time keep every account balanced.
LEMMA OtherStepsBalanced ==
    ASSUME AdmissionInv,
           Tick \/ \E c \in Callers : AdmitExempt(c) \/ Release(c)
    PROVE  AdmissionInv'
  <1>1. \A d \in Callers : Account(d)
    BY AccountsAreTheInvariant DEF AdmissionInv
  <1>2. CASE Tick
    <2>1. now' = now + 1 /\ UNCHANGED <<known, bucket, total_open, slots, admitted, replayed>>
      BY <1>2 DEF Tick
    <2>2. AdmissionTyped' /\ total_open' <= TOTAL
      BY <2>1 DEF AdmissionInv, AdmissionTyped, WithinLimits
    <2>3. ASSUME NEW d \in Callers PROVE Account(d)'
      <3>1. now \in Nat /\ (d \in known => bucket[d].refilled \in Nat)
        BY DEF AdmissionInv, AdmissionTyped, Bucket
      <3>2. ASSUME NEW i \in 1..Len(admitted[d]), d \notin known
            PROVE  COST * (Len(admitted[d]) - i + 1)
                      <= ((now + 1) - SKEW - admitted[d][i]) + replayed[d]
        <4>1. PICK p \in Int, a \in Int : /\ p = COST * (Len(admitted[d]) - i + 1)
                                          /\ a = admitted[d][i]
          <5>1. COST * (Len(admitted[d]) - i + 1) \in Int /\ admitted[d][i] \in Int
            BY AdmissionAssumption DEF AdmissionInv, AdmissionTyped
          <5> QED BY <5>1
        <4>2. p <= (now - SKEW - a) + replayed[d]
          BY <1>1, <3>2, <4>1 DEF Account
        <4>3. replayed[d] \in Nat
          BY DEF AdmissionInv, AdmissionTyped
        <4>4. p <= ((now + 1) - SKEW - a) + replayed[d]
          BY <4>2, <4>3, <3>1, AdmissionAssumption
        <4> QED BY <4>1, <4>4
      <3>3. d \in known => bucket[d].refilled <= now + 1
        BY <1>1, <3>1 DEF Account
      <3>4. Account(d)
        BY <1>1
      <3>5. d \notin known' => \A i \in 1..Len(admitted'[d]) :
               COST * (Len(admitted'[d]) - i + 1)
                   <= (now' - SKEW - admitted'[d][i]) + replayed'[d]
        <4>1. /\ known' = known /\ admitted'[d] = admitted[d] /\ replayed'[d] = replayed[d]
              /\ now' = now + 1
          BY <2>1
        <4> SUFFICES ASSUME d \notin known', NEW i \in 1..Len(admitted'[d])
                     PROVE  COST * (Len(admitted'[d]) - i + 1)
                              <= (now' - SKEW - admitted'[d][i]) + replayed'[d]
          OBVIOUS
        <4>2. COST * (Len(admitted[d]) - i + 1)
                 <= ((now + 1) - SKEW - admitted[d][i]) + replayed[d]
          BY <3>2, <4>1
        <4>3. PICK p, a, rep : /\ p = COST * (Len(admitted[d]) - i + 1)
                               /\ a = admitted[d][i] /\ rep = replayed[d]
          OBVIOUS
        <4>4. COST * (Len(admitted'[d]) - i + 1) = p /\ a = admitted'[d][i] /\ rep = replayed'[d]
          BY <4>1, <4>3
        <4>5. p <= ((now + 1) - SKEW - a) + rep
          BY <4>2, <4>3
        <4>6. now' = now + 1
          BY <4>1
        <4>7. p <= (now' - SKEW - a) + rep
          BY ONLY <4>5, <4>6
        <4> QED BY <4>4, <4>7
      <3>6. d \in known' => bucket'[d].refilled <= now'
        BY <2>1, <3>3
      <3> QED
        BY <2>1, <3>4, <3>5, <3>6 DEF Account
    <2> QED BY <2>2, <2>3, AccountsAreTheInvariantAfter
  <1>3. ASSUME NEW c \in Callers, AdmitExempt(c)
        PROVE  AdmissionInv'
    <2>1. /\ c \in Exempt /\ slots' = [slots EXCEPT ![c] = @ + 1]
          /\ total_open < TOTAL /\ total_open' = total_open + 1
          /\ UNCHANGED <<now, known, bucket, admitted, replayed>>
      BY <1>3 DEF AdmitExempt
    <2>2. AdmissionTyped' /\ total_open' <= TOTAL
      BY <2>1, AdmissionAssumption DEF AdmissionInv, AdmissionTyped
    <2>3. \A d \in Callers : d \notin Exempt => slots'[d] = slots[d]
      BY <2>1 DEF AdmissionInv, AdmissionTyped
    <2>4. \A d \in Callers : Account(d)'
      BY <1>1, <2>1, <2>3 DEF Account
    <2> QED BY <2>2, <2>4, AccountsAreTheInvariantAfter
  <1>4. ASSUME NEW c \in Callers, Release(c)
        PROVE  AdmissionInv'
    <2>1. /\ slots[c] > 0 /\ slots' = [slots EXCEPT ![c] = @ - 1]
          /\ total_open' = Less(total_open)
          /\ bucket' = IF c \in known THEN [bucket EXCEPT ![c].open = Less(@)] ELSE bucket
          /\ UNCHANGED <<now, known, admitted, replayed>>
      BY <1>4 DEF Release
    <2>2. slots[c] \in Nat /\ bucket[c] \in Bucket /\ bucket[c].open \in Nat
      BY DEF AdmissionInv, AdmissionTyped, Bucket
    <2>3. total_open' \in Nat /\ total_open' <= TOTAL
      <3>1. total_open \in Nat /\ total_open <= TOTAL
        BY DEF AdmissionInv, AdmissionTyped, WithinLimits
      <3> QED BY <2>1, <3>1, AdmissionAssumption DEF Less
    <2>4. [bucket[c] EXCEPT !.open = Less(@)] \in Bucket
      BY <2>2 DEF Bucket, Less
    <2>5. bucket' \in [Callers -> Bucket]
      BY <2>1, <2>4 DEF AdmissionInv, AdmissionTyped
    <2>6. AdmissionTyped'
      BY <2>1, <2>2, <2>3, <2>5 DEF AdmissionInv, AdmissionTyped
    <2>7. \A d \in Callers : /\ bucket'[d].tokens = bucket[d].tokens
                             /\ bucket'[d].refilled = bucket[d].refilled
      BY <2>1, <2>2 DEF AdmissionInv, AdmissionTyped, Bucket
    <2>8. ASSUME NEW d \in Callers, d \notin Exempt
          PROVE  /\ slots'[d] = IF d \in known THEN bucket'[d].open ELSE 0
                 /\ slots'[d] <= CONNECTIONS
      <3>1. CASE d # c
        <4>1. slots'[d] = slots[d] /\ bucket'[d] = bucket[d]
          BY <3>1, <2>1 DEF AdmissionInv, AdmissionTyped
        <4> QED BY <4>1, <1>1, <2>8 DEF Account
      <3>2. CASE d = c
        <4>1. c \in known /\ slots[c] = bucket[c].open /\ slots[c] <= CONNECTIONS
          BY <3>2, <1>1, <2>1, <2>8 DEF Account
        <4>2. slots'[c] = slots[c] - 1 /\ bucket'[c].open = Less(bucket[c].open)
          BY <4>1, <2>1, <2>2 DEF AdmissionInv, AdmissionTyped, Bucket
        <4> QED BY <3>2, <4>1, <4>2, <2>1, <2>2, AdmissionAssumption DEF Less
      <3> QED BY <3>1, <3>2
    <2>9. \A d \in Callers : Account(d)'
      BY <1>1, <2>1, <2>7, <2>8 DEF Account
    <2> QED BY <2>3, <2>6, <2>9, AccountsAreTheInvariantAfter
  <1> QED BY <1>2, <1>3, <1>4

\* The initial state balances, and every step keeps the balance.
LEMMA AdmissionInductive == Spec => []AdmissionInv
  <1>1. Init => AdmissionInv
    BY AdmissionAssumption DEF Init, AdmissionInv, AdmissionTyped, CallersCounted,
       WithinLimits, BucketsSane, BucketsWithinBurst, KnownPaid, ForgottenPaid, RateBounded, Bucket
  <1>2. AdmissionInv /\ [Next]_vars => AdmissionInv'
    <2> SUFFICES ASSUME AdmissionInv, [Next]_vars PROVE AdmissionInv'
      OBVIOUS
    <2>1. CASE UNCHANGED vars
      BY <2>1 DEF vars, AdmissionInv, AdmissionTyped, CallersCounted, WithinLimits,
         BucketsSane, BucketsWithinBurst, KnownPaid, ForgottenPaid, RateBounded
    <2> QED
      BY <2>1, AdmitBalanced, RefuseBalanced, OtherStepsBalanced DEF Next
  <1> QED
    BY <1>1, <1>2, PTL DEF Spec

\* No count goes below zero, no bucket ever holds more than the burst, and none
\* remembers a time the clock has not shown.
THEOREM AdmissionTypes == Spec => []AdmissionTypeOK
  <1>1. AdmissionInv => AdmissionTypeOK
    BY DEF AdmissionInv, BucketsSane, BucketsWithinBurst, AdmissionTypeOK
  <1> QED
    BY <1>1, AdmissionInductive, PTL

\* No caller ever holds more than its share open, nor all of them more than the
\* total, through every sweep of the table.
THEOREM LimitsAreKept == Spec => []WithinLimits
  <1>1. AdmissionInv => WithinLimits
    BY DEF AdmissionInv
  <1> QED
    BY <1>1, AdmissionInductive, PTL

\* No caller is let in faster than its burst and its rate allow, counted between
\* any two of its admissions, but for ticks replayed by calls that took the lock
\* out of order.
THEOREM AdmissionHolds == Spec => []RateBounded
  <1>1. AdmissionInv => RateBounded
    BY DEF AdmissionInv
  <1> QED
    BY <1>1, AdmissionInductive, PTL

-----------------------------------------------------------------------------
(* The total.                                                              *)

\* A caller's guards are numbered from 1 to slots[c].
LEMMA GuardIs ==
    ASSUME NEW c \in Callers, NEW k
    PROVE  <<c, k>> \in Guards <=> k \in 1..slots[c]
  BY DEF Guards

\* Every guard is a caller and a number.
LEMMA GuardsArePairs ==
    ASSUME NEW g \in Guards
    PROVE  \E c \in Callers : \E k \in 1..slots[c] : g = <<c, k>>
  BY DEF Guards

\* Two sets of guards with the same pairs are the same.
LEMMA SamePairs ==
    ASSUME NEW S, NEW T,
           \A g \in S : \E c \in Callers : \E k \in Int : g = <<c, k>>,
           \A g \in T : \E c \in Callers : \E k \in Int : g = <<c, k>>,
           \A c \in Callers : \A k \in Int : <<c, k>> \in S <=> <<c, k>> \in T
    PROVE  S = T
  OBVIOUS

\* An admission, through a bucket or not, adds one guard.
LEMMA GuardAdded ==
    ASSUME AdmissionTyped, NEW c \in Callers, slots' = [slots EXCEPT ![c] = @ + 1]
    PROVE  Guards' = Guards \union {<<c, slots[c] + 1>>} /\ <<c, slots[c] + 1>> \notin Guards
  <1>1. slots[c] \in Nat /\ slots'[c] = slots[c] + 1
    BY DEF AdmissionTyped
  <1>2. \A d \in Callers : slots[d] \in Nat /\ slots'[d] \in Nat
    BY DEF AdmissionTyped
  <1>3. <<c, slots[c] + 1>> \notin Guards
    BY <1>1, GuardIs
  <1>4. ASSUME NEW d \in Callers, NEW k \in Int
        PROVE  <<d, k>> \in Guards' <=> <<d, k>> \in Guards \union {<<c, slots[c] + 1>>}
    <2>1. <<d, k>> \in Guards' <=> k \in 1..slots'[d]
      BY DEF Guards
    <2>2. <<d, k>> \in Guards <=> k \in 1..slots[d]
      BY GuardIs
    <2>3. CASE d = c
      <3>1. k \in 1..slots'[d] <=> (k \in 1..slots[d] \/ k = slots[c] + 1)
        BY <1>1, <2>3
      <3> QED BY <2>1, <2>2, <2>3, <3>1
    <2>4. CASE d # c
      <3>1. slots'[d] = slots[d]
        BY <2>4 DEF AdmissionTyped
      <3> QED BY <2>1, <2>2, <2>4, <3>1
    <2> QED BY <2>3, <2>4
  <1>5. \A g \in Guards' : \E d \in Callers : \E k \in Int : g = <<d, k>>
    BY DEF Guards
  <1>6. \A g \in Guards \union {<<c, slots[c] + 1>>} : \E d \in Callers : \E k \in Int : g = <<d, k>>
    BY <1>1, GuardsArePairs
  <1> QED BY <1>3, <1>4, <1>5, <1>6, SamePairs

\* A release takes one away.
LEMMA GuardTaken ==
    ASSUME AdmissionTyped, NEW c \in Callers, slots[c] > 0,
           slots' = [slots EXCEPT ![c] = @ - 1]
    PROVE  Guards' = Guards \ {<<c, slots[c]>>} /\ <<c, slots[c]>> \in Guards
  <1>1. slots[c] \in Nat /\ slots'[c] = slots[c] - 1
    BY DEF AdmissionTyped
  <1>2. \A d \in Callers : slots[d] \in Nat
    BY DEF AdmissionTyped
  <1>3. <<c, slots[c]>> \in Guards
    BY <1>1, GuardIs
  <1>4. ASSUME NEW d \in Callers, NEW k \in Int
        PROVE  <<d, k>> \in Guards' <=> <<d, k>> \in Guards \ {<<c, slots[c]>>}
    <2>1. <<d, k>> \in Guards' <=> k \in 1..slots'[d]
      BY DEF Guards
    <2>2. <<d, k>> \in Guards <=> k \in 1..slots[d]
      BY GuardIs
    <2>3. CASE d = c
      <3>1. k \in 1..slots'[d] <=> (k \in 1..slots[d] /\ k # slots[c])
        BY <1>1, <2>3
      <3> QED BY <2>1, <2>2, <2>3, <3>1
    <2>4. CASE d # c
      <3>1. slots'[d] = slots[d]
        BY <2>4 DEF AdmissionTyped
      <3> QED BY <2>1, <2>2, <2>4, <3>1
    <2> QED BY <2>3, <2>4
  <1>5. \A g \in Guards' : \E d \in Callers : \E k \in Int : g = <<d, k>>
    BY DEF Guards
  <1>6. \A g \in Guards \ {<<c, slots[c]>>} : \E d \in Callers : \E k \in Int : g = <<d, k>>
    BY GuardsArePairs
  <1> QED BY <1>3, <1>4, <1>5, <1>6, SamePairs

\* The guards are finitely many, and total_open is their number.
TotalInv == IsFiniteSet(Guards) /\ TotalCounted

\* Every step keeps the total: an admission adds a guard and a unit, a release
\* takes a guard and so finds a unit to take.
LEMMA TotalKept ==
    ASSUME AdmissionInv, TotalInv, [Next]_vars
    PROVE  TotalInv'
  <1>1. CASE slots' = slots /\ total_open' = total_open
    <2>1. Guards' = Guards
      BY <1>1 DEF Guards
    <2> QED BY <1>1, <2>1 DEF TotalInv, TotalCounted
  <1>2. ASSUME NEW c \in Callers, slots' = [slots EXCEPT ![c] = @ + 1],
               total_open' = total_open + 1
        PROVE  TotalInv'
    <2>1. Guards' = Guards \union {<<c, slots[c] + 1>>} /\ <<c, slots[c] + 1>> \notin Guards
      BY <1>2, GuardAdded DEF AdmissionInv
    <2>2. IsFiniteSet(Guards') /\ Cardinality(Guards') = Cardinality(Guards) + 1
      BY <2>1, FS_AddElement DEF TotalInv
    <2> QED BY <1>2, <2>2 DEF TotalInv, TotalCounted
  <1>3. ASSUME NEW c \in Callers, Release(c)
        PROVE  TotalInv'
    <2>1. slots[c] > 0 /\ slots' = [slots EXCEPT ![c] = @ - 1] /\ total_open' = Less(total_open)
      BY <1>3 DEF Release
    <2>2. Guards' = Guards \ {<<c, slots[c]>>} /\ <<c, slots[c]>> \in Guards
      BY <2>1, GuardTaken DEF AdmissionInv
    <2>3. IsFiniteSet(Guards') /\ Cardinality(Guards') = Cardinality(Guards) - 1
      BY <2>2, FS_RemoveElement DEF TotalInv
    <2>4. Cardinality(Guards') \in Nat /\ Cardinality(Guards) \in Nat
      BY <2>3, FS_CardinalityType DEF TotalInv
    <2>5. Less(total_open) = total_open - 1
      BY <2>3, <2>4 DEF TotalInv, TotalCounted, Less
    <2> QED BY <2>1, <2>3, <2>5 DEF TotalInv, TotalCounted
  <1>4. \/ slots' = slots /\ total_open' = total_open
        \/ \E c \in Callers : /\ slots' = [slots EXCEPT ![c] = @ + 1]
                              /\ total_open' = total_open + 1
        \/ \E c \in Callers : Release(c)
    BY DEF Next, vars, AdmitExempt, Admit, Refuse, Tick
  <1> QED BY <1>1, <1>2, <1>3, <1>4

\* The saturating counts never saturate: total_open is the number of guards
\* alive, of exempt callers too, and the count in a caller's bucket is the
\* number of its own, through every sweep of the table.
THEOREM OpenCountsAreExact == Spec => []OpenIsCounted
  <1>1. Init => TotalInv
    <2> SUFFICES ASSUME Init PROVE TotalInv
      OBVIOUS
    <2>1. Guards = {}
      <3>1. \A c \in Callers : slots[c] = 0
        BY DEF Init
      <3>2. ASSUME NEW g \in Guards PROVE FALSE
        BY <3>1, GuardsArePairs
      <3> QED BY <3>2
    <2>2. total_open = 0
      BY DEF Init
    <2> QED BY <2>1, <2>2, FS_EmptySet DEF TotalInv, TotalCounted
  <1>2. AdmissionInv /\ TotalInv /\ [Next]_vars => TotalInv'
    BY TotalKept
  <1>3. AdmissionInv /\ TotalInv => OpenIsCounted
    BY DEF AdmissionInv, TotalInv, OpenIsCounted
  <1> QED
    BY <1>1, <1>2, <1>3, AdmissionInductive, PTL DEF Spec
=============================================================================
