-------------------------- MODULE ConversationProofs --------------------------
(***************************************************************************)
(* The two member rule and the admin rule, for any number of devices,      *)
(* founders, commits and restarts.                                         *)
(*                                                                         *)
(* UnlawfulAdmissionIsUnfollowed is not inductive: a restart goes back to  *)
(* the session on disk, so that one must stand on the lawful side too; a   *)
(* device that settles what it holds moves along its own commit only       *)
(* because what is held was made at the epoch the device is at; and what   *)
(* lies behind an epoch never changes only because commits are made once.  *)
(*                                                                         *)
(* That two members converge rests on a second invariant, PairInv, of the  *)
(* commits that are stood by: where the maker of each is, that a maker     *)
(* stands by one at an epoch, and that of two members one goes along its   *)
(* own at most.                                                            *)
(***************************************************************************)
EXTENDS Conversation, FiniteSetTheorems, TLAPS

Places == Made \union {0}

Unlawful(h) == LoneAdmission(h) \/ AdmissionByOther(h)

\* Of the way to e, what d went along after it came in.
Follows(d, e) ==
    \A h \in Path(e) \ Path(joined[d]) : Unlawful(h) => made[h].by = d

CommitsWellFormed ==
    \A h \in Made : /\ made[h].on \in Places
                    /\ made[h].path = Path(made[h].on) \union {h}
                    /\ made[h].path \subseteq Places
                    /\ 0 \in made[h].path

PlacesExist ==
    \A d \in Devices : /\ at[d] # None => at[d] \in Places /\ joined[d] \in Places
                       /\ saved[d].at # None => saved[d].at \in Places /\ joined[d] \in Places
                       /\ at[d] = None => saved[d].at = None

HeldIsOwn ==
    \A d \in Devices : pending[d] # None =>
        pending[d] \in Made /\ made[pending[d]].by = d /\ made[pending[d]].on = at[d]

MailExists ==
    \A d \in Devices : \A m \in mail[d] : m.kind # "proposal" => m.hash \in Made

Lawful ==
    \A d \in Devices : /\ at[d] # None => Follows(d, at[d])
                       /\ saved[d].at # None => Follows(d, saved[d].at)

ConversationInv ==
    /\ ConversationTypeOK
    /\ CommitsWellFormed
    /\ PlacesExist
    /\ HeldIsOwn
    /\ MailExists
    /\ Lawful

-----------------------------------------------------------------------------
(* Operators.                                                              *)

\* Session::sync_tag_keys keeps at most TAG_EPOCH_MEMORY keys.
LEMMA RememberType ==
    ASSUME NEW ks \in TagKeys, NEW e \in Epochs
    PROVE  Remember(ks, e) \in TagKeys
<1>0. ks \in Seq(Epochs) /\ Len(ks) <= TAG_EPOCH_MEMORY
    BY DEF TagKeys
<1>1. /\ Append(ks, e) \in Seq(Epochs)
      /\ Len(Append(ks, e)) = Len(ks) + 1
      /\ Len(ks) \in Nat
    BY <1>0
<1>2. CASE Len(Append(ks, e)) > TAG_EPOCH_MEMORY
    <2>1. Append(ks, e) # <<>>
        BY <1>1
    <2>2. /\ Tail(Append(ks, e)) \in Seq(Epochs)
          /\ Len(Tail(Append(ks, e))) = Len(ks)
        BY <1>0, <1>1, <2>1
    <2> QED
        BY <1>0, <1>1, <1>2, <2>2 DEF Remember, TagKeys
<1>3. CASE ~(Len(Append(ks, e)) > TAG_EPOCH_MEMORY)
    BY <1>1, <1>3, <1>0, ConversationAssumption DEF Remember, TagKeys
<1> QED
    BY <1>2, <1>3

\* What an epoch is made of, wherever a device may be.
LEMMA PlaceType ==
    ASSUME ConversationInv, NEW e \in Places
    PROVE  e \in Epochs /\ Path(e) \subseteq Places /\ Path(e) \subseteq Epochs
           /\ Members(e) \subseteq Devices /\ Admins(e) \in AdminLists
<1>1. CASE e = 0
    <2>1. FirstAdmins \in AdminLists
        BY ConversationAssumption
    <2> QED
        BY <1>1, <2>1, ConversationAssumption DEF Path, Members, Admins, Places, Epochs
<1>2. CASE e \in Made
    <2>1. e \in Hashes /\ made[e] \in Commit /\ e # 0
        BY <1>2, ConversationAssumption DEF ConversationInv, ConversationTypeOK, Made
    <2> QED
        BY <1>2, <2>1
           DEF ConversationInv, CommitsWellFormed, Path, Members, Admins, Places, Epochs, Commit
<1> QED
    BY <1>1, <1>2 DEF Places

\* Every way begins at the first epoch.
LEMMA RootInPath ==
    ASSUME ConversationInv, NEW e \in Places
    PROVE  0 \in Path(e)
<1>1. e # 0 => e \in Made
    BY DEF Places
<1> QED
    BY <1>1 DEF ConversationInv, CommitsWellFormed, Path

\* The rule a device asks before it merges is the rule of the commit.
LEMMA RefusedIsUnlawful ==
    ASSUME NEW d \in Devices, NEW h \in Made, made[h].on = at[d]
    PROVE  Refused(d, made[h]) <=> Unlawful(h)
BY DEF Refused, AddedOnOneAuthority, AddedBySomebodyWhoMayNot, Unlawful, LoneAdmission,
       AdmissionByOther

-----------------------------------------------------------------------------
(* A new commit leaves everything that was there as it is.                 *)

\* The commit a device makes at its own epoch is one, and leads on from there.
LEMMA CommitByType ==
    ASSUME ConversationInv, NEW d \in Devices, NEW h \in Hashes,
           NEW own \in SUBSET Proposal, NEW removes, NEW names \in AdminLists, at[d] # None
    PROVE  /\ CommitBy(d, h, own, removes, names) \in Commit
           /\ CommitBy(d, h, own, removes, names).by = d
           /\ CommitBy(d, h, own, removes, names).on = at[d]
           /\ CommitBy(d, h, own, removes, names).path = Path(at[d]) \union {h}
<1>1. at[d] \in Places
    BY DEF ConversationInv, PlacesExist
<1>2. at[d] \in Epochs /\ Path(at[d]) \subseteq Epochs /\ Members(at[d]) \subseteq Devices
    BY <1>1, PlaceType
<1>3. proposals[d] \in SUBSET Proposal
    BY DEF ConversationInv, ConversationTypeOK
<1>4. \A p \in own \union proposals[d] : p.who \in Devices
    BY <1>3 DEF Proposal
<1>5. (Members(at[d]) \union {p.who : p \in own \union proposals[d]}) \ removes \in SUBSET Devices
    BY <1>2, <1>4
<1>6. Path(at[d]) \union {h} \in SUBSET Epochs
    BY <1>2 DEF Epochs
<1> QED
    BY <1>2, <1>3, <1>5, <1>6 DEF CommitBy, Commit

\* The commits, the epochs and what is said of them, before and after.
Grown(h) ==
    /\ made' \in [Hashes -> Commit \union {None}]
    /\ Made' = Made \union {h}
    /\ \A g \in Made : made'[g] = made[g]
    /\ \A e \in Places : Path(e)' = Path(e) /\ Members(e)' = Members(e) /\ Admins(e)' = Admins(e)
    /\ \A g \in Made : Unlawful(g)' <=> Unlawful(g)

LEMMA MadeGrows ==
    ASSUME ConversationInv, NEW h \in Hashes \ Made, NEW c \in Commit,
           made' = [made EXCEPT ![h] = c]
    PROVE  Grown(h)
<1>1. made \in [Hashes -> Commit \union {None}] /\ h \in Hashes
    BY DEF ConversationInv, ConversationTypeOK
<1>2. made' \in [Hashes -> Commit \union {None}] /\ made'[h] = c
      /\ \A g \in Hashes : g # h => made'[g] = made[g]
    BY <1>1
<1>3. c # None /\ made[h] = None
    BY <1>1, NoneAssumption DEF Made
<1>4. Made' = Made \union {h}
    BY <1>1, <1>2, <1>3 DEF Made
<1>5. \A g \in Made : made'[g] = made[g]
    BY <1>2 DEF Made
<1>6. \A e \in Places : Path(e)' = Path(e) /\ Members(e)' = Members(e) /\ Admins(e)' = Admins(e)
    BY <1>5 DEF Places, Path, Members, Admins
<1>7. ASSUME NEW g \in Made
      PROVE  Unlawful(g)' <=> Unlawful(g)
    <2>1. made[g].on \in Places /\ made'[g] = made[g]
        BY <1>5 DEF ConversationInv, CommitsWellFormed
    <2>2. PICK e \in Places : e = made[g].on
        BY <2>1
    <2>3. made'[g].on = e /\ Members(e)' = Members(e) /\ Admins(e)' = Admins(e)
        BY <1>6, <2>1, <2>2
    <2>4. LoneAdmission(g)' <=> LoneAdmission(g)
        BY <2>1, <2>2, <2>3 DEF LoneAdmission, Members
    <2>5. AdmissionByOther(g)' <=> AdmissionByOther(g)
        BY <2>1, <2>2, <2>3 DEF AdmissionByOther, AdminRuleApplies, Members, Admins
    <2> QED
        BY <2>4, <2>5 DEF Unlawful
<1> QED
    BY <1>2, <1>4, <1>5, <1>6, <1>7 DEF Grown

\* The epochs there were are what they were.
Stable ==
    /\ Made \subseteq Made'
    /\ \A g \in Made : made'[g] = made[g]
    /\ \A e \in Places : Path(e)' = Path(e)
    /\ \A g \in Made : Unlawful(g)' <=> Unlawful(g)

LEMMA GrownIsStable ==
    ASSUME NEW h, Grown(h)
    PROVE  Stable
BY DEF Grown, Stable

LEMMA UnchangedIsStable ==
    ASSUME UNCHANGED made
    PROVE  Stable
<1>1. made' = made
    OBVIOUS
<1> QED
    BY <1>1 DEF Stable, Made, Path, Unlawful, LoneAdmission, AdmissionByOther, AdminRuleApplies,
                Members, Admins

\* A way that was lawful stays lawful.
LEMMA FollowsKept ==
    ASSUME ConversationInv, Stable, NEW d \in Devices, NEW e \in Places,
           joined'[d] = joined[d], joined[d] \in Places, Follows(d, e)
    PROVE  Follows(d, e)'
<1>1. PICK j \in Places : j = joined[d]
    OBVIOUS
<1>2. Path(e)' = Path(e) /\ Path(j)' = Path(j) /\ joined'[d] = j
    BY <1>1 DEF Stable
<1>3. Path(e) \subseteq Places /\ 0 \in Path(j)
    BY PlaceType, <1>1, RootInPath
<1>4. ASSUME NEW h \in Path(e) \ Path(j), Unlawful(h)'
      PROVE  made'[h].by = d
    <2>1. h \in Made
        BY <1>3 DEF Places
    <2>2. made'[h] = made[h] /\ Unlawful(h)
        BY <1>4, <2>1 DEF Stable
    <2> QED
        BY <1>1, <2>2 DEF Follows
<1>5. \A h \in Path(e)' \ Path(j)' : Unlawful(h)' => made'[h].by = d
    BY <1>2, <1>4
<1> QED
    BY <1>2, <1>5 DEF Follows, Path

\* One step along a commit of one's own.
LEMMA OwnStep ==
    ASSUME ConversationInv, Stable, NEW d \in Devices, at[d] # None, joined'[d] = joined[d],
           NEW h \in Hashes, made'[h].by = d, made'[h].path = Path(at[d]) \union {h}
    PROVE  Follows(d, h)'
<1>1. at[d] \in Places /\ joined[d] \in Places /\ Follows(d, at[d])
    BY DEF ConversationInv, PlacesExist, Lawful
<1>2. PICK e \in Places : e = at[d]
    BY <1>1
<1>3. Follows(d, e)' /\ Path(e)' = Path(e)
    BY <1>1, <1>2, FollowsKept DEF Stable
<1>4. h # 0
    BY ConversationAssumption
<1>5. Path(h)' = Path(e)' \union {h}
    BY <1>2, <1>3, <1>4 DEF Path
<1> QED
    BY <1>3, <1>5 DEF Follows

\* One step along somebody else's lawful commit.
LEMMA LawfulStep ==
    ASSUME ConversationInv, Stable, NEW d \in Devices, at[d] # None, joined'[d] = joined[d],
           NEW h \in Made, made[h].on = at[d], ~Unlawful(h)
    PROVE  Follows(d, h)'
<1>1. at[d] \in Places /\ joined[d] \in Places /\ Follows(d, at[d])
    BY DEF ConversationInv, PlacesExist, Lawful
<1>2. PICK e \in Places : e = at[d]
    BY <1>1
<1>3. Follows(d, e)' /\ Path(e)' = Path(e)
    BY <1>1, <1>2, FollowsKept DEF Stable
<1>4. h # 0 /\ made'[h] = made[h] /\ made[h].path = Path(e) \union {h} /\ ~Unlawful(h)'
    BY <1>2, ConversationAssumption DEF Stable, ConversationInv, CommitsWellFormed, Made
<1>5. Path(h)' = Path(e)' \union {h}
    BY <1>3, <1>4 DEF Path
<1> QED
    BY <1>3, <1>4, <1>5 DEF Follows

\* Where a device may be after a step, and what it may have written down.
Moved(e) ==
    /\ joined'[e] = joined[e]
    /\ \/ at'[e] = at[e]
       \/ at'[e] = saved[e].at
       \/ at[e] # None /\ at'[e] \in Places' /\ Follows(e, at[e])'
    /\ saved'[e].at = saved[e].at \/ saved'[e].at = at'[e]

LEMMA MovedIsLawful ==
    ASSUME ConversationInv, Stable, \A e \in Devices : Moved(e)
    PROVE  PlacesExist' /\ Lawful'
<1>1. Places \subseteq Places'
    BY DEF Stable, Places
<1>2. ASSUME NEW d \in Devices, NEW e, e \in {at[d], saved[d].at}, e # None
      PROVE  e \in Places' /\ joined'[d] \in Places' /\ Follows(d, e)'
    <2>1. e \in Places /\ joined[d] \in Places /\ Follows(d, e)
        BY <1>2 DEF ConversationInv, PlacesExist, Lawful
    <2>2. joined'[d] = joined[d]
        BY DEF Moved
    <2> QED
        BY <1>1, <2>1, <2>2, FollowsKept
<1>3. ASSUME NEW d \in Devices, NEW e, e = at'[d], e # None
      PROVE  e \in Places' /\ joined'[d] \in Places' /\ Follows(d, e)'
    <2>1. CASE e \in {at[d], saved[d].at}
        BY <1>2, <1>3, <2>1
    <2>2. CASE at[d] # None /\ at'[d] \in Places' /\ Follows(d, at[d])'
        <3>1. joined'[d] = joined[d] /\ joined[d] \in Places
            BY <2>2 DEF Moved, ConversationInv, PlacesExist
        <3>2. Follows(d, e)'
            BY <1>3, <2>2 DEF Follows, Path
        <3> QED
            BY <1>1, <1>3, <2>2, <3>1, <3>2
    <2> QED
        BY <1>3, <2>1, <2>2 DEF Moved
<1>4. ASSUME NEW d \in Devices, NEW e, e = saved'[d].at, e # None
      PROVE  e \in Places' /\ joined'[d] \in Places' /\ Follows(d, e)'
    BY <1>2, <1>3, <1>4 DEF Moved
<1>5. PlacesExist'
    <2>1. None \notin Places'
        BY ConversationAssumption DEF Places, Made
    <2>2. ASSUME NEW d \in Devices, at'[d] = None
          PROVE  saved'[d].at = None
        BY <2>1, <2>2 DEF Moved, ConversationInv, PlacesExist
    <2> QED
        BY <1>3, <1>4, <2>2 DEF PlacesExist
<1>6. ASSUME NEW d \in Devices, at'[d] # None
      PROVE  Follows(d, at[d])'
    <2>1. PICK e : e = at'[d]
        OBVIOUS
    <2>2. Follows(d, e)'
        BY <1>3, <1>6, <2>1
    <2> QED
        BY <2>1, <2>2 DEF Follows, Path
<1>7. ASSUME NEW d \in Devices, saved'[d].at # None
      PROVE  Follows(d, saved[d].at)'
    <2>1. PICK e : e = saved'[d].at
        OBVIOUS
    <2>2. Follows(d, e)'
        BY <1>4, <1>7, <2>1
    <2> QED
        BY <2>1, <2>2 DEF Follows, Path
<1> QED
    BY <1>5, <1>6, <1>7 DEF Lawful

-----------------------------------------------------------------------------
(* The pieces actions are made of.                                         *)

\* A commit is made, whatever list of admins it names.
Commits(d, h, own, removes) ==
    \E names \in AdminLists : MakeNaming(d, h, own, removes, names)

\* A commit that names nobody anew hands on the list of its epoch.
LEMMA MakeCommits ==
    ASSUME ConversationInv, NEW d \in Devices, NEW h, NEW own, NEW removes,
           Make(d, h, own, removes)
    PROVE  Commits(d, h, own, removes)
<1>1. at[d] \in Places
    BY DEF Make, MakeNaming, MayCommit, InGroup, ConversationInv, PlacesExist
<1>2. Admins(at[d]) \in AdminLists
    BY <1>1, PlaceType
<1> QED
    BY <1>2 DEF Make, Commits

LEMMA MakeKeeps ==
    ASSUME ConversationInv, NEW d \in Devices, NEW h \in Hashes \ Made,
           NEW own \in SUBSET Proposal, NEW removes, Commits(d, h, own, removes)
    PROVE  /\ Grown(h) /\ Stable /\ CommitsWellFormed'
           /\ made'[h].by = d /\ made'[h].on = at[d]
           /\ made'[h].path = Path(at[d]) \union {h}
           /\ at[d] # None /\ at[d] \in Places /\ h \in Made'
<1>0. PICK names \in AdminLists : MakeNaming(d, h, own, removes, names)
    BY DEF Commits
<1> DEFINE c == CommitBy(d, h, own, removes, names)
<1>1. at[d] # None /\ at[d] \in Places /\ made' = [made EXCEPT ![h] = c]
    BY <1>0 DEF MakeNaming, MayCommit, InGroup, ConversationInv, PlacesExist
<1>2. c \in Commit /\ c.by = d /\ c.on = at[d] /\ c.path = Path(at[d]) \union {h}
    BY <1>1, CommitByType
<1> HIDE DEF c
<1>3. Grown(h)
    BY <1>1, <1>2, MadeGrows
<1>4. Stable
    BY <1>3, GrownIsStable
<1>5. made'[h] = c
    BY <1>1 DEF ConversationInv, ConversationTypeOK
<1>6. PICK o \in Places : o = at[d]
    BY <1>1
<1>7. Path(o)' = Path(o) /\ Path(o) \subseteq Places /\ 0 \in Path(o)
    BY <1>4, PlaceType, RootInPath DEF Stable
<1>8. Places' = Places \union {h}
    BY <1>3 DEF Grown, Places
<1>9. ASSUME NEW g \in Made'
      PROVE  /\ made'[g].on \in Places'
             /\ made'[g].path = Path(made[g].on)' \union {g}
             /\ made'[g].path \subseteq Places'
             /\ 0 \in made'[g].path
    <2>1. CASE g = h
        <3>1. made'[g].on = o /\ made'[g].path = Path(o) \union {g}
            BY <1>2, <1>5, <1>6, <2>1
        <3>2. Path(made[g].on)' = Path(o)'
            BY <3>1 DEF Path
        <3> QED
            BY <1>7, <1>8, <2>1, <3>1, <3>2
    <2>2. CASE g \in Made
        <3>1. made'[g] = made[g]
            BY <1>4, <2>2 DEF Stable
        <3>2. /\ made[g].on \in Places /\ made[g].path = Path(made[g].on) \union {g}
              /\ made[g].path \subseteq Places /\ 0 \in made[g].path
            BY <2>2 DEF ConversationInv, CommitsWellFormed
        <3>3. PICK e \in Places : e = made[g].on
            BY <3>2
        <3>4. Path(made[g].on)' = Path(e)' /\ Path(e)' = Path(e)
            BY <1>4, <3>1, <3>3 DEF Stable, Path
        <3> QED
            BY <1>8, <3>1, <3>2, <3>3, <3>4
    <2> QED
        BY <1>3, <2>1, <2>2 DEF Grown
<1>10. CommitsWellFormed'
    BY <1>9 DEF CommitsWellFormed
<1> QED
    BY <1>1, <1>2, <1>3, <1>4, <1>5, <1>10 DEF Grown

\* Nothing new is made.
LEMMA NothingMade ==
    ASSUME ConversationInv, UNCHANGED made
    PROVE  Stable /\ CommitsWellFormed' /\ made' \in [Hashes -> Commit \union {None}]
           /\ Made' = Made /\ Places' = Places
<1>1. made' = made
    OBVIOUS
<1> QED
    BY <1>1, UnchangedIsStable
       DEF ConversationInv, ConversationTypeOK, CommitsWellFormed, Made, Places, Path

LEMMA SaveType ==
    ASSUME saved \in [Devices -> Session], NEW d \in Devices,
           at'[d] \in Epochs \union {None}, keys'[d] \in TagKeys,
           proposals'[d] \in SUBSET Proposal,
           Save(d) \/ UNCHANGED saved
    PROVE  /\ saved' \in [Devices -> Session]
           /\ saved'[d].at \in {saved[d].at, at'[d]}
           /\ \A e \in Devices \ {d} : saved'[e] = saved[e]
<1>1. CASE Save(d)
    <2> DEFINE s == [at |-> at'[d], keys |-> keys'[d], proposals |-> proposals'[d]]
    <2>1. s \in Session /\ s.at = at'[d]
          /\ (saved' = [saved EXCEPT ![d] = s] \/ UNCHANGED saved)
        BY <1>1 DEF Session, Save
    <2> HIDE DEF s
    <2> QED
        BY <2>1
<1>2. CASE UNCHANGED saved
    BY <1>2
<1> QED
    BY <1>1, <1>2

LEMMA EnterType ==
    ASSUME ConversationTypeOK, NEW d \in Devices, NEW h \in Hashes, Enter(d, h)
    PROVE  /\ at' \in [Devices -> Epochs \union {None}]
           /\ last' \in [Devices -> Epochs \union {None}]
           /\ proposals' \in [Devices -> SUBSET Proposal]
           /\ keys' \in [Devices -> TagKeys]
           /\ at'[d] = h /\ \A e \in Devices \ {d} : at'[e] = at[e]
<1>1. h \in Epochs
    BY DEF Epochs
<1>2. Remember(keys[d], h) \in TagKeys
    BY <1>1, RememberType DEF ConversationTypeOK
<1>3. /\ at \in [Devices -> Epochs \union {None}] /\ last \in [Devices -> Epochs \union {None}]
      /\ proposals \in [Devices -> SUBSET Proposal] /\ keys \in [Devices -> TagKeys]
    BY DEF ConversationTypeOK
<1>4. /\ at' = [at EXCEPT ![d] = h] /\ last' = [last EXCEPT ![d] = h]
      /\ proposals' = [proposals EXCEPT ![d] = {}]
      /\ keys' = [keys EXCEPT ![d] = Remember(keys[d], h)]
    BY DEF Enter
<1> QED
    BY <1>1, <1>2, <1>3, <1>4

\* Mail about a commit that was made.
LEMMA MailAdded ==
    ASSUME ConversationInv, Made \subseteq Made',
           NEW ms \in SUBSET Message, \A m \in ms : m.kind # "proposal" => m.hash \in Made',
           mail' = [e \in Devices |-> mail'[e]],
           \A e \in Devices : mail'[e] \subseteq mail[e] \union ms
    PROVE  mail' \in [Devices -> SUBSET Message] /\ MailExists'
<1>1. mail \in [Devices -> SUBSET Message]
    BY DEF ConversationInv, ConversationTypeOK
<1>2. \A e \in Devices : mail'[e] \subseteq Message
    BY <1>1
<1>3. mail' \in [Devices -> SUBSET Message]
    BY <1>2
<1>4. ASSUME NEW e \in Devices, NEW m \in mail'[e], m.kind # "proposal"
      PROVE  m.hash \in Made'
    BY <1>4 DEF ConversationInv, MailExists
<1> QED
    BY <1>3, <1>4 DEF MailExists

LEMMA DepositKeeps ==
    ASSUME ConversationInv, Made \subseteq Made', NEW d, NEW to, NEW m \in Message,
           m.kind # "proposal" => m.hash \in Made', Deposit(d, to, m)
    PROVE  mail' \in [Devices -> SUBSET Message] /\ MailExists'
<1>1. \A e \in Devices : mail'[e] \subseteq mail[e] \union {m}
    BY DEF Deposit
<1>2. mail' = [e \in Devices |-> mail'[e]]
    BY DEF Deposit
<1> QED
    BY <1>1, <1>2, MailAdded

LEMMA HandOutKeeps ==
    ASSUME ConversationInv, Made \subseteq Made', NEW d, NEW h \in Hashes, h \in Made',
           NEW newcomers, NEW reached, HandOut(d, h, newcomers, reached)
    PROVE  mail' \in [Devices -> SUBSET Message] /\ MailExists'
<1> DEFINE w == [kind |-> "welcome", hash |-> h]
           c == [kind |-> "commit", hash |-> h]
<1>1. w \in Message /\ c \in Message /\ w.hash = h /\ c.hash = h
    BY DEF Message
<1>2. mail' = [e \in Devices |->
                  IF e \notin reached THEN mail[e]
                  ELSE IF e \in newcomers THEN mail[e] \union {w} ELSE mail[e] \union {c}]
    BY DEF HandOut, CommitMessage
<1> HIDE DEF w, c
<1>3. \A e \in Devices : mail'[e] \subseteq mail[e] \union {w, c}
    BY <1>2
<1>4. mail' = [e \in Devices |-> mail'[e]]
    BY <1>2
<1> QED
    BY <1>1, <1>3, <1>4, MailAdded

LEMMA CommitMessageType ==
    ASSUME NEW h \in Hashes
    PROVE  CommitMessage(h) \in Message /\ CommitMessage(h).hash = h
BY DEF CommitMessage, Message

\* What is held stays held where nothing moved.
LEMMA HeldKept ==
    ASSUME ConversationInv, Stable, NEW e \in Devices,
           pending'[e] = pending[e], at'[e] = at[e], pending'[e] # None
    PROVE  pending'[e] \in Made' /\ made'[pending'[e]].by = e
           /\ made'[pending'[e]].on = at'[e]
BY DEF ConversationInv, HeldIsOwn, Stable

\* Make and settle: Confirm, Invite, RemoveMember, SetAdmins, Rekey with a picture.
LEMMA MakeAndSettle ==
    ASSUME ConversationInv, UNCHANGED joined, NEW d \in Devices,
           NEW h \in Hashes \ Made, NEW own \in SUBSET Proposal, NEW removes,
           Commits(d, h, own, removes), SettleAtOnce(d, h), Save(d) \/ UNCHANGED saved
    PROVE  /\ CommitsWellFormed' /\ PlacesExist' /\ HeldIsOwn' /\ Lawful'
           /\ made' \in [Hashes -> Commit \union {None}]
           /\ at' \in [Devices -> Epochs \union {None}]
           /\ pending' \in [Devices -> Hashes \union {None}]
           /\ last' \in [Devices -> Epochs \union {None}]
           /\ proposals' \in [Devices -> SUBSET Proposal]
           /\ keys' \in [Devices -> TagKeys]
           /\ saved' \in [Devices -> Session]
           /\ blind' \subseteq Hashes
           /\ Made \subseteq Made' /\ h \in Made'
<1>1. /\ Grown(h) /\ Stable /\ CommitsWellFormed'
      /\ made'[h].by = d /\ made'[h].on = at[d]
      /\ made'[h].path = Path(at[d]) \union {h}
      /\ at[d] # None /\ at[d] \in Places /\ h \in Made'
    BY MakeKeeps
<1>2. ConversationTypeOK /\ joined' = joined
    BY DEF ConversationInv
<1>3. Enter(d, h) /\ pending' = [pending EXCEPT ![d] = None] /\ blind' = blind \union {h}
    BY DEF SettleAtOnce
<1>4. /\ at' \in [Devices -> Epochs \union {None}]
      /\ last' \in [Devices -> Epochs \union {None}]
      /\ proposals' \in [Devices -> SUBSET Proposal]
      /\ keys' \in [Devices -> TagKeys]
      /\ at'[d] = h /\ \A e \in Devices \ {d} : at'[e] = at[e]
    BY <1>2, <1>3, EnterType
<1>5. /\ saved' \in [Devices -> Session]
      /\ saved'[d].at \in {saved[d].at, at'[d]}
      /\ \A e \in Devices \ {d} : saved'[e] = saved[e]
    BY <1>2, <1>4, SaveType DEF ConversationTypeOK
<1>6. Follows(d, at[d])'
    <2>1. Follows(d, h)'
        BY <1>1, <1>2, OwnStep
    <2> QED
        BY <1>4, <2>1 DEF Follows, Path
<1>7. \A e \in Devices : Moved(e)
    <2>1. Moved(d)
        BY <1>1, <1>2, <1>4, <1>5, <1>6 DEF Moved, Places
    <2>2. \A e \in Devices \ {d} : Moved(e)
        BY <1>2, <1>4, <1>5 DEF Moved
    <2> QED
        BY <2>1, <2>2
<1>8. PlacesExist' /\ Lawful'
    BY <1>1, <1>7, MovedIsLawful
<1>9. pending' \in [Devices -> Hashes \union {None}] /\ pending'[d] = None
      /\ \A e \in Devices \ {d} : pending'[e] = pending[e]
    BY <1>2, <1>3 DEF ConversationTypeOK
<1>10. HeldIsOwn'
    BY <1>1, <1>4, <1>9, HeldKept DEF HeldIsOwn
<1>11. blind' \subseteq Hashes
    BY <1>2, <1>3 DEF ConversationTypeOK
<1> QED
    BY <1>1, <1>4, <1>5, <1>8, <1>9, <1>10, <1>11 DEF Grown

-----------------------------------------------------------------------------
(* One lemma per action.                                                   *)

LEMMA SaveOrDieType ==
    ASSUME ConversationTypeOK, NEW d \in Devices, SaveOrDie(d)
    PROVE  (Save(d) \/ UNCHANGED saved) /\ down' \in [Devices -> BOOLEAN]
BY DEF SaveOrDie, Die, ConversationTypeOK

LEMMA HandOutAndSaveType ==
    ASSUME ConversationTypeOK, NEW d \in Devices, NEW h, NEW newcomers,
           HandOutAndSave(d, h, newcomers)
    PROVE  /\ Save(d) \/ UNCHANGED saved
           /\ down' \in [Devices -> BOOLEAN]
           /\ \E reached : HandOut(d, h, newcomers, reached)
<1>1. PICK reached \in SUBSET (Others(d) \union newcomers) :
          /\ HandOut(d, h, newcomers, reached)
          /\ SaveOrDie(d) \/ UNCHANGED <<saved, down>>
    BY DEF HandOutAndSave
<1>2. CASE SaveOrDie(d)
    BY <1>1, <1>2, SaveOrDieType
<1>3. CASE UNCHANGED <<saved, down>>
    BY <1>1, <1>3 DEF ConversationTypeOK
<1> QED
    BY <1>1, <1>2, <1>3

LEMMA ConfirmKeeps ==
    ASSUME ConversationInv, UNCHANGED joined, NEW d \in Devices,
           NEW h \in Hashes \ Made, Confirm(d, h)
    PROVE  ConversationInv'
<1>1. /\ Commits(d, h, {}, {}) /\ SettleAtOnce(d, h)
      /\ HandOutAndSave(d, h, {p.who : p \in proposals[d]})
      /\ UNCHANGED <<debt, settleBy, reading, restarts>>
    BY MakeCommits DEF Confirm
<1>2. ConversationTypeOK
    BY DEF ConversationInv
<1>3. /\ Save(d) \/ UNCHANGED saved
      /\ down' \in [Devices -> BOOLEAN]
      /\ \E reached : HandOut(d, h, {p.who : p \in proposals[d]}, reached)
    BY <1>1, <1>2, HandOutAndSaveType
<1>4. /\ CommitsWellFormed' /\ PlacesExist' /\ HeldIsOwn' /\ Lawful'
      /\ made' \in [Hashes -> Commit \union {None}]
      /\ at' \in [Devices -> Epochs \union {None}]
      /\ pending' \in [Devices -> Hashes \union {None}]
      /\ last' \in [Devices -> Epochs \union {None}]
      /\ proposals' \in [Devices -> SUBSET Proposal]
      /\ keys' \in [Devices -> TagKeys]
      /\ saved' \in [Devices -> Session]
      /\ blind' \subseteq Hashes
      /\ Made \subseteq Made' /\ h \in Made'
    BY <1>1, <1>3, MakeAndSettle
<1>5. mail' \in [Devices -> SUBSET Message] /\ MailExists'
    BY <1>3, <1>4, HandOutKeeps
<1> QED
    BY <1>1, <1>2, <1>3, <1>4, <1>5 DEF ConversationInv, ConversationTypeOK

LEMMA InviteKeeps ==
    ASSUME ConversationInv, UNCHANGED joined, NEW d \in Devices, NEW x \in Devices,
           NEW h \in Hashes \ Made, Invite(d, x, h)
    PROVE  ConversationInv'
<1> DEFINE own == {[by |-> d, who |-> x]}
<1>1. /\ Commits(d, h, own, {}) /\ SettleAtOnce(d, h)
      /\ HandOutAndSave(d, h, {x})
      /\ UNCHANGED <<debt, settleBy, reading, restarts>>
    BY MakeCommits DEF Invite
<1>2. ConversationTypeOK /\ own \in SUBSET Proposal
    BY DEF ConversationInv, Proposal
<1> HIDE DEF own
<1>3. /\ Save(d) \/ UNCHANGED saved
      /\ down' \in [Devices -> BOOLEAN]
      /\ \E reached : HandOut(d, h, {x}, reached)
    BY <1>1, <1>2, HandOutAndSaveType
<1>4. /\ CommitsWellFormed' /\ PlacesExist' /\ HeldIsOwn' /\ Lawful'
      /\ made' \in [Hashes -> Commit \union {None}]
      /\ at' \in [Devices -> Epochs \union {None}]
      /\ pending' \in [Devices -> Hashes \union {None}]
      /\ last' \in [Devices -> Epochs \union {None}]
      /\ proposals' \in [Devices -> SUBSET Proposal]
      /\ keys' \in [Devices -> TagKeys]
      /\ saved' \in [Devices -> Session]
      /\ blind' \subseteq Hashes
      /\ Made \subseteq Made' /\ h \in Made'
    BY <1>1, <1>2, <1>3, MakeAndSettle
<1>5. mail' \in [Devices -> SUBSET Message] /\ MailExists'
    BY <1>3, <1>4, HandOutKeeps
<1> QED
    BY <1>1, <1>2, <1>3, <1>4, <1>5 DEF ConversationInv, ConversationTypeOK

LEMMA RemoveMemberKeeps ==
    ASSUME ConversationInv, UNCHANGED joined, NEW d \in Devices, NEW x \in Devices,
           NEW h \in Hashes \ Made, RemoveMember(d, x, h)
    PROVE  ConversationInv'
<1>1. /\ Commits(d, h, {}, {x}) /\ SettleAtOnce(d, h)
      /\ Deposit(d, Others(d), CommitMessage(h))
      /\ UNCHANGED <<debt, settleBy, reading, down, saved, restarts>>
    BY MakeCommits DEF RemoveMember
<1>2. ConversationTypeOK
    BY DEF ConversationInv
<1>3. UNCHANGED saved
    BY <1>1
<1>4. /\ CommitsWellFormed' /\ PlacesExist' /\ HeldIsOwn' /\ Lawful'
      /\ made' \in [Hashes -> Commit \union {None}]
      /\ at' \in [Devices -> Epochs \union {None}]
      /\ pending' \in [Devices -> Hashes \union {None}]
      /\ last' \in [Devices -> Epochs \union {None}]
      /\ proposals' \in [Devices -> SUBSET Proposal]
      /\ keys' \in [Devices -> TagKeys]
      /\ saved' \in [Devices -> Session]
      /\ blind' \subseteq Hashes
      /\ Made \subseteq Made' /\ h \in Made'
    BY <1>1, <1>3, MakeAndSettle
<1>5. mail' \in [Devices -> SUBSET Message] /\ MailExists'
    BY <1>1, <1>4, DepositKeeps, CommitMessageType
<1> QED
    BY <1>1, <1>2, <1>4, <1>5 DEF ConversationInv, ConversationTypeOK

LEMMA SetAdminsKeeps ==
    ASSUME ConversationInv, UNCHANGED joined, NEW d \in Devices,
           NEW names \in AdminLists, NEW h \in Hashes \ Made, NEW reached,
           SetAdmins(d, names, h, reached)
    PROVE  ConversationInv'
<1>1. /\ Commits(d, h, {}, {}) /\ SettleAtOnce(d, h)
      /\ Deposit(d, reached, CommitMessage(h)) /\ Save(d)
      /\ UNCHANGED <<debt, settleBy, reading, down, restarts>>
    BY DEF SetAdmins, Commits
<1>2. ConversationTypeOK
    BY DEF ConversationInv
<1>3. /\ CommitsWellFormed' /\ PlacesExist' /\ HeldIsOwn' /\ Lawful'
      /\ made' \in [Hashes -> Commit \union {None}]
      /\ at' \in [Devices -> Epochs \union {None}]
      /\ pending' \in [Devices -> Hashes \union {None}]
      /\ last' \in [Devices -> Epochs \union {None}]
      /\ proposals' \in [Devices -> SUBSET Proposal]
      /\ keys' \in [Devices -> TagKeys]
      /\ saved' \in [Devices -> Session]
      /\ blind' \subseteq Hashes
      /\ Made \subseteq Made' /\ h \in Made'
    BY <1>1, MakeAndSettle
<1>4. mail' \in [Devices -> SUBSET Message] /\ MailExists'
    BY <1>1, <1>3, DepositKeeps, CommitMessageType
<1> QED
    BY <1>1, <1>2, <1>3, <1>4 DEF ConversationInv, ConversationTypeOK

\* Make and hold: RemoveInterrupted, RekeyInterrupted, and Rekey without a picture.
LEMMA MakeAndHold ==
    ASSUME ConversationInv, UNCHANGED joined, NEW d \in Devices,
           NEW h \in Hashes \ Made, NEW removes, NEW to,
           Commits(d, h, {}, removes), pending' = [pending EXCEPT ![d] = h],
           Deposit(d, to, CommitMessage(h)),
           UNCHANGED <<at, saved>>
    PROVE  /\ CommitsWellFormed' /\ PlacesExist' /\ HeldIsOwn' /\ Lawful' /\ MailExists'
           /\ made' \in [Hashes -> Commit \union {None}]
           /\ pending' \in [Devices -> Hashes \union {None}]
           /\ mail' \in [Devices -> SUBSET Message]
<1>1. /\ Grown(h) /\ Stable /\ CommitsWellFormed'
      /\ made'[h].by = d /\ made'[h].on = at[d]
      /\ made'[h].path = Path(at[d]) \union {h}
      /\ at[d] # None /\ at[d] \in Places /\ h \in Made'
    BY MakeKeeps
<1>2. ConversationTypeOK /\ joined' = joined /\ at' = at /\ saved' = saved
    BY DEF ConversationInv
<1>3. PlacesExist' /\ Lawful'
    BY <1>1, <1>2, MovedIsLawful DEF Moved
<1>4. pending' \in [Devices -> Hashes \union {None}] /\ pending'[d] = h
      /\ \A e \in Devices \ {d} : pending'[e] = pending[e]
    BY <1>2 DEF ConversationTypeOK
<1>5. HeldIsOwn'
    BY <1>1, <1>2, <1>4, HeldKept DEF HeldIsOwn
<1>6. mail' \in [Devices -> SUBSET Message] /\ MailExists'
    BY <1>1, DepositKeeps, CommitMessageType DEF Grown
<1> QED
    BY <1>1, <1>3, <1>4, <1>5, <1>6 DEF Grown

LEMMA RemoveInterruptedKeeps ==
    ASSUME ConversationInv, UNCHANGED joined, NEW d \in Devices, NEW x \in Devices,
           NEW h \in Hashes \ Made, NEW reached, RemoveInterrupted(d, x, h, reached)
    PROVE  ConversationInv'
<1>1. /\ Commits(d, h, {}, {x}) /\ pending' = [pending EXCEPT ![d] = h]
      /\ Deposit(d, reached, CommitMessage(h))
      /\ blind' = blind \union {h}
      /\ UNCHANGED <<at, last, debt, proposals, keys, settleBy, reading, down, saved,
                     restarts>>
    BY MakeCommits DEF RemoveInterrupted
<1>2. /\ CommitsWellFormed' /\ PlacesExist' /\ HeldIsOwn' /\ Lawful' /\ MailExists'
      /\ made' \in [Hashes -> Commit \union {None}]
      /\ pending' \in [Devices -> Hashes \union {None}]
      /\ mail' \in [Devices -> SUBSET Message]
    BY <1>1, MakeAndHold
<1> QED
    BY <1>1, <1>2 DEF ConversationInv, ConversationTypeOK

LEMMA RekeyInterruptedKeeps ==
    ASSUME ConversationInv, UNCHANGED joined, NEW d \in Devices,
           NEW h \in Hashes \ Made, NEW reached, RekeyInterrupted(d, h, reached)
    PROVE  ConversationInv'
<1>1. /\ Commits(d, h, {}, {}) /\ pending' = [pending EXCEPT ![d] = h]
      /\ Deposit(d, reached, CommitMessage(h))
      /\ debt' = [debt EXCEPT ![d] = FALSE]
      /\ down' = [down EXCEPT ![d] = TRUE]
      /\ UNCHANGED <<at, last, proposals, keys, settleBy, reading, saved, restarts, blind>>
    BY MakeCommits DEF RekeyInterrupted, Die
<1>2. /\ CommitsWellFormed' /\ PlacesExist' /\ HeldIsOwn' /\ Lawful' /\ MailExists'
      /\ made' \in [Hashes -> Commit \union {None}]
      /\ pending' \in [Devices -> Hashes \union {None}]
      /\ mail' \in [Devices -> SUBSET Message]
    BY <1>1, MakeAndHold
<1>3. ConversationTypeOK
    BY DEF ConversationInv
<1>4. debt' \in [Devices -> BOOLEAN] /\ down' \in [Devices -> BOOLEAN]
    BY <1>1, <1>3 DEF ConversationTypeOK
<1> QED
    BY <1>1, <1>2, <1>3, <1>4 DEF ConversationInv, ConversationTypeOK

LEMMA RekeyKeeps ==
    ASSUME ConversationInv, UNCHANGED joined, NEW d \in Devices,
           NEW h \in Hashes \ Made, Rekey(d, h)
    PROVE  ConversationInv'
<1>1. /\ Commits(d, h, {}, {}) /\ Deposit(d, Others(d), CommitMessage(h))
      /\ debt' = [debt EXCEPT ![d] = FALSE] /\ UNCHANGED <<reading, restarts>>
    BY MakeCommits DEF Rekey
<1>2. ConversationTypeOK
    BY DEF ConversationInv
<1>3. debt' \in [Devices -> BOOLEAN]
    BY <1>1, <1>2 DEF ConversationTypeOK
<1>4. CASE d \in Pictured
    <2>1. SettleAtOnce(d, h) /\ SaveOrDie(d) /\ UNCHANGED settleBy
        BY <1>4 DEF Rekey
    <2>2. (Save(d) \/ UNCHANGED saved) /\ down' \in [Devices -> BOOLEAN]
        BY <1>2, <2>1, SaveOrDieType
    <2>3. /\ CommitsWellFormed' /\ PlacesExist' /\ HeldIsOwn' /\ Lawful'
          /\ made' \in [Hashes -> Commit \union {None}]
          /\ at' \in [Devices -> Epochs \union {None}]
          /\ pending' \in [Devices -> Hashes \union {None}]
          /\ last' \in [Devices -> Epochs \union {None}]
          /\ proposals' \in [Devices -> SUBSET Proposal]
          /\ keys' \in [Devices -> TagKeys]
          /\ saved' \in [Devices -> Session]
          /\ blind' \subseteq Hashes
          /\ Made \subseteq Made' /\ h \in Made'
        BY <1>1, <2>1, <2>2, MakeAndSettle
    <2>4. mail' \in [Devices -> SUBSET Message] /\ MailExists'
        BY <1>1, <2>3, DepositKeeps, CommitMessageType
    <2> QED
        BY <1>1, <1>2, <1>3, <2>1, <2>2, <2>3, <2>4 DEF ConversationInv, ConversationTypeOK
<1>5. CASE d \notin Pictured
    <2>1. /\ pending' = [pending EXCEPT ![d] = h] /\ settleBy' = [settleBy EXCEPT ![d] = TRUE]
          /\ UNCHANGED <<at, last, proposals, keys, saved, blind, down>>
        BY <1>5 DEF Rekey
    <2>2. /\ CommitsWellFormed' /\ PlacesExist' /\ HeldIsOwn' /\ Lawful' /\ MailExists'
          /\ made' \in [Hashes -> Commit \union {None}]
          /\ pending' \in [Devices -> Hashes \union {None}]
          /\ mail' \in [Devices -> SUBSET Message]
        BY <1>1, <2>1, MakeAndHold
    <2>3. settleBy' \in [Devices -> BOOLEAN]
        BY <1>2, <2>1 DEF ConversationTypeOK
    <2> QED
        BY <1>1, <1>2, <1>3, <2>1, <2>2, <2>3 DEF ConversationInv, ConversationTypeOK
<1> QED
    BY <1>4, <1>5

LEMMA ProposeKeeps ==
    ASSUME ConversationInv, UNCHANGED joined, NEW d \in Devices, NEW x \in Devices,
           Propose(d, x)
    PROVE  ConversationInv'
<1> DEFINE p == [by |-> d, who |-> x]
           m == [kind |-> "proposal", by |-> d, who |-> x, under |-> at[d]]
<1>1. /\ at[d] # None /\ \E reached : Deposit(d, reached, m)
      /\ proposals' = [proposals EXCEPT ![d] = @ \union {p}]
      /\ UNCHANGED <<made, at, pending, last, debt, keys, settleBy, reading, down, saved,
                     restarts, blind>>
    BY DEF Propose, MayCommit, InGroup
<1>2. ConversationTypeOK /\ at[d] \in Epochs /\ p \in Proposal
    BY <1>1 DEF ConversationInv, ConversationTypeOK, Proposal
<1>3. m \in Message /\ m.kind = "proposal"
    BY <1>2 DEF Message
<1> HIDE DEF p, m
<1>4. /\ Stable /\ CommitsWellFormed' /\ made' \in [Hashes -> Commit \union {None}]
      /\ Made' = Made /\ Places' = Places
    BY <1>1, NothingMade
<1>5. mail' \in [Devices -> SUBSET Message] /\ MailExists'
    BY <1>1, <1>3, <1>4, DepositKeeps
<1>6. PlacesExist' /\ Lawful'
    BY <1>1, <1>4, MovedIsLawful DEF Moved
<1>7. HeldIsOwn'
    BY <1>1, <1>4, HeldKept DEF HeldIsOwn
<1>8. proposals' \in [Devices -> SUBSET Proposal]
    BY <1>1, <1>2 DEF ConversationTypeOK
<1> QED
    BY <1>1, <1>2, <1>4, <1>5, <1>6, <1>7, <1>8 DEF ConversationInv, ConversationTypeOK

LEMMA RestartKeeps ==
    ASSUME ConversationInv, UNCHANGED joined, NEW d \in Devices, Restart(d)
    PROVE  ConversationInv'
<1>1. /\ ConversationTypeOK /\ saved[d] \in Session
      /\ saved[d].at \in Epochs \union {None} /\ saved[d].keys \in TagKeys
      /\ saved[d].proposals \in SUBSET Proposal
    BY DEF ConversationInv, ConversationTypeOK, Session
<1>2. /\ Stable /\ CommitsWellFormed' /\ made' \in [Hashes -> Commit \union {None}]
      /\ Made' = Made /\ Places' = Places
    BY NothingMade DEF Restart
<1>3. /\ at' = [at EXCEPT ![d] = saved[d].at] /\ saved' = saved /\ mail' = mail
      /\ pending' = [pending EXCEPT ![d] = None]
    BY DEF Restart
<1>4. /\ at' \in [Devices -> Epochs \union {None}] /\ at'[d] = saved[d].at
      /\ \A e \in Devices \ {d} : at'[e] = at[e]
    BY <1>1, <1>3 DEF ConversationTypeOK
<1>5. \A e \in Devices : Moved(e)
    BY <1>3, <1>4 DEF Moved
<1>6. PlacesExist' /\ Lawful'
    BY <1>2, <1>5, MovedIsLawful
<1>7. pending' \in [Devices -> Hashes \union {None}] /\ pending'[d] = None
      /\ \A e \in Devices \ {d} : pending'[e] = pending[e]
    BY <1>1, <1>3 DEF ConversationTypeOK
<1>8. HeldIsOwn'
    BY <1>2, <1>4, <1>7, HeldKept DEF HeldIsOwn
<1>9. MailExists'
    BY <1>2, <1>3 DEF MailExists, ConversationInv
<1>10. keys' \in [Devices -> TagKeys]
    BY <1>1 DEF Restart, ConversationTypeOK
<1>11. /\ last' \in [Devices -> Epochs \union {None}]
       /\ proposals' \in [Devices -> SUBSET Proposal]
    BY <1>1 DEF Restart, ConversationTypeOK
<1>12. /\ settleBy' \in [Devices -> BOOLEAN] /\ debt' \in [Devices -> BOOLEAN]
       /\ reading' \in [Devices -> BOOLEAN] /\ down' \in [Devices -> BOOLEAN]
    BY <1>1 DEF Restart, ConversationTypeOK
<1>13. restarts' \in 0..MaxRestarts /\ blind' \subseteq Hashes
    BY <1>1, ConversationAssumption DEF Restart, ConversationTypeOK
<1> QED
    BY <1>1, <1>2, <1>3, <1>4, <1>6, <1>7, <1>8, <1>9, <1>10, <1>11, <1>12, <1>13
       DEF ConversationInv, ConversationTypeOK

LEMMA BacklogReadKeeps ==
    ASSUME ConversationInv, UNCHANGED joined, NEW d \in Devices, BacklogRead(d)
    PROVE  ConversationInv'
<1>1. UNCHANGED <<made, group, settleBy, mail, down, saved, restarts, blind>>
    BY DEF BacklogRead
<1>2. reading' \in [Devices -> BOOLEAN]
    BY DEF BacklogRead, ConversationInv, ConversationTypeOK
<1>3. /\ Stable /\ CommitsWellFormed' /\ made' \in [Hashes -> Commit \union {None}]
      /\ Made' = Made /\ Places' = Places
    BY <1>1, NothingMade
<1>4. UNCHANGED <<at, pending, last, debt, proposals, keys>>
    BY <1>1 DEF group
<1>5. PlacesExist' /\ Lawful'
    BY <1>1, <1>3, <1>4, MovedIsLawful DEF Moved
<1>6. HeldIsOwn' /\ MailExists'
    BY <1>1, <1>3, <1>4 DEF HeldIsOwn, MailExists, ConversationInv
<1> QED
    BY <1>1, <1>2, <1>3, <1>4, <1>5, <1>6 DEF ConversationInv, ConversationTypeOK

LEMMA JoinKeeps ==
    ASSUME ConversationInv, NEW x \in Devices, NEW h \in Made, JoinFrom(x, h)
    PROVE  ConversationInv'
<1>1. /\ at[x] = None /\ at' = [at EXCEPT ![x] = h] /\ joined' = [joined EXCEPT ![x] = h]
      /\ keys' = [keys EXCEPT ![x] = <<h>>]
      /\ mail' = [mail EXCEPT ![x] = @ \ {[kind |-> "welcome", hash |-> h]}]
      /\ UNCHANGED <<made, pending, last, debt, proposals, settleBy, reading, down, restarts,
                     blind>>
      /\ Save(x)
    BY DEF JoinFrom
<1>2. ConversationTypeOK /\ h \in Epochs /\ h \in Hashes /\ h # None
    BY ConversationAssumption DEF ConversationInv, Made, Epochs
<1>3. /\ Stable /\ CommitsWellFormed' /\ made' \in [Hashes -> Commit \union {None}]
      /\ Made' = Made /\ Places' = Places
    BY <1>1, NothingMade
<1>4. /\ at' \in [Devices -> Epochs \union {None}] /\ at'[x] = h
      /\ \A e \in Devices \ {x} : at'[e] = at[e]
      /\ joined' \in [Devices -> Epochs \union {None}] /\ joined'[x] = h
      /\ \A e \in Devices \ {x} : joined'[e] = joined[e]
    BY <1>1, <1>2 DEF ConversationTypeOK
<1>5. keys' \in [Devices -> TagKeys]
    <2>1. <<h>> \in TagKeys
        BY <1>2, ConversationAssumption DEF TagKeys
    <2> QED
        BY <1>1, <1>2, <2>1 DEF ConversationTypeOK
<1>6. /\ saved' \in [Devices -> Session] /\ \A e \in Devices \ {x} : saved'[e] = saved[e]
      /\ saved'[x].at \in {h, None}
    <2>1. proposals'[x] \in SUBSET Proposal
        BY <1>1, <1>2 DEF ConversationTypeOK
    <2>2. saved \in [Devices -> Session]
        BY <1>2 DEF ConversationTypeOK
    <2>3. /\ saved' \in [Devices -> Session] /\ \A e \in Devices \ {x} : saved'[e] = saved[e]
          /\ saved'[x].at \in {saved[x].at, at'[x]}
        BY <1>1, <1>4, <1>5, <2>1, <2>2, SaveType
    <2>4. saved[x].at = None
        BY <1>1 DEF ConversationInv, PlacesExist
    <2> QED
        BY <1>4, <2>3, <2>4
<1>7. ASSUME NEW e \in Devices \ {x}, NEW q, q \in {at'[e], saved'[e].at}, q # None
      PROVE  q \in Places /\ joined'[e] \in Places /\ Follows(e, q)'
    <2>1. q \in Places /\ joined[e] \in Places /\ Follows(e, q)
        BY <1>4, <1>6, <1>7 DEF ConversationInv, PlacesExist, Lawful
    <2> QED
        BY <1>3, <1>4, <2>1, FollowsKept
<1>8. PlacesExist'
    <2>1. ASSUME NEW e \in Devices \ {x}, at'[e] = None
          PROVE  saved'[e].at = None
        BY <1>4, <1>6, <2>1 DEF ConversationInv, PlacesExist
    <2> QED
        BY <1>2, <1>3, <1>4, <1>6, <1>7, <2>1 DEF PlacesExist, Places
<1>9. Lawful'
    <2>1. ASSUME NEW e \in Devices \ {x}, at'[e] # None
          PROVE  Follows(e, at[e])'
        <3>1. PICK q : q = at'[e]
            OBVIOUS
        <3>2. Follows(e, q)'
            BY <1>7, <2>1, <3>1
        <3> QED
            BY <3>1, <3>2 DEF Follows, Path
    <2>2. ASSUME NEW e \in Devices \ {x}, saved'[e].at # None
          PROVE  Follows(e, saved[e].at)'
        <3>1. PICK q : q = saved'[e].at
            OBVIOUS
        <3>2. Follows(e, q)'
            BY <1>7, <2>2, <3>1
        <3> QED
            BY <3>1, <3>2 DEF Follows, Path
    <2>3. Follows(x, at[x])' /\ (saved'[x].at # None => Follows(x, saved[x].at)')
        BY <1>4, <1>6 DEF Follows, Path
    <2> QED
        BY <2>1, <2>2, <2>3 DEF Lawful
<1>10. HeldIsOwn'
    <2>1. pending[x] = None
        <3>1. pending[x] # None => made[pending[x]].on = None /\ made[pending[x]].on \in Places
            BY <1>1 DEF ConversationInv, HeldIsOwn, CommitsWellFormed
        <3>2. None \notin Places
            BY ConversationAssumption DEF Places, Made
        <3> QED
            BY <3>1, <3>2
    <2>2. pending' = pending
        BY <1>1
    <2> QED
        BY <1>3, <1>4, <2>1, <2>2, HeldKept DEF HeldIsOwn
<1>11. mail' \in [Devices -> SUBSET Message] /\ MailExists'
    <2>1. {} \in SUBSET Message /\ \A e \in Devices : mail'[e] \subseteq mail[e] \union {}
        BY <1>1, <1>2 DEF ConversationTypeOK
    <2>2. mail' = [e \in Devices |-> mail'[e]]
        BY <1>1, <1>2 DEF ConversationTypeOK
    <2> QED
        BY <1>3, <2>1, <2>2, MailAdded
<1> QED
    BY <1>1, <1>2, <1>3, <1>4, <1>5, <1>6, <1>8, <1>9, <1>10, <1>11
       DEF ConversationInv, ConversationTypeOK

\* Following a commit that was made before: one's own, held, or somebody else's.
EntersMade(d) ==
    /\ PlacesExist' /\ HeldIsOwn' /\ Lawful'
    /\ at' \in [Devices -> Epochs \union {None}]
    /\ pending' \in [Devices -> Hashes \union {None}]
    /\ last' \in [Devices -> Epochs \union {None}]
    /\ proposals' \in [Devices -> SUBSET Proposal]
    /\ keys' \in [Devices -> TagKeys]
    /\ saved' \in [Devices -> Session]

LEMMA EnterKeeps ==
    ASSUME ConversationInv, UNCHANGED <<made, joined>>, NEW d \in Devices,
           NEW h \in Made, at[d] # None, Follows(d, h)', Enter(d, h),
           pending' = [pending EXCEPT ![d] = None], Save(d)
    PROVE  EntersMade(d)
<1>1. /\ Stable /\ CommitsWellFormed' /\ made' \in [Hashes -> Commit \union {None}]
      /\ Made' = Made /\ Places' = Places
    BY NothingMade
<1>2. ConversationTypeOK /\ joined' = joined /\ h \in Hashes
    BY DEF ConversationInv, Made
<1>3. /\ at' \in [Devices -> Epochs \union {None}]
      /\ last' \in [Devices -> Epochs \union {None}]
      /\ proposals' \in [Devices -> SUBSET Proposal]
      /\ keys' \in [Devices -> TagKeys]
      /\ at'[d] = h /\ \A e \in Devices \ {d} : at'[e] = at[e]
    BY <1>2, EnterType
<1>4. /\ saved' \in [Devices -> Session]
      /\ saved'[d].at \in {saved[d].at, at'[d]}
      /\ \A e \in Devices \ {d} : saved'[e] = saved[e]
    BY <1>2, <1>3, SaveType DEF ConversationTypeOK
<1>5. Follows(d, at[d])'
    BY <1>3 DEF Follows, Path
<1>6. Moved(d)
    BY <1>1, <1>2, <1>3, <1>4, <1>5 DEF Moved, Places
<1>7. \A e \in Devices \ {d} : Moved(e)
    BY <1>2, <1>3, <1>4 DEF Moved
<1>8. PlacesExist' /\ Lawful'
    BY <1>1, <1>6, <1>7, MovedIsLawful
<1>9. pending' \in [Devices -> Hashes \union {None}] /\ pending'[d] = None
      /\ \A e \in Devices \ {d} : pending'[e] = pending[e]
    BY <1>2 DEF ConversationTypeOK
<1>10. HeldIsOwn'
    BY <1>1, <1>3, <1>9, HeldKept DEF HeldIsOwn
<1> QED
    BY <1>3, <1>4, <1>8, <1>9, <1>10 DEF EntersMade

LEMMA EnterHeldKeeps ==
    ASSUME ConversationInv, UNCHANGED <<made, joined>>, NEW d \in Devices,
           pending[d] # None, Enter(d, pending[d]),
           pending' = [pending EXCEPT ![d] = None], Save(d)
    PROVE  EntersMade(d) /\ pending[d] \in Hashes
<1>1. /\ pending[d] \in Made /\ made[pending[d]].by = d /\ made[pending[d]].on = at[d]
    BY DEF ConversationInv, HeldIsOwn
<1>2. PICK h \in Made : h = pending[d]
    BY <1>1
<1>3. /\ at[d] \in Places /\ made[h].path = Path(at[d]) \union {h}
    BY <1>1, <1>2 DEF ConversationInv, CommitsWellFormed
<1>4. at[d] # None /\ h \in Hashes
    BY <1>3, ConversationAssumption DEF Places, Made
<1>5. Stable /\ made'[h] = made[h] /\ joined' = joined
    BY NothingMade
<1>6. Follows(d, h)'
    BY <1>1, <1>2, <1>3, <1>4, <1>5, OwnStep
<1>7. Enter(d, h)
    BY <1>2
<1> QED
    BY <1>2, <1>4, <1>6, <1>7, EnterKeeps

LEMMA SettleHeldKeeps ==
    ASSUME ConversationInv, UNCHANGED joined, NEW d \in Devices, SettleHeld(d)
    PROVE  ConversationInv'
<1>1. UNCHANGED <<made, mail, reading, down, restarts>> /\ ConversationTypeOK
    BY DEF SettleHeld, ConversationInv
<1>2. settleBy' \in [Devices -> BOOLEAN]
    BY <1>1 DEF SettleHeld, ConversationTypeOK
<1>3. /\ Stable /\ CommitsWellFormed' /\ made' \in [Hashes -> Commit \union {None}]
      /\ Made' = Made /\ Places' = Places
    BY <1>1, NothingMade
<1>4. MailExists'
    BY <1>1, <1>3 DEF MailExists, ConversationInv
<1>5. CASE pending[d] = None
    <2>1. UNCHANGED <<at, pending, last, debt, proposals, keys, saved, blind>>
        BY <1>5 DEF SettleHeld, group
    <2>2. PlacesExist' /\ Lawful'
        BY <1>3, <2>1, MovedIsLawful DEF Moved
    <2>3. HeldIsOwn'
        BY <1>1, <1>3, <2>1 DEF HeldIsOwn, ConversationInv
    <2> QED
        BY <1>1, <1>2, <1>3, <1>4, <2>1, <2>2, <2>3 DEF ConversationInv, ConversationTypeOK
<1>6. CASE pending[d] # None
    <2>1. /\ Enter(d, pending[d]) /\ pending' = [pending EXCEPT ![d] = None] /\ Save(d)
          /\ UNCHANGED debt /\ blind' \subseteq blind \union {pending[d]}
        BY <1>6 DEF SettleHeld
    <2>2. EntersMade(d) /\ pending[d] \in Hashes
        BY <1>1, <1>6, <2>1, EnterHeldKeeps
    <2>3. blind' \subseteq Hashes
        BY <1>1, <2>1, <2>2 DEF ConversationTypeOK
    <2> QED
        BY <1>1, <1>2, <1>3, <1>4, <2>1, <2>2, <2>3
           DEF ConversationInv, ConversationTypeOK, EntersMade
<1> QED
    BY <1>5, <1>6

\* What the cases of receive have in common.
Acted ==
    /\ PlacesExist' /\ HeldIsOwn' /\ Lawful'
    /\ at' \in [Devices -> Epochs \union {None}]
    /\ pending' \in [Devices -> Hashes \union {None}]
    /\ settleBy' \in [Devices -> BOOLEAN]
    /\ last' \in [Devices -> Epochs \union {None}]
    /\ debt' \in [Devices -> BOOLEAN]
    /\ proposals' \in [Devices -> SUBSET Proposal]
    /\ keys' \in [Devices -> TagKeys]
    /\ saved' \in [Devices -> Session]
    /\ blind' \subseteq Hashes

\* The device stays where it is.
LEMMA StaysKeeps ==
    ASSUME ConversationInv, UNCHANGED <<made, joined>>, NEW d \in Devices,
           UNCHANGED <<at, last, debt, keys, settleBy>>, blind' \subseteq Hashes,
           proposals' \in [Devices -> SUBSET Proposal],
           \/ UNCHANGED pending
           \/ pending' = [pending EXCEPT ![d] = None],
           Save(d) \/ UNCHANGED saved
    PROVE  Acted
<1>1. Stable /\ Made' = Made
    BY NothingMade
<1>2. ConversationTypeOK
    BY DEF ConversationInv
<1>3. /\ saved' \in [Devices -> Session]
      /\ saved'[d].at \in {saved[d].at, at'[d]}
      /\ \A e \in Devices \ {d} : saved'[e] = saved[e]
    <2>1. /\ saved \in [Devices -> Session] /\ at'[d] \in Epochs \union {None}
          /\ keys'[d] \in TagKeys /\ proposals'[d] \in SUBSET Proposal
        BY <1>2 DEF ConversationTypeOK
    <2> QED
        BY <2>1, SaveType
<1>4. PlacesExist' /\ Lawful'
    BY <1>1, <1>3, MovedIsLawful DEF Moved
<1>5. /\ pending' \in [Devices -> Hashes \union {None}]
      /\ \A e \in Devices : pending'[e] = pending[e] \/ pending'[e] = None
    BY <1>2 DEF ConversationTypeOK
<1>6. HeldIsOwn'
    BY <1>1, <1>5, HeldKept DEF HeldIsOwn
<1> QED
    BY <1>2, <1>3, <1>4, <1>5, <1>6 DEF Acted, ConversationTypeOK

LEMMA TakeKeeps ==
    ASSUME ConversationInv, UNCHANGED <<made, joined>>, NEW d \in Devices,
           NEW h \in Made, InGroup(d), Take(d, h)
    PROVE  Acted
<1>1. /\ pending' = [pending EXCEPT ![d] = None]
      /\ at[d] # None /\ ConversationTypeOK
    BY DEF Take, InGroup, ConversationInv
<1>2. CASE Processable(d, made[h]) /\ ~Refused(d, made[h])
    <2>1. /\ Enter(d, h) /\ debt' = [debt EXCEPT ![d] = FALSE]
          /\ settleBy' = [settleBy EXCEPT ![d] = settleBy[d] /\ pending[d] = None
                                                        /\ ChangesNobody(h)]
          /\ Save(d) /\ UNCHANGED blind
        BY <1>2 DEF Take
    <2>2. made[h].on = at[d] /\ ~Unlawful(h)
        BY <1>2, RefusedIsUnlawful DEF Processable
    <2>3. Stable /\ joined' = joined
        BY NothingMade
    <2>4. Follows(d, h)'
        BY <1>1, <2>2, <2>3, LawfulStep
    <2>5. EntersMade(d)
        BY <1>1, <2>1, <2>4, EnterKeeps
    <2>6. debt' \in [Devices -> BOOLEAN] /\ settleBy' \in [Devices -> BOOLEAN]
        BY <1>1, <2>1 DEF ConversationTypeOK
    <2> QED
        BY <1>1, <2>1, <2>5, <2>6 DEF Acted, EntersMade, ConversationTypeOK
<1>3. CASE ~(Processable(d, made[h]) /\ ~Refused(d, made[h]))
    <2>1. UNCHANGED <<at, last, debt, proposals, keys, settleBy, saved>>
        BY <1>3 DEF Take
    <2>2. proposals' \in [Devices -> SUBSET Proposal]
        BY <1>1, <2>1 DEF ConversationTypeOK
    <2>3. blind' \subseteq Hashes
        BY <1>1, <1>3 DEF Take, ConversationTypeOK
    <2> QED
        BY <1>1, <2>1, <2>2, <2>3, StaysKeeps
<1> QED
    BY <1>2, <1>3

LEMMA ReceiveCommitKeeps ==
    ASSUME ConversationInv, UNCHANGED <<made, joined>>, NEW d \in Devices,
           NEW h \in Made, InGroup(d), ReceiveCommit(d, h)
    PROVE  Acted
<1>1. CASE ReceiveStale(d, h)
    <2>1. UNCHANGED <<at, pending, last, debt, proposals, keys, settleBy, blind>>
        BY <1>1 DEF ReceiveStale, group
    <2>2. Save(d) \/ UNCHANGED saved
        BY <1>1 DEF ReceiveStale
    <2>3. proposals' \in [Devices -> SUBSET Proposal] /\ blind' \subseteq Hashes
        BY <2>1 DEF ConversationInv, ConversationTypeOK
    <2> QED
        BY <2>1, <2>2, <2>3, StaysKeeps
<1>2. CASE pending[d] # None /\ KeepOurs(d, h)
    <2>1. /\ Enter(d, pending[d]) /\ pending' = [pending EXCEPT ![d] = None] /\ Save(d)
          /\ UNCHANGED <<debt, settleBy>> /\ blind' \subseteq blind \union {pending[d]}
        BY <1>2 DEF KeepOurs
    <2>2. EntersMade(d) /\ pending[d] \in Hashes
        BY <1>2, <2>1, EnterHeldKeeps
    <2> QED
        BY <2>1, <2>2 DEF Acted, EntersMade, ConversationInv, ConversationTypeOK
<1>3. CASE Take(d, h)
    BY <1>3, TakeKeeps
<1> QED
    BY <1>1, <1>2, <1>3 DEF ReceiveCommit

LEMMA ReceiveProposalKeeps ==
    ASSUME ConversationInv, UNCHANGED <<made, joined>>, NEW d \in Devices,
           NEW m \in Message, m.kind = "proposal", ReceiveProposal(d, m)
    PROVE  Acted
<1>1. ConversationTypeOK /\ UNCHANGED <<settleBy, blind>>
    BY DEF ConversationInv, ReceiveProposal
<1>2. [by |-> m.by, who |-> m.who] \in Proposal
    BY DEF Message, Proposal
<1>3. /\ UNCHANGED <<at, pending, last, debt, keys>> /\ (Save(d) \/ UNCHANGED saved)
      /\ proposals' \in [Devices -> SUBSET Proposal]
    <2>1. CASE m.under = at[d]
        BY <1>1, <1>2, <2>1 DEF ReceiveProposal, ConversationTypeOK
    <2>2. CASE m.under # at[d]
        BY <1>1, <2>2 DEF ReceiveProposal, ConversationTypeOK, group
    <2> QED
        BY <2>1, <2>2
<1>4. blind' \subseteq Hashes
    BY <1>1 DEF ConversationTypeOK
<1> QED
    BY <1>1, <1>3, <1>4, StaysKeeps

LEMMA ReceiveKeeps ==
    ASSUME ConversationInv, UNCHANGED joined, NEW d \in Devices, NEW m \in mail[d],
           Receive(d, m)
    PROVE  ConversationInv'
<1>1. /\ InGroup(d) /\ m \in Unread(d) /\ Collected(d, m)
      /\ UNCHANGED <<made, reading, restarts>>
      /\ IF m.kind = "commit" THEN ReceiveCommit(d, m.hash) ELSE ReceiveProposal(d, m)
    BY DEF Receive
<1>2. ConversationTypeOK /\ m \in Message /\ m.kind # "welcome"
    BY <1>1 DEF ConversationInv, ConversationTypeOK, Unread
<1>3. /\ Stable /\ CommitsWellFormed' /\ made' \in [Hashes -> Commit \union {None}]
      /\ Made' = Made /\ Places' = Places
    BY <1>1, NothingMade
<1>4. Acted
    <2>1. CASE m.kind = "commit"
        <3>1. m.hash \in Made
            BY <2>1 DEF ConversationInv, MailExists
        <3> QED
            BY <1>1, <2>1, <3>1, ReceiveCommitKeeps
    <2>2. CASE m.kind # "commit"
        <3>1. m.kind = "proposal"
            BY <1>2, <2>2 DEF Message
        <3> QED
            BY <1>1, <1>2, <2>2, <3>1, ReceiveProposalKeeps
    <2> QED
        BY <2>1, <2>2
<1>5. down' \in [Devices -> BOOLEAN]
    BY <1>1, <1>2 DEF Collected, ConversationTypeOK
<1>6. mail' \in [Devices -> SUBSET Message] /\ MailExists'
    <2>1. {} \in SUBSET Message /\ \A e \in Devices : mail'[e] \subseteq mail[e] \union {}
        BY <1>1, <1>2 DEF Collected, ConversationTypeOK
    <2>2. mail' = [e \in Devices |-> mail'[e]]
        BY <1>1, <1>2 DEF Collected, ConversationTypeOK
    <2> QED
        BY <1>3, <2>1, <2>2, MailAdded
<1> QED
    BY <1>1, <1>2, <1>3, <1>4, <1>5, <1>6 DEF ConversationInv, ConversationTypeOK, Acted

-----------------------------------------------------------------------------
(* Theorems.                                                               *)

LEMMA InitInv == Init => ConversationInv
<1> SUFFICES ASSUME Init PROVE ConversationInv
    OBVIOUS
<1>1. Made = {} /\ Places = {0}
    BY DEF Init, Made, Places
<1>2. ASSUME NEW d \in Devices, at[d] # None
      PROVE  Follows(d, 0)
    <2>1. joined[d] = 0
        BY <1>2 DEF Init
    <2> QED
        BY <2>1 DEF Follows, Path
<1>3. <<0>> \in TagKeys /\ <<>> \in TagKeys
    BY ConversationAssumption DEF TagKeys, Epochs
<1>4. at \in [Devices -> Epochs \union {None}] /\ keys \in [Devices -> TagKeys]
      /\ \A d \in Devices : at[d] \in {0, None}
    BY <1>3 DEF Init, Epochs
<1>5. saved \in [Devices -> Session] /\ \A d \in Devices : saved[d].at = at[d]
    BY <1>4 DEF Init, Session
<1>6. ConversationTypeOK
    BY <1>4, <1>5, ConversationAssumption DEF Init, ConversationTypeOK
<1>7. CommitsWellFormed /\ HeldIsOwn /\ MailExists
    BY <1>1 DEF Init, CommitsWellFormed, HeldIsOwn, MailExists
<1>8. PlacesExist
    BY <1>1, <1>4, <1>5 DEF Init, PlacesExist
<1>9. Lawful
    <2>1. ASSUME NEW d \in Devices, NEW e, e \in {at[d], saved[d].at}, e # None
          PROVE  Follows(d, e)
        BY <1>2, <1>4, <1>5, <2>1
    <2> QED
        BY <2>1 DEF Lawful
<1> QED
    BY <1>6, <1>7, <1>8, <1>9 DEF ConversationInv

LEMMA NextInv == ConversationInv /\ [Next]_vars => ConversationInv'
<1> SUFFICES ASSUME ConversationInv, [Next]_vars PROVE ConversationInv'
    OBVIOUS
<1>1. CASE UNCHANGED vars
    <2>1. UNCHANGED <<made, at, pending, last, debt, proposals, keys, settleBy, mail,
                      reading, down, saved, restarts, joined, blind>>
        BY <1>1 DEF vars, group
    <2>2. /\ Stable /\ CommitsWellFormed' /\ Made' = Made /\ Places' = Places
        BY <2>1, NothingMade
    <2>3. PlacesExist' /\ Lawful'
        BY <2>1, <2>2, MovedIsLawful DEF Moved
    <2>4. HeldIsOwn' /\ MailExists'
        BY <2>1, <2>2 DEF ConversationInv, HeldIsOwn, MailExists
    <2>5. ConversationTypeOK'
        BY <2>1 DEF ConversationInv, ConversationTypeOK
    <2> QED
        BY <2>2, <2>3, <2>4, <2>5 DEF ConversationInv
<1>2. CASE Join
    BY <1>2, JoinKeeps DEF Join
<1>3. CASE Step /\ UNCHANGED joined
    <2>1. ASSUME NEW h \in Hashes \ Made, NEW d \in Devices, Confirm(d, h) \/ Rekey(d, h)
          PROVE  ConversationInv'
        BY <1>3, <2>1, ConfirmKeeps, RekeyKeeps
    <2>2. ASSUME NEW h \in Hashes \ Made, NEW d \in Devices, NEW x \in Devices,
                 Invite(d, x, h) \/ RemoveMember(d, x, h)
          PROVE  ConversationInv'
        BY <1>3, <2>2, InviteKeeps, RemoveMemberKeeps
    <2>3. ASSUME NEW h \in Hashes \ Made, NEW d \in Devices, NEW x \in Devices,
                 NEW reached, RemoveInterrupted(d, x, h, reached)
          PROVE  ConversationInv'
        BY <1>3, <2>3, RemoveInterruptedKeeps
    <2>4. ASSUME NEW d \in Devices, NEW x \in Devices, Propose(d, x)
          PROVE  ConversationInv'
        BY <1>3, <2>4, ProposeKeeps
    <2>5. ASSUME NEW d \in Devices, Restart(d) \/ BacklogRead(d) \/ SettleHeld(d)
          PROVE  ConversationInv'
        BY <1>3, <2>5, RestartKeeps, BacklogReadKeeps, SettleHeldKeeps
    <2>6. ASSUME NEW d \in Devices, NEW m \in mail[d], Receive(d, m)
          PROVE  ConversationInv'
        BY <1>3, <2>6, ReceiveKeeps
    <2>7. ASSUME NEW h \in Hashes \ Made, NEW d \in Devices, NEW reached,
                 RekeyInterrupted(d, h, reached)
          PROVE  ConversationInv'
        BY <1>3, <2>7, RekeyInterruptedKeeps
    <2>8. ASSUME NEW h \in Hashes \ Made, NEW d \in Devices, NEW names \in AdminLists,
                 NEW reached, SetAdmins(d, names, h, reached)
          PROVE  ConversationInv'
        BY <1>3, <2>8, SetAdminsKeeps
    <2> QED
        BY <1>3, <2>1, <2>2, <2>3, <2>4, <2>5, <2>6, <2>7, <2>8 DEF Step
<1> QED
    BY <1>1, <1>2, <1>3 DEF Next

\* The state of every device keeps its type; in particular no session ever
\* remembers more than TAG_EPOCH_MEMORY tag keys, in memory or on disk.
THEOREM ConversationTypes == Spec => []ConversationTypeOK
<1>1. ConversationInv => ConversationTypeOK
    BY DEF ConversationInv
<1> QED
    BY InitInv, NextInv, <1>1, PTL DEF Spec

\* Conversation::receive enforces the two member rule and the admin rule in
\* every group, whatever its members commit, hold, save, lose and hear again.
THEOREM UnlawfulAdmissionsAreUnfollowed == Spec => []UnlawfulAdmissionIsUnfollowed
<1>1. ConversationInv => UnlawfulAdmissionIsUnfollowed
    BY DEF ConversationInv, Lawful, Follows, Unlawful, UnlawfulAdmissionIsUnfollowed
<1> QED
    BY InitInv, NextInv, <1>1, PTL DEF Spec

-----------------------------------------------------------------------------
(* Two members converge.                                                   *)

\* Commits that were neither settled unseen nor let go of.
StoodBy == Made \ blind

\* What lies behind a device.
Reach(d) == IF at[d] = None THEN {} ELSE Path(at[d])

\* A way goes through the ways to the epochs on it, and leaves each of them once.
Ways ==
    /\ \A p \in Places :
          /\ IsFiniteSet(Path(p)) /\ p \in Path(p)
          /\ \A q \in Path(p) : Path(q) \subseteq Path(p)
          /\ \A g, h \in Path(p) \intersect Made : made[g].on = made[h].on => g = h
    /\ \A h \in Made, p \in Places : made[h].on = p => h \notin Path(p)

\* A device hears under keys of its own way, the newest included, and the
\* session on disk lies on that way too.
Heard ==
    \A d \in Devices, p \in Places :
        /\ at[d] = p => Range(keys[d]) \subseteq Path(p) /\ p \in Range(keys[d])
        /\ saved[d].at = p => /\ Range(saved[d].keys) \subseteq Path(p)
                              /\ p \in Range(saved[d].keys)
                              /\ p \in Reach(d)

\* Members make the commits, and the other members are sent them.
Makers ==
    \A h \in Made, p \in Places : made[h].on = p =>
        /\ made[h].by \in Members(p) /\ at[made[h].by] # None
        /\ \A d \in Devices : CommitMessage(h) \in mail[d] => d # made[h].by /\ d \in Members(p)

\* A maker still holds what it stands by, went along it, or went along a commit
\* that wins over it.
Standing ==
    \A c \in Devices, g \in StoodBy : made[g].by = c =>
        \/ pending[c] = g
        \/ g \in Reach(c)
        \/ \E h \in Reach(c) \intersect Made : made[h].on = made[g].on /\ h < g

\* A device in debt holds nothing and went along all it stands by.
InDebt ==
    \A d \in Devices : debt[d] =>
        /\ at[d] # None /\ pending[d] = None
        /\ \A g \in StoodBy : made[g].by = d => g \in Reach(d)

OneEach ==
    \A g, h \in StoodBy : made[g].by = made[h].by /\ made[g].on = made[h].on => g = h

\* c went along its own commit g at p.
Gone(p, c, g) == made[g].on = p /\ made[g].by = c /\ g \in Reach(c)

\* Of two members one goes along its own commit at most; the other, if it holds
\* one still, will not keep it when it hears of that; and a copy about to make
\* one has heard.
Yields(p, c, d) ==
    \A g \in StoodBy : Gone(p, c, g) =>
        /\ \A h \in StoodBy : made[h].on = p /\ made[h].by = d =>
              /\ h \notin Reach(d)
              /\ pending[d] = h => g < h \/ CommitMessage(g) \notin mail[d]
        /\ at[d] = p /\ debt[d] /\ ~reading[d] /\ ~down[d] => CommitMessage(g) \notin mail[d]

PairYields ==
    \A p \in Places : Cardinality(Members(p)) = 2 =>
        \A c, d \in Members(p) : c # d => Yields(p, c, d)

Geography == Ways /\ Heard /\ Makers
PairInv == Geography /\ Standing /\ InDebt /\ OneEach /\ PairYields

-----------------------------------------------------------------------------
LEMMA PairUp ==
    ASSUME NEW S, Cardinality(S) = 2, IsFiniteSet(S), NEW a \in S, NEW b \in S, a # b
    PROVE  S = {a, b}
<1>1. {a, b} \subseteq S /\ IsFiniteSet({a, b}) /\ Cardinality({a, b}) = 2
    <2>1. IsFiniteSet({a}) /\ Cardinality({a}) = 1
        BY FS_Singleton
    <2>2. b \notin {a} /\ {a} \union {b} = {a, b}
        OBVIOUS
    <2> DEFINE A == {a}
    <2>3. IsFiniteSet(A) /\ Cardinality(A) = 1 /\ b \notin A
        BY <2>1, <2>2
    <2> HIDE DEF A
    <2>4. IsFiniteSet(A \union {b}) /\ Cardinality(A \union {b}) = 1 + 1
        BY <2>3, FS_AddElement
    <2>5. A \union {b} = {a, b}
        BY <2>2 DEF A
    <2> QED
        BY <2>4, <2>5
<1> QED
    BY <1>1, FS_Subset

LEMMA NoneIsNoPlace == None \notin Places /\ None \notin Hashes /\ 0 \notin Hashes /\ 0 \in Places
BY ConversationAssumption DEF Places, Made

\* A commit that is heard and not stale was made at the device's own epoch.
LEMMA SamePlace ==
    ASSUME ConversationInv, Ways, NEW p \in Places, NEW q \in Path(p),
           ~(EpochNumber(q) < EpochNumber(p))
    PROVE  q = p
<1>1. q \in Places /\ q \in Path(q) /\ p \in Path(p) /\ Path(q) \subseteq Path(p)
      /\ IsFiniteSet(Path(p)) /\ IsFiniteSet(Path(q))
    BY PlaceType DEF Ways
<1>2. Path(q) = Path(p)
    <2>1. Cardinality(Path(q)) \in Nat /\ Cardinality(Path(p)) \in Nat
          /\ Cardinality(Path(q)) <= Cardinality(Path(p))
        BY <1>1, FS_Subset, FS_CardinalityType
    <2>2. Cardinality(Path(q)) = Cardinality(Path(p))
        BY <2>1 DEF EpochNumber
    <2> QED
        BY <1>1, <2>2, FS_Subset
<1>3. CASE p = 0
    BY <1>1, <1>3 DEF Path
<1>4. CASE p \in Made
    <2>1. PICK o \in Places : made[p].on = o
        BY <1>4 DEF ConversationInv, CommitsWellFormed
    <2>2. Path(p) = Path(o) \union {p} /\ p \notin Path(o)
        <3>1. p # 0
            BY <1>4, NoneIsNoPlace DEF Made
        <3> QED
            BY <1>4, <2>1, <3>1 DEF ConversationInv, CommitsWellFormed, Ways, Path
    <2>3. ASSUME q # p PROVE FALSE
        <3>1. q \in Path(o)
            BY <2>2, <2>3
        <3>2. Path(q) \subseteq Path(o)
            BY <3>1 DEF Ways
        <3> QED
            BY <1>1, <1>2, <2>2, <3>2
    <2> QED
        BY <2>3
<1> QED
    BY <1>3, <1>4 DEF Places

\* What Session::sync_tag_keys remembers.
LEMMA RememberRange ==
    ASSUME NEW ks \in TagKeys, NEW e \in Epochs
    PROVE  /\ Range(Remember(ks, e)) \subseteq Range(ks) \union {e}
           /\ e \in Range(Remember(ks, e))
<1>0. ks \in Seq(Epochs) /\ Len(ks) <= TAG_EPOCH_MEMORY
    BY DEF TagKeys
<1>1. CASE ks # <<>> /\ Last(ks) = e
    <2>1. Len(ks) \in DOMAIN ks /\ ks[Len(ks)] = e
        BY <1>0, <1>1 DEF Last
    <2> QED
        BY <1>1, <2>1 DEF Remember, Range
<1> DEFINE more == Append(ks, e)
<1>2. /\ more \in Seq(Epochs) /\ Len(more) = Len(ks) + 1 /\ Len(ks) \in Nat
      /\ DOMAIN more = 1 .. Len(ks) + 1 /\ DOMAIN ks = 1 .. Len(ks)
      /\ more[Len(ks) + 1] = e /\ \A i \in 1 .. Len(ks) : more[i] = ks[i]
    BY <1>0
<1> HIDE DEF more
<1>3. \A i \in DOMAIN more : more[i] \in Range(ks) \union {e}
    BY <1>2 DEF Range
<1>4. CASE ~(ks # <<>> /\ Last(ks) = e) /\ ~(Len(more) > TAG_EPOCH_MEMORY)
    <2>1. Remember(ks, e) = more
        BY <1>4 DEF Remember, more
    <2> QED
        BY <1>2, <1>3, <2>1 DEF Range
<1>5. CASE ~(ks # <<>> /\ Last(ks) = e) /\ Len(more) > TAG_EPOCH_MEMORY
    <2>1. Remember(ks, e) = Tail(more)
        BY <1>5 DEF Remember, more
    <2>2. more # <<>> /\ Len(ks) >= 1
        BY <1>0, <1>2, <1>5, ConversationAssumption
    <2>3. /\ DOMAIN Tail(more) = 1 .. Len(ks)
          /\ \A i \in 1 .. Len(ks) : Tail(more)[i] = more[i + 1]
        BY <1>2, <2>2
    <2>4. \A i \in 1 .. Len(ks) : i + 1 \in DOMAIN more
        BY <1>2
    <2>5. Len(ks) \in 1 .. Len(ks)
        BY <1>2, <2>2
    <2>6. e \in Range(Tail(more))
        BY <1>2, <2>3, <2>5 DEF Range
    <2>7. Range(Tail(more)) \subseteq Range(ks) \union {e}
        BY <1>3, <2>3, <2>4 DEF Range
    <2> QED
        BY <2>1, <2>6, <2>7
<1> QED
    BY <1>1, <1>4, <1>5

\* The epochs there were are what they were, and the new ones fit.
Ground ==
    /\ Ways' /\ Made \subseteq Made' /\ Places \subseteq Places'
    /\ \A g \in Made : made'[g] = made[g]
    /\ \A p \in Places : Path(p)' = Path(p) /\ Members(p)' = Members(p)

LEMMA GroundUnchanged ==
    ASSUME Ways, UNCHANGED made
    PROVE  Ground /\ Made' = Made /\ Places' = Places
<1>1. made' = made /\ Made' = Made /\ Places' = Places
    BY DEF Made, Places
<1>2. \A p : Path(p)' = Path(p) /\ Members(p)' = Members(p)
    BY <1>1 DEF Path, Members
<1>3. Ways'
    BY <1>1, <1>2 DEF Ways
<1> QED
    BY <1>1, <1>2, <1>3 DEF Ground

LEMMA GroundMade ==
    ASSUME ConversationInv, Ways, NEW d \in Devices, NEW h \in Hashes \ Made,
           NEW own \in SUBSET Proposal, NEW removes, Commits(d, h, own, removes)
    PROVE  /\ Ground /\ Made' = Made \union {h} /\ Places' = Places \union {h}
           /\ made'[h].by = d /\ made'[h].on = at[d] /\ at[d] \in Places
           /\ pending[d] = None /\ InGroup(d)
<1>1. /\ Grown(h) /\ CommitsWellFormed'
      /\ made'[h].by = d /\ made'[h].on = at[d]
      /\ made'[h].path = Path(at[d]) \union {h}
      /\ at[d] \in Places /\ h \in Made'
    BY MakeKeeps
<1>2. PICK o \in Places : o = at[d]
    BY <1>1
<1>3. /\ Made' = Made \union {h} /\ Places' = Places \union {h}
      /\ \A g \in Made : made'[g] = made[g]
      /\ \A p \in Places : Path(p)' = Path(p) /\ Members(p)' = Members(p)
    BY <1>1 DEF Grown, Places
<1>4. Path(h)' = Path(o) \union {h} /\ h \notin Places
    BY <1>1, <1>2, NoneIsNoPlace DEF Path, Places
<1>5. \A p \in Places : Path(p) \subseteq Places
    BY PlaceType
<1>6. \A g \in Made : g # h /\ g \in Hashes
    BY DEF Made
<1>7. ASSUME NEW p \in Places'
      PROVE  /\ IsFiniteSet(Path(p)') /\ p \in Path(p)'
             /\ \A q \in Path(p)' : Path(q)' \subseteq Path(p)'
             /\ \A g, k \in Path(p)' \intersect Made' : made'[g].on = made'[k].on => g = k
    <2>1. CASE p \in Places
        <3>1. Path(p)' = Path(p) /\ Path(p) \subseteq Places /\ h \notin Path(p)
            BY <1>3, <1>4, <1>5, <2>1
        <3>2. \A q \in Path(p)' : Path(q)' = Path(q)
            BY <1>3, <3>1
        <3>3. Path(p)' \intersect Made' = Path(p) \intersect Made
            BY <1>3, <3>1
        <3> QED
            BY <1>3, <2>1, <3>1, <3>2, <3>3 DEF Ways
    <2>2. CASE p = h
        <3>1. IsFiniteSet(Path(o) \union {h})
            BY FS_AddElement DEF Ways
        <3>2. ASSUME NEW q \in Path(o) \union {h}
              PROVE  Path(q)' \subseteq Path(o) \union {h}
            <4>1. q \in Path(o) => Path(q)' = Path(q) /\ Path(q) \subseteq Path(o)
                BY <1>3, <1>5 DEF Ways
            <4> QED
                BY <1>4, <4>1
        <3>3. ASSUME NEW g \in Path(o) \intersect Made
              PROVE  made'[g].on # made'[h].on
            <4>1. made[g].on # o
                BY DEF Ways
            <4> QED
                BY <1>1, <1>2, <1>3, <4>1
        <3>4. ASSUME NEW g \in Path(o) \intersect Made, NEW k \in Path(o) \intersect Made,
                     made'[g].on = made'[k].on
              PROVE  g = k
            BY <1>3, <3>4 DEF Ways
        <3>5. Path(p)' = Path(o) \union {h}
            BY <1>4, <2>2
        <3>6. Path(o) \intersect Made' = Path(o) \intersect Made
            BY <1>3, <1>4, <1>5
        <3> QED
            BY <2>2, <3>1, <3>2, <3>3, <3>4, <3>5, <3>6
    <2> QED
        BY <1>3, <2>1, <2>2
<1>8. ASSUME NEW g \in Made', NEW p \in Places', made'[g].on = p
      PROVE  g \notin Path(p)'
    <2>1. CASE g \in Made
        <3>1. p \in Places /\ made[g].on = p
            BY <1>3, <1>8, <2>1 DEF ConversationInv, CommitsWellFormed
        <3> QED
            BY <1>3, <2>1, <3>1 DEF Ways
    <2>2. CASE g = h
        <3>1. p = o
            BY <1>1, <1>2, <1>8, <2>2
        <3> QED
            BY <1>3, <1>4, <1>5, <2>2, <3>1
    <2> QED
        BY <1>3, <2>1, <2>2
<1>9. Ways'
    BY <1>7, <1>8 DEF Ways
<1> QED
    BY <1>1, <1>3, <1>9 DEF Ground, Commits, MakeNaming, MayCommit

-----------------------------------------------------------------------------
(* Where the devices are.                                                  *)

LEMMA ReachSame ==
    ASSUME ConversationInv, Ground, NEW d \in Devices, at'[d] = at[d]
    PROVE  Reach(d)' = Reach(d)
<1>1. CASE at[d] = None
    BY <1>1 DEF Reach
<1>2. CASE at[d] # None
    <2>1. PICK p \in Places : at[d] = p
        BY <1>2 DEF ConversationInv, PlacesExist
    <2> QED
        BY <1>2, <2>1 DEF Ground, Reach, Path
<1> QED
    BY <1>1, <1>2

\* Along one commit.
LEMMA ReachOn ==
    ASSUME ConversationInv, ConversationInv', Ground, NEW d \in Devices, NEW h \in Made',
           at'[d] = h, at[d] # None, made'[h].on = at[d]
    PROVE  Reach(d)' = Reach(d) \union {h}
<1>1. PICK p \in Places : at[d] = p
    BY DEF ConversationInv, PlacesExist
<1>2. made'[h].path = Path(p)' \union {h} /\ h # 0 /\ h # None
    BY <1>1, NoneIsNoPlace DEF ConversationInv, CommitsWellFormed, Made, Path
<1>3. Reach(d)' = made'[h].path
    BY <1>2 DEF Reach, Path
<1> QED
    BY <1>1, <1>2, <1>3 DEF Ground, Reach

\* Back to a place on the way, or in at a place.
LEMMA ReachAt ==
    ASSUME Ground, NEW d \in Devices, NEW p \in Places, at'[d] = p
    PROVE  Reach(d)' = Path(p)
<1>1. p # None
    BY NoneIsNoPlace
<1> QED
    BY <1>1 DEF Ground, Reach, Path

\* How a device may move, and what it may write down.
Travel(e) ==
    \/ at'[e] = at[e] /\ keys'[e] = keys[e]
    \/ saved[e].at \in Places /\ at'[e] = saved[e].at /\ keys'[e] = saved[e].keys
    \/ /\ at[e] # None /\ at'[e] \in Made' /\ made'[at'[e]].on = at[e]
       /\ keys'[e] = Remember(keys[e], at'[e])
    \/ at[e] = None /\ at'[e] \in Made /\ keys'[e] = <<at'[e]>>

Wrote(e) ==
    saved'[e] = saved[e] \/ (saved'[e].at = at'[e] /\ saved'[e].keys = keys'[e])

LEMMA HeardKept ==
    ASSUME ConversationInv, ConversationInv', Ways, Heard, Ground,
           NEW d \in Devices, Travel(d), Wrote(d), NEW p \in Places'
    PROVE  /\ at'[d] = p => Range(keys'[d]) \subseteq Path(p)' /\ p \in Range(keys'[d])
           /\ saved'[d].at = p => /\ Range(saved'[d].keys) \subseteq Path(p)'
                                  /\ p \in Range(saved'[d].keys)
                                  /\ p \in Reach(d)'
<1>1. at'[d] = p => Range(keys'[d]) \subseteq Path(p)' /\ p \in Range(keys'[d])
    <2> SUFFICES ASSUME at'[d] = p
                 PROVE  Range(keys'[d]) \subseteq Path(p)' /\ p \in Range(keys'[d])
        OBVIOUS
    <2>1. CASE at'[d] = at[d] /\ keys'[d] = keys[d]
        <3>1. p \in Places
            BY <2>1, NoneIsNoPlace DEF ConversationInv, PlacesExist, Places, Made
        <3> QED
            BY <2>1, <3>1 DEF Heard, Ground
    <2>2. CASE saved[d].at \in Places /\ at'[d] = saved[d].at /\ keys'[d] = saved[d].keys
        BY <2>2 DEF Heard, Ground
    <2>3. CASE /\ at[d] # None /\ at'[d] \in Made' /\ made'[at'[d]].on = at[d]
               /\ keys'[d] = Remember(keys[d], at'[d])
        <3>1. PICK q \in Places : at[d] = q
            BY <2>3 DEF ConversationInv, PlacesExist
        <3>2. Range(keys[d]) \subseteq Path(q)
            BY <3>1 DEF Heard
        <3>3. Reach(d) = Path(q) /\ Reach(d)' = Path(p)'
            BY <3>1, <2>3, NoneIsNoPlace DEF Reach, Path, Made
        <3>4. Reach(d)' = Reach(d) \union {p}
            BY <2>3, ReachOn
        <3>5. p \in Epochs /\ keys[d] \in TagKeys
            BY <2>3 DEF Epochs, Made, ConversationInv, ConversationTypeOK
        <3>6. /\ Range(keys'[d]) \subseteq Range(keys[d]) \union {p}
              /\ p \in Range(keys'[d])
            BY <2>3, <3>5, RememberRange
        <3> QED
            BY <3>2, <3>3, <3>4, <3>6
    <2>4. CASE at[d] = None /\ at'[d] \in Made /\ keys'[d] = <<at'[d]>>
        <3>1. Range(keys'[d]) = {p}
            BY <2>4 DEF Range
        <3> QED
            BY <3>1 DEF Ground, Ways
    <2> QED
        BY <2>1, <2>2, <2>3, <2>4 DEF Travel
<1>2. CASE saved'[d].at = at'[d] /\ saved'[d].keys = keys'[d]
    <2>1. at'[d] = p => p \in Reach(d)'
        BY NoneIsNoPlace DEF Reach, Path, Ground, Ways, Places, Made
    <2> QED
        BY <1>1, <1>2, <2>1
<1>3. CASE saved'[d] = saved[d]
    <2> SUFFICES ASSUME saved[d].at = p
                 PROVE  /\ Range(saved[d].keys) \subseteq Path(p)' /\ p \in Range(saved[d].keys)
                        /\ p \in Reach(d)'
        BY <1>1, <1>3
    <2>1. p # None
        BY NoneIsNoPlace DEF Places, Made
    <2>2. p \in Places /\ at[d] # None
        BY <2>1 DEF ConversationInv, PlacesExist
    <2>3. /\ Range(saved[d].keys) \subseteq Path(p) /\ p \in Range(saved[d].keys)
          /\ p \in Reach(d) /\ Path(p)' = Path(p) /\ p \in Path(p)
        BY <2>2 DEF Heard, Ground, Ways
    <2>4. p \in Reach(d)'
        <3>1. CASE at'[d] = at[d]
            BY <2>3, <3>1, ReachSame
        <3>2. CASE at'[d] = saved[d].at
            BY <2>2, <2>3, <3>2, ReachAt
        <3>3. CASE at'[d] \in Made' /\ made'[at'[d]].on = at[d]
            BY <2>2, <2>3, <3>3, ReachOn
        <3> QED
            BY <2>2, <3>1, <3>2, <3>3 DEF Travel
    <2> QED
        BY <2>3, <2>4
<1> QED
    BY <1>2, <1>3 DEF Wrote

LEMMA HeardKeptByAll ==
    ASSUME ConversationInv, ConversationInv', Ways, Heard, Ground,
           \A e \in Devices : Travel(e) /\ Wrote(e)
    PROVE  Heard'
BY HeardKept DEF Heard

\* No copy of a commit but those of a new one, to the other members.
Sent(h, d) ==
    /\ \A e \in Devices, g \in Made :
           CommitMessage(g) \in mail'[e] => CommitMessage(g) \in mail[e]
    /\ \A e \in Devices : CommitMessage(h) \in mail'[e] => e \in Others(d)

LEMMA MakersKept ==
    ASSUME ConversationInv, Makers, Ground, Made' = Made,
           \A e \in Devices : at'[e] = None => at[e] = None,
           \A e \in Devices, g \in Made :
               CommitMessage(g) \in mail'[e] => CommitMessage(g) \in mail[e]
    PROVE  Makers'
<1>1. ASSUME NEW g \in Made', NEW p \in Places', made'[g].on = p
      PROVE  /\ made'[g].by \in Members(p)' /\ at'[made'[g].by] # None
             /\ \A e \in Devices :
                    CommitMessage(g) \in mail'[e] => e # made'[g].by /\ e \in Members(p)'
    <2>1. made[g].on = p /\ p \in Places /\ made'[g] = made[g] /\ g \in Made
        BY <1>1 DEF Ground, ConversationInv, CommitsWellFormed
    <2>2. made[g].by \in Devices
        BY <2>1, NoneAssumption DEF ConversationInv, ConversationTypeOK, Made, Commit
    <2>3. /\ made[g].by \in Members(p) /\ at[made[g].by] # None
          /\ \A e \in Devices : CommitMessage(g) \in mail[e] => e # made[g].by /\ e \in Members(p)
        BY <2>1 DEF Makers
    <2> QED
        BY <2>1, <2>2, <2>3 DEF Ground
<1> QED
    BY <1>1 DEF Makers

LEMMA MakersGrow ==
    ASSUME ConversationInv, Makers, Ground, NEW d \in Devices, NEW h \in Hashes \ Made,
           Made' = Made \union {h}, made'[h].by = d, made'[h].on = at[d], InGroup(d),
           \A e \in Devices : at'[e] = None => at[e] = None, Sent(h, d)
    PROVE  Makers'
<1>1. ASSUME NEW g \in Made, NEW p \in Places', made'[g].on = p
      PROVE  /\ made'[g].by \in Members(p)' /\ at'[made'[g].by] # None
             /\ \A e \in Devices :
                    CommitMessage(g) \in mail'[e] => e # made'[g].by /\ e \in Members(p)'
    <2>1. made[g].on = p /\ p \in Places /\ made'[g] = made[g] /\ g \in Made
        BY <1>1 DEF Ground, ConversationInv, CommitsWellFormed
    <2>2. made[g].by \in Devices
        BY <2>1, NoneAssumption DEF ConversationInv, ConversationTypeOK, Made, Commit
    <2>3. /\ made[g].by \in Members(p) /\ at[made[g].by] # None
          /\ \A e \in Devices : CommitMessage(g) \in mail[e] => e # made[g].by /\ e \in Members(p)
        BY <2>1 DEF Makers
    <2> QED
        BY <2>1, <2>2, <2>3 DEF Ground, Sent
<1>2. PICK o \in Places : at[d] = o
    BY DEF InGroup, ConversationInv, PlacesExist
<1>3. /\ d \in Members(o)' /\ at'[d] # None
      /\ \A e \in Devices : CommitMessage(h) \in mail'[e] => e # d /\ e \in Members(o)'
    BY <1>2 DEF InGroup, Ground, Sent, Others
<1> QED
    BY <1>1, <1>2, <1>3 DEF Makers

-----------------------------------------------------------------------------
(* What is stood by.                                                       *)

Stands == Standing /\ InDebt /\ OneEach /\ PairYields

\* Nobody has left an epoch that is new.
LEMMA OldPairs ==
    ASSUME ConversationInv, ConversationInv', Ground,
           \A p \in Places' \ Places, g \in Made' : made'[g].on # p,
           \A p \in Places : Cardinality(Members(p)) = 2 =>
               \A c, d \in Members(p) : c # d => Yields(p, c, d)'
    PROVE  PairYields'
<1>1. ASSUME NEW p \in Places' \ Places, NEW c, NEW d
      PROVE  Yields(p, c, d)'
    BY DEF Yields, Gone, StoodBy
<1>2. \A p \in Places : Members(p)' = Members(p)
    BY DEF Ground
<1>3. ASSUME NEW p \in Places', Cardinality(Members(p)') = 2, NEW c \in Members(p)',
             NEW d \in Members(p)', c # d
      PROVE  Yields(p, c, d)'
    BY <1>1, <1>2, <1>3
<1> QED
    BY <1>3 DEF PairYields

\* Nobody moves, and what is let go of is not stood by any more.
LEMMA StandsStill ==
    ASSUME ConversationInv, ConversationInv', Geography, Stands, UNCHANGED <<made, at, debt>>,
           blind \subseteq blind',
           \A e \in Devices : \/ pending'[e] = pending[e]
                              \/ pending'[e] = None /\ pending[e] \in blind' \union {None},
           \A e \in Devices, g \in Made :
               CommitMessage(g) \in mail'[e] => CommitMessage(g) \in mail[e],
           \A e \in Devices : down[e] => down'[e],
           \A e \in Devices : reading[e] => reading'[e] \/ Unread(e) = {}
    PROVE  Stands'
<1>1. Ground /\ Made' = Made /\ Places' = Places /\ made' = made /\ at' = at /\ debt' = debt
    BY GroundUnchanged DEF Geography
<1>2. StoodBy' \subseteq StoodBy /\ StoodBy \subseteq Made /\ StoodBy' = Made \ blind'
    BY <1>1 DEF StoodBy
<1>3. \A e \in Devices : Reach(e)' = Reach(e)
    BY <1>1, ReachSame
<1>4. Standing'
    <2>1. ASSUME NEW c \in Devices, NEW g \in StoodBy', made'[g].by = c
          PROVE  \/ pending'[c] = g
                 \/ g \in Reach(c)'
                 \/ \E h \in Reach(c)' \intersect Made' : made'[h].on = made'[g].on /\ h < g
        <3>1. \/ pending[c] = g
              \/ g \in Reach(c)
              \/ \E h \in Reach(c) \intersect Made : made[h].on = made[g].on /\ h < g
            BY <1>1, <1>2, <2>1 DEF Stands, Standing
        <3>2. pending[c] = g => pending'[c] = g
            BY <1>1, <1>2, NoneIsNoPlace DEF Made
        <3> QED
            BY <1>1, <1>3, <3>1, <3>2
    <2> QED
        BY <2>1 DEF Standing
<1>5. InDebt'
    <2>1. ASSUME NEW e \in Devices, debt'[e]
          PROVE  /\ at'[e] # None /\ pending'[e] = None
                 /\ \A g \in StoodBy' : made'[g].by = e => g \in Reach(e)'
        BY <1>1, <1>2, <1>3, <2>1 DEF Stands, InDebt
    <2> QED
        BY <2>1 DEF InDebt
<1>6. OneEach'
    BY <1>1, <1>2 DEF Stands, OneEach
<1>7. ASSUME NEW p \in Places, NEW c \in Devices, NEW d \in Devices, Yields(p, c, d)
      PROVE  Yields(p, c, d)'
    <2> SUFFICES ASSUME NEW g \in StoodBy', Gone(p, c, g)'
                 PROVE  /\ \A h \in StoodBy' : made'[h].on = p /\ made'[h].by = d =>
                              /\ h \notin Reach(d)'
                              /\ pending'[d] = h => g < h \/ CommitMessage(g) \notin mail'[d]
                        /\ at'[d] = p /\ debt'[d] /\ ~reading'[d] /\ ~down'[d]
                              => CommitMessage(g) \notin mail'[d]
        BY DEF Yields
    <2>1. g \in StoodBy /\ g \in Made /\ Gone(p, c, g)
        BY <1>1, <1>2, <1>3 DEF Gone
    <2>2. /\ \A h \in StoodBy : made[h].on = p /\ made[h].by = d =>
                /\ h \notin Reach(d)
                /\ pending[d] = h => g < h \/ CommitMessage(g) \notin mail[d]
          /\ at[d] = p /\ debt[d] /\ ~reading[d] /\ ~down[d] => CommitMessage(g) \notin mail[d]
        BY <1>7, <2>1 DEF Yields
    <2>3. ASSUME NEW h \in StoodBy', made'[h].on = p, made'[h].by = d
          PROVE  /\ h \notin Reach(d)'
                 /\ pending'[d] = h => g < h \/ CommitMessage(g) \notin mail'[d]
        <3>1. pending'[d] = h => pending[d] = h
            BY <1>2, <2>3, NoneIsNoPlace DEF Made
        <3> QED
            BY <1>1, <1>2, <1>3, <2>1, <2>2, <2>3, <3>1
    <2>4. ASSUME at'[d] = p, debt'[d], ~reading'[d], ~down'[d]
          PROVE  CommitMessage(g) \notin mail'[d]
        <3>1. CASE ~reading[d]
            BY <1>1, <2>1, <2>2, <2>4, <3>1
        <3>2. CASE Unread(d) = {}
            <4>1. p \in Range(keys[d]) /\ made[g].on = p
                BY <1>1, <2>1, <2>4 DEF Geography, Heard, Gone
            <4>2. CommitMessage(g) \notin mail[d]
                BY <3>2, <4>1 DEF Unread, CommitMessage, Under
            <4> QED
                BY <2>1, <4>2
        <3> QED
            BY <2>4, <3>1, <3>2
    <2> QED
        BY <2>3, <2>4
<1>8. PairYields'
    <2>1. \A p \in Places : Members(p) \subseteq Devices
        BY PlaceType
    <2>2. ASSUME NEW p \in Places, Cardinality(Members(p)) = 2, NEW c \in Members(p),
                 NEW d \in Members(p), c # d
          PROVE  Yields(p, c, d)'
        BY <1>7, <2>1, <2>2 DEF Stands, PairYields
    <2> QED
        BY <1>1, <2>2, OldPairs
<1> QED
    BY <1>4, <1>5, <1>6, <1>8 DEF Stands

\* Nothing new is stood by at p, nobody goes along its own there, and d is no
\* nearer to making one.
LEMMA YieldsKept ==
    ASSUME Ground, NEW p \in Places, NEW c \in Devices, NEW d \in Devices, Yields(p, c, d),
           \A g \in StoodBy' : made'[g].on = p /\ made'[g].by = c /\ g \in Reach(c)'
               => g \in StoodBy /\ g \in Reach(c),
           \A h \in StoodBy' : made'[h].on = p /\ made'[h].by = d
               => /\ h \in StoodBy
                  /\ h \in Reach(d)' => h \in Reach(d)
                  /\ pending'[d] = h => pending[d] = h,
           \A g \in Made : CommitMessage(g) \in mail'[d] => CommitMessage(g) \in mail[d],
           at'[d] = p /\ debt'[d] /\ ~reading'[d] /\ ~down'[d]
               => at[d] = p /\ debt[d] /\ ~reading[d] /\ ~down[d]
    PROVE  Yields(p, c, d)'
<1> SUFFICES ASSUME NEW g \in StoodBy', Gone(p, c, g)'
             PROVE  /\ \A h \in StoodBy' : made'[h].on = p /\ made'[h].by = d =>
                          /\ h \notin Reach(d)'
                          /\ pending'[d] = h => g < h \/ CommitMessage(g) \notin mail'[d]
                    /\ at'[d] = p /\ debt'[d] /\ ~reading'[d] /\ ~down'[d]
                          => CommitMessage(g) \notin mail'[d]
    BY DEF Yields
<1>0. StoodBy \subseteq Made
    BY DEF StoodBy
<1>1. g \in StoodBy /\ g \in Made /\ Gone(p, c, g)
    BY <1>0 DEF Gone, Ground
<1>2. /\ \A h \in StoodBy : made[h].on = p /\ made[h].by = d =>
            /\ h \notin Reach(d)
            /\ pending[d] = h => g < h \/ CommitMessage(g) \notin mail[d]
      /\ at[d] = p /\ debt[d] /\ ~reading[d] /\ ~down[d] => CommitMessage(g) \notin mail[d]
    BY <1>1 DEF Yields
<1>3. ASSUME NEW h \in StoodBy', made'[h].on = p, made'[h].by = d
      PROVE  /\ h \notin Reach(d)'
             /\ pending'[d] = h => g < h \/ CommitMessage(g) \notin mail'[d]
    <2>1. h \in StoodBy /\ h \in Made /\ made[h].on = p /\ made[h].by = d
        BY <1>0, <1>3 DEF Ground
    <2> QED
        BY <1>1, <1>2, <1>3, <2>1
<1> QED
    BY <1>1, <1>2, <1>3

\* The same, with the pairs of members it is asked of.
LEMMA PairsKept ==
    ASSUME ConversationInv, ConversationInv', Ground, PairYields,
           \A p \in Places' \ Places, g \in Made' : made'[g].on # p,
           \A p \in Places, c, d \in Devices : c # d /\ Yields(p, c, d) => Yields(p, c, d)'
    PROVE  PairYields'
<1>1. \A p \in Places : Members(p) \subseteq Devices
    BY PlaceType
<1>2. ASSUME NEW p \in Places, Cardinality(Members(p)) = 2, NEW c \in Members(p),
             NEW d \in Members(p), c # d
      PROVE  Yields(p, c, d)'
    BY <1>1, <1>2 DEF PairYields
<1> QED
    BY <1>2, OldPairs

LEMMA WroteSaved ==
    ASSUME ConversationTypeOK, NEW d \in Devices, Save(d) \/ UNCHANGED saved
    PROVE  \A e \in Devices : Wrote(e)
<1>1. CASE UNCHANGED saved
    BY <1>1 DEF Wrote
<1>2. CASE saved' = [saved EXCEPT ![d] = [at |-> at'[d], keys |-> keys'[d],
                                         proposals |-> proposals'[d]]]
    <2>1. \A e \in Devices \ {d} : saved'[e] = saved[e]
        BY <1>2
    <2>2. saved'[d] = [at |-> at'[d], keys |-> keys'[d], proposals |-> proposals'[d]]
        BY <1>2 DEF ConversationTypeOK
    <2>3. saved'[d].at = at'[d] /\ saved'[d].keys = keys'[d]
        BY <2>2
    <2> QED
        BY <2>1, <2>3 DEF Wrote
<1> QED
    BY <1>1, <1>2 DEF Save

\* Make and settle: what is made is not stood by.
LEMMA SettledInv ==
    ASSUME ConversationInv, ConversationInv', PairInv, NEW d \in Devices,
           NEW h \in Hashes \ Made, NEW own \in SUBSET Proposal, NEW removes,
           Commits(d, h, own, removes), SettleAtOnce(d, h), Save(d) \/ UNCHANGED saved,
           ~debt'[d], \A e \in Devices : debt'[e] => debt[e],
           \A e \in Devices : down[e] => down'[e], UNCHANGED reading, Sent(h, d)
    PROVE  PairInv'
<1>0. ConversationTypeOK /\ Geography /\ Stands
    BY DEF ConversationInv, PairInv, Stands
<1>1. /\ Ground /\ Made' = Made \union {h} /\ Places' = Places \union {h}
      /\ made'[h].by = d /\ made'[h].on = at[d] /\ at[d] \in Places
      /\ pending[d] = None /\ InGroup(d)
    BY <1>0, GroundMade DEF Geography
<1>2. /\ at'[d] = h /\ keys'[d] = Remember(keys[d], h) /\ pending'[d] = None
      /\ \A e \in Devices \ {d} : at'[e] = at[e] /\ keys'[e] = keys[e] /\ pending'[e] = pending[e]
      /\ blind' = blind \union {h}
    BY <1>0 DEF SettleAtOnce, Enter, ConversationTypeOK
<1>3. at[d] # None /\ h # None /\ h \notin Places
    BY <1>1, NoneIsNoPlace DEF Places
<1>4. /\ StoodBy' = StoodBy \ {h} /\ h \notin StoodBy
      /\ StoodBy \subseteq Made /\ StoodBy \subseteq Hashes
    BY <1>1, <1>2 DEF StoodBy, Made
<1>5. Reach(d)' = Reach(d) \union {h} /\ \A e \in Devices \ {d} : Reach(e)' = Reach(e)
    BY <1>1, <1>2, <1>3, ReachOn, ReachSame
<1>6. Heard'
    <2>1. \A e \in Devices : Travel(e)
        BY <1>1, <1>2, <1>3 DEF Travel
    <2>2. \A e \in Devices : Wrote(e)
        BY <1>0, WroteSaved
    <2> QED
        BY <1>0, <1>1, <2>1, <2>2, HeardKeptByAll DEF Geography
<1>7. Makers'
    <2>1. \A e \in Devices : at'[e] = None => at[e] = None
        BY <1>2, <1>3
    <2> QED
        BY <1>0, <1>1, <2>1, MakersGrow DEF Geography
<1>8. Standing'
    <2>1. ASSUME NEW c \in Devices, NEW g \in StoodBy', made'[g].by = c
          PROVE  \/ pending'[c] = g
                 \/ g \in Reach(c)'
                 \/ \E k \in Reach(c)' \intersect Made' : made'[k].on = made'[g].on /\ k < g
        <3>1. g \in StoodBy /\ g \in Made /\ made'[g] = made[g]
            BY <1>1, <1>4 DEF Ground
        <3>2. \/ pending[c] = g
              \/ g \in Reach(c)
              \/ \E k \in Reach(c) \intersect Made : made[k].on = made[g].on /\ k < g
            BY <1>0, <2>1, <3>1 DEF Stands, Standing
        <3>3. pending[c] = g => pending'[c] = g
            BY <1>1, <1>2, <1>4, <3>1, NoneIsNoPlace
        <3>4. Reach(c) \subseteq Reach(c)' /\ \A k \in Made : made'[k] = made[k] /\ k \in Made'
            BY <1>1, <1>5 DEF Ground
        <3> QED
            BY <3>1, <3>2, <3>3, <3>4
    <2> QED
        BY <2>1 DEF Standing
<1>9. InDebt'
    <2>1. ASSUME NEW e \in Devices, debt'[e]
          PROVE  /\ at'[e] # None /\ pending'[e] = None
                 /\ \A g \in StoodBy' : made'[g].by = e => g \in Reach(e)'
        <3>1. e # d /\ debt[e]
            BY <2>1
        <3>2. /\ at[e] # None /\ pending[e] = None
              /\ \A g \in StoodBy : made[g].by = e => g \in Reach(e)
            BY <1>0, <3>1 DEF Stands, InDebt
        <3> QED
            BY <1>1, <1>2, <1>4, <1>5, <3>1, <3>2 DEF Ground
    <2> QED
        BY <2>1 DEF InDebt
<1>10. OneEach'
    BY <1>0, <1>1, <1>4 DEF Stands, OneEach, Ground
<1>11. ASSUME NEW p \in Places, NEW c \in Devices, NEW e \in Devices, c # e, Yields(p, c, e)
       PROVE  Yields(p, c, e)'
    <2>1. \A g \in StoodBy' : g \in StoodBy /\ g # h
        BY <1>4
    <2>2. \A g \in StoodBy' : pending'[e] = g => pending[e] = g
        BY <1>2, <2>1, <1>4, NoneIsNoPlace
    <2>3. at'[e] = p /\ debt'[e] /\ ~reading'[e] /\ ~down'[e]
               => at[e] = p /\ debt[e] /\ ~reading[e] /\ ~down[e]
        BY <1>2
    <2> QED
        BY <1>1, <1>5, <1>11, <2>1, <2>2, <2>3, YieldsKept DEF Sent
<1>12. PairYields'
    <2>1. \A p \in Places' \ Places, g \in Made' : made'[g].on # p
        BY <1>1, <1>3 DEF Ground, ConversationInv, CommitsWellFormed
    <2> QED
        BY <1>0, <1>1, <1>11, <2>1, PairsKept DEF Stands
<1> QED
    BY <1>1, <1>6, <1>7, <1>8, <1>9, <1>10, <1>12 DEF PairInv, Geography, Ground

\* Make and hold: a device that stands by it had read its backlog.
LEMMA HeldInv ==
    ASSUME ConversationInv, ConversationInv', PairInv, NEW d \in Devices,
           NEW h \in Hashes \ Made, NEW own \in SUBSET Proposal, NEW removes,
           Commits(d, h, own, removes), pending' = [pending EXCEPT ![d] = h],
           UNCHANGED <<at, keys, saved, reading>>,
           ~debt'[d], \A e \in Devices : debt'[e] => debt[e],
           \A e \in Devices : down[e] => down'[e], Sent(h, d),
           blind' = blind \union {h} \/ (blind' = blind /\ debt[d] /\ ~reading[d])
    PROVE  PairInv'
<1>0. ConversationTypeOK /\ Geography /\ Stands
    BY DEF ConversationInv, PairInv, Stands
<1>1. /\ Ground /\ Made' = Made \union {h} /\ Places' = Places \union {h}
      /\ made'[h].by = d /\ made'[h].on = at[d] /\ at[d] \in Places
      /\ pending[d] = None /\ InGroup(d)
    BY <1>0, GroundMade DEF Geography
<1>2. pending'[d] = h /\ \A e \in Devices \ {d} : pending'[e] = pending[e]
    BY <1>0 DEF ConversationTypeOK
<1>3. at[d] # None /\ h # None /\ h \notin Places
    BY <1>1, NoneIsNoPlace DEF Places
<1>4. /\ StoodBy' \subseteq StoodBy \union {h} /\ StoodBy \subseteq Made /\ StoodBy \subseteq Hashes
      /\ h \notin Made
      /\ h \in StoodBy' => debt[d] /\ ~reading[d]
    BY <1>1 DEF StoodBy, Made
<1>5. \A e \in Devices : Reach(e)' = Reach(e) /\ h \notin Reach(e)
    <2>1. \A e \in Devices : Reach(e)' = Reach(e)
        BY <1>1, ReachSame
    <2>2. \A e \in Devices : Reach(e) \subseteq Places
        BY PlaceType DEF ConversationInv, PlacesExist, Reach
    <2> QED
        BY <1>3, <2>1, <2>2
<1>6. Heard'
    <2>1. \A e \in Devices : Travel(e) /\ Wrote(e)
        BY DEF Travel, Wrote
    <2> QED
        BY <1>0, <1>1, <2>1, HeardKeptByAll DEF Geography
<1>7. Makers'
    BY <1>0, <1>1, MakersGrow DEF Geography
<1>8. Standing'
    <2>1. ASSUME NEW c \in Devices, NEW g \in StoodBy', made'[g].by = c, g # h
          PROVE  \/ pending'[c] = g
                 \/ g \in Reach(c)'
                 \/ \E k \in Reach(c)' \intersect Made' : made'[k].on = made'[g].on /\ k < g
        <3>1. g \in StoodBy /\ g \in Made /\ made'[g] = made[g]
            BY <1>1, <1>4, <2>1 DEF Ground
        <3>2. \/ pending[c] = g
              \/ g \in Reach(c)
              \/ \E k \in Reach(c) \intersect Made : made[k].on = made[g].on /\ k < g
            BY <1>0, <2>1, <3>1 DEF Stands, Standing
        <3>3. pending[c] = g => pending'[c] = g
            BY <1>1, <1>2, <1>4, <3>1, NoneIsNoPlace
        <3>4. Reach(c) = Reach(c)' /\ \A k \in Made : made'[k] = made[k] /\ k \in Made'
            BY <1>1, <1>5 DEF Ground
        <3> QED
            BY <3>1, <3>2, <3>3, <3>4
    <2>2. \A c \in Devices : made'[h].by = c => pending'[c] = h
        BY <1>1, <1>2
    <2> QED
        BY <2>1, <2>2 DEF Standing
<1>9. InDebt'
    <2>1. ASSUME NEW e \in Devices, debt'[e]
          PROVE  /\ at'[e] # None /\ pending'[e] = None
                 /\ \A g \in StoodBy' : made'[g].by = e => g \in Reach(e)'
        <3>1. e # d /\ debt[e]
            BY <2>1
        <3>2. /\ at[e] # None /\ pending[e] = None
              /\ \A g \in StoodBy : made[g].by = e => g \in Reach(e)
            BY <1>0, <3>1 DEF Stands, InDebt
        <3> QED
            BY <1>1, <1>2, <1>4, <1>5, <3>1, <3>2 DEF Ground
    <2> QED
        BY <2>1 DEF InDebt
<1>10. OneEach'
    <2>1. ASSUME NEW g \in StoodBy', g # h, h \in StoodBy', made'[g].by = d, made'[g].on = at[d]
          PROVE  FALSE
        <3>1. g \in StoodBy /\ g \in Made /\ made[g].by = d /\ made[g].on = at[d] /\ debt[d]
            BY <1>1, <1>4, <2>1 DEF Ground
        <3>2. g \in Reach(d)
            BY <1>0, <3>1 DEF Stands, InDebt
        <3> QED
            BY <1>0, <1>1, <1>3, <3>1, <3>2 DEF Geography, Ways, Reach
    <2>2. ASSUME NEW g \in StoodBy', NEW k \in StoodBy', g # h, k # h,
                 made'[g].by = made'[k].by, made'[g].on = made'[k].on
          PROVE  g = k
        BY <1>0, <1>1, <1>4, <2>2 DEF Stands, OneEach, Ground
    <2> QED
        BY <1>1, <2>1, <2>2 DEF OneEach
<1>11. ASSUME NEW p \in Places, NEW c \in Devices, NEW e \in Devices, c # e, Yields(p, c, e)
       PROVE  Yields(p, c, e)'
    <2> SUFFICES ASSUME NEW g \in StoodBy', Gone(p, c, g)'
                 PROVE  /\ \A k \in StoodBy' : made'[k].on = p /\ made'[k].by = e =>
                              /\ k \notin Reach(e)'
                              /\ pending'[e] = k => g < k \/ CommitMessage(g) \notin mail'[e]
                        /\ at'[e] = p /\ debt'[e] /\ ~reading'[e] /\ ~down'[e]
                              => CommitMessage(g) \notin mail'[e]
        BY DEF Yields
    <2>1. g \in Reach(c) /\ g # h /\ g \in StoodBy /\ g \in Made /\ Gone(p, c, g)
          /\ (CommitMessage(g) \in mail'[e] => CommitMessage(g) \in mail[e])
        BY <1>1, <1>4, <1>5 DEF Gone, Ground, Sent
    <2>2. /\ \A k \in StoodBy : made[k].on = p /\ made[k].by = e =>
                /\ k \notin Reach(e)
                /\ pending[e] = k => g < k \/ CommitMessage(g) \notin mail[e]
          /\ at[e] = p /\ debt[e] /\ ~reading[e] /\ ~down[e] => CommitMessage(g) \notin mail[e]
        BY <1>11, <2>1 DEF Yields
    <2>3. ASSUME NEW k \in StoodBy', made'[k].on = p, made'[k].by = e, k # h
          PROVE  /\ k \notin Reach(e)'
                 /\ pending'[e] = k => g < k \/ CommitMessage(g) \notin mail'[e]
        <3>1. k \in StoodBy /\ k \in Made /\ made[k].on = p /\ made[k].by = e
            BY <1>4, <2>3, <1>1 DEF Ground
        <3>2. pending'[e] = k => pending[e] = k
            BY <1>2, <2>3
        <3> QED
            BY <1>5, <2>1, <2>2, <3>1, <3>2
    <2>4. ASSUME h \in StoodBy', made'[h].on = p, made'[h].by = e
          PROVE  /\ h \notin Reach(e)'
                 /\ CommitMessage(g) \notin mail'[e]
        <3>1. e = d /\ at[e] = p /\ debt[e] /\ ~reading[e] /\ ~down[e]
            BY <1>1, <1>4, <2>4 DEF InGroup
        <3> QED
            BY <1>5, <2>1, <2>2, <3>1
    <2> QED
        BY <2>1, <2>2, <2>3, <2>4
<1>12. PairYields'
    <2>1. \A p \in Places' \ Places, g \in Made' : made'[g].on # p
        BY <1>1, <1>3 DEF Ground, ConversationInv, CommitsWellFormed
    <2> QED
        BY <1>0, <1>1, <1>11, <2>1, PairsKept DEF Stands
<1> QED
    BY <1>1, <1>6, <1>7, <1>8, <1>9, <1>10, <1>12 DEF PairInv, Geography, Ground

\* A copy read back stands by nothing that it does not have behind it.
LEMMA RestartInv ==
    ASSUME ConversationInv, ConversationInv', PairInv, NEW d \in Devices, Restart(d)
    PROVE  PairInv'
<1>0. ConversationTypeOK /\ Geography /\ Stands
    BY DEF ConversationInv, PairInv, Stands
<1>1. Ground /\ Made' = Made /\ Places' = Places /\ made' = made /\ mail' = mail /\ saved' = saved
    BY <1>0, GroundUnchanged DEF Geography, Restart
<1>2. PICK s \in Places : saved[d].at = s
    BY DEF ConversationInv, PlacesExist, Restart
<1>3. /\ at'[d] = s /\ keys'[d] = saved[d].keys /\ pending'[d] = None /\ debt'[d] /\ reading'[d]
      /\ \A e \in Devices \ {d} : /\ at'[e] = at[e] /\ keys'[e] = keys[e] /\ debt'[e] = debt[e]
                                  /\ pending'[e] = pending[e] /\ reading'[e] = reading[e]
                                  /\ down'[e] = down[e]
    BY <1>0, <1>2 DEF Restart, ConversationTypeOK
<1>4. s # None /\ at[d] # None
    BY <1>2, NoneIsNoPlace DEF ConversationInv, PlacesExist
<1>5. /\ Reach(d)' = Path(s) /\ Reach(d)' \subseteq Reach(d)
      /\ \A e \in Devices \ {d} : Reach(e)' = Reach(e)
    <2>1. Reach(d)' = Path(s)
        BY <1>1, <1>3, ReachAt
    <2>2. PICK p \in Places : at[d] = p
        BY <1>4 DEF ConversationInv, PlacesExist
    <2>3. Reach(d) = Path(p) /\ s \in Path(p)
        BY <1>0, <1>2, <1>4, <2>2 DEF Geography, Heard, Reach
    <2>4. Path(s) \subseteq Path(p)
        BY <1>0, <2>3 DEF Geography, Ways
    <2> QED
        BY <1>1, <1>3, <2>1, <2>3, <2>4, ReachSame
<1>6. /\ StoodBy' \subseteq StoodBy /\ StoodBy \subseteq Made
      /\ \A g \in StoodBy' : made'[g].by = d => g \in Reach(d)'
    BY <1>1, <1>2, <1>5 DEF StoodBy, Restart, Made
<1>7. Heard'
    <2>1. \A e \in Devices : Travel(e) /\ Wrote(e)
        BY <1>1, <1>2, <1>3 DEF Travel, Wrote
    <2> QED
        BY <1>0, <1>1, <2>1, HeardKeptByAll DEF Geography
<1>8. Makers'
    <2>1. \A e \in Devices : at'[e] = None => at[e] = None
        BY <1>3, <1>4
    <2> QED
        BY <1>0, <1>1, <2>1, MakersKept DEF Geography
<1>9. Standing'
    <2>1. ASSUME NEW c \in Devices \ {d}, NEW g \in StoodBy', made'[g].by = c
          PROVE  \/ pending'[c] = g
                 \/ g \in Reach(c)'
                 \/ \E k \in Reach(c)' \intersect Made' : made'[k].on = made'[g].on /\ k < g
        BY <1>0, <1>1, <1>3, <1>5, <1>6, <2>1 DEF Stands, Standing
    <2> QED
        BY <1>6, <2>1 DEF Standing
<1>10. InDebt'
    <2>1. ASSUME NEW e \in Devices \ {d}, debt'[e]
          PROVE  /\ at'[e] # None /\ pending'[e] = None
                 /\ \A g \in StoodBy' : made'[g].by = e => g \in Reach(e)'
        BY <1>0, <1>1, <1>3, <1>5, <1>6, <2>1 DEF Stands, InDebt
    <2> QED
        BY <1>3, <1>4, <1>6, <2>1 DEF InDebt
<1>11. OneEach'
    BY <1>0, <1>1, <1>6 DEF Stands, OneEach
<1>12. ASSUME NEW p \in Places, NEW c \in Devices, NEW e \in Devices, c # e, Yields(p, c, e)
       PROVE  Yields(p, c, e)'
    <2>1. \A f \in Devices : Reach(f)' \subseteq Reach(f)
        BY <1>5
    <2>2. \A g \in StoodBy' : g \in StoodBy /\ (pending'[e] = g => pending[e] = g)
        BY <1>3, <1>6, NoneIsNoPlace DEF Made
    <2>3. at'[e] = p /\ debt'[e] /\ ~reading'[e] /\ ~down'[e]
               => at[e] = p /\ debt[e] /\ ~reading[e] /\ ~down[e]
        BY <1>3
    <2> QED
        BY <1>1, <1>12, <2>1, <2>2, <2>3, YieldsKept
<1>13. PairYields'
    BY <1>0, <1>1, <1>12, PairsKept DEF Stands
<1> QED
    BY <1>1, <1>7, <1>8, <1>9, <1>10, <1>11, <1>13 DEF PairInv, Geography, Ground

\* A member of a pair may go along its own commit: nobody went along another at
\* that epoch, what the other holds loses, and the other owes no rekey there.
Clear(d, g) ==
    \A p \in Places, e \in Devices :
        made[g].on = p /\ Cardinality(Members(p)) = 2 /\ e \in Members(p) \ {d} =>
            /\ \A h \in StoodBy : made[h].on = p /\ made[h].by = e =>
                  h \notin Reach(e) /\ (pending[e] = h => g < h)
            /\ at[e] = p => ~debt[e]

\* A device goes along what it holds.
LEMMA OwnInv ==
    ASSUME ConversationInv, ConversationInv', PairInv, NEW d \in Devices,
           UNCHANGED <<made, debt, reading>>,
           pending[d] # None, Enter(d, pending[d]), pending' = [pending EXCEPT ![d] = None],
           Save(d) \/ UNCHANGED saved, \A e \in Devices : down[e] => down'[e],
           \A e \in Devices, g \in Made :
               CommitMessage(g) \in mail'[e] => CommitMessage(g) \in mail[e],
           blind \subseteq blind', pending[d] \in blind' \/ Clear(d, pending[d])
    PROVE  PairInv'
<1>0. ConversationTypeOK /\ Geography /\ Stands
    BY DEF ConversationInv, PairInv, Stands
<1>1. /\ Ground /\ Made' = Made /\ Places' = Places /\ made' = made
      /\ debt' = debt /\ reading' = reading
    BY <1>0, GroundUnchanged DEF Geography
<1>2. PICK o \in Made : o = pending[d] /\ made[o].by = d /\ made[o].on = at[d] /\ at[d] \in Places
    BY DEF ConversationInv, HeldIsOwn, CommitsWellFormed
<1>3. /\ at'[d] = o /\ keys'[d] = Remember(keys[d], o) /\ pending'[d] = None
      /\ \A e \in Devices \ {d} : at'[e] = at[e] /\ keys'[e] = keys[e] /\ pending'[e] = pending[e]
    BY <1>0, <1>2 DEF Enter, ConversationTypeOK
<1>4. at[d] # None /\ o # None /\ None \notin Made
    BY <1>2, NoneIsNoPlace DEF Places, Made
<1>5. /\ Reach(d)' = Reach(d) \union {o}
      /\ \A e \in Devices \ {d} : Reach(e)' = Reach(e)
    BY <1>1, <1>2, <1>3, <1>4, ReachOn, ReachSame
<1>6. /\ StoodBy' \subseteq StoodBy /\ StoodBy \subseteq Made
      /\ o \in StoodBy' => o \in StoodBy /\ Clear(d, o)
    BY <1>1, <1>2 DEF StoodBy
<1>7. ~debt[d]
    BY <1>0 DEF Stands, InDebt
<1>8. Heard'
    <2>1. \A e \in Devices : Travel(e)
        BY <1>1, <1>2, <1>3, <1>4 DEF Travel
    <2>2. \A e \in Devices : Wrote(e)
        BY <1>0, WroteSaved
    <2> QED
        BY <1>0, <1>1, <2>1, <2>2, HeardKeptByAll DEF Geography
<1>9. Makers'
    <2>1. \A e \in Devices : at'[e] = None => at[e] = None
        BY <1>3, <1>4
    <2> QED
        BY <1>0, <1>1, <2>1, MakersKept DEF Geography
<1>10. Standing'
    <2>1. ASSUME NEW c \in Devices, NEW g \in StoodBy', made'[g].by = c
          PROVE  \/ pending'[c] = g
                 \/ g \in Reach(c)'
                 \/ \E k \in Reach(c)' \intersect Made' : made'[k].on = made'[g].on /\ k < g
        <3>1. \/ pending[c] = g
              \/ g \in Reach(c)
              \/ \E k \in Reach(c) \intersect Made : made[k].on = made[g].on /\ k < g
            BY <1>0, <1>1, <1>6, <2>1 DEF Stands, Standing
        <3>2. Reach(c) \subseteq Reach(c)'
            BY <1>5
        <3>3. pending[c] = g => pending'[c] = g \/ g \in Reach(c)'
            BY <1>2, <1>3, <1>5
        <3> QED
            BY <1>1, <3>1, <3>2, <3>3
    <2> QED
        BY <2>1 DEF Standing
<1>11. InDebt'
    <2>1. ASSUME NEW e \in Devices, debt'[e]
          PROVE  /\ at'[e] # None /\ pending'[e] = None
                 /\ \A g \in StoodBy' : made'[g].by = e => g \in Reach(e)'
        <3>1. e # d /\ debt[e]
            BY <1>1, <1>7, <2>1
        <3> QED
            BY <1>0, <1>1, <1>3, <1>5, <1>6, <3>1 DEF Stands, InDebt
    <2> QED
        BY <2>1 DEF InDebt
<1>12. OneEach'
    BY <1>0, <1>1, <1>6 DEF Stands, OneEach
<1>13. ASSUME NEW p \in Places, Cardinality(Members(p)) = 2, NEW c \in Members(p),
              NEW e \in Members(p), c # e
       PROVE  Yields(p, c, e)'
    <2>0. c \in Devices /\ e \in Devices /\ Yields(p, c, e)
        BY <1>0, <1>13, PlaceType DEF Stands, PairYields
    <2> SUFFICES ASSUME NEW g \in StoodBy', Gone(p, c, g)'
                 PROVE  /\ \A k \in StoodBy' : made'[k].on = p /\ made'[k].by = e =>
                              /\ k \notin Reach(e)'
                              /\ pending'[e] = k => g < k \/ CommitMessage(g) \notin mail'[e]
                        /\ at'[e] = p /\ debt'[e] /\ ~reading'[e] /\ ~down'[e]
                              => CommitMessage(g) \notin mail'[e]
        BY DEF Yields
    <2>1. g \in StoodBy /\ g \in Made /\ made[g].on = p /\ made[g].by = c /\ g \in Reach(c)'
        BY <1>1, <1>6 DEF Gone
    <2>2. CASE g \in Reach(c)
        <3>1. Gone(p, c, g)
            BY <2>1, <2>2 DEF Gone
        <3>2. /\ \A k \in StoodBy : made[k].on = p /\ made[k].by = e =>
                    /\ k \notin Reach(e)
                    /\ pending[e] = k => g < k \/ CommitMessage(g) \notin mail[e]
              /\ at[e] = p /\ debt[e] /\ ~reading[e] /\ ~down[e] => CommitMessage(g) \notin mail[e]
            BY <2>0, <2>1, <3>1 DEF Yields
        <3>3. ASSUME NEW k \in StoodBy', made'[k].on = p, made'[k].by = e
              PROVE  /\ k \notin Reach(e)'
                     /\ pending'[e] = k => g < k \/ CommitMessage(g) \notin mail'[e]
            <4>1. k \in StoodBy /\ k \in Made /\ made[k].on = p /\ made[k].by = e
                BY <1>1, <1>6, <3>3
            <4>2. pending'[e] = k => pending[e] = k
                BY <1>3, <1>4, <2>0, <4>1
            <4>3. ASSUME k = o PROVE FALSE
                <5>1. e = d /\ Clear(d, o) /\ made[o].on = p
                    BY <1>2, <1>6, <3>3, <4>1, <4>3
                <5> QED
                    BY <1>13, <2>0, <2>1, <2>2, <5>1 DEF Clear
            <4>4. k \notin Reach(e)'
                BY <1>5, <2>0, <3>2, <4>1, <4>3
            <4> QED
                BY <2>0, <2>1, <3>2, <4>1, <4>2, <4>4
        <3>4. ASSUME at'[e] = p, debt'[e], ~reading'[e], ~down'[e]
              PROVE  CommitMessage(g) \notin mail'[e]
            <4>1. e # d /\ at[e] = p /\ debt[e] /\ ~reading[e] /\ ~down[e]
                BY <1>1, <1>3, <1>7, <2>0, <3>4
            <4> QED
                BY <2>0, <2>1, <3>2, <4>1
        <3> QED
            BY <3>3, <3>4
    <2>3. CASE g \notin Reach(c)
        <3>1. c = d /\ g = o
            BY <1>5, <2>0, <2>1, <2>3
        <3>2. /\ \A h \in StoodBy : made[h].on = p /\ made[h].by = e =>
                     h \notin Reach(e) /\ (pending[e] = h => g < h)
              /\ at[e] = p => ~debt[e]
            BY <1>6, <1>13, <2>0, <2>1, <3>1 DEF Clear
        <3>3. e # d /\ Reach(e)' = Reach(e) /\ pending'[e] = pending[e] /\ at'[e] = at[e]
            BY <1>3, <1>5, <1>13, <2>0, <3>1
        <3> QED
            BY <1>1, <1>6, <3>2, <3>3
    <2> QED
        BY <2>2, <2>3
<1>14. PairYields'
    BY <1>1, <1>13, OldPairs
<1> QED
    BY <1>1, <1>8, <1>9, <1>10, <1>11, <1>12, <1>14 DEF PairInv, Geography, Ground

\* A device goes along another's commit, which wins over what it held.
LEMMA TakenInv ==
    ASSUME ConversationInv, ConversationInv', PairInv, NEW d \in Devices, NEW h \in Made,
           UNCHANGED <<made, reading, blind>>, at[d] # None, made[h].on = at[d], made[h].by # d,
           pending[d] # None => h < pending[d],
           Enter(d, h), pending' = [pending EXCEPT ![d] = None],
           debt' = [debt EXCEPT ![d] = FALSE],
           Save(d) \/ UNCHANGED saved, \A e \in Devices : down[e] => down'[e],
           \A e \in Devices, g \in Made :
               CommitMessage(g) \in mail'[e] => CommitMessage(g) \in mail[e]
    PROVE  PairInv'
<1>0. ConversationTypeOK /\ Geography /\ Stands
    BY DEF ConversationInv, PairInv, Stands
<1>1. /\ Ground /\ Made' = Made /\ Places' = Places /\ made' = made /\ reading' = reading
      /\ StoodBy' = StoodBy /\ StoodBy \subseteq Made
    BY <1>0, GroundUnchanged DEF Geography, StoodBy
<1>2. /\ at'[d] = h /\ keys'[d] = Remember(keys[d], h) /\ pending'[d] = None /\ ~debt'[d]
      /\ \A e \in Devices \ {d} : at'[e] = at[e] /\ keys'[e] = keys[e] /\ pending'[e] = pending[e]
                                  /\ debt'[e] = debt[e]
    BY <1>0 DEF Enter, ConversationTypeOK
<1>3. h # None /\ None \notin Made
    BY NoneIsNoPlace DEF Made
<1>4. /\ Reach(d)' = Reach(d) \union {h}
      /\ \A e \in Devices \ {d} : Reach(e)' = Reach(e)
    BY <1>1, <1>2, ReachOn, ReachSame
<1>5. Heard'
    <2>1. \A e \in Devices : Travel(e)
        BY <1>1, <1>2 DEF Travel
    <2>2. \A e \in Devices : Wrote(e)
        BY <1>0, WroteSaved
    <2> QED
        BY <1>0, <1>1, <2>1, <2>2, HeardKeptByAll DEF Geography
<1>6. Makers'
    <2>1. \A e \in Devices : at'[e] = None => at[e] = None
        BY <1>2, <1>3
    <2> QED
        BY <1>0, <1>1, <2>1, MakersKept DEF Geography
<1>7. Standing'
    <2>1. ASSUME NEW c \in Devices, NEW g \in StoodBy', made'[g].by = c
          PROVE  \/ pending'[c] = g
                 \/ g \in Reach(c)'
                 \/ \E k \in Reach(c)' \intersect Made' : made'[k].on = made'[g].on /\ k < g
        <3>1. \/ pending[c] = g
              \/ g \in Reach(c)
              \/ \E k \in Reach(c) \intersect Made : made[k].on = made[g].on /\ k < g
            BY <1>0, <1>1, <2>1 DEF Stands, Standing
        <3>2. Reach(c) \subseteq Reach(c)'
            BY <1>4
        <3>3. CASE pending[c] = g /\ c = d
            <4>1. made[g].on = at[d] /\ h < g /\ h \in Reach(d)'
                BY <1>1, <1>3, <1>4, <3>3 DEF ConversationInv, HeldIsOwn
            <4> QED
                BY <1>1, <3>3, <4>1
        <3>4. CASE pending[c] = g /\ c # d
            BY <1>2, <3>4
        <3> QED
            BY <1>1, <3>1, <3>2, <3>3, <3>4
    <2> QED
        BY <2>1 DEF Standing
<1>8. InDebt'
    <2>1. ASSUME NEW e \in Devices, debt'[e]
          PROVE  /\ at'[e] # None /\ pending'[e] = None
                 /\ \A g \in StoodBy' : made'[g].by = e => g \in Reach(e)'
        BY <1>0, <1>1, <1>2, <1>4, <2>1 DEF Stands, InDebt
    <2> QED
        BY <2>1 DEF InDebt
<1>9. OneEach'
    BY <1>0, <1>1 DEF Stands, OneEach
<1>10. ASSUME NEW p \in Places, NEW c \in Devices, NEW e \in Devices, c # e, Yields(p, c, e)
       PROVE  Yields(p, c, e)'
    <2>1. \A f \in Devices, g \in StoodBy : made'[g].by = f /\ g \in Reach(f)' => g \in Reach(f)
        BY <1>1, <1>4
    <2>2. \A g \in StoodBy : pending'[e] = g => pending[e] = g
        BY <1>1, <1>2, <1>3
    <2>3. at'[e] = p /\ debt'[e] /\ ~reading'[e] /\ ~down'[e]
               => at[e] = p /\ debt[e] /\ ~reading[e] /\ ~down[e]
        BY <1>1, <1>2
    <2> QED
        BY <1>1, <1>10, <2>1, <2>2, <2>3, YieldsKept
<1>11. PairYields'
    BY <1>0, <1>1, <1>10, PairsKept DEF Stands
<1> QED
    BY <1>1, <1>5, <1>6, <1>7, <1>8, <1>9, <1>11 DEF PairInv, Geography, Ground

\* A newcomer made nothing, and owes nothing.
LEMMA JoinedInv ==
    ASSUME ConversationInv, ConversationInv', PairInv, NEW x \in Devices, NEW h \in Made,
           JoinFrom(x, h)
    PROVE  PairInv'
<1>0. ConversationTypeOK /\ Geography /\ Stands
    BY DEF ConversationInv, PairInv, Stands
<1>1. /\ Ground /\ Made' = Made /\ Places' = Places /\ made' = made
      /\ pending' = pending /\ debt' = debt /\ reading' = reading /\ down' = down
      /\ StoodBy' = StoodBy /\ StoodBy \subseteq Made
    BY <1>0, GroundUnchanged DEF Geography, JoinFrom, StoodBy
<1>2. /\ at[x] = None /\ at'[x] = h /\ keys'[x] = <<h>>
      /\ \A e \in Devices \ {x} : at'[e] = at[e] /\ keys'[e] = keys[e]
      /\ \A e \in Devices : mail'[e] \subseteq mail[e]
    BY <1>0 DEF JoinFrom, ConversationTypeOK
<1>3. ~debt[x] /\ \A g \in Made : made[g].by # x
    BY <1>0, <1>2 DEF Stands, InDebt, Geography, Makers, ConversationInv, CommitsWellFormed
<1>4. \A e \in Devices \ {x} : Reach(e)' = Reach(e)
    BY <1>1, <1>2, ReachSame
<1>5. Heard'
    <2>1. \A e \in Devices : Travel(e)
        BY <1>2 DEF Travel
    <2>2. \A e \in Devices : Wrote(e)
        BY <1>0, WroteSaved DEF JoinFrom
    <2> QED
        BY <1>0, <1>1, <2>1, <2>2, HeardKeptByAll DEF Geography
<1>6. Makers'
    <2>1. \A e \in Devices : at'[e] = None => at[e] = None
        BY <1>2
    <2>2. \A e \in Devices, g \in Made :
              CommitMessage(g) \in mail'[e] => CommitMessage(g) \in mail[e]
        BY <1>2
    <2> QED
        BY <1>0, <1>1, <2>1, <2>2, MakersKept DEF Geography
<1>7. Standing'
    <2>1. ASSUME NEW c \in Devices, NEW g \in StoodBy', made'[g].by = c
          PROVE  \/ pending'[c] = g
                 \/ g \in Reach(c)'
                 \/ \E k \in Reach(c)' \intersect Made' : made'[k].on = made'[g].on /\ k < g
        <3>1. c # x /\ g \in StoodBy /\ made[g].by = c
            BY <1>1, <1>3, <2>1
        <3> QED
            BY <1>0, <1>1, <1>4, <3>1 DEF Stands, Standing
    <2> QED
        BY <2>1 DEF Standing
<1>8. InDebt'
    <2>1. ASSUME NEW e \in Devices, debt'[e]
          PROVE  /\ at'[e] # None /\ pending'[e] = None
                 /\ \A g \in StoodBy' : made'[g].by = e => g \in Reach(e)'
        BY <1>0, <1>1, <1>2, <1>3, <1>4, <2>1 DEF Stands, InDebt
    <2> QED
        BY <2>1 DEF InDebt
<1>9. OneEach'
    BY <1>0, <1>1 DEF Stands, OneEach
<1>10. ASSUME NEW p \in Places, NEW c \in Devices, NEW e \in Devices, c # e, Yields(p, c, e)
       PROVE  Yields(p, c, e)'
    <2>1. \A f \in Devices, g \in StoodBy : made'[g].by = f /\ g \in Reach(f)' => g \in Reach(f)
        BY <1>1, <1>3, <1>4
    <2>2. at'[e] = p /\ debt'[e] /\ ~reading'[e] /\ ~down'[e]
               => at[e] = p /\ debt[e] /\ ~reading[e] /\ ~down[e]
        BY <1>1, <1>2, <1>3
    <2> QED
        BY <1>1, <1>2, <1>10, <2>1, <2>2, YieldsKept
<1>11. PairYields'
    BY <1>0, <1>1, <1>10, PairsKept DEF Stands
<1> QED
    BY <1>1, <1>5, <1>6, <1>7, <1>8, <1>9, <1>11 DEF PairInv, Geography, Ground

LEMMA StillInv ==
    ASSUME ConversationInv, ConversationInv', PairInv, NEW d \in Devices,
           UNCHANGED <<made, at, keys, debt>>, Save(d) \/ UNCHANGED saved,
           blind \subseteq blind',
           \A e \in Devices : \/ pending'[e] = pending[e]
                              \/ pending'[e] = None /\ pending[e] \in blind' \union {None},
           \A e \in Devices, g \in Made :
               CommitMessage(g) \in mail'[e] => CommitMessage(g) \in mail[e],
           \A e \in Devices : down[e] => down'[e],
           \A e \in Devices : reading[e] => reading'[e] \/ Unread(e) = {}
    PROVE  PairInv'
<1>1. ConversationTypeOK /\ Geography /\ Stands
    BY DEF ConversationInv, PairInv, Stands
<1>2. Ground /\ Made' = Made /\ at' = at /\ keys' = keys
    BY <1>1, GroundUnchanged DEF Geography
<1>3. Stands'
    BY <1>1, StandsStill
<1>4. Heard'
    <2>1. \A e \in Devices : Travel(e) /\ Wrote(e)
        BY <1>1, <1>2, WroteSaved DEF Travel
    <2> QED
        BY <1>1, <1>2, <2>1, HeardKeptByAll DEF Geography
<1>5. Makers'
    BY <1>1, <1>2, MakersKept DEF Geography
<1> QED
    BY <1>2, <1>3, <1>4, <1>5 DEF PairInv, Stands, Geography, Ground

-----------------------------------------------------------------------------
(* The actions.                                                            *)

LEMMA CommitMessages ==
    ASSUME NEW g, NEW h
    PROVE  /\ CommitMessage(g) = CommitMessage(h) => g = h
           /\ CommitMessage(g).kind = "commit" /\ CommitMessage(g).hash = g
BY DEF CommitMessage

LEMMA NotSentBefore ==
    ASSUME ConversationInv, NEW h \in Hashes \ Made, NEW e \in Devices
    PROVE  CommitMessage(h) \notin mail[e]
BY CommitMessages DEF ConversationInv, MailExists

LEMMA SentByDeposit ==
    ASSUME ConversationInv, NEW d \in Devices, NEW h \in Hashes \ Made,
           NEW to \in SUBSET Others(d), Deposit(d, to, CommitMessage(h))
    PROVE  Sent(h, d)
<1>1. \A e \in Devices : mail'[e] \subseteq mail[e] \union {CommitMessage(h)}
                         /\ (e \notin to => mail'[e] = mail[e])
    BY DEF Deposit
<1>2. \A g \in Made : CommitMessage(g) # CommitMessage(h)
    BY CommitMessages
<1> QED
    BY <1>1, <1>2, NotSentBefore DEF Sent

LEMMA SentByHandOut ==
    ASSUME ConversationInv, NEW d \in Devices, NEW h \in Hashes \ Made, NEW newcomers,
           HandOutAndSave(d, h, newcomers)
    PROVE  Sent(h, d)
<1>1. PICK reached \in SUBSET (Others(d) \union newcomers) : HandOut(d, h, newcomers, reached)
    BY DEF HandOutAndSave
<1> DEFINE w == [kind |-> "welcome", hash |-> h]
<1>2. \A g : CommitMessage(g) # w
    BY DEF CommitMessage
<1>3. \A e \in Devices :
          mail'[e] = IF e \notin reached THEN mail[e]
                     ELSE IF e \in newcomers THEN mail[e] \union {w}
                     ELSE mail[e] \union {CommitMessage(h)}
    BY <1>1 DEF HandOut
<1> HIDE DEF w
<1>4. \A g \in Made : CommitMessage(g) # CommitMessage(h)
    BY CommitMessages
<1>5. ASSUME NEW e \in Devices, NEW g \in Made, CommitMessage(g) \in mail'[e]
      PROVE  CommitMessage(g) \in mail[e]
    BY <1>2, <1>3, <1>4, <1>5
<1>6. ASSUME NEW e \in Devices, CommitMessage(h) \in mail'[e]
      PROVE  e \in Others(d)
    <2>1. CommitMessage(h) \notin mail[e]
        BY NotSentBefore
    <2> QED
        BY <1>1, <1>2, <1>3, <1>6, <2>1
<1> QED
    BY <1>5, <1>6 DEF Sent

LEMMA DownGrows ==
    ASSUME ConversationTypeOK, NEW d \in Devices, SaveOrDie(d) \/ UNCHANGED down
    PROVE  \A e \in Devices : down[e] => down'[e]
BY DEF SaveOrDie, Die, ConversationTypeOK

\* Confirm, Invite, RemoveMember, and Rekey with a picture.
LEMMA MakeAndSettlePair ==
    ASSUME ConversationInv, ConversationInv', PairInv, NEW d \in Devices,
           NEW x \in Devices, NEW h \in Hashes \ Made,
           \/ Confirm(d, h) \/ Invite(d, x, h) \/ RemoveMember(d, x, h)
           \/ Rekey(d, h) /\ d \in Pictured
    PROVE  PairInv'
<1>0. ConversationTypeOK
    BY DEF ConversationInv
<1>1. CASE Confirm(d, h)
    <2>1. /\ Commits(d, h, {}, {}) /\ SettleAtOnce(d, h) /\ ~debt[d]
          /\ HandOutAndSave(d, h, {p.who : p \in proposals[d]})
          /\ UNCHANGED <<debt, reading>>
        BY <1>1, MakeCommits DEF Confirm, Resumed
    <2>2. Sent(h, d) /\ (Save(d) \/ UNCHANGED saved)
        BY <1>0, <2>1, SentByHandOut, HandOutAndSaveType
    <2>3. \A e \in Devices : down[e] => down'[e]
        BY <1>0, <2>1, DownGrows DEF HandOutAndSave
    <2> QED
        BY <2>1, <2>2, <2>3, SettledInv
<1>2. CASE Invite(d, x, h)
    <2> DEFINE own == {[by |-> d, who |-> x]}
    <2>1. /\ Commits(d, h, own, {}) /\ SettleAtOnce(d, h) /\ ~debt[d]
          /\ HandOutAndSave(d, h, {x})
          /\ UNCHANGED <<debt, reading>> /\ own \in SUBSET Proposal
        BY <1>2, MakeCommits DEF Invite, Resumed, Proposal
    <2> HIDE DEF own
    <2>2. Sent(h, d) /\ (Save(d) \/ UNCHANGED saved)
        BY <1>0, <2>1, SentByHandOut, HandOutAndSaveType
    <2>3. \A e \in Devices : down[e] => down'[e]
        BY <1>0, <2>1, DownGrows DEF HandOutAndSave
    <2> QED
        BY <2>1, <2>2, <2>3, SettledInv
<1>3. CASE RemoveMember(d, x, h)
    <2>1. /\ Commits(d, h, {}, {x}) /\ SettleAtOnce(d, h) /\ ~debt[d]
          /\ Deposit(d, Others(d), CommitMessage(h))
          /\ UNCHANGED <<debt, reading, down, saved>>
        BY <1>3, MakeCommits DEF RemoveMember, Resumed
    <2>2. Sent(h, d)
        BY <2>1, SentByDeposit
    <2> QED
        BY <2>1, <2>2, SettledInv
<1>4. CASE Rekey(d, h) /\ d \in Pictured
    <2>1. /\ Commits(d, h, {}, {}) /\ SettleAtOnce(d, h) /\ SaveOrDie(d)
          /\ Deposit(d, Others(d), CommitMessage(h))
          /\ debt' = [debt EXCEPT ![d] = FALSE] /\ UNCHANGED reading
        BY <1>4, MakeCommits DEF Rekey
    <2>2. ~debt'[d] /\ \A e \in Devices : debt'[e] => debt[e]
        BY <1>0, <2>1 DEF ConversationTypeOK
    <2>3. Sent(h, d) /\ (Save(d) \/ UNCHANGED saved)
        BY <1>0, <2>1, SentByDeposit, SaveOrDieType
    <2>4. \A e \in Devices : down[e] => down'[e]
        BY <1>0, <2>1, DownGrows
    <2> QED
        BY <2>1, <2>2, <2>3, <2>4, SettledInv
<1> QED
    BY <1>1, <1>2, <1>3, <1>4

LEMMA SetAdminsPair ==
    ASSUME ConversationInv, ConversationInv', PairInv, NEW d \in Devices,
           NEW names \in AdminLists, NEW h \in Hashes \ Made, NEW reached,
           SetAdmins(d, names, h, reached)
    PROVE  PairInv'
<1>1. /\ Commits(d, h, {}, {}) /\ SettleAtOnce(d, h) /\ ~debt[d] /\ Save(d)
      /\ reached \subseteq Others(d) /\ Deposit(d, reached, CommitMessage(h))
      /\ UNCHANGED <<debt, reading, down>>
    BY DEF SetAdmins, Commits, Resumed
<1>2. Sent(h, d)
    BY <1>1, SentByDeposit
<1> QED
    BY <1>1, <1>2, SettledInv

\* RemoveInterrupted, RekeyInterrupted, and Rekey without a picture.
LEMMA MakeAndHoldPair ==
    ASSUME ConversationInv, ConversationInv', PairInv, NEW d \in Devices,
           NEW x \in Devices, NEW h \in Hashes \ Made, NEW reached,
           \/ RemoveInterrupted(d, x, h, reached) \/ RekeyInterrupted(d, h, reached)
           \/ Rekey(d, h) /\ d \notin Pictured
    PROVE  PairInv'
<1>0. ConversationTypeOK
    BY DEF ConversationInv
<1>1. CASE RemoveInterrupted(d, x, h, reached)
    <2>1. /\ Commits(d, h, {}, {x}) /\ ~debt[d] /\ reached \subseteq Others(d)
          /\ pending' = [pending EXCEPT ![d] = h]
          /\ Deposit(d, reached, CommitMessage(h)) /\ blind' = blind \union {h}
          /\ UNCHANGED <<debt, reading, at, keys, down, saved>>
        BY <1>1, MakeCommits DEF RemoveInterrupted, Resumed
    <2>2. Sent(h, d)
        BY <2>1, SentByDeposit
    <2> QED
        BY <2>1, <2>2, HeldInv
<1>2. CASE RekeyInterrupted(d, h, reached)
    <2>1. /\ Commits(d, h, {}, {}) /\ debt[d] /\ ~reading[d] /\ reached \subseteq Others(d)
          /\ pending' = [pending EXCEPT ![d] = h]
          /\ Deposit(d, reached, CommitMessage(h)) /\ blind' = blind
          /\ debt' = [debt EXCEPT ![d] = FALSE] /\ down' = [down EXCEPT ![d] = TRUE]
          /\ UNCHANGED <<reading, at, keys, saved>>
        BY <1>2, MakeCommits DEF RekeyInterrupted, Die
    <2>2. Sent(h, d)
        BY <2>1, SentByDeposit
    <2>3. /\ ~debt'[d] /\ \A e \in Devices : debt'[e] => debt[e]
          /\ \A e \in Devices : down[e] => down'[e]
        BY <1>0, <2>1 DEF ConversationTypeOK
    <2> QED
        BY <2>1, <2>2, <2>3, HeldInv
<1>3. CASE Rekey(d, h) /\ d \notin Pictured
    <2>1. /\ Commits(d, h, {}, {}) /\ debt[d] /\ ~reading[d]
          /\ pending' = [pending EXCEPT ![d] = h]
          /\ Deposit(d, Others(d), CommitMessage(h)) /\ blind' = blind
          /\ debt' = [debt EXCEPT ![d] = FALSE]
          /\ UNCHANGED <<reading, at, keys, saved, down>>
        BY <1>3, MakeCommits DEF Rekey
    <2>2. Sent(h, d)
        BY <2>1, SentByDeposit
    <2>3. /\ ~debt'[d] /\ \A e \in Devices : debt'[e] => debt[e]
        BY <1>0, <2>1 DEF ConversationTypeOK
    <2> QED
        BY <2>1, <2>2, <2>3, HeldInv
<1> QED
    BY <1>1, <1>2, <1>3

LEMMA ProposePair ==
    ASSUME ConversationInv, ConversationInv', PairInv, NEW d \in Devices, NEW x, Propose(d, x)
    PROVE  PairInv'
<1> DEFINE m == [kind |-> "proposal", by |-> d, who |-> x, under |-> at[d]]
<1>1. /\ \E reached : Deposit(d, reached, m)
      /\ UNCHANGED <<made, at, pending, debt, keys, reading, down, saved, blind>>
    BY DEF Propose
<1>2. \A g : CommitMessage(g) # m
    BY DEF CommitMessage
<1> HIDE DEF m
<1>3. \A e \in Devices : mail'[e] \subseteq mail[e] \union {m}
    BY <1>1 DEF Deposit
<1>4. \A e \in Devices, g \in Made :
          CommitMessage(g) \in mail'[e] => CommitMessage(g) \in mail[e]
    BY <1>2, <1>3
<1> QED
    BY <1>1, <1>4, StillInv

LEMMA BacklogReadPair ==
    ASSUME ConversationInv, ConversationInv', PairInv, NEW d \in Devices, BacklogRead(d)
    PROVE  PairInv'
<1>1. UNCHANGED <<made, at, pending, debt, keys, mail, down, saved, blind>>
    BY DEF BacklogRead, group
<1>2. \A e \in Devices : reading[e] => reading'[e] \/ Unread(e) = {}
    BY DEF BacklogRead, ConversationInv, ConversationTypeOK
<1> QED
    BY <1>1, <1>2, StillInv

LEMMA SettleHeldPair ==
    ASSUME ConversationInv, ConversationInv', PairInv, NEW d \in Devices, SettleHeld(d)
    PROVE  PairInv'
<1>1. UNCHANGED <<made, mail, reading, down>>
    BY DEF SettleHeld
<1>2. CASE pending[d] = None
    <2>1. UNCHANGED <<at, pending, debt, keys, saved, blind>>
        BY <1>2 DEF SettleHeld, group
    <2> QED
        BY <1>1, <2>1, StillInv
<1>3. CASE pending[d] # None
    <2>1. /\ Enter(d, pending[d]) /\ pending' = [pending EXCEPT ![d] = None]
          /\ blind' = IF SomebodyBehind(d, made[pending[d]], pending[d])
                      THEN blind \union {pending[d]} ELSE blind
          /\ Save(d) /\ UNCHANGED debt
        BY <1>3 DEF SettleHeld
    <2>2. PICK o \in Made : o = pending[d] /\ made[o].by = d /\ made[o].on = at[d]
        BY <1>3 DEF ConversationInv, HeldIsOwn
    <2>3. ASSUME ~SomebodyBehind(d, made[o], o)
          PROVE  Clear(d, o)
        <3> SUFFICES ASSUME NEW p \in Places, NEW e \in Devices, made[o].on = p,
                            e \in Members(p) \ {d}
                     PROVE  /\ \A h \in StoodBy : made[h].on = p /\ made[h].by = e =>
                                  h \notin Reach(e) /\ (pending[e] = h => o < h)
                            /\ at[e] = p => ~debt[e]
            BY DEF Clear
        <3>1. at[e] # None /\ o \in Path(at[e]) /\ o \in Reach(e)
            BY <2>3 DEF SomebodyBehind, Reach
        <3>2. PICK q \in Places : at[e] = q
            BY <3>1 DEF ConversationInv, PlacesExist
        <3>3. at[e] # p
            BY <3>1, <3>2 DEF PairInv, Geography, Ways
        <3>4. ASSUME NEW h \in StoodBy, made[h].on = p, made[h].by = e
              PROVE  h \notin Reach(e) /\ pending[e] # h
            <4>1. h \in Made /\ h # o /\ h # None
                BY <2>2, <3>4, NoneIsNoPlace DEF StoodBy, Made
            <4>2. h \notin Reach(e)
                BY <3>1, <3>2, <3>4, <4>1 DEF PairInv, Geography, Ways, Reach
            <4> QED
                BY <3>3, <3>4, <4>1, <4>2 DEF ConversationInv, HeldIsOwn
        <3> QED
            BY <3>3, <3>4
    <2>4. blind \subseteq blind' /\ (pending[d] \in blind' \/ Clear(d, pending[d]))
        BY <2>1, <2>2, <2>3
    <2> QED
        BY <1>1, <1>3, <2>1, <2>4, OwnInv
<1> QED
    BY <1>2, <1>3

\* What d hears and does not find stale was made at its epoch, by another member.
LEMMA Rival ==
    ASSUME ConversationInv, PairInv, NEW d \in Devices, InGroup(d), NEW r \in Made,
           CommitMessage(r) \in Unread(d), ~(EpochNumber(made[r].on) < EpochNumber(at[d]))
    PROVE  /\ made[r].on = at[d] /\ at[d] \in Places /\ d \in Members(at[d])
           /\ made[r].by \in Members(at[d]) \ {d} /\ CommitMessage(r) \in mail[d]
<1>1. PICK p \in Places : at[d] = p
    BY DEF InGroup, ConversationInv, PlacesExist
<1>2. CommitMessage(r) \in mail[d] /\ made[r].on \in Range(keys[d])
    BY CommitMessages DEF Unread, Under
<1>3. made[r].on \in Path(p)
    BY <1>1, <1>2 DEF PairInv, Geography, Heard
<1>4. made[r].on = p
    BY <1>1, <1>3, SamePlace DEF PairInv, Geography
<1> QED
    BY <1>1, <1>2, <1>4 DEF PairInv, Geography, Makers, InGroup

\* Keeping one's own against a rival that is stood by.
LEMMA KeptIsClear ==
    ASSUME ConversationInv, PairInv, NEW d \in Devices, InGroup(d), NEW r \in StoodBy,
           CommitMessage(r) \in Unread(d), ~(EpochNumber(made[r].on) < EpochNumber(at[d])),
           NEW o \in StoodBy, pending[d] = o, ~Wins(r, o)
    PROVE  Clear(d, o)
<1>0. r \in Made /\ o \in Made /\ r \in Nat /\ o \in Nat /\ o # None
    BY ConversationAssumption, NoneIsNoPlace DEF StoodBy, Made
<1>1. /\ made[r].on = at[d] /\ at[d] \in Places /\ d \in Members(at[d])
      /\ made[r].by \in Members(at[d]) \ {d} /\ CommitMessage(r) \in mail[d]
    BY <1>0, Rival
<1>2. made[o].by = d /\ made[o].on = at[d]
    BY <1>0 DEF ConversationInv, HeldIsOwn
<1>3. o < r
    BY <1>0, <1>1, <1>2 DEF Wins
<1> SUFFICES ASSUME NEW p \in Places, NEW e \in Devices, made[o].on = p,
                    Cardinality(Members(p)) = 2, e \in Members(p) \ {d}
             PROVE  /\ \A h \in StoodBy : made[h].on = p /\ made[h].by = e =>
                          h \notin Reach(e) /\ (pending[e] = h => o < h)
                    /\ at[e] = p => ~debt[e]
    BY DEF Clear
<1>4. made[r].by = e
    <2>1. IsFiniteSet(Members(p))
        BY PlaceType, FS_Subset, ConversationAssumption
    <2>2. Members(p) = {d, e}
        BY <1>1, <1>2, <2>1, PairUp
    <2> QED
        BY <1>1, <1>2, <2>2
<1>5. r \notin Reach(e)
    <2>1. Yields(p, e, d)
        BY <1>1, <1>2 DEF PairInv, PairYields
    <2>2. Gone(p, e, r) => r < o
        BY <1>1, <1>2, <2>1 DEF Yields
    <2>3. ~(r < o)
        BY <1>0, <1>3
    <2> QED
        BY <1>1, <1>2, <1>4, <2>2, <2>3 DEF Gone
<1>6. \A h \in StoodBy : made[h].on = p /\ made[h].by = e => h = r
    BY <1>1, <1>2, <1>4 DEF PairInv, OneEach
<1>7. ~debt[e]
    BY <1>4, <1>5 DEF PairInv, InDebt
<1> QED
    BY <1>3, <1>5, <1>6, <1>7

LEMMA ReceivePair ==
    ASSUME ConversationInv, ConversationInv', PairInv, NEW d \in Devices, NEW m \in mail[d],
           Receive(d, m)
    PROVE  PairInv'
<1>0. ConversationTypeOK
    BY DEF ConversationInv
<1>1. /\ InGroup(d) /\ m \in Unread(d) /\ Collected(d, m) /\ UNCHANGED <<made, reading>>
      /\ IF m.kind = "commit" THEN ReceiveCommit(d, m.hash) ELSE ReceiveProposal(d, m)
    BY DEF Receive
<1>2. \A e \in Devices : down[e] => down'[e]
    BY <1>0, <1>1 DEF Collected, ConversationTypeOK
<1>3. \A e \in Devices, g \in Made :
          CommitMessage(g) \in mail'[e] => CommitMessage(g) \in mail[e]
    BY <1>0, <1>1 DEF Collected, ConversationTypeOK
<1>4. CASE m.kind # "commit"
    <2>1. UNCHANGED <<at, pending, debt, keys, blind>> /\ (Save(d) \/ UNCHANGED saved)
        BY <1>1, <1>4 DEF ReceiveProposal, group
    <2> QED
        BY <1>1, <1>2, <1>3, <2>1, StillInv
<1>5. CASE m.kind = "commit"
    <2>1. PICK r \in Made : r = m.hash /\ CommitMessage(r) = m
        <3>1. m.hash \in Made /\ m \in Message
            BY <1>0, <1>5 DEF ConversationInv, MailExists, ConversationTypeOK
        <3>2. CommitMessage(m.hash) = m
            BY <1>5, <3>1 DEF Message, CommitMessage
        <3> QED
            BY <3>1, <3>2
    <2>2. ReceiveCommit(d, r) /\ CommitMessage(r) \in Unread(d)
        BY <1>1, <1>5, <2>1
    <2>3. CASE EpochNumber(made[r].on) < EpochNumber(at[d])
        <3>1. UNCHANGED <<at, pending, debt, keys, blind>> /\ (Save(d) \/ UNCHANGED saved)
            BY <2>2, <2>3 DEF ReceiveCommit, ReceiveStale, group
        <3> QED
            BY <1>1, <1>2, <1>3, <3>1, StillInv
    <2>4. CASE /\ ~(EpochNumber(made[r].on) < EpochNumber(at[d]))
               /\ pending[d] # None /\ ~Wins(r, pending[d])
        <3>1. /\ Enter(d, pending[d]) /\ pending' = [pending EXCEPT ![d] = None] /\ Save(d)
              /\ blind' = IF r \in blind THEN blind \union {pending[d]} ELSE blind
              /\ UNCHANGED debt
            BY <2>2, <2>4 DEF ReceiveCommit, KeepOurs
        <3>2. PICK o \in Made : o = pending[d]
            BY <2>4 DEF ConversationInv, HeldIsOwn
        <3>3. r \notin blind /\ o \notin blind => Clear(d, o)
            BY <1>1, <2>2, <2>4, <3>2, KeptIsClear DEF StoodBy
        <3>4. blind \subseteq blind' /\ (pending[d] \in blind' \/ Clear(d, pending[d]))
            BY <3>1, <3>2, <3>3
        <3> QED
            BY <1>1, <1>2, <1>3, <2>4, <3>1, <3>4, OwnInv
    <2>5. CASE /\ ~(EpochNumber(made[r].on) < EpochNumber(at[d]))
               /\ pending[d] # None => Wins(r, pending[d])
        <3>1. Take(d, r) /\ (pending[d] # None => r < pending[d])
            BY <2>2, <2>5 DEF ReceiveCommit, Wins
        <3>2. made[r].on = at[d] /\ at[d] # None /\ made[r].by # d
            BY <1>1, <2>2, <2>5, Rival, NoneIsNoPlace
        <3>3. CASE Processable(d, made[r]) /\ ~Refused(d, made[r])
            <4>1. /\ Enter(d, r) /\ pending' = [pending EXCEPT ![d] = None]
                  /\ debt' = [debt EXCEPT ![d] = FALSE] /\ Save(d) /\ UNCHANGED blind
                BY <3>1, <3>3 DEF Take
            <4> QED
                BY <1>1, <1>2, <1>3, <3>1, <3>2, <4>1, TakenInv
        <3>4. CASE ~(Processable(d, made[r]) /\ ~Refused(d, made[r]))
            <4>1. /\ pending' = [pending EXCEPT ![d] = None]
                  /\ blind' = blind \union ({pending[d]} \ {None})
                  /\ UNCHANGED <<at, debt, keys, saved>>
                BY <3>1, <3>4 DEF Take
            <4>2. \A e \in Devices : \/ pending'[e] = pending[e]
                                     \/ pending'[e] = None /\ pending[e] \in blind' \union {None}
                BY <1>0, <4>1 DEF ConversationTypeOK
            <4> QED
                BY <1>1, <1>2, <1>3, <4>1, <4>2, StillInv
        <3> QED
            BY <3>3, <3>4
    <2> QED
        BY <2>3, <2>4, <2>5
<1> QED
    BY <1>4, <1>5

LEMMA InitPair == Init => PairInv
<1> SUFFICES ASSUME Init PROVE PairInv
    OBVIOUS
<1>1. Made = {} /\ Places = {0} /\ StoodBy = {} /\ Path(0) = {0}
    BY DEF Init, Made, Places, StoodBy, Path
<1>2. Ways
    <2>1. IsFiniteSet({0})
        BY FS_Singleton
    <2> QED
        BY <1>1, <2>1 DEF Ways
<1>3. Heard
    <2>1. Range(<<0>>) = {0}
        BY DEF Range
    <2>2. ASSUME NEW d \in Devices, at[d] = 0 \/ saved[d].at = 0
          PROVE  at[d] = 0 /\ keys[d] = <<0>> /\ saved[d].keys = <<0>>
        <3>1. saved[d].at = at[d] /\ saved[d].keys = keys[d]
            BY DEF Init
        <3>2. 0 # None
            BY ConversationAssumption
        <3> QED
            BY <2>2, <3>1, <3>2 DEF Init
    <2>3. 0 # None
        BY ConversationAssumption
    <2> QED
        BY <1>1, <2>1, <2>2, <2>3 DEF Heard, Reach
<1> QED
    BY <1>1, <1>2, <1>3 DEF Init, PairInv, Geography, Makers, Standing, InDebt, OneEach,
                            PairYields, Yields

LEMMA NextPair == ConversationInv /\ ConversationInv' /\ PairInv /\ [Next]_vars => PairInv'
<1> SUFFICES ASSUME ConversationInv, ConversationInv', PairInv, [Next]_vars PROVE PairInv'
    OBVIOUS
<1>1. CASE UNCHANGED vars
    <2>1. UNCHANGED <<made, at, pending, debt, keys, mail, reading, down, saved, blind>>
        BY <1>1 DEF vars, group
    <2>2. CASE \E d : d \in Devices
        BY <2>1, <2>2, StillInv
    <2>3. CASE ~\E d : d \in Devices
        <3>1. Ground /\ Made' = Made /\ Places' = Places
            BY <2>1, GroundUnchanged DEF PairInv, Geography
        <3>2. Devices = {} /\ \A p \in Places' : Members(p)' = {}
            BY <2>3, <3>1, PlaceType DEF Ground
        <3>3. StoodBy' = StoodBy /\ made' = made
            BY <2>1, <3>1 DEF StoodBy
        <3> QED
            BY <3>1, <3>2, <3>3
               DEF PairInv, Geography, Ground, Heard, Makers, Standing, InDebt, OneEach, PairYields
    <2> QED
        BY <2>2, <2>3
<1>2. CASE Join
    BY <1>2, JoinedInv DEF Join
<1>3. CASE Step /\ UNCHANGED joined
    <2>1. ASSUME NEW h \in Hashes \ Made, NEW d \in Devices, Confirm(d, h) \/ Rekey(d, h)
          PROVE  PairInv'
        BY <1>3, <2>1, MakeAndSettlePair, MakeAndHoldPair
    <2>2. ASSUME NEW h \in Hashes \ Made, NEW d \in Devices, NEW x \in Devices,
                 Invite(d, x, h) \/ RemoveMember(d, x, h)
          PROVE  PairInv'
        BY <1>3, <2>2, MakeAndSettlePair
    <2>3. ASSUME NEW h \in Hashes \ Made, NEW d \in Devices, NEW x \in Devices, NEW reached,
                 RemoveInterrupted(d, x, h, reached) \/ RekeyInterrupted(d, h, reached)
          PROVE  PairInv'
        BY <1>3, <2>3, MakeAndHoldPair
    <2>4. ASSUME NEW d \in Devices, NEW x \in Devices, Propose(d, x)
          PROVE  PairInv'
        BY <2>4, ProposePair
    <2>5. ASSUME NEW d \in Devices, Restart(d) \/ BacklogRead(d) \/ SettleHeld(d)
          PROVE  PairInv'
        BY <2>5, RestartInv, BacklogReadPair, SettleHeldPair
    <2>6. ASSUME NEW d \in Devices, NEW m \in mail[d], Receive(d, m)
          PROVE  PairInv'
        BY <2>6, ReceivePair
    <2>7. ASSUME NEW h \in Hashes \ Made, NEW d \in Devices, NEW names \in AdminLists,
                 NEW reached, SetAdmins(d, names, h, reached)
          PROVE  PairInv'
        BY <1>3, <2>7, SetAdminsPair
    <2> QED
        BY <1>3, <2>1, <2>2, <2>3, <2>4, <2>5, <2>6, <2>7 DEF Step
<1> QED
    BY <1>1, <1>2, <1>3 DEF Next

\* Of two members that left an epoch by commits both stood by.
LEMMA PairDecides == ConversationInv /\ PairInv => PairConverges
<1> SUFFICES ASSUME ConversationInv, PairInv, NEW p \in Places, Cardinality(Members(p)) = 2,
                    NEW g \in StoodBy, NEW h \in StoodBy, Fork(p, g, h)
             PROVE  FALSE
    BY DEF PairConverges, Places, StoodBy
<1>1. /\ g \in Made /\ h \in Made /\ g # h /\ made[g].on = p /\ made[h].on = p
      /\ g \in Nat /\ h \in Nat
    BY ConversationAssumption DEF Fork, StoodBy, Made
<1>2. PICK c \in Members(p), d \in Members(p) :
          at[c] # None /\ g \in Path(at[c]) /\ at[d] # None /\ h \in Path(at[d])
    BY DEF Fork
<1>3. c \in Devices /\ d \in Devices /\ g \in Reach(c) /\ h \in Reach(d)
    BY <1>2, PlaceType DEF Reach
<1>4. ASSUME NEW e \in Devices, NEW k \in Made, NEW l \in Made, k \in Reach(e), l \in Reach(e),
             made[k].on = made[l].on
      PROVE  k = l
    <2>1. PICK q \in Places : at[e] = q /\ Reach(e) = Path(q)
        BY <1>4 DEF Reach, ConversationInv, PlacesExist
    <2> QED
        BY <1>4, <2>1 DEF PairInv, Geography, Ways
<1>5. c # d
    BY <1>1, <1>3, <1>4
<1>6. /\ made[g].by \in Members(p) /\ made[h].by \in Members(p) /\ made[g].by # made[h].by
    BY <1>1 DEF PairInv, Geography, Makers, OneEach
<1>7. Members(p) = {c, d}
    <2>1. IsFiniteSet(Members(p))
        BY PlaceType, FS_Subset, ConversationAssumption
    <2> QED
        BY <1>2, <1>5, <2>1, PairUp
<1>8. CASE made[g].by = c /\ made[h].by = d
    <2>1. Yields(p, c, d) /\ Gone(p, c, g)
        BY <1>1, <1>2, <1>3, <1>5, <1>8 DEF PairInv, PairYields, Gone
    <2> QED
        BY <1>1, <1>3, <1>8, <2>1 DEF Yields
<1>9. CASE made[g].by = d /\ made[h].by = c
    <2>1. ASSUME NEW e \in Devices, NEW k \in StoodBy, NEW l \in StoodBy, k # l,
                 made[k].by = e, made[k].on = p, made[l].on = p, l \in Reach(e)
          PROVE  l < k
        <3>1. \/ pending[e] = k
              \/ k \in Reach(e)
              \/ \E i \in Reach(e) \intersect Made : made[i].on = made[k].on /\ i < k
            BY <2>1 DEF PairInv, Standing
        <3>2. k \in Made /\ l \in Made /\ k # None
            BY NoneIsNoPlace DEF StoodBy, Made
        <3>3. pending[e] # k
            <4>1. pending[e] = k => Reach(e) = Path(p)
                BY <2>1, <3>2, NoneIsNoPlace DEF ConversationInv, HeldIsOwn, Reach
            <4> QED
                BY <2>1, <3>2, <4>1 DEF PairInv, Geography, Ways
        <3>4. k \notin Reach(e)
            BY <1>4, <2>1, <3>2
        <3> QED
            BY <1>4, <2>1, <3>1, <3>2, <3>3, <3>4
    <2>2. h < g /\ g < h
        BY <1>1, <1>3, <1>9, <2>1
    <2> QED
        BY <1>1, <2>2
<1> QED
    BY <1>6, <1>7, <1>8, <1>9

\* Conversation::receive: two members that commit at one epoch end at one epoch,
\* as long as both commits were looked at and stood by.
THEOREM PairsConverge == Spec => []PairConverges
<1>1. ConversationInv /\ PairInv => PairConverges
    BY PairDecides
<1> QED
    BY InitInv, NextInv, InitPair, NextPair, <1>1, PTL DEF Spec
=============================================================================
