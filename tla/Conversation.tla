----------------------------- MODULE Conversation ----------------------------
(***************************************************************************)
(* Who is in a conversation, and at which epoch each device thinks it is:  *)
(* the commits of rotelyx-crypto's Conversation, the tag keys a Session    *)
(* hears them under, and the client of rotelyx-meeting that makes,         *)
(* deposits, settles, saves and resumes.  There is no server that orders   *)
(* commits.                                                                *)
(*                                                                         *)
(* A commit is named by its hash, drawn when it is made; an epoch is named *)
(* by the commit that leads to it.  The mailbox delivers what it holds in  *)
(* any order, and again after a restart when the receipt went missing.     *)
(* External, as openmls is used here: a device that holds a commit of its  *)
(* own cannot make another or a proposal, a commit takes in every stored   *)
(* proposal (the filter `|_| true`), and a commit can be processed only at *)
(* the epoch it was made at, by a device that has its proposals.           *)
(***************************************************************************)
EXTENDS Integers, FiniteSets, Sequences, SequencesExt

CONSTANTS
    Devices,           \* leaves: a person may have several
    Person,            \* whose device it is
    Founders,          \* the members at the first epoch modelled
    AdminLists,        \* the lists of persons a group context may name
    FirstAdmins,       \* the list at that epoch; empty, the default, lets everybody admit
    KnocksAt,          \* where each newcomer waits: the device that would propose it
    Careless,          \* devices whose client invites on its own authority
    Pictured,          \* devices that show a picture when they resume
    Hashes,            \* of commits, ordered as the tie-break orders them
    TAG_EPOCH_MEMORY,  \* tag keys a session remembers, 3 in the code
    MaxRestarts,       \* bound: restarts of all devices together
    None

ASSUME ConversationAssumption ==
    /\ IsFiniteSet(Devices)
    /\ Person \in [Devices -> {Person[d] : d \in Devices}]
    /\ Founders \subseteq Devices
    /\ FirstAdmins \in AdminLists
    /\ Careless \subseteq Devices /\ Pictured \subseteq Devices
    /\ Hashes \subseteq Nat \ {0}
    /\ TAG_EPOCH_MEMORY \in Nat \ {0, 1}
    /\ MaxRestarts \in Nat
    /\ None \notin Nat /\ None \notin Devices

VARIABLES
    made,       \* the commits made so far, by hash
    at,         \* the epoch of each device's group, None before it joins
    pending,    \* Conversation::pending, a hash or None
    settleBy,   \* Meeting::settle_by is Some
    last,       \* Conversation::last_applied
    debt,       \* Conversation::restored_needs_rekey
    proposals,  \* the additions each group has stored
    keys,       \* Session::tag_keys, by epoch, the newest last
    mail,       \* what the mailbox holds for each device
    reading,    \* resume is still reading the backlog
    down,       \* the process died before it could say what it had handled
    saved,      \* the sealed session on disk
    restarts,   \* restarts so far
    joined,     \* the epoch each device came in at (history)
    blind       \* commits not everybody looks at, or whose maker moved on without
                \* looking or stands by them no more (history)

group == <<at, pending, last, debt, proposals, keys>>
vars == <<made, group, settleBy, mail, reading, down, saved, restarts, joined,
          blind>>

Epochs == Hashes \union {0}
Proposal == [by : Devices, who : Devices]
Commit == [by : Devices, on : Epochs, adds : SUBSET Proposal, refs : SUBSET Proposal,
           path : SUBSET Epochs, members : SUBSET Devices, admins : AdminLists]
ASSUME NoneAssumption == None \notin Commit

Message == [kind : {"commit", "welcome"}, hash : Hashes]
             \union [kind : {"proposal"}, by : Devices, who : Devices, under : Epochs]
TagKeys == {ks \in Seq(Epochs) : Len(ks) <= TAG_EPOCH_MEMORY}
Session == [at : Epochs \union {None}, keys : TagKeys, proposals : SUBSET Proposal]

ConversationTypeOK ==
    /\ made \in [Hashes -> Commit \union {None}]
    /\ at \in [Devices -> Epochs \union {None}]
    /\ pending \in [Devices -> Hashes \union {None}]
    /\ settleBy \in [Devices -> BOOLEAN]
    /\ last \in [Devices -> Epochs \union {None}]
    /\ debt \in [Devices -> BOOLEAN]
    /\ proposals \in [Devices -> SUBSET Proposal]
    /\ keys \in [Devices -> TagKeys]
    /\ mail \in [Devices -> SUBSET Message]
    /\ reading \in [Devices -> BOOLEAN]
    /\ down \in [Devices -> BOOLEAN]
    /\ saved \in [Devices -> Session]
    /\ restarts \in 0..MaxRestarts
    /\ joined \in [Devices -> Epochs \union {None}]
    /\ blind \subseteq Hashes

-----------------------------------------------------------------------------
(* Epochs.                                                                 *)

Made == {h \in Hashes : made[h] # None}

Path(e) == IF e = 0 THEN {0} ELSE made[e].path
Members(e) == IF e = 0 THEN Founders ELSE made[e].members
EpochNumber(e) == Cardinality(Path(e))

\* Conversation::admins: the list is in the group context, one for each epoch.
Admins(e) == IF e = 0 THEN FirstAdmins ELSE made[e].admins

\* d runs, and is in the group as it sees it.
InGroup(d) == ~down[d] /\ at[d] # None /\ d \in Members(at[d])
Others(d) == Members(at[d]) \ {d}

\* Mutant: the oldest key is never dropped.
RememberAll(ks, e) == IF ks # <<>> /\ Last(ks) = e THEN ks ELSE Append(ks, e)

\* Session::sync_tag_keys
Remember(ks, e) ==
    IF ks # <<>> /\ Last(ks) = e THEN ks
    ELSE LET more == Append(ks, e)
         IN  IF Len(more) > TAG_EPOCH_MEMORY THEN Tail(more) ELSE more

-----------------------------------------------------------------------------
(* Making a commit.                                                        *)

\* A commit made at d's epoch, with the newcomers it names itself and those it
\* takes from the stored proposals.  `names` are the admins from then on.
CommitBy(d, h, own, removes, names) ==
    LET adds == own \union proposals[d]
    IN  [by |-> d, on |-> at[d], adds |-> adds, refs |-> proposals[d],
         path |-> Path(at[d]) \union {h},
         members |-> (Members(at[d]) \union {p.who : p \in adds}) \ removes,
         admins |-> names]

MayCommit(d) == InGroup(d) /\ pending[d] = None

\* The backlog is read and the rekey, if one was owed, is made: commands are
\* taken.
Resumed(d) == ~debt[d] /\ ~reading[d]

MakeNaming(d, h, own, removes, names) ==
    /\ MayCommit(d)
    /\ made' = [made EXCEPT ![h] = CommitBy(d, h, own, removes, names)]

Make(d, h, own, removes) == MakeNaming(d, h, own, removes, Admins(at[d]))

\* seal_commit_for_group: one copy to every member of the epoch it was made at.
Deposit(d, to, m) ==
    mail' = [e \in Devices |-> IF e \in to THEN mail[e] \union {m} ELSE mail[e]]

CommitMessage(h) == [kind |-> "commit", hash |-> h]

\* The rest of the group as commit h leaves it.
Enter(d, h) ==
    /\ at' = [at EXCEPT ![d] = h]
    /\ last' = [last EXCEPT ![d] = h]
    /\ proposals' = [proposals EXCEPT ![d] = {}]
    /\ keys' = [keys EXCEPT ![d] = Remember(@, h)]

\* Another member of the epoch h was made at has yet to follow it.
SomebodyBehind(d, commit, h) ==
    \E e \in Members(commit.on) \ {d} : at[e] = None \/ h \notin Path(at[e])

\* Conversation::settle of a commit just made: no longer able to take a rival.
SettleAtOnce(d, h) ==
    /\ Enter(d, h)
    /\ pending' = [pending EXCEPT ![d] = None]
    /\ blind' = blind \union {h}

\* Meeting::write_down.  When the file cannot be written that is said, and the
\* conversation goes on; it matters to nothing before a restart.
Save(d) ==
    \/ saved' = [saved EXCEPT ![d] = [at |-> at'[d], keys |-> keys'[d],
                                      proposals |-> proposals'[d]]]
    \/ restarts < MaxRestarts /\ UNCHANGED saved

\* The process dies before it has written down what it did.
Die(d) ==
    /\ restarts < MaxRestarts
    /\ down' = [down EXCEPT ![d] = TRUE]
    /\ UNCHANGED saved

SaveOrDie(d) == (Save(d) /\ UNCHANGED down) \/ Die(d)

-----------------------------------------------------------------------------
(* The client's operations.                                                *)

\* Meeting::propose: ask the others to let the newcomer in.  The mailbox may go
\* away half way, and some of them are never asked.
Propose(d, x) ==
    /\ MayCommit(d) /\ Resumed(d)
    /\ KnocksAt[x] = d /\ at[x] = None /\ x \notin Members(at[d])
    /\ Cardinality(Members(at[d])) > 1
    /\ [by |-> d, who |-> x] \notin proposals[d]
    /\ proposals' = [proposals EXCEPT ![d] = @ \union {[by |-> d, who |-> x]}]
    /\ \E reached \in SUBSET Others(d) :
          Deposit(d, reached, [kind |-> "proposal", by |-> d, who |-> x, under |-> at[d]])
    /\ UNCHANGED <<made, at, pending, last, debt, keys, settleBy, reading, down, saved,
                   restarts, blind>>

\* Welcomes for the newcomers of a commit, and the commit for the others, as
\* far as they are reached.
HandOut(d, h, newcomers, reached) ==
    mail' = [e \in Devices |->
        IF e \notin reached THEN mail[e]
        ELSE IF e \in newcomers THEN mail[e] \union {[kind |-> "welcome", hash |-> h]}
        ELSE mail[e] \union {CommitMessage(h)}]

\* The welcome goes first, then each copy of the commit; the session is written
\* down once all are deposited.  When the mailbox goes away half way the client
\* connects again and leaves it at that.
HandOutAndSave(d, h, newcomers) ==
    \E reached \in SUBSET (Others(d) \union newcomers) :
        /\ reached \intersect Others(d) # {} => newcomers \subseteq reached
        /\ HandOut(d, h, newcomers, reached)
        /\ IF reached = Others(d) \union newcomers
           THEN SaveOrDie(d)
           ELSE UNCHANGED <<saved, down>>

\* Meeting::confirm: agree to what somebody else proposed, settle at once and
\* hand the newcomer in.
Confirm(d, h) ==
    /\ Resumed(d)
    /\ \E p \in proposals[d] : p.by # d
    /\ Make(d, h, {}, {})
    /\ SettleAtOnce(d, h)
    /\ HandOutAndSave(d, h, {p.who : p \in proposals[d]})
    /\ UNCHANGED <<debt, settleBy, reading, restarts>>

\* Session::invite: first contact, one's own next device, or a client that
\* does not know better.
Invite(d, x, h) ==
    /\ InGroup(d) /\ Resumed(d)
    /\ at[x] = None /\ x \notin Members(at[d]) /\ KnocksAt[x] # None
    /\ \/ Cardinality(Members(at[d])) = 1
       \/ Person[x] = Person[d]
       \/ d \in Careless
    /\ Make(d, h, {[by |-> d, who |-> x]}, {})
    /\ SettleAtOnce(d, h)
    /\ HandOutAndSave(d, h, {x})
    /\ UNCHANGED <<debt, settleBy, reading, restarts>>

\* Command::Remove: make, deposit every copy, settle.  The session is not
\* written down.
RemoveMember(d, x, h) ==
    /\ InGroup(d) /\ Resumed(d)
    /\ x \in Others(d)
    /\ Make(d, h, {}, {x})
    /\ Deposit(d, Others(d), CommitMessage(h))
    /\ SettleAtOnce(d, h)
    /\ UNCHANGED <<debt, settleBy, reading, down, saved, restarts>>

\* Command::Remove when the mailbox goes away half way: some copies are
\* deposited, the commit is still held and nothing is going to settle it.
RemoveInterrupted(d, x, h, reached) ==
    /\ InGroup(d) /\ Resumed(d)
    /\ x \in Others(d)
    /\ reached \subseteq Others(d) /\ reached # Others(d)
    /\ Make(d, h, {}, {x})
    /\ pending' = [pending EXCEPT ![d] = h]
    /\ Deposit(d, reached, CommitMessage(h))
    /\ blind' = blind \union {h}
    /\ UNCHANGED <<at, last, debt, proposals, keys, settleBy, reading, down, saved, restarts>>

\* Session::set_admins: any member says who of the members may admit from the
\* next epoch on, or that everybody may.  No command of rotelyx-meeting makes
\* this commit; a client that does deposits the copies, as far as it gets, and
\* settles.  Whether it then writes the session down is its own affair.
SetAdmins(d, names, h, reached) ==
    /\ InGroup(d) /\ Resumed(d)
    /\ names \subseteq {Person[e] : e \in Members(at[d])}
    /\ reached \subseteq Others(d)
    /\ MakeNaming(d, h, {}, {}, names)
    /\ Deposit(d, reached, CommitMessage(h))
    /\ SettleAtOnce(d, h)
    /\ Save(d)
    /\ UNCHANGED <<debt, settleBy, reading, down, restarts>>

\* The process stops, for whatever reason, and chats::reopen and
\* Conversation::reopen read the saved session back.
Restart(d) ==
    /\ restarts < MaxRestarts
    /\ saved[d].at # None
    /\ restarts' = restarts + 1
    /\ at' = [at EXCEPT ![d] = saved[d].at]
    /\ keys' = [keys EXCEPT ![d] = saved[d].keys]
    /\ proposals' = [proposals EXCEPT ![d] = saved[d].proposals]
    /\ pending' = [pending EXCEPT ![d] = None]
    /\ last' = [last EXCEPT ![d] = None]
    /\ debt' = [debt EXCEPT ![d] = TRUE]
    /\ settleBy' = [settleBy EXCEPT ![d] = FALSE]
    /\ reading' = [reading EXCEPT ![d] = TRUE]
    /\ down' = [down EXCEPT ![d] = FALSE]
    /\ blind' = blind \union {h \in Hashes : made[h] # None /\ made[h].by = d
                                             /\ h \notin Path(saved[d].at)}
    /\ UNCHANGED <<made, mail, saved>>

\* The epoch a message is addressed under.
Under(m) == IF m.kind = "proposal" THEN m.under ELSE made[m.hash].on

\* Session::open_mine: what d can hear.
Unread(d) ==
    {m \in mail[d] : m.kind # "welcome" /\ Under(m) \in Range(keys[d])}

\* resume: what the mailbox was holding has been read.
BacklogRead(d) ==
    /\ reading[d] /\ ~down[d]
    /\ Unread(d) = {}
    /\ reading' = [reading EXCEPT ![d] = FALSE]
    /\ UNCHANGED <<made, group, settleBy, mail, down, saved, restarts, blind>>

\* resume: once the backlog is read, a copy still in debt makes a rekey,
\* deposits it and holds it; showing a picture settles it there and then.
Rekey(d, h) ==
    /\ debt[d] /\ ~reading[d]
    /\ Make(d, h, {}, {})
    /\ Deposit(d, Others(d), CommitMessage(h))
    /\ debt' = [debt EXCEPT ![d] = FALSE]
    /\ IF d \in Pictured
       THEN /\ SettleAtOnce(d, h)
            /\ SaveOrDie(d)
            /\ UNCHANGED settleBy
       ELSE /\ pending' = [pending EXCEPT ![d] = h]
            /\ settleBy' = [settleBy EXCEPT ![d] = TRUE]
            /\ UNCHANGED <<at, last, proposals, keys, saved, blind, down>>
    /\ UNCHANGED <<reading, restarts>>

\* resume gives up when the mailbox goes away before every copy is deposited.
RekeyInterrupted(d, h, reached) ==
    /\ debt[d] /\ ~reading[d]
    /\ Make(d, h, {}, {})
    /\ reached \subseteq Others(d) /\ reached # Others(d)
    /\ Deposit(d, reached, CommitMessage(h))
    /\ debt' = [debt EXCEPT ![d] = FALSE]
    /\ pending' = [pending EXCEPT ![d] = h]
    /\ Die(d)
    /\ UNCHANGED <<at, last, proposals, keys, settleBy, reading, restarts, blind>>

\* settle_held: REKEY_GRACE is over, or there is something to say.
SettleHeld(d) ==
    /\ settleBy[d] /\ ~down[d]
    /\ settleBy' = [settleBy EXCEPT ![d] = FALSE]
    /\ IF pending[d] = None
       THEN UNCHANGED <<group, saved, blind>>
       ELSE /\ Enter(d, pending[d])
            /\ pending' = [pending EXCEPT ![d] = None]
            /\ blind' = IF SomebodyBehind(d, made[pending[d]], pending[d])
                        THEN blind \union {pending[d]} ELSE blind
            /\ Save(d)
            /\ UNCHANGED debt
    /\ UNCHANGED <<made, mail, reading, down, restarts>>

-----------------------------------------------------------------------------
(* Conversation::receive.                                                  *)

\* process_message: made at this epoch, and its proposals are here.
Processable(d, c) == c.on = at[d] /\ c.refs \subseteq proposals[d]

\* added_on_one_authority
AddedOnOneAuthority(d, c) ==
    /\ Cardinality(Members(at[d])) > 1
    /\ \E p \in c.adds : p.by = c.by /\ Person[p.who] # Person[c.by]

\* admin_rule_applies
AdminRuleApplies(e) == \E d \in Members(e) : Person[d] \in Admins(e)

\* added_by_somebody_who_may_not
AddedBySomebodyWhoMayNot(d, c) ==
    c.adds # {} /\ AdminRuleApplies(at[d]) /\ Person[c.by] \notin Admins(at[d])

\* Mutant: only the admin rule is asked.
RefusedByAdminsOnly(d, c) == AddedBySomebodyWhoMayNot(d, c)

Refused(d, c) == AddedOnOneAuthority(d, c) \/ AddedBySomebodyWhoMayNot(d, c)

\* A commit at an epoch d has left: a redelivery of the last one, or a split.
ReceiveStale(d, h) ==
    /\ UNCHANGED <<group, settleBy, blind>>
    /\ IF last[d] = h THEN Save(d) ELSE UNCHANGED saved

\* Received::Nothing: a rekey, or a new list of admins.
ChangesNobody(h) == made[h].members = Members(made[h].on)

\* The arriving commit is taken if it can be processed and is not refused.
\* Either way nothing of d's own is held any more; if it is not taken, d has let
\* go of its own for nothing.  Where nothing was held, a commit that changes
\* nobody leaves the grace period running.
Take(d, h) ==
    /\ pending' = [pending EXCEPT ![d] = None]
    /\ IF Processable(d, made[h]) /\ ~Refused(d, made[h])
       THEN /\ Enter(d, h)
            /\ debt' = [debt EXCEPT ![d] = FALSE]
            /\ settleBy' = [settleBy EXCEPT ![d] = @ /\ pending[d] = None /\ ChangesNobody(h)]
            /\ Save(d)
            /\ UNCHANGED blind
       ELSE /\ blind' = blind \union ({pending[d]} \ {None})
            /\ UNCHANGED <<at, last, debt, proposals, keys, settleBy, saved>>

\* Mutant: the device with a commit of its own always keeps it.
WinsNever(theirs, ours) == FALSE

\* Conversation::wins
Wins(theirs, ours) == theirs < ours

\* Ours stands: it is settled, and theirs is discarded unread.  Against a rival
\* its maker does not stand by any more, that was not looking.
KeepOurs(d, h) ==
    /\ Enter(d, pending[d])
    /\ pending' = [pending EXCEPT ![d] = None]
    /\ blind' = IF h \in blind THEN blind \union {pending[d]} ELSE blind
    /\ Save(d)
    /\ UNCHANGED <<debt, settleBy>>

ReceiveCommit(d, h) ==
    IF EpochNumber(made[h].on) < EpochNumber(at[d]) THEN ReceiveStale(d, h)
    ELSE IF pending[d] # None /\ ~Wins(h, pending[d]) THEN KeepOurs(d, h)
    ELSE Take(d, h)

\* A proposal is stored at the epoch it was made at.
ReceiveProposal(d, m) ==
    /\ IF m.under = at[d]
       THEN /\ proposals' = [proposals EXCEPT ![d] = @ \union {[by |-> m.by, who |-> m.who]}]
            /\ UNCHANGED <<at, pending, last, debt, keys>>
            /\ Save(d)
       ELSE UNCHANGED <<group, saved>>
    /\ UNCHANGED <<settleBy, blind>>

\* The receipt goes out once m was acted on, or the process dies before it
\* does.  (A receipt lost without that changes nothing: Meeting::seen drops the
\* second copy.)
Collected(d, m) ==
    \/ mail' = [mail EXCEPT ![d] = @ \ {m}] /\ UNCHANGED down
    \/ restarts < MaxRestarts /\ down' = [down EXCEPT ![d] = TRUE] /\ UNCHANGED mail

\* Meeting::incoming and Meeting::conversation: act on it, then say it arrived.
Receive(d, m) ==
    /\ InGroup(d)
    /\ m \in Unread(d)
    /\ IF m.kind = "commit" THEN ReceiveCommit(d, m.hash) ELSE ReceiveProposal(d, m)
    /\ Collected(d, m)
    /\ UNCHANGED <<made, reading, restarts>>

\* Conversation::join, from a welcome.
JoinFrom(x, h) ==
    /\ at[x] = None
    /\ [kind |-> "welcome", hash |-> h] \in mail[x]
    /\ at' = [at EXCEPT ![x] = h]
    /\ joined' = [joined EXCEPT ![x] = h]
    /\ keys' = [keys EXCEPT ![x] = <<h>>]
    /\ mail' = [mail EXCEPT ![x] = @ \ {[kind |-> "welcome", hash |-> h]}]
    /\ UNCHANGED <<made, pending, last, debt, proposals, settleBy, reading, down, restarts, blind>>
    /\ Save(x)

-----------------------------------------------------------------------------
Init ==
    /\ made = [h \in Hashes |-> None]
    /\ at = [d \in Devices |-> IF d \in Founders THEN 0 ELSE None]
    /\ pending = [d \in Devices |-> None]
    /\ settleBy = [d \in Devices |-> FALSE]
    /\ last = [d \in Devices |-> None]
    /\ debt = [d \in Devices |-> FALSE]
    /\ proposals = [d \in Devices |-> {}]
    /\ keys = [d \in Devices |-> IF d \in Founders THEN <<0>> ELSE <<>>]
    /\ mail = [d \in Devices |-> {}]
    /\ reading = [d \in Devices |-> FALSE]
    /\ down = [d \in Devices |-> FALSE]
    /\ saved = [d \in Devices |-> [at |-> at[d], keys |-> keys[d], proposals |-> {}]]
    /\ restarts = 0
    /\ joined = at
    /\ blind = {}

Step ==
    \/ \E h \in Hashes \ Made, d \in Devices :
          \/ Confirm(d, h)
          \/ Rekey(d, h)
          \/ \E reached \in SUBSET (Devices \ {d}) : RekeyInterrupted(d, h, reached)
          \/ \E names \in AdminLists, reached \in SUBSET (Devices \ {d}) :
                SetAdmins(d, names, h, reached)
          \/ \E x \in Devices :
                \/ Invite(d, x, h)
                \/ RemoveMember(d, x, h)
                \/ \E reached \in SUBSET (Devices \ {d}) : RemoveInterrupted(d, x, h, reached)
    \/ \E d, x \in Devices : Propose(d, x)
    \/ \E d \in Devices : Restart(d) \/ BacklogRead(d) \/ SettleHeld(d)
    \/ \E d \in Devices : \E m \in mail[d] : Receive(d, m)

Join == \E d \in Devices, h \in Made : JoinFrom(d, h)

Next == Join \/ (Step /\ UNCHANGED joined)

Spec == Init /\ [][Next]_vars

-----------------------------------------------------------------------------
(* Properties.                                                             *)

\* A commit that admits somebody of another person's on one authority, in a
\* group that had somebody else to ask.
LoneAdmission(h) ==
    /\ Cardinality(Members(made[h].on)) > 1
    /\ \E p \in made[h].adds : p.by = made[h].by /\ Person[p.who] # Person[made[h].by]

\* A commit that admits somebody, by one who is not among the admins its epoch
\* names, one of whom is present.
AdmissionByOther(h) ==
    /\ made[h].adds # {}
    /\ AdminRuleApplies(made[h].on)
    /\ Person[made[h].by] \notin Admins(made[h].on)

\* The two member rule and the admin rule: nobody but its maker ever stands on
\* the far side of an admission that breaks one of them, by whatever sequence of
\* commits, rivals, restarts and redeliveries it moves, unless it was brought in
\* on that side.
UnlawfulAdmissionIsUnfollowed ==
    \A d \in Devices : at[d] # None =>
        \A h \in Path(at[d]) \ Path(joined[d]) :
            LoneAdmission(h) \/ AdmissionByOther(h) => made[h].by = d

\* Two devices left the epoch e by different commits.
Fork(e, g, h) ==
    /\ g # h /\ made[g].on = e /\ made[h].on = e
    /\ \E c, d \in Members(e) : /\ at[c] # None /\ g \in Path(at[c])
                                /\ at[d] # None /\ h \in Path(at[d])

\* Two members that commit at one epoch converge, as long as each looks at the
\* other's before it settles: in a group of two, every fork has a commit that
\* was settled unseen, that not everybody was sent, or that its maker forgot in a
\* restart or let go of for a rival it then refused.
PairConverges ==
    \A e \in Made \union {0} : Cardinality(Members(e)) = 2 =>
        \A g, h \in Made \ blind : ~Fork(e, g, h)

\* The same of a group of any size, which is what the comments say ("They
\* converge."), and only of the commits every restart makes and holds for the
\* time it takes to hear a rival.
Converges ==
    \A e \in Made \union {0} :
        \A g, h \in {k \in Made \ blind : ChangesNobody(k)} : ~Fork(e, g, h)
=============================================================================
