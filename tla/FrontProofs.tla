----------------------------- MODULE FrontProofs ----------------------------
(***************************************************************************)
(* Proofs about the front, for any number of phones, session ids and slots *)
(* and any room in the channels: replies never cross from one phone to     *)
(* another, and a phone that has ended has left no route behind.           *)
(***************************************************************************)
EXTENDS Front, SequenceTheorems, TLAPS

\* Upstream session i was opened by phone p as its session sid.
Names(i, p, sid) == i \in 1..Len(owner) /\ owner[i] = <<p, sid>>

\* Every place a session is mentioned agrees with who opened it: the phones'
\* tasks, the slots' tables, and the mail on its way to a phone.
Counted == Len(owner) = next_id

LocalOwned ==
    \A p \in Phones : \A r \in local[p] \union doing[p] : Names(r.id, p, r.sid)

TableOwned ==
    \A u \in Upstreams : \A s \in routes[u] \union pending[u] :
        Names(s.id, s.phone, s.sid)

MailOwned ==
    \A p \in Phones : \A i \in 1..Len(inbox[p]) :
        Names(inbox[p][i].id, p, inbox[p][i].sid)

Owned == Counted /\ LocalOwned /\ TableOwned /\ MailOwned

-----------------------------------------------------------------------------
(* Types.                                                                  *)

USE FrontAssumption

LEMMA FrontInitTyped == Init => FrontTypeOK
  BY DEF Init, FrontTypeOK, PhoneStep, SlotStep

\* No channel ever holds more than it has room for, as step after step is taken.
RoomKept ==
    /\ \A p \in Phones : Len(inbox[p]) <= CHANNEL
    /\ \A u \in Upstreams : Len(out[u]) <= CHANNEL

\* Every step that puts something into a channel has found room there first.
LEMMA ChannelsBounded ==
  ASSUME FrontTypeOK, [Next]_vars
  PROVE  RoomKept'
  <1> USE DEF RoomKept
  <1>1. /\ inbox \in [Phones -> Seq(Mail)] /\ \A p \in Phones : Len(inbox[p]) <= CHANNEL
        /\ out \in [Upstreams -> Seq(Frame)] /\ \A u \in Upstreams : Len(out[u]) <= CHANNEL
        /\ CHANNEL \in Nat
    BY DEF FrontTypeOK
  <1>2. ASSUME UNCHANGED <<inbox, out>> PROVE RoomKept'
    BY <1>1, <1>2
  <1>3. ASSUME NEW p \in Phones, PhoneReply(p) PROVE RoomKept'
    <2>1. /\ inbox[p] # <<>> /\ inbox' = [inbox EXCEPT ![p] = Tail(inbox[p])] /\ out' = out
      BY <1>3 DEF PhoneReply
    <2>2. Len(Tail(inbox[p])) = Len(inbox[p]) - 1 /\ Len(inbox[p]) \in Nat
      BY <1>1, <2>1
    <2>3. \A q \in Phones : inbox'[q] = IF q = p THEN Tail(inbox[p]) ELSE inbox[q]
      BY <1>1, <2>1
    <2> QED
      BY <1>1, <2>1, <2>2, <2>3
  <1>4. ASSUME NEW p \in Phones, PhoneLeave(p) PROVE RoomKept'
    <2>1. out' = out /\ (inbox' = inbox \/ inbox' = [inbox EXCEPT ![p] = <<>>])
      BY <1>4 DEF PhoneLeave
    <2>2. \A q \in Phones : inbox'[q] = inbox[q] \/ inbox'[q] = <<>>
      BY <1>1, <2>1
    <2>3. Len(<<>>) = 0
      OBVIOUS
    <2> QED
      BY <1>1, <2>1, <2>2, <2>3
  <1>5. ASSUME NEW p \in Phones, PhoneForward(p) PROVE RoomKept'
    <2>1. PICK r \in doing[p] :
             /\ Len(out[r.up]) < CHANNEL
             /\ out' = [out EXCEPT ![r.up] = Append(@, [kind |-> at[p], id |-> r.id])]
      BY <1>5 DEF PhoneForward
    <2> DEFINE frame == [kind |-> at[p], id |-> r.id]
    <2>2. r.up \in Upstreams /\ frame \in Frame
      BY <1>5, <2>1 DEF PhoneForward, FrontTypeOK, Route, Frame
    <2> HIDE DEF frame
    <2>3. Len(Append(out[r.up], frame)) = Len(out[r.up]) + 1 /\ Len(out[r.up]) \in Nat
      BY <1>1, <2>2
    <2>4. \A u \in Upstreams : out'[u] = IF u = r.up THEN Append(out[r.up], frame) ELSE out[u]
      BY <1>1, <2>1 DEF frame
    <2>5. inbox' = inbox
      BY <1>5 DEF PhoneForward
    <2> QED
      BY <1>1, <2>1, <2>3, <2>4, <2>5
  <1>6. ASSUME NEW s \in PhoneSlot, NEW mail \in Mail, RoomFor(s.phone), Post(s.phone, mail), out' = out
        PROVE  RoomKept'
    <2>1. CASE at[s.phone] = "ended"
      BY <1>2, <1>6, <2>1 DEF Post
    <2>2. CASE at[s.phone] # "ended"
      <3>1. /\ s.phone \in Phones /\ Len(inbox[s.phone]) < CHANNEL
            /\ inbox' = [inbox EXCEPT ![s.phone] = Append(inbox[s.phone], mail)]
        BY <1>6, <2>2 DEF Post, RoomFor, PhoneSlot
      <3>2. /\ Len(Append(inbox[s.phone], mail)) = Len(inbox[s.phone]) + 1
            /\ Len(inbox[s.phone]) \in Nat
        BY <1>1, <3>1
      <3>3. \A q \in Phones : inbox'[q] = IF q = s.phone THEN Append(inbox[s.phone], mail)
                                         ELSE inbox[q]
        BY <1>1, <3>1
      <3> QED
        BY <1>1, <1>6, <3>1, <3>2, <3>3
    <2> QED
      BY <2>1, <2>2
  <1>7. \A u \in Upstreams : \A s \in pending[u] :
           /\ s \in PhoneSlot
           /\ [kind |-> "reply", id |-> s.id, sid |-> s.sid] \in Mail
           /\ [kind |-> "close", id |-> s.id, sid |-> s.sid] \in Mail
    BY DEF FrontTypeOK, PhoneSlot, Mail
  <1>8. ASSUME NEW u \in Upstreams, UpDeliver(u) PROVE RoomKept'
    <2>1. PICK s \in pending[u] :
             RoomFor(s.phone) /\ Post(s.phone, [kind |-> "reply", id |-> s.id, sid |-> s.sid])
      BY <1>8 DEF UpDeliver
    <2> QED
      BY <1>6, <1>7, <1>8, <2>1 DEF UpDeliver
  <1>9. ASSUME NEW u \in Upstreams, UpTell(u) PROVE RoomKept'
    <2>1. out' = out
      BY <1>9 DEF UpTell
    <2>2. CASE inbox' = inbox
      BY <1>2, <2>1, <2>2
    <2>3. CASE inbox' # inbox
      <3>1. PICK s \in pending[u] :
               RoomFor(s.phone) /\ Post(s.phone, [kind |-> "close", id |-> s.id, sid |-> s.sid])
        BY <1>9, <2>3 DEF UpTell
      <3> QED
        BY <1>6, <1>7, <2>1, <3>1
    <2> QED
      BY <2>2, <2>3
  <1>10. ASSUME NEW u \in Upstreams, UpConnect(u) PROVE RoomKept'
    <2>1. inbox' = inbox /\ out' = [out EXCEPT ![u] = <<>>]
      BY <1>10 DEF UpConnect
    <2>2. \A v \in Upstreams : out'[v] = out[v] \/ out'[v] = <<>>
      BY <1>1, <2>1
    <2>3. Len(<<>>) = 0
      OBVIOUS
    <2> QED
      BY <1>1, <2>1, <2>2, <2>3
  <1>11. ASSUME NEW u \in Upstreams, UpSend(u) PROVE RoomKept'
    <2>1. inbox' = inbox /\ out[u] # <<>> /\ out' = [out EXCEPT ![u] = Tail(out[u])]
      BY <1>11 DEF UpSend
    <2>2. Len(Tail(out[u])) = Len(out[u]) - 1 /\ Len(out[u]) \in Nat
      BY <1>1, <2>1
    <2>3. \A v \in Upstreams : out'[v] = IF v = u THEN Tail(out[u]) ELSE out[v]
      BY <1>1, <2>1
    <2> QED
      BY <1>1, <2>1, <2>2, <2>3
  <1>12. ASSUME NEW p \in Phones
         PROVE  /\ (PhoneConnect(p) \/ PhoneGone(p) \/ PhoneInsert(p) \/ PhoneDeregister(p))
                      => UNCHANGED <<inbox, out>>
                /\ \A sid \in Sids :
                      (PhoneHello(p, sid) \/ PhoneHelloRefused(p, sid)
                        \/ PhoneBody(p, sid) \/ PhoneClose(p, sid)) => UNCHANGED <<inbox, out>>
    BY DEF PhoneConnect, PhoneGone, PhoneInsert, PhoneDeregister, PhoneHello,
           PhoneHelloRefused, PhoneBody, PhoneClose
  <1>13. ASSUME NEW u \in Upstreams
         PROVE  (UpRefused(u) \/ UpAwake(u) \/ UpReceive(u) \/ UpLost(u) \/ UpDrain(u)
                  \/ MailboxReplies(u) \/ ConnectionDies(u)) => UNCHANGED <<inbox, out>>
    BY DEF UpRefused, UpAwake, UpReceive, UpLost, UpDrain, MailboxReplies, ConnectionDies
  <1>14. UNCHANGED vars => UNCHANGED <<inbox, out>>
    BY DEF vars
  <1> QED
    BY <1>2, <1>3, <1>4, <1>5, <1>8, <1>9, <1>10, <1>11, <1>12, <1>13, <1>14
       DEF Next, PhoneAsks, PhoneContinues, SlotContinues

LEMMA FrontTypesKept ==
  ASSUME FrontTypeOK, [Next]_vars
  PROVE  FrontTypeOK'
  <1>0. RoomKept'
    BY ChannelsBounded
  <1> USE <1>0 DEF RoomKept
  <1>1. ASSUME NEW p \in Phones, PhoneConnect(p) PROVE FrontTypeOK'
    <2>1. at' \in [Phones -> PhoneStep]
      BY <1>1 DEF PhoneConnect, FrontTypeOK, PhoneStep
    <2> QED
      BY <1>1, <2>1 DEF PhoneConnect, FrontTypeOK, phoneVars, slotVars, mailVars
  <1>2. ASSUME NEW p \in Phones, PhoneInsert(p) PROVE FrontTypeOK'
    <2>1. at' \in [Phones -> PhoneStep]
      BY <1>2 DEF PhoneInsert, FrontTypeOK, PhoneStep
    <2>2. routes' \in [Upstreams -> SUBSET PhoneSlot]
      BY <1>2 DEF PhoneInsert, FrontTypeOK, PhoneSlot, Route
    <2>3. local' \in [Phones -> SUBSET Route]
      BY <1>2 DEF PhoneInsert, FrontTypeOK, Route
    <2> QED
      BY <1>2, <2>1, <2>2, <2>3 DEF PhoneInsert, FrontTypeOK, phoneVars, slotVars, mailVars
  <1>3. ASSUME NEW p \in Phones, PhoneGone(p) PROVE FrontTypeOK'
    <2>1. at' \in [Phones -> PhoneStep]
      BY <1>3 DEF PhoneGone, FrontTypeOK, PhoneStep
    <2>2. socket' \in [Phones -> {"open", "shut", "left"}]
      BY <1>3 DEF PhoneGone, FrontTypeOK
    <2> QED
      BY <1>3, <2>1, <2>2 DEF PhoneGone, FrontTypeOK, phoneVars, slotVars, mailVars
  <1>4. ASSUME NEW p \in Phones, PhoneReply(p) PROVE FrontTypeOK'
    <2>1. inbox' \in [Phones -> Seq(Mail)]
      BY <1>4, HeadTailProperties DEF PhoneReply, FrontTypeOK
    <2>2. at' \in [Phones -> PhoneStep]
      BY <1>4 DEF PhoneReply, FrontTypeOK, PhoneStep
    <2>3. socket' \in [Phones -> {"open", "shut", "left"}]
      BY <1>4 DEF PhoneReply, FrontTypeOK
    <2> QED
      BY <1>4, <2>1, <2>2, <2>3 DEF PhoneReply, FrontTypeOK, phoneVars, slotVars, mailVars
  <1>5. ASSUME NEW p \in Phones, PhoneForward(p) PROVE FrontTypeOK'
    <2>1. out' \in [Upstreams -> Seq(Frame)]
      BY <1>5 DEF PhoneForward, FrontTypeOK, Frame, Route, PhoneStep
    <2>2. at' \in [Phones -> PhoneStep]
      BY <1>5 DEF PhoneForward, FrontTypeOK, PhoneStep
    <2> QED
      BY <1>5, <2>1, <2>2 DEF PhoneForward, FrontTypeOK, phoneVars, slotVars, mailVars
  <1>6. ASSUME NEW p \in Phones, PhoneDeregister(p) PROVE FrontTypeOK'
    <2>1. routes' \in [Upstreams -> SUBSET PhoneSlot]
      BY <1>6 DEF PhoneDeregister, FrontTypeOK, PhoneSlot, Route
    <2>2. at' \in [Phones -> PhoneStep]
      BY <1>6 DEF PhoneDeregister, FrontTypeOK, PhoneStep
    <2> QED
      BY <1>6, <2>1, <2>2 DEF PhoneDeregister, FrontTypeOK, phoneVars, slotVars, mailVars
  <1>7. ASSUME NEW p \in Phones, PhoneLeave(p) PROVE FrontTypeOK'
    <2> DEFINE Typed == /\ doing' \in [Phones -> SUBSET Route]
                        /\ local' \in [Phones -> SUBSET Route]
                        /\ inbox' \in [Phones -> Seq(Mail)]
                        /\ at' \in [Phones -> PhoneStep]
    <2>1. ASSUME NEW r \in local[p],
                 doing' = [doing EXCEPT ![p] = {r}],
                 local' = [local EXCEPT ![p] = @ \ {r}],
                 at' = [at EXCEPT ![p] = "close"],
                 UNCHANGED inbox
          PROVE  Typed
      BY <2>1 DEF FrontTypeOK, PhoneStep
    <2>2. ASSUME doing' = [doing EXCEPT ![p] = {}],
                 at' = [at EXCEPT ![p] = "ended"],
                 inbox' = [inbox EXCEPT ![p] = <<>>],
                 UNCHANGED local
          PROVE  Typed
      BY <2>2, EmptySeq DEF FrontTypeOK, PhoneStep
    <2>3. Typed
      <3> HIDE DEF Typed
      <3> QED
        BY <1>7, <2>1, <2>2 DEF PhoneLeave
    <2> QED
      BY <1>7, <2>3 DEF PhoneLeave, FrontTypeOK, phoneVars, slotVars, mailVars
  <1>8. ASSUME NEW p \in Phones, NEW sid \in Sids, PhoneHello(p, sid) PROVE FrontTypeOK'
    <2>1. doing' \in [Phones -> SUBSET Route]
      BY <1>8 DEF PhoneHello, PickUpstream, FrontTypeOK, Route
    <2>2. next_id' \in Nat
      BY <1>8 DEF PhoneHello, FrontTypeOK
    <2>3. owner' \in Seq(Phones \X Sids)
      BY <1>8 DEF PhoneHello, FrontTypeOK
    <2>4. at' \in [Phones -> PhoneStep]
      BY <1>8 DEF PhoneHello, FrontTypeOK, PhoneStep
    <2> QED
      BY <1>8, <2>1, <2>2, <2>3, <2>4 DEF PhoneHello, FrontTypeOK, phoneVars, slotVars, mailVars
  <1>9. ASSUME NEW p \in Phones, NEW sid \in Sids, PhoneHelloRefused(p, sid) PROVE FrontTypeOK'
    <2>1. at' \in [Phones -> PhoneStep]
      BY <1>9 DEF PhoneHelloRefused, FrontTypeOK, PhoneStep
    <2>2. socket' \in [Phones -> {"open", "shut", "left"}]
      BY <1>9 DEF PhoneHelloRefused, FrontTypeOK
    <2> QED
      BY <1>9, <2>1, <2>2 DEF PhoneHelloRefused, FrontTypeOK, phoneVars, slotVars, mailVars
  <1>10. ASSUME NEW p \in Phones, NEW sid \in Sids, PhoneBody(p, sid) PROVE FrontTypeOK'
    <2>1. doing' \in [Phones -> SUBSET Route]
      BY <1>10 DEF PhoneBody, FrontTypeOK, Route
    <2>2. at' \in [Phones -> PhoneStep]
      BY <1>10 DEF PhoneBody, FrontTypeOK, PhoneStep
    <2>3. traffic' \in Nat
      BY <1>10 DEF PhoneBody, FrontTypeOK
    <2> QED
      BY <1>10, <2>1, <2>2, <2>3 DEF PhoneBody, FrontTypeOK, phoneVars, slotVars, mailVars
  <1>11. ASSUME NEW p \in Phones, NEW sid \in Sids, PhoneClose(p, sid) PROVE FrontTypeOK'
    <2>1. doing' \in [Phones -> SUBSET Route]
      BY <1>11 DEF PhoneClose, FrontTypeOK, Route
    <2>2. local' \in [Phones -> SUBSET Route]
      BY <1>11 DEF PhoneClose, FrontTypeOK, Route
    <2>3. at' \in [Phones -> PhoneStep]
      BY <1>11 DEF PhoneClose, FrontTypeOK, PhoneStep
    <2> QED
      BY <1>11, <2>1, <2>2, <2>3 DEF PhoneClose, FrontTypeOK, phoneVars, slotVars, mailVars
  <1>12. ASSUME NEW u \in Upstreams, UpConnect(u) PROVE FrontTypeOK'
    <2>1. link' \in [Upstreams -> SlotStep]
      BY <1>12 DEF UpConnect, FrontTypeOK, SlotStep
    <2>2. conn' \in [Upstreams -> {"none", "open", "dead"}]
      BY <1>12 DEF UpConnect, FrontTypeOK
    <2>3. out' \in [Upstreams -> Seq(Frame)]
      BY <1>12 DEF UpConnect, FrontTypeOK, Frame, Route
    <2> QED
      BY <1>12, <2>1, <2>2, <2>3 DEF UpConnect, FrontTypeOK, phoneVars, slotVars, mailVars
  <1>13. ASSUME NEW u \in Upstreams, UpSend(u) PROVE FrontTypeOK'
    <2>1. out' \in [Upstreams -> Seq(Frame)]
      BY <1>13 DEF UpSend, FrontTypeOK, Frame, Route
    <2>2. streams' \in [Upstreams -> SUBSET Nat]
      <3>1. Head(out[u]) \in Frame
        BY <1>13, HeadTailProperties DEF UpSend, FrontTypeOK
      <3>2. Heard(streams[u], Head(out[u])) \subseteq SUBSET Nat
        BY <3>1 DEF Heard, Frame, FrontTypeOK
      <3> QED
        BY <1>13, <3>2 DEF UpSend, FrontTypeOK
    <2> QED
      BY <1>13, <2>1, <2>2 DEF UpSend, FrontTypeOK, phoneVars, slotVars, mailVars
  <1>14. ASSUME NEW u \in Upstreams, UpReceive(u) PROVE FrontTypeOK'
    <2>1. flying' \in [Upstreams -> SUBSET Nat]
      BY <1>14 DEF UpReceive, FrontTypeOK
    <2>2. pending' \in [Upstreams -> SUBSET PhoneSlot]
      BY <1>14 DEF UpReceive, FrontTypeOK, PhoneSlot
    <2>3. link' \in [Upstreams -> SlotStep]
      BY <1>14 DEF UpReceive, FrontTypeOK, SlotStep
    <2> QED
      BY <1>14, <2>1, <2>2, <2>3 DEF UpReceive, FrontTypeOK, phoneVars, slotVars, mailVars
  <1>15. ASSUME NEW u \in Upstreams, UpDeliver(u) PROVE FrontTypeOK'
    <2>1. inbox' \in [Phones -> Seq(Mail)]
      <3>1. \A s \in pending[u] :
               s.phone \in Phones /\ [kind |-> "reply", id |-> s.id, sid |-> s.sid] \in Mail
        BY DEF FrontTypeOK, PhoneSlot, Mail
      <3>2. ASSUME NEW s \in pending[u],
                   Post(s.phone, [kind |-> "reply", id |-> s.id, sid |-> s.sid])
            PROVE  inbox' \in [Phones -> Seq(Mail)]
        BY <3>1, <3>2, AppendProperties DEF Post, FrontTypeOK
      <3> QED
        BY <1>15, <3>2 DEF UpDeliver, FrontTypeOK
    <2>2. pending' \in [Upstreams -> SUBSET PhoneSlot]
      BY <1>15 DEF UpDeliver, FrontTypeOK, PhoneSlot
    <2>3. link' \in [Upstreams -> SlotStep]
      BY <1>15 DEF UpDeliver, FrontTypeOK, SlotStep
    <2> QED
      BY <1>15, <2>1, <2>2, <2>3 DEF UpDeliver, FrontTypeOK, phoneVars, slotVars, mailVars
  <1>16. ASSUME NEW u \in Upstreams, UpLost(u) PROVE FrontTypeOK'
    <2>1. link' \in [Upstreams -> SlotStep]
      BY <1>16 DEF UpLost, FrontTypeOK, SlotStep
    <2> QED
      BY <1>16, <2>1 DEF UpLost, FrontTypeOK, phoneVars, slotVars, mailVars
  <1>17. ASSUME NEW u \in Upstreams, UpDrain(u) PROVE FrontTypeOK'
    <2>1. link' \in [Upstreams -> SlotStep]
      BY <1>17 DEF UpDrain, FrontTypeOK, SlotStep
    <2>2. pending' \in [Upstreams -> SUBSET PhoneSlot]
      BY <1>17 DEF UpDrain, FrontTypeOK, PhoneSlot
    <2>3. routes' \in [Upstreams -> SUBSET PhoneSlot]
      BY <1>17 DEF UpDrain, FrontTypeOK, PhoneSlot, Route
    <2> QED
      BY <1>17, <2>1, <2>2, <2>3 DEF UpDrain, FrontTypeOK, phoneVars, slotVars, mailVars
  <1>18. ASSUME NEW u \in Upstreams, UpTell(u) PROVE FrontTypeOK'
    <2>1. inbox' \in [Phones -> Seq(Mail)]
      <3>1. \A s \in pending[u] :
               s.phone \in Phones /\ [kind |-> "close", id |-> s.id, sid |-> s.sid] \in Mail
        BY DEF FrontTypeOK, PhoneSlot, Mail
      <3>2. ASSUME NEW s \in pending[u],
                   Post(s.phone, [kind |-> "close", id |-> s.id, sid |-> s.sid])
            PROVE  inbox' \in [Phones -> Seq(Mail)]
        BY <3>1, <3>2, AppendProperties DEF Post, FrontTypeOK
      <3> QED
        BY <1>18, <3>2 DEF UpTell, FrontTypeOK
    <2>2. pending' \in [Upstreams -> SUBSET PhoneSlot]
      <3>1. \/ pending' = pending
            \/ \E s \in pending[u] : pending' = [pending EXCEPT ![u] = @ \ {s}]
        BY <1>18 DEF UpTell
      <3>2. pending \in [Upstreams -> SUBSET PhoneSlot]
        BY DEF FrontTypeOK
      <3> QED
        BY <3>1, <3>2
    <2>3. link' \in [Upstreams -> SlotStep]
      BY <1>18 DEF UpTell, FrontTypeOK, SlotStep
    <2>4. conn' \in [Upstreams -> {"none", "open", "dead"}]
      BY <1>18 DEF UpTell, FrontTypeOK
    <2> QED
      BY <1>18, <2>1, <2>2, <2>3, <2>4 DEF UpTell, FrontTypeOK, phoneVars, slotVars, mailVars
  <1>19. ASSUME NEW u \in Upstreams, MailboxReplies(u) PROVE FrontTypeOK'
    <2>1. traffic' \in Nat
      BY <1>19 DEF MailboxReplies, FrontTypeOK
    <2>2. flying' \in [Upstreams -> SUBSET Nat]
      BY <1>19 DEF MailboxReplies, FrontTypeOK
    <2> QED
      BY <1>19, <2>1, <2>2 DEF MailboxReplies, FrontTypeOK, phoneVars, slotVars, mailVars
  <1>20. ASSUME NEW u \in Upstreams, ConnectionDies(u) PROVE FrontTypeOK'
    <2>1. losses' \in Nat
      BY <1>20 DEF ConnectionDies, FrontTypeOK
    <2>2. conn' \in [Upstreams -> {"none", "open", "dead"}]
      BY <1>20 DEF ConnectionDies, FrontTypeOK
    <2>3. streams' \in [Upstreams -> SUBSET Nat]
      BY <1>20 DEF ConnectionDies, FrontTypeOK
    <2>4. flying' \in [Upstreams -> SUBSET Nat]
      BY <1>20 DEF ConnectionDies, FrontTypeOK
    <2> QED
      BY <1>20, <2>1, <2>2, <2>3, <2>4 DEF ConnectionDies, FrontTypeOK, phoneVars, slotVars, mailVars
  <1>21. ASSUME UNCHANGED vars PROVE FrontTypeOK'
    BY <1>21 DEF vars, phoneVars, slotVars, mailVars, FrontTypeOK
  <1>22. ASSUME NEW u \in Upstreams, UpRefused(u) \/ UpAwake(u) PROVE FrontTypeOK'
    <2>1. link' \in [Upstreams -> SlotStep]
      BY <1>22 DEF UpRefused, UpAwake, FrontTypeOK, SlotStep
    <2> QED
      BY <1>22, <2>1 DEF UpRefused, UpAwake, FrontTypeOK, phoneVars, slotVars, mailVars
  <1> QED
    BY <1>1, <1>2, <1>3, <1>4, <1>5, <1>6, <1>7, <1>8, <1>9, <1>10, <1>11, <1>12, <1>13, <1>14, <1>15, <1>16, <1>17, <1>18, <1>19, <1>20, <1>21, <1>22 DEF Next, PhoneAsks, PhoneContinues, SlotContinues

-----------------------------------------------------------------------------
(* Who a session belongs to.                                               *)

LEMMA OwnedKept ==
  ASSUME FrontTypeOK, Owned, [Next]_vars
  PROVE  Owned'
  <1> USE DEF Owned
  <1> DEFINE SameOwner == UNCHANGED <<owner, next_id>>
  <1>1. ASSUME SameOwner PROVE Counted'
    BY <1>1 DEF Counted
  <1>2. ASSUME SameOwner, NEW i, NEW q, NEW t, Names(i, q, t) PROVE Names(i, q, t)'
    BY <1>2 DEF Names
  <1>3. ASSUME SameOwner,
               \A q \in Phones : local'[q] \union doing'[q] \subseteq local[q] \union doing[q]
        PROVE  LocalOwned'
    BY <1>2, <1>3 DEF LocalOwned
  <1>4. ASSUME SameOwner,
               \A v \in Upstreams :
                  routes'[v] \union pending'[v] \subseteq routes[v] \union pending[v]
        PROVE  TableOwned'
    BY <1>2, <1>4 DEF TableOwned
  <1>5. ASSUME SameOwner, UNCHANGED inbox PROVE MailOwned'
    BY <1>2, <1>5 DEF MailOwned
  <1>6. ASSUME SameOwner, NEW s \in PhoneSlot, NEW kind,
               Names(s.id, s.phone, s.sid),
               Post(s.phone, [kind |-> kind, id |-> s.id, sid |-> s.sid])
        PROVE  MailOwned'
    <2> DEFINE mail == [kind |-> kind, id |-> s.id, sid |-> s.sid]
    <2>1. CASE at[s.phone] = "ended"
      BY <1>5, <1>6, <2>1 DEF Post
    <2>2. CASE at[s.phone] # "ended"
      <3>1. /\ s.phone \in Phones
            /\ inbox' = [inbox EXCEPT ![s.phone] = Append(@, mail)]
        BY <1>6, <2>2 DEF Post, PhoneSlot
      <3>2. SUFFICES ASSUME NEW q \in Phones, NEW i \in 1..Len(inbox'[q])
                     PROVE  /\ inbox'[q][i].id \in 1..Len(owner')
                            /\ owner'[inbox'[q][i].id] = <<q, inbox'[q][i].sid>>
        BY DEF MailOwned, Names
      <3>3. mail.id = s.id /\ mail.sid = s.sid
        OBVIOUS
      <3> HIDE DEF mail
      <3>4. inbox[q] \in Seq(Mail) /\ inbox[s.phone] \in Seq(Mail)
        BY <3>1 DEF FrontTypeOK
      <3>5. \/ i \in 1..Len(inbox[q]) /\ inbox'[q][i] = inbox[q][i]
            \/ q = s.phone /\ inbox'[q][i] = mail
        BY <3>1, <3>4 DEF FrontTypeOK
      <3>6. Names(inbox'[q][i].id, q, inbox'[q][i].sid)
        BY <1>6, <3>3, <3>5 DEF MailOwned
      <3> QED
        BY <1>6, <3>6 DEF Names
    <2> QED
      BY <2>1, <2>2
  <1>7. ASSUME SameOwner, NEW p \in Phones, inbox[p] # <<>>,
               inbox' = [inbox EXCEPT ![p] = Tail(@)]
        PROVE  MailOwned'
    <2> SUFFICES ASSUME NEW q \in Phones, NEW i \in 1..Len(inbox'[q])
                 PROVE  /\ inbox'[q][i].id \in 1..Len(owner')
                        /\ owner'[inbox'[q][i].id] = <<q, inbox'[q][i].sid>>
      BY DEF MailOwned, Names
    <2>1. inbox[q] \in Seq(Mail)
      BY DEF FrontTypeOK
    <2>2. \E j \in 1..Len(inbox[q]) : inbox'[q][i] = inbox[q][j]
      <3>1. CASE q = p
        BY <1>7, <2>1, <3>1, HeadTailProperties DEF FrontTypeOK
      <3>2. CASE q # p
        BY <1>7, <3>2 DEF FrontTypeOK
      <3> QED
        BY <3>1, <3>2
    <2>3. Names(inbox'[q][i].id, q, inbox'[q][i].sid)
      BY <2>2 DEF MailOwned
    <2> QED
      BY <1>7, <2>3 DEF Names
  <1>8. ASSUME NEW p \in Phones, PhoneConnect(p) PROVE Owned'
    BY <1>1, <1>3, <1>4, <1>5, <1>8 DEF PhoneConnect, phoneVars, slotVars, mailVars
  <1>9. ASSUME NEW p \in Phones, PhoneGone(p) PROVE Owned'
    BY <1>1, <1>3, <1>4, <1>5, <1>9 DEF PhoneGone, phoneVars, slotVars, mailVars
  <1>10. ASSUME NEW p \in Phones, PhoneForward(p) PROVE Owned'
    BY <1>1, <1>3, <1>4, <1>5, <1>10 DEF PhoneForward, phoneVars, slotVars, mailVars
  <1>11. ASSUME NEW p \in Phones, NEW sid \in Sids, PhoneHelloRefused(p, sid) PROVE Owned'
    BY <1>1, <1>3, <1>4, <1>5, <1>11 DEF PhoneHelloRefused, phoneVars, slotVars, mailVars
  <1>12. ASSUME NEW u \in Upstreams, UpConnect(u) PROVE Owned'
    BY <1>1, <1>3, <1>4, <1>5, <1>12 DEF UpConnect, phoneVars, slotVars, mailVars
  <1>13. ASSUME NEW u \in Upstreams, UpSend(u) PROVE Owned'
    BY <1>1, <1>3, <1>4, <1>5, <1>13 DEF UpSend, phoneVars, slotVars, mailVars
  <1>14. ASSUME NEW u \in Upstreams, UpLost(u) PROVE Owned'
    BY <1>1, <1>3, <1>4, <1>5, <1>14 DEF UpLost, phoneVars, slotVars, mailVars
  <1>15. ASSUME NEW u \in Upstreams, MailboxReplies(u) PROVE Owned'
    BY <1>1, <1>3, <1>4, <1>5, <1>15 DEF MailboxReplies, phoneVars, slotVars, mailVars
  <1>16. ASSUME NEW u \in Upstreams, ConnectionDies(u) PROVE Owned'
    BY <1>1, <1>3, <1>4, <1>5, <1>16 DEF ConnectionDies, phoneVars, slotVars, mailVars
  <1>17. ASSUME NEW u \in Upstreams, UpReceive(u) PROVE Owned'
    <2>1. \A v \in Upstreams :
             routes'[v] \union pending'[v] \subseteq routes[v] \union pending[v]
      BY <1>17 DEF UpReceive, FrontTypeOK
    <2> QED
      BY <1>1, <1>3, <1>4, <1>5, <1>17, <2>1 DEF UpReceive, phoneVars, slotVars, mailVars
  <1>18. ASSUME NEW u \in Upstreams, UpDrain(u) PROVE Owned'
    <2>1. \A v \in Upstreams :
             routes'[v] \union pending'[v] \subseteq routes[v] \union pending[v]
      BY <1>18 DEF UpDrain, FrontTypeOK
    <2> QED
      BY <1>1, <1>3, <1>4, <1>5, <1>18, <2>1 DEF UpDrain, phoneVars, slotVars, mailVars
  <1>19. ASSUME NEW p \in Phones, PhoneDeregister(p) PROVE Owned'
    <2>1. \A v \in Upstreams :
             routes'[v] \union pending'[v] \subseteq routes[v] \union pending[v]
      BY <1>19 DEF PhoneDeregister, FrontTypeOK, slotVars
    <2> QED
      BY <1>1, <1>3, <1>4, <1>5, <1>19, <2>1 DEF PhoneDeregister, phoneVars, slotVars, mailVars
  <1>20. ASSUME NEW p \in Phones, NEW sid \in Sids, PhoneBody(p, sid) PROVE Owned'
    <2>1. \A q \in Phones :
             local'[q] \union doing'[q] \subseteq local[q] \union doing[q]
      BY <1>20 DEF PhoneBody, FrontTypeOK
    <2> QED
      BY <1>1, <1>3, <1>4, <1>5, <1>20, <2>1 DEF PhoneBody, phoneVars, slotVars, mailVars
  <1>21. ASSUME NEW p \in Phones, NEW sid \in Sids, PhoneClose(p, sid) PROVE Owned'
    <2>1. \A q \in Phones :
             local'[q] \union doing'[q] \subseteq local[q] \union doing[q]
      BY <1>21 DEF PhoneClose, FrontTypeOK
    <2> QED
      BY <1>1, <1>3, <1>4, <1>5, <1>21, <2>1 DEF PhoneClose, phoneVars, slotVars, mailVars
  <1>22. ASSUME NEW p \in Phones, PhoneReply(p) PROVE Owned'
    BY <1>1, <1>3, <1>4, <1>7, <1>22 DEF PhoneReply, phoneVars, slotVars, mailVars
  <1>23. ASSUME NEW p \in Phones, PhoneLeave(p) PROVE Owned'
    <2>1. CASE local[p] # {}
      <3>1. PICK r \in local[p] : /\ doing' = [doing EXCEPT ![p] = {r}]
                                 /\ local' = [local EXCEPT ![p] = @ \ {r}]
                                 /\ UNCHANGED inbox
        BY <1>23, <2>1 DEF PhoneLeave
      <3>2. \A q \in Phones :
               local'[q] \union doing'[q] \subseteq local[q] \union doing[q]
        BY <3>1 DEF FrontTypeOK
      <3> QED
        BY <1>1, <1>3, <1>4, <1>5, <1>23, <3>1, <3>2 DEF PhoneLeave, slotVars
    <2>2. CASE local[p] = {}
      <3>1. /\ doing' = [doing EXCEPT ![p] = {}]
            /\ inbox' = [inbox EXCEPT ![p] = <<>>]
            /\ UNCHANGED local
        BY <1>23, <2>2 DEF PhoneLeave
      <3>2. \A q \in Phones :
               local'[q] \union doing'[q] \subseteq local[q] \union doing[q]
        BY <3>1 DEF FrontTypeOK
      <3>3. UNCHANGED <<owner, next_id, routes, pending>>
        BY <1>23 DEF PhoneLeave, slotVars
      <3>4. \A q \in Phones : inbox'[q] = inbox[q] \/ inbox'[q] = <<>>
        BY <3>1 DEF FrontTypeOK
      <3>5. MailOwned'
        BY <1>2, <3>3, <3>4 DEF MailOwned
      <3> QED
        BY <1>1, <1>3, <1>4, <3>2, <3>3, <3>5
    <2> QED
      BY <2>1, <2>2
  <1>24. ASSUME NEW p \in Phones, PhoneInsert(p) PROVE Owned'
    <2>1. PICK r \in doing[p] :
             /\ routes' = [routes EXCEPT ![r.up] =
                              @ \union {[id |-> r.id, phone |-> p, sid |-> r.sid]}]
             /\ local' = [local EXCEPT ![p] = @ \union {r}]
      BY <1>24 DEF PhoneInsert
    <2>2. UNCHANGED <<owner, next_id, doing, inbox, pending>>
      BY <1>24 DEF PhoneInsert, slotVars
    <2>3. \A q \in Phones :
             local'[q] \union doing'[q] \subseteq local[q] \union doing[q]
      BY <2>1, <2>2 DEF FrontTypeOK
    <2>4. Names(r.id, p, r.sid)
      BY <2>1 DEF LocalOwned
    <2> DEFINE new == [id |-> r.id, phone |-> p, sid |-> r.sid]
    <2>5. new.id = r.id /\ new.phone = p /\ new.sid = r.sid
      OBVIOUS
    <2>6. \A v \in Upstreams : \A s \in routes'[v] : s \in routes[v] \/ s = new
      BY <2>1 DEF FrontTypeOK
    <2> HIDE DEF new
    <2>7. TableOwned'
      BY <1>2, <2>2, <2>4, <2>5, <2>6 DEF TableOwned
    <2> QED
      BY <1>1, <1>3, <1>5, <2>2, <2>3, <2>7
  <1>25. ASSUME NEW u \in Upstreams, UpDeliver(u) PROVE Owned'
    <2>1. PICK s \in pending[u] :
             Post(s.phone, [kind |-> "reply", id |-> s.id, sid |-> s.sid])
      BY <1>25 DEF UpDeliver
    <2>2. UNCHANGED <<owner, next_id, local, doing, routes>>
      BY <1>25 DEF UpDeliver, phoneVars
    <2>3. s \in PhoneSlot /\ Names(s.id, s.phone, s.sid)
      BY <2>1 DEF FrontTypeOK, TableOwned
    <2>4. MailOwned'
      BY <1>6, <2>1, <2>2, <2>3
    <2>5. \A v \in Upstreams :
             routes'[v] \union pending'[v] \subseteq routes[v] \union pending[v]
      BY <1>25, <2>2 DEF UpDeliver, FrontTypeOK
    <2> QED
      BY <1>1, <1>3, <1>4, <2>2, <2>4, <2>5
  <1>26. ASSUME NEW u \in Upstreams, UpTell(u) PROVE Owned'
    <2>1. UNCHANGED <<owner, next_id, local, doing, routes>>
      BY <1>26 DEF UpTell, phoneVars
    <2>2. CASE pending[u] # {}
      <3>1. PICK s \in pending[u] :
               /\ Post(s.phone, [kind |-> "close", id |-> s.id, sid |-> s.sid])
               /\ pending' = [pending EXCEPT ![u] = @ \ {s}]
        BY <1>26, <2>2 DEF UpTell
      <3>2. s \in PhoneSlot /\ Names(s.id, s.phone, s.sid)
        BY <3>1 DEF FrontTypeOK, TableOwned
      <3>3. MailOwned'
        BY <1>6, <2>1, <3>1, <3>2
      <3>4. \A v \in Upstreams :
               routes'[v] \union pending'[v] \subseteq routes[v] \union pending[v]
        BY <2>1, <3>1 DEF FrontTypeOK
      <3> QED
        BY <1>1, <1>3, <1>4, <2>1, <3>3, <3>4
    <2>3. CASE pending[u] = {}
      <3>1. UNCHANGED <<pending, inbox>>
        BY <1>26, <2>3 DEF UpTell
      <3> QED
        BY <1>1, <1>3, <1>4, <1>5, <2>1, <3>1
    <2> QED
      BY <2>2, <2>3
  <1>27. ASSUME NEW p \in Phones, NEW sid \in Sids, PhoneHello(p, sid) PROVE Owned'
    <2>1. /\ owner \in Seq(Phones \X Sids) /\ next_id \in Nat
          /\ owner' = Append(owner, <<p, sid>>)
          /\ Len(owner) = next_id /\ next_id' = next_id + 1
      BY <1>27 DEF PhoneHello, FrontTypeOK, Counted
    <2>2. /\ Len(owner') = next_id'
          /\ owner'[next_id + 1] = <<p, sid>>
          /\ \A i \in 1..Len(owner) : owner'[i] = owner[i]
      BY <2>1, AppendProperties
    <2>3. ASSUME NEW i, NEW q, NEW t, Names(i, q, t) PROVE Names(i, q, t)'
      BY <2>1, <2>2, <2>3 DEF Names
    <2>4. ASSUME NEW i, i = next_id + 1 PROVE Names(i, p, sid)'
      BY <2>1, <2>2, <2>4 DEF Names
    <2>5. LocalOwned'
      <3>1. PICK new : /\ new.sid = sid /\ new.id = next_id + 1
                       /\ doing' = [doing EXCEPT ![p] = {new}]
        BY <1>27 DEF PhoneHello
      <3>2. \A q \in Phones : \A r \in local'[q] \union doing'[q] :
               r \in local[q] \union doing[q] \/ (q = p /\ r = new)
        BY <1>27, <3>1 DEF PhoneHello, FrontTypeOK
      <3>3. Names(new.id, p, new.sid)'
        BY <2>4, <3>1
      <3> QED
        BY <2>3, <3>2, <3>3 DEF LocalOwned
    <2>6. TableOwned' /\ MailOwned'
      BY <1>27, <2>3 DEF PhoneHello, TableOwned, MailOwned, slotVars
    <2> QED
      BY <2>2, <2>5, <2>6 DEF Counted
  <1>29. ASSUME NEW u \in Upstreams, UpRefused(u) \/ UpAwake(u) PROVE Owned'
    BY <1>1, <1>3, <1>4, <1>5, <1>29 DEF UpRefused, UpAwake, phoneVars, slotVars, mailVars
  <1>28. ASSUME UNCHANGED vars PROVE Owned'
    BY <1>1, <1>3, <1>4, <1>5, <1>28 DEF vars, phoneVars, slotVars, mailVars
  <1> QED
    BY <1>8, <1>9, <1>10, <1>11, <1>12, <1>13, <1>14, <1>15, <1>16, <1>17, <1>18, <1>19, <1>20, <1>21, <1>22, <1>23, <1>24, <1>25, <1>26, <1>27, <1>28, <1>29 DEF Next, PhoneAsks, PhoneContinues, SlotContinues

-----------------------------------------------------------------------------
(* Routes and the phones that hold them.                                   *)

\* The session a table entry stands for, as its phone's task writes it.
AsRoute(u, s) == [sid |-> s.sid, up |-> u, id |-> s.id]

\* A task in the middle of a session's step is about exactly one session.
OneAtATime ==
    \A p \in Phones : at[p] \in {"close", "deregister"} => \E r : doing[p] = {r}

\* Whatever a table holds, its phone's task still holds, or is just closing.
RoutesHeld ==
    \A u \in Upstreams : \A s \in routes[u] :
        \/ AsRoute(u, s) \in local[s.phone]
        \/ at[s.phone] \in {"close", "deregister"} /\ AsRoute(u, s) \in doing[s.phone]

EndedHoldsNothing == \A p \in Phones : at[p] = "ended" => local[p] = {}

Held == OneAtATime /\ RoutesHeld /\ EndedHoldsNothing

LEMMA HeldKept ==
  ASSUME FrontTypeOK, Held, [Next]_vars
  PROVE  Held'
  <1> USE DEF Held
  <1>1. \A u \in Upstreams : \A s \in routes[u] : s.phone \in Phones
    BY DEF FrontTypeOK, PhoneSlot
  <1>2. ASSUME NEW p \in Phones, at[p] \notin {"close", "deregister"},
               UNCHANGED <<routes, local>>,
               \A q \in Phones : q # p => at'[q] = at[q] /\ doing'[q] = doing[q]
        PROVE  RoutesHeld'
    BY <1>1, <1>2 DEF RoutesHeld
  <1>3. ASSUME NEW p \in Phones, PhoneConnect(p) PROVE Held'
    <2>1. OneAtATime'
      BY <1>3 DEF PhoneConnect, OneAtATime, FrontTypeOK
    <2>2. RoutesHeld'
      BY <1>2, <1>3 DEF PhoneConnect, FrontTypeOK
    <2>3. EndedHoldsNothing'
      BY <1>3 DEF PhoneConnect, EndedHoldsNothing, FrontTypeOK
    <2> QED
      BY <2>1, <2>2, <2>3
  <1>4. ASSUME NEW p \in Phones, PhoneGone(p) PROVE Held'
    <2>1. OneAtATime'
      BY <1>4 DEF PhoneGone, OneAtATime, FrontTypeOK
    <2>2. RoutesHeld'
      BY <1>2, <1>4 DEF PhoneGone, FrontTypeOK
    <2>3. EndedHoldsNothing'
      BY <1>4 DEF PhoneGone, EndedHoldsNothing, FrontTypeOK
    <2> QED
      BY <2>1, <2>2, <2>3
  <1>5. ASSUME NEW p \in Phones, PhoneReply(p) PROVE Held'
    <2>1. OneAtATime'
      BY <1>5 DEF PhoneReply, OneAtATime, FrontTypeOK
    <2>2. RoutesHeld'
      BY <1>2, <1>5 DEF PhoneReply, FrontTypeOK
    <2>3. EndedHoldsNothing'
      BY <1>5 DEF PhoneReply, EndedHoldsNothing, FrontTypeOK
    <2> QED
      BY <2>1, <2>2, <2>3
  <1>6. ASSUME NEW p \in Phones, NEW sid \in Sids, PhoneHello(p, sid) PROVE Held'
    <2>1. OneAtATime'
      BY <1>6 DEF PhoneHello, OneAtATime, FrontTypeOK
    <2>2. RoutesHeld'
      BY <1>2, <1>6 DEF PhoneHello, FrontTypeOK
    <2>3. EndedHoldsNothing'
      BY <1>6 DEF PhoneHello, EndedHoldsNothing, FrontTypeOK
    <2> QED
      BY <2>1, <2>2, <2>3
  <1>7. ASSUME NEW p \in Phones, NEW sid \in Sids, PhoneHelloRefused(p, sid) PROVE Held'
    <2>1. OneAtATime'
      BY <1>7 DEF PhoneHelloRefused, OneAtATime, FrontTypeOK
    <2>2. RoutesHeld'
      BY <1>2, <1>7 DEF PhoneHelloRefused, FrontTypeOK
    <2>3. EndedHoldsNothing'
      BY <1>7 DEF PhoneHelloRefused, EndedHoldsNothing, FrontTypeOK
    <2> QED
      BY <2>1, <2>2, <2>3
  <1>8. ASSUME NEW p \in Phones, NEW sid \in Sids, PhoneBody(p, sid) PROVE Held'
    <2>1. OneAtATime'
      BY <1>8 DEF PhoneBody, OneAtATime, FrontTypeOK
    <2>2. RoutesHeld'
      BY <1>2, <1>8 DEF PhoneBody, FrontTypeOK
    <2>3. EndedHoldsNothing'
      BY <1>8 DEF PhoneBody, EndedHoldsNothing, FrontTypeOK
    <2> QED
      BY <2>1, <2>2, <2>3
  <1>9. ASSUME NEW p \in Phones, PhoneForward(p) PROVE Held'
    <2>1. OneAtATime'
      BY <1>9 DEF PhoneForward, OneAtATime, FrontTypeOK
    <2>2. RoutesHeld'
      <3>1. /\ UNCHANGED <<routes, local, doing>>
            /\ \A q \in Phones : at[q] \in {"close", "deregister"} =>
                                 at'[q] \in {"close", "deregister"}
        BY <1>9 DEF PhoneForward, FrontTypeOK
      <3> QED
        BY <1>1, <3>1 DEF RoutesHeld
    <2>3. EndedHoldsNothing'
      BY <1>9 DEF PhoneForward, EndedHoldsNothing, FrontTypeOK
    <2> QED
      BY <2>1, <2>2, <2>3
  <1>10. ASSUME NEW p \in Phones, PhoneInsert(p) PROVE Held'
    <2>1. OneAtATime'
      BY <1>10 DEF PhoneInsert, OneAtATime, FrontTypeOK
    <2>2. RoutesHeld'
      <3>1. PICK r \in doing[p] :
               /\ routes' = [routes EXCEPT ![r.up] =
                                @ \union {[id |-> r.id, phone |-> p, sid |-> r.sid]}]
               /\ local' = [local EXCEPT ![p] = @ \union {r}]
        BY <1>10 DEF PhoneInsert
      <3> DEFINE new == [id |-> r.id, phone |-> p, sid |-> r.sid]
      <3>2. r \in Route
        BY <3>1 DEF FrontTypeOK
      <3>3. AsRoute(r.up, new) = r /\ new.phone = p
        BY <3>2 DEF AsRoute, Route
      <3>4. \A u \in Upstreams : \A s \in routes'[u] :
               s \in routes[u] \/ (u = r.up /\ s = new)
        BY <3>1 DEF FrontTypeOK
      <3> HIDE DEF new
      <3>5. r \in local'[p] /\ \A q \in Phones : local[q] \subseteq local'[q]
        BY <3>1 DEF FrontTypeOK
      <3>6. /\ at[p] = "insert"
            /\ \A q \in Phones : q # p => at'[q] = at[q] /\ doing'[q] = doing[q]
        BY <1>10 DEF PhoneInsert, FrontTypeOK
      <3>7. SUFFICES ASSUME NEW u \in Upstreams, NEW s \in routes'[u]
                     PROVE  \/ AsRoute(u, s) \in local'[s.phone]
                            \/ /\ at'[s.phone] \in {"close", "deregister"}
                               /\ AsRoute(u, s) \in doing'[s.phone]
        BY DEF RoutesHeld
      <3>8. CASE s \in routes[u]
        BY <1>1, <3>5, <3>6, <3>8 DEF RoutesHeld
      <3>9. CASE u = r.up /\ s = new
        BY <3>3, <3>5, <3>9
      <3> QED
        BY <3>4, <3>8, <3>9
    <2>3. EndedHoldsNothing'
      BY <1>10 DEF PhoneInsert, EndedHoldsNothing, FrontTypeOK
    <2> QED
      BY <2>1, <2>2, <2>3
  <1>11. ASSUME NEW p \in Phones, PhoneDeregister(p) PROVE Held'
    <2>1. OneAtATime'
      BY <1>11 DEF PhoneDeregister, OneAtATime, FrontTypeOK
    <2>2. RoutesHeld'
      <3>1. PICK r \in doing[p] : routes' = [routes EXCEPT ![r.up] = {s \in @ : s.id # r.id}]
        BY <1>11 DEF PhoneDeregister
      <3>2. doing[p] = {r}
        BY <1>11, <3>1 DEF PhoneDeregister, OneAtATime
      <3>3. /\ UNCHANGED local
            /\ \A q \in Phones : q # p => at'[q] = at[q] /\ doing'[q] = doing[q]
        BY <1>11 DEF PhoneDeregister, FrontTypeOK
      <3>4. SUFFICES ASSUME NEW u \in Upstreams, NEW s \in routes'[u]
                     PROVE  \/ AsRoute(u, s) \in local'[s.phone]
                            \/ /\ at'[s.phone] \in {"close", "deregister"}
                               /\ AsRoute(u, s) \in doing'[s.phone]
        BY DEF RoutesHeld
      <3>5. s \in routes[u] /\ (u = r.up => s.id # r.id)
        BY <3>1 DEF FrontTypeOK
      <3>6. AsRoute(u, s) # r
        BY <3>5 DEF AsRoute
      <3> QED
        BY <1>1, <3>2, <3>3, <3>5, <3>6 DEF RoutesHeld
    <2>3. EndedHoldsNothing'
      BY <1>11 DEF PhoneDeregister, EndedHoldsNothing, FrontTypeOK
    <2> QED
      BY <2>1, <2>2, <2>3
  <1>12. ASSUME NEW p \in Phones, NEW sid \in Sids, PhoneClose(p, sid) PROVE Held'
    <2>1. OneAtATime'
      <3>1. \A q \in Phones : q # p => at'[q] = at[q] /\ doing'[q] = doing[q]
        BY <1>12 DEF PhoneClose, FrontTypeOK
      <3>2. \E r : doing'[p] = {r}
        BY <1>12 DEF PhoneClose, FrontTypeOK
      <3> QED BY <3>1, <3>2 DEF OneAtATime
    <2>2. RoutesHeld'
      <3>1. PICK r \in local[p] :
               /\ doing' = [doing EXCEPT ![p] = {r}]
               /\ local' = [local EXCEPT ![p] = @ \ {r}]
               /\ at' = [at EXCEPT ![p] = "close"]
        BY <1>12 DEF PhoneClose
      <3>2. /\ at'[p] = "close" /\ doing'[p] = {r} /\ local'[p] = local[p] \ {r}
            /\ UNCHANGED routes
            /\ \A q \in Phones : q # p =>
                  at'[q] = at[q] /\ doing'[q] = doing[q] /\ local'[q] = local[q]
        BY <1>12, <3>1 DEF PhoneClose, FrontTypeOK
      <3>3. at[p] \notin {"close", "deregister"}
        BY <1>12 DEF PhoneClose
      <3> QED
        BY <1>1, <3>2, <3>3 DEF RoutesHeld
    <2>3. EndedHoldsNothing'
      BY <1>12 DEF PhoneClose, EndedHoldsNothing, FrontTypeOK
    <2> QED
      BY <2>1, <2>2, <2>3
  <1>13. ASSUME NEW p \in Phones, PhoneLeave(p) PROVE Held'
    <2>1. OneAtATime'
      <3>1. \A q \in Phones : q # p => at'[q] = at[q] /\ doing'[q] = doing[q]
        BY <1>13 DEF PhoneLeave, FrontTypeOK
      <3>2. at'[p] = "ended" \/ \E r : doing'[p] = {r}
        BY <1>13 DEF PhoneLeave, FrontTypeOK
      <3> QED BY <3>1, <3>2 DEF OneAtATime
    <2>2. RoutesHeld'
      <3>1. CASE local[p] # {}
        <4>1. PICK r \in local[p] :
                 /\ doing' = [doing EXCEPT ![p] = {r}]
                 /\ local' = [local EXCEPT ![p] = @ \ {r}]
                 /\ at' = [at EXCEPT ![p] = "close"]
          BY <1>13, <3>1 DEF PhoneLeave
        <4>2. /\ at'[p] = "close" /\ doing'[p] = {r} /\ local'[p] = local[p] \ {r}
              /\ UNCHANGED routes
              /\ \A q \in Phones : q # p =>
                    at'[q] = at[q] /\ doing'[q] = doing[q] /\ local'[q] = local[q]
          BY <1>13, <4>1 DEF PhoneLeave, FrontTypeOK
        <4>3. at[p] \notin {"close", "deregister"}
          BY <1>13 DEF PhoneLeave
        <4> QED
          BY <1>1, <4>2, <4>3 DEF RoutesHeld
      <3>2. CASE local[p] = {}
        <4>1. /\ UNCHANGED <<routes, local>> /\ at[p] = "leaving"
              /\ \A q \in Phones : q # p => at'[q] = at[q] /\ doing'[q] = doing[q]
          BY <1>13, <3>2 DEF PhoneLeave, FrontTypeOK
        <4> QED
          BY <1>2, <4>1
      <3> QED
        BY <3>1, <3>2
    <2>3. EndedHoldsNothing'
      BY <1>13 DEF PhoneLeave, EndedHoldsNothing, FrontTypeOK
    <2> QED
      BY <2>1, <2>2, <2>3
  <1>14. ASSUME NEW u \in Upstreams, UpConnect(u) PROVE Held'
    BY <1>14 DEF UpConnect, OneAtATime, RoutesHeld, EndedHoldsNothing, phoneVars
  <1>15. ASSUME NEW u \in Upstreams, UpSend(u) PROVE Held'
    BY <1>15 DEF UpSend, OneAtATime, RoutesHeld, EndedHoldsNothing, phoneVars
  <1>16. ASSUME NEW u \in Upstreams, UpReceive(u) PROVE Held'
    BY <1>16 DEF UpReceive, OneAtATime, RoutesHeld, EndedHoldsNothing, phoneVars
  <1>17. ASSUME NEW u \in Upstreams, UpDeliver(u) PROVE Held'
    BY <1>17 DEF UpDeliver, OneAtATime, RoutesHeld, EndedHoldsNothing, phoneVars
  <1>18. ASSUME NEW u \in Upstreams, UpLost(u) PROVE Held'
    BY <1>18 DEF UpLost, OneAtATime, RoutesHeld, EndedHoldsNothing, phoneVars
  <1>19. ASSUME NEW u \in Upstreams, UpTell(u) PROVE Held'
    BY <1>19 DEF UpTell, OneAtATime, RoutesHeld, EndedHoldsNothing, phoneVars
  <1>20. ASSUME NEW u \in Upstreams, MailboxReplies(u) PROVE Held'
    BY <1>20 DEF MailboxReplies, OneAtATime, RoutesHeld, EndedHoldsNothing, phoneVars
  <1>21. ASSUME NEW u \in Upstreams, ConnectionDies(u) PROVE Held'
    BY <1>21 DEF ConnectionDies, OneAtATime, RoutesHeld, EndedHoldsNothing, phoneVars
  <1>22. ASSUME NEW u \in Upstreams, UpDrain(u) PROVE Held'
    BY <1>22 DEF UpDrain, OneAtATime, RoutesHeld, EndedHoldsNothing, FrontTypeOK, phoneVars
  <1>24. ASSUME NEW u \in Upstreams, UpRefused(u) \/ UpAwake(u) PROVE Held'
    BY <1>24 DEF UpRefused, UpAwake, OneAtATime, RoutesHeld, EndedHoldsNothing, phoneVars
  <1>23. ASSUME UNCHANGED vars PROVE Held'
    BY <1>23 DEF vars, phoneVars, OneAtATime, RoutesHeld, EndedHoldsNothing
  <1> QED
    BY <1>3, <1>4, <1>5, <1>6, <1>7, <1>8, <1>9, <1>10, <1>11, <1>12, <1>13, <1>14, <1>15, <1>16, <1>17, <1>18, <1>19, <1>20, <1>21, <1>22, <1>23, <1>24 DEF Next, PhoneAsks, PhoneContinues, SlotContinues

-----------------------------------------------------------------------------
(* The theorems.                                                           *)

\* The types, and the owner of every place a session is named in, are kept.
LEMMA FrontInductive == Spec => [](FrontTypeOK /\ Owned)
  <1>1. Init => FrontTypeOK /\ Owned
    BY FrontInitTyped DEF Init, Owned, Counted, LocalOwned, TableOwned, MailOwned
  <1>2. (FrontTypeOK /\ Owned) /\ [Next]_vars => (FrontTypeOK /\ Owned)'
    BY FrontTypesKept, OwnedKept
  <1> QED
    BY <1>1, <1>2, PTL DEF Spec

\* The front's tables and slots keep their types, and no channel holds more than it
\* has room for, through lost and reopened connections.
THEOREM FrontTypes == Spec => []FrontTypeOK
  BY FrontInductive, PTL

\* What a slot queues for a phone is always a reply to a session that phone
\* opened, under the id it chose: the rewriting of ids never crosses two phones.
THEOREM FrontNeverCrosses == Spec => []NoCrossing
  <1>1. Owned => NoCrossing
    BY DEF Owned, MailOwned, Names, NoCrossing
  <1> QED
    BY <1>1, FrontInductive, PTL

\* Once serve_phone has returned, no slot's table names that phone.
THEOREM NothingLeftBehind == Spec => []EndedPhoneHasNoRoute
  <1>1. Init => FrontTypeOK /\ Held
    BY FrontInitTyped DEF Init, Held, OneAtATime, RoutesHeld, EndedHoldsNothing
  <1>2. (FrontTypeOK /\ Held) /\ [Next]_vars => (FrontTypeOK /\ Held)'
    BY FrontTypesKept, HeldKept
  <1>3. FrontTypeOK /\ Held => EndedPhoneHasNoRoute
    <2>1. FrontTypeOK => \A u \in Upstreams : \A s \in routes[u] : s.phone \in Phones
      BY DEF FrontTypeOK, PhoneSlot
    <2> QED
      BY <2>1 DEF Held, RoutesHeld, EndedHoldsNothing, EndedPhoneHasNoRoute
  <1> QED
    BY <1>1, <1>2, <1>3, PTL DEF Spec
=============================================================================
