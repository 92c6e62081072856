----------------------------- MODULE MediaProofs -----------------------------
(***************************************************************************)
(* Proofs about Media, for every window, history and number of frames.     *)
(***************************************************************************)
EXTENDS Media, FiniteSetTheorems, WellFoundedInduction, TLAPS

\* A counter is spent exactly when the window has it: it is the highest, it
\* left the window, or its bit is set.
LEMMA SpentIs ==
    ASSUME MediaTypeOK
    PROVE  /\ Spent \subseteq Counters
           /\ \A c \in Counters :
                 c \in Spent <=> /\ started
                                 /\ c <= highest
                                 /\ \/ c = highest
                                    \/ highest - c >= REPLAY_WINDOW
                                    \/ highest - c - 1 \in seen
  BY MediaAssumption DEF Spent, CheckReplay, Behind, MediaTypeOK, Counters

\* Recording a counter that passed the check spends it, keeps everything spent,
\* and gives up nothing but what it leaves a whole window behind.
LEMMA RecordSpends ==
    ASSUME MediaTypeOK, MediaTypeOK', NEW c \in Counters, CheckReplay(c), Record(c)
    PROVE  /\ c \notin Spent
           /\ Spent \union {c} \subseteq Spent'
           /\ \A m \in Spent' \ (Spent \union {c}) : OutOfWindow(m, c)
  <1>0. /\ c \in Nat
        /\ highest \in Nat
        /\ REPLAY_WINDOW \in Nat \ {0}
    BY MediaAssumption DEF MediaTypeOK, Counters
  <1>1. c \notin Spent
    BY SpentIs DEF Spent
  <1>2. CASE ~started
    <2>1. started' /\ highest' = c /\ seen' = {}
      BY <1>2 DEF Record
    <2>2. \A m \in Counters : m \in Spent' => m = c \/ c - m >= REPLAY_WINDOW
      BY <2>1, <1>0 DEF Spent, CheckReplay, Behind, Counters
    <2>3. c \in Spent'
      BY <2>1, <1>0 DEF Spent, CheckReplay, Behind, Counters
    <2>4. Spent = {}
      BY <1>2 DEF Spent
    <2> QED
      BY <1>0, <1>1, <2>2, <2>3, <2>4 DEF OutOfWindow, Spent, Counters
  <1>3. CASE started /\ c > highest
    <2>1. /\ started'
          /\ highest' = c
          /\ seen' = Slide(seen, c - highest)
      BY <1>3 DEF Record
    <2>2. \A b \in 0..(REPLAY_WINDOW - 1) :
             b \in seen' <=> /\ c - highest < REPLAY_WINDOW
                             /\ b - (c - highest) \in seen \/ b = c - highest - 1
      BY <2>1, <1>0, <1>3 DEF Slide
    <2>3. seen \subseteq 0..(REPLAY_WINDOW - 1)
      BY DEF MediaTypeOK
    <2>4. \A m \in Counters :
             m \in Spent' <=> \/ m = c
                              \/ c - m >= REPLAY_WINDOW
                              \/ m < c /\ c - m - 1 \in seen'
      BY <2>1, <2>2, <1>0 DEF Spent, CheckReplay, Behind, Counters, MediaTypeOK
    <2>5. \A m \in Counters : m \in Spent => m \in Spent'
      <3> SUFFICES ASSUME NEW m \in Counters, m \in Spent, c - m < REPLAY_WINDOW, m # c
                   PROVE  m < c /\ c - m - 1 \in seen'
        BY <2>4, <1>0 DEF Counters
      <3>1. /\ m <= highest
            /\ \/ m = highest
               \/ highest - m >= REPLAY_WINDOW
               \/ highest - m - 1 \in seen
        BY SpentIs
      <3> QED
        BY <3>1, <2>2, <1>0, <1>3 DEF Counters
    <2>6. \A m \in Counters : m \in Spent' /\ m # c /\ m \notin Spent
                                 => m + REPLAY_WINDOW <= c
      <3> SUFFICES ASSUME NEW m \in Counters, m \in Spent', m # c, m \notin Spent,
                          c - m < REPLAY_WINDOW
                   PROVE  FALSE
        BY <1>0 DEF Counters
      <3>1. m < c /\ c - m - 1 \in seen'
        BY <2>4, <1>0 DEF Counters
      <3>2. \/ c - m - 1 - (c - highest) \in seen
            \/ c - m - 1 = c - highest - 1
        BY <3>1, <2>2, <1>0 DEF Counters
      <3> QED
        BY <3>2, <2>3, <1>0, <1>3, SpentIs DEF Counters
    <2>7. c \in Spent'
      BY <2>4
    <2> QED
      BY <1>1, <2>5, <2>6, <2>7 DEF OutOfWindow, Spent
  <1>4. CASE started /\ ~(c > highest)
    <2>1. /\ started'
          /\ highest' = highest
          /\ highest - c \in 1..(REPLAY_WINDOW - 1)
          /\ seen' = seen \union {highest - c - 1}
      BY <1>4, <1>0 DEF Record, CheckReplay, Behind
    <2>2. \A m \in Counters : m \in Spent' <=> m \in Spent \/ m = c
      BY <2>1, <1>0, <1>4, MediaAssumption DEF Spent, CheckReplay, Behind, Counters, MediaTypeOK
    <2> QED
      BY <1>1, <2>2 DEF Spent
  <1> QED
    BY <1>2, <1>3, <1>4

-----------------------------------------------------------------------------
(* The invariant.                                                          *)

\* Nothing is in the buffer, played or discarded that the window would take
\* again.
AcceptedIsSpent == frames \union played \union late \subseteq Spent

\* Until playback starts every frame is still buffered and the lowest one seen
\* is among them.
BeforePlayback ==
    ~playing =>
        /\ played = {} /\ missed = {} /\ late = {}
        /\ frames = {} => lowestSeen = NONE
        /\ frames # {} => lowestSeen \in frames /\ \A c \in frames : lowestSeen <= c

\* Playback is past every slot it has handed out or given up.
PastSlots == \A d \in played \union missed : d < next

MediaInv ==
    /\ MediaTypeOK
    /\ AcceptedIsSpent
    /\ BeforePlayback
    /\ PastSlots
    /\ SlotsAccountedFor

LEMMA MediaInitial == Init => MediaInv
  <1> SUFFICES ASSUME Init PROVE MediaInv
    OBVIOUS
  <1>1. MediaTypeOK
    <2>1. counter \in 0..MaxFrames /\ highest \in Nat /\ next \in Nat
      BY MediaAssumption DEF Init
    <2>2. started \in BOOLEAN /\ playing \in BOOLEAN
      BY DEF Init
    <2> QED
      BY <2>1, <2>2 DEF Init, MediaTypeOK
  <1>2. AcceptedIsSpent /\ BeforePlayback /\ PastSlots
    BY DEF Init, AcceptedIsSpent, BeforePlayback, PastSlots
  <1>3. SlotsAccountedFor
    BY DEF Init, SlotsAccountedFor
  <1> QED
    BY <1>1, <1>2, <1>3 DEF MediaInv

\* A step that leaves the receiver and the buffer alone.
LEMMA QuietStep ==
    ASSUME MediaInv, MediaTypeOK', UNCHANGED <<receiver, buffer>>
    PROVE  MediaInv'
  BY DEF MediaInv, AcceptedIsSpent, BeforePlayback, PastSlots, SlotsAccountedFor,
     receiver, buffer, Spent, CheckReplay, Behind

\* Receiver::record keeps the types.
LEMMA RecordTypes ==
    ASSUME MediaTypeOK, NEW c \in Counters, Record(c)
    PROVE  /\ started' \in BOOLEAN /\ highest' \in Nat
           /\ seen' \subseteq 0..(REPLAY_WINDOW - 1) /\ accepted' \subseteq Counters
  <1>1. started' \in BOOLEAN /\ highest' \in Nat /\ accepted' \subseteq Counters
    BY DEF Record, MediaTypeOK, Counters
  <1>2. CASE started /\ c > highest
    <2>1. seen' = Slide(seen, c - highest)
      BY <1>2 DEF Record
    <2> QED
      BY <1>1, <2>1, <1>2, MediaAssumption DEF Slide, MediaTypeOK, Counters
  <1>3. CASE started /\ ~(c > highest)
    <2>1. \/ seen' = seen
          \/ highest - c \in 1..(REPLAY_WINDOW - 1) /\ seen' = seen \union {highest - c - 1}
      BY <1>3 DEF Record, Behind
    <2>2. highest - c \in Int /\ REPLAY_WINDOW \in Nat
      BY MediaAssumption DEF MediaTypeOK, Counters
    <2>3. highest - c \in 1..(REPLAY_WINDOW - 1) => highest - c - 1 \in 0..(REPLAY_WINDOW - 1)
      BY <2>2
    <2> QED
      BY <1>1, <2>1, <2>3 DEF MediaTypeOK
  <1>4. CASE ~started
    BY <1>1, <1>4 DEF Record
  <1> QED
    BY <1>2, <1>3, <1>4

\* A datagram that is accepted was in none of the buffer's sets, and goes to
\* exactly one of them.
LEMMA AcceptKeeps ==
    ASSUME MediaInv, NEW c \in Counters, CheckReplay(c), Record(c), Push(c),
           UNCHANGED out, wire' \in {wire, wire \ {c}}
    PROVE  MediaInv'
  <1>1. MediaTypeOK'
    <2>1. /\ started' \in BOOLEAN /\ highest' \in Nat
          /\ seen' \subseteq 0..(REPLAY_WINDOW - 1) /\ accepted' \subseteq Counters
      BY RecordTypes DEF MediaInv
    <2> QED
      BY <2>1 DEF MediaInv, MediaTypeOK, Push, out
  <1>2. /\ c \notin Spent
        /\ Spent \union {c} \subseteq Spent'
    BY <1>1, RecordSpends DEF MediaInv
  <1>3. c \notin frames \union played \union late
    BY <1>2 DEF MediaInv, AcceptedIsSpent
  <1>4. AcceptedIsSpent'
    BY <1>2 DEF MediaInv, AcceptedIsSpent, Push
  <1>5. BeforePlayback'
    <2> SUFFICES ASSUME ~playing'
                 PROVE  /\ played' = {} /\ missed' = {} /\ late' = {}
                        /\ lowestSeen' \in frames' /\ \A d \in frames' : lowestSeen' <= d
      BY DEF BeforePlayback, Push
    <2>1. ~playing /\ frames' = frames \union {c} /\ UNCHANGED <<played, missed, late>>
      BY DEF Push
    <2>2. /\ played = {} /\ missed = {} /\ late = {}
          /\ frames # {} => lowestSeen \in frames /\ \A d \in frames : lowestSeen <= d
      BY <2>1 DEF MediaInv, BeforePlayback
    <2>3. lowestSeen' = IF c < lowestSeen THEN c ELSE lowestSeen
      BY DEF Push
    <2>4. /\ lowestSeen \in Nat
          /\ frames \subseteq Nat
          /\ c \in Nat
      BY MediaAssumption DEF MediaInv, MediaTypeOK, Counters, NONE
    <2>5. CASE frames = {}
      <3>1. c < lowestSeen
        BY <2>1, <2>5, MediaAssumption DEF MediaInv, BeforePlayback, NONE, Counters
      <3> QED
        BY <3>1, <2>1, <2>2, <2>3, <2>4, <2>5
    <2>6. CASE frames # {}
      BY <2>1, <2>2, <2>3, <2>4, <2>6
    <2> QED
      BY <2>5, <2>6
  <1>6. PastSlots'
    BY DEF MediaInv, PastSlots, Push
  <1>7. c \in missed => playing /\ c < next
    BY DEF MediaInv, BeforePlayback, PastSlots
  <1>8. SlotsAccountedFor'
    <2>1. /\ UNCHANGED <<playing, next, played, missed>>
          /\ \/ playing /\ c < next /\ late' = late \union {c} /\ frames' = frames
             \/ ~(playing /\ c < next) /\ frames' = frames \union {c} /\ late' = late
      BY DEF Push
    <2>2. /\ (played \intersect missed)' = {}
          /\ (frames \intersect (played \union missed \union late))' = {}
          /\ (late \intersect played)' = {}
      BY <2>1, <1>3, <1>7 DEF MediaInv, SlotsAccountedFor
    <2>3. ASSUME playing', NEW d \in Counters
          PROVE  /\ d \in frames' => d >= next'
                 /\ d \in late' => d < next'
      BY <2>1, <2>3 DEF MediaInv, SlotsAccountedFor, MediaTypeOK, Counters
    <2>4. ASSUME playing', NEW d \in Counters, (\E e \in played' \union missed' : e <= d),
                 d < next'
          PROVE  d \in played' \union missed'
      BY <2>1, <2>4 DEF MediaInv, SlotsAccountedFor
    <2>5. (accepted = frames \union played \union late)'
      BY <2>1 DEF MediaInv, SlotsAccountedFor, Record
    <2> QED
      BY <2>2, <2>3, <2>4, <2>5 DEF SlotsAccountedFor
  <1> QED
    BY <1>1, <1>4, <1>5, <1>6, <1>8 DEF MediaInv

\* The slot playback turns to is a counter before everything buffered and after
\* everything handed out or given up.
LEMMA NextSlot ==
    ASSUME MediaInv, frames # {}, NEW slot, slot = (IF playing THEN next ELSE Start)
    PROVE  /\ slot \in Counters
           /\ \A c \in frames : slot <= c
           /\ \A d \in played \union missed : d < slot
           /\ playing => slot = next
           /\ ~playing => played = {} /\ missed = {} /\ late = {}
  <1>0. /\ frames \subseteq Counters
        /\ Counters \subseteq Nat
        /\ \A n \in Nat, c \in Counters : n <= c => n \in Counters
    BY MediaAssumption DEF MediaInv, MediaTypeOK, Counters
  <1>1. CASE playing
    BY <1>0, <1>1 DEF MediaInv, MediaTypeOK, PastSlots, SlotsAccountedFor
  <1>2. CASE ~playing
    <2>1. lowestSeen \in frames /\ \A c \in frames : lowestSeen <= c
      BY <1>2 DEF MediaInv, BeforePlayback
    <2>2. Least(frames) \in frames /\ \A c \in frames : Least(frames) <= c
      BY <2>1 DEF Least
    <2>3. slot \in frames /\ \A c \in frames : slot <= c
      BY <1>2, <2>1, <2>2 DEF Start
    <2> QED
      BY <1>0, <1>2, <2>3 DEF MediaInv, BeforePlayback
  <1> QED
    BY <1>1, <1>2

LEMMA PopKeeps ==
    ASSUME MediaInv, frames # {}, NEW slot, slot = (IF playing THEN next ELSE Start),
           PopSlot(slot), UNCHANGED <<out, wire, receiver>>
    PROVE  MediaInv'
  <1>0. /\ slot \in Counters
        /\ \A c \in frames : slot <= c
        /\ \A d \in played \union missed : d < slot
        /\ playing => slot = next
        /\ ~playing => played = {} /\ missed = {} /\ late = {}
    BY NextSlot
  <1>1. playing' /\ UNCHANGED <<lowestSeen, target, late>>
    BY DEF PopSlot
  <1>2. \/ /\ slot \in frames /\ next' = slot + 1 /\ frames' = frames \ {slot}
           /\ played' = played \union {slot} /\ missed' = missed
        \/ /\ slot \notin frames /\ next' = slot
           /\ frames' = frames /\ played' = played /\ missed' = missed
        \/ /\ slot \notin frames /\ next' = slot + 1
           /\ frames' = frames /\ played' = played /\ missed' = missed \union {slot}
    BY DEF PopSlot
  <1>3. frames \union played \union missed \union late \subseteq Counters
    BY DEF MediaInv, MediaTypeOK
  <1>4. Counters \subseteq Nat
    BY DEF Counters
  <1>5. MediaTypeOK'
    <2>1. next' \in Nat /\ slot \in Nat
      BY <1>0, <1>2, <1>4
    <2>2. frames' \subseteq Counters /\ played' \subseteq Counters /\ missed' \subseteq Counters
      BY <1>0, <1>2, <1>3
    <2>3. playing' \in BOOLEAN
      BY DEF PopSlot
    <2> QED
      BY <1>1, <2>1, <2>2, <2>3 DEF MediaInv, MediaTypeOK, out, receiver
  <1>6. AcceptedIsSpent'
    <2>1. Spent' = Spent
      BY DEF receiver, Spent, CheckReplay, Behind
    <2> QED
      BY <2>1, <1>1, <1>2 DEF MediaInv, AcceptedIsSpent
  <1>7. BeforePlayback'
    BY <1>1 DEF BeforePlayback
  <1>8. PastSlots'
    <2> SUFFICES ASSUME NEW d \in played' \union missed' PROVE d < next'
      BY DEF PastSlots
    <2>1. d \in Nat /\ slot \in Nat
      BY <1>0, <1>2, <1>3, <1>4
    <2>2. d = slot => next' = slot + 1
      BY <1>0, <1>2, <2>1
    <2>3. d # slot => d < slot
      BY <1>0, <1>2
    <2>4. next' = slot \/ next' = slot + 1
      BY <1>2
    <2> QED
      BY <2>1, <2>2, <2>3, <2>4
  <1>9. SlotsAccountedFor'
    <2>1. /\ (played \intersect missed)' = {}
          /\ (frames \intersect (played \union missed \union late))' = {}
          /\ (late \intersect played)' = {}
      BY <1>0, <1>1, <1>2, <1>3, <1>4 DEF MediaInv, SlotsAccountedFor
    <2>2. \A d \in Counters : d \in frames' => d >= next'
      BY <1>0, <1>2, <1>3, <1>4
    <2>3. \A d \in Counters : d \in late' => d < next'
      BY <1>0, <1>1, <1>2, <1>4 DEF MediaInv, SlotsAccountedFor
    <2>4. ASSUME NEW d \in Counters, NEW e \in played' \union missed', e <= d, d < next'
          PROVE  d \in played' \union missed'
      <3>1. CASE d = slot
        BY <3>1, <2>4, <1>0, <1>2, <1>4
      <3>2. CASE d # slot
        <4>1. d < slot /\ e # slot
          BY <3>2, <2>4, <1>0, <1>2, <1>3, <1>4
        <4>2. e \in played \union missed
          BY <4>1, <2>4, <1>2
        <4>3. playing /\ d < next
          BY <4>1, <4>2, <1>0
        <4>4. d \in played \union missed
          BY <4>2, <4>3, <2>4 DEF MediaInv, SlotsAccountedFor
        <4> QED
          BY <4>4, <1>2
      <3> QED
        BY <3>1, <3>2
    <2>5. (accepted = frames \union played \union late)'
      BY <1>1, <1>2 DEF MediaInv, SlotsAccountedFor, receiver
    <2> QED
      BY <1>1, <2>1, <2>2, <2>3, <2>4, <2>5 DEF SlotsAccountedFor
  <1> QED
    BY <1>5, <1>6, <1>7, <1>8, <1>9 DEF MediaInv

LEMMA MediaStep == MediaInv /\ [Next]_vars => MediaInv'
  <1> SUFFICES ASSUME MediaInv, [Next]_vars
               PROVE  MediaInv'
    OBVIOUS
  <1>1. CASE Frame
    <2>1. counter \in Counters /\ counter' \in 0..MaxFrames
      BY <1>1, MediaAssumption DEF Frame, MediaInv, MediaTypeOK, Counters
    <2>2. history' \subseteq history \union {counter}
      BY <1>1 DEF Frame
    <2>3. MediaTypeOK'
      BY <1>1, <2>1, <2>2 DEF Frame, MediaInv, MediaTypeOK, receiver, buffer
    <2> QED
      BY <1>1, <2>3, QuietStep DEF Frame
  <1>2. CASE FrameTooLarge
    <2>1. MediaTypeOK'
      BY <1>2, MediaAssumption DEF FrameTooLarge, MediaInv, MediaTypeOK, Counters, receiver, buffer, NONE
    <2> QED
      BY <1>2, <2>1, QuietStep DEF FrameTooLarge
  <1>3. ASSUME NEW c \in Counters, NEW genuine \in BOOLEAN, Accept(c, genuine)
        PROVE  MediaInv'
    <2>1. CASE CheckReplay(c) /\ genuine
      BY <1>3, <2>1, AcceptKeeps DEF Accept
    <2>2. CASE ~(CheckReplay(c) /\ genuine)
      <3>1. MediaTypeOK'
        BY <1>3, <2>2 DEF Accept, MediaInv, MediaTypeOK, out, receiver, buffer
      <3> QED
        BY <1>3, <2>2, <3>1, QuietStep DEF Accept
    <2> QED
      BY <2>1, <2>2
  <1>4. ASSUME NEW c \in Counters, Lose(c)
        PROVE  MediaInv'
    <2>1. MediaTypeOK'
      BY <1>4 DEF Lose, MediaInv, MediaTypeOK, out, receiver, buffer
    <2> QED
      BY <1>4, <2>1, QuietStep DEF Lose
  <1>5. CASE Play
    BY <1>5, PopKeeps DEF Play
  <1>6. CASE Recover
    <2>1. MediaTypeOK'
      BY <1>6 DEF Recover, MediaInv, MediaTypeOK, out, receiver, buffer
    <2> QED
      BY <1>6, <2>1, QuietStep DEF Recover
  <1>7. CASE UNCHANGED vars
    <2>1. MediaTypeOK'
      BY <1>7 DEF vars, MediaInv, MediaTypeOK, out, receiver, buffer
    <2> QED
      BY <1>7, <2>1, QuietStep DEF vars
  <1> QED
    BY <1>1, <1>2, <1>3, <1>4, <1>5, <1>6, <1>7 DEF Next

LEMMA MediaInvariant == Spec => []MediaInv
  BY MediaInitial, MediaStep, PTL DEF Spec

\* The types and the bounds hold: the counter stops, the bitmap stays inside
\* its window, no slot beyond the last counter is given up.
THEOREM MediaTypes == Spec => []MediaTypeOK
  <1>1. MediaInv => MediaTypeOK
    BY DEF MediaInv
  <1> QED
    BY <1>1, MediaInvariant, PTL

\* JitterBuffer hands out or gives up every slot exactly once, and whatever
\* MediaIn::accept took is buffered, handed out or counted late: it loses
\* nothing it was given.
THEOREM SlotsAreAccountedFor == Spec => []SlotsAccountedFor
  <1>1. MediaInv => SlotsAccountedFor
    BY DEF MediaInv
  <1> QED
    BY <1>1, MediaInvariant, PTL

\* Whatever the network does to the datagrams, JitterBuffer::pop hands frames
\* out in the order they were spoken.
THEOREM FramesPlayInOrder == Spec => PlayedInOrder
  <1> DEFINE A == [\A c \in played' \ played : \A d \in played : d < c]_vars
  <1>1. MediaInv /\ [Next]_vars => A
    <2> SUFFICES ASSUME MediaInv, Next
                 PROVE  \A c \in played' \ played : \A d \in played : d < c
      OBVIOUS
    <2>1. CASE Play
      <3> DEFINE slot == IF playing THEN next ELSE Start
      <3>1. \A d \in played : d < slot
        BY <2>1, NextSlot DEF Play
      <3>2. played' \subseteq played \union {slot}
        BY <2>1 DEF Play, PopSlot
      <3> QED
        BY <3>1, <3>2
    <2>2. CASE ~Play
      <3>1. played' = played
        BY <2>2 DEF Next, Frame, FrameTooLarge, Accept, Lose, Recover, Push, buffer
      <3> QED
        BY <3>1
    <2> QED
      BY <2>1, <2>2
  <1> QED
    BY <1>1, MediaInvariant, PTL DEF Spec, PlayedInOrder

\* Receiver is an at-most-once window: every step of the call admits one
\* counter that was not spent and gives up only what is out of the window, or
\* leaves what is spent alone.
THEOREM ReceiverImplementsAtMostOnce == Spec => OnceSpec
  <1>1. Init => Once!Init
    BY DEF Init, Once!Init, Spent
  <1>2. MediaInv /\ MediaInv' /\ [Next]_vars => [Once!Next]_Spent
    <2> SUFFICES ASSUME MediaInv, MediaInv', [Next]_vars
                 PROVE  Once!Next \/ Spent' = Spent
      OBVIOUS
    <2>1. CASE UNCHANGED receiver
      BY <2>1 DEF receiver, Spent, CheckReplay, Behind
    <2>2. ASSUME NEW c \in Counters, CheckReplay(c), Record(c)
          PROVE  Once!Next
      <3>1. /\ c \notin Spent
            /\ Spent \union {c} \subseteq Spent'
            /\ \A m \in Spent' \ (Spent \union {c}) : OutOfWindow(m, c)
        BY <2>2, RecordSpends DEF MediaInv
      <3>2. Spent' \subseteq Counters
        BY DEF Spent
      <3>3. Once!Admit(c)
        BY <3>1, <3>2 DEF Once!Admit
      <3> QED
        BY <3>3 DEF Once!Next
    <2> QED
      BY <2>1, <2>2 DEF Next, vars, Frame, FrameTooLarge, Accept, Lose, Play, Recover
  <1> QED
    BY <1>1, <1>2, MediaInvariant, PTL DEF Spec, OnceSpec, Once!Spec

-----------------------------------------------------------------------------
(* The bitmap in words.                                                    *)

\* Words do not lose their order when they are laid out.
LEMMA LaidOut ==
    ASSUME NEW a \in Int, NEW b \in Int, NEW w \in Nat \ {0}, a <= b
    PROVE  a * w \in Int /\ b * w \in Int /\ a * w <= b * w
  OBVIOUS

\* Quotient and remainder.
LEMMA Division ==
    ASSUME NEW n \in Nat, NEW w \in Nat \ {0}
    PROVE  /\ n \div w \in Nat /\ n % w \in 0..(w - 1)
           /\ n = (n \div w) * w + (n % w)
  OBVIOUS

\* The window is whole words.
LEMMA WholeWords == Words \in Nat /\ Words * WORD = REPLAY_WINDOW
  <1>1. /\ REPLAY_WINDOW \div WORD \in Nat
        /\ REPLAY_WINDOW = (REPLAY_WINDOW \div WORD) * WORD + (REPLAY_WINDOW % WORD)
    BY MediaAssumption, Division
  <1> QED BY <1>1, MediaAssumption DEF Words

\* A bit's place in the window names one word and one bit of it.
LEMMA BitOfWord ==
    ASSUME NEW i \in Int, NEW b \in 0..(WORD - 1)
    PROVE  /\ i * WORD + b \in Int
           /\ i * WORD + b >= 0 => i >= 0
           /\ i * WORD + b < REPLAY_WINDOW => i < Words
           /\ i \in 0..(Words - 1) => i * WORD + b \in 0..(REPLAY_WINDOW - 1)
  <1>1. WORD \in Nat \ {0} /\ REPLAY_WINDOW \in Nat /\ Words \in Nat /\ Words * WORD = REPLAY_WINDOW
    BY MediaAssumption, WholeWords
  <1>2. i * WORD \in Int
    BY <1>1
  <1>3. i < 0 => i * WORD <= -1 * WORD
    BY <1>1, LaidOut
  <1>4. i >= Words => i * WORD >= Words * WORD
    BY <1>1, LaidOut
  <1>5. i >= 0 => i * WORD >= 0 * WORD
    BY <1>1, LaidOut
  <1>6. i <= Words - 1 => i * WORD <= (Words - 1) * WORD
    BY <1>1, LaidOut
  <1>7. (Words - 1) * WORD = REPLAY_WINDOW - WORD /\ -1 * WORD = - WORD /\ 0 * WORD = 0
    BY <1>1
  <1> QED BY <1>1, <1>2, <1>3, <1>4, <1>5, <1>6, <1>7

\* The word that i - far, or the one below it, lands in.
LEMMA Moved ==
    ASSUME NEW i \in Int, NEW far \in Int, NEW b \in Int, NEW bits \in Int
    PROVE  /\ (i - far) * WORD + (b - bits) = (i * WORD + b) - (far * WORD + bits)
           /\ (i - far - 1) * WORD + (b + WORD - bits) = (i * WORD + b) - (far * WORD + bits)
  <1>1. WORD \in Nat
    BY MediaAssumption
  <1>2. (i - far) * WORD = i * WORD - far * WORD
    BY <1>1
  <1>3. (i - far - 1) * WORD = i * WORD - far * WORD - WORD
    BY <1>1
  <1>4. i * WORD \in Int /\ far * WORD \in Int
    BY <1>1
  <1> QED BY <1>1, <1>2, <1>3, <1>4

\* Bit b of word i after the loop is the bit `step` below it before.
LEMMA LoopMovesOneBit ==
    ASSUME NEW bits \in SUBSET (0..(REPLAY_WINDOW - 1)), NEW step \in 1..(REPLAY_WINDOW - 1),
           NEW i \in 0..(Words - 1), NEW b \in 0..(WORD - 1)
    PROVE  b \in SlideWords(AsWords(bits), step)[i] <=> (i * WORD + b) - step \in bits
  <1> DEFINE far == step \div WORD
             sub == step % WORD
             words == AsWords(bits)
  <1>1. /\ far \in Nat /\ sub \in 0..(WORD - 1)
        /\ step = far * WORD + sub
        /\ WORD \in Nat \ {0} /\ Words \in Nat /\ REPLAY_WINDOW \in Nat
    <2>1. step \in Nat /\ WORD \in Nat \ {0} /\ REPLAY_WINDOW \in Nat
      BY MediaAssumption
    <2> QED BY <2>1, Division, WholeWords
  <1>2. \A j \in 0..(Words - 1) : \A k :
           k \in words[j] <=> k \in 0..(WORD - 1) /\ j * WORD + k \in bits
    BY DEF AsWords
  <1>3. b \in SlideWords(words, step)[i] <=>
           \/ i >= far /\ b - sub \in words[i - far]
           \/ sub > 0 /\ i > far /\ b + WORD - sub \in words[i - far - 1]
    BY DEF SlideWords
  <1> HIDE DEF far, sub, words
  <1>4. i \in Nat /\ b \in Nat /\ i < Words /\ b < WORD
    BY <1>1
  <1>5. CASE b >= sub
    <2>1. b - sub \in 0..(WORD - 1) /\ b + WORD - sub \notin 0..(WORD - 1)
      BY <1>1, <1>4, <1>5
    <2>2. (i - far) * WORD + (b - sub) = (i * WORD + b) - step
      BY <1>1, <1>4, Moved
    <2>3. i >= far => i - far \in 0..(Words - 1)
      BY <1>1, <1>4
    <2>4. i > far => i - far - 1 \in 0..(Words - 1)
      BY <1>1, <1>4
    <2>5. b \in SlideWords(words, step)[i] <=> i >= far /\ (i * WORD + b) - step \in bits
      BY <1>2, <1>3, <2>1, <2>2, <2>3, <2>4
    <2>6. (i * WORD + b) - step \in bits => i >= far
      <3>1. i - far \in Int
        BY <1>1, <1>4
      <3>2. (i - far) * WORD + (b - sub) >= 0 => i - far >= 0
        BY <2>1, <3>1, BitOfWord
      <3>3. \A k \in bits : k >= 0
        OBVIOUS
      <3> QED BY <3>2, <3>3, <2>2, <1>1, <1>4
    <2> QED BY <2>5, <2>6 DEF words
  <1>6. CASE b < sub
    <2>1. b - sub \notin 0..(WORD - 1) /\ b + WORD - sub \in 0..(WORD - 1) /\ sub > 0
      BY <1>1, <1>4, <1>6
    <2>2. (i - far - 1) * WORD + (b + WORD - sub) = (i * WORD + b) - step
      BY <1>1, <1>4, Moved
    <2>3. i >= far => i - far \in 0..(Words - 1)
      BY <1>1, <1>4
    <2>4. i > far => i - far - 1 \in 0..(Words - 1)
      BY <1>1, <1>4
    <2>5. b \in SlideWords(words, step)[i] <=> i > far /\ (i * WORD + b) - step \in bits
      BY <1>2, <1>3, <2>1, <2>2, <2>3, <2>4
    <2>6. (i * WORD + b) - step \in bits => i > far
      <3>1. i - far - 1 \in Int
        BY <1>1, <1>4
      <3>2. (i - far - 1) * WORD + (b + WORD - sub) >= 0 => i - far - 1 >= 0
        BY <2>1, <3>1, BitOfWord
      <3>3. \A k \in bits : k >= 0
        OBVIOUS
      <3> QED BY <3>2, <3>3, <2>2, <1>1, <1>4
    <2> QED BY <2>5, <2>6 DEF words
  <1> QED BY <1>1, <1>4, <1>5, <1>6

\* The loop over words and the mark after it move the whole bitmap, for every
\* bitmap and every step inside the window.
LEMMA LoopMovesTheBitmap ==
    ASSUME NEW bits \in SUBSET (0..(REPLAY_WINDOW - 1)), NEW step \in 1..(REPLAY_WINDOW - 1)
    PROVE  FromWords(SlideWords(AsWords(bits), step)) \union {step - 1} = Slide(bits, step)
  <1> DEFINE moved == SlideWords(AsWords(bits), step)
             up == {b \in 0..(REPLAY_WINDOW - 1) : b - step \in bits}
  <1>1. Slide(bits, step) = up \union {step - 1}
    BY MediaAssumption DEF Slide
  <1>2. \A i \in 0..(Words - 1) : moved[i] \subseteq 0..(WORD - 1)
    BY DEF SlideWords
  <1>3. ASSUME NEW x \in FromWords(moved) PROVE x \in up
    <2>1. PICK i \in 0..(Words - 1) : \E b \in moved[i] : x = i * WORD + b
      BY DEF FromWords
    <2>2. PICK b \in 0..(WORD - 1) : b \in moved[i] /\ x = i * WORD + b
      BY <1>2, <2>1
    <2>3. x \in 0..(REPLAY_WINDOW - 1)
      BY <2>2, BitOfWord
    <2>4. b \in moved[i] <=> (i * WORD + b) - step \in bits
      BY LoopMovesOneBit
    <2>5. x - step \in bits
      <3>1. x - step = (i * WORD + b) - step
        BY <2>2
      <3> HIDE DEF moved
      <3> QED BY <2>2, <2>4, <3>1
    <2> QED BY <2>3, <2>5
  <1>4. ASSUME NEW x \in up PROVE x \in FromWords(moved)
    <2>1. x \in Nat /\ x < REPLAY_WINDOW /\ WORD \in Nat \ {0}
      BY MediaAssumption
    <2>2. PICK i \in Nat, b \in 0..(WORD - 1) : x = i * WORD + b
      BY <2>1, Division
    <2>3. i \in 0..(Words - 1)
      <3>1. i * WORD + b < REPLAY_WINDOW => i < Words
        BY BitOfWord
      <3> QED BY <2>1, <2>2, <3>1, WholeWords
    <2>4. b \in moved[i] <=> (i * WORD + b) - step \in bits
      BY <2>3, LoopMovesOneBit
    <2>5. x - step \in bits
      OBVIOUS
    <2>6. b \in moved[i]
      <3>1. x - step = (i * WORD + b) - step
        BY <2>2
      <3> HIDE DEF moved, up
      <3> QED BY <2>4, <2>5, <3>1
    <2>7. \E j \in 0..(Words - 1) : x \in {j * WORD + k : k \in moved[j]}
      BY ONLY <2>2, <2>3, <2>6
    <2> QED BY ONLY <2>7 DEF FromWords
  <1>5. FromWords(moved) = up
    BY <1>3, <1>4
  <1> QED BY <1>1, <1>5

\* The loop over words in Receiver::slide moves the bitmap as Slide does, for
\* every window of whole words, every word size, every step and whatever is set.
THEOREM SlideIsTheLoop == Spec => []SlideMovesTheBitmap
  <1>1. MediaInv => SlideMovesTheBitmap
    BY LoopMovesTheBitmap DEF MediaInv, MediaTypeOK, SlideMovesTheBitmap
  <1> QED BY <1>1, MediaInvariant, PTL

-----------------------------------------------------------------------------
(* Retransmission.                                                         *)

\* Only counters that were used are kept, lost or accepted.
SentBefore ==
    /\ history \subseteq 0..(counter - 1)
    /\ oversized \subseteq 0..(counter - 1)
    /\ wire \subseteq 0..(counter - 1)
    /\ started => highest < counter

\* The history is at most HISTORY frames, and the most recent ones: whatever was
\* sent after a frame it holds it holds too.
HistoryIsRecent ==
    /\ mode # "Fidelity" => history = {}
    /\ Cardinality(history) <= HISTORY
    /\ \A c \in history : \A d \in Counters :
          c < d /\ d < counter => d \in history \union oversized

\* A counter that is spent was accepted, or is a window behind the highest.
GivenUpIsOld ==
    \A m \in Spent : m \in frames \union played \union late \/ m + REPLAY_WINDOW <= highest

ResendInv == SentBefore /\ HistoryIsRecent /\ GivenUpIsOld

\* A set of natural numbers that is not empty has a least element.
LEMMA LeastIs ==
    ASSUME NEW S \in SUBSET Nat, S # {}
    PROVE  Least(S) \in S /\ \A n \in S : Least(S) <= n
  <1> DEFINE R == OpToRel(<, Nat)
  <1>1. IsWellFoundedOn(R, Nat)
    BY NatLessThanWellFounded
  <1> HIDE DEF R
  <1>2. PICK m \in S : \A k \in S : ~(<<k, m>> \in R)
    BY <1>1, WFMin
  <1>3. \A k \in S : ~(k < m)
    BY <1>2 DEF R, OpToRel
  <1>4. \A k \in S : m <= k
    BY <1>3
  <1> QED
    BY <1>4 DEF Least

\* Any set of counters is finite.
LEMMA CountersAreFinite ==
    ASSUME NEW S \in SUBSET Counters
    PROVE  IsFiniteSet(S) /\ Cardinality(S) \in Nat
  <1>1. IsFiniteSet(Counters)
    BY FS_Interval, MediaAssumption DEF Counters
  <1> QED BY <1>1, FS_Subset, FS_CardinalityType

\* MediaOut::frame keeps the most recent frames.
LEMMA FrameKeepsRecent ==
    ASSUME MediaInv, ResendInv, Frame
    PROVE  HistoryIsRecent'
  <1> DEFINE kept == history \union {counter}
  <1>1. /\ counter \in Nat /\ counter \in Counters /\ counter' = counter + 1
        /\ oversized' = oversized /\ mode' = mode
        /\ history' = IF mode # "Fidelity" THEN history
                      ELSE IF Cardinality(kept) > HISTORY THEN kept \ {Least(kept)}
                      ELSE kept
        /\ HISTORY \in Nat \ {0}
    BY MediaAssumption DEF Frame, MediaInv, MediaTypeOK, Counters
  <1>2. /\ kept \subseteq Counters /\ kept \subseteq Nat /\ kept # {}
        /\ \A c \in history : c < counter
    BY <1>1 DEF MediaInv, MediaTypeOK, ResendInv, SentBefore, Counters
  <1>3. \A c \in kept : \A d \in Counters : c < d /\ d < counter + 1 => d \in kept \union oversized
    BY <1>1, <1>2 DEF ResendInv, HistoryIsRecent, Counters
  <1>4. /\ Cardinality(history) \in Nat /\ Cardinality(history) <= HISTORY
        /\ IsFiniteSet(kept) /\ Cardinality(kept) \in Nat
        /\ Cardinality(kept) <= Cardinality(history) + 1
    <2>1. history \in SUBSET Counters
      BY <1>2
    <2>2. IsFiniteSet(history) /\ Cardinality(history) \in Nat
      BY <2>1, CountersAreFinite
    <2>3. Cardinality(kept) = IF counter \in history THEN Cardinality(history) ELSE Cardinality(history) + 1
      BY <2>2, FS_AddElement
    <2>4. IsFiniteSet(kept) /\ Cardinality(kept) \in Nat
      BY <1>2, CountersAreFinite
    <2>5. Cardinality(history) <= HISTORY
      BY DEF ResendInv, HistoryIsRecent
    <2> QED BY <2>2, <2>3, <2>4, <2>5
  <1> HIDE DEF kept
  <1>5. CASE mode # "Fidelity"
    <2>1. history' = history /\ history = {}
      BY <1>1, <1>5 DEF ResendInv, HistoryIsRecent
    <2> QED BY <1>4, <2>1 DEF HistoryIsRecent
  <1>6. CASE mode = "Fidelity" /\ Cardinality(kept) > HISTORY
    <2>1. history' = kept \ {Least(kept)}
      BY <1>1, <1>6
    <2>2. Least(kept) \in kept /\ \A n \in kept : Least(kept) <= n
      BY <1>2, LeastIs
    <2>3. Cardinality(history') = Cardinality(kept) - 1
      BY <1>4, <2>1, <2>2, FS_RemoveElement
    <2>4. Cardinality(history') <= HISTORY
      BY <1>1, <1>4, <2>3
    <2>5. ASSUME NEW c \in history', NEW d \in Counters, c < d, d < counter'
          PROVE  d \in history' \union oversized'
      <3>1. d \in kept \union oversized
        BY <1>1, <1>3, <2>1, <2>5
      <3>2. c \in kept /\ c \in Nat /\ Least(kept) \in Nat
        BY <1>2, <2>1, <2>2
      <3>3. Least(kept) <= c /\ d \in Nat
        BY <2>2, <3>2 DEF Counters
      <3>4. d # Least(kept)
        BY <2>5, <3>2, <3>3
      <3> QED BY <1>1, <2>1, <3>1, <3>4
    <2> QED BY <1>1, <1>6, <2>4, <2>5 DEF HistoryIsRecent
  <1>7. CASE mode = "Fidelity" /\ ~(Cardinality(kept) > HISTORY)
    <2>1. history' = kept /\ Cardinality(kept) <= HISTORY
      BY <1>1, <1>4, <1>7
    <2> QED BY <1>1, <1>3, <1>7, <2>1 DEF HistoryIsRecent
  <1> QED BY <1>5, <1>6, <1>7

\* A datagram that is accepted was sent, and spends nothing but itself and what
\* it leaves a window behind.
LEMMA AcceptKeepsResend ==
    ASSUME MediaInv, MediaInv', ResendInv, NEW c \in Counters, c \in wire,
           CheckReplay(c), Record(c), Push(c), UNCHANGED out, wire' \in {wire, wire \ {c}}
    PROVE  ResendInv'
  <1>1. UNCHANGED <<mode, counter, history, oversized>>
    BY DEF out
  <1>2. c \in 0..(counter - 1) /\ counter \in Nat /\ highest \in Nat /\ c \in Nat
    BY MediaAssumption DEF ResendInv, SentBefore, MediaInv, MediaTypeOK, Counters
  <1>3. SentBefore'
    BY <1>1, <1>2 DEF ResendInv, SentBefore, Record
  <1>4. HistoryIsRecent'
    BY <1>1 DEF ResendInv, HistoryIsRecent
  <1>5. GivenUpIsOld'
    <2>1. /\ Spent \union {c} \subseteq Spent'
          /\ \A m \in Spent' \ (Spent \union {c}) : OutOfWindow(m, c)
      BY RecordSpends DEF MediaInv
    <2>2. /\ highest' \in Nat /\ c <= highest' /\ (started => highest <= highest')
      BY <1>2 DEF Record
    <2>3. frames' \union played' \union late' = frames \union played \union late \union {c}
      BY DEF Push
    <2>4. Spent \subseteq Counters /\ Spent' \subseteq Counters /\ Counters \subseteq Nat
      BY DEF Spent, Counters
    <2>5. Spent # {} => started
      BY DEF Spent
    <2> SUFFICES ASSUME NEW m \in Spent', m \notin frames' \union played' \union late'
                 PROVE  m + REPLAY_WINDOW <= highest'
      BY DEF GivenUpIsOld
    <2>6. m \in Nat /\ REPLAY_WINDOW \in Nat
      BY <2>4, MediaAssumption
    <2>7. CASE m \in Spent
      <3>1. m + REPLAY_WINDOW <= highest /\ highest <= highest'
        BY <2>2, <2>3, <2>5, <2>7 DEF ResendInv, GivenUpIsOld
      <3> QED BY <1>2, <2>2, <2>6, <3>1
    <2>8. CASE m \notin Spent
      <3>1. m + REPLAY_WINDOW <= c
        BY <2>1, <2>3, <2>8 DEF OutOfWindow
      <3> QED BY <1>2, <2>2, <2>6, <3>1
    <2> QED BY <2>7, <2>8
  <1> QED BY <1>3, <1>4, <1>5 DEF ResendInv

\* A step that leaves the receiver and what was accepted alone keeps what is
\* given up old.
LEMMA QuietGivenUp ==
    ASSUME ResendInv, UNCHANGED receiver,
           frames' \union played' \union late' = frames \union played \union late
    PROVE  GivenUpIsOld' /\ (counter' >= counter /\ counter \in Nat /\ counter' \in Nat
                               /\ highest \in Nat => (started => highest < counter)')
  <1>1. Spent' = Spent /\ highest' = highest /\ started' = started
    BY DEF receiver, Spent, CheckReplay, Behind
  <1> QED BY <1>1 DEF ResendInv, GivenUpIsOld, SentBefore

\* The initial state satisfies the invariant and every step keeps it.
LEMMA ResendInductive == Spec => []ResendInv
  <1>1. Init => ResendInv
    <2> SUFFICES ASSUME Init PROVE ResendInv
      OBVIOUS
    <2>1. history = {} /\ Cardinality(history) = 0
      BY FS_EmptySet DEF Init
    <2>2. HistoryIsRecent
      BY <2>1, MediaAssumption DEF HistoryIsRecent
    <2> QED BY <2>2 DEF Init, ResendInv, SentBefore, GivenUpIsOld, Spent
  <1>2. MediaInv /\ MediaInv' /\ ResendInv /\ [Next]_vars => ResendInv'
    <2> SUFFICES ASSUME MediaInv, MediaInv', ResendInv, [Next]_vars PROVE ResendInv'
      OBVIOUS
    <2>0. counter \in Nat /\ counter' \in Nat /\ highest \in Nat
      BY DEF MediaInv, MediaTypeOK
    <2>1. CASE Frame
      <3>1. /\ counter' = counter + 1 /\ wire' = wire \union {counter} /\ oversized' = oversized
            /\ history' \subseteq history \union {counter} /\ UNCHANGED <<receiver, buffer>>
        BY <2>1 DEF Frame
      <3>2. GivenUpIsOld' /\ (started => highest < counter)'
        BY <2>0, <3>1, QuietGivenUp DEF buffer
      <3>3. SentBefore'
        BY <2>0, <3>1, <3>2 DEF ResendInv, SentBefore
      <3> QED BY <2>1, <3>2, <3>3, FrameKeepsRecent DEF ResendInv
    <2>2. CASE FrameTooLarge
      <3>1. /\ counter' = counter + 1 /\ oversized' = oversized \union {counter}
            /\ UNCHANGED <<mode, wire, history, receiver, buffer>>
        BY <2>2 DEF FrameTooLarge
      <3>2. GivenUpIsOld' /\ (started => highest < counter)'
        BY <2>0, <3>1, QuietGivenUp DEF buffer
      <3>3. SentBefore'
        BY <2>0, <3>1, <3>2 DEF ResendInv, SentBefore
      <3>4. HistoryIsRecent'
        BY <2>0, <3>1 DEF ResendInv, HistoryIsRecent, Counters
      <3> QED BY <3>2, <3>3, <3>4 DEF ResendInv
    <2>3. ASSUME NEW c \in Counters, NEW genuine \in BOOLEAN, Accept(c, genuine),
                 CheckReplay(c) /\ genuine
          PROVE  ResendInv'
      BY <2>3, AcceptKeepsResend DEF Accept
    <2>4. ASSUME UNCHANGED <<out, receiver>>,
                 frames' \union played' \union late' = frames \union played \union late,
                 wire' \subseteq wire \union history
          PROVE  ResendInv'
      <3>1. GivenUpIsOld' /\ (started => highest < counter)'
        BY <2>0, <2>4, QuietGivenUp DEF out
      <3>2. SentBefore' /\ HistoryIsRecent'
        BY <2>4, <3>1 DEF ResendInv, SentBefore, HistoryIsRecent, out
      <3> QED BY <3>1, <3>2 DEF ResendInv
    <2>5. ASSUME NEW c \in Counters, NEW genuine \in BOOLEAN, Accept(c, genuine),
                 ~(CheckReplay(c) /\ genuine)
          PROVE  ResendInv'
      BY <2>4, <2>5 DEF Accept, buffer
    <2>6. ASSUME NEW c \in Counters, Lose(c)
          PROVE  ResendInv'
      BY <2>4, <2>6 DEF Lose, buffer
    <2>7. CASE Play
      <3>1. frames' \union played' \union late' = frames \union played \union late
        BY <2>7 DEF Play, PopSlot
      <3> QED BY <2>4, <2>7, <3>1 DEF Play
    <2>8. CASE Recover
      BY <2>4, <2>8 DEF Recover, buffer
    <2>9. CASE UNCHANGED vars
      BY <2>4, <2>9 DEF vars, buffer
    <2> QED
      BY <2>1, <2>2, <2>3, <2>5, <2>6, <2>7, <2>8, <2>9 DEF Next
  <1> QED
    BY <1>1, <1>2, MediaInvariant, PTL DEF Spec

\* What MediaOut can send again is worth sending: if the receiver never accepted
\* it, it still would, unless counters went to oversized frames in between.
THEOREM ResendIsWorthIt == Spec => []ResendIsUseful
  <1>1. MediaInv /\ ResendInv => ResendIsUseful
    <2> SUFFICES ASSUME MediaInv, ResendInv, NEW c \in history, c \in Spent,
                        c \notin frames \union played \union late,
                        ~\E o \in oversized : c < o /\ o < counter
                 PROVE  FALSE
      BY DEF ResendIsUseful
    <2>1. /\ c \in Nat /\ counter \in Nat /\ counter <= MaxFrames /\ MaxFrames \in Nat
          /\ highest \in Nat /\ REPLAY_WINDOW \in Nat /\ HISTORY \in Nat
          /\ HISTORY <= REPLAY_WINDOW /\ history \subseteq Counters
      BY MediaAssumption DEF MediaInv, MediaTypeOK, Counters
    <2>2. c + REPLAY_WINDOW <= highest /\ highest < counter
      BY DEF ResendInv, GivenUpIsOld, SentBefore, Spent
    <2>3. c..(counter - 1) \subseteq history
      BY <2>1 DEF ResendInv, HistoryIsRecent, Counters
    <2>4. /\ IsFiniteSet(c..(counter - 1))
          /\ Cardinality(c..(counter - 1)) = counter - c
      <3>1. c \in Int /\ counter - 1 \in Int /\ ~(c > counter - 1)
        BY <2>1, <2>2
      <3>2. /\ IsFiniteSet(c..(counter - 1))
            /\ Cardinality(c..(counter - 1))
                 = IF c > counter - 1 THEN 0 ELSE (counter - 1) - c + 1
        BY <3>1, FS_Interval
      <3> QED BY <2>1, <3>1, <3>2
    <2>5. Cardinality(c..(counter - 1)) <= Cardinality(history) /\ Cardinality(history) \in Nat
      BY <2>1, <2>3, CountersAreFinite, FS_Subset
    <2>6. Cardinality(history) <= HISTORY
      BY DEF ResendInv, HistoryIsRecent
    <2> QED BY <2>1, <2>2, <2>4, <2>5, <2>6
  <1> QED
    BY <1>1, MediaInvariant, ResendInductive, PTL
=============================================================================
