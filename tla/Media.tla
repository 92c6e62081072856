-------------------------------- MODULE Media --------------------------------
(***************************************************************************)
(* One direction of a call: MediaOut and MediaIn of rotelyx-media, with    *)
(* the anti-replay window of Receiver and the JitterBuffer behind it.      *)
(*                                                                         *)
(* A datagram is the counter in its header: a retransmission is the        *)
(* identical bytes.  The network loses, duplicates, delays and reorders,   *)
(* and anybody may send bytes that claim a counter and do not              *)
(* authenticate.  The delay target follows a floating point estimate of    *)
(* the jitter; here it is any depth in Targets after every push.           *)
(***************************************************************************)
EXTENDS Integers, FiniteSets

CONSTANTS
    REPLAY_WINDOW,  \* 256 in the code
    WORD,           \* bits of one word of the bitmap, 64 in the code
    HISTORY,        \* frames kept for retransmission, 256 in the code
    Targets,        \* depths of the buffer, in frames
    MaxFrames       \* bound: counters one behaviour uses (the code stops at 2^64)

ASSUME MediaAssumption ==
    /\ REPLAY_WINDOW \in Nat \ {0}
    /\ WORD \in Nat \ {0}
    /\ REPLAY_WINDOW % WORD = 0  \* the bitmap is whole words: 256 bits, 64 each
    /\ HISTORY \in Nat \ {0}
    /\ HISTORY <= REPLAY_WINDOW
    /\ Targets # {}
    /\ Targets \subseteq Nat \ {0}
    /\ MaxFrames \in Nat

VARIABLES
    mode,        \* Mode of both ends, fixed when the call is set up
    counter,     \* Sender::counter
    history,     \* the counters MediaOut can send again
    oversized,   \* counters spent on a frame no datagram carries (history)
    wire,        \* datagrams under way
    started,     \* Receiver::started
    highest,     \* Receiver::highest
    seen,        \* Receiver::seen: bit n stands for the counter highest - 1 - n
    accepted,    \* counters whose datagram was taken and marked (history)
    frames,      \* JitterBuffer::frames
    playing,     \* JitterBuffer::next is Some
    next,        \* and its value
    lowestSeen,  \* JitterBuffer::lowest_seen, NONE until a frame arrives
    target,      \* JitterBuffer::target_ms, in frames
    played,      \* counters handed out (history)
    missed,      \* slots given up (history)
    late         \* counters discarded because their slot had passed (history)

out == <<mode, counter, history, oversized>>
receiver == <<started, highest, seen, accepted>>
buffer == <<frames, playing, next, lowestSeen, target, played, missed, late>>
vars == <<out, wire, receiver, buffer>>

Counters == 0..(MaxFrames - 1)
NONE == MaxFrames

MediaTypeOK ==
    /\ mode \in {"Conversational", "Fidelity"}
    /\ counter \in 0..MaxFrames
    /\ history \subseteq Counters
    /\ oversized \subseteq Counters
    /\ wire \subseteq Counters
    /\ started \in BOOLEAN
    /\ highest \in Nat
    /\ seen \subseteq 0..(REPLAY_WINDOW - 1)
    /\ accepted \subseteq Counters
    /\ frames \subseteq Counters
    /\ playing \in BOOLEAN
    /\ next \in Nat
    /\ lowestSeen \in Counters \union {NONE}
    /\ target \in Targets
    /\ played \subseteq Counters
    /\ missed \subseteq Counters
    /\ late \subseteq Counters

Least(S) == CHOOSE m \in S : \A n \in S : m <= n

-----------------------------------------------------------------------------
(* The sender.                                                             *)

\* Mutant: the counter runs past its last value.
FrameUnchecked ==
    /\ counter' = counter + 1
    /\ wire' = wire \union {counter}
    /\ UNCHANGED <<mode, history, oversized, receiver, buffer>>

\* MediaOut::frame: protect, keep for retransmission, let the oldest go.
Frame ==
    /\ counter < MaxFrames
    /\ counter' = counter + 1
    /\ wire' = wire \union {counter}
    /\ LET kept == history \union {counter}
       IN  history' = IF mode # "Fidelity" THEN history
                      ELSE IF Cardinality(kept) > HISTORY THEN kept \ {Least(kept)}
                      ELSE kept
    /\ UNCHANGED <<mode, oversized, receiver, buffer>>

\* MediaOut::frame refuses what no datagram carries, after protect has spent
\* the counter on it.
FrameTooLarge ==
    /\ counter < MaxFrames
    /\ counter' = counter + 1
    /\ oversized' = oversized \union {counter}
    /\ UNCHANGED <<mode, history, wire, receiver, buffer>>

-----------------------------------------------------------------------------
(* Receiver: the replay window.                                            *)

Behind(c) == highest - c

\* Mutant: the highest counter itself is not taken for a repeat.
CheckReplayNotHighest(c) ==
    \/ ~started
    \/ c > highest
    \/ Behind(c) < REPLAY_WINDOW /\ Behind(c) - 1 \notin seen

\* Receiver::check_replay answers Ok.
CheckReplay(c) ==
    \/ ~started
    \/ c > highest
    \/ /\ Behind(c) < REPLAY_WINDOW
       /\ Behind(c) # 0
       /\ Behind(c) - 1 \notin seen

\* Receiver::slide: the whole bitmap moves up, and the counter that was highest
\* is marked `step` behind.
Slide(bits, step) ==
    IF step >= REPLAY_WINDOW THEN {}
    ELSE {b \in 0..(REPLAY_WINDOW - 1) : b - step \in bits} \union {step - 1}

\* Receiver::record
Record(c) ==
    /\ started' = TRUE
    /\ highest' = IF ~started \/ c > highest THEN c ELSE highest
    /\ seen' = IF ~started THEN {}
               ELSE IF c > highest THEN Slide(seen, c - highest)
               ELSE IF Behind(c) \in 1..(REPLAY_WINDOW - 1) THEN seen \union {Behind(c) - 1}
               ELSE seen
    /\ accepted' = accepted \union {c}

\* The same bitmap as the code keeps it: words of WORD bits, a word being the
\* set of its bits that are set.
Words == REPLAY_WINDOW \div WORD

AsWords(bits) == [i \in 0..(Words - 1) |-> {b \in 0..(WORD - 1) : i * WORD + b \in bits}]

FromWords(words) == UNION {{i * WORD + b : b \in words[i]} : i \in 0..(Words - 1)}

\* Mutant: the bits that leave a word are not carried into the next.
SlideWordsNoCarry(words, step) ==
    [i \in 0..(Words - 1) |->
        LET far == step \div WORD
        IN  IF i >= far
            THEN {b \in 0..(WORD - 1) : b - (step % WORD) \in words[i - far]}
            ELSE {}]

\* The loop of Receiver::slide, for a step inside the window.
SlideWords(words, step) ==
    [i \in 0..(Words - 1) |->
        LET far  == step \div WORD
            bits == step % WORD
        IN  (IF i >= far THEN {b \in 0..(WORD - 1) : b - bits \in words[i - far]} ELSE {})
            \union
            (IF bits > 0 /\ i > far
             THEN {b \in 0..(WORD - 1) : b + WORD - bits \in words[i - far - 1]} ELSE {})]

-----------------------------------------------------------------------------
(* MediaIn and the jitter buffer.                                          *)

\* JitterBuffer::push
Push(c) ==
    /\ lowestSeen' = IF c < lowestSeen THEN c ELSE lowestSeen
    /\ target' \in Targets
    /\ IF playing /\ c < next
       THEN late' = late \union {c} /\ UNCHANGED frames
       ELSE frames' = frames \union {c} /\ UNCHANGED late
    /\ UNCHANGED <<playing, next, played, missed>>

\* Mutant: a counter is marked before its tag has verified.
AcceptUnverified(c, genuine) ==
    /\ genuine => c \in wire
    /\ wire' \in {wire, wire \ {c}}
    /\ IF CheckReplay(c)
       THEN /\ Record(c)
            /\ IF genuine THEN Push(c) ELSE UNCHANGED buffer
       ELSE UNCHANGED <<receiver, buffer>>
    /\ UNCHANGED out

\* MediaIn::accept: a datagram arrives, perhaps not for the last time.  What
\* repeats, is too old or does not authenticate is dropped.
Accept(c, genuine) ==
    /\ genuine => c \in wire
    /\ wire' \in {wire, wire \ {c}}
    /\ IF CheckReplay(c) /\ genuine
       THEN Record(c) /\ Push(c)
       ELSE UNCHANGED <<receiver, buffer>>
    /\ UNCHANGED out

Lose(c) ==
    /\ c \in wire
    /\ wire' = wire \ {c}
    /\ UNCHANGED <<out, receiver, buffer>>

\* Mutant: there is always time to wait.
MayWaitForever == mode = "Fidelity"

\* JitterBuffer::may_wait
MayWait == mode = "Fidelity" /\ Cardinality(frames) < target

\* Where playback starts: the lowest counter ever seen.
Start == IF lowestSeen < Least(frames) THEN lowestSeen ELSE Least(frames)

\* Mutant: giving a slot up clears the buffer one counter too far.
PopClearsTooFar(slot) ==
    /\ playing' = TRUE
    /\ IF slot \in frames
       THEN /\ next' = slot + 1
            /\ frames' = frames \ {slot}
            /\ played' = played \union {slot}
            /\ UNCHANGED missed
       ELSE IF MayWait
       THEN /\ next' = slot
            /\ UNCHANGED <<frames, played, missed>>
       ELSE /\ next' = slot + 1
            /\ missed' = missed \union {slot}
            /\ frames' = {c \in frames : c > slot + 1}
            /\ UNCHANGED played
    /\ UNCHANGED <<lowestSeen, target, late>>

\* Mutant: a slot given up hands out whatever is buffered.
PopWhatThereIs(slot) ==
    /\ playing' = TRUE
    /\ next' = slot + 1
    /\ LET c == IF slot \in frames THEN slot ELSE Least(frames)
       IN  frames' = frames \ {c} /\ played' = played \union {c}
    /\ UNCHANGED <<missed, lowestSeen, target, late>>

\* JitterBuffer::pop for the slot `slot`: play it, wait for it or give it up.
PopSlot(slot) ==
    /\ playing' = TRUE
    /\ IF slot \in frames
       THEN /\ next' = slot + 1
            /\ frames' = frames \ {slot}
            /\ played' = played \union {slot}
            /\ UNCHANGED missed
       ELSE IF MayWait
       THEN /\ next' = slot
            /\ UNCHANGED <<frames, played, missed>>
       ELSE /\ next' = slot + 1
            /\ missed' = missed \union {slot}
            /\ UNCHANGED <<frames, played>>
    /\ UNCHANGED <<lowestSeen, target, late>>

\* JitterBuffer::pop.  With nothing buffered, or not yet enough to start, it
\* changes nothing.
Play ==
    /\ frames # {}
    /\ playing \/ Cardinality(frames) >= target
    /\ PopSlot(IF playing THEN next ELSE Start)
    /\ UNCHANGED <<out, wire, receiver>>

\* JitterBuffer::recoverable_between, told what the sender still has.
RecoverableFrom ==
    IF playing THEN next
    ELSE IF history # {} /\ Least(history) < Least(frames) THEN Least(history)
    ELSE Least(frames)

Recoverable ==
    IF mode # "Fidelity" \/ (~playing /\ frames = {}) THEN {}
    ELSE {c \in Counters : RecoverableFrom <= c /\ c < counter /\ c \notin frames}

\* The receiver asks for what it misses and MediaOut::resend answers from the
\* history.
Recover ==
    /\ Recoverable \intersect history # {}
    /\ wire' = wire \union (Recoverable \intersect history)
    /\ UNCHANGED <<out, receiver, buffer>>

-----------------------------------------------------------------------------
Init ==
    /\ mode \in {"Conversational", "Fidelity"}
    /\ counter = 0
    /\ history = {}
    /\ oversized = {}
    /\ wire = {}
    /\ started = FALSE
    /\ highest = 0
    /\ seen = {}
    /\ accepted = {}
    /\ frames = {}
    /\ playing = FALSE
    /\ next = 0
    /\ lowestSeen = NONE
    /\ target \in Targets
    /\ played = {}
    /\ missed = {}
    /\ late = {}

Next ==
    \/ Frame
    \/ FrameTooLarge
    \/ \E c \in Counters, genuine \in BOOLEAN : Accept(c, genuine)
    \/ \E c \in Counters : Lose(c)
    \/ Play
    \/ Recover

Spec == Init /\ [][Next]_vars

\* The datagram the next slot waits for arrives.
Deliver == playing /\ CheckReplay(next) /\ Accept(next, TRUE)

\* The audio device calls for a frame every slot, lost frames are asked for
\* again and again, and a datagram sent again and again gets through.
Fairness == WF_vars(Play) /\ WF_vars(Recover) /\ SF_vars(Deliver)

FairSpec == Spec /\ Fairness

-----------------------------------------------------------------------------
(* Properties.                                                             *)

\* The counters the receiver will never accept (again), read off the bitmap.
Spent ==
    {c \in Counters : started /\ c <= highest /\ ~CheckReplay(c)}

OutOfWindow(m, n) == m + REPLAY_WINDOW <= n

\* MediaIn implements AtMostOnce: whatever the network repeats, reorders or
\* forges, a counter is accepted at most once, and a counter never accepted is
\* given up only once a counter REPLAY_WINDOW later was accepted (or, before
\* anything was, never).
Once == INSTANCE AtMostOnce WITH Numbers <- Counters, TooOld <- OutOfWindow, spent <- Spent

OnceSpec == Once!Spec

\* The loop over words in Receiver::slide, and the mark after it, move the
\* bitmap as its comment says, for every step and whatever is set.
SlideMovesTheBitmap ==
    \A step \in 1..(REPLAY_WINDOW - 1) :
        FromWords(SlideWords(AsWords(seen), step)) \union {step - 1} = Slide(seen, step)

\* What can be sent again is worth sending: a frame the sender still holds and
\* the receiver never accepted would be accepted, unless counters were spent
\* on oversized frames in between (the history counts frames, the window
\* counts counters).
ResendIsUseful ==
    \A c \in history :
        c \in Spent =>
            \/ c \in frames \union played \union late
            \/ \E o \in oversized : c < o /\ o < counter

\* Every slot from where playback began is handed out or given up, exactly
\* once, and what MediaIn::accept took is, from then on, in exactly one place:
\* buffered, handed out, or counted late because its slot had gone.  Nothing is
\* played twice, and nothing that arrived is lost inside the buffer.
SlotsAccountedFor ==
    /\ accepted = frames \union played \union late
    /\ played \intersect missed = {}
    /\ frames \intersect (played \union missed \union late) = {}
    /\ late \intersect played = {}
    /\ playing => \A c \in Counters :
          /\ c \in frames => c >= next
          /\ c \in late => c < next
          /\ (\E d \in played \union missed : d <= c) /\ c < next
                => c \in played \union missed

\* Frames are handed out in the order they were spoken.
PlayedInOrder ==
    [][\A c \in played' \ played : \A d \in played : d < c]_vars

\* A slot the buffer waits for can still be filled.
CanStillCome(c) == c \in history /\ CheckReplay(c)

\* Playback never stalls with audio in hand: once it has begun and the sender
\* has said its last, the buffer empties; less than a target's worth of frames
\* may stay behind a slot whose frame the sender can no longer supply.
PlaybackDrains ==
    []<>(~playing \/ frames = {} \/ (mode = "Fidelity" /\ ~CanStillCome(next)
                                                       /\ Cardinality(frames) < target))
=============================================================================
