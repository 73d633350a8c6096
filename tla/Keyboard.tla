------------------------------ MODULE Keyboard ------------------------------
(***************************************************************************)
(* From the host's keys and the clipboard to what the guest sees: the tap  *)
(* and paste logic of the front end (sdl2/kbdmap.c, sdl2/kbdpaste.c), the  *)
(* table of held keys (machine/keystat.c) and the keyboard itself          *)
(* (io/serial.c), whose key matrix is paced so that a guest scanning it    *)
(* once per vertical retrace sees every key.                               *)
(*                                                                         *)
(* A key is a model value; Shift is the left shift key, which keystat.c    *)
(* handles unlike the ordinary keys.  The controller's FIFO is abstracted  *)
(* to the number of bytes in it.  Layout tables, lock keys, roman-kana     *)
(* input and the joystick use of the cursor keys are left out.             *)
(***************************************************************************)
EXTENDS Naturals, Sequences, Functions

CONSTANTS
  KeyOrder,         \* the keys, in the order of their codes
  Shift,            \* the shift key among them
  Texts,            \* clipboard texts: sequences of [key, shift]
  Hold,             \* KB_MATRIX_HOLD
  QueueMax,         \* KB_MATRIX_QUEUE
  FifoMax,          \* KB_BUF
  FramesPerEvent,   \* kbdpaste_frames_per_event()
  MaxUser           \* bound: actions of the user, the GUI's included, and resets

Keys == Range(KeyOrder)

\* A key of one frame has been scanned before it may be released, the queue takes the
\* release of a key and of its shift, and a paste goes no faster than the matrix:
\* KB_MATRIX_HOLD is 2, KB_MATRIX_QUEUE 64, KBDPASTE_EVENT_FRAMES 2.
ASSUME KeyboardAssumption ==
  /\ KeyOrder \in Seq(Keys) /\ IsInjective(KeyOrder) /\ Shift \in Keys
  /\ {Hold, QueueMax} \subseteq Nat \ {0, 1} /\ FifoMax \in Nat \ {0}
  /\ FramesPerEvent \in Nat /\ Hold <= FramesPerEvent
  /\ Texts \subseteq Seq([key : Keys \ {Shift}, shift : BOOLEAN]) \ {<<>>}

VARIABLES
  keys,     \* [ref, matrix, fifo]: keystat.ref, the paced matrix, the FIFO
            \* (their histories included: matrix.forced)
  mirror,   \* guest_shift_down of the left shift
  paste,    \* the paste in progress; text = <<>> when there is none
  seen,     \* what the guest's last scan of the matrix found pressed
  known,    \* history: the keys pressed whose last make a scan has seen
  typed,    \* history: what the guest has read since the paste began
  goal,     \* history: the text of the last paste nobody disturbed
  used      \* bound: actions taken by the user

vars == <<keys, mirror, paste, seen, known, typed, goal, used>>

Make(k)  == [key |-> k, up |-> FALSE]
Break(k) == [key |-> k, up |-> TRUE]

-----------------------------------------------------------------------------
(* The matrix.  The ticks since a key's make are counted up to Hold; that  *)
(* the UINT8 difference wraps is LongHold.  forced records that the queue  *)
(* was emptied without pacing since the last frame.                        *)

(* Mutant: one tick too few. *)
WaitsMutant(m, e) == e.up /\ e.key \in m.held /\ m.age[e.key] < Hold - 1

Waits(m, e) ==
  /\ e.up
  /\ e.key \in m.held
  /\ m.age[e.key] < Hold

Apply(m, e) ==
  IF e.up THEN [m EXCEPT !.held = @ \ {e.key}, !.map = @ \ {e.key}]
          ELSE [m EXCEPT !.held = @ \cup {e.key}, !.map = @ \cup {e.key},
                         !.age[e.key] = 0]

Applied(m, es) ==
  LET after[i \in 0 .. Len(es)] == IF i = 0 THEN m ELSE Apply(after[i - 1], es[i])
  IN after[Len(es)]

FlushMatrix(m) ==
  [Applied(m, m.queue) EXCEPT !.queue = <<>>, !.forced = @ \/ m.queue # <<>>]

(* Mutant: the event that finds the queue full is dropped. *)
MatrixSendMutant(m, e) ==
  IF m.queue = <<>> /\ ~Waits(m, e) THEN Apply(m, e)
  ELSE IF Len(m.queue) >= QueueMax THEN FlushMatrix(m)
  ELSE [m EXCEPT !.queue = Append(@, e)]

MatrixSend(m, e) ==
  IF m.queue = <<>> /\ ~Waits(m, e) THEN Apply(m, e)
  ELSE IF Len(m.queue) >= QueueMax THEN Apply(FlushMatrix(m), e)
  ELSE [m EXCEPT !.queue = Append(@, e)]

(* The queue is applied up to the first release that must still wait. *)
ApplyDue(m, e) ==
  IF m.queue # <<>> \/ Waits(m, e) THEN [m EXCEPT !.queue = Append(@, e)] ELSE Apply(m, e)

AppliedDue(m, es) ==
  LET after[i \in 0 .. Len(es)] == IF i = 0 THEN m ELSE ApplyDue(after[i - 1], es[i])
  IN after[Len(es)]

(* Mutant: time stands still for the keys whose release is queued. *)
MatrixTickMutant(m) == AppliedDue([m EXCEPT !.queue = <<>>], m.queue)

Older(age) == IF age < Hold THEN age + 1 ELSE Hold

MatrixTick(m) ==
  AppliedDue([m EXCEPT !.queue = <<>>, !.age = [k \in Keys |-> Older(m.age[k])]], m.queue)

(* The FIFO to the keyboard controller and the event that empties it. *)
FifoSend(f) ==
  IF f.buffers < FifoMax THEN [f EXCEPT !.buffers = @ + 1, !.event = TRUE]
                         ELSE [f EXCEPT !.overrun = TRUE]

KeyboardSend(s, e) ==
  [s EXCEPT !.matrix = MatrixSend(@, e), !.fifo = FifoSend(@)]

-----------------------------------------------------------------------------
(* The table of held keys. *)

KeystatDown(s, k) ==
  IF k = Shift /\ k \in s.ref THEN s
  ELSE KeyboardSend([s EXCEPT !.ref = @ \cup {k}], Make(k))

KeystatUp(s, k) ==
  IF k \in s.ref THEN KeyboardSend([s EXCEPT !.ref = @ \ {k}], Break(k)) ELSE s

SendData(s, e) == IF e.up THEN KeystatUp(s, e.key) ELSE KeystatDown(s, e.key)
SendAll(s, es) ==
  LET after[i \in 0 .. Len(es)] == IF i = 0 THEN s ELSE SendData(after[i - 1], es[i])
  IN after[Len(es)]

AllRelease(s) == SendAll(s, [i \in 1 .. Len(KeyOrder) |-> Break(KeyOrder[i])])

Resend(s, k) == IF k \in s.ref THEN KeyboardSend(s, Make(k)) ELSE s
ResendStat(s) ==
  LET after[i \in 0 .. Len(KeyOrder)] ==
        IF i = 0 THEN s ELSE Resend(after[i - 1], KeyOrder[i])
  IN after[Len(KeyOrder)]

-----------------------------------------------------------------------------
(* The paste. *)

NoPaste == [text |-> <<>>, index |-> 1, phase |-> "idle", frames |-> 0,
            shiftDown |-> FALSE, keyDown |-> FALSE]

Current == paste.text[paste.index]

When(c, es) == IF c THEN es ELSE <<>>

HeldKeys(p) ==
  When(p.keyDown /\ p.index <= Len(p.text), <<Break(p.text[p.index].key)>>)
    \o When(p.shiftDown, <<Break(Shift)>>)

FirstPhase(action) == IF action.shift THEN "shift_down" ELSE "key_down"
AfterKeyUp         == IF Current.shift THEN "shift_up" ELSE "idle"

(* What one step of kbdpaste_tick sends and leaves in p. *)
PasteEvents ==
  CASE paste.phase = "shift_down" -> <<Make(Shift)>>
    [] paste.phase = "key_down"   -> <<Make(Current.key)>>
    [] paste.phase = "key_up"     -> <<Break(Current.key)>>
    [] paste.phase = "shift_up"   -> <<Break(Shift)>>

Stepped ==
  CASE paste.phase = "shift_down" -> [paste EXCEPT !.phase = "key_down", !.shiftDown = TRUE]
    [] paste.phase = "key_down"   -> [paste EXCEPT !.phase = "key_up", !.keyDown = TRUE]
    [] paste.phase = "key_up"     -> [paste EXCEPT !.phase = AfterKeyUp, !.keyDown = FALSE]
    [] paste.phase = "shift_up"   -> [paste EXCEPT !.phase = "idle", !.shiftDown = FALSE]

NextAction(p) ==
  IF p.phase # "idle" THEN [p EXCEPT !.frames = 0]
  ELSE IF p.index = Len(p.text) THEN NoPaste
  ELSE [p EXCEPT !.index = @ + 1, !.frames = 0, !.phase = FirstPhase(p.text[p.index + 1])]

-----------------------------------------------------------------------------
Init ==
  /\ keys = [ref |-> {},
             matrix |-> [map |-> {}, held |-> {}, age |-> [k \in Keys |-> Hold],
                         queue |-> <<>>, forced |-> FALSE],
             fifo |-> [buffers |-> 0, full |-> FALSE, event |-> FALSE, overrun |-> FALSE]]
  /\ mirror = FALSE /\ paste = NoPaste /\ seen = {}
  /\ known = {} /\ typed = <<>> /\ goal = <<>> /\ used = 0

Use == used < MaxUser /\ used' = used + 1

(* Anything but the paste itself that touches the keys makes what the     *)
(* guest reads the user's business.                                        *)
Disturb == goal' = <<>> /\ typed' = <<>>

(* A key made anew, or no longer pressed, has not been seen. *)
Known(s) ==
  {k \in known \cap s.matrix.map : s.matrix.age[k] = keys.matrix.age[k]}

Sent(s) == keys' = s /\ known' = Known(s) /\ UNCHANGED seen

Press(k) ==
  /\ Use /\ Disturb
  /\ Sent(SendData(keys, Make(k)))
  /\ mirror' = (mirror \/ k = Shift)
  /\ UNCHANGED paste

Release(k) ==
  /\ Use /\ Disturb
  /\ Sent(SendData(keys, Break(k)))
  /\ mirror' = (mirror /\ k # Shift)
  /\ UNCHANGED paste

(* A key of a US layout: press and release in one host event, with the     *)
(* shift the guest's layout wants instead of the one the user holds.       *)
Tap(k, chord) ==
  /\ Use /\ Disturb
  /\ Sent(SendAll(keys,
            When(mirror, <<Break(Shift)>>) \o When(chord, <<Make(Shift)>>)
              \o <<Make(k), Break(k)>>
              \o When(chord, <<Break(Shift)>>) \o When(mirror, <<Make(Shift)>>)))
  /\ UNCHANGED <<mirror, paste>>

StartPaste(t) ==
  /\ Use
  /\ paste' = [NoPaste EXCEPT !.text = t, !.phase = FirstPhase(t[1])]
  /\ Sent(AllRelease(SendAll(keys, HeldKeys(paste))))
  /\ typed' = <<>>
  /\ goal' = IF keys.matrix.queue = <<>> /\ keys.matrix.map = seen THEN t ELSE <<>>
  /\ UNCHANGED mirror

(* Focus lost, quit, or the keyboard reset by the front end. *)
Cancel ==
  /\ paste.text # <<>>
  /\ Disturb
  /\ paste' = NoPaste
  /\ Sent(SendAll(keys, HeldKeys(paste)))
  /\ UNCHANGED <<mirror, used>>

(* 20 ms of host time and FramesPerEvent guest frames have passed. *)
PasteStep ==
  /\ paste.text # <<>>
  /\ paste.frames >= FramesPerEvent
  /\ Sent(SendAll(keys, PasteEvents))
  /\ paste' = NextAction(Stepped)
  /\ UNCHANGED <<mirror, typed, goal, used>>

(* The GUI has the keyboard: keys that are down are released at once. *)
PausedRelease ==
  /\ paste.phase \in {"key_up", "shift_up"}
  /\ Sent(SendAll(keys, PasteEvents))
  /\ paste' = NextAction(Stepped)
  /\ UNCHANGED <<mirror, typed, goal, used>>

PausedUnshift ==
  /\ Use
  /\ paste.phase = "key_down" /\ paste.shiftDown
  /\ Sent(SendAll(keys, <<Break(Shift)>>))
  /\ paste' = [paste EXCEPT !.phase = "shift_down", !.shiftDown = FALSE]
  /\ UNCHANGED <<mirror, typed, goal>>

(* A guest frame: the matrix ticks at the vertical retrace, the guest      *)
(* scans it, and the paste counts the frame.                               *)
NewKeys(m) ==
  LET upTo[i \in 0 .. Len(KeyOrder)] ==
        IF i = 0 THEN <<>>
        ELSE IF KeyOrder[i] \in m.map \ (seen \cup {Shift})
        THEN Append(upTo[i - 1], [key |-> KeyOrder[i], shift |-> Shift \in m.map])
        ELSE upTo[i - 1]
  IN upTo[Len(KeyOrder)]

Frame ==
  LET m == [MatrixTick(keys.matrix) EXCEPT !.forced = FALSE]
      s == [keys EXCEPT !.matrix = m]
  IN /\ keys' = s
     /\ seen' = m.map
     /\ known' = m.map
     /\ typed' = IF goal = <<>> THEN typed ELSE typed \o NewKeys(m)
     /\ paste' = IF paste.text # <<>> /\ paste.frames < FramesPerEvent
                 THEN [paste EXCEPT !.frames = @ + 1] ELSE paste
     /\ UNCHANGED <<mirror, goal, used>>

(* matrix_tick is a UINT8: a key held for 256 ticks looks just pressed.    *)
LongHold(k) ==
  /\ Use /\ Disturb
  /\ k \in keys.matrix.map /\ keys.matrix.age[k] = Hold
  /\ keys' = [keys EXCEPT !.matrix.age[k] = 0]
  /\ UNCHANGED <<mirror, paste, seen, known>>

KeyboardCallback ==
  LET f == keys.fifo
  IN /\ f.event
     /\ keys' = [keys EXCEPT !.fifo =
          IF f.buffers = 0 THEN [f EXCEPT !.event = FALSE]
          ELSE [f EXCEPT !.full = TRUE, !.buffers = IF f.full THEN @ ELSE @ - 1]]
     /\ UNCHANGED <<mirror, paste, seen, known, typed, goal, used>>

ReadData ==
  /\ keys.fifo.full
  /\ keys' = [keys EXCEPT !.fifo.full = FALSE]
  /\ UNCHANGED <<mirror, paste, seen, known, typed, goal, used>>

(* 197H bit 0: the keyboard starts over and reports the keys still held. *)
ResetSignal ==
  /\ Use /\ Disturb
  /\ Sent(ResendStat([keys EXCEPT !.matrix.map = {}, !.matrix.forced = TRUE,
            !.fifo = [buffers |-> 0, full |-> FALSE, event |-> FALSE, overrun |-> FALSE]]))
  /\ UNCHANGED <<mirror, paste>>

MachineReset ==
  /\ Use /\ Disturb
  /\ Sent([keys EXCEPT !.matrix = FlushMatrix(@),
            !.fifo = [buffers |-> 0, full |-> FALSE, event |-> FALSE, overrun |-> FALSE]])
  /\ UNCHANGED <<mirror, paste>>

Next ==
  \/ \E k \in Keys : Press(k) \/ Release(k)
  \/ \E k \in Keys \ {Shift}, chord \in BOOLEAN : Tap(k, chord)
  \/ \E t \in Texts : StartPaste(t)
  \/ Cancel
  \/ PasteStep
  \/ PausedRelease
  \/ PausedUnshift
  \/ Frame
  \/ \E k \in Keys : LongHold(k)
  \/ KeyboardCallback
  \/ ReadData
  \/ ResetSignal
  \/ MachineReset

(* Frames go on, so do nevent's events, and the GUI gives the keyboard     *)
(* back: nothing else has to happen.                                       *)
Fairness == WF_vars(Frame) /\ WF_vars(KeyboardCallback) /\ WF_vars(PasteStep)

Spec     == Init /\ [][Next]_vars
FairSpec == Spec /\ Fairness

-----------------------------------------------------------------------------
Events == [key : Keys, up : BOOLEAN]

TypeOK ==
  /\ keys.ref \subseteq Keys
  /\ keys.matrix.map \subseteq Keys /\ keys.matrix.held \subseteq Keys
  /\ keys.matrix.age \in [Keys -> 0 .. Hold]
  /\ Range(keys.matrix.queue) \subseteq Events /\ Len(keys.matrix.queue) <= QueueMax
  /\ keys.fifo \in [buffers : 0 .. FifoMax, full : BOOLEAN, event : BOOLEAN, overrun : BOOLEAN]
  /\ mirror \in BOOLEAN /\ paste.frames \in 0 .. FramesPerEvent
  /\ seen \subseteq Keys /\ known \subseteq Keys

(* Whatever is queued, overflows, is resent or flushed, the matrix ends up *)
(* showing exactly the keys keystat holds: none is stuck, none is lost     *)
(* (io/serial.c, matrix_send: "never lose an event; give up pacing         *)
(* instead").                                                              *)
Settles == FlushMatrix(keys.matrix).map = keys.ref

(* A key disappears from the matrix only after a guest that scans it once  *)
(* per VRTC has seen its last make, unless the queue was full or a reset   *)
(* emptied it (io/serial.c, "A release is therefore applied only after the *)
(* key has been visible across KB_MATRIX_HOLD VRTC boundaries").  It is a  *)
(* property of steps.                                                      *)
SeenBeforeRelease ==
  \A k \in keys.matrix.map \ keys'.matrix.map : k \in known \/ keys'.matrix.forced

(* A paste nobody disturbs types its text, every repeated character and    *)
(* every shift of it, however often the GUI takes the keyboard meanwhile   *)
(* (sdl2/kbdpaste.c, "a repeated character lost its repeats").             *)
PasteTyped ==
  goal # <<>> =>
    /\ Len(typed) <= Len(goal) /\ typed = SubSeq(goal, 1, Len(typed))
    /\ paste.text = <<>> /\ keys.matrix.queue = <<>> => typed = goal

(* What comes again and again: pastes end and the matrix queue empties, so *)
(* that what the host holds is what the guest sees (sdl2/kbdpaste.c,       *)
(* io/serial.c keyboard_matrix_tick).                                      *)
AtRest == paste.text = <<>> /\ keys.matrix.map = keys.ref
=============================================================================
