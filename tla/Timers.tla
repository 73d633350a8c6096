------------------------------- MODULE Timers --------------------------------
(***************************************************************************)
(* The timers that interrupt the guest: timers A and B of the FM chip,     *)
(* sound/fmtimer.c with the mask SINTM of sound/fmboard.c, and channel 0   *)
(* of the interval timer, io/pit.c.  Each runs on an event of the          *)
(* scheduler that its own callback arms again.  The two FM timers share    *)
(* one request; the interval timer has a count that is written and read    *)
(* in two halves, and a flag that says that a request is still owed.       *)
(*                                                                         *)
(* A step is a port access, an event or a clock.  A half of a count is a   *)
(* digit below Base.  The guest reads the count after it has latched it,   *)
(* and both halves of it.                                                  *)
(***************************************************************************)
EXTENDS Integers

CONSTANTS
    Presets,   \* periods of the FM timers in clocks
    Base,      \* values of half a count, 256 in the code
    Cut,       \* a count up to Cut means the longest one; eight in the code
    MaxOps     \* bound of the model: port accesses

VARIABLES
    fm,      \* presets, events, register 27H, status, mask, request, debt
    pit,     \* channel 0 and its event
    guest,   \* what it has read of a latched count
    chip,    \* bound: the chip this behaviour is about; they share nothing
    ops      \* bound

vars == <<fm, pit, guest, chip, ops>>

T == {"A", "B"}
Stopped == -1
Longest == Base * Base
Modes == {"once", "hard", "rate"}   \* modes 0 and 4, 1 and 5, 2 and 3

\* fmtimer_reset
FmReset == [preset |-> [t \in T |-> 1], left |-> [t \in T |-> Stopped], load |-> {},
            enable |-> {}, status |-> {}, masked |-> FALSE, irq |-> FALSE, owed |-> {}]

\* itimer_reset: the count is the longest, and its first end raises a request.
PitReset == [rl |-> "L", mode |-> "rate", lo |-> 0, hi |-> 0, w |-> FALSE, r |-> FALSE,
             l |-> FALSE, c |-> FALSE, i |-> TRUE, latch |-> <<0, 0>>, left |-> Longest,
             irr |-> FALSE, asked |-> 0, loaded |-> FALSE, age |-> 0, wrong |-> FALSE]

NotReading == [job |-> "none"]

Init == /\ fm = FmReset /\ pit = PitReset /\ guest = NotReading /\ ops = 0
        /\ chip \in {"fm", "pit"}

Access(c) == chip = c /\ ops < MaxOps /\ ops' = ops + 1 /\ chip' = chip

-----------------------------------------------------------------------------
(* The FM timers. *)

\* Mutant: an overflow under SINTM is not told to the status.
OverflowMutant(f, t) ==
    LET g == [f EXCEPT !.left[t] = f.preset[t]]
    IN  IF t \notin f.enable \/ f.masked THEN g
        ELSE [g EXCEPT !.status = @ \cup {t}, !.irq = TRUE]

\* fmport_a, fmport_b: SINTM keeps the request back, not the flag.
Overflow(f, t) ==
    LET g == [f EXCEPT !.left[t] = f.preset[t]]
    IN  IF t \notin f.enable THEN g
        ELSE [g EXCEPT !.status = @ \cup {t}, !.irq = @ \/ ~f.masked]

\* History: the flags nobody has been asked to look at yet.
Owing(f) == [f EXCEPT !.owed = IF f.irq THEN {} ELSE @]

FmEvent(t) ==
    /\ fm.left[t] = 0
    /\ fm' = Owing([Overflow(fm, t) EXCEPT !.owed = @ \cup ({t} \cap fm.enable)])
    /\ UNCHANGED <<pit, guest, chip, ops>>

\* fmtimer_setreg, registers 24H to 26H: for the next period.
SetPreset(t, p) ==
    Access("fm") /\ fm' = [fm EXCEPT !.preset[t] = p] /\ UNCHANGED <<pit, guest>>

\* Register 27H: a timer that runs is not started again, and the request is
\* withdrawn only when both stop.
SetControl(load, enable, clear) ==
    /\ Access("fm")
    /\ LET left == [t \in T |-> IF t \notin load THEN Stopped
                                ELSE IF fm.left[t] = Stopped THEN fm.preset[t] ELSE fm.left[t]]
           f == [fm EXCEPT !.load = load, !.enable = enable, !.status = @ \ clear,
                           !.owed = @ \ clear, !.left = left]
       IN  fm' = IF load = {} THEN [f EXCEPT !.irq = FALSE] ELSE f
    /\ UNCHANGED <<pit, guest>>

\* fmboard_setintmask, by port 32H
SetIntMask(m) ==
    /\ Access("fm")
    /\ fm' = IF m /\ ~fm.masked THEN [fm EXCEPT !.masked = TRUE, !.irq = FALSE]
             ELSE IF ~m /\ fm.masked
             THEN Owing([fm EXCEPT !.masked = FALSE, !.irq = @ \/ fm.status # {}])
             ELSE fm
    /\ UNCHANGED <<pit, guest>>

\* The controller takes the request.
TakeFm == fm.irq /\ fm' = [fm EXCEPT !.irq = FALSE] /\ UNCHANGED <<pit, guest, chip, ops>>

-----------------------------------------------------------------------------
(* Channel 0 of the interval timer. *)

Value(p) == p.hi * Base + p.lo

\* setsystimerevent
Period(n) == IF n > Cut THEN n ELSE Longest

\* Mutant: a one-shot keeps the flag.
SystimerMutant(p) ==
    LET q == IF p.i THEN [p EXCEPT !.irr = TRUE, !.asked = @ + 1] ELSE p
    IN  [q EXCEPT !.left = IF p.mode = "rate" THEN Period(Value(p)) ELSE Longest, !.i = TRUE]

\* systimer: in the rate mode the next period begins where this one ended.
Systimer(p) ==
    LET q == IF p.i THEN [p EXCEPT !.i = FALSE, !.irr = TRUE, !.asked = @ + 1] ELSE p
    IN  IF p.mode = "rate" THEN [q EXCEPT !.i = TRUE, !.left = Period(Value(p))]
        ELSE [q EXCEPT !.left = Longest]

\* History: a request while a count runs comes at the end of a period.
Judged(p, q) ==
    [q EXCEPT !.wrong = @ \/ (p.loaded /\ q.asked # p.asked /\ p.age # Period(Value(p))),
              !.age = 0,
              !.asked = IF p.mode = "rate" THEN 0 ELSE q.asked]

PitEvent ==
    pit.left = 0 /\ pit' = Judged(pit, Systimer(pit)) /\ UNCHANGED <<fm, guest, chip, ops>>

\* pit_o77 and pit_setflag: the event that was armed stays, so that its
\* request may come before there is a count.
ControlWord(rl, mode) ==
    /\ Access("pit")
    /\ pit' = [pit EXCEPT !.rl = rl, !.mode = mode, !.r = FALSE, !.w = FALSE, !.l = FALSE,
                          !.c = FALSE, !.i = TRUE, !.irr = FALSE, !.asked = 0, !.loaded = FALSE]
    /\ guest' = NotReading /\ UNCHANGED fm

\* getcount: what is left of the event, no more than two digits.
Count(p) == IF p.left > 0 THEN <<p.left % Base, (p.left \div Base) % Base>> ELSE <<0, 0>>

\* pit_o77 with a latch command
Latch ==
    /\ Access("pit") /\ guest.job = "none"
    /\ pit' = [pit EXCEPT !.c = TRUE, !.l = FALSE, !.latch = Count(pit), !.irr = FALSE]
    /\ guest' = [job |-> "latched", count |-> Count(pit)]
    /\ UNCHANGED fm

\* pit_setcount and pit_o71: the first half of a word changes the value only;
\* a hardware-started mode waits for its request to be taken.
WriteCount(d) ==
    /\ Access("pit")
    /\ LET half == pit.rl = "W" /\ ~pit.w
           p == CASE pit.rl = "L" -> [pit EXCEPT !.lo = d, !.hi = 0]
                  [] pit.rl = "H" -> [pit EXCEPT !.lo = 0, !.hi = d]
                  [] half -> [pit EXCEPT !.lo = d, !.w = TRUE, !.loaded = FALSE]
                  [] OTHER -> [pit EXCEPT !.hi = d, !.w = FALSE]
       IN  pit' = IF half THEN p
                  ELSE IF pit.mode = "hard" /\ pit.i THEN [p EXCEPT !.loaded = FALSE]
                  ELSE [p EXCEPT !.irr = FALSE, !.i = TRUE, !.left = Period(Value(p)),
                                 !.asked = 0, !.loaded = TRUE, !.age = 0]
    /\ UNCHANGED <<fm, guest>>

\* Mutant: the second half is read from the running count.
ReadMutant(p) ==
    LET from == IF p.c THEN p.latch ELSE Count(p)
    IN  <<[p EXCEPT !.c = FALSE, !.r = IF p.rl = "W" THEN ~@ ELSE @],
          CASE p.rl = "L" -> from[1] [] p.rl = "H" -> from[2]
            [] OTHER -> IF p.r THEN from[2] ELSE from[1]>>

\* pit_getstat: c says that a latched count waits, l that half of it does.
Read(p) ==
    LET latched == p.c \/ p.l
        from == IF latched THEN p.latch ELSE Count(p)
    IN  <<[p EXCEPT !.c = FALSE, !.l = IF latched /\ p.rl = "W" THEN ~@ ELSE @,
                    !.r = IF p.rl = "W" THEN ~@ ELSE @],
          CASE p.rl = "L" -> from[1] [] p.rl = "H" -> from[2]
            [] OTHER -> IF p.r THEN from[2] ELSE from[1]>>

ReadCount ==
    /\ guest.job \in {"latched", "half"}
    /\ LET got == Read(pit)
           place == IF pit.rl = "H" \/ guest.job = "half" THEN 2 ELSE 1
       IN  /\ pit' = [got[1] EXCEPT !.wrong = @ \/ got[2] # guest.count[place]]
           /\ guest' = IF pit.rl = "W" /\ guest.job = "latched" THEN [guest EXCEPT !.job = "half"]
                       ELSE NotReading
    /\ UNCHANGED <<fm, chip, ops>>

TakePit == pit.irr /\ pit' = [pit EXCEPT !.irr = FALSE] /\ UNCHANGED <<fm, guest, chip, ops>>

-----------------------------------------------------------------------------
\* A clock, once every event that is due has been called.
Tick ==
    /\ \/ /\ chip = "pit" /\ pit.left > 0 /\ fm' = fm
          /\ pit' = [pit EXCEPT !.left = @ - 1, !.age = IF pit.loaded THEN @ + 1 ELSE 0]
       \/ /\ chip = "fm" /\ (\A t \in T : fm.left[t] # 0) /\ pit' = pit
          /\ fm' = [fm EXCEPT !.left = [t \in T |-> IF @[t] = Stopped THEN Stopped ELSE @[t] - 1]]
    /\ UNCHANGED <<guest, chip, ops>>

Next ==
    \/ \E t \in T : FmEvent(t)
    \/ \E t \in T, p \in Presets : SetPreset(t, p)
    \/ \E load, enable, clear \in SUBSET T : SetControl(load, enable, clear)
    \/ \E m \in BOOLEAN : SetIntMask(m)
    \/ \E rl \in {"L", "H", "W"}, mode \in Modes : ControlWord(rl, mode)
    \/ \E d \in 0..(Base - 1) : WriteCount(d)
    \/ TakeFm \/ PitEvent \/ Latch \/ ReadCount \/ TakePit \/ Tick

Spec == Init /\ [][Next]_vars

-----------------------------------------------------------------------------
TypeOK ==
    /\ fm.left \in [T -> -1..Longest] /\ fm.owed \subseteq T
    /\ pit.left \in 0..Longest /\ Value(pit) \in 0..(Longest - 1)

\* An enabled overflow that SINTM held back is asked for as soon as SINTM
\* lets it, and an FM timer runs exactly while register 27H says so.
FmAsked ==
    /\ ~fm.masked => fm.owed = {}
    /\ \A t \in T : (fm.left[t] # Stopped) = (t \in fm.load)

\* A count that was loaded ends in one request, at its end and, in the rate
\* mode, at the end of each period after it.
OneRequest == pit.asked <= 1

\* No request comes before its time while a count runs, and the two halves
\* of a latched count are of the same moment.
OnTime == ~pit.wrong
=============================================================================
