-------------------------------- MODULE Pic ---------------------------------
(***************************************************************************)
(* The interrupt controllers of io/pic.c: the uPD8259 master and slave,    *)
(* the uPD8214 compatible controller that stands at the master's IR7 until *)
(* port 158H selects 8259 mode, and their place in the loop of pccore_exec *)
(* (machine/pccore.c): pic_irq arbitrates only between two slices of CPU   *)
(* time, so whatever lets an interrupt through has to end the slice.       *)
(*                                                                         *)
(* A step of the guest is one instruction.  IR numbers, levels and the     *)
(* commands written are small sets; vectors are the line they stand for.   *)
(* ICW2, and an ICW3 other than the one of reset, are left out.            *)
(***************************************************************************)
EXTENDS Integers, Sequences, FiniteSets

CONSTANTS
    MasterLines, SlaveLines, \* how many IR inputs each has; 8 in the code.
                             \*   The last one of the master is the cascade.
    InitMask,                \* OCW1 after reset, [{"M", "S"} -> set of lines]
    Timer, Crtv,             \* PIC_SYSTEMTIMER and PIC_CRTV of the master, or -1
    LevelLines,              \* slave lines driven by pic_setirq_level: the NDP
    Levels,                  \* the levels of the 8214
    LevelOf,                 \* pic8214_level_of: [controller \X line -> level or -1]
    Maskable,                \* levels that port E6H masks
    DirectLevels,            \* levels that are no IR of the 8259s: RXRDY
    Timer2,                  \* PIC8214_TIMER2
    Modes,                   \* the values of cpu the guest makes use of
    Ocw1, Ocw2, Ocw3, Icw1,  \* what the guest writes, per controller
    Statuses, E6Masks        \* what it writes to E4H and E6H

Ctrl == {"M", "S"}
Lines == [M |-> 0..(MasterLines - 1), S |-> 0..(SlaveLines - 1)]
Size == [M |-> MasterLines, S |-> SlaveLines]
Cascade == MasterLines - 1
NoLevel == -1      \* PIC8214_NONE, or nothing to offer

Command == [sl : BOOLEAN, l : Nat, eoi : BOOLEAN, rotate : BOOLEAN]

\* What the proofs need of the parameters.
ASSUME PicAssumption ==
    /\ MasterLines \in Nat \ {0} /\ SlaveLines \in Nat \ {0}
    /\ InitMask \in [Ctrl -> SUBSET Nat] /\ \A c \in Ctrl : InitMask[c] \subseteq Lines[c]
    /\ LevelLines \subseteq Lines["S"] /\ Timer # Cascade
    /\ Levels \subseteq Nat /\ Maskable \cup DirectLevels \cup {Timer2} \subseteq Levels
    /\ \A c \in Ctrl : \A l \in Lines[c] : LevelOf[<<c, l>>] \in Levels \cup {NoLevel}
    /\ Modes \in {{"native"}, {"native", "compat", "call"}}
    /\ \A c \in Ctrl : /\ Ocw1[c] \subseteq SUBSET Lines[c]
                       /\ Ocw2[c] \subseteq Command /\ \A cmd \in Ocw2[c] : cmd.l \in Lines[c]
                       /\ Ocw3[c] \subseteq BOOLEAN
                       /\ Icw1[c] \subseteq [ltim : BOOLEAN, ic4 : BOOLEAN]
    /\ Statuses \subseteq [xsgs : BOOLEAN, level : Nat] /\ E6Masks \subseteq SUBSET Maskable

VARIABLES
    irr, imr, isr, \* requests, mask, in service: sets of lines
    pry,           \* the line of highest priority
    smm,           \* special mask mode, OCW3
    icw1,          \* its bits [ltim, ic4]
    aeoi,          \* bit of ICW4
    writeicw,      \* which ICW is expected next, 0 if none
    held,          \* pic_level_state
    picmask,       \* NEVENT_PICMASK is armed
    mode8259, inte, status, mask8214, irr8214, pending,  \* pic8214
    timer2,        \* NEVENT_GENTIMER2 is armed
    ei,            \* CPU_isEI
    cpu,           \* "native", "compat", or "call": native code that an
                   \*   interrupt or CALLN entered and IRET leaves
    phase,         \* pccore_exec: "arb" (pic_irq), "run" (the CPU), "events"
    slice,         \* CPU_REMCLOCK: "open", "one" instruction left, "over"
    vector,        \* the interrupt the last pic_irq took, <<>> if none
    nest,          \* history: lines in service, in the order they were taken
    served,        \* history: held level lines whose request was taken
    plain          \* history: neither rotated nor in special mask mode so far

icu8259 == <<irr, imr, isr, pry, smm, icw1, aeoi, writeicw, held, picmask>>
icu8214 == <<mode8259, inte, status, mask8214, irr8214, pending, timer2>>
machine == <<ei, cpu, phase, slice, vector>>
history == <<nest, served, plain>>
vars == <<icu8259, icu8214, machine, history>>

\* The 8259s but for their requests.
Others8259 == <<imr, isr, pry, smm, icw1, aeoi, writeicw, held, picmask>>

Init ==
    /\ irr = [c \in Ctrl |-> {}] /\ isr = irr /\ imr = InitMask
    /\ pry = [c \in Ctrl |-> 0] /\ writeicw = pry
    /\ smm = [c \in Ctrl |-> FALSE] /\ aeoi = smm
    /\ icw1 = [c \in Ctrl |-> [ltim |-> FALSE, ic4 |-> TRUE]]
    /\ held = {} /\ picmask = FALSE
    /\ mode8259 = FALSE /\ inte = FALSE /\ status = [xsgs |-> FALSE, level |-> 0]
    /\ mask8214 = {} /\ irr8214 = {} /\ pending = NoLevel /\ timer2 = FALSE
    /\ ei = FALSE /\ cpu = "native" /\ phase = "arb" /\ slice = "open"
    /\ vector = <<>>
    /\ nest = [c \in Ctrl |-> <<>>] /\ served = {} /\ plain = [c \in Ctrl |-> TRUE]

-----------------------------------------------------------------------------
(***************************************************************************)
(* The 8214: what it offers, and its INT output at the master's IR7.       *)
(***************************************************************************)
Lowest(s) == CHOOSE l \in s : \A k \in s : l <= k

Select(on, req, st, pend) ==
    IF ~on \/ pend # NoLevel \/ req = {} THEN NoLevel
    ELSE IF st.xsgs \/ Lowest(req) < st.level THEN Lowest(req) ELSE NoLevel

Offered == Select(inte, irr8214, status, pending)

\* pic8214_update: the INT output follows the offer.
WithInt(r, offer) ==
    [r EXCEPT !["M"] = IF offer # NoLevel THEN @ \cup {Cascade} ELSE @ \ {Cascade}]

\* pic8214_request with the requests r of the 8259s: E6H masks the input.
Latch(lv, r) ==
    IF mode8259 \/ (lv \in Maskable /\ lv \notin mask8214)
    THEN irr8214' = irr8214 /\ irr' = r
    ELSE irr8214' = irr8214 \cup {lv} /\ irr' = WithInt(r, Offered')

-----------------------------------------------------------------------------
(***************************************************************************)
(* Priority, and pic_irq.                                                  *)
(***************************************************************************)
Rank(c, l) == (l + Size[c] - pry[c]) % Size[c]
First(c, s) == CHOOSE l \in s : \A k \in s : Rank(c, l) <= Rank(c, k)

\* pic_apply_level_requests; only the NDP, on the slave, has a level input.
WithHeld(r) == IF icw1["S"].ltim THEN [r EXCEPT !["S"] = @ \cup held] ELSE r

\* Mutant: a line in service does not hold back those below it.
RivalsMutant(c, s) == s

Rivals(c, s) == IF smm[c] THEN s ELSE s \cup isr[c]

\* What pic_irq would do with the requests r: the line it takes, <<"M", 7>> for
\* the 8214, or <<>>.
Choice(r) ==
    LET sir == IF mode8259 THEN r["S"] \ imr["S"] ELSE {}
        mir == (r["M"] \cup (IF sir = {} THEN {} ELSE {Cascade})) \ imr["M"]
        m == First("M", Rivals("M", mir))
        s == First("S", Rivals("S", sir))
    IN  IF mir = {} THEN <<>>
        ELSE IF m # Cascade THEN IF m \in isr["M"] THEN <<>> ELSE <<"M", m>>
        ELSE IF ~mode8259 THEN <<"M", Cascade>>
        ELSE IF sir = {} \/ s \in isr["S"] THEN <<>> ELSE <<"S", s>>

\* Mutants: what is taken stays requested; all requests of a controller go.
TakenMutant(r, t) == r
TakenMutantAll(r, t) == [c \in Ctrl |-> IF \E l \in Lines[c] : <<c, l>> \in t THEN {} ELSE r[c]]

\* The requests r less the lines t.
Taken(r, t) == [c \in Ctrl |-> r[c] \ {l \in Lines[c] : <<c, l>> \in t}]

\* The lines t go into service, those of a controller with AEOI apart.
Serve(t) ==
    LET new(c) == {l \in Lines[c] : <<c, l>> \in t /\ ~aeoi[c]}
    IN  /\ served' = served \cup {l \in held : <<"S", l>> \in t}
        /\ isr' = [c \in Ctrl |-> isr[c] \cup new(c)]
        /\ nest' = [c \in Ctrl |-> IF plain[c] /\ ~(new(c) \subseteq isr[c])
                                   THEN Append(nest[c], CHOOSE l \in new(c) : TRUE)
                                   ELSE nest[c]]

\* CPU_INTERRUPT: the flags are pushed and interrupts disabled.
Interrupt(v) ==
    /\ vector' = v /\ ei' = FALSE
    /\ cpu' = IF cpu = "compat" THEN "call" ELSE cpu

TakeMaster(r, l) ==
    /\ Serve({<<"M", l>>})
    /\ irr' = Taken(r, {<<"M", l>>})
    /\ picmask' = (picmask /\ l # 0)
    /\ Interrupt(<<"M", l>>)
    /\ UNCHANGED icu8214

TakeSlave(r, l) ==
    /\ Serve({<<"M", Cascade>>, <<"S", l>>})
    /\ irr' = Taken(r, {<<"M", Cascade>>, <<"S", l>>})
    /\ Interrupt(<<"S", l>>)
    /\ UNCHANGED <<picmask, icu8214>>

\* Mutant: the controller stays armed.
AcceptMutant(lv, r) ==
    /\ irr8214' = irr8214 \ {lv} /\ UNCHANGED inte
    /\ irr' = WithInt(r, Offered')

\* pic8214_accept: after it nothing is offered.
Accept(lv, r) ==
    /\ irr8214' = irr8214 \ {lv} /\ inte' = FALSE
    /\ irr' = Taken(r, {<<"M", Cascade>>})

\* pic8214_deliver: native code is interrupted at once, compatible code is
\* offered the level until it acknowledges.
Deliver8214(r) ==
    LET rest == Taken(r, {<<"M", Cascade>>})
    IN  /\ UNCHANGED <<picmask, mode8259, status, mask8214, timer2>>
        /\ \/ /\ Offered = NoLevel
              /\ irr' = rest
              /\ UNCHANGED <<isr, nest, served, irr8214, inte, pending, vector, ei, cpu>>
           \/ /\ Offered # NoLevel
              /\ Serve({<<"M", Cascade>>})
              /\ \/ /\ cpu = "compat"
                    /\ pending' = Offered
                    /\ irr' = rest
                    /\ UNCHANGED <<irr8214, inte, vector, ei, cpu>>
                 \/ /\ cpu # "compat"
                    /\ UNCHANGED pending
                    /\ Accept(Offered, rest)
                    /\ Interrupt(<<"8214", Offered>>)

PicIrq ==
    /\ phase = "arb" /\ phase' = "run" /\ slice' = "open"
    /\ UNCHANGED <<imr, pry, smm, icw1, aeoi, writeicw, held, plain>>
    /\ \/ /\ ~ei
          /\ UNCHANGED <<irr, isr, picmask, icu8214, ei, cpu, vector, nest, served>>
       \/ /\ ei
          /\ LET raised == WithHeld(irr)
                 seen == IF mode8259 THEN raised ELSE WithInt(raised, Offered)
                 v == Choice(seen)
             IN  \/ /\ v = <<>>
                    /\ irr' = seen
                    /\ UNCHANGED <<isr, picmask, icu8214, ei, cpu, vector, nest, served>>
                 \/ v # <<>> /\ v[1] = "S" /\ TakeSlave(seen, v[2])
                 \/ /\ v = <<"M", Cascade>> /\ ~mode8259
                    /\ Deliver8214(seen)
                 \/ /\ v # <<>> /\ v[1] = "M" /\ (v[2] # Cascade \/ mode8259)
                    /\ TakeMaster(seen, v[2])

-----------------------------------------------------------------------------
(***************************************************************************)
(* Requests of the devices.                                                *)
(***************************************************************************)
\* pic_setirq.  In 8214 mode there is no slave; a masked system timer is taken
\* back when NEVENT_PICMASK comes, which is armed if channel 0 of the PIT runs
\* as a rate generator.
SetIrq(c, l) ==
    /\ UNCHANGED <<mode8259, inte, status, mask8214, pending, timer2>>
    /\ LET twice == c = "M" /\ l = Crtv /\ l \in isr[c]
           set == IF c = "S" /\ ~mode8259 THEN irr
                  ELSE [irr EXCEPT ![c] = IF twice THEN @ \ {l} ELSE @ \cup {l}]
       IN  IF LevelOf[<<c, l>>] = NoLevel THEN irr' = set /\ UNCHANGED irr8214
           ELSE Latch(LevelOf[<<c, l>>], set)
    /\ \/ UNCHANGED picmask
       \/ c = "M" /\ l = Timer /\ l \in imr[c] /\ picmask' = TRUE

\* Inside an instruction, where a port handler runs.
InInstruction == phase = "run" /\ slice # "over"

\* A device raises its line from a port handler or from an event.
Request(c, l) ==
    /\ InInstruction \/ phase = "events"
    /\ SetIrq(c, l)
    /\ UNCHANGED <<imr, isr, pry, smm, icw1, aeoi, writeicw, held, machine, history>>

\* RXRDY of the serial port and the cassette goes to the 8214 directly.
Request8214(lv) ==
    /\ InInstruction \/ phase = "events"
    /\ UNCHANGED <<mode8259, inte, status, mask8214, pending, timer2>>
    /\ Latch(lv, irr)
    /\ UNCHANGED <<Others8259, machine, history>>

\* pic_resetirq
Withdraw(c, l) ==
    /\ InInstruction
    /\ irr' = [irr EXCEPT ![c] = @ \ {l}]
    /\ UNCHANGED <<Others8259, icu8214, machine, history>>

\* Mutant: a held input makes a new request at every instruction of the NDP.
NewEdgeMutant(l) == TRUE

NewEdge(l) == icw1["S"].ltim \/ l \notin held

\* pic_setirq_level, at every instruction of the NDP.
SetLevel(l, asserted) ==
    /\ InInstruction
    /\ held' = IF asserted THEN held \cup {l} ELSE held \ {l}
    /\ irr' = [irr EXCEPT !["S"] =
                  IF asserted /\ NewEdge(l) THEN @ \cup {l}
                  ELSE IF ~asserted /\ icw1["S"].ltim THEN @ \ {l} ELSE @]
    /\ served' = IF asserted THEN served ELSE served \ {l}
    /\ UNCHANGED <<imr, isr, pry, smm, icw1, aeoi, writeicw, picmask, icu8214,
                   machine, nest, plain>>

\* picmask, the callback of NEVENT_PICMASK.
PicMask ==
    /\ phase = "events" /\ picmask
    /\ picmask' = FALSE
    /\ irr' = [irr EXCEPT !["M"] = @ \ (imr["M"] \cap {Timer})]
    /\ UNCHANGED <<imr, isr, pry, smm, icw1, aeoi, writeicw, held, icu8214,
                   machine, history>>

\* pic8214_timer2, which runs on only while the level is enabled.
GenTimer2 ==
    /\ phase = "events" /\ timer2
    /\ UNCHANGED <<mode8259, inte, status, mask8214, pending>>
    /\ IF mode8259 \/ Timer2 \notin mask8214
       THEN timer2' = FALSE /\ UNCHANGED <<irr8214, irr>>
       ELSE Latch(Timer2, irr) /\ UNCHANGED timer2
    /\ UNCHANGED <<Others8259, machine, history>>

-----------------------------------------------------------------------------
(***************************************************************************)
(* Instructions of the guest.                                              *)
(***************************************************************************)
\* One instruction; how it leaves the slice: "over" after nevent_forceexit or
\* IRQCHECKTERM, "one" after REMAIN_ADJUST(1), else as it was.
Instruction(leaves) ==
    /\ phase = "run" /\ slice # "over"
    /\ slice' = IF leaves = "open" /\ slice = "one" THEN "over" ELSE leaves
    /\ UNCHANGED <<phase, vector>>

PicExistIntr == irr["M"] \ imr["M"] # {} \/ irr["S"] \ imr["S"] # {}

\* Mutant: the slice goes on.
EndsMutant == "open"

\* nevent_forceexit
Ends == "over"

\* The line of highest priority once l has the lowest.
After(c, l) == (l + 1) % Size[c]

\* The sequence s without l, which it holds at most once.
Without(s, l) ==
    IF \A i \in 1..Len(s) : s[i] # l THEN s
    ELSE LET p == CHOOSE i \in 1..Len(s) : s[i] = l
         IN  [i \in 1..(Len(s) - 1) |-> IF i < p THEN s[i] ELSE s[i + 1]]

\* OCW2: [sl, l, eoi, rotate].  Without SL it means the line in service of the
\* highest priority, and nothing happens if there is none.
WriteOcw2(c, cmd) ==
    LET idle == ~cmd.sl /\ isr[c] = {}
        l == IF cmd.sl THEN cmd.l ELSE First(c, isr[c])
    IN  /\ Instruction(IF idle THEN "open" ELSE Ends)
        /\ writeicw' = [writeicw EXCEPT ![c] = 0]
        /\ \/ idle /\ UNCHANGED <<pry, isr, irr, nest, plain>>
           \/ /\ ~idle
              /\ pry' = [pry EXCEPT ![c] = IF cmd.rotate THEN After(c, l) ELSE @]
              /\ plain' = [plain EXCEPT ![c] = @ /\ ~cmd.rotate]
              /\ isr' = [isr EXCEPT ![c] = IF cmd.eoi THEN @ \ {l} ELSE @]
              /\ nest' = [nest EXCEPT ![c] = IF ~plain'[c] THEN <<>>
                                             ELSE IF cmd.eoi THEN Without(@, l) ELSE @]
              /\ irr' = IF cmd.eoi THEN WithHeld(irr) ELSE irr
        /\ UNCHANGED <<served, imr, smm, icw1, aeoi, held, picmask, icu8214, ei, cpu>>

\* OCW3 with ESMM.
WriteOcw3(c, on) ==
    /\ Instruction("open")
    /\ writeicw' = [writeicw EXCEPT ![c] = 0]
    /\ smm' = [smm EXCEPT ![c] = on]
    /\ plain' = [plain EXCEPT ![c] = @ /\ ~on]
    /\ nest' = [nest EXCEPT ![c] = IF on THEN <<>> ELSE @]
    /\ UNCHANGED <<served, irr, imr, isr, pry, icw1, aeoi, held, picmask, icu8214, ei, cpu>>

\* ICW1: [ltim, ic4].  Lines in service stay so.
WriteIcw1(c, icw) ==
    /\ Instruction("open")
    /\ icw1' = [icw1 EXCEPT ![c] = icw]
    /\ imr' = [imr EXCEPT ![c] = {}] /\ irr' = [irr EXCEPT ![c] = {}]
    /\ smm' = [smm EXCEPT ![c] = FALSE] /\ pry' = [pry EXCEPT ![c] = 0]
    /\ writeicw' = [writeicw EXCEPT ![c] = 1]
    /\ UNCHANGED <<isr, aeoi, held, picmask, icu8214, ei, cpu, history>>

\* Mutant: the mask is written and that is all.
UnmaskEndsMutant(c, mask) == "open"

\* OCW1 ends the slice if it lets through a request of this controller.
UnmaskEnds(c, mask) ==
    IF ~ei \/ irr[c] \cap (imr[c] \ mask) = {} THEN "open" ELSE Ends

WriteOcw1(c, mask) ==
    /\ writeicw[c] = 0
    /\ Instruction(UnmaskEnds(c, mask))
    /\ imr' = [imr EXCEPT ![c] = mask]
    /\ UNCHANGED <<irr, isr, pry, smm, icw1, aeoi, writeicw, held, picmask, icu8214,
                   ei, cpu, history>>

\* Mutant: every initialisation is taken to have an ICW4 and one more.
IcwAfterMutant(c) == writeicw[c] + 1

\* ICW2, ICW3 and, if ICW1 said so, ICW4.
IcwAfter(c) ==
    IF writeicw[c] + 1 >= (IF icw1[c].ic4 THEN 4 ELSE 3) THEN 0 ELSE writeicw[c] + 1

WriteIcw(c, auto) ==
    /\ writeicw[c] # 0
    /\ Instruction(Ends)
    /\ aeoi' = [aeoi EXCEPT ![c] = IF writeicw[c] = 3 THEN auto ELSE @]
    /\ writeicw' = [writeicw EXCEPT ![c] = IcwAfter(c)]
    /\ irr' = WithHeld(irr)
    /\ UNCHANGED <<imr, isr, pry, smm, icw1, held, picmask, icu8214, ei, cpu, history>>

Arm == inte' = TRUE

\* Port E4H
WriteE4(st) ==
    /\ Instruction(Ends)
    /\ status' = st /\ Arm
    /\ UNCHANGED <<mode8259, mask8214, irr8214, pending, timer2>>
    /\ irr' = IF mode8259 THEN irr ELSE WithInt(irr, Offered')
    /\ UNCHANGED <<Others8259, ei, cpu, history>>

StartTimer2(mask) == timer2 \/ (~mode8259 /\ Timer2 \in mask)

\* Port E6H.  What is latched stays latched.
WriteE6(mask) ==
    /\ Instruction("open")
    /\ mask8214' = mask
    /\ timer2' = StartTimer2(mask)
    /\ UNCHANGED <<mode8259, inte, status, irr8214, pending, irr>>
    /\ UNCHANGED <<Others8259, ei, cpu, history>>

Leave == irr' = [irr EXCEPT !["M"] = @ \ {Cascade}]

\* Port 158H, pic_select_8259_mode.
Write158 ==
    /\ ~mode8259
    /\ Instruction("open")
    /\ mode8259' = TRUE /\ irr8214' = {} /\ inte' = FALSE /\ pending' = NoLevel
    /\ timer2' = FALSE
    /\ Leave
    /\ UNCHANGED <<status, mask8214, Others8259, ei, cpu, history>>

\* STI, and EI of compatible code: one more instruction, then pic_irq.
Sti ==
    /\ ~ei
    /\ Instruction(IF PicExistIntr THEN "one" ELSE "open")
    /\ ei' = TRUE
    /\ UNCHANGED <<icu8259, icu8214, cpu, history>>

Cli ==
    /\ Instruction("open")
    /\ ei' = FALSE
    /\ UNCHANGED <<icu8259, icu8214, cpu, history>>

\* POPF, of native code, always ends the slice.
Popf(flag) ==
    /\ cpu # "compat"
    /\ Instruction("over")
    /\ ei' = flag
    /\ UNCHANGED <<icu8259, icu8214, cpu, history>>

\* IRET ends it if an interrupt waits; it also resumes compatible code.
Iret(flag) ==
    /\ cpu # "compat"
    /\ Instruction(IF flag /\ PicExistIntr THEN "over" ELSE "open")
    /\ ei' = flag
    /\ cpu' \in IF cpu = "call" THEN {"compat", "call"} ELSE {cpu}
    /\ UNCHANGED <<icu8259, icu8214, history>>

\* pic8214_acknowledge_compat: the compatible core looks at its interrupt line
\* at the end of an instruction, so at least one follows the offer.
Acknowledge ==
    /\ cpu = "compat" /\ ei /\ pending # NoLevel
    /\ Instruction("open")
    /\ pending' = NoLevel /\ ei' = FALSE
    /\ UNCHANGED <<mode8259, status, mask8214, timer2>>
    /\ Accept(pending, irr)
    /\ UNCHANGED <<Others8259, cpu, history>>

\* BRKEM, CALLN or a trapped I/O instruction, and RETEM, which pops the flags.
SwitchCpu(from, to, flags) ==
    /\ cpu = from /\ to \in Modes
    /\ Instruction("open")
    /\ cpu' = to
    /\ ei' \in flags
    /\ UNCHANGED <<icu8259, icu8214, history>>

Brkem == SwitchCpu("native", "compat", {ei})
Calln == SwitchCpu("compat", "call", {ei, FALSE})
Retem == SwitchCpu("compat", "native", BOOLEAN)

-----------------------------------------------------------------------------
\* The slice is used up; nevent_progress calls the events; pic_irq follows.
EndSlice ==
    /\ phase = "run" /\ phase' = "events"
    /\ slice' = "over" /\ vector' = <<>>
    /\ UNCHANGED <<icu8259, icu8214, ei, cpu, history>>

EndEvents ==
    /\ phase = "events" /\ phase' = "arb"
    /\ UNCHANGED <<icu8259, icu8214, ei, cpu, slice, vector, history>>

EdgeLines(c) == Lines[c] \ (IF c = "M" THEN {Cascade} ELSE LevelLines)

Device ==
    \/ \E c \in Ctrl : \E l \in EdgeLines(c) : Request(c, l) \/ Withdraw(c, l)
    \/ \E lv \in DirectLevels : Request8214(lv)
    \/ \E l \in LevelLines, asserted \in BOOLEAN : SetLevel(l, asserted)
    \/ PicMask \/ GenTimer2

Program ==
    \/ \E c \in Ctrl :
          \/ \E cmd \in Ocw2[c] : WriteOcw2(c, cmd)
          \/ \E on \in Ocw3[c] : WriteOcw3(c, on)
          \/ \E icw \in Icw1[c] : WriteIcw1(c, icw)
          \/ \E mask \in Ocw1[c] : WriteOcw1(c, mask)
          \/ \E auto \in BOOLEAN : WriteIcw(c, auto)
    \/ \E st \in Statuses : WriteE4(st)
    \/ \E mask \in E6Masks : WriteE6(mask)
    \/ Write158 \/ Sti \/ Cli
    \/ \E flag \in BOOLEAN : Popf(flag) \/ Iret(flag)

Next ==
    \/ PicIrq \/ EndSlice \/ EndEvents
    \/ Device
    \/ Program
    \/ Acknowledge \/ Brkem \/ Calln \/ Retem

Spec == Init /\ [][Next]_vars

-----------------------------------------------------------------------------
TypeOK ==
    /\ irr \in [Ctrl -> SUBSET Nat] /\ imr \in [Ctrl -> SUBSET Nat]
    /\ isr \in [Ctrl -> SUBSET Nat]
    /\ \A c \in Ctrl : irr[c] \cup imr[c] \cup isr[c] \subseteq Lines[c]
    /\ pry \in [Ctrl -> Nat] /\ \A c \in Ctrl : pry[c] \in Lines[c]
    /\ smm \in [Ctrl -> BOOLEAN] /\ aeoi \in [Ctrl -> BOOLEAN]
    /\ writeicw \in [Ctrl -> 0..3] /\ icw1 \in [Ctrl -> [ltim : BOOLEAN, ic4 : BOOLEAN]]
    /\ status \in [xsgs : BOOLEAN, level : Nat]
    /\ held \subseteq LevelLines /\ picmask \in BOOLEAN /\ timer2 \in BOOLEAN
    /\ mode8259 \in BOOLEAN /\ inte \in BOOLEAN /\ mask8214 \subseteq Maskable
    /\ irr8214 \subseteq Levels /\ pending \in Levels \cup {NoLevel}
    /\ ei \in BOOLEAN /\ cpu \in Modes
    /\ phase \in {"arb", "run", "events"} /\ slice \in {"open", "one", "over"}
    /\ nest \in [Ctrl -> Seq(Nat)] /\ served \subseteq LevelLines
    /\ plain \in [Ctrl -> BOOLEAN]

\* Interrupts nest: as long as a controller was neither rotated nor put in
\* special mask mode, the lines in service were taken in ascending priority, so
\* that an unspecific EOI ends the one that was taken last.
NestedOrder ==
    \A c \in Ctrl : plain[c] =>
        /\ \A i, j \in 1..Len(nest[c]) : i < j => nest[c][i] > nest[c][j]
        /\ {nest[c][i] : i \in 1..Len(nest[c])} = isr[c]

Asking(r, c) == r[c] \ imr[c]

\* A line of the same or a higher priority is in service.  A slave that asks,
\* though its own line in service holds it back, shuts out what the rotation of
\* the master has put below the cascade.
HeldBack(r, c, l) ==
    \/ \E k \in isr[c] : Rank(c, k) <= Rank(c, l)
    \/ c = "M" /\ mode8259 /\ Asking(r, "S") # {} /\ Cascade \notin imr["M"]
               /\ Rank("M", Cascade) <= Rank("M", l)
    \/ c = "S" /\ (~mode8259 \/ Cascade \in imr["M"])
    \/ c = "S" /\ \E k \in isr["M"] \cup Asking(r, "M") : Rank("M", k) < Rank("M", Cascade)

\* The line taken comes before every other one that asks, and before every one
\* in service unless in special mask mode.
Foremost(r, c, l) ==
    /\ \A k \in Asking(r, c) : Rank(c, l) <= Rank(c, k)
    /\ smm[c] \/ \A k \in isr[c] : Rank(c, l) < Rank(c, k)
    /\ c = "S" => \A k \in Asking(r, "M") \cup (IF smm["M"] THEN {} ELSE isr["M"]) :
                      Rank("M", Cascade) <= Rank("M", k)

\* With interrupts enabled pic_irq takes the foremost request, and takes nothing
\* only if every request that is not masked is held back.
TakesTheHighest ==
    [][phase = "arb" /\ ei =>
        /\ vector' = <<>> /\ pending' = pending =>
              \A c \in Ctrl : \A l \in Asking(irr', c) : HeldBack(irr', c, l)
        /\ \A c \in Ctrl : \A l \in EdgeLines(c) \cup LevelLines :
              vector' = <<c, l>> => Foremost(WithHeld(irr), c, l)]_vars

\* A request leaves IRR when it is taken, when its device withdraws it, with
\* ICW1, or, for the two inputs that are treated specially, when the timer is
\* masked or the display is in service already.  Nothing else drops one.
RequestsKept ==
    [][\A c \in Ctrl : \A l \in EdgeLines(c) : l \in irr[c] /\ l \notin irr'[c] =>
          \/ phase = "arb" /\ vector' = <<c, l>>
          \/ phase = "run" /\ UNCHANGED <<Others8259, icu8214, machine, history>>
          \/ phase = "run" /\ writeicw'[c] = 1 /\ imr'[c] = {}
          \/ c = "M" /\ l = Timer /\ picmask /\ l \in imr[c]
          \/ c = "M" /\ l = Crtv /\ l \in isr[c]]_vars

\* In edge mode an input that stays asserted is served once.
EdgeOnce == ~icw1["S"].ltim => irr["S"] \cap held \cap served = {}

\* The master's IR7 is raised only while the 8214 really offers a level.
NoSpuriousInt == ~mode8259 /\ Cascade \in irr["M"] => Offered # NoLevel

\* The 8214 gives up a level only when it was armed, and is disarmed by it:
\* nothing is accepted twice for one write of port E4H.
OneAcceptPerArming ==
    [][\A lv \in irr8214 \ irr8214' : mode8259' \/ (inte /\ ~inte')]_vars

\* A request that is latched would be taken if the slice ended now.
Deliverable == ei /\ Choice(IF mode8259 THEN irr ELSE WithInt(irr, Offered)) # <<>>

\* What the guest changes without masking anything.
GuestChange ==
    /\ UNCHANGED <<irr8214, held>> /\ ~UNCHANGED <<imr, isr, pry, ei, inte, status>>
    /\ \A c \in Ctrl : imr'[c] \subseteq imr[c]

\* Instructions that let an interrupt through and do not end the slice: RETEM; special
\* mask mode; in 8259 mode unmasking the cascade, since OCW1 does not look at the
\* slave's requests; port 158H, which lets through what the slave asks; and ICW1, of
\* the slave in 8259 mode, which may drop a request that shut out the master's, and of
\* the master in 8214 mode, which unmasks the cascade.  ICW1 of the master also drops
\* the INT of a standing offer, and no instruction sees that one.
Overlooked ==
    \/ cpu = "compat" /\ cpu' = "native"
    \/ \E c \in Ctrl : smm'[c]
    \/ mode8259 /\ Cascade \in imr["M"] \ imr'["M"]
    \/ mode8259' # mode8259
    \/ \E c \in Ctrl : /\ mode8259 <=> c = "S"
                      /\ writeicw[c] # 1 /\ writeicw'[c] = 1
    \/ ~mode8259 /\ Offered # NoLevel /\ Cascade \notin irr["M"]

\* When an instruction lets an interrupt through by an EOI, by unmasking it, by a
\* write of E4H or by enabling interrupts, the slice ends, so that it is taken at
\* once, but for what is overlooked.  (An input that is held counts once pic_irq or an
\* EOI has latched it.)
LetsThroughAtOnce ==
    [][phase = "run" /\ phase' = "run" /\ ~Deliverable /\ Deliverable' /\ GuestChange =>
          slice' # "open" \/ Overlooked]_vars
=============================================================================
