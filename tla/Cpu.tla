-------------------------------- MODULE Cpu --------------------------------
(***************************************************************************)
(* How the uPD9002 takes interrupts and changes instruction sets           *)
(* (cpu/upd9002, cpu/upd9002_upd70008.cpp, the loop of machine/pccore.c).  *)
(* The machine looks at its interrupt controller only between slices, so   *)
(* what STI, EI, POPF, IRET and HLT promise about interrupts is made of    *)
(* clocks: they cut the slice short or stretch it by an instruction.  A    *)
(* repeated string instruction stops at the end of a slice and starts      *)
(* again from its first prefix.  BRKEM and RETEM enter and leave uPD70008  *)
(* (Z80) code; an interrupt, CALLN and a trapped port leave it for native  *)
(* code until one particular IRET.                                         *)
(*                                                                         *)
(* A segment of code is a sequence of bytes that matter: prefixes and      *)
(* operations.  "main" may be interrupted or call; "isr" serves external   *)
(* interrupts, "svc" INT, CALLN and port traps; "z" is uPD70008 code.      *)
(* Data, operands, the prefix limit (interrupt 6) and single stepping are  *)
(* left out.  BRKEM is not used by native code that was entered from "z",  *)
(* which docs/modernization/upd9002-upd70008-mode.md rules out.            *)
(***************************************************************************)
EXTENDS Integers, Sequences

CONSTANTS
    Programs,   \* what the four segments hold
    Count,      \* CX at first
    MaxDepth    \* no request is raised with this many frames on the stack

VARIABLES
    code,
    at,         \* CS:IP
    frames,     \* the stack: place and IF of whoever was left
    ie,         \* IF, and IFF1 of the uPD70008
    mode, pend, ret,  \* CPU_COMPAT_MODE, _RETURN_PENDING, compat_return_sp
    cx,
    slice,      \* CPU_REMCLOCK: "open" positive, "one", "over" (not positive)
    halted,     \* HALT of the uPD70008
    request,    \* PICEXISTINTR
    shade,      \* the last instruction, if it was STI, EI or a load of SS
    waited      \* instructions since interrupts were enabled for a request,
                \* -1 if none has been waiting

vars == <<code, at, frames, ie, mode, pend, ret, cx, slice, halted, request, shade, waited>>

Prefixes == {"seg", "rep", "repc"}
Byte(p, n) == code[p.seg][p.ip + n]
PREFIX(p) == CHOOSE n \in 0 .. Len(code[p.seg]) :
                 Byte(p, n) \notin Prefixes /\ \A k \in 0 .. n - 1 : Byte(p, k) \in Prefixes
Op == Byte(at, PREFIX(at))
Has(p, prefix) == \E k \in 0 .. PREFIX(p) - 1 : Byte(p, k) = prefix
Past == [at EXCEPT !.ip = @ + PREFIX(at) + 1]
PutBackMutant == [Past EXCEPT !.ip = @ - PREFIX(at)]
PutBack == [Past EXCEPT !.ip = @ - (PREFIX(at) + 1)]

\* What an instruction may leave of the slice: its clocks, NEXT_OPCODE and
\* REMAIN_ADJUST(1), and the wait for bytes not yet fetched, charged last.
Charged == IF slice = "open" THEN {"open", "over"} ELSE {"over"}
NEXT_OPCODE(left) == {IF s = "over" THEN "one" ELSE s : s \in left}
Stalled(left) == left \cup {"over"}

Native(op) == mode = "native" /\ slice # "over" /\ Op = op
Compat(op) == mode = "compat" /\ slice # "over" /\ ~halted /\ Op = op

\* An instruction that enables interrupts starts to wait for one that is asked
\* for; others are counted, but for those that stretch the slice once more.
Watch(enables, delays) ==
    /\ shade' = IF delays THEN Op ELSE "none"
    /\ waited' = CASE enables /\ ~ie /\ request -> 0
                   [] ~ie' \/ ~request -> -1
                   [] waited >= 0 /\ Op \notin {"sti", "movss"} -> waited + 1
                   [] OTHER -> waited

Same == UNCHANGED <<code, frames, mode, pend, ret, cx, halted, request>>

Plain ==
    /\ Native("op")
    /\ at' = Past /\ slice' \in Stalled(Charged)
    /\ Same /\ UNCHANGED ie /\ Watch(FALSE, FALSE)

Jump ==
    /\ Native("jmp")
    /\ at' = [at EXCEPT !.ip = @ - 1] /\ slice' \in Stalled(Charged)
    /\ Same /\ UNCHANGED ie /\ Watch(FALSE, FALSE)

\* MOVS, STOS and LODS under any repetition, CMPS and SCAS under REPC and
\* REPNC, break off when the slice is over; CMPS and SCAS under REP end early
\* when the comparison says so, and are never broken off.
Breaks(op) == op = "movs" \/ Has(at, "repc")
String(op) ==
    /\ Native(op)
    /\ IF Has(at, "rep") \/ Has(at, "repc")
         THEN \E n \in 0 .. cx :
                /\ (cx > 0 => n > 0)
                /\ cx' = cx - n
                /\ \/ /\ cx' = 0 \/ op = "scan"
                      /\ at' = Past /\ slice' \in Stalled(Charged)
                   \/ /\ cx' > 0 /\ Breaks(op)
                      /\ at' = PutBack /\ slice' = "over"
         ELSE at' = Past /\ slice' \in Stalled(Charged) /\ UNCHANGED cx
    /\ UNCHANGED <<code, frames, ie, mode, pend, ret, halted, request>>
    /\ Watch(FALSE, FALSE)

StiMutant ==
    /\ Native("sti")
    /\ at' = Past /\ ie' = TRUE
    /\ slice' \in Stalled(NEXT_OPCODE(Charged))
    /\ Same /\ Watch(TRUE, ~ie)
Sti ==
    /\ Native("sti")
    /\ at' = Past /\ ie' = TRUE
    /\ slice' \in Stalled(IF ~ie /\ request THEN {"one"} ELSE NEXT_OPCODE(Charged))
    /\ Same /\ Watch(TRUE, ~ie)

Cli ==
    /\ Native("cli")
    /\ at' = Past /\ ie' = FALSE /\ slice' \in Stalled(Charged)
    /\ Same /\ Watch(FALSE, FALSE)

\* POPF, with IF set or not in what it pops.
Popf ==
    /\ Native("popf")
    /\ at' = Past /\ ie' \in BOOLEAN /\ slice' = "over"
    /\ Same /\ Watch(ie', FALSE)

\* MOV SS and POP SS.
MovSs ==
    /\ Native("movss")
    /\ at' = Past /\ slice' \in Stalled(NEXT_OPCODE(Charged))
    /\ Same /\ UNCHANGED ie /\ Watch(FALSE, TRUE)

Hlt ==
    /\ Native("hlt")
    /\ slice' = "over"
    /\ Same /\ UNCHANGED <<at, ie>> /\ Watch(FALSE, FALSE)

Push(back) == frames' = Append(frames, [seg |-> at.seg, ip |-> back, ie |-> ie])
Vector(seg) == at' = [seg |-> seg, ip |-> 1]

\* INT and the native trap of a port, which is to return to its instruction.
Intnum(back) ==
    /\ Push(back) /\ Vector("svc") /\ ie' = FALSE
    /\ slice' \in Stalled(Charged)
    /\ UNCHANGED <<code, mode, pend, ret, cx, halted, request>> /\ Watch(FALSE, FALSE)
IntN == Native("int") /\ Intnum(Past.ip)
Iotrap == Native("io") /\ Intnum(at.ip)
Io ==
    /\ Native("io")
    /\ at' = Past /\ slice' \in Stalled(Charged)
    /\ Same /\ UNCHANGED ie /\ Watch(FALSE, FALSE)

Brkem ==
    /\ Native("brkem")
    /\ Push(Past.ip) /\ Vector("z")
    /\ mode' = "compat" /\ pend' = FALSE
    /\ slice' \in Stalled(Charged)
    /\ UNCHANGED <<code, ie, ret, cx, halted, request>> /\ Watch(FALSE, FALSE)

Top == frames[Len(frames)]
Pop ==
    /\ frames' = SubSeq(frames, 1, Len(frames) - 1)
    /\ at' = [seg |-> Top.seg, ip |-> Top.ip]
    /\ ie' = Top.ie

\* It returns to uPD70008 code if its frame is the one that left it.
IsReturnMutant == pend
IsReturn == pend /\ Len(frames) = ret
Iret ==
    /\ Native("iret")
    /\ Pop
    /\ mode' = IF IsReturn THEN "compat" ELSE mode
    /\ pend' = (pend /\ ~IsReturn)
    /\ slice' \in IF Top.ie /\ request THEN {"over"} ELSE Stalled(Charged)
    /\ UNCHANGED <<code, ret, cx, halted, request>> /\ Watch(Top.ie, FALSE)

---------------------------------------------------------------------------
\* uPD70008 code: no queue, so no wait after the instruction.

CompatPlain ==
    /\ Compat("z") \/ Compat("zio")
    /\ at' = Past /\ slice' \in Charged
    /\ Same /\ UNCHANGED ie /\ Watch(FALSE, FALSE)

Ei ==
    /\ Compat("ei")
    /\ at' = Past /\ ie' = TRUE
    /\ slice' \in {IF s = "open" /\ ~ie /\ request THEN "one" ELSE s : s \in Charged}
    /\ Same /\ Watch(TRUE, ~ie)

Di ==
    /\ Compat("di")
    /\ at' = Past /\ ie' = FALSE /\ slice' \in Charged
    /\ Same /\ Watch(FALSE, FALSE)

Halt ==
    /\ Compat("halt")
    /\ at' = Past /\ halted' = TRUE /\ slice' \in Charged
    /\ UNCHANGED <<code, frames, ie, mode, pend, ret, cx, request>> /\ Watch(FALSE, FALSE)

Halted ==
    /\ halted /\ slice # "over" /\ slice' \in Charged
    /\ Same /\ UNCHANGED <<at, ie>> /\ Watch(FALSE, FALSE)

Leave(back) ==
    /\ Push(back) /\ ret' = Len(frames) + 1 /\ mode' = "native" /\ pend' = TRUE
Calln(back) ==
    /\ Leave(back) /\ Vector("svc")
    /\ slice' \in Charged
    /\ UNCHANGED <<code, cx, halted, request>> /\ Watch(FALSE, FALSE)
CompatCalln == Compat("calln") /\ UNCHANGED ie /\ Calln(Past.ip)
CompatIotrap == Compat("zio") /\ ie' = FALSE /\ Calln(at.ip)

Retem ==
    /\ Compat("retem")
    /\ Pop
    /\ mode' = "native" /\ pend' = FALSE
    /\ slice' \in Charged
    /\ UNCHANGED <<code, ret, cx, halted, request>> /\ Watch(FALSE, FALSE)

---------------------------------------------------------------------------
\* The end of a slice: pic_irq, with what it accepts, and a new slice.

Accepts == slice = "over" /\ ie /\ request
Skipped == IF mode = "native" /\ Byte(at, 0) = "hlt" THEN at.ip + 1 ELSE at.ip

Interrupt ==
    /\ Accepts
    /\ IF mode = "compat" THEN Leave(Skipped) ELSE Push(Skipped) /\ UNCHANGED <<mode, pend, ret>>
    /\ Vector("isr") /\ ie' = FALSE
    /\ halted' = FALSE /\ request' = FALSE /\ slice' = "open"
    /\ shade' = "none" /\ waited' = -1
    /\ UNCHANGED <<code, cx>>

NewSlice ==
    /\ slice = "over" /\ ~Accepts
    /\ slice' = "open"
    /\ UNCHANGED <<code, at, frames, ie, mode, pend, ret, cx, halted, request, shade, waited>>

\* A device asks, or what it asked is masked or taken back.
Ask ==
    /\ IF request THEN TRUE ELSE Len(frames) < MaxDepth
    /\ request' = ~request
    /\ waited' = IF request THEN -1 ELSE waited
    /\ UNCHANGED <<code, at, frames, ie, mode, pend, ret, cx, slice, halted, shade>>

Init ==
    /\ code \in Programs
    /\ at = [seg |-> "main", ip |-> 1]
    /\ frames = <<>> /\ ie \in BOOLEAN
    /\ mode = "native" /\ pend = FALSE /\ ret = 0
    /\ cx = Count /\ slice = "over" /\ halted = FALSE
    /\ request = FALSE /\ shade = "none" /\ waited = -1

Next ==
    \/ Plain \/ Jump \/ String("movs") \/ String("scan")
    \/ Sti \/ Cli \/ Popf \/ MovSs \/ Hlt
    \/ IntN \/ Iotrap \/ Io \/ Brkem \/ Iret
    \/ CompatPlain \/ Ei \/ Di \/ Halt \/ Halted
    \/ CompatCalln \/ CompatIotrap \/ Retem
    \/ Interrupt \/ NewSlice \/ Ask

---------------------------------------------------------------------------
TypeOK ==
    /\ code \in Programs
    /\ frames \in Seq([seg : DOMAIN code, ip : Nat, ie : BOOLEAN])
    /\ ie \in BOOLEAN /\ pend \in BOOLEAN /\ halted \in BOOLEAN
    /\ mode \in {"native", "compat"} /\ ret \in 0 .. Len(frames) + 3
    /\ cx \in 0 .. Count /\ slice \in {"open", "one", "over"}
    /\ request \in BOOLEAN /\ shade \in {"none", "sti", "ei", "movss"} /\ waited \in Int

Places == {at} \cup {[seg |-> frames[k].seg, ip |-> frames[k].ip] : k \in DOMAIN frames}

\* Whatever interrupts, calls and returns, code is run by the instruction set
\* it is written for: exactly the IRET of the frame that left uPD70008 code
\* takes it up again, and HALT ends with the interrupt.
ModeMatches ==
    /\ mode = IF at.seg = "z" THEN "compat" ELSE "native"
    /\ pend <=> \E k \in DOMAIN frames : frames[k].seg = "z"
    /\ pend => ret \in DOMAIN frames /\ frames[ret].seg = "z"
    /\ halted => mode = "compat"

\* Nothing is ever taken up in the middle of an instruction, behind some of
\* its prefixes.
AtStarts ==
    \A p \in Places : p.ip > 1 => code[p.seg][p.ip - 1] \notin Prefixes

\* A repeated move that has been left behind has moved all of CX, however
\* often the end of a slice and interrupts broke it off.
RepeatsWhole ==
    \A p \in Places : p.seg = "main" =>
        \A k \in 1 .. p.ip - 1 :
            (/\ code.main[k] = "movs"
             /\ \E j \in 1 .. k - 1 : /\ code.main[j] \in {"rep", "repc"}
                                      /\ \A i \in j .. k - 1 : code.main[i] \in Prefixes)
            => cx = 0

\* A request that waits when interrupts are enabled is accepted after one more
\* instruction at most, unless that disables them or delays once more: a
\* window of two instructions is enough.
WindowTaken == waited < 2

\* STI ends the slice one instruction later when a request waits: none is
\* accepted before that instruction.  (The wait for bytes that are not yet
\* fetched is charged after STI has set the slice's rest, and ends it at once.)
StiDelays == [][Interrupt => shade # "sti"]_vars
=============================================================================
