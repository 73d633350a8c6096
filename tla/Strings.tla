------------------------------ MODULE Strings -------------------------------
(***************************************************************************)
(* The string instructions of the uPD9002 and their repetitions            *)
(* (cpu/upd9002: upd9002_mn.c for one element, upd9002_rp.c for many): what *)
(* they do to memory, ports and registers, element by element, broken off  *)
(* at the end of a time slice and taken up again after an interrupt whose  *)
(* handler leaves everything as it was.                                    *)
(*                                                                         *)
(* Offsets have OffsetBits bits, 16 in the code.  A byte is a number, a    *)
(* word a pair <<low, high>>.  Bytes that ports deliver are counted up, so that one    *)
(* says when it was read.  How prefixes are found again is in Cpu; clocks  *)
(* are left out.                                                           *)
(***************************************************************************)
EXTENDS Integers, Sequences, FiniteSets

CONSTANTS
    OffsetBits, \* the bits of an offset
    Bases,      \* the bases of ES to try; that of the source is 0
    Offsets,    \* offsets and counts to start with
    Counts,
    Memories,   \* contents of memory to start with
    Accumulators \* contents of AX

VARIABLES
    phase,      \* "idle", "running", "cut" and "done"
    insn,       \* the function at work: what, under which prefix, wide, backwards; the base of ES
    start,      \* the instruction, registers and memory when it began
    reg, mem, io,
    moved       \* history: how many elements it has worked on

vars == <<phase, insn, start, reg, mem, io, moved>>

Ops == {"ins", "outs", "movs", "lods", "stos", "cmps", "scas"}
Insns ==
    [op : Ops, rep : {"none", "repe", "repne", "repc", "repnc"}, wide : BOOLEAN, down : BOOLEAN,
     es : Bases]

Size == 2^OffsetBits
LOW16(n) == n % Size

\* The tables of the prefixes: REPC and REPNC have no INS and OUTS, and REP OUTSW
\* leads to the function of REP OUTSB.
Decoded(i) == i.op \in {"ins", "outs"} => i.rep \notin {"repc", "repnc"}
Function(i) == IF i.op = "outs" /\ i.rep # "none" THEN [i EXCEPT !.wide = FALSE] ELSE i
Bytes(i) == IF i.wide THEN 2 ELSE 1

\* STRING_DIR, STRING_DIRx2
Stride(i) == IF i.down THEN -Bytes(i) ELSE Bytes(i)

\* A word at the end of a segment: MOVS, and all under REPC and REPNC, go on at
\* its beginning, the others in the memory behind it.
Second(i, off) ==
    IF i.op = "movs" \/ i.rep \in {"repc", "repnc"} THEN LOW16(off + 1) ELSE off + 1
At(i, base, off) == IF i.wide THEN <<base + off, base + Second(i, off)>> ELSE <<base + off>>

Read(m, at) == [n \in DOMAIN at |-> m[at[n]]]
Write(m, at, data) == [a \in DOMAIN m |-> IF \E n \in DOMAIN at : at[n] = a
                                          THEN data[CHOOSE n \in DOMAIN at : at[n] = a] ELSE m[a]]
Number(data) == IF Len(data) = 1 THEN data[1] ELSE data[1] + 256 * data[2]
Accumulator(i, r) == SubSeq(r.ax, 1, Bytes(i))

\* SUBBYTE, SUBWORD
Compared(r, dst, src) ==
    [r EXCEPT !.z = Number(dst) = Number(src), !.c = Number(dst) < Number(src)]

Forward(i, r) ==
    [r EXCEPT !.si = IF i.op \in {"movs", "lods", "cmps", "outs"} THEN LOW16(@ + Stride(i)) ELSE @,
              !.di = IF i.op \in {"lods", "outs"} THEN @ ELSE LOW16(@ + Stride(i))]

\* One element: [reg, mem, io].
Stays(i, r, m, p) == [reg |-> Forward(i, r), mem |-> m, io |-> p]
Stored(i, r, m, p, data) == [Stays(i, r, m, p) EXCEPT !.mem = Write(m, At(i, i.es, r.di), data)]

PortElement(i, r, m, p) ==
    IF i.op = "outs" THEN [Stays(i, r, m, p) EXCEPT !.io.out = Append(@, Read(m, At(i, 0, r.si)))]
    ELSE [Stored(i, r, m, p, [n \in 1 .. Bytes(i) |-> p.next + n]) EXCEPT !.io.next = @ + Bytes(i)]

MoveElement(i, r, m, p) ==
    LET from == Read(m, At(i, 0, r.si)) IN
    CASE i.op = "movs" -> Stored(i, r, m, p, from)
      [] i.op = "stos" -> Stored(i, r, m, p, Accumulator(i, r))
      [] i.op = "lods" -> Stays(i, [r EXCEPT !.ax = from \o SubSeq(@, Bytes(i) + 1, 2)], m, p)

CompareElement(i, r, m, p) ==
    LET dst == IF i.op = "cmps" THEN Read(m, At(i, 0, r.si)) ELSE Accumulator(i, r)
    IN  Stays(i, Compared(r, dst, Read(m, At(i, i.es, r.di))), m, p)

Element(i, r, m, p) ==
    CASE i.op \in {"ins", "outs"} -> PortElement(i, r, m, p)
      [] i.op \in {"movs", "stos", "lods"} -> MoveElement(i, r, m, p)
      [] i.op \in {"cmps", "scas"} -> CompareElement(i, r, m, p)

Init ==
    /\ phase = "idle" /\ insn = <<>> /\ start = <<>>
    /\ reg = <<>> /\ mem = <<>> /\ io = <<>> /\ moved = 0

\* The program gets to a string instruction.  With nothing to count it is done.
Load ==
    /\ phase = "idle"
    /\ \E i \in {i \in Insns : Decoded(i)},
          si, di \in Offsets, n \in Counts, ax \in Accumulators, m \in Memories :
         /\ insn' = Function(i)
         /\ reg' = [si |-> si, di |-> di, cx |-> n, ax |-> ax, z |-> FALSE, c |-> FALSE]
         /\ mem' = m
         /\ phase' = IF i.rep # "none" /\ n = 0 THEN "done" ELSE "running"
         /\ start' = [insn |-> i, reg |-> reg', mem |-> mem']
    /\ io' = [next |-> 0, out |-> <<>>]
    /\ moved' = 0

\* An instruction without a prefix works on one element and leaves CX alone.
Single(i) == i.rep = "none"

\* Whether the repetition goes on for its flag.
Continues(i, r) ==
    CASE i.op \notin {"cmps", "scas"} -> TRUE
      [] i.rep = "repe" -> r.z
      [] i.rep = "repne" -> ~r.z
      [] i.rep = "repc" -> r.c
      [] i.rep = "repnc" -> ~r.c

\* Those that may break off when the slice is over.
Breakable(i) == i.rep \in {"repc", "repnc"} \/ i.op \in {"movs", "lods", "stos"}

\* One element, and whether there are more; what breaks off begins again.
Work ==
    /\ phase \in {"running", "cut"}
    /\ LET e == Element(insn, reg, mem, io)
           left == IF Single(insn) THEN reg.cx ELSE reg.cx - 1
       IN  /\ reg' = [e.reg EXCEPT !.cx = left] /\ mem' = e.mem /\ io' = e.io
           /\ IF Single(insn) \/ left = 0 \/ ~Continues(insn, e.reg)
                THEN phase' = "done"
                ELSE phase' \in {"running"} \cup (IF Breakable(insn) THEN {"cut"} ELSE {})
    /\ moved' = moved + 1
    /\ UNCHANGED <<insn, start>>

\* The program goes on; nothing else is looked at.
Pass ==
    /\ phase = "done"
    /\ phase' = "idle" /\ insn' = <<>> /\ start' = <<>>
    /\ reg' = <<>> /\ mem' = <<>> /\ io' = <<>> /\ moved' = 0

Next == Load \/ Work \/ Pass

Spec == Init /\ [][Next]_vars

-----------------------------------------------------------------------------
TypeOK ==
    /\ phase \in {"idle", "running", "cut", "done"}
    /\ phase # "idle" =>
        /\ insn \in Insns /\ reg.si \in 0 .. Size - 1 /\ reg.di \in 0 .. Size - 1
        /\ DOMAIN mem = DOMAIN start.mem

(***************************************************************************)
(* What they are for, by the instruction the program gave and not by the   *)
(* function it led to.  The offsets of element k, from 0, and whether no   *)
(* word lies across the end of its segment.                                *)
(***************************************************************************)
Given == start.insn
Offset(first, k) == LOW16(first + k * Stride(Given))
Whole(first, n) == Given.wide => \A k \in 0 .. n - 1 : Offset(first, k) # Size - 1
Ended == phase = "done"
Asked == IF Given.rep = "none" THEN 1 ELSE start.reg.cx

From(k) == At(Given, 0, Offset(start.reg.si, k))
To(k) == At(Given, Given.es, Offset(start.reg.di, k))
Onto(n) == UNION {{To(k)[b] : b \in DOMAIN To(k)} : k \in 0 .. n - 1}

\* The elements between a source and the destination it is copied over, in the
\* direction of the move; n when the move does not run into its own results.
Ahead(n) ==
    LET hits == {d \in 1 .. n - 1 : \E b \in DOMAIN To(0) : \E c \in DOMAIN From(d) : To(0)[b] = From(d)[c]}
    IN  IF hits = {} THEN n ELSE CHOOSE d \in hits : \A e \in hits : d <= e

\* A repeated OUTSW puts out as many bytes as it has words to put out.
AsBytes == Given.op = "outs" /\ Given.wide /\ Given.rep # "none"

\* A repeated move copies its source, or repeats the first elements of it where it
\* runs into its own results; it fills, and takes in and puts out what ports
\* deliver and are sent in order.  Nothing else changes, wherever it was broken
\* off.  What a move of words that overlaps its source by half a word leaves is
\* not stated, and what a repeated OUTSW puts out is wrong (AsBytes).
Moved ==
    Ended /\ Given.op \in {"movs", "stos", "lods", "ins", "outs"} =>
        LET n == Asked  old == start.mem IN
        /\ moved = n
        /\ Whole(start.reg.si, n) /\ Whole(start.reg.di, n) =>
            /\ Given.op = "movs" /\ (n > 0 => Ahead(n) = n \/ To(0) = From(Ahead(n))) =>
                \A k \in 0 .. n - 1 : Read(mem, To(k)) = Read(old, From(k % Ahead(n)))
            /\ Given.op = "stos" => \A k \in 0 .. n - 1 : Read(mem, To(k)) = Accumulator(Given, start.reg)
            /\ Given.op = "ins" =>
                \A k \in 0 .. n - 1 : Read(mem, To(k)) = [b \in 1 .. Bytes(Given) |-> k * Bytes(Given) + b]
            /\ Given.op = "outs" /\ ~AsBytes => io.out = [k \in 1 .. n |-> Read(old, From(k - 1))]
            /\ Given.op = "lods" /\ n > 0 => Accumulator(Given, reg) = Read(old, From(n - 1))
        /\ \A a \in DOMAIN mem :
            mem[a] = old[a] \/ (Given.op \in {"movs", "stos", "ins"} /\ a \in Onto(n))

\* A repeated comparison ends at the first pair that its prefix asks for, or with
\* the last; the flags are those of that pair, and the registers name the next.
\* With a count of zero nothing is compared.
Holds(k) ==
    LET dst == IF Given.op = "scas" THEN Accumulator(Given, start.reg) ELSE Read(mem, From(k))
    IN  CASE Given.rep = "repe" -> dst = Read(mem, To(k))
          [] Given.rep = "repne" -> dst # Read(mem, To(k))
          [] Given.rep = "repc" -> Number(dst) < Number(Read(mem, To(k)))
          [] Given.rep = "repnc" -> Number(dst) >= Number(Read(mem, To(k)))
          [] Given.rep = "none" -> FALSE
Found ==
    Ended /\ Given.op \in {"cmps", "scas"} =>
        /\ mem = start.mem /\ moved <= Asked
        /\ \A k \in 0 .. moved - 2 : Holds(k)
        /\ moved < Asked => moved > 0 /\ ~Holds(moved - 1)
        /\ Given.rep # "none" => reg.cx = start.reg.cx - moved
        /\ reg.di = Offset(start.reg.di, moved)
        /\ moved = 0 => reg = start.reg
        /\ moved > 0 /\ Given.op = "scas" => (reg.z <=> Accumulator(Given, reg) = Read(mem, To(moved - 1)))
=============================================================================
