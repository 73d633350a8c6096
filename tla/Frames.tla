------------------------------- MODULE Frames -------------------------------
(***************************************************************************)
(* Procedures of a native program: calls and returns, the stack, frames    *)
(* with ENTER and LEAVE and their displays, and the operands in memory a    *)
(* program reaches through them (cpu/upd9002: upd9002_mn.c, upd9002_fe.c,   *)
(* upd9002_ea.c).  The machine runs beside an abstract one, whose stack is *)
(* a sequence of words and whose frames have names, and has to have the    *)
(* same words at the same places.                                          *)
(*                                                                         *)
(* A word of memory is a number of OffsetBits bits, 16 in the code, and an *)
(* offset counts its two bytes.  The program keeps SP even, uses each kind of     *)
(* return with its call, and pops what it has pushed.  Where instructions  *)
(* stand is left out: an offset of the code is a label, and so are clocks  *)
(* and the bank switching of memory.                                       *)
(***************************************************************************)
EXTENDS Integers, Sequences, FiniteSets

LOCAL INSTANCE SequencesExt
LOCAL INSTANCE FiniteSetsExt

CONSTANTS
    OffsetBits,     \* the bits of an offset
    DispBits,       \* those of the short displacements; 8 in the code
    Base,           \* SP at first
    Labels, Entry,  \* offsets in the code: behind a call, of a procedure
    Levels, Sizes,  \* of ENTER: nesting levels and bytes of locals
    MaxWords,       \* bound: words on the stack
    MaxOps          \* bound: operations of the program

VARIABLES
    reg,            \* the registers
    mem, data,      \* the words of the stack segment and of the data segment
    want,           \* the abstract machine
    ops

vars == <<reg, mem, data, want, ops>>

Size == 2^OffsetBits
LOW16(n) == n % Size
Registers == {"AX", "CX", "DX", "BX", "SP", "BP", "SI", "DI", "IP", "CS", "ES"}
Words == 0 .. Size \div 2 - 1

-----------------------------------------------------------------------------
(***************************************************************************)
(* The stack.  A machine is a record of registers and stack segment.       *)
(***************************************************************************)
At(m, off) == m.mem[LOW16(off) \div 2]
Put(m, off, v) == [m EXCEPT !.mem[LOW16(off) \div 2] = v]
Let(m, r, v) == [m EXCEPT !.reg[r] = v]
Move(m, n) == [m EXCEPT !.reg["SP"] = LOW16(@ + n)]

\* REGPUSH0: SP counts down first, so that PUSH SP stores what it has become.
REGPUSH0(m, v) == Put(Move(m, -2), m.reg["SP"] - 2, v)
PushOf(m, r) == Put(Move(m, -2), m.reg["SP"] - 2, Move(m, -2).reg[r])
\* REGPOP0
REGPOP0(m, r) == Move(Let(m, r, At(m, m.reg["SP"])), 2)

\* _pusha pushes the SP of before, _popa skips it.
Pusha(m) ==
    LET P(n, r) == REGPUSH0(n, m.reg[r])
    IN  P(P(P(P(P(P(P(P(m, "AX"), "CX"), "DX"), "BX"), "SP"), "BP"), "SI"), "DI")
Popped4(m, a, b, c, d) == REGPOP0(REGPOP0(REGPOP0(REGPOP0(m, a), b), c), d)
Popa(m) ==
    Popped4(Move(REGPOP0(REGPOP0(REGPOP0(m, "DI"), "SI"), "BP"), 2), "BX", "DX", "CX", "AX")

\* _call_near, _call_far and their forms with a pointer; back is the offset of
\* the next instruction.
CallNear(m, back, to) == Let(REGPUSH0(m, back), "IP", to)
CallFar(m, back, seg, to) == Let(Let(REGPUSH0(REGPUSH0(m, m.reg["CS"]), back), "IP", to), "CS", seg)
RetNear(m, ad) == Move(REGPOP0(m, "IP"), ad)
RetFar(m, ad) == Move(REGPOP0(REGPOP0(m, "IP"), "CS"), ad)

\* _enter: the display of the caller's frame is copied down to the level, and the
\* new frame put behind it.
Copied(m, bp, n) ==
    LET f[k \in 0 .. n] == IF k = 0 THEN m ELSE REGPUSH0(f[k - 1], At(f[k - 1], bp - 2 * k))
    IN  f[n]
Enter(m, size, level) ==
    LET saved == REGPUSH0(m, m.reg["BP"])
        bp == saved.reg["SP"]
    IN  IF level = 0 THEN Move(Let(saved, "BP", bp), -size)
        ELSE Move(Let(REGPUSH0(Copied(saved, m.reg["BP"], level - 1), bp), "BP", bp), -size)
Leave(m) == REGPOP0(Let(m, "SP", m.reg["BP"]), "BP")

-----------------------------------------------------------------------------
(***************************************************************************)
(* Operands: mode 0 without, 1 with a short, 2 with a long displacement.   *)
(***************************************************************************)
Forms == [mode : 0 .. 2, rm : 0 .. 7]
Bases ==
    <<{"BX", "SI"}, {"BX", "DI"}, {"BP", "SI"}, {"BP", "DI"}, {"SI"}, {"DI"}, {"BP"}, {"BX"}>>
Parts(f) == IF f.mode = 0 /\ f.rm = 6 THEN {} ELSE Bases[f.rm + 1]

\* The displacement that is fetched: short ones have a sign.
Disp(f, d) ==
    IF f.mode = 1 /\ d >= 2^(DispBits - 1) THEN d - 2^DispBits
    ELSE IF f.mode = 0 /\ f.rm # 6 THEN 0 ELSE d

\* calc_lea, and the segment that goes with it: an operand by BP is on the stack,
\* unless a prefix says otherwise.
Lea(m, f, d) == LOW16(Disp(f, d) + MapThenSumSet(LAMBDA r : m.reg[r], Parts(f)))
Segment(f, prefix) == IF prefix # "none" THEN prefix ELSE IF "BP" \in Parts(f) THEN "SS" ELSE "DS"
CALC_EA(m, f, d, prefix) == [seg |-> Segment(f, prefix), off |-> Lea(m, f, d)]
GET_EA(m, f, d, prefix) == CALC_EA(m, f, d, prefix)

\* memoryread_w and memorywrite_w of an operand.
Fetch(m, ea) == IF ea.seg = "SS" THEN At(m, ea.off) ELSE m.data[ea.off \div 2]
Store(m, ea, v) ==
    IF ea.seg = "SS" THEN Put(m, ea.off, v) ELSE [m EXCEPT !.data[ea.off \div 2] = v]

Operations == {"mov to", "mov from", "xchg", "push", "pop", "lea", "les"}

\* Instructions with an operand: _mov_ea_r16, _mov_r16_ea, _xchg_ea_r16,
\* _push_ea16, _pop_ea, _lea_r16_ea.
Operate(m, op, f, d, prefix) ==
    LET ea(n) == CALC_EA(n, f, d, prefix) IN
    CASE op = "mov to" -> Store(m, ea(m), m.reg["AX"])
      [] op = "mov from" -> Let(m, "AX", Fetch(m, ea(m)))
      [] op = "xchg" -> Let(Store(m, ea(m), m.reg["AX"]), "AX", Fetch(m, ea(m)))
      [] op = "push" -> REGPUSH0(m, Fetch(m, ea(m)))
      [] op = "pop" -> Store(Move(m, 2), ea(Move(m, 2)), At(m, m.reg["SP"]))
      [] op = "lea" -> Let(m, "AX", Lea(m, f, d))
      [] op = "les" ->
           LET at == GET_EA(m, f, d, prefix) IN
           Let(Let(m, "AX", Fetch(m, at)), "ES", Fetch(m, [at EXCEPT !.off = LOW16(@ + 2)]))

-----------------------------------------------------------------------------
(***************************************************************************)
(* The abstract machine: words of the stack, bottom first, and what they   *)
(* are, item by item; the registers; the data.                             *)
(***************************************************************************)
Unset == -1
Offset(i) == LOW16(Base - 2 * i)
Depth == Len(want.stack)
Item(kind, n) == [kind |-> kind, n |-> n, reg |-> <<>>, display |-> <<>>]
Is(kind) == want.items # <<>> /\ Last(want.items).kind = kind
Dropped(items) == FoldSeq(LAMBDA i, n : n + i.n, 0, items)

\* The frames there are, and whether the program may leave the last: no call
\* is open in it.
FrameItems == {n \in DOMAIN want.items : want.items[n].kind = "frame"}
Display == IF FrameItems = {} THEN <<>> ELSE want.items[Max(FrameItems)].display
InFrame ==
    /\ FrameItems # {}
    /\ \A n \in DOMAIN want.items :
        n > Max(FrameItems) => want.items[n].kind \notin {"near", "far"}

\* The stack with words on top or some dropped, and the registers that go with it.
Grown(w, words, item) ==
    [w EXCEPT !.stack = @ \o words, !.items = Append(@, item),
              !.reg["SP"] = Offset(Len(w.stack) + Len(words))]
Shrunk(w, n, items) ==
    [w EXCEPT !.stack = SubSeq(@, 1, Len(@) - n), !.items = SubSeq(@, 1, Len(@) - items),
              !.reg["SP"] = Offset(Len(w.stack) - n)]

Machine == [reg |-> reg, mem |-> mem, data |-> data]
Becomes(m, w) ==
    /\ ops < MaxOps /\ ops' = ops + 1
    /\ reg' = m.reg /\ mem' = m.mem /\ data' = m.data /\ want' = w
    /\ Len(w.stack) <= MaxWords

Init ==
    /\ reg = [r \in Registers |->
                CASE r = "SP" -> Base [] r = "AX" -> 1 [] r = "CX" -> 2 [] r = "DX" -> 3 [] r = "BX" -> 4
                  [] r = "SI" -> 6 [] r = "DI" -> 7 [] OTHER -> 0]
    /\ mem = [n \in Words |-> 0] /\ data = [n \in Words |-> 0]
    /\ want = [stack |-> <<>>, items |-> <<>>, reg |-> reg, data |-> data]
    /\ ops = 0

PushReg(r) ==
    LET w == Grown(want, <<0>>, Item("word", 1)) IN
    Becomes(PushOf(Machine, r), [w EXCEPT !.stack[Len(w.stack)] = IF r = "SP" THEN w.reg["SP"] ELSE w.reg[r]])
PopReg(r) ==
    /\ Is("word") /\ Last(want.stack) # Unset
    /\ Becomes(REGPOP0(Machine, r), [Shrunk(want, 1, 1) EXCEPT !.reg[r] = Last(want.stack)])

All == <<"AX", "CX", "DX", "BX", "SP", "BP", "SI", "DI">>
PushAll ==
    Becomes(Pusha(Machine), Grown(want, [n \in 1 .. 8 |-> want.reg[All[n]]],
                                  [Item("all", 8) EXCEPT !.reg = want.reg]))
PopAll ==
    /\ Is("all")
    /\ Becomes(Popa(Machine),
               LET w == Shrunk(want, 8, 1) IN
               [w EXCEPT !.reg = [r \in Registers |-> IF r # "SP" /\ \E n \in 1 .. 8 : All[n] = r
                                                      THEN Last(want.items).reg[r] ELSE w.reg[r]]])

\* A call, and the return to where it was.
Call(far, back) ==
    LET w == Grown(want, IF far THEN <<want.reg["CS"], back>> ELSE <<back>>,
                   IF far THEN [Item("far", 2) EXCEPT !.reg = want.reg] ELSE Item("near", 1))
    IN  IF far THEN Becomes(CallFar(Machine, back, 1 - reg["CS"], Entry),
                            [w EXCEPT !.reg["IP"] = Entry, !.reg["CS"] = 1 - @])
        ELSE Becomes(CallNear(Machine, back, Entry), [w EXCEPT !.reg["IP"] = Entry])

\* It takes args words of arguments with it.
Ret(args) ==
    /\ Is("near") \/ Is("far")
    /\ Len(want.items) > args
    /\ \A n \in 1 .. args : want.items[Len(want.items) - n].kind = "word"
    /\ LET n == Last(want.items).n + args
           w == [Shrunk(want, n, 1 + args) EXCEPT !.reg["IP"] = Last(want.stack)]
       IN  IF Is("far") THEN Becomes(RetFar(Machine, 2 * args), [w EXCEPT !.reg["CS"] = Last(want.items).reg["CS"]])
           ELSE Becomes(RetNear(Machine, 2 * args), w)

\* A frame at a level that its surroundings have.
EnterFrame(size, level) ==
    LET fp == Offset(Depth + 1)
        display == IF level = 0 THEN <<>> ELSE Append(SubSeq(Display, 1, level - 1), fp)
        locals == [n \in 1 .. size \div 2 |-> Unset]
    IN  /\ level <= Len(Display) + 1
        /\ Becomes(Enter(Machine, size, level),
                   [Grown(want, <<want.reg["BP"]>> \o display \o locals,
                          [kind |-> "frame", n |-> 1 + Len(display) + Len(locals),
                           reg |-> want.reg, display |-> display]) EXCEPT !.reg["BP"] = fp])
LeaveFrame ==
    /\ InFrame
    /\ LET n == Max(FrameItems)  gone == SubSeq(want.items, n, Len(want.items)) IN
       Becomes(Leave(Machine),
               [Shrunk(want, Dropped(gone), Len(gone)) EXCEPT !.reg["BP"] = want.items[n].reg["BP"]])

\* The program gets at a word of the stack or of the data, with any form: it puts
\* what is missing into an index register or the displacement, and names
\* the segment where the form has the other one.
Given(f) == IF f.mode = 0 THEN 0 ELSE -2
Loaded(m, f, off) ==
    LET free == Parts(f) \ {"BP"}
        taken == IF "BP" \in Parts(f) THEN m.reg["BP"] ELSE 0
    IN  IF Cardinality(free) = 2
          THEN LET x == CHOOSE r \in free : r # "BX" IN
               Let(Let(m, x, 2), "BX", LOW16(off - Given(f) - 2))
        ELSE IF free # {} THEN Let(m, CHOOSE r \in free : TRUE, LOW16(off - Given(f) - taken))
        ELSE m
Encoded(m, f, off) ==
    LET d == IF Parts(f) = {"BP"} THEN off - m.reg["BP"] ELSE IF Parts(f) = {} THEN off ELSE Given(f)
    IN  IF f.mode = 1 THEN d % 2^DispBits ELSE LOW16(d)
Reaches(m, f, off) ==
    f.mode = 1 /\ Parts(f) = {"BP"} =>
        off - m.reg["BP"] \in -2^(DispBits - 1) .. 2^(DispBits - 1) - 1
Restored(m) == Let(Let(Let(m, "BX", 4), "SI", 6), "DI", 7)

\* ... of the stack: the word at i.
OnStack(op, f, i) ==
    LET m == Let(Machine, "AX", 20 + ops)
        off == Offset(i)
        prefix == IF Segment(f, "none") = "SS" THEN "none" ELSE "SS"
        w == [want EXCEPT !.reg["AX"] = 20 + ops]
        v == want.stack[i]
    IN  /\ Reaches(m, f, off)
        /\ op \in {"mov from", "xchg", "push", "les"} => v # Unset
        /\ op = "pop" => Is("word") /\ i < Depth /\ Last(want.stack) # Unset
        /\ op = "les" => i > 1 /\ want.stack[i - 1] # Unset
        /\ Becomes(Restored(Operate(Loaded(m, f, off), op, f, Encoded(m, f, off), prefix)),
                   CASE op = "mov to" -> [w EXCEPT !.stack[i] = w.reg["AX"]]
                     [] op = "mov from" -> [w EXCEPT !.reg["AX"] = v]
                     [] op = "xchg" -> [w EXCEPT !.stack[i] = w.reg["AX"], !.reg["AX"] = v]
                     [] op = "push" -> Grown(w, <<v>>, Item("word", 1))
                     [] op = "pop" -> Shrunk([w EXCEPT !.stack[i] = Last(w.stack)], 1, 1)
                     [] op = "lea" -> [w EXCEPT !.reg["AX"] = off]
                     [] op = "les" -> [w EXCEPT !.reg["AX"] = v, !.reg["ES"] = want.stack[i - 1]])

\* ... of the data; a bound: only in a procedure with a frame.
OnData(op, f) ==
    LET m == Let(Machine, "AX", 20 + ops)
        prefix == IF Segment(f, "none") = "DS" THEN "none" ELSE "DS"
        w == [want EXCEPT !.reg["AX"] = 20 + ops]
    IN  /\ Reaches(m, f, 2)
        /\ Becomes(Restored(Operate(Loaded(m, f, 2), op, f, Encoded(m, f, 2), prefix)),
                   IF op = "mov to" THEN [w EXCEPT !.data[1] = w.reg["AX"]]
                   ELSE [w EXCEPT !.reg["AX"] = want.data[1]])

\* Locals and temporaries of a procedure with a frame, and its argument.
Below(n) == Dropped(SubSeq(want.items, 1, n - 1))
Argument(n) ==
    IF n > 2 /\ want.items[n - 1].kind = "near" /\ want.items[n - 2].kind = "word"
    THEN {Below(n) - 1} ELSE {}
Locals(n) == Below(n) + Len(Display) + 2 .. Below(n + 1)
Temporaries(n) == {Below(k + 1) : k \in {k \in n + 1 .. Len(want.items) : want.items[k].kind = "word"}}
OwnOf(n) == Locals(n) \cup Temporaries(n) \cup Argument(n)
Own == OwnOf(Max(FrameItems))

\* The first local of a frame around: the program finds it by the display.
Around(k) == CHOOSE n \in FrameItems : want.items[n].display = SubSeq(Display, 1, k)
Outer(op, k) ==
    LET link == Operate(Machine, "mov from", [mode |-> 1, rm |-> 6], (-2 * k) % 2^DispBits, "none")
        at == Let(Let(link, "BX", link.reg["AX"]), "AX", 20 + ops)
        i == Below(Around(k)) + k + 2
        w == [want EXCEPT !.reg["AX"] = 20 + ops]
    IN  /\ want.items[Around(k)].n > k + 1
        /\ op = "mov from" => want.stack[i] # Unset
        /\ Becomes(Restored(Operate(at, op, [mode |-> 1, rm |-> 7], (-2 * (k + 1)) % 2^DispBits, "SS")),
                   IF op = "mov to" THEN [w EXCEPT !.stack[i] = w.reg["AX"]]
                   ELSE [w EXCEPT !.reg["AX"] = want.stack[i]])

Next ==
    \/ \E r \in {"AX", "SP", "BP"} : PushReg(r)
    \/ PopReg("DX")
    \/ PushAll \/ PopAll
    \/ \E far \in BOOLEAN, back \in Labels : Call(far, back)
    \/ \E args \in 0 .. 1 : Ret(args)
    \/ \E size \in Sizes, level \in Levels : EnterFrame(size, level)
    \/ LeaveFrame
    \/ InFrame /\ \E i \in Own, op \in Operations, f \in Forms : OnStack(op, f, i)
    \/ InFrame /\ \E op \in {"mov to", "mov from"}, f \in Forms : OnData(op, f)
    \/ InFrame /\ \E op \in {"mov to", "mov from"} : \E k \in 1 .. Len(Display) - 1 : Outer(op, k)

Spec == Init /\ [][Next]_vars

-----------------------------------------------------------------------------
TypeOK ==
    /\ \A r \in Registers : reg[r] \in 0 .. Size - 1
    /\ \A n \in Words : mem[n] \in 0 .. Size - 1 /\ data[n] \in 0 .. Size - 1
    /\ ops \in 0 .. MaxOps

\* The machine does what the abstract one does: what has been pushed, called,
\* entered and stored is where it was put and comes back, at any depth, and
\* nothing else has been touched.
Agree ==
    /\ reg = want.reg /\ data = want.data
    /\ \A i \in 1 .. Depth : want.stack[i] # Unset => mem[Offset(i) \div 2] = want.stack[i]

=============================================================================
