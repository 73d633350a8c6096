-------------------------------- MODULE Alu --------------------------------
(***************************************************************************)
(* The arithmetic of the uPD9002 (cpu/upd9002): what each instruction does *)
(* to its destination and to the flags, written as the macros write it,    *)
(* bit for bit, beside what it is for: sums, differences, products and     *)
(* quotients of numbers, signed and unsigned, binary and decimal.          *)
(*                                                                         *)
(* An instruction sees and leaves a record: w the width (8, or Word for    *)
(* the word forms, 16 in the code and less here, since TLC's integers have *)
(* 32 bits), lo the destination (AL or AX for the accumulator forms), hi   *)
(* its upper half (AH or DX), s the source, f the flags that are set       *)
(* ("1" is bit 1 of the flag byte, which has no meaning of its own), and   *)
(* trap the vector it interrupts with.  Where operands come from (register *)
(* or memory, ROM or RAM, the clocks) makes no difference here.            *)
(***************************************************************************)
EXTENDS Integers, FiniteSets, FiniteSetsExt, Sequences

CONSTANTS
    Word,       \* the bits of a word
    Lows(_),    \* destinations, upper halves and sources to try, by width
    Highs(_),
    Counts,     \* shift counts
    Packed,     \* pairs of decimal digits
    Strings     \* pairs of strings of packed decimals, least significant first

VARIABLES
    phase,      \* "idle", "loaded", "done" and, of two instructions, "adjust"
    op,         \* the last instruction
    x,          \* what it saw
    y           \* what it left

vars == <<phase, op, x, y>>

When(k, p) == IF p THEN {k} ELSE {}
Bit(v, n) == (v \div 2^n) % 2
Cut(v, w) == v % 2^w
Sgn(v, w) == IF v >= 2^(w - 1) THEN v - 2^w ELSE v
Size(n) == IF n < 0 THEN -n ELSE n

\* iflags and _szpflag16: a byte's parity decides, of a word too.
Szp(r, w) ==
    When("Z", r = 0) \cup When("S", Bit(r, w - 1) = 1)
    \cup When("P", Cardinality({n \in 0 .. 7 : Bit(r, n) = 1}) % 2 = 0)
Szpc(r, w) == Szp(Cut(r, w), w) \cup When("C", Bit(Cut(r, w + 1), w) = 1)
Half(r, d, s) == When("A", (Bit(r, 4) + Bit(d, 4) + Bit(s, 4)) % 2 = 1)
Carry(i) == IF "C" \in i.f THEN 1 ELSE 0

Sum(i, r) ==
    [i EXCEPT !.lo = Cut(r, i.w),
              !.f = Half(r, i.lo, i.s) \cup Szpc(r, i.w)
                    \cup When("V", /\ Bit(r, i.w - 1) # Bit(i.s, i.w - 1)
                                   /\ Bit(r, i.w - 1) # Bit(i.lo, i.w - 1))]
DiffFlags(r, d, s, w) ==
    Half(r, d, s) \cup Szpc(r, w)
    \cup When("V", Bit(d, w - 1) # Bit(r, w - 1) /\ Bit(d, w - 1) # Bit(s, w - 1))
Diff(i, r) == [i EXCEPT !.lo = Cut(r, i.w), !.f = DiffFlags(r, i.lo, i.s, i.w)]
\* A bit of the result is set when as many of the operands' two are as ones says.
Logic(i, ones) ==
    LET r == SumSet({2^n : n \in {m \in 0 .. i.w - 1 : Bit(i.lo, m) + Bit(i.s, m) \in ones}})
    IN  [i EXCEPT !.lo = r, !.f = Szp(r, i.w)]
Kept(i, r) == [r EXCEPT !.lo = i.lo]

Add(i) == Sum(i, i.s + i.lo)
Or(i)  == Logic(i, {1, 2})
AdcMutant(i) == Sum(i, i.s + i.lo)
Adc(i) == Sum(i, Carry(i) + i.s + i.lo)
Sbb(i) == Diff(i, i.lo - i.s - Carry(i))
And(i) == Logic(i, {2})
Sub(i) == Diff(i, i.lo - i.s)
Xor(i) == Logic(i, {1})
Cmp(i) == Kept(i, Diff(i, i.lo - i.s))
Test(i) == Kept(i, Logic(i, {2}))

\* 80, 81 and 83: the middle of the operation byte says which of the eight.
Immediate(n, i) ==
    CASE n = 0 -> Add(i) [] n = 1 -> Or(i)  [] n = 2 -> Adc(i) [] n = 3 -> Sbb(i)
      [] n = 4 -> And(i) [] n = 5 -> Sub(i) [] n = 6 -> Xor(i) [] n = 7 -> Cmp(i)

\* Mutant: the result is not cut to its width.
IncMutant(i) ==
    [i EXCEPT !.lo = @ + 1,
              !.f = (i.f \cap {"C"}) \cup Szp(Cut(i.lo + 1, i.w), i.w)
                    \cup When("A", Bit(i.lo + 1, 4) # Bit(i.lo, 4))]

Inc(i) ==
    LET r == Cut(i.lo + 1, i.w) IN
    [i EXCEPT !.lo = r,
              !.f = (i.f \cap {"C"}) \cup Szp(r, i.w) \cup When("A", Bit(r, 4) # Bit(i.lo, 4))
                    \cup When("V", Bit(r, i.w - 1) = 1 /\ Bit(i.lo, i.w - 1) = 0)]
Dec(i) ==
    LET r == Cut(i.lo - 1, i.w) IN
    [i EXCEPT !.lo = r,
              !.f = (i.f \cap {"C"}) \cup Szp(r, i.w) \cup When("A", Bit(r, 4) # Bit(i.lo, 4))
                    \cup When("V", Bit(r, i.w - 1) = 0 /\ Bit(i.lo, i.w - 1) = 1)]
Neg(i) ==
    LET r == 0 - i.lo IN
    [i EXCEPT !.lo = Cut(r, i.w),
              !.f = When("A", Bit(Cut(r, i.w), 4) # Bit(i.lo, 4)) \cup Szpc(r, i.w)
                    \cup When("V", Bit(Cut(r, i.w), i.w - 1) = 1 /\ Bit(i.lo, i.w - 1) = 1)]
Not(i) == [i EXCEPT !.lo = 2^i.w - 1 - i.lo]

-----------------------------------------------------------------------------
(* Products and quotients of the accumulator and its upper half.           *)
Product(i, r, wide) ==
    [i EXCEPT !.lo = Cut(r, i.w), !.hi = Cut(r \div 2^i.w, i.w),
              !.f = (i.f \cap {"Z", "S", "A", "P"}) \cup When("V", wide) \cup When("C", wide)]
Mul(i)  == LET r == i.lo * i.s IN Product(i, r, r \div 2^i.w # 0)
Imul(i) == LET r == Sgn(i.lo, i.w) * Sgn(i.s, i.w)
           IN  Product(i, r, r + 2^(i.w - 1) \notin 0 .. 2^i.w - 1)

Trap(i, n) == [i EXCEPT !.trap = n]
Div(i) ==
    LET g == [i EXCEPT !.f = DiffFlags(i.hi - i.s, i.hi, i.s, i.w) \cup {"1"}]
        n == i.hi * 2^i.w + i.lo
    IN  IF i.s = 0 \/ i.hi >= i.s THEN Trap(g, 0)
        ELSE [g EXCEPT !.lo = n \div i.s, !.hi = n % i.s]

IdivMutant(i) ==
    LET n == Sgn(i.hi, i.w) * 2^i.w + i.lo
        d == Size(Sgn(i.s, i.w))
        h == Size(n) \div 2^i.w
        g == [i EXCEPT !.f = DiffFlags(h - d, h, d, i.w) \cup {"1"}]
        q == Size(n) \div d
        r == Size(n) % d
    IN  IF d = 0 \/ h >= d THEN Trap(g, 0)
        ELSE [i EXCEPT !.lo = Cut(IF (n < 0) # (Sgn(i.s, i.w) < 0) THEN -q ELSE q, i.w),
                       !.hi = Cut(IF n < 0 THEN -r ELSE r, i.w),
                       !.f = Szp(Cut(q, i.w), i.w) \cup {"1"}]
Idiv(i) ==
    LET n == Sgn(i.hi, i.w) * 2^i.w + i.lo
        d == Size(Sgn(i.s, i.w))
        h == Size(n) \div 2^i.w
        g == [i EXCEPT !.f = DiffFlags(h - d, h, d, i.w) \cup {"1"}]
        q == Size(n) \div d
        r == Size(n) % d
        v == [i EXCEPT !.f = Szp(Cut(q, i.w), i.w) \cup {"1"}]
    IN  IF d = 0 \/ h >= d THEN Trap(g, 0)
        ELSE IF q >= 2^(i.w - 1) THEN Trap(v, 0)
        ELSE [v EXCEPT !.lo = Cut(IF (n < 0) # (Sgn(i.s, i.w) < 0) THEN -q ELSE q, i.w),
                       !.hi = Cut(IF n < 0 THEN -r ELSE r, i.w)]

-----------------------------------------------------------------------------
(* Shifts, by one (D0, D1) and by a count (C0, C1, D2, D3).  The rotations *)
(* change C and V alone.                                                   *)
Turned(i, r, c, v) ==
    [i EXCEPT !.lo = r, !.f = (i.f \ {"C", "V"}) \cup When("C", c = 1) \cup When("V", v)]
Rol1(i) == LET c == Bit(i.lo, i.w - 1)
               r == Cut(2 * i.lo, i.w) + c
           IN  Turned(i, r, c, Bit(r, i.w - 1) # c)
Ror1(i) == LET c == Bit(i.lo, 0)
               r == (c * 2^i.w + i.lo) \div 2
           IN  Turned(i, r, c, Bit(r, i.w - 1) # Bit(i.lo, i.w - 1))
Rcl1(i) == LET r == Cut(2 * i.lo, i.w) + Carry(i)
           IN  Turned(i, r, Bit(i.lo, i.w - 1), Bit(r, i.w - 1) # Bit(i.lo, i.w - 1))
Rcr1(i) == LET r == (Carry(i) * 2^i.w + i.lo) \div 2
           IN  Turned(i, r, Bit(i.lo, 0), Bit(r, i.w - 1) # Bit(i.lo, i.w - 1))
Shl1(i) == [i EXCEPT !.lo = Cut(2 * i.lo, i.w),
                     !.f = Szpc(2 * i.lo, i.w) \cup {"A"}
                           \cup When("V", Bit(i.lo, i.w - 1) # Bit(2 * i.lo, i.w - 1))]
Shr1(i) == [i EXCEPT !.lo = i.lo \div 2,
                     !.f = Szp(i.lo \div 2, i.w) \cup {"A"} \cup When("C", Bit(i.lo, 0) = 1)
                           \cup When("V", Bit(i.lo, i.w - 1) = 1)]
Sar1(i) == LET r == Bit(i.lo, i.w - 1) * 2^(i.w - 1) + i.lo \div 2
           IN  [i EXCEPT !.lo = r, !.f = Szp(r, i.w) \cup {"A"} \cup When("C", Bit(i.lo, 0) = 1)]

\* shiftbase16, shiftbase09 and shiftbase17: a full turn is not nothing.
Base(n, turn) == IF n = 0 THEN 0 ELSE ((n - 1) % turn) + 1

\* All but the last place at once; words say of V only after one place.
RolBy(i, n) ==
    LET c == (Base(n, i.w) - 1) % i.w
        p == [i EXCEPT !.lo = Cut(i.lo * 2^c, i.w) + i.lo \div 2^(i.w - c)]
    IN  IF n = 0 THEN i
        ELSE IF i.w = 8 \/ c = 0 THEN Rol1(p)
        ELSE [Rol1(p) EXCEPT !.f = (@ \ {"V"}) \cup (i.f \cap {"V"})]
RorBy(i, n) ==
    LET c == (Base(n, i.w) - 1) % i.w
        p == [i EXCEPT !.lo = i.lo \div 2^c + Cut(i.lo * 2^(i.w - c), i.w)]
    IN  IF n = 0 THEN i
        ELSE IF i.w = 8 \/ c = 0 THEN Ror1(p)
        ELSE [Ror1(p) EXCEPT !.f = (@ \ {"V"}) \cup (i.f \cap {"V"})]

\* Through the carry, place by place.
RclByMutant(i, n) ==
    LET step[k \in 0 .. n] == IF k = 0 THEN i ELSE Rcl1(step[k - 1])
    IN  IF Base(n, i.w) = 0 THEN i ELSE step[Base(n, i.w)]
RclBy(i, n) ==
    LET k == Base(n, i.w + 1)
        step[m \in 0 .. k] == IF m = 0 THEN i ELSE Rcl1(step[m - 1])
    IN  IF k = 0 THEN i
        ELSE IF i.w = 8 \/ k = 1 THEN step[k]
        ELSE [step[k] EXCEPT !.f = (@ \ {"V"}) \cup (i.f \cap {"V"})]
RcrBy(i, n) ==
    LET k == Base(n, i.w + 1)
        step[m \in 0 .. k] == IF m = 0 THEN i ELSE Rcr1(step[m - 1])
    IN  IF k = 0 THEN i
        ELSE IF i.w = 8 \/ k = 1 THEN step[k]
        ELSE [step[k] EXCEPT !.f = (@ \ {"V"}) \cup (i.f \cap {"V"})]

\* _shift8 and _shift16, which count further than a word is long.
Shifted(i, r, c, v) ==
    [i EXCEPT !.lo = r,
              !.f = (i.f \cap {"1"}) \cup When("C", c = 1) \cup Szp(r, i.w) \cup When("V", v)]
Shl(i, n) ==
    LET r == IF n < i.w THEN Cut(i.lo * 2^n, i.w) ELSE 0
        c == IF n <= i.w THEN Bit(i.lo, i.w - n) ELSE 0
    IN  IF n = 0 THEN i ELSE Shifted(i, r, c, Bit(r, i.w - 1) # c)
Shr(i, n) ==
    LET r == IF n < i.w THEN i.lo \div 2^n ELSE 0
        c == IF n <= i.w THEN Bit(i.lo, n - 1) ELSE 0
    IN  IF n = 0 THEN i ELSE Shifted(i, r, c, Bit(r, i.w - 1) # Bit(r, i.w - 2))
Sar(i, n) ==
    LET top == Bit(i.lo, i.w - 1)
        r == IF n < i.w THEN i.lo \div 2^n + top * (2^i.w - 2^(i.w - n)) ELSE top * (2^i.w - 1)
        c == IF n <= i.w THEN Bit(i.lo, n - 1) ELSE top
    IN  IF n = 0 THEN i ELSE Shifted(i, r, c, FALSE)

-----------------------------------------------------------------------------
(* Decimals.                                                               *)
AdjustFlags(i, v, low, high, over) ==
    (i.f \cap {"1"}) \cup When("A", low) \cup When("C", high) \cup Szp(v, 8) \cup When("V", over)
AdjustLow(v, f) == "A" \in f \/ v % 16 > 9
AdjustHigh(v, f) == "C" \in f \/ v > 159 \/ (v > 153 /\ "A" \notin f)
Delta(v, f) == (IF AdjustLow(v, f) THEN 6 ELSE 0) + (IF AdjustHigh(v, f) THEN 96 ELSE 0)
Daa(i) ==
    LET r == Cut(i.lo + Delta(i.lo, i.f), 8)
    IN  [i EXCEPT !.lo = r,
                  !.f = AdjustFlags(i, r, AdjustLow(i.lo, i.f), AdjustHigh(i.lo, i.f),
                                    /\ Bit(i.lo, 7) = Bit(Delta(i.lo, i.f), 7)
                                    /\ Bit(i.lo, 7) # Bit(r, 7))]
Das(i) ==
    LET r == Cut(i.lo - Delta(i.lo, i.f), 8)
    IN  [i EXCEPT !.lo = r,
                  !.f = AdjustFlags(i, r, AdjustLow(i.lo, i.f), AdjustHigh(i.lo, i.f),
                                    /\ Bit(i.lo, 7) # Bit(Delta(i.lo, i.f), 7)
                                    /\ Bit(i.lo, 7) # Bit(r, 7))]
Aaa(i) ==
    LET a == AdjustLow(i.lo, i.f)
        r == IF a THEN Cut(i.lo + 6, 8) ELSE i.lo
    IN  [i EXCEPT !.lo = r % 16, !.hi = IF a THEN Cut(@ + 1, 8) ELSE @,
                  !.f = AdjustFlags(i, r, a, a, Bit(i.lo, 7) = 0 /\ Bit(r, 7) = 1)]
Aas(i) ==
    LET a == AdjustLow(i.lo, i.f)
        r == IF a THEN Cut(i.lo - 6, 8) ELSE i.lo
    IN  [i EXCEPT !.lo = r % 16, !.hi = IF a THEN Cut(@ - 1, 8) ELSE @,
                  !.f = AdjustFlags(i, r, a, a, Bit(i.lo, 7) = 1 /\ Bit(r, 7) = 0)]
Aam(i) ==
    LET v == IF i.s = 0 THEN [i EXCEPT !.hi = 255]
             ELSE [i EXCEPT !.hi = i.lo \div i.s, !.lo = i.lo % i.s]
    IN  [v EXCEPT !.f = (i.f \cap {"1"}) \cup Szp(v.lo, 8)]
\* The operand is fetched and not looked at.
Aad(i) ==
    LET r == Cut(i.lo + Cut(i.hi * 10, 8), 8)
    IN  [i EXCEPT !.lo = r, !.hi = 0, !.f = (i.f \ {"S", "Z", "P"}) \cup Szp(r, 8)]
Cbw(i) == [i EXCEPT !.hi = IF i.lo >= 128 THEN 255 ELSE 0]
Cwd(i) == [i EXCEPT !.hi = IF Bit(i.lo, i.w - 1) = 1 THEN 2^i.w - 1 ELSE 0]

Byte(d, s, f) == [w |-> 8, lo |-> d, hi |-> 0, s |-> s, f |-> f, trap |-> -1]
Decimal(d, s, f, minus) ==
    IF minus THEN Das(Diff(Byte(d, s, f), d - s - Carry(Byte(d, s, f))))
    ELSE Daa(Sum(Byte(d, s, f), d + s + Carry(Byte(d, s, f))))

\* add4s, sub4s and cmp4s: strings of packed decimals, digit pairs carrying
\* into the next.  Answers the digits and the flags.
String4(dst, src, minus) ==
    LET step[k \in 0 .. Len(dst)] ==
            IF k = 0 THEN Byte(0, 0, {}) ELSE Decimal(dst[k], src[k], step[k - 1].f, minus)
        digits == [k \in 1 .. Len(dst) |-> step[k].lo]
        zero == \A k \in 1 .. Len(dst) : digits[k] = 0
    IN  [digits |-> digits,
         f |-> IF "C" \in step[Len(dst)].f THEN {"S", "A", "1", "C"}
               ELSE IF zero THEN {"Z", "P", "1"} ELSE {"1"}]
Rol4(i) == [i EXCEPT !.s = Cut(i.s * 16, 8) + (i.lo % 16), !.lo = Cut(i.lo * 16, 8) + i.s \div 16]
Ror4(i) == [i EXCEPT !.s = i.s \div 16 + (i.lo % 16) * 16, !.lo = i.s]

-----------------------------------------------------------------------------
(* Single bits, numbered modulo the width, and the conditions of the short *)
(* jumps.                                                                  *)
Place(n, w) == n % w
Test1(i, n) == [i EXCEPT !.f = Szp(Bit(i.lo, Place(n, i.w)) * 2^Place(n, i.w), i.w)]
Clr1(i, n)  == [i EXCEPT !.lo = @ - Bit(@, Place(n, i.w)) * 2^Place(n, i.w)]
Set1(i, n)  == [i EXCEPT !.lo = @ + (1 - Bit(@, Place(n, i.w))) * 2^Place(n, i.w)]
Not1(i, n)  == [i EXCEPT !.lo = @ + (1 - 2 * Bit(@, Place(n, i.w))) * 2^Place(n, i.w)]

LessMutant(f) == "S" \in f
Less(f) == ("S" \in f) # ("V" \in f)
Taken(cc, f) ==
    CASE cc = "o"  -> "V" \in f                    [] cc = "no"  -> "V" \notin f
      [] cc = "c"  -> "C" \in f                    [] cc = "nc"  -> "C" \notin f
      [] cc = "z"  -> "Z" \in f                    [] cc = "nz"  -> "Z" \notin f
      [] cc = "na" -> f \cap {"Z", "C"} # {}       [] cc = "a"   -> f \cap {"Z", "C"} = {}
      [] cc = "s"  -> "S" \in f                    [] cc = "ns"  -> "S" \notin f
      [] cc = "p"  -> "P" \in f                    [] cc = "np"  -> "P" \notin f
      [] cc = "l"  -> Less(f)                      [] cc = "nl"  -> ~Less(f)
      [] cc = "le" -> "Z" \in f \/ Less(f)         [] cc = "nle" -> "Z" \notin f /\ ~Less(f)

-----------------------------------------------------------------------------
Binary == {"add", "or", "adc", "sbb", "and", "sub", "xor", "cmp", "test"}
Unary == {"inc", "dec", "neg", "not", "cwd"}
Wide == {"mul", "imul", "div", "idiv"}
Shifts == {"rol", "ror", "rcl", "rcr", "shl", "shr", "sar"}
Bits == {"test1", "clr1", "set1", "not1"}
Ascii == {"aam", "aad", "cbw", "rol4", "ror4"}
Group1 == <<"add", "or", "adc", "sbb", "and", "sub", "xor", "cmp">>

Done(o, i) ==
    CASE o \in Binary \ {"test"} -> Immediate((CHOOSE n \in 1 .. 8 : Group1[n] = o) - 1, i)
      [] o = "test" -> Test(i)
      [] o = "inc" -> Inc(i) [] o = "dec" -> Dec(i) [] o = "neg" -> Neg(i) [] o = "not" -> Not(i)
      [] o = "cwd" -> Cwd(i)
      [] o = "mul" -> Mul(i) [] o = "imul" -> Imul(i) [] o = "div" -> Div(i) [] o = "idiv" -> Idiv(i)
      [] o = "rol" -> RolBy(i, i.s) [] o = "ror" -> RorBy(i, i.s)
      [] o = "rcl" -> RclBy(i, i.s) [] o = "rcr" -> RcrBy(i, i.s)
      [] o = "shl" -> Shl(i, i.s) [] o = "shr" -> Shr(i, i.s) [] o = "sar" -> Sar(i, i.s)
      [] o = "test1" -> Test1(i, i.s) [] o = "clr1" -> Clr1(i, i.s)
      [] o = "set1" -> Set1(i, i.s) [] o = "not1" -> Not1(i, i.s)
      [] o = "aam" -> Aam(i) [] o = "aad" -> Aad(i) [] o = "cbw" -> Cbw(i)
      [] o = "rol4" -> Rol4(i) [] o = "ror4" -> Ror4(i)

ByOne(o, i) ==
    CASE o = "rol" -> Rol1(i) [] o = "ror" -> Ror1(i) [] o = "rcl" -> Rcl1(i) [] o = "rcr" -> Rcr1(i)
      [] o = "shl" -> Shl1(i) [] o = "shr" -> Shr1(i) [] o = "sar" -> Sar1(i)
Adjusted(o, i) ==
    CASE o = "daa" -> Daa(i) [] o = "das" -> Das(i) [] o = "aaa" -> Aaa(i) [] o = "aas" -> Aas(i)

Nothing == Byte(0, 0, {})
In(w, d, h, s, f) == [w |-> w, lo |-> d, hi |-> h, s |-> s, f |-> f, trap |-> -1]

Init == phase = "idle" /\ op = "none" /\ x = Nothing /\ y = Nothing

\* The operands a program may have in its registers, by the kind of
\* instruction that will meet them.
Load(kind, i) == phase' = "loaded" /\ op' = kind /\ x' = i /\ y' = i
Operands ==
    \E w \in {8, Word}, f \in {{}, {"C"}, {"1", "A", "V"}} : \E d \in Lows(w) :
        \/ \E s \in Lows(w) : Load("binary", In(w, d, 0, s, f))
        \/ Load("unary", In(w, d, 0, 0, f))
        \/ f = {} /\ \E h \in Highs(w), s \in Lows(w) : Load("wide", In(w, d, h, s, f))
        \/ \E n \in Counts : Load("shift", In(w, d, 0, n, f)) \/ Load("bit", In(w, d, 0, n, f))
        \/ w = 8 /\ \E h \in Highs(8), s \in {0, 2, 10, 129} : Load("ascii", In(8, d, h, s, f))
Digits == \E d, s \in Packed, f \in {{}, {"C"}} : Load("decimal", In(8, d, 0, s, f))
Figures == \E d, s \in 0 .. 9 : Load("figure", In(8, d, 5, s, {}))
Numbers == \E p \in Strings :
    phase' = "loaded" /\ op' = "string" /\ x' = p /\ y' = Nothing

Run(kind, ops) ==
    /\ phase = "loaded" /\ op = kind
    /\ \E o \in ops : op' = o /\ y' = Done(o, x)
    /\ phase' = "done" /\ UNCHANGED x
Once ==
    /\ phase = "loaded" /\ op = "shift"
    /\ \E o \in Shifts : op' = o /\ y' = ByOne(o, x) /\ x' = [x EXCEPT !.s = 1]
    /\ phase' = "done"
\* A sum or difference, and the instruction that makes it decimal.
Accumulate ==
    /\ phase = "loaded"
    /\ \/ op = "decimal" /\ \E o \in {"add", "adc", "sub", "sbb"} : op' = o /\ y' = Done(o, x)
       \/ op = "figure" /\ \E o \in {"add", "sub"} : op' = o /\ y' = Done(o, x)
    /\ phase' = IF op = "figure" THEN "figure" ELSE "adjust"
    /\ UNCHANGED x
Adjust ==
    /\ phase \in {"adjust", "figure"}
    /\ op' = IF phase = "adjust" THEN (IF op \in {"add", "adc"} THEN "daa" ELSE "das")
             ELSE (IF op = "add" THEN "aaa" ELSE "aas")
    /\ y' = Adjusted(op', y) /\ x' = [x EXCEPT !.f = IF op \in {"add", "sub"} THEN {} ELSE @]
    /\ phase' = "done"
StringOp ==
    /\ phase = "loaded" /\ op = "string"
    /\ \E o \in {"add4s", "sub4s", "cmp4s"} : op' = o /\ y' = String4(x.dst, x.src, o # "add4s")
    /\ phase' = "done" /\ UNCHANGED x
Retire == phase = "done" /\ phase' = "idle" /\ op' = "none" /\ x' = Nothing /\ y' = Nothing

Next ==
    \/ phase = "idle" /\ (Operands \/ Digits \/ Figures \/ Numbers)
    \/ Run("binary", Binary) \/ Run("unary", Unary) \/ Run("wide", Wide) \/ Run("shift", Shifts)
    \/ Run("bit", Bits) \/ Run("ascii", Ascii)
    \/ Once \/ Accumulate \/ Adjust \/ StringOp \/ Retire
Spec == Init /\ [][Next]_vars

-----------------------------------------------------------------------------
Operand(i) ==
    /\ i.w \in {8, Word} /\ {i.lo, i.hi} \subseteq 0 .. 2^i.w - 1 /\ i.s \in Nat
    /\ i.f \subseteq {"C", "P", "A", "Z", "S", "V", "1"} /\ i.trap \in {-1, 0}
TypeOK ==
    /\ phase \in {"idle", "loaded", "adjust", "figure", "done"}
    /\ phase = "done" /\ op \notin {"add4s", "sub4s", "cmp4s"} => Operand(x) /\ Operand(y)

\* What the operands stand for, summed as numbers that have no width.
Sums == {"add", "adc", "sub", "sbb", "cmp", "inc", "dec", "neg"}
Exact(o, d, s, c) ==
    CASE o = "add" -> d + s [] o = "adc" -> d + s + c [] o \in {"sub", "cmp"} -> d - s
      [] o = "sbb" -> d - s - c [] o = "inc" -> d + 1 [] o = "dec" -> d - 1 [] o = "neg" -> -d
Unsigned(w) == 0 .. 2^w - 1
Signed(w) == -(2^(w - 1)) .. 2^(w - 1) - 1

\* A sum or a difference is the number it stands for, cut to its width, and
\* the flags tell what was cut: C if it is no unsigned number of the width, V
\* if it is no signed one, A if the low digits carry, Z and S of what is left
\* (CMP leaves its destination, INC and DEC leave C).
SumsExact == phase = "done" /\ op \in Sums =>
    LET w == x.w
        r == Cut(Exact(op, x.lo, x.s, Carry(x)), w)
    IN  /\ y.lo = IF op = "cmp" THEN x.lo ELSE r
        /\ "C" \in y.f <=> IF op \in {"inc", "dec"} THEN "C" \in x.f
                           ELSE Exact(op, x.lo, x.s, Carry(x)) \notin Unsigned(w)
        /\ "V" \in y.f <=> Exact(op, Sgn(x.lo, w), Sgn(x.s, w), Carry(x)) \notin Signed(w)
        /\ "A" \in y.f <=> Exact(op, x.lo % 16, x.s % 16, Carry(x)) \notin 0 .. 15
        /\ "Z" \in y.f <=> r = 0
        /\ "S" \in y.f <=> Sgn(r, w) < 0

\* A product takes both halves, C and V say whether the upper one is needed;
\* a division leaves quotient and remainder, the remainder with the sign of
\* the dividend, or interrupts if the quotient does not fit, and only then.
QuotientsExact == phase = "done" /\ op \in Wide =>
    LET w == x.w
        n == (IF op = "idiv" THEN Sgn(x.hi, w) ELSE x.hi) * 2^w + x.lo
        s == IF op \in {"imul", "idiv"} THEN Sgn(x.s, w) ELSE x.s
        q == IF op = "idiv" THEN Sgn(y.lo, w) ELSE y.lo
        r == IF op = "idiv" THEN Sgn(y.hi, w) ELSE y.hi
        fits == Size(n) < Size(s) * (IF op = "div" THEN 2^w ELSE 2^(w - 1))
    IN  CASE op = "mul" ->
               /\ y.hi * 2^w + y.lo = x.lo * s
               /\ {"C", "V"} \cap y.f = IF x.lo * s \in Unsigned(w) THEN {} ELSE {"C", "V"}
          [] op = "imul" ->
               /\ Sgn(y.hi, w) * 2^w + y.lo = Sgn(x.lo, w) * s
               /\ {"C", "V"} \cap y.f = IF Sgn(x.lo, w) * s \in Signed(w) THEN {} ELSE {"C", "V"}
          [] OTHER ->
               /\ y.trap = IF fits THEN -1 ELSE 0
               /\ fits => q * s + r = n /\ Size(r) < Size(s) /\ (r = 0 \/ (r < 0) = (n < 0))
               /\ ~fits => y.lo = x.lo /\ y.hi = x.hi

\* A shift or rotation by n places is n of them by one: the value, C, and
\* what a shift says of the value; V too, but for a word rotated by more.
ShiftsIterate == phase = "done" /\ op \in Shifts =>
    LET step[k \in 0 .. x.s] == IF k = 0 THEN x ELSE ByOne(op, step[k - 1])
        seen == IF op \in {"rol", "ror", "rcl", "rcr"} /\ x.w # 8 /\ x.s # 1
                THEN {"C", "Z", "S", "P"} ELSE {"C", "Z", "S", "P", "V"}
    IN  y.lo = step[x.s].lo /\ y.f \cap seen = step[x.s].f \cap seen

Tens(v) == 10 * (v \div 16) + (v % 16)
TensOf(d) == LET sum[k \in 0 .. Len(d)] == IF k = 0 THEN 0 ELSE sum[k - 1] + Tens(d[k]) * 100^(k - 1)
             IN  sum[Len(d)]

\* Numbers of packed decimals, added or subtracted and then adjusted, byte by
\* byte by a program or in a string by one instruction, are the decimal sum
\* or difference, and C is its carry; unpacked ones carry into AH.
DecimalsExact == phase = "done" =>
    /\ op \in {"daa", "das"} =>
           LET n == IF op = "daa" THEN Tens(x.lo) + Tens(x.s) + Carry(x)
                    ELSE Tens(x.lo) - Tens(x.s) - Carry(x)
           IN  Tens(y.lo) = n % 100 /\ ("C" \in y.f <=> n \notin 0 .. 99)
    /\ op \in {"aaa", "aas"} =>
           LET n == IF op = "aaa" THEN x.lo + x.s ELSE x.lo - x.s
           IN  y.lo = n % 10 /\ y.hi = x.hi + n \div 10 /\ ("C" \in y.f <=> n \notin 0 .. 9)
    /\ op \in {"add4s", "sub4s", "cmp4s"} =>
           LET n == IF op = "add4s" THEN TensOf(x.dst) + TensOf(x.src)
                    ELSE TensOf(x.dst) - TensOf(x.src)
               top == 100^Len(x.dst)
           IN  /\ TensOf(y.digits) = n % top
               /\ "C" \in y.f <=> n \notin 0 .. top - 1
               /\ "Z" \in y.f <=> n = 0
    /\ op = "aam" /\ x.s # 0 => y.hi * x.s + y.lo = x.lo /\ y.lo < x.s

\* After a comparison every conditional jump goes where the order of the two
\* numbers sends it, unsigned or signed.
JumpsFollowOrder == phase = "done" /\ op \in {"cmp", "sub"} =>
    LET a == Sgn(x.lo, x.w)
        b == Sgn(x.s, x.w)
        want == [c |-> x.lo < x.s, z |-> x.lo = x.s, na |-> x.lo <= x.s, l |-> a < b, le |-> a <= b]
        other == [c |-> "nc", z |-> "nz", na |-> "a", l |-> "nl", le |-> "nle"]
    IN  \A cc \in DOMAIN want : Taken(cc, y.f) = want[cc] /\ Taken(other[cc], y.f) = ~want[cc]
=============================================================================
