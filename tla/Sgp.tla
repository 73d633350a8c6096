-------------------------------- MODULE Sgp --------------------------------
(***************************************************************************)
(* The graphic processor of the PC-88VA (io/sgp.c): a coprocessor that     *)
(* reads a command list and moves, tiles, fills, draws and searches pixels *)
(* packed in words, a pixel or a word per step, while the CPU goes on and  *)
(* may abort or restart it between any two steps.                          *)
(*                                                                         *)
(* A word is a sequence of WordBits bits (16 in the code), its first pixel *)
(* first; mode m packs DotCountMax[m] pixels in it, and mode 0 has one bit *)
(* per pixel.  Addresses and pitches count words.  The command list is a   *)
(* sequence of records; the model's clock only decides how many steps run  *)
(* between two accesses of the CPU, so it is left out, as are the pitches  *)
(* the hardware leaves undefined (sgp_fbw_undefined) and zero extents.     *)
(***************************************************************************)
EXTENDS Integers, Sequences

CONSTANTS
  WordBits,      \* bits in a word of memory
  DotCountMax,   \* mode -> pixels in a word (dotcountmax)
  Words,         \* the addresses of the memory
  Jobs           \* what the guest has the SGP do: [mem, list, accesses]
                 \*   records, the last the bound on its accesses to ports
                 \*   504H and 506H while the SGP works

Modes == DOMAIN DotCountMax
Word  == [1 .. WordBits -> 0 .. 1]
Bpp(mode) == WordBits \div DotCountMax[mode]

SgpAssumption ==
  /\ WordBits \in Nat \ {0} /\ 0 \in Modes /\ DotCountMax[0] = WordBits
  /\ \A m \in Modes : DotCountMax[m] \in Nat \ {0} /\ WordBits % DotCountMax[m] = 0
  /\ \A j \in Jobs : j.mem \in [Words -> Word] /\ j.accesses \in Nat

VARIABLES
  mem,      \* the memory the SGP works on
  list,     \* the command list the guest prepared
  sgp,      \* the registers
  want,     \* history: what the command being executed must leave
  cut,      \* history: the CPU stopped the last command before its end
  accesses  \* bound: accesses left

vars == <<mem, list, sgp, want, cut, accesses>>

-----------------------------------------------------------------------------
(* Words as shift registers. *)

Zeros(n)  == [i \in 1 .. n |-> 0]
Ones(n)   == [i \in 1 .. n |-> 1]
Shl(w, n) == SubSeq(w, n + 1, WordBits) \o Zeros(n)
Shr(w, n) == Zeros(n) \o SubSeq(w, 1, WordBits - n)

(* A scan goes left to right, or right to left when HD is set: the next    *)
(* pixel leaves the source register at one end and enters the new word at  *)
(* the other.                                                              *)
Advance(hd, w, n) == IF hd THEN Shr(w, n) ELSE Shl(w, n)
Leaving(hd, w, n) == IF hd THEN SubSeq(w, WordBits - n + 1, WordBits) ELSE SubSeq(w, 1, n)
Enter(hd, w, px)  == IF hd THEN px \o SubSeq(w, 1, WordBits - Len(px))
                           ELSE SubSeq(w, Len(px) + 1, WordBits) \o px

Lit(bits) == \E i \in DOMAIN bits : bits[i] = 1

(* The sixteen operations of logicalop, by the bit of op that each pair of *)
(* source and destination bits selects; 3 leaves the destination.          *)
Rop(op, s, d) == (op \div 2 ^ (2 * (1 - s) + (1 - d))) % 2

(* A mask of ones over the pixels that are not zero. *)
ZeroMask(w, mode) ==
  LET b == Bpp(mode)
  IN [i \in 1 .. WordBits |->
        LET first == ((i - 1) \div b) * b + 1
        IN IF Lit(SubSeq(w, first, first + b - 1)) THEN 1 ELSE 0]

(* write_dest2: newval goes to the destination word where the mask has     *)
(* ones and, in TP mode 2, the destination pixel is zero.                  *)
WriteDest(g) ==
  LET d    == mem[g.dest.next]
      z    == ZeroMask(d, g.dest.mode)
      sets(i) == g.newvalmask[i] = 1 /\ (g.blt.tp = 2 => z[i] = 0)
  IN [mem EXCEPT ![g.dest.next] =
        [i \in 1 .. WordBits |-> IF sets(i) THEN Rop(g.blt.op, g.newval[i], d[i]) ELSE d[i]]]

-----------------------------------------------------------------------------
(* Blocks. *)

NoBlock == [mode |-> 0, dot |-> 0, width |-> 0, height |-> 0, fbw |-> 0, address |-> 0,
            line |-> 0, next |-> 0, dotcount |-> 0, buf |-> Zeros(WordBits),
            xcount |-> 0, ycount |-> 0]

Fetched(d) == [f \in DOMAIN NoBlock |-> IF f \in DOMAIN d THEN d[f] ELSE NoBlock[f]]

InitBlock(b) == [b EXCEPT !.line = b.address, !.next = b.address, !.ycount = b.height]

By(hd) == IF hd THEN -1 ELSE 1

InitSrcLine(g, m) ==
  LET hd   == g.blt.hd
      dot  == IF g.blt.sf THEN g.dest.dot ELSE g.src.dot
      from == g.src.next + (IF g.blt.sf /\ (IF hd THEN g.dest.dot > g.src.dot
                                                  ELSE g.dest.dot < g.src.dot)
                            THEN By(hd) ELSE 0)
      max  == DotCountMax[g.src.mode]
      left == IF hd THEN dot + 1 ELSE max - dot
  IN [g EXCEPT !.src.next = from + By(hd), !.src.dotcount = left,
               !.src.buf = Advance(hd, m[from], (max - left) * Bpp(g.src.mode)),
               !.src.xcount = g.src.width]

InitDestLine(g) ==
  LET max == DotCountMax[g.dest.mode]
  IN [g EXCEPT !.newval = Zeros(WordBits), !.newvalmask = Zeros(WordBits),
               !.dest.dotcount = IF g.blt.hd THEN g.dest.dot + 1 ELSE max - g.dest.dot,
               !.dest.xcount = g.dest.width]

InitLines(g, m) == InitDestLine(InitSrcLine(g, m))

-----------------------------------------------------------------------------
(* BITBLT and PATBLT (exec_bitblt, exec_bitblt_hd): one pixel. *)

ExtPix(g) == g.src.mode = 0 /\ g.dest.mode # 0

(* The source register, read anew when it is empty. *)
SrcRead(g) ==
  IF g.src.dotcount # 0 THEN g
  ELSE [g EXCEPT !.src.buf = mem[g.src.next], !.src.next = @ + By(g.blt.hd),
                 !.src.dotcount = DotCountMax[g.src.mode]]

(* The pixel, and whether TP mode 1 lets it through: right to left, the    *)
(* test looks at all that is left in the register.                         *)
Pixel(g) ==
  LET n == Bpp(g.dest.mode)
  IN IF ExtPix(g) THEN [i \in 1 .. n |-> Leaving(g.blt.hd, g.src.buf, 1)[1]]
                  ELSE Leaving(g.blt.hd, g.src.buf, n)
Opaque(g) ==
  \/ g.blt.tp # 1
  \/ IF g.blt.hd /\ ~ExtPix(g) THEN Lit(g.src.buf) ELSE Lit(Pixel(g))

PixelMoved(g) ==
  LET n  == Bpp(g.dest.mode)
      hd == g.blt.hd
  IN [g EXCEPT !.newval = Enter(hd, @, Pixel(g)),
               !.newvalmask = Enter(hd, @, IF Opaque(g) THEN Ones(n) ELSE Zeros(n)),
               !.src.buf = Advance(hd, @, IF ExtPix(g) THEN 1 ELSE n),
               !.src.dotcount = @ - 1, !.src.xcount = @ - 1,
               !.dest.dotcount = @ - 1, !.dest.xcount = @ - 1]

WordFull(g) == g.dest.dotcount = 0 \/ g.dest.xcount = 0

Aligned(g) ==
  LET n == g.dest.dotcount * Bpp(g.dest.mode)
      v == Advance(g.blt.hd, g.newval, n)
  IN [g EXCEPT !.newval = IF ExtPix(g) THEN [i \in 1 .. WordBits |-> v[i] * g.color[i]] ELSE v,
               !.newvalmask = Advance(g.blt.hd, @, n)]

WordDone(g) == [g EXCEPT !.dest.next = @ + By(g.blt.hd),
                         !.dest.dotcount = DotCountMax[g.dest.mode]]

(* Mutant: the pattern does not start over after its last line.            *)
NextLineMutant(g, m) ==
  LET down(b) == IF g.blt.vd THEN b.line - b.fbw ELSE b.line + b.fbw
      s == [g.src EXCEPT !.ycount = @ - 1, !.line = down(g.src), !.next = down(g.src)]
      d == [g.dest EXCEPT !.ycount = @ - 1, !.line = down(g.dest), !.next = down(g.dest)]
  IN InitLines([g EXCEPT !.src = s, !.dest = d], m)

(* The next line, the pattern starting over at its end. *)
NextLine(g, m) ==
  LET down(b) == IF g.blt.vd THEN b.line - b.fbw ELSE b.line + b.fbw
      s0 == [g.src EXCEPT !.ycount = @ - 1, !.line = down(g.src)]
      s1 == IF s0.ycount = 0 THEN InitBlock(s0) ELSE s0
      d1 == [g.dest EXCEPT !.ycount = @ - 1, !.line = down(g.dest)]
  IN InitLines([g EXCEPT !.src = [s1 EXCEPT !.next = s1.line],
                         !.dest = [d1 EXCEPT !.next = d1.line]], m)

AfterPixel(g, m) ==
  IF g.dest.xcount = 0
  THEN IF g.dest.ycount = 1
       THEN [g EXCEPT !.func = "fetch", !.dest.ycount = 0, !.src.ycount = @ - 1]
       ELSE NextLine(g, m)
  ELSE IF g.src.xcount = 0 THEN InitSrcLine([g EXCEPT !.src.next = g.src.line], m)
  ELSE g

ExecBlt ==
  LET g == PixelMoved(SrcRead(sgp))
      a == Aligned(g)
  IN IF WordFull(g)
     THEN /\ mem' = WriteDest(a)
          /\ sgp' = AfterPixel(WordDone(a), mem')
     ELSE /\ UNCHANGED mem
          /\ sgp' = AfterPixel(g, mem)

-----------------------------------------------------------------------------
(* LINE: along X a word at a time is composed, along Y a dot is written.   *)

LineMask(g) == IF g.blt.tp = 1 THEN ZeroMask(g.color, g.dest.mode) ELSE Ones(WordBits)

(* The pixel of word w with n pixels from it to the end of the word in the *)
(* direction of the line.                                                  *)
LinePixel(g, w, n) ==
  LET b == Bpp(g.dest.mode)
  IN IF g.blt.hd THEN SubSeq(w, (n - 1) * b + 1, n * b)
                 ELSE SubSeq(w, WordBits - n * b + 1, WordBits - (n - 1) * b)

LineDown(g) == IF g.blt.vd THEN -g.dest.fbw ELSE g.dest.fbw

LineXNext(g) ==
  LET d0 == IF g.dest.dotcount # 0 THEN g.dest
            ELSE [g.dest EXCEPT !.next = @ + By(g.blt.hd), !.dotcount = DotCountMax[g.dest.mode]]
      turn == g.slope >= g.den
  IN IF g.dest.xcount = 0 THEN [g EXCEPT !.func = "fetch"]
     ELSE [g EXCEPT !.newval = Zeros(WordBits), !.newvalmask = Zeros(WordBits),
                    !.dest = IF turn THEN [d0 EXCEPT !.next = @ + LineDown(g)] ELSE d0,
                    !.slope = IF turn THEN @ - g.den ELSE @]

ExecLineX ==
  LET n == sgp.dest.dotcount
      g == [sgp EXCEPT
              !.newval = Enter(sgp.blt.hd, @, LinePixel(sgp, sgp.color, n)),
              !.newvalmask = Enter(sgp.blt.hd, @, LinePixel(sgp, LineMask(sgp), n)),
              !.dest.dotcount = @ - 1, !.dest.xcount = @ - 1, !.slope = @ + sgp.num]
      shift == g.dest.dotcount * Bpp(g.dest.mode)
      a == [g EXCEPT !.newval = Advance(g.blt.hd, @, shift),
                     !.newvalmask = Advance(g.blt.hd, @, shift)]
  IN IF WordFull(g) \/ g.slope >= g.den
     THEN mem' = WriteDest(a) /\ sgp' = LineXNext(a)
     ELSE UNCHANGED mem /\ sgp' = g

ExecLineY ==
  LET b    == Bpp(sgp.dest.mode)
      here == [i \in 1 .. WordBits |->
                 IF (i - 1) \div b = sgp.dest.dotcount THEN LineMask(sgp)[i] ELSE 0]
      a    == [sgp EXCEPT !.newval = sgp.color, !.newvalmask = here]
      max  == DotCountMax[sgp.dest.mode]
      turn == sgp.slope + sgp.num >= sgp.den
      dot  == sgp.dest.dotcount + (IF turn THEN By(sgp.blt.hd) ELSE 0)
      over == CASE dot < 0 -> -1 [] dot >= max -> 1 [] OTHER -> 0
  IN /\ mem' = WriteDest(a)
     /\ sgp' = [a EXCEPT !.dest.next = @ + LineDown(sgp) + over,
                         !.dest.dotcount = dot - over * max,
                         !.slope = @ + sgp.num - (IF turn THEN sgp.den ELSE 0),
                         !.dest.ycount = @ - 1,
                         !.func = IF sgp.dest.ycount = 1 THEN "fetch" ELSE @]

-----------------------------------------------------------------------------
(* CLS and SCAN. *)

ExecCls ==
  /\ mem' = [mem EXCEPT ![sgp.clsaddr] = sgp.color]
  /\ sgp' = [sgp EXCEPT !.clsaddr = @ + 1, !.clscount = @ - 1,
                        !.func = IF sgp.clscount = 1 THEN "fetch" ELSE @]

PixelAt(w, mode, dot) == SubSeq(w, dot * Bpp(mode) + 1, (dot + 1) * Bpp(mode))

Matches(d) == PixelAt(mem[d.next], d.mode, d.dotcount) = PixelAt(sgp.color, d.mode, d.dotcount)

MoveRight(d) ==
  IF d.dotcount + 1 = DotCountMax[d.mode] THEN [d EXCEPT !.dotcount = 0, !.next = @ + 1]
                                          ELSE [d EXCEPT !.dotcount = @ + 1]
MoveLeft(d) ==
  IF d.dotcount = 0 THEN [d EXCEPT !.dotcount = DotCountMax[d.mode] - 1, !.next = @ - 1]
                    ELSE [d EXCEPT !.dotcount = @ - 1]

(* Where the run of other pixels that was scanned begins. *)
Found(left, d) ==
  LET n == d.width - d.xcount
      r == MoveRight(d)
  IN IF left /\ n # 0 THEN [d EXCEPT !.width = n, !.address = r.next, !.dot = r.dotcount]
                      ELSE [d EXCEPT !.width = n]

ExecScan(left) ==
  LET d == sgp.dest
      e == [d EXCEPT !.xcount = @ - 1]
  IN /\ UNCHANGED mem
     /\ sgp' = IF Matches(d) THEN [sgp EXCEPT !.dest = Found(left, d), !.func = "fetch"]
               ELSE IF e.xcount = 0 THEN [sgp EXCEPT !.dest = e, !.func = "fetch"]
               ELSE [sgp EXCEPT !.dest = IF left THEN MoveLeft(e) ELSE MoveRight(e)]

-----------------------------------------------------------------------------
(* What a command must do, on the memory as it is when it starts: the      *)
(* definitions below are not translated from the code but from what the    *)
(* project's manual of the SGP says (docs/modernization/upd92017-sgp.md).  *)
(* A pixel is named by the number of dots from the start of the memory.    *)

DotOf(mode, address, dot) == address * DotCountMax[mode] + dot

PixelOf(m, mode, p) == PixelAt(m[p \div DotCountMax[mode]], mode, p % DotCountMax[mode])

(* "For every destination pixel": the source is tiled, and SF starts its   *)
(* lines at the first dot that lies in its word as the destination's does. *)
BltWanted(g, m) ==
  LET s == g.src
      d == g.dest
      hd == g.blt.hd
      vd == g.blt.vd
      ext == s.mode = 0 /\ d.mode # 0
      sign == By(hd)
      up(b, y) == b.address + (IF vd THEN -y ELSE y) * b.fbw
      skip == IF hd THEN d.dot > s.dot ELSE d.dot < s.dot
      start(y) == IF g.blt.sf
                  THEN DotOf(s.mode, up(s, y) + (IF skip THEN sign ELSE 0), d.dot)
                  ELSE DotOf(s.mode, up(s, y), s.dot)
      dst(x, y) == DotOf(d.mode, up(d, y), d.dot) + sign * x
      src(x, y) == PixelOf(m, s.mode, start(y % s.height) + sign * (x % s.width))
      area == (0 .. d.width - 1) \X (0 .. d.height - 1)
      colour(p) == PixelAt(g.color, d.mode, p % DotCountMax[d.mode])
      at == [p \in {dst(x[1], x[2]) : x \in area} |->
               CHOOSE x \in area : dst(x[1], x[2]) = p]
      bits(p) == LET v == src(at[p][1], at[p][2])
                 IN IF ~ext THEN v
                    ELSE [i \in 1 .. Bpp(d.mode) |-> v[1] * colour(p)[i]]
      opaque(p) == Lit(src(at[p][1], at[p][2]))
  IN [a \in Words |->
        [i \in 1 .. WordBits |->
           LET dot == (i - 1) \div Bpp(d.mode)
               p   == DotOf(d.mode, a, dot)
               k   == ((i - 1) % Bpp(d.mode)) + 1
           IN IF /\ p \in DOMAIN at
                 /\ g.blt.tp = 1 => opaque(p)
                 /\ g.blt.tp = 2 => ~Lit(PixelAt(m[a], d.mode, dot))
              THEN Rop(g.blt.op, bits(p)[k], m[a][i]) ELSE m[a][i]]]

(* The dots of a line, by its slope: the minor axis has moved              *)
(* (c + i * num) / den dots after i steps of the major axis.               *)
LineDots(g, c) ==
  LET d == g.dest
      along(i) == IF g.den = 0 THEN 0 ELSE (c + i * g.num) \div g.den
      dot(x, y) == DotOf(d.mode, d.address + y * LineDown(g), d.dot) + By(g.blt.hd) * x
  IN IF g.func = "line x" THEN {dot(i, along(i)) : i \in 0 .. d.width - 1}
                          ELSE {dot(along(i), i) : i \in 0 .. d.height - 1}

LineWanted(g, m) ==
  LET d == g.dest
      dots == LineDots(g, g.slope)
  IN [a \in Words |->
        [i \in 1 .. WordBits |->
           LET dot == (i - 1) \div Bpp(d.mode)
           IN IF /\ DotOf(d.mode, a, dot) \in dots
                 /\ g.blt.tp = 1 => Lit(PixelAt(g.color, d.mode, dot))
                 /\ g.blt.tp = 2 => ~Lit(PixelAt(m[a], d.mode, dot))
              THEN Rop(g.blt.op, g.color[i], m[a][i]) ELSE m[a][i]]]

ClsWanted(g, m) ==
  [a \in Words |-> IF a \in g.clsaddr .. g.clsaddr + g.clscount - 1 THEN g.color ELSE m[a]]

(* Width, address and dot of the destination after a scan. *)
ScanWanted(g, m, left) ==
  LET d == g.dest
      first == DotOf(d.mode, d.address, d.dot)
      at(i) == IF left THEN first - i ELSE first + i
      hits == {i \in 0 .. d.width - 1 :
                 PixelOf(m, d.mode, at(i)) = PixelAt(g.color, d.mode, at(i) % DotCountMax[d.mode])}
      n == CHOOSE k \in hits : \A i \in hits : k <= i
      start == IF left /\ n > 0 THEN at(n - 1) ELSE first
  IN IF hits = {} THEN <<d.width, d.address, d.dot>>
     ELSE <<n, start \div DotCountMax[d.mode], start % DotCountMax[d.mode]>>

-----------------------------------------------------------------------------
(* Commands.  want is set to what the command must leave; the other        *)
(* commands must leave the memory alone.                                   *)

Three(d) == <<d.width, d.address, d.dot>>
Expect(m, three) == want' = [mem |-> m, dest |-> three] /\ cut' = FALSE

CmdSetSource(g, c) ==
  /\ sgp' = [g EXCEPT !.src = Fetched(c.block)]
  /\ UNCHANGED <<mem, want, cut>>

CmdSetDestination(g, c) ==
  /\ sgp' = [g EXCEPT !.dest = Fetched(c.block)]
  /\ want' = [want EXCEPT !.dest = Three(Fetched(c.block))]
  /\ UNCHANGED <<mem, cut>>

CmdSetColor(g, c) ==
  /\ sgp' = [g EXCEPT !.color = c.color]
  /\ UNCHANGED <<mem, want, cut>>

(* SET WORK's address is never used; an unknown command is passed over.    *)
CmdNop(g) == sgp' = g /\ UNCHANGED <<mem, want, cut>>

SetIntReq(g) == IF g.intf THEN [g EXCEPT !.intreq = TRUE] ELSE g

CmdEnd(g) == sgp' = SetIntReq([g EXCEPT !.busy = FALSE]) /\ UNCHANGED <<mem, want, cut>>

(* BITBLT takes the extent of the source, PATBLT that of the destination. *)
CmdBlt(g, c) ==
  LET d  == IF c.cmd = "bitblt"
            THEN [g.dest EXCEPT !.width = g.src.width, !.height = g.src.height] ELSE g.dest
      g1 == [g EXCEPT !.blt = c.blt, !.src = InitBlock(g.src), !.dest = InitBlock(d),
                      !.func = "blt"]
  IN /\ sgp' = InitLines(g1, mem)
     /\ Expect(BltWanted(g1, mem), Three(d))
     /\ UNCHANGED mem

CmdLine(g, c) ==
  LET d == Fetched(c.block)
      steep == d.width < d.height
      major == IF steep THEN d.height ELSE d.width
      minor == IF steep THEN d.width ELSE d.height
      den   == major - 1
      g1 == [g EXCEPT
               !.blt = c.blt, !.func = IF steep THEN "line y" ELSE "line x",
               !.den = den, !.num = IF minor = 0 THEN 0 ELSE minor - 1,
               !.slope = IF steep THEN den \div 2 ELSE IF den = 0 THEN 0 ELSE (den - 1) \div 2,
               !.newval = IF steep THEN @ ELSE Zeros(WordBits),
               !.newvalmask = IF steep THEN @ ELSE Zeros(WordBits),
               !.dest = [d EXCEPT
                 !.next = d.address, !.xcount = d.width, !.ycount = d.height,
                 !.dotcount = CASE steep -> d.dot
                                [] ~steep /\ c.blt.hd -> d.dot + 1
                                [] OTHER -> DotCountMax[d.mode] - d.dot]]
  IN /\ sgp' = g1
     /\ Expect(LineWanted(g1, mem), Three(d))
     /\ UNCHANGED mem

CmdCls(g, c) ==
  LET g1 == [g EXCEPT !.clsaddr = c.address, !.clscount = c.count, !.func = "cls"]
  IN /\ sgp' = g1
     /\ Expect(ClsWanted(g1, mem), Three(g.dest))
     /\ UNCHANGED mem

CmdScan(g, left) ==
  /\ sgp' = [g EXCEPT !.dest.next = g.dest.address, !.dest.dotcount = g.dest.dot,
                      !.dest.xcount = g.dest.width,
                      !.func = IF left THEN "scan left" ELSE "scan right"]
  /\ Expect(mem, ScanWanted(g, mem, left))
  /\ UNCHANGED mem

FetchCommand ==
  LET c == list[sgp.pc]
      g == [sgp EXCEPT !.pc = @ + 1]
  IN /\ sgp.busy /\ sgp.func = "fetch" /\ sgp.pc <= Len(list)
     /\ \/ c.cmd = "end" /\ CmdEnd(g)
        \/ c.cmd \in {"nop", "set work", "unknown"} /\ CmdNop(g)
        \/ c.cmd = "set source" /\ CmdSetSource(g, c)
        \/ c.cmd = "set destination" /\ CmdSetDestination(g, c)
        \/ c.cmd = "set color" /\ CmdSetColor(g, c)
        \/ c.cmd \in {"bitblt", "patblt"} /\ CmdBlt(g, c)
        \/ c.cmd = "line" /\ CmdLine(g, c)
        \/ c.cmd = "cls" /\ CmdCls(g, c)
        \/ c.cmd \in {"scan left", "scan right"} /\ CmdScan(g, c.cmd = "scan left")
     /\ UNCHANGED <<list, accesses>>

Exec ==
  /\ sgp.busy
  /\ \/ sgp.func = "blt" /\ ExecBlt
     \/ sgp.func = "line x" /\ ExecLineX
     \/ sgp.func = "line y" /\ ExecLineY
     \/ sgp.func = "cls" /\ ExecCls
     \/ sgp.func = "scan left" /\ ExecScan(TRUE)
     \/ sgp.func = "scan right" /\ ExecScan(FALSE)
  /\ UNCHANGED <<list, want, cut, accesses>>

-----------------------------------------------------------------------------
(* The ports.  A stop in the middle of a command leaves it unfinished for  *)
(* good: the next start fetches from the head of the list.                 *)

Access == accesses > 0 /\ accesses' = accesses - 1
Stopped == cut' = (cut \/ sgp.func # "fetch")

O504(intf, abort) ==
  LET g1 == [sgp EXCEPT !.intf = intf]
      g2 == IF abort THEN SetIntReq([g1 EXCEPT !.busy = FALSE]) ELSE g1
  IN /\ Access
     /\ sgp' = IF intf THEN g2 ELSE [g2 EXCEPT !.intreq = FALSE]
     /\ IF abort THEN Stopped ELSE UNCHANGED cut
     /\ UNCHANGED <<mem, list, want>>

O506(busy) ==
  /\ Access
  /\ sgp' = IF busy /\ ~sgp.busy THEN [sgp EXCEPT !.func = "fetch", !.pc = 1, !.busy = TRUE]
                                 ELSE [sgp EXCEPT !.busy = busy]
  /\ IF busy THEN UNCHANGED cut ELSE Stopped
  /\ UNCHANGED <<mem, list, want>>

Init ==
  \E j \in Jobs :
    /\ mem = j.mem /\ list = j.list
    /\ sgp = [busy |-> TRUE, intf |-> TRUE, intreq |-> FALSE, func |-> "fetch", pc |-> 1,
              color |-> Zeros(WordBits), src |-> NoBlock, dest |-> NoBlock,
              newval |-> Zeros(WordBits), newvalmask |-> Zeros(WordBits),
              blt |-> [op |-> 0, tp |-> 0, hd |-> FALSE, vd |-> FALSE, sf |-> FALSE],
              clsaddr |-> 0, clscount |-> 0, den |-> 0, num |-> 0, slope |-> 0]
    /\ want = [mem |-> j.mem, dest |-> Three(NoBlock)]
    /\ cut = FALSE /\ accesses = j.accesses

Next ==
  \/ FetchCommand
  \/ Exec
  \/ \E intf, abort \in BOOLEAN : O504(intf, abort)
  \/ \E busy \in BOOLEAN : O506(busy)

Spec == Init /\ [][Next]_vars

-----------------------------------------------------------------------------
TypeOK ==
  /\ mem \in [Words -> Word]
  /\ sgp.busy \in BOOLEAN /\ sgp.intf \in BOOLEAN /\ sgp.intreq \in BOOLEAN
  /\ sgp.pc \in 1 .. Len(list) + 1
  /\ {sgp.color, sgp.newval, sgp.newvalmask, sgp.src.buf} \subseteq Word
  /\ cut \in BOOLEAN /\ accesses \in Nat

(* A command that runs to its end leaves what the project's manual of the  *)
(* SGP says: every tile, start dot, word boundary, direction and overlap   *)
(* of a transfer "against a snapshot-based reference copy", every dot of a *)
(* line, the position of a scan; whatever command was cut short before it. *)
Faithful ==
  sgp.func = "fetch" /\ ~cut => mem = want.mem /\ Three(sgp.dest) = want.dest
=============================================================================
