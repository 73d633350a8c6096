------------------------------ MODULE SgpJobs -------------------------------
(* What the SGP is given to do when it is checked: words of four bits, so  *)
(* modes of four, two and one pixels.                                      *)
EXTENDS Integers
MCDotCountMax == [m \in 0 .. 2 |-> <<4, 2, 1>>[m + 1]]
MCWords == 0 .. 15
W(a, b, c, d) == <<a, b, c, d>>

(* A memory in which neighbouring pixels differ in every mode. *)
MCMem == [a \in MCWords |-> <<W(0,1,1,0), W(1,1,0,1), W(0,0,1,1), W(1,0,0,0),
                              W(0,1,0,0), W(1,0,1,1), W(0,0,0,1), W(1,1,1,0)>>[(a % 8) + 1]]

Blk(m, dot, w, h, fbw, a) ==
  [mode |-> m, dot |-> dot, width |-> w, height |-> h, fbw |-> fbw, address |-> a]
Source(b) == [cmd |-> "set source", block |-> b]
Dest(b)   == [cmd |-> "set destination", block |-> b]
Color(c)  == [cmd |-> "set color", color |-> c]
End       == [cmd |-> "end"]
Blt(op, tp, hd, vd, sf) == [op |-> op, tp |-> tp, hd |-> hd, vd |-> vd, sf |-> sf]
Job(l)    == [mem |-> MCMem, list |-> l, accesses |-> 0]

Blts(cmd, src, dst, b) == Job(<<Source(src), Dest(dst), [cmd |-> cmd, blt |-> b], End>>)

(* Mode 1, in every start dot, direction and tiling.  Sources in words     *)
(* 0-5, destinations in 6-13.                                              *)
TileJobs ==
  {Blts("patblt", Blk(1, sd, sw, sh, 2, IF vd THEN 3 ELSE 1),
        Blk(1, dd, w, h, 3, IF vd THEN 10 ELSE 7), Blt(5, tp, FALSE, vd, sf)) :
     sd \in 0 .. 1, dd \in 0 .. 1, sw \in 1 .. 2, w \in 1 .. 3, sh \in 1 .. 2, h \in 1 .. 2,
     tp \in {0, 2}, vd \in BOOLEAN, sf \in BOOLEAN}
  \cup
  {Blts("patblt", Blk(1, sd, sw, sh, 2, IF vd THEN 4 ELSE 2),
        Blk(1, dd, w, h, 3, IF vd THEN 12 ELSE 9), Blt(5, 0, TRUE, vd, sf)) :
     sd \in 0 .. 1, dd \in 0 .. 1, sw \in 1 .. 2, w \in 1 .. 3, sh \in 1 .. 2, h \in 1 .. 2,
     vd \in BOOLEAN, sf \in BOOLEAN}
(* Overlapping copies, in the direction that preserves unread source. *)
OverlapJobs ==
  {Blts("bitblt", Blk(1, sd, 4, 1, 3, 1), Blk(1, dd, 4, 1, 3, a), Blt(op, 0, FALSE, FALSE, FALSE)) :
     sd \in 0 .. 1, dd \in {0}, a \in {0}, op \in {5, 6}}
  \cup
  {Blts("bitblt", Blk(1, sd, 4, 1, 3, 4), Blk(1, dd, 4, 1, 3, a), Blt(5, 0, TRUE, FALSE, FALSE)) :
     sd \in 0 .. 1, dd \in {1}, a \in {4, 5}}
  \cup
  {Blts("bitblt", Blk(1, 0, 2, 3, 2, IF vd THEN 8 ELSE 4), Blk(1, 0, 2, 3, 2, IF vd THEN 10 ELSE 2),
        Blt(5, 0, FALSE, vd, FALSE)) : vd \in BOOLEAN}
(* One bit per pixel, copied and expanded to colours. *)
ExpandJobs ==
  {Job(<<Color(W(1,0,0,1)), Source(Blk(0, sd, sw, 1, 2, 1)), Dest(Blk(m, dd, w, 2, 5, 4)),
         [cmd |-> "patblt", blt |-> Blt(op, tp, FALSE, FALSE, sf)], End>>) :
     sd \in {0, 3}, sw \in {1, 3}, m \in 0 .. 2, dd \in {0}, w \in 2 .. 4, op \in {5, 7},
     tp \in 0 .. 1, sf \in BOOLEAN}
LineJobs ==
  {Job(<<Color(W(1,0,0,1)),
         [cmd |-> "line", block |-> Blk(1, dot, w, h, 2, 7), blt |-> Blt(op, tp, hd, vd, FALSE)], End>>) :
     dot \in 0 .. 1, w \in {1, 3, 4}, h \in 1 .. 3, op \in {6}, tp \in {0, 1}, hd \in BOOLEAN, vd \in BOOLEAN}
  \cup
  {Job(<<Color(W(1,0,0,1)),
         [cmd |-> "line", block |-> Blk(1, dot, w, h, 2, 7), blt |-> Blt(5, 2, hd, vd, FALSE)], End>>) :
     dot \in 0 .. 1, w \in 1 .. 3, h \in 2 .. 4, hd \in BOOLEAN, vd \in BOOLEAN}
ScanJobs ==
  {Job(<<Color(c), Dest(Blk(m, dot, w, 1, 2, 6)), [cmd |-> cmd], End>>) :
     c \in {W(0,0,0,0), W(1,0,1,1)}, m \in 0 .. 2, dot \in {0}, w \in {1, 3, 6},
     cmd \in {"scan left", "scan right"}}
OtherJobs ==
  {Job(<<[cmd |-> "set work"], [cmd |-> "unknown"], Color(W(1,0,1,1)),
         [cmd |-> "cls", address |-> 3, count |-> 4], [cmd |-> "nop"], End>>)}
(* The CPU aborts, stops and restarts the SGP between any two steps. *)
AccessJobs ==
  {[j EXCEPT !.accesses = 3] : j \in
     {Job(<<Source(Blk(1, 1, 3, 2, 2, 1)), Dest(Blk(1, 0, 1, 1, 3, 7)),
            [cmd |-> "bitblt", blt |-> Blt(6, 0, hd, FALSE, FALSE)],
            Color(W(1,0,0,1)),
            [cmd |-> "line", block |-> Blk(1, 1, 3, 2, 2, 9), blt |-> Blt(6, 0, hd, FALSE, FALSE)],
            [cmd |-> "scan left"], End>>) : hd \in BOOLEAN}}
MCJobs ==
  AccessJobs \cup TileJobs \cup OverlapJobs \cup ExpandJobs \cup LineJobs \cup ScanJobs \cup OtherJobs
=============================================================================
