------------------------------- MODULE Video --------------------------------
(***************************************************************************)
(* Text and sprites of the display: the text sprite processor of io/tsp.c  *)
(* with its commands and the bytes that follow them, one cell of text and  *)
(* a line of sprites in its memory, and the drawing of a frame             *)
(* (vram/maketextva.c, makesprva.c, drawscreenva of machine/pccore.c),     *)
(* which sleeps over text that was blank in the last frame, and reports    *)
(* sprites of one frame to the guest at the start of the next.             *)
(*                                                                         *)
(* Whether a frame is drawn is up to the host.  The program may be         *)
(* anywhere in its work when the model begins.  Left out: how characters   *)
(* and attributes look, split screens, blinking, the emulated uPD3301, the *)
(* V1/V2 mode, and the delays of IBF and VB.                               *)
(***************************************************************************)
EXTENDS Integers, Sequences, FiniteSets

LOCAL INSTANCE FiniteSetsExt

CONSTANTS
    Sprites,               \* how many; 32 in the code
    Moving,                \* the sprite that is moved, by CURS as the cursor
    Cost, LineBytes,       \* bytes of a sprite on a line; SPRVA_LINE_BYTES
    Over,                  \* values of HSPN
    Params,                \* the bytes of each command: what each of them may be
    MaxOps                 \* bound: commands and writes of the guest

VARIABLES
    tsp,                   \* the processor's registers
    tvram,                 \* text memory: the cell, the sprites' switches, their place
    port,                  \* 148H bit 7, and whether graphics merge with the text
    draw,                  \* the renderer: allzero, textmem_dirty, tsp_dirty, frame_hit
    shown,                 \* the frame on the screen
    silent,                \* history: something changed that does not wake the text
    since,                 \* history: the bytes written since the last command
    ops

vars == <<tsp, tvram, port, draw, shown, silent, since, ops>>

All == 0..(Sprites - 1)
Cells == {[code |-> "space", fg |-> 1], [code |-> "space", fg |-> 2], [code |-> "A", fg |-> 1]}

Init ==
    /\ tsp \in [func : {"nop"}, cmd : {"NONE"}, left : {0}, buf : {<<>>}, offset : {0}, addr : {0},
                busy : {FALSE}, obf : {FALSE}, sc : {FALSE}, sprov : {{}}, result : {{}},
                dspon : BOOLEAN, spron : {TRUE}, over : Over, curn : {Moving}, ce : {FALSE}]
    /\ tvram \in [cell : Cells, on : {{}, All}, at : {0}]
    /\ port = [hidden |-> FALSE, merge |-> FALSE]
    /\ draw = [allzero |-> TRUE, memDirty |-> TRUE, tspDirty |-> TRUE, hit |-> {}]
    /\ shown = [text |-> 0, due |-> 0, sprites |-> {}]
    /\ silent = FALSE /\ since = <<>> /\ ops = 0

-----------------------------------------------------------------------------
(***************************************************************************)
(* A frame.                                                                *)
(***************************************************************************)
\* maketextva_raster and the merge of scrndrawva_compose_raster: the text of
\* the cell, or with graphics merged into it, its colour.
Text(p, mem, regs) ==
    IF ~regs.dspon \/ p.hidden THEN 0
    ELSE IF p.merge \/ mem.cell.code # "space" THEN mem.cell.fg ELSE 0

\* makesprva_cursor_shown, makesprva_begin
Cursor(regs) == IF regs.ce /\ regs.dspon THEN {regs.curn} ELSE {}
Switched(mem, regs) == mem.on \cup Cursor(regs)

\* The bytes of the sprites on, up to and including s.
Bytes(on, s) == MapThenSumSet(LAMBDA t : Cost[t], {t \in on : t <= s})

\* makesprva_raster: those drawn, and what the frame reports.
Drawn(on) == {s \in on : Bytes(on, s) <= LineBytes}
Place(mem, s) == IF s = Moving THEN mem.at ELSE s
Collide(mem, set) == \E s, t \in set : s # t /\ Place(mem, s) = Place(mem, t)
TooMany(on, regs) == Cardinality(on) >= regs.over + 2
Hits(mem, regs, on) ==
    (IF Collide(mem, Drawn(on)) THEN {"collision"} ELSE {})
        \cup (IF TooMany(on, regs) THEN {"over"} ELSE {})
Visible(regs) == regs.spron /\ regs.dspon

\* maketextva_begin
Sleeps == draw.allzero /\ ~draw.memDirty /\ ~draw.tspDirty /\ ~port.merge

\* The last frame's sprites, at the beginning of the next (makesprva_begin).
Publish(regs) == IF draw.hit = {} THEN regs ELSE [regs EXCEPT !.sc = TRUE, !.sprov = draw.hit]

\* The frame drawn.
Frame ==
    LET looked == tsp.dspon /\ ~port.hidden /\ ~Sleeps
        on == IF Visible(tsp) THEN Switched(tvram, tsp) ELSE {}
    IN  /\ tsp' = Publish(tsp)
        /\ shown' = [text |-> IF Sleeps THEN 0 ELSE Text(port, tvram, tsp),
                      due |-> Text(port, tvram, tsp), sprites |-> Drawn(on)]
        /\ draw' = [allzero |-> ~(looked /\ tvram.cell.code # "space"),
                    memDirty |-> FALSE, tspDirty |-> FALSE, hit |-> Hits(tvram, tsp, on)]
        /\ silent' = (silent /\ Sleeps)
        /\ UNCHANGED <<tvram, port, since, ops>>

-----------------------------------------------------------------------------
(***************************************************************************)
(* Commands.                                                               *)
(***************************************************************************)
Counted == ops < MaxOps /\ ops' = ops + 1

Commands == DOMAIN Params
AtOnce == {"SPROV", "DSPOFF", "SPROFF", "EXIT", "UNKNOWN"}

\* exec_dspoff, exec_sproff, exec_exit, exec_unknown, SPROV
Immediate(c, r) ==
    LET done == [r EXCEPT !.func = "nop", !.busy = FALSE]
    IN  CASE c = "DSPOFF" -> [done EXCEPT !.dspon = FALSE, !.spron = FALSE]
          [] c = "SPROFF" -> [done EXCEPT !.spron = FALSE]
          [] c = "SPROV" -> [done EXCEPT !.result = r.sprov, !.sprov = {}, !.sc = FALSE, !.obf = TRUE]
          [] OTHER -> done

\* A new command: an unread result is dropped.
Begin(c, r) == [r EXCEPT !.cmd = c, !.buf = <<>>, !.busy = TRUE, !.obf = FALSE]

\* tsp_o142
WriteCommand(c) ==
    LET r == Begin(c, tsp)
    IN  /\ tsp' = IF c \in AtOnce THEN Immediate(c, r)
                  ELSE IF c = "SPRDEF" THEN [r EXCEPT !.func = "select"]
                  ELSE IF c = "TVWRITE" THEN [r EXCEPT !.func = "write", !.busy = FALSE]
                  ELSE [r EXCEPT !.func = "generic", !.left = Len(Params[c])]
        /\ draw' = [draw EXCEPT !.tspDirty = TRUE]
        /\ since' = <<>>
        /\ Counted /\ UNCHANGED <<tvram, port, shown, silent>>

\* What a command does once it has its bytes b (exec_sync ... exec_curs).
Registers(c, b, r) ==
    LET done == [r EXCEPT !.busy = FALSE]
    IN  CASE c = "SYNC" -> [done EXCEPT !.dspon = FALSE]
          [] c = "DSPON" -> [done EXCEPT !.dspon = TRUE]
          [] c = "CURDEF" -> [done EXCEPT !.curn = b[1].sprite, !.ce = b[1].on]
          [] c = "SPRON" -> [done EXCEPT !.spron = TRUE, !.over = b[2]]
          [] c = "TVADDR" -> [done EXCEPT !.addr = b[1]]
          [] OTHER -> done

Switch(mem, s, on) == [mem EXCEPT !.on = IF on THEN @ \cup {s} ELSE @ \ {s}]
Memory(c, b, r, mem) ==
    CASE c = "SPRSW" -> Switch(mem, b[1].sprite, b[1].on)
      [] c = "CURS" -> IF r.curn = Moving THEN [mem EXCEPT !.at = b[2]] ELSE mem
      [] OTHER -> mem

\* paramfunc_generic: one more byte, and the command with the last of them.
Generic(b) ==
    LET r == [tsp EXCEPT !.buf = Append(@, b), !.left = @ - 1]
    IN  IF r.left > 0 THEN tsp' = r /\ UNCHANGED tvram /\ draw' = [draw EXCEPT !.tspDirty = TRUE]
        ELSE /\ tsp' = Registers(tsp.cmd, r.buf, [r EXCEPT !.func = "nop"])
             /\ tvram' = Memory(tsp.cmd, r.buf, tsp, tvram)
             /\ draw' = [draw EXCEPT !.tspDirty = TRUE, !.memDirty = @ \/ tsp.cmd = "CURS"]

\* A byte for the descriptors of sprites: which one, then its switch.
Describe(b) ==
    IF tsp.func = "select" THEN tsp' = [tsp EXCEPT !.func = "describe", !.offset = b] /\ UNCHANGED tvram
    ELSE /\ tsp' = [tsp EXCEPT !.offset = @ + 1]
         /\ tvram' = Switch(tvram, tsp.offset, b = 1)

\* Parameters of a command that has been carried out, or has none, are dropped.
WriteParam ==
    /\ \/ /\ tsp.func = "generic"
          /\ \E b \in Params[tsp.cmd][Len(tsp.buf) + 1] : Generic(b) /\ since' = Append(since, b)
       \/ /\ tsp.func \in {"select", "describe"} /\ tsp.offset < Sprites
          /\ \E b \in {0, 1} : Describe(b)
          /\ draw' = [draw EXCEPT !.tspDirty = TRUE] /\ UNCHANGED since
       \/ /\ tsp.func = "write"
          /\ \E cell \in Cells : tvram' = IF tsp.addr = 0 THEN [tvram EXCEPT !.cell = cell] ELSE tvram
          /\ tsp' = [tsp EXCEPT !.addr = 1]
          /\ draw' = [draw EXCEPT !.tspDirty = TRUE, !.memDirty = TRUE] /\ UNCHANGED since
       \/ /\ tsp.func = "nop"
          /\ draw' = [draw EXCEPT !.tspDirty = TRUE] /\ UNCHANGED <<tsp, tvram, since>>
    /\ UNCHANGED <<port, shown, silent, ops>>

\* tsp_i146
ReadResult ==
    /\ tsp' = [tsp EXCEPT !.obf = FALSE]
    /\ UNCHANGED <<tvram, port, draw, shown, silent, since, ops>>

-----------------------------------------------------------------------------
(***************************************************************************)
(* Other writes of the guest.                                              *)
(***************************************************************************)
Written == UNION {{[tvram EXCEPT !.cell = cell] : cell \in Cells},
                  {Switch(tvram, s, on) : s \in All, on \in BOOLEAN},
                  {[tvram EXCEPT !.at = at] : at \in All}}

\* The CPU, through the memory map.
CpuWrite ==
    /\ tvram' \in Written
    /\ draw' = [draw EXCEPT !.memDirty = TRUE]
    /\ Counted /\ UNCHANGED <<tsp, port, shown, silent, since>>

\* The graphic processor.
SgpWrite ==
    /\ tvram' \in Written /\ silent' = TRUE
    /\ Counted /\ UNCHANGED <<tsp, port, draw, shown, since>>

\* videova_o148
Write148 ==
    /\ \E hidden \in BOOLEAN : port' = [port EXCEPT !.hidden = hidden]
    /\ silent' = TRUE
    /\ Counted /\ UNCHANGED <<tsp, tvram, draw, shown, since>>

\* The graphics mode: 1 bit a pixel in several planes merges with the text.
GraphicsMode ==
    /\ \E merge \in BOOLEAN : port' = [port EXCEPT !.merge = merge]
    /\ Counted /\ UNCHANGED <<tsp, tvram, draw, shown, silent, since>>

\* tsp_reset; what the last frame's sprites did stays with the renderer.
Reset ==
    /\ tsp' = [func |-> "nop", cmd |-> "NONE", left |-> 0, buf |-> <<>>, offset |-> 0, addr |-> 0,
               busy |-> FALSE, obf |-> FALSE, sc |-> FALSE, sprov |-> {}, result |-> {},
               dspon |-> FALSE, spron |-> FALSE, over |-> 0, curn |-> 0, ce |-> FALSE]
    /\ draw' = [draw EXCEPT !.tspDirty = TRUE]
    /\ port' = [hidden |-> FALSE, merge |-> FALSE]
    /\ since' = <<>>
    /\ Counted /\ UNCHANGED <<tvram, shown, silent>>

Next ==
    \/ Frame
    \/ \E c \in Commands : WriteCommand(c)
    \/ WriteParam \/ ReadResult
    \/ CpuWrite \/ SgpWrite \/ Write148 \/ GraphicsMode \/ Reset

Spec == Init /\ [][Next]_vars

-----------------------------------------------------------------------------
TypeOK ==
    /\ tsp.func \in {"nop", "generic", "select", "describe", "write"}
    /\ tsp.curn \in All /\ tsp.over \in Nat /\ tsp.sprov \cup tsp.result \subseteq {"collision", "over"}
    /\ tvram.cell \in Cells /\ tvram.on \subseteq All /\ tvram.at \in All
    /\ ops \in 0..MaxOps

\* The text on the screen is that of the memory and the registers when the
\* frame was drawn, however long it slept before.  Two ways of the guest to
\* change it do not wake it: port 148H and the graphic processor.
TextFresh == shown.text = shown.due \/ silent

\* The status has SC as long as there is something for SPROV to fetch.
SpritesReported == tsp.sc <=> tsp.sprov # {}

\* A command is carried out with the bytes written after it, whatever was
\* written before, and is not busy once it has them.
OwnBytes ==
    /\ tsp.func = "generic" => tsp.buf = since /\ Len(since) + tsp.left = Len(Params[tsp.cmd])
    /\ tsp.func = "nop" => ~tsp.busy
=============================================================================
