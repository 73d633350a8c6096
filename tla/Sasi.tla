-------------------------------- MODULE Sasi --------------------------------
(***************************************************************************)
(* The SASI disk controller, cbus/sasiio.c: a phase register the guest     *)
(* follows byte by byte, and one scheduler event, NEVENT_SASIIO, that ends *)
(* a command 4000 clocks after its last byte by moving to the status       *)
(* phase.  Until then the guest, or the DMA controller for it, still sees  *)
(* the data phase.                                                         *)
(*                                                                         *)
(* A step is one port access, one byte moved by the DMA controller, or the *)
(* event.  The six bytes of a command are written as one step.  A block    *)
(* has BlockBytes bytes; a byte is the pair of its block and its place.    *)
(*                                                                         *)
(* Two things in the code make a command end otherwise than it went.  A    *)
(* reset of the controller leaves the event in the scheduler's queue, so   *)
(* that it ends whatever the guest does next.  After a block has failed    *)
(* the data phase lasts until the event, and the bytes that the DMA        *)
(* controller moves in it go on counting blocks: the last of them replaces *)
(* the failure by GOOD.  The history fields stale, cut, broken and late    *)
(* tell these commands from the others.                                    *)
(***************************************************************************)
EXTENDS Naturals

CONSTANTS
    Ops,         \* what the commands do: "ready", "sense", "format", "read", ...
    Drives,      \* units with a disk in them, a subset of {0, 1}
    Blocks,      \* block counts of a command
    BlockBytes,  \* bytes of a block, 256 in the code
    MaxCommands  \* bound of the model

VARIABLES
    sasi,      \* the controller
    medium,    \* block -> the bytes the command has written to it
    asked,     \* guest: the command under way
    moved,     \* guest: data bytes it has moved for it
    commands   \* bound

vars == <<sasi, medium, asked, moved, commands>>

Phases == {"free", "cmd", "c2", "sense", "read", "write", "stat", "msg"}
Errors == {"none", "absent", "fault"}
Events == {"none", "own", "stale"}        \* "stale": of a command that was given up
Sector == UNION {0 .. n : n \in Blocks}   \* those a command can name
C2Bytes == 2       \* parameter bytes of command C2H, ten in the code
SenseBytes == 2    \* bytes of sense data, four in the code

Idle == [op |-> "none", n |-> 0]

\* sasiio_reset.  History: a byte was read that is not the next one of the
\* disk (wrong), a block has failed after the first (broken), bytes were moved
\* after that (late), and the event of another command ended this one (cut).
Fresh == [phase |-> "free", inte |-> FALSE, dmae |-> FALSE, isr |-> FALSE, irq |-> FALSE,
          dma |-> FALSE, event |-> "none", error |-> "none", check |-> FALSE,
          blocks |-> 0, sector |-> 0, pos |-> 0, size |-> 0, bytes |-> 0,
          dat |-> [i \in 0..(BlockBytes - 1) |-> 0], wrong |-> FALSE, broken |-> FALSE,
          late |-> FALSE, cut |-> FALSE]

\* Bytes are numbered through the blocks of a command, from 1.
Block(b) == [i \in 0..(BlockBytes - 1) |-> b * BlockBytes + i + 1]
Blank == [b \in Sector |-> [i \in 0..(BlockBytes - 1) |-> 0]]

Init == /\ sasi = Fresh /\ medium = Blank /\ asked = Idle
        /\ moved = 0 /\ commands = 0

-----------------------------------------------------------------------------
\* sasidmac: the request line follows the phase and the enable bit.
Dmac(s) == [s EXCEPT !.dma = s.dmae /\ s.phase \in {"read", "write"}]

\* Mutant: the event is left out when the interrupt is off.
SetStatMutant(s, code) == [s EXCEPT !.error = code, !.event = IF s.inte THEN "own" ELSE @]

\* sasisetstat: the command ends when the event comes; an event that is there
\* already is set anew.
SetStat(s, code) == [s EXCEPT !.error = code, !.event = "own"]

\* sasiioint, in whatever phase the controller is.
Int(s) == Dmac([s EXCEPT !.phase = "stat", !.isr = TRUE, !.irq = @ \/ s.inte,
                         !.event = "none", !.cut = s.event = "stale"])

\* sasiseek: ok says whether the block can be read.
Seek(s, ok) ==
    IF ok THEN [s EXCEPT !.pos = 0, !.size = BlockBytes, !.dat = Block(s.sector)]
    ELSE [s EXCEPT !.pos = 0, !.size = 0]

\* Mutant: the block that was just moved is fetched again.
NextBlockMutant(s, ok) ==
    LET n == [s EXCEPT !.blocks = (@ + 255) % 256]
    IN  IF n.blocks = 0 THEN SetStat(n, "none") ELSE Seek(n, TRUE)

\* A byte was the last of its block.
NextBlock(s, ok) ==
    LET n == [s EXCEPT !.blocks = (@ + 255) % 256]
        t == Seek([n EXCEPT !.sector = @ + 1], ok)
    IN  CASE n.blocks = 0 -> SetStat(n, "none")
          [] n.blocks # 0 /\ ok -> t
          [] OTHER -> SetStat([t EXCEPT !.broken = TRUE], "fault")

\* checkcmd: the first block of a read and of a write is read here.
Check(s, op, unit, n, ok) ==
    LET present == unit \in Drives
        drive == [s EXCEPT !.check = ~present]
        data == [s EXCEPT !.sector = 0, !.blocks = n, !.check = FALSE]
    IN  CASE op \in {"ready", "recalibrate"} -> SetStat(drive, IF present THEN "none" ELSE "absent")
          [] op = "sense" -> [s EXCEPT !.phase = "sense", !.bytes = SenseBytes, !.error = "none",
                                       !.check = FALSE]
          [] op = "formatdrive" -> SetStat([s EXCEPT !.check = FALSE], "fault")
          [] op = "formattrack" -> SetStat(data, IF present /\ ok THEN "none" ELSE "fault")
          [] op = "c2" -> [s EXCEPT !.phase = "c2", !.bytes = C2Bytes, !.check = FALSE]
          [] op \in {"read", "write"} ->
               LET t == IF n = 0 THEN data ELSE Seek(data, present /\ ok)
               IN  IF n # 0 /\ present /\ ok THEN Dmac([t EXCEPT !.phase = op])
                   ELSE SetStat(t, "fault")
          [] OTHER -> SetStat(s, "none")

\* sasi_dataread: after the last byte of a block the next one is fetched.
DataRead(s, ok) ==
    LET t == [s EXCEPT !.pos = @ + 1, !.late = s.broken,
                       !.wrong = @ \/ s.dat[s.pos] # moved + 1]
    IN  IF t.pos >= t.size THEN NextBlock(t, ok) ELSE t

\* sasi_datawrite and sasiflash: a full block goes to the disk first.
Stored(s) == [s.dat EXCEPT ![s.pos] = moved + 1]
Full(s) == s.pos + 1 >= s.size
DataWrite(s, stores, ok) ==
    LET t == [s EXCEPT !.dat = Stored(s), !.pos = @ + 1, !.late = s.broken]
        flashed == [t EXCEPT !.pos = 0, !.size = 0]
    IN  CASE ~Full(s) -> t
          [] Full(s) /\ ~stores -> SetStat([flashed EXCEPT !.broken = TRUE], "fault")
          [] OTHER -> NextBlock(flashed, ok)

-----------------------------------------------------------------------------
Event == sasi.event # "none" /\ sasi' = Int(sasi) /\ UNCHANGED <<medium, asked, moved, commands>>

\* sasiio_o82: enable bits; RST, as it falls, ends the phase and gives the
\* command up, but its event stays in the queue.
Control(inte, dmae, rst) ==
    /\ sasi' = Dmac([sasi EXCEPT !.inte = inte, !.dmae = dmae,
                                 !.phase = IF rst THEN "free" ELSE @,
                                 !.event = IF rst /\ @ = "own" THEN "stale" ELSE @])
    /\ asked' = IF rst THEN Idle ELSE asked
    /\ UNCHANGED <<medium, moved, commands>>

\* sasiio_o80 in the free and the command phase: select, then the six bytes.
Command(op, unit, n, ok) ==
    /\ sasi.phase = "free" /\ asked = Idle
    /\ commands < MaxCommands /\ commands' = commands + 1
    /\ sasi' = Check([sasi EXCEPT !.phase = "cmd", !.bytes = 0, !.wrong = FALSE,
                           !.broken = FALSE, !.late = FALSE, !.cut = FALSE],
                     op, unit, n, ok)
    /\ asked' = [op |-> op, n |-> n]
    /\ medium' = Blank /\ moved' = 0

\* The guest, or the DMA controller, moves as many bytes as the command asks.
Wanted == moved < asked.n * BlockBytes

ReadByte(ok) ==
    /\ sasi.phase = "read" /\ Wanted
    /\ sasi' = DataRead(sasi, ok)
    /\ moved' = moved + 1
    /\ UNCHANGED <<medium, asked, commands>>

WriteByte(stores, ok) ==
    /\ sasi.phase = "write" /\ Wanted
    /\ sasi' = DataWrite(sasi, stores, ok)
    /\ medium' = IF Full(sasi) /\ stores THEN [medium EXCEPT ![sasi.sector] = Stored(sasi)]
                 ELSE medium
    /\ moved' = moved + 1
    /\ UNCHANGED <<asked, commands>>

\* Parameter bytes of C2H and sense bytes.
OtherByte ==
    /\ sasi.phase \in {"c2", "sense"} /\ sasi.bytes # 0
    /\ LET t == [sasi EXCEPT !.bytes = @ - 1]
       IN  sasi' = IF t.bytes = 0 THEN SetStat(t, "none") ELSE t
    /\ UNCHANGED <<medium, asked, moved, commands>>

\* sasiio_i80 in the status and the message phase.
ReadStatus ==
    /\ \/ sasi.phase = "stat" /\ sasi' = [sasi EXCEPT !.phase = "msg"] /\ asked' = asked
       \/ sasi.phase = "msg" /\ sasi' = [sasi EXCEPT !.phase = "free"] /\ asked' = Idle
    /\ UNCHANGED <<medium, moved, commands>>

\* sasiio_i82, which the interrupt handler of the guest reads: isrint is
\* cleared by the read.
ReadIsr ==
    /\ sasi.isr
    /\ sasi' = [sasi EXCEPT !.isr = FALSE, !.irq = FALSE]
    /\ UNCHANGED <<medium, asked, moved, commands>>

Stop == commands = MaxCommands /\ asked = Idle /\ UNCHANGED vars

Next ==
    \/ Event \/ OtherByte \/ ReadStatus \/ ReadIsr \/ Stop
    \/ \E inte, dmae, rst \in BOOLEAN : Control(inte, dmae, rst)
    \/ \E op \in Ops, unit \in {0, 1}, n \in Blocks, ok \in BOOLEAN : Command(op, unit, n, ok)
    \/ \E ok \in BOOLEAN : ReadByte(ok)
    \/ \E stores, ok \in BOOLEAN : WriteByte(stores, ok)

Spec == Init /\ [][Next]_vars

-----------------------------------------------------------------------------
TypeOK ==
    /\ sasi.phase \in Phases /\ sasi.error \in Errors /\ sasi.event \in Events
    /\ sasi.pos \in 0..BlockBytes /\ sasi.size \in {0, BlockBytes}

\* A command that moved everything it was asked to move is on its way to the
\* status phase: its event is pending or has come.
StatusOwed ==
    (asked # Idle /\ ~Wanted /\ sasi.bytes = 0) =>
        sasi.event = "own" \/ sasi.phase \in {"stat", "msg"}

\* The status byte says GOOD after a read or a write only if every block was
\* moved whole and in order; a block that failed is reported.  It is not so,
\* in the code, of a command that the event of one before it has cut short
\* (sasiio.c:328), nor of one that has gone on after the failure (sasiio.c:242
\* and 263): both may end with GOOD.
GoodMeansMoved ==
    (sasi.phase = "stat" /\ sasi.error = "none" /\ ~sasi.check /\ ~sasi.late /\ ~sasi.cut) =>
        /\ asked.op = "read" => ~Wanted /\ ~sasi.wrong
        /\ asked.op = "write" =>
             \A b \in 0..(asked.n - 1) : medium[b] = Block(b)

=============================================================================
