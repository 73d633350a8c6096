--------------------------------- MODULE Fdc ---------------------------------
(***************************************************************************)
(* The floppy disk controller, io/fdc.c, with the channel of the DMA       *)
(* controller that moves its data (io/dmac.c, cpu/upd9002/dmap.c) and the  *)
(* insertion delay of disk images (fdd/diskdrv.c).                         *)
(*                                                                         *)
(* The execution phase is paced by NEVENT_FDCSTATE, which runs while the   *)
(* motors are on: each time it fetches or begins a sector when one is due  *)
(* and asks for one byte (rqm).  The byte is moved by the DMA controller,  *)
(* between two instructions of the guest, or by the guest itself.  The     *)
(* interrupt that tells of a result comes 512 clocks later (NEVENT_FDCINT).*)
(*                                                                         *)
(* A step is a command with its parameters, the fetching of its result,    *)
(* one byte moved, an event of the scheduler, or an act of the user.  The  *)
(* guest uses the single-track commands (MT=0) and starts at cylinder 0.   *)
(***************************************************************************)
EXTENDS Naturals, FiniteSets

CONSTANTS
    Drives,      \* units that are equipped, a subset of 0..3
    Eot,         \* sectors of a track
    SecBytes,    \* bytes of a sector
    Inserted,    \* disks at the start: drive -> "none", "rw" or "ro"
    Lengths,     \* bytes the guest asks for
    MaxCommands, \* bounds of the model
    MaxChanges

VARIABLES
    fdc,      \* the controller
    dma,      \* its DMA channel
    disk,     \* drive -> what is in it
    delay,    \* drive -> an image waits to be inserted
    medium,   \* drive -> the sectors of the track under the head
    guest,    \* what the guest has asked for, and the bytes it has moved
    count     \* bounds

vars == <<fdc, dma, disk, delay, medium, guest, count>>

Reading == {"firststartbufsend2", "startbufsend2", "bufsend2"}
Writing == {"firststartbufrecv", "startbufrecv", "bufrecv"}
Executing == Reading \cup Writing
Sectors == 1..Eot
Places == 0..(SecBytes - 1)

Original(r) == [i \in Places |-> 10 * r + i]
Given(k) == 100 + k        \* the guest's byte k, from 0
Filled == [i \in Places |-> 0]
Formatted == [i \in Places |-> 1]

NoResult == [kind |-> "none", drive |-> 0, r |-> 0]

\* fdc_reset, dmac_reset
Init ==
    /\ fdc = [event |-> "neutral", rqm |-> FALSE, op |-> "none", us |-> 0, R |-> 0, nd |-> FALSE,
              bufp |-> 0, bufcnt |-> 0, buf |-> Filled, formatted |-> 0, motor |-> FALSE,
              stat |-> [d \in Drives |-> "none"], intreq |-> FALSE, int |-> FALSE,
              tcreserved |-> FALSE, result |-> NoResult]
    /\ dma = [ready |-> FALSE, mask |-> TRUE, work |-> FALSE, working |-> FALSE, leng |-> 0]
    /\ disk = Inserted
    /\ delay = [d \in Drives |-> FALSE]
    /\ medium = [d \in Drives |-> [r \in Sectors |-> Original(r)]]
    /\ guest = [r |-> 1, n |-> 0, moved |-> 0, wrong |-> FALSE, before |-> <<>>,
                owed |-> [d \in Drives |-> "none"]]
    /\ count = [commands |-> 0, changes |-> 0]

-----------------------------------------------------------------------------
(***************************************************************************)
(* The DMA controller.                                                     *)
(***************************************************************************)
\* dmac_check: a channel works while it is unmasked and its device is ready.
Check(d) ==
    LET go == ~d.mask /\ d.ready
    IN  [d EXCEPT !.work = go, !.working = go /\ (@ \/ ~d.work)]

\* Mutant: the device's readiness is not told to the channel.
ReadyMutant(d, on) == [d EXCEPT !.ready = on]

\* fdc_dmaready, then dmac_check.
Ready(d, on) == Check([d EXCEPT !.ready = on])

-----------------------------------------------------------------------------
(***************************************************************************)
(* Ends of a command.  m is a record of the variables a step changes.      *)
(***************************************************************************)
Machine == [fdc |-> fdc, dma |-> dma, medium |-> medium, guest |-> guest]
Become(m) == fdc' = m.fdc /\ dma' = m.dma /\ medium' = m.medium /\ guest' = m.guest

\* The status word after a command that names drive d: only the drive number
\* is left in it.
Plain(d) == IF d = 0 THEN "none" ELSE "plain"

\* fdc_interrupt
Interrupt(f) == [f EXCEPT !.int = TRUE]

\* fdcsend_success7 and fdcsend_error7: the seven bytes of the result.  What
\* the drive had to report is reported, or lost, with them.
Send(m, kind) ==
    [m EXCEPT !.fdc = Interrupt([m.fdc EXCEPT !.event = "bufsend", !.rqm = FALSE,
                      !.result = [kind |-> kind, drive |-> m.fdc.us, r |-> m.fdc.R],
                      !.stat[m.fdc.us] = "none"]),
              !.guest.owed[m.fdc.us] = "none",
              !.dma = Ready(m.dma, FALSE)]

Next_R(f) == IF f.R + 1 > Eot THEN 1 ELSE f.R + 1

\* Mutant: the last sector of the track is not seen as such.
OverMutant(f) == FALSE

\* inc_fdcR: the transfer runs past the end of the track.
Over(f) == f.R + 1 > Eot
IncR(m) == [m EXCEPT !.fdc.R = Next_R(m.fdc)]

\* FDC_DriveCheck fails
NotReady(f) == disk[f.us] = "none"
Refuses(f) == disk[f.us] # "rw"

-----------------------------------------------------------------------------
(***************************************************************************)
(* Sectors.  ok says whether the image has the sector.                     *)
(***************************************************************************)
\* readsector
ReadSector(m, ok) ==
    CASE NotReady(m.fdc) -> Send(m, "notready")
      [] ~NotReady(m.fdc) /\ ~ok -> Send(m, "nodata")
      [] OTHER -> [m EXCEPT !.fdc.event = "bufsend2", !.fdc.bufp = 0, !.fdc.bufcnt = SecBytes,
                            !.fdc.buf = m.medium[m.fdc.us][m.fdc.R],
                            !.fdc.stat[m.fdc.us] = Plain(m.fdc.us)]

\* Mutant: the buffer keeps the bytes of the sector before.
StartWriteMutant(m) == [m EXCEPT !.fdc.event = "bufrecv", !.fdc.bufp = 0, !.fdc.bufcnt = SecBytes]

\* start_writesector
StartWrite(m) == [m EXCEPT !.fdc.event = "bufrecv", !.fdc.bufp = 0, !.fdc.bufcnt = SecBytes,
                           !.fdc.buf = Filled]

\* writesector
WriteSector(m, ok) ==
    CASE Refuses(m.fdc) -> Send(m, "notready")
      [] ~Refuses(m.fdc) /\ ~ok -> Send(m, "nodata")
      [] OTHER -> [m EXCEPT !.fdc.event = "startbufrecv", !.fdc.bufp = 0,
                            !.fdc.stat[m.fdc.us] = Plain(m.fdc.us),
                            !.medium[m.fdc.us][m.fdc.R] = m.fdc.buf]

\* FDC_WriteID: the four bytes of an ID are in; after the last one the track
\* is written.
FormatSector(m, ok) ==
    LET f == [m EXCEPT !.fdc.formatted = @ + 1]
    IN  CASE ~ok -> Send(m, "fault")
          [] ok /\ f.fdc.formatted >= Eot ->
               Send([f EXCEPT !.medium[m.fdc.us] = [r \in Sectors |-> Formatted]], "good")
          [] OTHER -> [f EXCEPT !.fdc.event = "startbufrecv", !.fdc.bufp = 0]

-----------------------------------------------------------------------------
(***************************************************************************)
(* The execution phase: FDC_ReadData, FDC_WriteData and FDC_WriteID at     *)
(* their events other than the command's arrival.                          *)
(***************************************************************************)
\* update_executionphase_read and _write: what is due before the next byte.
Due(m, ok) ==
    LET f == m.fdc
        next == IncR([m EXCEPT !.fdc.bufcnt = 0])
    IN  CASE f.event = "firststartbufsend2" -> ReadSector(m, ok)
          [] f.event = "startbufsend2" ->
               IF Over(f) THEN Send(next, "end") ELSE ReadSector(next, ok)
          [] f.event = "firststartbufrecv" -> StartWrite(m)
          [] f.event = "startbufrecv" ->
               CASE f.op = "format" -> StartWrite(m)
                 [] f.op = "write" /\ Over(f) -> Send(IncR(m), "end")
                 [] OTHER -> StartWrite(IncR(m))
          [] OTHER -> m

\* setrqm: without DMA the request is also an interrupt.
SetRqm(f) == [f EXCEPT !.rqm = TRUE, !.intreq = @ \/ f.nd]

\* settc: a terminal count ends the command after the byte it came with.  A
\* sector begun is written; the bytes missing from it are zero.
Terminal(m, ok) ==
    CASE m.fdc.event \in Reading -> Send(IncR(m), "good")
      [] m.fdc.event \in Writing /\ m.fdc.op = "format" -> Send(m, "good")
      [] m.fdc.event \in Writing /\ m.fdc.op = "write" ->
           LET w == IF m.fdc.bufp # 0 THEN WriteSector(m, ok) ELSE m
           IN  IF w.fdc.event \in Writing THEN Send(IncR(w), "good") ELSE w
      [] OTHER -> m

\* The end of fdc_dataread and fdc_datawrite.
Reserved(m, ok) ==
    IF m.fdc.tcreserved THEN Terminal([m EXCEPT !.fdc.tcreserved = FALSE], ok) ELSE m

\* fdc_dataread in the execution phase.  The byte has to be the one at its
\* place in the sectors asked for.
Expected == guest.before[guest.r + (guest.moved \div SecBytes)][guest.moved % SecBytes]
ByteOut(m, ok) ==
    LET f == m.fdc
    IN  Reserved([m EXCEPT
            !.fdc.rqm = FALSE, !.fdc.bufp = @ + 1, !.fdc.bufcnt = @ - 1,
            !.fdc.event = IF f.bufcnt = 1 THEN "startbufsend2" ELSE @,
            !.guest.moved = @ + 1,
            !.guest.wrong = @ \/ f.buf[f.bufp] # Expected], ok)

\* fdc_datawrite in the execution phase; ok2 is for the sector a terminal
\* count has written.
ByteIn(m, ok) ==
    LET f == m.fdc
        t == [m EXCEPT !.fdc.rqm = FALSE, !.fdc.buf[f.bufp] = Given(guest.moved),
                       !.fdc.bufp = @ + 1, !.fdc.bufcnt = @ - 1, !.guest.moved = @ + 1]
        full == CASE f.op = "format" -> FormatSector(t, ok)
                  [] OTHER -> WriteSector(t, ok)
    IN  Reserved(IF t.fdc.bufcnt = 0 THEN full ELSE t, ok)

MoveByte(m, ok) == IF m.fdc.event = "bufsend2" THEN ByteOut(m, ok) ELSE ByteIn(m, ok)

\* NEVENT_FDCSTATE
Watch(ok) ==
    /\ fdc.motor /\ ~fdc.rqm /\ fdc.event \in Executing
    /\ LET t == Due(Machine, ok)
       IN  Become(IF t.fdc.event \in {"bufsend2", "bufrecv"}
                  THEN [t EXCEPT !.fdc = SetRqm(t.fdc)] ELSE t)
    /\ UNCHANGED <<disk, delay, count>>

\* Mutant: the terminal count is given one byte late.
LastMutant == dma.leng = 65535

\* The count register holds the bytes still to move, less one.
Last == dma.leng = 0

\* upd9002_dmap, at a boundary between two instructions.
DmaByte(ok) ==
    /\ dma.working /\ fdc.rqm
    /\ LET counted == [dma EXCEPT !.working = ~Last, !.leng = (@ + 65535) % 65536]
       IN  Become(MoveByte([Machine EXCEPT !.dma = counted, !.fdc.tcreserved = Last], ok))
    /\ UNCHANGED <<disk, delay, count>>

\* The guest moves the bytes itself and then gives the terminal count
\* (fdcsubsys_o_tc).
GuestByte(ok) ==
    /\ fdc.nd /\ fdc.rqm /\ fdc.event \in Executing /\ guest.moved < guest.n
    /\ Become(MoveByte(Machine, ok))
    /\ UNCHANGED <<disk, delay, count>>

GuestTerminal(ok) ==
    /\ fdc.nd /\ fdc.event \in Executing /\ guest.moved = guest.n
    /\ Become(Terminal(Machine, ok))
    /\ UNCHANGED <<disk, delay, count>>

-----------------------------------------------------------------------------
(***************************************************************************)
(* Commands.                                                               *)
(***************************************************************************)
Idle == fdc.event = "neutral"
Counted == count.commands < MaxCommands /\ count' = [count EXCEPT !.commands = @ + 1]

Asks(m, op, d, r, n, nd) ==
    [m EXCEPT !.fdc.op = op, !.fdc.us = d, !.fdc.R = r, !.fdc.nd = nd, !.fdc.formatted = 0,
              !.guest = [@ EXCEPT !.r = r, !.n = n, !.moved = 0, !.wrong = FALSE,
                                  !.before = m.medium[d]]]

\* FDC_ReadData, FDC_WriteData and FDC_WriteID when the command arrives.  ok
\* says whether the image lets itself be formatted; if not, the result is the
\* drive's status as it stands, which says nothing of an error.  The guest has given the DMA controller its
\* count and unmasks the channel; it has heard what the drive had to report.
Data(op, d, r, n, nd, ok) ==
    /\ Counted /\ guest.owed[d] = "none" /\ fdc.motor
    /\ ~nd => ~dma.work
    /\ LET a == Asks([Machine EXCEPT !.dma.mask = nd, !.dma.leng = IF nd THEN @ ELSE n - 1],
                     op, d, r, n, nd)
           s == IF op = "format" THEN a ELSE [a EXCEPT !.fdc.stat[d] = Plain(d)]
           b == [s EXCEPT !.fdc.event = IF op = "read" THEN "firststartbufsend2"
                                        ELSE "firststartbufrecv",
                          !.fdc.rqm = FALSE,
                          !.dma = IF nd THEN s.dma ELSE Ready(s.dma, TRUE)]
       IN  Become(CASE (IF op = "read" THEN NotReady(s.fdc) ELSE Refuses(s.fdc)) -> Send(s, "notready")
                    [] op = "format" /\ ~Refuses(s.fdc) /\ ~ok -> Send(s, "good")
                    [] OTHER -> b)
    /\ UNCHANGED <<disk, delay>>

\* FDC_ReadID: the result of a sector header.
ReadID(d, ok) ==
    /\ Idle /\ Counted /\ guest.owed[d] = "none"
    /\ Become(Send(Asks(Machine, "readid", d, 1, 0, fdc.nd),
                   IF ok /\ disk[d] # "none" THEN "good" ELSE "nodata"))
    /\ UNCHANGED <<disk, delay>>

\* FDC_Seek and FDC_Recalibrate: the head is there at once; the report is
\* kept until Sense Interrupt Status fetches it.
Seek(d) ==
    /\ Idle /\ Counted
    /\ fdc' = Interrupt([fdc EXCEPT !.us = d, !.op = "seek", !.stat[d] = "seek"])
    /\ guest' = [guest EXCEPT !.owed[d] = "seek"]
    /\ UNCHANGED <<dma, disk, delay, medium>>

\* FDC_Specify overwrites the report of the drive last addressed: the guest
\* gives it when no drive has one.
Specify ==
    /\ Idle /\ Counted /\ \A d \in Drives : guest.owed[d] = "none"
    /\ fdc' = [fdc EXCEPT !.op = "specify", !.stat[fdc.us] = Plain(fdc.us)]
    /\ UNCHANGED <<dma, disk, delay, medium, guest>>

\* FDC_SenseDeviceStatus overwrites it as well.
SenseDevice(d) ==
    /\ Idle /\ Counted /\ guest.owed[d] = "none"
    /\ fdc' = [fdc EXCEPT !.op = "sensedevice", !.us = d, !.stat[d] = Plain(d),
                          !.event = "bufsend",
                          !.result = [kind |-> "st3", drive |-> d, r |-> 0]]
    /\ UNCHANGED <<dma, disk, delay, medium, guest>>

\* Mutant: the request is dropped with the first report.
MoreMutant(stat) == FALSE

\* FDC_SenceintStatus: a drive that has something to report, the one last
\* addressed first; the request stays while another has.
Reports(stat) == {d \in Drives : stat[d] # "none"}
First(stat) == IF fdc.us \in Reports(stat) THEN fdc.us
               ELSE CHOOSE d \in Reports(stat) : \A e \in Reports(stat) : d <= e
More(stat) == Reports(stat) # {}

SenseInterrupt ==
    /\ Idle
    /\ LET f == [fdc EXCEPT !.event = "bufsend", !.op = "senseint"]
           none == [kind |-> "invalid", drive |-> 0, r |-> 0]
       IN  IF fdc.intreq /\ Reports(fdc.stat) # {}
           THEN LET d == First(fdc.stat)
                    left == [fdc.stat EXCEPT ![d] = "none"]
                IN  /\ fdc' = [f EXCEPT !.stat = left, !.intreq = More(left),
                                        !.result = [kind |-> fdc.stat[d], drive |-> d, r |-> 0]]
                    /\ guest' = [guest EXCEPT !.owed[d] = "none"]
           ELSE /\ fdc' = [f EXCEPT !.intreq = FALSE, !.result = none]
                /\ guest' = guest
    /\ UNCHANGED <<dma, disk, delay, medium, count>>

\* The guest is done with a command.
Done(g) == [g EXCEPT !.r = 1, !.n = 0, !.moved = 0, !.wrong = FALSE, !.before = <<>>]

\* The bytes of a result, up to the last.
ReadResult ==
    /\ fdc.event = "bufsend"
    /\ fdc' = [fdc EXCEPT !.event = "neutral", !.result = NoResult]
    /\ guest' = Done(guest)
    /\ UNCHANGED <<dma, disk, delay, medium, count>>

\* fdc_intwait
IntEvent ==
    /\ fdc.int
    /\ fdc' = [fdc EXCEPT !.int = FALSE, !.intreq = TRUE]
    /\ UNCHANGED <<dma, disk, delay, medium, guest, count>>

\* fdcva_o_mtrctl: the guest keeps the motors on while a command runs.
Motor ==
    /\ ~fdc.motor \/ (Idle /\ Counted)
    /\ ~fdc.motor => count' = count
    /\ fdc' = [fdc EXCEPT !.motor = ~@]
    /\ UNCHANGED <<dma, disk, delay, medium, guest>>

\* fdcva_o_dskmisc changing bit 4: the controller forgets its command, the
\* channel stops, an interrupt on its way still comes.  The guest gives up
\* what the drive had to report.
Abort ==
    /\ Counted /\ fdc.event \in Executing
    /\ fdc' = [fdc EXCEPT !.event = "neutral"]
    /\ dma' = Ready(dma, FALSE)
    /\ guest' = Done([guest EXCEPT !.owed[fdc.us] = "none"])
    /\ UNCHANGED <<disk, delay, medium>>

\* dmacva_o16f: the channel is masked under a running transfer and unmasked
\* again.
Mask ==
    /\ Counted /\ ~fdc.nd /\ fdc.event \in Executing /\ ~dma.mask
    /\ dma' = Check([dma EXCEPT !.mask = TRUE])
    /\ UNCHANGED <<fdc, disk, delay, medium, guest>>
Unmask ==
    /\ dma.mask /\ dma.ready
    /\ dma' = Check([dma EXCEPT !.mask = FALSE])
    /\ UNCHANGED <<fdc, disk, delay, medium, guest, count>>

-----------------------------------------------------------------------------
(***************************************************************************)
(* The user.                                                               *)
(***************************************************************************)
Attention(d) ==
    /\ fdc' = Interrupt([fdc EXCEPT !.stat[d] = "attention"])
    /\ guest' = [guest EXCEPT !.owed[d] = "attention"]

\* diskdrv_setfddex: the disk is gone at once, the new one comes later.
Change(d) ==
    /\ count.changes < MaxChanges /\ count' = [count EXCEPT !.changes = @ + 1]
    /\ disk' = [disk EXCEPT ![d] = "none"]
    /\ delay' = [delay EXCEPT ![d] = TRUE]
    /\ Attention(d)
    /\ UNCHANGED <<dma, medium>>

\* diskdrv_callback, DISK_DELAY frames later.
Insert(d) ==
    /\ delay[d]
    /\ delay' = [delay EXCEPT ![d] = FALSE]
    /\ disk' = [disk EXCEPT ![d] = "rw"]
    /\ Attention(d)
    /\ UNCHANGED <<dma, medium, count>>

Stop == count.commands = MaxCommands /\ Idle /\ ~fdc.int /\ UNCHANGED vars

Next ==
    \/ IntEvent \/ ReadResult \/ SenseInterrupt \/ Specify \/ Motor \/ Abort \/ Mask \/ Unmask \/ Stop
    \/ \E ok \in BOOLEAN : Watch(ok) \/ DmaByte(ok) \/ GuestByte(ok) \/ GuestTerminal(ok)
    \/ Idle /\ \E op \in {"read", "write", "format"}, d \in Drives, r \in Sectors, n \in Lengths,
                 nd \in BOOLEAN, ok \in BOOLEAN : Data(op, d, r, n, nd, ok)
    \/ \E d \in Drives, ok \in BOOLEAN : ReadID(d, ok)
    \/ \E d \in Drives : Seek(d) \/ SenseDevice(d) \/ Change(d) \/ Insert(d)

Spec == Init /\ [][Next]_vars

\* The scheduler and the DMA controller run on with the guest's clock; the
\* guest that moves the bytes itself goes on doing so.
Fairness ==
    /\ WF_vars(\E ok \in BOOLEAN : Watch(ok))
    /\ WF_vars(\E ok \in BOOLEAN : DmaByte(ok))
    /\ WF_vars(\E ok \in BOOLEAN : GuestByte(ok) \/ GuestTerminal(ok))
    /\ WF_vars(Unmask)

FairSpec == Spec /\ Fairness

-----------------------------------------------------------------------------
TypeOK ==
    /\ fdc.event \in Executing \cup {"neutral", "bufsend"}
    /\ fdc.R \in 0..Eot /\ fdc.bufp \in 0..SecBytes /\ fdc.bufcnt \in 0..SecBytes
    /\ fdc.stat \in [Drives -> {"none", "plain", "seek", "attention"}]
    /\ ~fdc.tcreserved
    /\ dma.leng \in 0..65535

\* The end of a seek and the change of a disk are told to the guest: the
\* drive's status says so until Sense Interrupt Status fetches it or a
\* command under way on the drive reports in its place, and the guest has
\* been interrupted or will be.
ReportKept ==
    \A d \in Drives : guest.owed[d] # "none" /\ ~(fdc.event \in Executing /\ fdc.us = d) =>
        fdc.stat[d] = guest.owed[d] /\ (fdc.intreq \/ fdc.int)

\* The channel works exactly while a command that uses it executes, unless
\* the guest has masked it.
ChannelFollows ==
    dma.working <=> (fdc.event \in Executing /\ ~fdc.nd /\ ~dma.mask)

\* What a write of `moved' bytes leaves in a sector.
Written(s) ==
    LET first == (s - guest.r) * SecBytes
    IN  [i \in Places |-> IF first + i < guest.moved THEN Given(first + i) ELSE 0]

\* A result without error means that exactly the bytes asked for were moved,
\* each from or to its place in the sectors asked for, a sector begun filled
\* up and every other sector untouched; one that stopped at the end of the
\* track moved what there was up to it.
TransferExact ==
    (fdc.event = "bufsend" /\ fdc.result.kind \in {"good", "end"}) =>
        LET last == guest.r + (guest.moved - 1) \div SecBytes
        IN  /\ fdc.op \in {"read", "write"} =>
                 IF fdc.result.kind = "good" THEN guest.moved = guest.n
                 ELSE guest.moved = (Eot + 1 - guest.r) * SecBytes
            /\ fdc.op = "read" => ~guest.wrong
            /\ fdc.op = "write" =>
                 \A s \in Sectors : medium[fdc.us][s] =
                     IF s \in guest.r..last THEN Written(s) ELSE guest.before[s]

\* What a result of a format says is what happened to the track.
FormatHonest ==
    (fdc.event = "bufsend" /\ fdc.op = "format" /\ fdc.result.kind = "good" /\ guest.n = Eot * SecBytes) =>
        medium[fdc.us] = [s \in Sectors |-> Formatted]

\* A command ends.
CommandEnds == fdc.event \in Executing ~> fdc.event \notin Executing

=============================================================================
