------------------------------- MODULE Scsi --------------------------------
(***************************************************************************)
(* The SCSI board: the WD33C93 of cbus/scsiio.c and the target behind it,  *)
(* cbus/scsicmd.c.  Everything the chip still owes the guest is kept in    *)
(* flags that one scheduler event, NEVENT_SCSIIO, works off; the event     *)
(* serves two handlers and holds one at a time.  The guest is told through *)
(* one status register (CSR) that it has to read before the next status    *)
(* can be latched.                                                         *)
(*                                                                         *)
(* A step is one port access of the guest or the event.  The board is one  *)
(* record, because the handlers call one another.  A block is one byte, a  *)
(* CDB is written whole, and the medium holds, for each block of the       *)
(* command, the number of the byte that was stored there.  Tracing and the *)
(* self-test mode are left out.                                            *)
(***************************************************************************)
EXTENDS Naturals

CONSTANTS
    Cdbs,        \* commands the guest may give: [op, n]
    Window,      \* blocks that fit the data window, 64 KiB in the code
    Counts,      \* values of the transfer count register
    Routes,      \* how the guest moves data: "level2", "direct", "legacy"
    MaxCommands  \* bound of the model: selections and resets

VARIABLES
    spc,       \* the board
    told,      \* guest: the status it read last
    waiting,   \* guest: it has given a command and no status has answered it
    commands   \* bound: how many selections and resets there were

vars == <<spc, told, waiting, commands>>

Phases == {"free", "command", "datain", "dataout", "status", "msgin"}
HostToSpc(p) == p \in {"command", "dataout"}

\* Values of the CSR; 8x, 1x and 4x carry the phase.
Need(p) == <<"need", p>>
Done(p) == <<"done", p>>
Left(p) == <<"left", p>>
Selected == <<"selected", "free">>
TimedOut == <<"timeout", "free">>
Paused == <<"paused", "msgin">>
BusFree == <<"busfree", "free">>
WasReset == <<"reset", "free">>
Completed == <<"completed", "free">>
Nothing == <<"nothing", "free">>
Statuses == ({"need", "done", "left"} \X Phases)
            \cup {Selected, TimedOut, Paused, BusFree, WasReset, Completed, Nothing}

NoBlock == [kind |-> "none", active |-> FALSE, left |-> 0, chunk |-> 0, at |-> 0]

\* scsiio_reset; sense and medium outlive it.
Fresh ==
    [phase |-> "free", dbr |-> FALSE, lci |-> FALSE,
     csr |-> Nothing, latched |-> FALSE, active |-> FALSE, coming |-> Nothing,
     event |-> "none", selection |-> Nothing, cmdphase |-> FALSE, pending |-> FALSE,
     next |-> Nothing, ready |-> FALSE, delay |-> FALSE, busfree |-> FALSE,
     completion |-> Nothing, state |-> "idle", req |-> FALSE, ack |-> FALSE,
     retained |-> FALSE, single |-> FALSE, remaining |-> 0, tc |-> 0,
     cmdpos |-> 0, wpos |-> 0, rpos |-> 0, result |-> "good", check |-> FALSE,
     block |-> NoBlock,
     window |-> [i \in 0..(Window - 1) |-> 0],
     \* history of the command: what it is, blocks on the medium, bytes given
     \* and taken, whether one was taken out of order, TRANSFER INFO asked for
     \* its data, a status was dropped
     op |-> "none", n |-> 0, medium |-> [i \in 1..(2 * Window) |-> 0],
     put |-> 0, got |-> 0, garbled |-> FALSE, level2 |-> FALSE, lost |-> FALSE]

Init == spc = Fresh /\ told = Nothing /\ waiting = FALSE /\ commands = 0

-----------------------------------------------------------------------------
\* What the chip owes, and the event that works it off.

TransferActive(s) == s.state \in {"waitreq", "byte", "postcount"}

\* scsiintr_enqueue: one status at a time; a second one is dropped.
Enqueue(s, status) ==
    IF status = Need("datain") /\ TransferActive(s) THEN s
    ELSE IF s.active \/ s.latched THEN [s EXCEPT !.lost = TRUE]
    ELSE [s EXCEPT !.active = TRUE, !.coming = status, !.event = "int"]

\* Mutant: an item under its delay, or a retained REQ, does not hold up the next.
OccupiedMutant(s) == s.active \/ s.latched

Occupied(s) == s.active \/ s.latched \/ s.delay \/ s.retained

\* scsi_target_publish: the first of what is pending.
Publish(s) ==
    CASE Occupied(s) -> s
      [] ~Occupied(s) /\ s.busfree -> Enqueue([s EXCEPT !.busfree = FALSE], BusFree)
      [] ~Occupied(s) /\ ~s.busfree /\ s.selection # Nothing ->
           Enqueue([s EXCEPT !.selection = Nothing, !.req = TRUE], s.selection)
      [] ~Occupied(s) /\ ~s.busfree /\ s.selection = Nothing /\ s.cmdphase ->
           Enqueue([s EXCEPT !.cmdphase = FALSE, !.req = TRUE], Need("command"))
      [] OTHER ->
           IF s.pending /\ s.ready
           THEN Enqueue([s EXCEPT !.pending = FALSE, !.ready = FALSE, !.req = TRUE], s.next)
           ELSE s

Delay(s) == [s EXCEPT !.delay = TRUE, !.event = "ready"]

\* scsi_target_schedule_after_consume
AfterConsume(s) ==
    IF Occupied(s) THEN s
    ELSE IF s.busfree \/ s.selection # Nothing \/ s.cmdphase \/ (s.pending /\ ~s.ready)
         THEN Delay(s)
         ELSE Publish(s)

\* scsiio_start_transfer
StartTransfer(s) ==
    IF s.req THEN [s EXCEPT !.state = "byte", !.dbr = TRUE] ELSE [s EXCEPT !.dbr = FALSE]

\* scsiioint: the status becomes visible.
Latch(s) ==
    [s EXCEPT !.event = "none", !.active = FALSE, !.csr = s.coming, !.latched = TRUE,
              !.dbr = @ \/ (s.coming[1] \in {"need", "busfree"} /\ ~HostToSpc(s.phase))]

\* scsiio_target_phase_ready_event: the post-count REQ completes a transfer, a
\* waiting transfer starts, or the next pending item is published.
PhaseReady(s) ==
    LET r == [s EXCEPT !.event = "none", !.delay = FALSE]
    IN  CASE r.busfree -> Publish(r)
          [] ~r.busfree /\ r.state = "postcount" ->
               Enqueue([r EXCEPT !.req = TRUE, !.retained = TRUE, !.state = "completed",
                                 !.ready = FALSE, !.dbr = FALSE], r.completion)
          [] ~r.busfree /\ r.state = "waitreq" ->
               StartTransfer([r EXCEPT !.pending = FALSE, !.ready = ~r.pending, !.req = TRUE])
          [] OTHER -> Publish([r EXCEPT !.ready = TRUE])

Event ==
    /\ \/ spc.event = "int" /\ spc' = Latch(spc)
       \/ spc.event = "ready" /\ spc' = PhaseReady(spc)
    /\ UNCHANGED <<told, waiting, commands>>

-----------------------------------------------------------------------------
\* The target: cbus/scsicmd.c.  ok: the blocks exist and the medium does not fail.

\* scsicmd_phase_service_status
Service(s) == IF s.phase = "free" THEN BusFree ELSE Need(s.phase)

ToStatus(s, result) ==
    [s EXCEPT !.phase = "status", !.result = result, !.cmdpos = 1, !.rpos = 0]

\* scsicmd_block_prepare_read: the next chunk into the data window.
PrepareRead(s, ok) ==
    LET k == IF s.block.left < Window THEN s.block.left ELSE Window
    IN  IF ok
        THEN [s EXCEPT !.block = [@ EXCEPT !.chunk = k, !.left = @ - k, !.at = @ + k],
                       !.cmdpos = k, !.rpos = 0,
                       !.window = [i \in DOMAIN @ |-> IF i < k THEN s.block.at + i + 1 ELSE 0]]
        ELSE [s EXCEPT !.check = TRUE, !.block.active = FALSE, !.block.chunk = k]

\* scsicmd_block_prepare_write
PrepareWrite(s) ==
    LET k == IF s.block.left < Window THEN s.block.left ELSE Window
    IN  [s EXCEPT !.block.chunk = k, !.cmdpos = k, !.wpos = 0,
                  !.window = [i \in DOMAIN @ |-> IF i < k THEN 0 ELSE @[i]]]

\* Mutant: the next chunk of a write is stored where the command began.
StoreMutant(s, at, k) ==
    [s EXCEPT !.medium = [b \in DOMAIN @ |-> IF b \in 1..k THEN s.window[b - 1] ELSE @[b]]]

\* sxsi_write of the chunk to the blocks after at.
Store(s, at, k) ==
    [s EXCEPT !.medium = [b \in DOMAIN @ |->
        IF b \in (at + 1)..(at + k) THEN s.window[b - at - 1] ELSE @[b]]]

\* scsicmd_block_dataout_complete: commit the chunk, then the next one or STATUS.
DataOutComplete(s, ok) ==
    LET b == s.block
        full == b.active /\ b.kind = "write" /\ b.chunk # 0 /\ s.wpos = b.chunk
        done == [Store(s, b.at, b.chunk) EXCEPT !.block.at = @ + b.chunk,
                                                !.block.left = @ - b.chunk]
    IN  CASE full /\ ok /\ done.block.left # 0 -> PrepareWrite(done)
          [] full /\ ok /\ done.block.left = 0 ->
               [done EXCEPT !.block.active = FALSE, !.phase = "status", !.rpos = 0,
                            !.result = IF s.check THEN "check" ELSE "good"]
          [] full /\ ~ok -> ToStatus([s EXCEPT !.check = TRUE, !.block.active = FALSE], "check")
          [] OTHER -> ToStatus(s, "check")

\* scsicmd_block_datain_complete; a later chunk that cannot be read sets the
\* sense and ends the phase, but leaves the status register as it is, GOOD.
DataInComplete(s, ok) ==
    LET next == PrepareRead(s, ok)
        blocks == s.op = "read"
    IN  IF blocks /\ s.block.active /\ s.block.kind = "read" /\ s.block.left # 0
        THEN IF ok THEN next ELSE [next EXCEPT !.phase = "status", !.rpos = 0]
        ELSE [s EXCEPT !.phase = "status", !.rpos = 0,
                       !.block.active = IF blocks THEN FALSE ELSE @,
                       !.result = IF blocks THEN (IF s.check THEN "check" ELSE "good") ELSE @]

\* scsicmd_transinfo: what follows the phase that has moved its bytes.
Transinfo(s, ok) ==
    CASE s.phase = "datain" /\ s.rpos >= s.cmdpos -> DataInComplete(s, ok)
      [] s.phase = "dataout" /\ s.cmdpos # 0 /\ s.wpos >= s.cmdpos -> DataOutComplete(s, ok)
      [] s.phase = "status" -> [s EXCEPT !.phase = "msgin", !.rpos = 0]
      [] s.phase = "msgin" -> [s EXCEPT !.phase = "free", !.rpos = 0]
      [] OTHER -> s

Forgotten(s, cdb) ==
    [s EXCEPT !.op = cdb.op, !.n = cdb.n, !.put = 0, !.got = 0, !.garbled = FALSE, !.level2 = FALSE,
              !.medium = [b \in DOMAIN @ |-> 0]]

NewBlock(cdb) ==
    [kind |-> cdb.op, active |-> TRUE, left |-> cdb.n, chunk |-> 0, at |-> 0]

\* scsicmd_command
RunCommand(s, cdb, ok) ==
    LET r == [Forgotten(s, cdb) EXCEPT !.result = "good", !.check = FALSE, !.block = NoBlock]
        b == [r EXCEPT !.block = NewBlock(cdb)]
    IN  CASE cdb.op = "tur" -> [r EXCEPT !.phase = "status"]
          [] cdb.op = "inquiry" -> [r EXCEPT !.phase = "datain", !.cmdpos = cdb.n, !.rpos = 0]
          [] cdb.op \in {"read", "write"} /\ cdb.n = 0 -> ToStatus(r, "good")
          [] cdb.op = "read" /\ cdb.n # 0 ->
               IF ok THEN [PrepareRead(b, ok) EXCEPT !.phase = "datain"]
               ELSE ToStatus(PrepareRead(b, ok), "check")
          [] cdb.op = "write" /\ cdb.n # 0 /\ ok -> [PrepareWrite(b) EXCEPT !.phase = "dataout"]
          [] OTHER -> ToStatus(r, "check")

\* scsicmd_transfer: SELECT AND TRANSFER answers at once; a block command
\* leaves a data window behind it (scsicmd_direct_block_transfer).
Transfer(s, cdb, ok) ==
    LET r == [Forgotten(s, cdb) EXCEPT !.check = FALSE]
        b == [r EXCEPT !.block = [NewBlock(cdb) EXCEPT !.chunk = cdb.n], !.result = "good",
                       !.cmdpos = cdb.n, !.rpos = 0]
        fail == [r EXCEPT !.block = [NewBlock(cdb) EXCEPT !.active = FALSE],
                          !.check = TRUE, !.result = "check"]
    IN  CASE cdb.op = "tur" -> [Forgotten(s, cdb) EXCEPT !.result = "good"]
          [] cdb.op = "inquiry" -> [r EXCEPT !.result = "good", !.cmdpos = cdb.n]
          [] cdb.op \in {"read", "write"} /\ (cdb.n > Window \/ s.tc # cdb.n) -> fail
          [] cdb.op \in {"read", "write"} /\ s.tc = cdb.n /\ cdb.n = 0 ->
               [r EXCEPT !.block = [NewBlock(cdb) EXCEPT !.active = FALSE], !.result = "good"]
          [] cdb.op = "read" /\ cdb.n \in 1..Window /\ s.tc = cdb.n ->
               IF ok THEN [b EXCEPT !.phase = "datain", !.block.left = 0,
                                    !.window = [i \in DOMAIN @ |-> IF i < cdb.n THEN i + 1 ELSE @[i]]]
               ELSE fail
          [] cdb.op = "write" /\ cdb.n \in 1..Window /\ s.tc = cdb.n ->
               IF ok THEN [b EXCEPT !.phase = "dataout", !.wpos = 0] ELSE fail
          [] OTHER -> [Forgotten(s, cdb) EXCEPT !.result = "check"]

-----------------------------------------------------------------------------
\* The data ports.

Take(s) ==
    LET inorder == s.op = "read" => s.window[s.rpos] = s.got + 1
    IN  [s EXCEPT !.rpos = @ + 1, !.got = IF s.phase = "datain" THEN @ + 1 ELSE @,
                  !.garbled = @ \/ (s.phase = "datain" /\ ~inorder)]

\* scsiio_dataout_store_byte
Give(s) ==
    [s EXCEPT !.window = [i \in DOMAIN @ |-> IF i = s.wpos THEN s.put + 1 ELSE @[i]],
              !.wpos = @ + 1, !.put = @ + 1]

\* scsicmd_direct_data_available and scsicmd_direct_dataout_available
DirectData(s) ==
    s.block.active /\ s.block.kind = "read" /\ s.phase = "datain" /\ s.rpos < s.cmdpos
DirectDataOut(s) ==
    s.block.active /\ s.block.kind = "write" /\ s.phase = "dataout" /\ s.wpos < s.cmdpos

\* scsicmd_direct_data_complete
DirectRead(s) ==
    LET t == Take(s)
    IN  [t EXCEPT !.block.active = @ /\ ~(t.rpos >= t.cmdpos /\ t.result = "good")]

\* scsicmd_direct_dataout_complete: one write from the first block on.
DirectWrite(s, ok) ==
    LET t == Give(s)
    IN  IF t.wpos < t.cmdpos THEN t
        ELSE IF ok
        THEN [Store(t, 0, t.block.chunk) EXCEPT !.block.left = 0, !.block.active = FALSE,
                                                !.result = "good"]
        ELSE [t EXCEPT !.result = "check", !.block.active = FALSE]

Down(n) == IF n = 0 THEN 0 ELSE n - 1

\* scsiio_complete_byte_handshake and the two counts.
Counted(s) ==
    [s EXCEPT !.req = FALSE, !.retained = @ /\ ~s.req, !.ack = FALSE,
              !.tc = IF s.single THEN @ ELSE Down(@), !.remaining = Down(@)]

Another(s) == [s EXCEPT !.state = "byte", !.dbr = TRUE, !.req = TRUE]

\* Mutant: the wait for the REQ after the last byte is not scheduled.
PostCountMutant(s) ==
    [s EXCEPT !.state = "postcount", !.next = Service(s), !.pending = TRUE, !.ready = FALSE,
              !.completion = IF s.phase = "free" THEN TimedOut ELSE Done(s.phase)]

\* scsiio_post_count_wait
PostCount(s) ==
    Delay([s EXCEPT !.state = "postcount", !.next = Service(s), !.pending = TRUE, !.ready = FALSE,
                    !.completion = IF s.phase = "free" THEN TimedOut ELSE Done(s.phase)])

\* Message In ends with ACK held until the guest negates it.
MessageRead(s) ==
    LET t == Transinfo([s EXCEPT !.req = FALSE, !.retained = @ /\ ~s.req,
                                 !.tc = IF s.single THEN @ ELSE Down(@), !.remaining = 0], TRUE)
    IN  Enqueue([t EXCEPT !.state = "completed", !.next = BusFree, !.pending = FALSE,
                          !.ready = FALSE, !.dbr = FALSE], Paused)

\* The data phase is over before the count is: the next chunk, the end of the
\* count, or 4xh with the next phase's REQ retained.
ShortRead(s, ok) ==
    LET more == s.block.active /\ s.block.kind = "read" /\ s.block.left # 0
        t == Transinfo(Counted(s), ok)
    IN  CASE more /\ t.phase = "datain" -> Another(t)
          [] ~(more /\ t.phase = "datain") /\ t.remaining = 0 -> PostCount(t)
          [] OTHER ->
               Enqueue([t EXCEPT !.req = TRUE, !.retained = TRUE, !.state = "completed",
                                 !.next = Service(t), !.pending = FALSE, !.ready = FALSE,
                                 !.dbr = FALSE], Left(t.phase))

\* What a REQ waiting for its byte looks like to the guest.
Asked(s) == s.state = "byte" /\ s.req /\ s.dbr

\* scsiio_data_read
Ar19Read(s, ok) ==
    LET t == Take([s EXCEPT !.dbr = FALSE, !.ack = TRUE])
        c == Counted(t)
    IN  CASE DirectData(s) -> DirectRead(s)
          [] ~DirectData(s) /\ (HostToSpc(s.phase) \/ ~Asked(s)) -> s
          [] ~DirectData(s) /\ ~HostToSpc(s.phase) /\ Asked(s) /\ s.rpos >= Window ->
               [s EXCEPT !.dbr = FALSE, !.ack = TRUE]
          [] OTHER ->
               CASE t.phase = "msgin" /\ t.remaining = 1 -> MessageRead(t)
                 [] t.phase = "datain" /\ t.rpos >= t.cmdpos /\ t.remaining # 0 -> ShortRead(t, ok)
                 [] OTHER -> IF c.remaining # 0 THEN Another(c) ELSE PostCount(Transinfo(c, ok))

\* scsiio_data_write; the CDB is one byte.
Ar19Write(s, cdb, ok) ==
    LET b == [s EXCEPT !.dbr = FALSE]
        c == Counted(IF s.phase = "command" THEN [b EXCEPT !.wpos = @ + 1] ELSE Give(b))
        chunk == c.phase = "dataout" /\ c.remaining # 0 /\ c.block.active
                 /\ c.block.kind = "write" /\ c.wpos >= c.cmdpos
        t == IF chunk THEN Transinfo(c, ok) ELSE c
    IN  CASE DirectDataOut(s) -> DirectWrite(s, ok)
          [] ~DirectDataOut(s) /\ (~HostToSpc(s.phase) \/ ~Asked(s)) -> s
          [] OTHER ->
               IF t.remaining # 0 THEN Another(t)
               ELSE PostCount(IF t.phase = "command" THEN RunCommand(t, cdb, ok)
                              ELSE Transinfo(t, ok))

\* scsiio_icc6: the whole window is one data phase on this port.
LegacyTake(s) ==
    LET t == Take(s)
    IN  IF s.rpos >= Window THEN s
        ELSE IF t.phase = "datain" /\ t.rpos >= t.cmdpos
        THEN Enqueue([t EXCEPT !.phase = "status"], Need("status"))
        ELSE t

\* scsiio_occ6 and scsiio_legacy_dataout_complete
LegacyGive(s, ok) ==
    LET t == Give(s)
        u == Transinfo(t, ok)
    IN  IF t.wpos < t.cmdpos THEN t
        ELSE IF u.phase = "dataout" THEN u ELSE Enqueue(u, Service(u))

-----------------------------------------------------------------------------
\* The guest.  It gives a command when the last one has been answered, goes by
\* the status it read, and moves a byte when the chip asks for one.

Free == told \in {Nothing, WasReset, BusFree, Completed, TimedOut}
Blocks == spc.op \in {"read", "write"}

\* scsiio_command_write: a command is refused while a status waits to be read,
\* and one that moves data while a transfer is under way.
Refused(level2) == spc.active \/ spc.latched \/ (level2 /\ TransferActive(spc))
Accepted(single) ==
    [spc EXCEPT !.single = single, !.state = IF @ = "completed" THEN "idle" ELSE @]
Command(level2, s) ==
    /\ spc' = IF Refused(level2) THEN [spc EXCEPT !.lci = TRUE] ELSE s
    /\ waiting' = TRUE
    /\ UNCHANGED told

Begin == ~waiting /\ Free /\ commands < MaxCommands /\ commands' = commands + 1

\* SCSICMD_RESET: what the target still owes is kept.
Reset ==
    /\ Begin
    /\ Command(FALSE, Enqueue([Accepted(FALSE) EXCEPT
           !.phase = "free", !.cmdpos = 0, !.rpos = 0, !.wpos = 0, !.dbr = FALSE, !.lci = FALSE,
           !.cmdphase = FALSE, !.remaining = 0, !.state = "idle", !.req = FALSE, !.ack = FALSE,
           !.retained = FALSE, !.single = FALSE, !.busfree = FALSE], WasReset))

\* SCSICMD_SEL and scsicmd_select
Select(present) ==
    /\ Begin
    /\ LET a == Accepted(FALSE)
       IN  Command(TRUE, AfterConsume(
               IF present
               THEN [a EXCEPT !.phase = "command", !.cmdphase = TRUE, !.selection = Selected]
               ELSE [a EXCEPT !.selection = TimedOut]))

\* SCSICMD_SEL_TR
SelectTransfer(cdb, count, ok) ==
    /\ Begin
    /\ "direct" \in Routes
    /\ Command(TRUE, Enqueue(Transfer([Accepted(FALSE) EXCEPT !.tc = count], cdb, ok), Completed))

\* SCSICMD_TRANS_INFO
InfoAccepted(single, count) ==
    LET a == [Accepted(single) EXCEPT !.tc = count, !.dbr = FALSE, !.state = "waitreq",
                                      !.level2 = @ \/ spc.phase \in {"datain", "dataout"},
                                      !.remaining = IF single THEN 1 ELSE count]
        go == StartTransfer([a EXCEPT !.pending = FALSE, !.ready = @ /\ ~a.pending,
                                      !.wpos = IF a.phase = "command" THEN 0 ELSE @])
    IN  CASE a.phase # "command" /\ a.pending /\ ~a.ready /\ ~a.req ->
               IF a.delay THEN a ELSE Delay(a)
          [] a.phase = "command" \/ ~a.pending \/ a.ready \/ a.req ->
               IF a.remaining = 0 THEN [a EXCEPT !.state = "completed"] ELSE go

TransferInfo(single, count) ==
    /\ ~waiting
    /\ told[1] \in {"need", "done", "left"} /\ told[2] = spc.phase
    /\ IF spc.phase \in {"datain", "dataout"}
       THEN ~single /\ ("level2" \in Routes \/ ~Blocks)
       ELSE count = 1
    /\ Command(TRUE, InfoAccepted(single, count))
    /\ UNCHANGED commands

\* SCSICMD_NEGATE
Negate ==
    /\ ~waiting
    /\ told = Paused
    /\ Command(FALSE, AfterConsume([Accepted(FALSE) EXCEPT
           !.phase = "free", !.ack = FALSE, !.dbr = FALSE, !.state = "completed",
           !.retained = FALSE, !.busfree = TRUE]))
    /\ UNCHANGED commands

\* scsiio_icc2, the status register: reading it makes room for the next status.
\* After a selection the guest goes on waiting for the command phase.
ReadStatus ==
    /\ spc.latched
    /\ LET repeated == spc.state = "completed" /\ spc.pending
                       /\ spc.csr = Done("datain") /\ spc.next = Need("datain")
           r == [spc EXCEPT !.latched = FALSE, !.state = "idle"]
       IN  spc' = IF repeated THEN r ELSE AfterConsume(r)
    /\ told' = spc.csr
    /\ waiting' = (spc.csr = Selected)
    /\ UNCHANGED commands

ReadData(ok) ==
    /\ \/ Asked(spc) /\ ~HostToSpc(spc.phase)
       \/ told = Completed /\ ~waiting /\ DirectData(spc)
    /\ spc' = Ar19Read(spc, ok)
    /\ UNCHANGED <<told, waiting, commands>>

WriteData(cdb, ok) ==
    /\ \/ Asked(spc) /\ HostToSpc(spc.phase)
       \/ told = Completed /\ ~waiting /\ DirectDataOut(spc)
    /\ spc' = Ar19Write(spc, cdb, ok)
    /\ UNCHANGED <<told, waiting, commands>>

Legacy == "legacy" \in Routes /\ ~waiting /\ told[1] \in {"need", "done"} /\ told[2] = spc.phase

\* The guest has nothing to wait for until the port has taken its last byte.
LegacyRead ==
    /\ Legacy /\ spc.phase = "datain"
    /\ spc' = LegacyTake(spc)
    /\ waiting' = (spc'.phase = "status")
    /\ UNCHANGED <<told, commands>>

LegacyWrite(ok) ==
    /\ Legacy /\ spc.phase = "dataout"
    /\ spc' = LegacyGive(spc, ok)
    /\ waiting' = (spc'.phase = "status")
    /\ UNCHANGED <<told, commands>>

\* A read that has emptied the window whole: the port answers no further read
\* before the phase is over (scsiio.c:771), so that the phase does not end.
WindowEmpty == ~HostToSpc(spc.phase) /\ spc.rpos >= Window

\* The bound is reached and every command has been answered, or the guest waits
\* for a phase that does not end.
Stop ==
    /\ (commands = MaxCommands /\ ~waiting /\ Free) \/ (waiting /\ WindowEmpty)
    /\ UNCHANGED vars

Next ==
    \/ Event \/ Reset \/ Negate \/ ReadStatus \/ LegacyRead \/ Stop
    \/ \E b \in BOOLEAN : Select(b) \/ ReadData(b) \/ LegacyWrite(b)
    \/ \E cdb \in Cdbs, count \in Counts, b \in BOOLEAN :
          SelectTransfer(cdb, count, b)
    \/ \E cdb \in Cdbs, b \in BOOLEAN : WriteData(cdb, b)
    \/ \E count \in Counts, b \in BOOLEAN : TransferInfo(b, count)

Spec == Init /\ [][Next]_vars

-----------------------------------------------------------------------------
TypeOK ==
    /\ spc.phase \in Phases /\ {spc.csr, spc.coming, spc.next, spc.selection, told} \subseteq Statuses
    /\ spc.event \in {"none", "int", "ready"}
    /\ spc.rpos \in 0..(Window + 1) /\ spc.block.left \in 0..(2 * Window)

\* NEVENT_SCSIIO holds one handler, and it is the one the flags ask for: a
\* status on its way is not replaced by a target delay, a delay not by a
\* status, and no status is dropped.
OneHandler ==
    /\ spc.active <=> spc.event = "int"
    /\ spc.delay <=> spc.event = "ready"
    /\ ~spc.lost

\* A guest that waits is answered: there is a status to read, a byte to move,
\* or the event is scheduled, but for one that has read the last byte of the
\* window.
Answered == waiting => spc.latched \/ Asked(spc) \/ spc.event # "none" \/ WindowEmpty

\* A service request the guest reads names the phase the bus is in, and none
\* comes once the bus is free.
ServiceNamesPhase == spc.latched /\ spc.csr[1] = "need" => spc.csr[2] = spc.phase

Finished ==
    \/ spc.phase \in {"status", "msgin"}
    \/ told = Completed /\ ~waiting /\ ~spc.block.active

\* The blocks that one data window takes; the code never fetches the next ones
\* of a read, because scsicmd_direct_data_complete ends the command's block
\* transfer with the first window (scsicmd.c:810), and port 0CC6H goes on to
\* STATUS after it.
FirstWindow == IF spc.n < Window THEN spc.n ELSE Window

\* GOOD means that the blocks of a write are on the medium, all of them and in
\* order, and that those of a read were there to be read, in order, as far as
\* the window goes.  It says less of a read by TRANSFER INFO: the data port
\* serves it as if SELECT AND TRANSFER had been given, without counting, so that
\* the guest is asked for more bytes than there are (scsiio.c:737).
OneFinalStatus ==
    (spc.result = "good" /\ Finished) =>
        /\ spc.op = "read" => spc.got >= FirstWindow
        /\ spc.op = "read" /\ ~spc.level2 => spc.got = FirstWindow /\ ~spc.garbled
        /\ spc.op = "write" => \A b \in 1..spc.n : spc.medium[b] = b

=============================================================================
