------------------------------ MODULE Fdsubsys ------------------------------
(***************************************************************************)
(* The mock of the disk subsystem, io/fdsubsys.c: the main CPU talks to it *)
(* over two 8-bit ports and a port of handshake lines; every write of the  *)
(* main CPU to them runs the subsystem until it waits for a line.  Here a  *)
(* step is one pass of that loop, and the main CPU moves only when it is   *)
(* over (Waiting).                                                         *)
(*                                                                         *)
(* The main CPU is guest code; it is taken to follow the byte transport of *)
(* docs/bios/fdc_monitor.md:58-63, and to ask with 03H only for what 06H   *)
(* said was read.  Addresses of 0CH are outside the work memory.           *)
(***************************************************************************)
EXTENDS Naturals, Sequences

CONSTANTS
    Requests,  \* what the main CPU may send: cmd, params, payload
    Size,      \* [0..3 -> Nat], bytes of a sector by the N of the disk mode
    Drives,    \* 2 in the code
    DataBuf,   \* DATA_BUF_SIZE
    MaxCalls   \* bound: requests of the main CPU

VARIABLES
    portA, portB,        \* porta_main, portb_main
    main, sub,           \* portc_main: the lines each side raises
    hsstate, state,      \* names without HSST_ and ST_
    cmd, cmdrecvd,
    param,               \* parambuf, the bytes of the running command
    started,             \* parambuf[5], for 01H and 0CH
    recvcnt, recvbuf,    \* recvdatacnt, recvbuf: "param", "data" or "memory"
    sendbuf,             \* the bytes that are left to send
    buffer,              \* subsysmem at WORK_DATA_BUF
    mode, n, count, status, \* WORK_DISK_MODE, DM_N, READ_SECTOR_COUNT, COMMAND_STATUS
    mpc,                 \* where the main CPU is in the transport
    req, todo,           \* its request and the bytes of it left to send
    got,                 \* the bytes of the answer it has
    asked, good,         \* the bytes on the disk its last 02H was about; 06H said 40H
    calls,               \* requests made
    taken, reply         \* history of this request: bytes read from port B; the answer

ports == <<portA, portB, main, sub>>
recvVars == <<recvcnt, recvbuf, param, started>>
work == <<buffer, mode, n, count, status>>
mainVars == <<portB, main, mpc, req, todo, got, asked, good, calls>>
subVars == <<portA, sub, hsstate, state, cmd, cmdrecvd, recvVars, sendbuf, work, taken, reply>>
vars == <<mainVars, subVars>>

Byte == 0..255

INITIALIZE == 0
WRITE_DATA == 1
READ_DATA == 2
SEND_DATA == 3
SEND_RESULT_STATUS == 6
RECEIVE_MEMORY == 12
SET_DISK_MODE == 31
SEND_DISK_MODE == 32
DRIVE_READY_CHECK == 35
SLEEP == 37

NoRequest == [cmd |-> INITIALIZE, params |-> <<>>, payload |-> <<>>]

BytesOf(r) == <<r.cmd>> \o r.params \o r.payload

\* Byte k of a sector on a disk.
OnDisk(drv, track, sector, k) == (64 * drv + 16 * track + 4 * sector + k) % 256

\* m sectors from there on, of s bytes each.
Sectors(drv, track, sector, m, s) ==
    [i \in 1..(m * s) |-> OnDisk(drv, track, sector + (i - 1) \div s, (i - 1) % s)]

Init ==
    /\ portA = 0 /\ portB = 0 /\ main = {} /\ sub = {}
    /\ hsstate = "STOPPED" /\ state = "RECV_CMD"
    /\ cmd = 0 /\ cmdrecvd = FALSE /\ param = <<>> /\ started = FALSE
    /\ recvcnt = 0 /\ recvbuf = "param" /\ sendbuf = <<>>
    /\ buffer = [i \in 1..DataBuf |-> 0]
    /\ mode = [d \in 0..(Drives - 1) |-> 0] /\ n = 0 /\ count = 0 /\ status = 0
    /\ mpc = "idle" /\ req = NoRequest
    /\ todo = <<>> /\ got = <<>> /\ asked = <<>> /\ good = FALSE /\ calls = 0
    /\ taken = BytesOf(req) /\ reply = <<>>

-----------------------------------------------------------------------------
(***************************************************************************)
(* The handshake of the subsystem, subsys_wait_*.                          *)
(***************************************************************************)
At(st, hs) == state = st /\ hsstate = hs

WaitAtn ==
    /\ At("RECV_CMD", "WAIT_ATN") /\ "ATN" \in main
    /\ sub' = sub \cup {"RFD"} /\ hsstate' = "WAIT_CMD"
    /\ UNCHANGED <<mainVars, portA, state, cmd, cmdrecvd, recvVars, sendbuf, work, taken, reply>>

\* The byte on port B is taken.
Accepts ==
    /\ "DAV" \in main
    /\ sub' = (sub \ {"RFD"}) \cup {"DAC"}
    /\ hsstate' = "WAIT_DAV_RESET"

WaitCmd ==
    /\ At("RECV_CMD", "WAIT_CMD") /\ Accepts
    /\ cmd' = portB /\ cmdrecvd' = TRUE
    /\ taken' = <<portB>> /\ reply' = <<>>
    /\ UNCHANGED <<mainVars, portA, state, recvVars, sendbuf, work>>

WaitData ==
    /\ At("RECV_DATA", "WAIT_DATA") /\ Accepts
    /\ taken' = Append(taken, portB)
    /\ recvcnt' = recvcnt - 1
    /\ param' = IF recvbuf = "param" THEN Append(param, portB) ELSE param
    /\ buffer' = IF recvbuf = "data"
                 THEN [buffer EXCEPT ![Len(taken) - Len(param)] = portB] ELSE buffer
    /\ UNCHANGED <<mainVars, portA, state, cmd, cmdrecvd, recvbuf, started, sendbuf,
                   mode, n, count, status, reply>>

\* Mutant: the byte counts as taken back at once.
DavDroppedMutant == TRUE

DavDropped == "DAV" \notin main

WaitDavReset ==
    /\ hsstate = "WAIT_DAV_RESET" /\ DavDropped
    /\ sub' = sub \ {"DAC"} /\ hsstate' = "STOPPED"
    /\ UNCHANGED <<mainVars, portA, state, cmd, cmdrecvd, recvVars, sendbuf, work, taken, reply>>

WaitRfd ==
    /\ At("SEND_DATA", "WAIT_RFD") /\ "RFD" \in main
    /\ portA' = Head(sendbuf) /\ sendbuf' = Tail(sendbuf)
    /\ sub' = sub \cup {"DAV"} /\ hsstate' = "WAIT_DAC"
    /\ UNCHANGED <<mainVars, state, cmd, cmdrecvd, recvVars, work, taken, reply>>

WaitDac ==
    /\ At("SEND_DATA", "WAIT_DAC") /\ "DAC" \in main
    /\ sub' = sub \ {"DAV"} /\ hsstate' = "WAIT_DAC_RESET"
    /\ UNCHANGED <<mainVars, portA, state, cmd, cmdrecvd, recvVars, sendbuf, work, taken, reply>>

WaitDacReset ==
    /\ At("SEND_DATA", "WAIT_DAC_RESET") /\ "DAC" \notin main
    /\ hsstate' = "STOPPED"
    /\ UNCHANGED <<mainVars, portA, sub, state, cmd, cmdrecvd, recvVars, sendbuf, work, taken, reply>>

-----------------------------------------------------------------------------
(***************************************************************************)
(* Between two bytes: subsys_receive_cmd, _receive_data, _send_data.       *)
(***************************************************************************)
ParamLength(c) ==
    CASE c \in {WRITE_DATA, READ_DATA, RECEIVE_MEMORY} -> 4
      [] c \in {13, SET_DISK_MODE, 38} -> 2              \* EXECUTE_COMMAND, ACTIVE
      [] c = 14 -> 6                                     \* LOAD_DATA
      [] c \in {23, SEND_DISK_MODE, 33, DRIVE_READY_CHECK} -> 1
      [] OTHER -> 0

\* subsys_cmd_received, then the parameters.
CmdReceived ==
    /\ At("RECV_CMD", "STOPPED") /\ cmdrecvd
    /\ state' = "RECV_DATA"
    /\ recvcnt' = ParamLength(cmd) /\ recvbuf' = "param" /\ param' = <<>>
    /\ started' = FALSE
    /\ UNCHANGED <<mainVars, portA, sub, hsstate, cmd, cmdrecvd, sendbuf, work, taken, reply>>

Idle ==
    /\ At("RECV_CMD", "STOPPED") /\ ~cmdrecvd
    /\ hsstate' = "WAIT_ATN"
    /\ UNCHANGED <<mainVars, portA, sub, state, cmd, cmdrecvd, recvVars, sendbuf, work, taken, reply>>

NextByte ==
    /\ At("RECV_DATA", "STOPPED") /\ recvcnt > 0
    /\ sub' = sub \cup {"RFD"} /\ hsstate' = "WAIT_DATA"
    /\ UNCHANGED <<mainVars, portA, state, cmd, cmdrecvd, recvVars, sendbuf, work, taken, reply>>

DataReceived ==
    /\ At("RECV_DATA", "STOPPED") /\ recvcnt = 0
    /\ state' = "EXEC_CMD"
    /\ UNCHANGED <<mainVars, portA, sub, hsstate, cmd, cmdrecvd, recvVars, sendbuf, work, taken, reply>>

SendNext ==
    /\ At("SEND_DATA", "STOPPED")
    /\ IF sendbuf # <<>> THEN hsstate' = "WAIT_RFD" /\ UNCHANGED state
       ELSE state' = "END_CYCLE" /\ UNCHANGED hsstate
    /\ UNCHANGED <<mainVars, portA, sub, cmd, cmdrecvd, recvVars, sendbuf, work, taken, reply>>

\* Mutant: the command counts as received once more.
ForgetMutant == UNCHANGED cmdrecvd

Forget == cmdrecvd' = FALSE

EndCycle ==
    /\ state = "END_CYCLE"
    /\ state' = "RECV_CMD" /\ Forget
    /\ UNCHANGED <<mainVars, portA, sub, hsstate, cmd, recvVars, sendbuf, work, taken, reply>>

-----------------------------------------------------------------------------
(***************************************************************************)
(* subsys_exec_cmd, one operator for each command that changes something.  *)
(***************************************************************************)
Answers(s) == state' = "SEND_DATA" /\ sendbuf' = s /\ reply' = s

\* What follows the parameters is k bytes for b, the second part of the request.
Payload(b, k) ==
    /\ state' = "RECV_DATA" /\ started' = TRUE
    /\ recvbuf' = b /\ recvcnt' = k
    /\ sendbuf' = <<>>
    /\ UNCHANGED <<param, reply>>

Initialize ==
    /\ cmd = INITIALIZE /\ Answers(<<>>)
    /\ mode' = [d \in DOMAIN mode |-> 1]
    /\ UNCHANGED <<recvVars, buffer, n, count, status>>

\* The payload of 01H is sectors of 256 bytes, whatever the disk mode.
WriteData ==
    /\ cmd = WRITE_DATA
    /\ IF ~started /\ param[1] # 0 THEN Payload("data", Size[1] * param[1])
       ELSE Answers(<<>>) /\ UNCHANGED recvVars
    /\ UNCHANGED work

ReceiveMemory ==
    /\ cmd = RECEIVE_MEMORY
    /\ IF ~started THEN Payload("memory", 256 * param[3] + param[4])
       ELSE Answers(<<>>) /\ UNCHANGED recvVars
    /\ UNCHANGED work

\* The disk mode as a value of WORK_DISK_MODE gives N.
NOf(m) == m % 4

\* Mutant: the sectors of the last read count as well.
CountedMutant(m) == count + m

\* The sectors of this read.
Counted(m) == m

\* Mutant: every pass of the loop reads the first sector.
AdvancedMutant(sector, i) == sector

\* The sector of the i-th pass.
Advanced(sector, i) == sector + i

Config(drv) == n' = NOf(mode[drv])

\* The loop over the sectors ends after the m-th: because that was the last,
\* because the buffer is full, or because the next cannot be read.
ReadSectors(m, drv, track, sector, wanted) ==
    LET s == Size[n']
        full == m > 0 /\ m * s >= DataBuf
    IN  /\ m <= wanted /\ (m > 0 => (m - 1) * s < DataBuf)
        /\ count' = Counted(m)
        /\ buffer' = [i \in DOMAIN buffer |->
                         IF i > m * s THEN buffer[i]
                         ELSE OnDisk(drv, track, Advanced(sector, (i - 1) \div s), (i - 1) % s)]
        /\ status' = IF m = wanted /\ ~full THEN 64 ELSE 1

ReadData ==
    /\ cmd = READ_DATA /\ Answers(<<>>)
    /\ LET drv == param[2] IN
       \/ drv >= Drives /\ status' = 1 /\ UNCHANGED <<buffer, n, count>>
       \/ /\ drv < Drives /\ Config(drv)
          /\ \/ status' = 1 /\ UNCHANGED <<buffer, count>>             \* fdd_seek fails
             \/ \E m \in 0..param[1] : ReadSectors(m, drv, param[3], param[4], param[1])
    /\ UNCHANGED <<recvVars, mode>>

SendData ==
    /\ cmd = SEND_DATA /\ Answers(SubSeq(buffer, 1, Size[n] * count))
    /\ UNCHANGED <<recvVars, work>>

SendResultStatus ==
    /\ cmd = SEND_RESULT_STATUS /\ Answers(<<status>>)
    /\ UNCHANGED <<recvVars, work>>

SetDiskMode ==
    /\ cmd = SET_DISK_MODE /\ Answers(<<>>)
    /\ mode' = [d \in DOMAIN mode |-> IF d = param[1] THEN param[2] ELSE mode[d]]
    /\ UNCHANGED <<recvVars, buffer, n, count, status>>

SendDiskMode ==
    /\ cmd = SEND_DISK_MODE
    /\ Answers(<<IF param[1] < Drives THEN mode[param[1]] ELSE 255>>)
    /\ UNCHANGED <<recvVars, work>>

\* There is a disk in the drive or not.
DriveReadyCheck ==
    /\ cmd = DRIVE_READY_CHECK /\ \E r \in {0, 255} : Answers(<<r>>)
    /\ UNCHANGED <<recvVars, work>>

Sleep ==
    /\ cmd = SLEEP /\ Answers(<<0, 0>>)
    /\ UNCHANGED <<recvVars, work>>

\* 0DH, 0EH, 17H, 21H and 26H do nothing; so does a code that is none.
Nothing ==
    /\ cmd \notin {INITIALIZE, WRITE_DATA, READ_DATA, SEND_DATA, SEND_RESULT_STATUS,
                   RECEIVE_MEMORY, SET_DISK_MODE, SEND_DISK_MODE, DRIVE_READY_CHECK, SLEEP}
    /\ Answers(<<>>)
    /\ UNCHANGED <<recvVars, work>>

ExecCmd ==
    /\ state = "EXEC_CMD"
    /\ \/ Initialize \/ WriteData \/ ReadData \/ SendData \/ SendResultStatus
       \/ ReceiveMemory \/ SetDiskMode \/ SendDiskMode \/ DriveReadyCheck \/ Sleep \/ Nothing
    /\ UNCHANGED <<mainVars, portA, sub, hsstate, cmd, cmdrecvd, taken>>

Exec ==
    \/ WaitAtn \/ WaitCmd \/ WaitData \/ WaitDavReset \/ WaitRfd \/ WaitDac \/ WaitDacReset
    \/ CmdReceived \/ Idle \/ NextByte \/ DataReceived \/ SendNext \/ EndCycle \/ ExecCmd

\* subsys_exec has returned: the line it waits for is not there.
Waiting ==
    \/ hsstate = "WAIT_ATN" /\ "ATN" \notin main
    \/ hsstate \in {"WAIT_CMD", "WAIT_DATA"} /\ "DAV" \notin main
    \/ hsstate = "WAIT_DAV_RESET" /\ ~DavDropped
    \/ hsstate = "WAIT_RFD" /\ "RFD" \notin main
    \/ hsstate = "WAIT_DAC" /\ "DAC" \notin main
    \/ hsstate = "WAIT_DAC_RESET" /\ "DAC" \in main

-----------------------------------------------------------------------------
(***************************************************************************)
(* A program sends a command with the parameters and the bytes that the    *)
(* monitor's list of commands gives it (docs/bios/fdc_monitor.md).         *)
(***************************************************************************)
PayloadLength(c, ps) ==
    CASE c = WRITE_DATA -> Size[1] * ps[1]
      [] c = RECEIVE_MEMORY -> 256 * ps[3] + ps[4]
      [] OTHER -> 0

ASSUME FdsubsysAssumption ==
    /\ Drives \in Nat /\ DataBuf \in Nat /\ MaxCalls \in Nat
    /\ Size \in [0..3 -> Nat \ {0}]
    /\ \A r \in Requests :
          /\ r \in [cmd : Byte, params : Seq(Byte), payload : Seq(Byte)]
          /\ Len(r.params) = ParamLength(r.cmd)
          /\ Len(r.payload) = PayloadLength(r.cmd, r.params)

-----------------------------------------------------------------------------
(***************************************************************************)
(* The main CPU (guest code).  A write of a line, to 0FEH or 0FFH, keeps   *)
(* the other lines; what it reads at 0FCH and 0FEH is portA and sub.       *)
(***************************************************************************)
Lines(from, to, s) ==
    /\ mpc = from /\ Waiting
    /\ mpc' = to /\ main' = s
    /\ UNCHANGED subVars

\* The bytes of the answer that it goes on to read.
Expected ==
    CASE req.cmd = SEND_DATA -> Len(asked)
      [] req.cmd \in {SEND_RESULT_STATUS, SEND_DISK_MODE, DRIVE_READY_CHECK} -> 1
      [] req.cmd = SLEEP -> 2
      [] OTHER -> 0

\* It knows the disk modes, so it knows how much a 02H is about.
Call(r) ==
    /\ calls < MaxCalls /\ calls' = calls + 1
    /\ r.cmd = SEND_DATA => good
    /\ Lines("idle", "attn", {"ATN"})
    /\ req' = r /\ todo' = BytesOf(r) /\ got' = <<>>
    /\ asked' = IF r.cmd = READ_DATA /\ r.params[2] < Drives
                THEN Sectors(r.params[2], r.params[3], r.params[4], r.params[1],
                             Size[NOf(mode[r.params[2]])])
                ELSE IF r.cmd \in {READ_DATA, WRITE_DATA} THEN <<>> ELSE asked
    /\ good' = IF r.cmd \in {READ_DATA, WRITE_DATA} THEN FALSE ELSE good
    /\ UNCHANGED portB

ClearAtn ==
    /\ "RFD" \in sub /\ Lines("attn", "put", {})
    /\ UNCHANGED <<portB, req, todo, got, asked, good, calls>>

Put ==
    /\ "RFD" \in sub /\ Lines("put", "valid", main)
    /\ portB' = Head(todo)
    /\ todo' = Tail(todo)
    /\ UNCHANGED <<req, got, asked, good, calls>>

RaiseDav ==
    /\ Lines("valid", "dac", {"DAV"})
    /\ UNCHANGED <<portB, req, todo, got, asked, good, calls>>

DropDav ==
    /\ "DAC" \in sub /\ Lines("dac", "sent", {})
    /\ UNCHANGED <<portB, req, todo, got, asked, good, calls>>

After == IF todo # <<>> THEN "put" ELSE IF Len(got) < Expected THEN "ready" ELSE "idle"

Sent ==
    /\ "DAC" \notin sub /\ Lines("sent", After, main)
    /\ UNCHANGED <<portB, req, todo, got, asked, good, calls>>

RaiseRfd ==
    /\ Lines("ready", "dav", {"RFD"})
    /\ UNCHANGED <<portB, req, todo, got, asked, good, calls>>

Get ==
    /\ "DAV" \in sub /\ Lines("dav", "take", {})
    /\ UNCHANGED <<portB, req, todo, got, asked, good, calls>>

Take ==
    /\ Lines("take", "end", {"DAC"})
    /\ got' = Append(got, portA)
    /\ UNCHANGED <<portB, req, todo, asked, good, calls>>

DropDac ==
    /\ "DAV" \notin sub /\ Lines("end", After, {})
    /\ good' = (good \/ (req.cmd = SEND_RESULT_STATUS /\ got = <<64>> /\ asked # <<>>))
    /\ UNCHANGED <<portB, req, todo, got, asked, calls>>

Transport ==
    \/ ClearAtn \/ Put \/ RaiseDav \/ DropDav \/ Sent
    \/ RaiseRfd \/ Get \/ Take \/ DropDac

\* The machine is reset, fdsubsys_reset included.
Reset ==
    /\ Waiting
    /\ state' = "RECV_CMD" /\ hsstate' = "STOPPED" /\ cmdrecvd' = FALSE
    /\ sub' = {} /\ main' = {}
    /\ mpc' = "idle" /\ req' = NoRequest /\ todo' = <<>> /\ got' = <<>> /\ asked' = <<>> /\ good' = FALSE
    /\ taken' = BytesOf(NoRequest) /\ reply' = <<>>
    /\ UNCHANGED <<portA, portB, cmd, recvVars, sendbuf, work, calls>>

Next == Exec \/ Transport \/ Reset \/ \E r \in Requests : Call(r)

Spec == Init /\ [][Next]_vars

\* A port write runs the subsystem until it waits; the main CPU runs on.
FairSpec == Spec /\ WF_vars(Exec) /\ WF_vars(Transport)

-----------------------------------------------------------------------------
\* The handshake states that the loop of each state knows; in any other it
\* would not end.
Loop ==
    [RECV_CMD  |-> {"STOPPED", "WAIT_ATN", "WAIT_CMD", "WAIT_DAV_RESET"},
     RECV_DATA |-> {"STOPPED", "WAIT_DATA", "WAIT_DAV_RESET"},
     EXEC_CMD  |-> {"STOPPED"}, END_CYCLE |-> {"STOPPED"},
     SEND_DATA |-> {"STOPPED", "WAIT_RFD", "WAIT_DAC", "WAIT_DAC_RESET"}]

TypeOK ==
    /\ state \in DOMAIN Loop /\ hsstate \in Loop[state]
    /\ cmdrecvd \in BOOLEAN /\ (hsstate \in {"WAIT_ATN", "WAIT_CMD"} => ~cmdrecvd)
    /\ state # "RECV_CMD" => cmdrecvd
    /\ cmdrecvd /\ state = "RECV_CMD" => taken = <<cmd>>
    /\ {portA, portB, cmd, status} \subseteq Byte
    /\ main \subseteq {"ATN", "DAC", "RFD", "DAV"} /\ sub \subseteq {"DAC", "RFD", "DAV"}
    /\ {param, sendbuf, got, todo, taken, reply} \subseteq Seq(Byte)
    /\ buffer \in [1..DataBuf -> Byte] /\ mode \in [0..(Drives - 1) -> Byte]
    /\ n \in 0..3 /\ count \in Byte /\ recvcnt \in Nat
    /\ recvbuf \in {"param", "data", "memory"} /\ started \in BOOLEAN
    /\ mpc \in {"idle", "attn", "put", "valid", "dac", "sent", "ready", "dav", "take", "end"}
    /\ good \in BOOLEAN /\ calls \in 0..MaxCalls

\* Every byte is taken once and in order, on both ways: at most one is under
\* way, and when the main CPU is done the subsystem has all of the request, the
\* main CPU all of the answer, and the subsystem waits for the next command.
EachByteOnce ==
    /\ state = "SEND_DATA" =>
          got = SubSeq(reply, 1, Len(got)) /\ Len(reply) - Len(got) - Len(sendbuf) \in {0, 1}
    /\ mpc = "idle" /\ Waiting =>
          /\ taken = BytesOf(req) /\ got = reply
          /\ hsstate = "WAIT_ATN" /\ sub = {}

\* What the main CPU reads after the subsystem has called a read complete is
\* what is on the disk, all of it.
HonestRead == mpc = "idle" /\ req.cmd = SEND_DATA => got = asked

\* A request ends, if the main CPU does not stop the transport.
RequestEnds == mpc # "idle" ~> mpc = "idle"

\* fdsubsys.c:77 calls 2000H the size of the read/write buffer: when all sectors
\* of a read came from the disk and fit, the read is complete.
FitsIsRead ==
    [][cmd = READ_DATA /\ state = "EXEC_CMD" /\ buffer' # buffer /\ count' = param[1]
          /\ Size[n'] * count' <= DataBuf => status' = 64]_vars
=============================================================================
