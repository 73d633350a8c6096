--------------------------- MODULE FdsubsysProofs ---------------------------
(***************************************************************************)
(* Proofs about the mock of the disk subsystem.  The inductive invariant    *)
(* has a row for each place where the two sides of the handshake can be     *)
(* together (Control), and says for each of them where the bytes of the     *)
(* request are (Carried), what the subsystem has made of them (Parsed),     *)
(* where the bytes of the answer are (Answered) and what the last read left *)
(* (Reads).                                                                *)
(***************************************************************************)
EXTENDS Fdsubsys, SequenceTheorems, TLAPS

-----------------------------------------------------------------------------
(***************************************************************************)
(* Where the two sides can be together.  A row is a place of the main CPU  *)
(* with the lines it holds up, and of the subsystem with its own.          *)
(***************************************************************************)
Row(places, raised, st, hs, up) ==
    mpc \in places /\ main = raised /\ state = st /\ hsstate \in hs /\ sub = up

Calling ==
    \/ Row({"idle", "sent"}, {}, "RECV_CMD", {"STOPPED", "WAIT_ATN"}, {})
    \/ Row({"attn"}, {"ATN"}, "RECV_CMD", {"WAIT_ATN"}, {})
    \/ Row({"attn"}, {"ATN"}, "RECV_CMD", {"WAIT_CMD"}, {"RFD"})

Sending(st, hs) ==
    \/ Row({"put", "valid"}, {}, st, {hs}, {"RFD"})
    \/ Row({"dac"}, {"DAV"}, st, {hs}, {"RFD"})
    \/ Row({"dac"}, {"DAV"}, st, {"WAIT_DAV_RESET"}, {"DAC"})
    \/ Row({"sent"}, {}, st, {"WAIT_DAV_RESET"}, {"DAC"})

Receiving ==
    \/ Row({"sent"}, {}, "SEND_DATA", {"STOPPED", "WAIT_RFD"}, {})
    \/ Row({"ready"}, {}, "SEND_DATA", {"STOPPED", "WAIT_RFD", "WAIT_DAC_RESET"}, {})
    \/ Row({"dav"}, {"RFD"}, "SEND_DATA", {"WAIT_RFD"}, {})
    \/ Row({"dav"}, {"RFD"}, "SEND_DATA", {"WAIT_DAC"}, {"DAV"})
    \/ Row({"take"}, {}, "SEND_DATA", {"WAIT_DAC"}, {"DAV"})
    \/ Row({"end"}, {"DAC"}, "SEND_DATA", {"WAIT_DAC"}, {"DAV"})
    \/ Row({"end"}, {"DAC"}, "SEND_DATA", {"WAIT_DAC_RESET"}, {})
    \/ Row({"idle"}, {}, "SEND_DATA", {"STOPPED", "WAIT_DAC_RESET"}, {})

Control ==
    /\ \/ Calling
       \/ Sending("RECV_CMD", "WAIT_CMD") \/ Sending("RECV_DATA", "WAIT_DATA")
       \/ Row({"sent"}, {}, "RECV_DATA", {"STOPPED"}, {})
       \/ Row({"sent"}, {}, "RECV_DATA", {"WAIT_DATA"}, {"RFD"})
       \/ Row({"sent"}, {}, "EXEC_CMD", {"STOPPED"}, {})
       \/ Row({"idle", "sent"}, {}, "END_CYCLE", {"STOPPED"}, {})
       \/ Receiving
    /\ state # "RECV_CMD" => cmdrecvd
    /\ state = "RECV_CMD" /\ hsstate \in {"WAIT_ATN", "WAIT_CMD"} => ~cmdrecvd
    /\ hsstate = "WAIT_DAV_RESET" => cmdrecvd
    /\ mpc = "idle" /\ state = "RECV_CMD" => ~cmdrecvd

-----------------------------------------------------------------------------
(***************************************************************************)
(* The bytes of the request.                                               *)
(***************************************************************************)
\* The request has been served: it was executed and its answer is on the way.
Done ==
    \/ state \in {"SEND_DATA", "END_CYCLE"}
    \/ state = "RECV_CMD" /\ ~cmdrecvd /\ mpc \in {"sent", "idle"}

\* A byte of the main CPU is on port B and the subsystem has not taken it.
Held == mpc = "valid" \/ (mpc = "dac" /\ "DAC" \notin sub)

Carried ==
    /\ mpc \in {"attn", "put"} /\ ~cmdrecvd => todo = BytesOf(req)
    /\ Held /\ ~cmdrecvd => <<portB>> \o todo = BytesOf(req)
    /\ Held /\ cmdrecvd => Append(taken, portB) \o todo = BytesOf(req)
    /\ ~Held /\ (cmdrecvd \/ mpc \notin {"attn", "put"}) => taken \o todo = BytesOf(req)
    /\ mpc = "put" => todo # <<>>

\* What the subsystem has made of the bytes it has.
Parsed ==
    /\ cmdrecvd => cmd = req.cmd
    /\ cmdrecvd /\ state = "RECV_CMD" => taken = <<cmd>>
    /\ state \in {"RECV_DATA", "EXEC_CMD"} =>
          /\ Len(param) <= Len(req.params)
          /\ \A i \in 1..Len(param) : param[i] = req.params[i]
          /\ ~started =>
                /\ Len(param) + recvcnt = Len(req.params)
                /\ recvbuf = "param" /\ Len(taken) = 1 + Len(param)
          /\ started =>
                /\ Len(param) = Len(req.params)
                /\ recvbuf = (IF cmd = WRITE_DATA THEN "data" ELSE "memory")
                /\ cmd \in {WRITE_DATA, RECEIVE_MEMORY}
                /\ Len(taken) + recvcnt = Len(BytesOf(req))
    /\ hsstate = "WAIT_DATA" => recvcnt > 0
    /\ state = "EXEC_CMD" => recvcnt = 0

\* The byte on port A is part of the answer and the main CPU has not taken it.
Shown == "DAV" \in sub /\ mpc \in {"dav", "take"}

Answered ==
    /\ ~Done => got = <<>>
    /\ Done => todo = <<>> /\ Len(reply) = Expected
    /\ Done /\ state # "SEND_DATA" => got = reply
    /\ state = "SEND_DATA" /\ ~Shown => got \o sendbuf = reply
    /\ state = "SEND_DATA" /\ Shown => Append(got, portA) \o sendbuf = reply
    /\ state = "SEND_DATA" /\ mpc = "idle" => sendbuf = <<>>
    /\ mpc = "sent" => got = <<>>
    /\ mpc = "ready" \/ hsstate = "WAIT_RFD" => sendbuf # <<>>

-----------------------------------------------------------------------------
(***************************************************************************)
(* What a read leaves.                                                     *)
(***************************************************************************)
ReadOut == SubSeq(buffer, 1, Size[n] * count)

OfDrive(ps) ==
    IF ps[2] < Drives THEN Sectors(ps[2], ps[3], ps[4], ps[1], Size[NOf(mode[ps[2]])])
    ELSE <<>>

Reads ==
    /\ req.cmd = SEND_DATA => good
    /\ req.cmd = READ_DATA => ~good
    /\ req.cmd = WRITE_DATA => ~good /\ asked = <<>>
    /\ ~Done /\ req.cmd = READ_DATA => asked = OfDrive(req.params)
    /\ good => ReadOut = asked
    /\ status = 64 /\ asked # <<>> /\ (Done \/ req.cmd # READ_DATA) => ReadOut = asked
    /\ Done /\ req.cmd = SEND_RESULT_STATUS => reply = <<status>>
    /\ Done /\ req.cmd = SEND_DATA => reply = asked

\* What the variables hold, apart from where the two sides are.
Typed ==
    /\ cmdrecvd \in BOOLEAN
    /\ portA \in Byte /\ portB \in Byte /\ cmd \in Byte /\ status \in Byte
    /\ param \in Seq(Byte) /\ sendbuf \in Seq(Byte) /\ got \in Seq(Byte)
    /\ todo \in Seq(Byte) /\ taken \in Seq(Byte) /\ reply \in Seq(Byte)
    /\ asked \in Seq(Byte) /\ req \in Requests \cup {NoRequest}
    /\ buffer \in [1..DataBuf -> Byte] /\ mode \in [0..(Drives - 1) -> Byte]
    /\ n \in 0..3 /\ count \in Byte /\ recvcnt \in Nat
    /\ recvbuf \in {"param", "data", "memory"} /\ started \in BOOLEAN
    /\ good \in BOOLEAN /\ calls \in 0..MaxCalls

IInv == Typed /\ Control /\ Carried /\ Parsed /\ Answered /\ Reads

-----------------------------------------------------------------------------
(***************************************************************************)
(* Facts about sequences and requests.                                     *)
(***************************************************************************)
\* A byte goes from the head of one sequence to the end of the other.
LEMMA HeadMoves ==
    ASSUME NEW s \in Seq(Byte), NEW t \in Seq(Byte), t # <<>>
    PROVE  /\ Append(s, Head(t)) \o Tail(t) = s \o t
           /\ <<Head(t)>> \o Tail(t) = t
           /\ Head(t) \in Byte /\ Tail(t) \in Seq(Byte) /\ Len(Tail(t)) = Len(t) - 1
<1>1. Head(t) = t[1] /\ Head(t) \in Byte /\ Tail(t) \in Seq(Byte) /\ Len(Tail(t)) = Len(t) - 1
      /\ Len(t) > 0 /\ \A i \in 1..Len(Tail(t)) : Tail(t)[i] = t[i + 1]
  OBVIOUS
<1>2. Append(s, Head(t)) \o Tail(t) = s \o t
  <2> DEFINE u == Append(s, Head(t)) \o Tail(t)
             v == s \o t
  <2>1. u \in Seq(Byte) /\ v \in Seq(Byte) /\ Len(u) = Len(s) + Len(t) /\ Len(v) = Len(s) + Len(t)
    BY <1>1
  <2>2. ASSUME NEW i \in 1..Len(u) PROVE u[i] = v[i]
    BY <1>1, <2>1
  <2> QED BY <2>1, <2>2, SeqEqual
<1>3. <<Head(t)>> \o Tail(t) = t
  <2> DEFINE u == <<Head(t)>> \o Tail(t)
  <2>1. u \in Seq(Byte) /\ Len(u) = Len(t)
    BY <1>1
  <2>2. ASSUME NEW i \in 1..Len(u) PROVE u[i] = t[i]
    BY <1>1, <2>1
  <2> QED BY <2>1, <2>2, SeqEqual
<1> QED BY <1>1, <1>2, <1>3

\* The byte that was appended stands where it was.
LEMMA AppendedByte ==
    ASSUME NEW s \in Seq(Byte), NEW t \in Seq(Byte), NEW x \in Byte
    PROVE  /\ (Append(s, x) \o t)[Len(s) + 1] = x
           /\ Len(Append(s, x) \o t) = Len(s) + 1 + Len(t)
           /\ (<<x>> \o t)[1] = x
           /\ Append(s, x) \in Seq(Byte) /\ Len(Append(s, x)) = Len(s) + 1
OBVIOUS

LEMMA EmptyEnds ==
    ASSUME NEW s \in Seq(Byte)
    PROVE  s \o <<>> = s /\ <<>> \o s = s
OBVIOUS

LEMMA ThreeParts ==
    ASSUME NEW c \in Byte, NEW p \in Seq(Byte), NEW q \in Seq(Byte)
    PROVE  /\ <<c>> \o p \o q \in Seq(Byte) /\ <<c>> \o p \o q # <<>>
           /\ Len(<<c>> \o p \o q) = 1 + Len(p) + Len(q)
           /\ (<<c>> \o p \o q)[1] = c
           /\ \A i \in 1..Len(p) : (<<c>> \o p \o q)[1 + i] = p[i]
<1> DEFINE h == <<c>> \o p
<1>1. h \in Seq(Byte) /\ Len(h) = 1 + Len(p) /\ h[1] = c /\ \A i \in 1..Len(p) : h[1 + i] = p[i]
  OBVIOUS
<1>2. h \o q \in Seq(Byte) /\ Len(h \o q) = Len(h) + Len(q) /\ \A i \in 1..Len(h) : (h \o q)[i] = h[i]
  BY <1>1
<1>3. Len(p) \in Nat /\ Len(q) \in Nat
  OBVIOUS
<1> HIDE DEF h
<1>4. /\ h \o q \in Seq(Byte) /\ h \o q # <<>> /\ Len(h \o q) = 1 + Len(p) + Len(q) /\ (h \o q)[1] = c
      /\ \A i \in 1..Len(p) : (h \o q)[1 + i] = p[i]
  BY <1>1, <1>2, <1>3
<1> QED BY <1>4 DEF h

LEMMA RequestBytes ==
    ASSUME Typed
    PROVE  /\ req.cmd \in Byte /\ req.params \in Seq(Byte) /\ req.payload \in Seq(Byte)
           /\ Len(req.params) = ParamLength(req.cmd)
           /\ Len(req.payload) = PayloadLength(req.cmd, req.params)
           /\ BytesOf(req) \in Seq(Byte) /\ BytesOf(req) # <<>>
           /\ Len(req.params) < Len(BytesOf(req)) /\ Len(BytesOf(req)) \in Nat
           /\ Len(req.payload) = 0 => Len(BytesOf(req)) = 1 + Len(req.params)
           /\ Len(BytesOf(req)) = 1 + Len(req.params) + Len(req.payload)
           /\ BytesOf(req)[1] = req.cmd
           /\ \A i \in 1..Len(req.params) : BytesOf(req)[1 + i] = req.params[i]
<1>1. /\ req.cmd \in Byte /\ req.params \in Seq(Byte) /\ req.payload \in Seq(Byte)
      /\ Len(req.params) = ParamLength(req.cmd)
      /\ Len(req.payload) = PayloadLength(req.cmd, req.params)
  <2>1. CASE req \in Requests
    BY <2>1, FdsubsysAssumption DEF Typed
  <2>2. CASE req = NoRequest
    <3>1. req.cmd = 0 /\ req.params = <<>> /\ req.payload = <<>>
      BY <2>2 DEF NoRequest, INITIALIZE
    <3>2. ParamLength(0) = 0 /\ PayloadLength(0, <<>>) = 0
      BY DEF ParamLength, PayloadLength, WRITE_DATA, READ_DATA, RECEIVE_MEMORY, SET_DISK_MODE,
             SEND_DISK_MODE, DRIVE_READY_CHECK
    <3> QED BY <3>1, <3>2 DEF Byte
  <2> QED BY <2>1, <2>2 DEF Typed
<1> DEFINE c == req.cmd
           p == req.params
           q == req.payload
<1>2. c \in Byte /\ p \in Seq(Byte) /\ q \in Seq(Byte) /\ BytesOf(req) = <<c>> \o p \o q
  BY <1>1 DEF BytesOf
<1> HIDE DEF c, p, q
<1>3. /\ BytesOf(req) \in Seq(Byte) /\ BytesOf(req) # <<>> /\ Len(BytesOf(req)) = 1 + Len(p) + Len(q)
      /\ BytesOf(req)[1] = c /\ \A i \in 1..Len(p) : BytesOf(req)[1 + i] = p[i]
  BY <1>2, ThreeParts
<1>4. /\ Len(p) < Len(BytesOf(req)) /\ Len(BytesOf(req)) \in Nat
      /\ Len(q) = 0 => Len(BytesOf(req)) = 1 + Len(p)
  BY <1>2, <1>3
<1> QED BY <1>1, <1>3, <1>4 DEF c, p, q

-----------------------------------------------------------------------------
(***************************************************************************)
(* Where each step finds the two sides.                                    *)
(***************************************************************************)
LEMMA Where ==
    ASSUME Control
    PROVE  /\ WaitAtn => mpc = "attn" /\ main = {"ATN"} /\ sub = {} /\ ~cmdrecvd
           /\ WaitCmd => mpc = "dac" /\ main = {"DAV"} /\ sub = {"RFD"} /\ ~cmdrecvd
           /\ WaitData => mpc = "dac" /\ main = {"DAV"} /\ sub = {"RFD"} /\ cmdrecvd
           /\ WaitDavReset => mpc = "sent" /\ main = {} /\ sub = {"DAC"} /\ cmdrecvd /\ state \in {"RECV_CMD", "RECV_DATA"}
           /\ WaitRfd => mpc = "dav" /\ main = {"RFD"} /\ sub = {} /\ cmdrecvd
           /\ WaitDac => mpc = "end" /\ main = {"DAC"} /\ sub = {"DAV"} /\ cmdrecvd
           /\ WaitDacReset => mpc \in {"ready", "idle"} /\ main = {} /\ sub = {} /\ cmdrecvd
           /\ CmdReceived => mpc = "sent" /\ main = {} /\ sub = {}
           /\ Idle => mpc \in {"idle", "sent"} /\ main = {} /\ sub = {}
           /\ NextByte => mpc = "sent" /\ main = {} /\ sub = {} /\ cmdrecvd
           /\ DataReceived => mpc = "sent" /\ main = {} /\ sub = {} /\ cmdrecvd
           /\ SendNext => mpc \in {"sent", "ready", "idle"} /\ main = {} /\ sub = {} /\ cmdrecvd
           /\ EndCycle => mpc \in {"idle", "sent"} /\ main = {} /\ sub = {} /\ hsstate = "STOPPED" /\ cmdrecvd
           /\ ExecCmd => mpc = "sent" /\ main = {} /\ sub = {} /\ hsstate = "STOPPED" /\ cmdrecvd
           /\ (\E r \in Requests : Call(r)) => mpc = "idle" /\ main = {} /\ sub = {} /\ state = "RECV_CMD" /\ hsstate = "WAIT_ATN" /\ ~cmdrecvd
           /\ ClearAtn => mpc = "attn" /\ main = {"ATN"} /\ sub = {"RFD"} /\ state = "RECV_CMD" /\ hsstate = "WAIT_CMD" /\ ~cmdrecvd
           /\ Put => mpc = "put" /\ main = {} /\ sub = {"RFD"} /\ ((state = "RECV_CMD" /\ hsstate = "WAIT_CMD" /\ ~cmdrecvd) \/ (state = "RECV_DATA" /\ hsstate = "WAIT_DATA" /\ cmdrecvd))
           /\ RaiseDav => mpc = "valid" /\ main = {} /\ sub = {"RFD"} /\ ((state = "RECV_CMD" /\ hsstate = "WAIT_CMD" /\ ~cmdrecvd) \/ (state = "RECV_DATA" /\ hsstate = "WAIT_DATA" /\ cmdrecvd))
           /\ DropDav => mpc = "dac" /\ main = {"DAV"} /\ sub = {"DAC"} /\ state \in {"RECV_CMD", "RECV_DATA"} /\ hsstate = "WAIT_DAV_RESET" /\ cmdrecvd
           /\ Sent => mpc = "sent" /\ main = {} /\ ((state = "RECV_CMD" /\ hsstate = "WAIT_ATN" /\ sub = {} /\ ~cmdrecvd) \/ (state = "RECV_DATA" /\ hsstate = "WAIT_DATA" /\ sub = {"RFD"} /\ cmdrecvd) \/ (state = "SEND_DATA" /\ hsstate = "WAIT_RFD" /\ sub = {} /\ cmdrecvd))
           /\ RaiseRfd => mpc = "ready" /\ main = {} /\ sub = {} /\ state = "SEND_DATA" /\ hsstate = "WAIT_RFD" /\ cmdrecvd
           /\ Get => mpc = "dav" /\ main = {"RFD"} /\ sub = {"DAV"} /\ state = "SEND_DATA" /\ hsstate = "WAIT_DAC" /\ cmdrecvd
           /\ Take => mpc = "take" /\ main = {} /\ sub = {"DAV"} /\ state = "SEND_DATA" /\ hsstate = "WAIT_DAC" /\ cmdrecvd
           /\ DropDac => mpc = "end" /\ main = {"DAC"} /\ sub = {} /\ state = "SEND_DATA" /\ hsstate = "WAIT_DAC_RESET" /\ cmdrecvd
<1> USE DEF Control, Calling, Sending, Receiving, Row
<1>1. WaitAtn => mpc = "attn" /\ main = {"ATN"} /\ sub = {} /\ ~cmdrecvd
  BY DEF WaitAtn, At
<1>2. WaitCmd => mpc = "dac" /\ main = {"DAV"} /\ sub = {"RFD"} /\ ~cmdrecvd
  BY DEF WaitCmd, At, Accepts
<1>3. WaitData => mpc = "dac" /\ main = {"DAV"} /\ sub = {"RFD"} /\ cmdrecvd
  BY DEF WaitData, At, Accepts
<1>4. WaitDavReset => mpc = "sent" /\ main = {} /\ sub = {"DAC"} /\ cmdrecvd /\ state \in {"RECV_CMD", "RECV_DATA"}
  BY DEF WaitDavReset, DavDropped
<1>5. WaitRfd => mpc = "dav" /\ main = {"RFD"} /\ sub = {} /\ cmdrecvd
  BY DEF WaitRfd, At
<1>6. WaitDac => mpc = "end" /\ main = {"DAC"} /\ sub = {"DAV"} /\ cmdrecvd
  BY DEF WaitDac, At
<1>7. WaitDacReset => mpc \in {"ready", "idle"} /\ main = {} /\ sub = {} /\ cmdrecvd
  BY DEF WaitDacReset, At
<1>8. CmdReceived => mpc = "sent" /\ main = {} /\ sub = {}
  BY DEF CmdReceived, At
<1>9. Idle => mpc \in {"idle", "sent"} /\ main = {} /\ sub = {}
  BY DEF Idle, At
<1>10. NextByte => mpc = "sent" /\ main = {} /\ sub = {} /\ cmdrecvd
  BY DEF NextByte, At
<1>11. DataReceived => mpc = "sent" /\ main = {} /\ sub = {} /\ cmdrecvd
  BY DEF DataReceived, At
<1>12. SendNext => mpc \in {"sent", "ready", "idle"} /\ main = {} /\ sub = {} /\ cmdrecvd
  BY DEF SendNext, At
<1>13. EndCycle => mpc \in {"idle", "sent"} /\ main = {} /\ sub = {} /\ hsstate = "STOPPED" /\ cmdrecvd
  BY DEF EndCycle
<1>14. ExecCmd => mpc = "sent" /\ main = {} /\ sub = {} /\ hsstate = "STOPPED" /\ cmdrecvd
  BY DEF ExecCmd
<1>15. (\E r \in Requests : Call(r)) => mpc = "idle" /\ main = {} /\ sub = {} /\ state = "RECV_CMD" /\ hsstate = "WAIT_ATN" /\ ~cmdrecvd
  BY DEF Call, Lines, Waiting, DavDropped
<1>16. ClearAtn => mpc = "attn" /\ main = {"ATN"} /\ sub = {"RFD"} /\ state = "RECV_CMD" /\ hsstate = "WAIT_CMD" /\ ~cmdrecvd
  BY DEF ClearAtn, Lines, Waiting, DavDropped
<1>17. Put => mpc = "put" /\ main = {} /\ sub = {"RFD"} /\ ((state = "RECV_CMD" /\ hsstate = "WAIT_CMD" /\ ~cmdrecvd) \/ (state = "RECV_DATA" /\ hsstate = "WAIT_DATA" /\ cmdrecvd))
  BY DEF Put, Lines, Waiting, DavDropped
<1>18. RaiseDav => mpc = "valid" /\ main = {} /\ sub = {"RFD"} /\ ((state = "RECV_CMD" /\ hsstate = "WAIT_CMD" /\ ~cmdrecvd) \/ (state = "RECV_DATA" /\ hsstate = "WAIT_DATA" /\ cmdrecvd))
  BY DEF RaiseDav, Lines, Waiting, DavDropped
<1>19. DropDav => mpc = "dac" /\ main = {"DAV"} /\ sub = {"DAC"} /\ state \in {"RECV_CMD", "RECV_DATA"} /\ hsstate = "WAIT_DAV_RESET" /\ cmdrecvd
  BY DEF DropDav, Lines, Waiting, DavDropped
<1>20. Sent => mpc = "sent" /\ main = {} /\ ((state = "RECV_CMD" /\ hsstate = "WAIT_ATN" /\ sub = {} /\ ~cmdrecvd) \/ (state = "RECV_DATA" /\ hsstate = "WAIT_DATA" /\ sub = {"RFD"} /\ cmdrecvd) \/ (state = "SEND_DATA" /\ hsstate = "WAIT_RFD" /\ sub = {} /\ cmdrecvd))
  BY DEF Sent, Lines, Waiting, DavDropped
<1>21. RaiseRfd => mpc = "ready" /\ main = {} /\ sub = {} /\ state = "SEND_DATA" /\ hsstate = "WAIT_RFD" /\ cmdrecvd
  BY DEF RaiseRfd, Lines, Waiting, DavDropped
<1>22. Get => mpc = "dav" /\ main = {"RFD"} /\ sub = {"DAV"} /\ state = "SEND_DATA" /\ hsstate = "WAIT_DAC" /\ cmdrecvd
  BY DEF Get, Lines, Waiting, DavDropped
<1>23. Take => mpc = "take" /\ main = {} /\ sub = {"DAV"} /\ state = "SEND_DATA" /\ hsstate = "WAIT_DAC" /\ cmdrecvd
  BY DEF Take, Lines, Waiting, DavDropped
<1>24. DropDac => mpc = "end" /\ main = {"DAC"} /\ sub = {} /\ state = "SEND_DATA" /\ hsstate = "WAIT_DAC_RESET" /\ cmdrecvd
  BY DEF DropDac, Lines, Waiting, DavDropped
<1> QED BY <1>1, <1>2, <1>3, <1>4, <1>5, <1>6, <1>7, <1>8, <1>9, <1>10, <1>11, <1>12, <1>13, <1>14, <1>15, <1>16, <1>17, <1>18, <1>19, <1>20, <1>21, <1>22, <1>23, <1>24

-----------------------------------------------------------------------------
(***************************************************************************)
(* Facts that several steps need.                                          *)
(***************************************************************************)
LEMMA ParamLengthNat == \A c : ParamLength(c) \in Nat
BY DEF ParamLength

\* Nothing is left to send once the subsystem has as many bytes as there are.
LEMMA RestOfRequest ==
    ASSUME Typed, taken \o todo = BytesOf(req)
    PROVE  /\ Len(taken) < Len(BytesOf(req)) => todo # <<>>
           /\ Len(taken) = Len(BytesOf(req)) => todo = <<>>
<1>1. Len(taken \o todo) = Len(taken) + Len(todo) /\ Len(taken) \in Nat /\ Len(todo) \in Nat
      /\ (Len(todo) = 0 <=> todo = <<>>)
  BY DEF Typed
<1> QED BY <1>1

\* What is left to send of the answer.
LEMMA RestOfAnswer ==
    ASSUME Typed, got \o sendbuf = reply
    PROVE  /\ sendbuf = <<>> => got = reply
           /\ Len(got) < Len(reply) <=> sendbuf # <<>>
           /\ Len(got) \in Nat
<1>1. Len(got) + Len(sendbuf) = Len(reply) /\ Len(got) \in Nat /\ Len(sendbuf) \in Nat
  BY DEF Typed
<1>2. sendbuf = <<>> => got = reply
  BY EmptyEnds DEF Typed
<1>3. Len(sendbuf) = 0 <=> sendbuf = <<>>
  BY DEF Typed
<1> QED BY <1>1, <1>2, <1>3

\* Where the main CPU goes on after a byte.
LEMMA AfterSent ==
    ASSUME IInv, Sent
    PROVE  \/ /\ ~cmdrecvd /\ state = "RECV_CMD" /\ hsstate = "WAIT_ATN" /\ sub = {}
              /\ After = "idle"
           \/ /\ cmdrecvd /\ state = "RECV_DATA" /\ hsstate = "WAIT_DATA" /\ sub = {"RFD"}
              /\ After = "put" /\ todo # <<>>
           \/ /\ cmdrecvd /\ state = "SEND_DATA" /\ hsstate = "WAIT_RFD" /\ sub = {}
              /\ After = "ready"
<1> USE DEF IInv
<1>1. CASE state = "RECV_CMD"
  <2>1. Done /\ todo = <<>> /\ got = reply /\ Len(reply) = Expected
    BY <1>1, Where DEF Done, Answered
  <2> QED BY <1>1, <2>1, Where, RestOfAnswer DEF After, Typed
<1>2. CASE state = "RECV_DATA"
  <2>1. taken \o todo = BytesOf(req)
    BY <1>2, Where DEF Carried, Held
  <2>2. Len(taken) < Len(BytesOf(req))
    <3> DEFINE p == Len(req.params)
               m == Len(BytesOf(req))
    <3>1. p \in Nat /\ m \in Nat /\ p < m /\ Len(param) \in Nat /\ recvcnt \in Nat /\ Len(taken) \in Nat
      <4>1. Len(param) \in Nat /\ recvcnt \in Nat /\ Len(taken) \in Nat
        BY DEF Typed
      <4> QED BY <4>1, RequestBytes
    <3>2. /\ recvcnt > 0
          /\ \/ Len(param) + recvcnt = p /\ Len(taken) = 1 + Len(param)
             \/ Len(taken) + recvcnt = m
      BY <1>2, Where DEF Parsed, Typed
    <3> HIDE DEF p, m
    <3>3. Len(taken) < m
      BY <3>1, <3>2
    <3> QED BY <3>3 DEF m
  <2> QED BY <1>2, <2>1, <2>2, Where, RestOfRequest DEF After
<1>3. CASE state = "SEND_DATA"
  <2>1. todo = <<>> /\ got \o sendbuf = reply /\ Len(reply) = Expected /\ sendbuf # <<>>
    BY <1>3, Where DEF Done, Answered, Shown
  <2> QED BY <1>3, <2>1, Where, RestOfAnswer DEF After
<1> QED BY <1>1, <1>2, <1>3, Where

LEMMA AfterDropDac ==
    ASSUME IInv, DropDac
    PROVE  /\ Done /\ todo = <<>> /\ got \o sendbuf = reply /\ Len(reply) = Expected
           /\ IF sendbuf = <<>> THEN After = "idle" /\ got = reply ELSE After = "ready"
<1>1. Done /\ todo = <<>> /\ got \o sendbuf = reply /\ Len(reply) = Expected
  BY Where DEF IInv, Done, Answered, Shown
<1> QED BY <1>1, RestOfAnswer DEF After, IInv

-----------------------------------------------------------------------------
(***************************************************************************)
(* The steps of the handshake, each with what it leaves of the invariant.  *)
(***************************************************************************)
LEMMA WaitAtnKeeps ==
    ASSUME IInv, WaitAtn
    PROVE  IInv'
<1> USE DEF IInv, WaitAtn, mainVars, recvVars, work, At
<1>0. Typed /\ Control /\ Carried /\ Parsed /\ Answered /\ Reads
  BY DEF IInv
<1>1. Typed'
  BY Where DEF Typed
<1>2. Control'
  BY Where DEF Control, Calling, Sending, Receiving, Row
<1>3. Carried'
  BY Where DEF Carried, Held
<1>4. Parsed'
  BY Where DEF Parsed
<1>5. Answered'
  BY Where DEF Answered, Done, Shown, Expected
<1>6. Reads'
  BY Where DEF Reads, Done, ReadOut, OfDrive
<1> QED BY <1>1, <1>2, <1>3, <1>4, <1>5, <1>6

LEMMA WaitCmdKeeps ==
    ASSUME IInv, WaitCmd
    PROVE  IInv'
<1> USE DEF IInv, WaitCmd, mainVars, recvVars, work, At, Accepts
<1>0. Typed /\ Control /\ Carried /\ Parsed /\ Answered /\ Reads
  BY DEF IInv
<1>1. Typed'
  BY Where DEF Typed
<1>2. Control'
  BY Where DEF Control, Calling, Sending, Receiving, Row
<1>3. Carried'
  BY Where DEF Carried, Held
<1>4. Parsed'
  <2>1. <<portB>> \o todo = BytesOf(req)
    BY Where DEF Carried, Held
  <2>2. portB = req.cmd
    <3>1. (<<portB>> \o todo)[1] = portB
      BY DEF Typed
    <3> QED BY <2>1, <3>1, RequestBytes
  <2> QED BY <2>2, Where DEF Parsed
<1>5. Answered'
  BY Where DEF Answered, Done, Shown, Expected
<1>6. Reads'
  BY Where DEF Reads, Done, ReadOut, OfDrive
<1> QED BY <1>1, <1>2, <1>3, <1>4, <1>5, <1>6

LEMMA WaitDataKeeps ==
    ASSUME IInv, WaitData
    PROVE  IInv'
<1> USE DEF IInv, WaitData, mainVars, recvVars, work, At, Accepts
<1>0. Typed /\ Control /\ Carried /\ Parsed /\ Answered /\ Reads
  BY DEF IInv
<1>1. Typed'
  <2>1. recvcnt > 0
    BY DEF Parsed
  <2>2. recvcnt' \in Nat /\ taken' \in Seq(Byte) /\ param' \in Seq(Byte)
    BY <2>1 DEF Typed
  <2>3. buffer' \in [1..DataBuf -> Byte]
    BY DEF Typed
  <2> QED BY <2>2, <2>3 DEF Typed
<1>2. Control'
  BY Where DEF Control, Calling, Sending, Receiving, Row
<1>3. Carried'
  BY Where DEF Carried, Held
<1>4. Parsed'
  <2>1. Append(taken, portB) \o todo = BytesOf(req)
    BY Where DEF Carried, Held
  <2>2. portB = BytesOf(req)[Len(taken) + 1]
    <3>1. (Append(taken, portB) \o todo)[Len(taken) + 1] = portB
      BY AppendedByte DEF Typed
    <3> QED BY <2>1, <3>1
  <2>3. Len(taken') = Len(taken) + 1 /\ Len(taken) \in Nat /\ Len(param) \in Nat
        /\ Len(req.params) \in Nat /\ Len(req.payload) \in Nat /\ recvcnt \in Nat
    BY SMTT(40), RequestBytes DEF Typed
  <2>4. CASE ~started
    <3>1. Len(param) + recvcnt = Len(req.params) /\ recvbuf = "param"
          /\ Len(taken) = 1 + Len(param) /\ recvcnt > 0
      BY <2>4 DEF Parsed
    <3>2. portB = req.params[Len(param) + 1]
      <4>1. Len(param) + 1 \in 1..Len(req.params) /\ Len(taken) + 1 = 1 + (Len(param) + 1)
        BY <2>3, <3>1
      <4> DEFINE k == Len(param) + 1
      <4> HIDE DEF k
      <4>2. BytesOf(req)[1 + k] = req.params[k]
        BY <4>1, RequestBytes DEF k
      <4> QED BY <2>2, <4>1, <4>2 DEF k
    <3>3. param' = Append(param, portB) /\ Len(param') = Len(param) + 1
      BY <3>1 DEF Typed
    <3>4. \A i \in 1..Len(param') : param'[i] = req.params[i]
      <4>1. \A i \in 1..Len(param) : param[i] = req.params[i]
        BY DEF Parsed
      <4>2. param \in Seq(Byte) /\ UNCHANGED req
        BY DEF Typed
      <4> QED BY <3>2, <3>3, <4>1, <4>2
    <3>5. Len(param') + recvcnt' = Len(req.params) /\ Len(taken') = 1 + Len(param')
          /\ Len(param') <= Len(req.params)
      BY SMTT(40), <2>3, <3>1, <3>3
    <3> QED BY <2>4, <3>1, <3>4, <3>5, Where DEF Parsed
  <2>5. CASE started
    <3>1. Len(taken) + recvcnt = Len(BytesOf(req)) /\ recvbuf # "param"
      BY <2>5 DEF Parsed
    <3>2. Len(taken') + recvcnt' = Len(BytesOf(req))
      BY <2>3, <3>1
    <3>3. UNCHANGED <<param, recvbuf, started, cmd, cmdrecvd, req>>
      BY <3>1
    <3> QED BY <2>5, <3>2, <3>3, Where DEF Parsed
  <2> QED BY <2>4, <2>5 DEF Typed
<1>5. Answered'
  BY Where DEF Answered, Done, Shown, Expected
<1>6. Reads'
  <2>1. CASE recvbuf = "data"
    <3>1. req.cmd = WRITE_DATA
      BY <2>1, Where DEF Parsed, Typed
    <3> QED BY <3>1, Where DEF Reads, Done, WRITE_DATA, READ_DATA, SEND_DATA, SEND_RESULT_STATUS
  <2>2. CASE recvbuf # "data"
    BY <2>2, Where DEF Reads, Done, ReadOut, OfDrive
  <2> QED BY <2>1, <2>2
<1> QED BY <1>1, <1>2, <1>3, <1>4, <1>5, <1>6

LEMMA WaitDavResetKeeps ==
    ASSUME IInv, WaitDavReset
    PROVE  IInv'
<1> USE DEF IInv, WaitDavReset, mainVars, recvVars, work, DavDropped
<1>0. Typed /\ Control /\ Carried /\ Parsed /\ Answered /\ Reads
  BY DEF IInv
<1>1. Typed'
  BY Where DEF Typed
<1>2. Control'
  BY Where DEF Control, Calling, Sending, Receiving, Row
<1>3. Carried'
  BY Where DEF Carried, Held
<1>4. Parsed'
  BY Where DEF Parsed
<1>5. Answered'
  BY Where DEF Answered, Done, Shown, Expected
<1>6. Reads'
  BY Where DEF Reads, Done, ReadOut, OfDrive
<1> QED BY <1>1, <1>2, <1>3, <1>4, <1>5, <1>6

LEMMA WaitRfdKeeps ==
    ASSUME IInv, WaitRfd
    PROVE  IInv'
<1> USE DEF IInv, WaitRfd, mainVars, recvVars, work, At
<1>0. Typed /\ Control /\ Carried /\ Parsed /\ Answered /\ Reads
  BY DEF IInv
<1>1. Typed'
  <2>1. sendbuf # <<>>
    BY DEF Answered
  <2> QED BY <2>1, HeadMoves DEF Typed
<1>2. Control'
  BY Where DEF Control, Calling, Sending, Receiving, Row
<1>3. Carried'
  BY Where DEF Carried, Held
<1>4. Parsed'
  BY Where DEF Parsed
<1>5. Answered'
  <2>1. sendbuf # <<>>
    BY DEF Answered
  <2>2. Append(got, portA') \o sendbuf' = got \o sendbuf
    BY <2>1, HeadMoves DEF Typed
  <2> QED BY <2>2, Where DEF Answered, Done, Shown, Expected
<1>6. Reads'
  BY Where DEF Reads, Done, ReadOut, OfDrive
<1> QED BY <1>1, <1>2, <1>3, <1>4, <1>5, <1>6

LEMMA WaitDacKeeps ==
    ASSUME IInv, WaitDac
    PROVE  IInv'
<1> USE DEF IInv, WaitDac, mainVars, recvVars, work, At
<1>0. Typed /\ Control /\ Carried /\ Parsed /\ Answered /\ Reads
  BY DEF IInv
<1>1. Typed'
  BY Where DEF Typed
<1>2. Control'
  BY Where DEF Control, Calling, Sending, Receiving, Row
<1>3. Carried'
  BY Where DEF Carried, Held
<1>4. Parsed'
  BY Where DEF Parsed
<1>5. Answered'
  BY Where DEF Answered, Done, Shown, Expected
<1>6. Reads'
  BY Where DEF Reads, Done, ReadOut, OfDrive
<1> QED BY <1>1, <1>2, <1>3, <1>4, <1>5, <1>6

LEMMA WaitDacResetKeeps ==
    ASSUME IInv, WaitDacReset
    PROVE  IInv'
<1> USE DEF IInv, WaitDacReset, mainVars, recvVars, work, At
<1>0. Typed /\ Control /\ Carried /\ Parsed /\ Answered /\ Reads
  BY DEF IInv
<1>1. Typed'
  BY Where DEF Typed
<1>2. Control'
  BY Where DEF Control, Calling, Sending, Receiving, Row
<1>3. Carried'
  BY Where DEF Carried, Held
<1>4. Parsed'
  BY Where DEF Parsed
<1>5. Answered'
  BY Where DEF Answered, Done, Shown, Expected
<1>6. Reads'
  BY Where DEF Reads, Done, ReadOut, OfDrive
<1> QED BY <1>1, <1>2, <1>3, <1>4, <1>5, <1>6

LEMMA CmdReceivedKeeps ==
    ASSUME IInv, CmdReceived
    PROVE  IInv'
<1> USE DEF IInv, CmdReceived, mainVars, recvVars, work, At
<1>0. Typed /\ Control /\ Carried /\ Parsed /\ Answered /\ Reads
  BY DEF IInv
<1>1. Typed'
  <2>1. ParamLength(cmd) \in Nat
    BY ParamLengthNat
  <2>2. recvcnt' \in Nat
    BY <2>1
  <2>3. param' \in Seq(Byte)
    OBVIOUS
  <2> QED BY <2>2, <2>3 DEF Typed
<1>2. Control'
  BY Where DEF Control, Calling, Sending, Receiving, Row
<1>3. Carried'
  BY Where DEF Carried, Held
<1>4. Parsed'
  <2>1. cmd = req.cmd /\ taken = <<cmd>>
    BY DEF Parsed
  <2>2. Len(req.params) = ParamLength(cmd) /\ Len(req.params) \in Nat
    BY <2>1, RequestBytes
  <2> QED BY <2>1, <2>2, Where DEF Parsed
<1>5. Answered'
  BY Where DEF Answered, Done, Shown, Expected
<1>6. Reads'
  BY Where DEF Reads, Done, ReadOut, OfDrive
<1> QED BY <1>1, <1>2, <1>3, <1>4, <1>5, <1>6

LEMMA IdleKeeps ==
    ASSUME IInv, Idle
    PROVE  IInv'
<1> USE DEF IInv, Idle, mainVars, recvVars, work, At
<1>0. Typed /\ Control /\ Carried /\ Parsed /\ Answered /\ Reads
  BY DEF IInv
<1>1. Typed'
  BY Where DEF Typed
<1>2. Control'
  BY Where DEF Control, Calling, Sending, Receiving, Row
<1>3. Carried'
  BY Where DEF Carried, Held
<1>4. Parsed'
  BY Where DEF Parsed
<1>5. Answered'
  BY Where DEF Answered, Done, Shown, Expected
<1>6. Reads'
  BY Where DEF Reads, Done, ReadOut, OfDrive
<1> QED BY <1>1, <1>2, <1>3, <1>4, <1>5, <1>6

LEMMA NextByteKeeps ==
    ASSUME IInv, NextByte
    PROVE  IInv'
<1> USE DEF IInv, NextByte, mainVars, recvVars, work, At
<1>0. Typed /\ Control /\ Carried /\ Parsed /\ Answered /\ Reads
  BY DEF IInv
<1>1. Typed'
  BY Where DEF Typed
<1>2. Control'
  BY Where DEF Control, Calling, Sending, Receiving, Row
<1>3. Carried'
  BY Where DEF Carried, Held
<1>4. Parsed'
  BY Where DEF Parsed
<1>5. Answered'
  BY Where DEF Answered, Done, Shown, Expected
<1>6. Reads'
  BY Where DEF Reads, Done, ReadOut, OfDrive
<1> QED BY <1>1, <1>2, <1>3, <1>4, <1>5, <1>6

LEMMA DataReceivedKeeps ==
    ASSUME IInv, DataReceived
    PROVE  IInv'
<1> USE DEF IInv, DataReceived, mainVars, recvVars, work, At
<1>0. Typed /\ Control /\ Carried /\ Parsed /\ Answered /\ Reads
  BY DEF IInv
<1>1. Typed'
  BY Where DEF Typed
<1>2. Control'
  BY Where DEF Control, Calling, Sending, Receiving, Row
<1>3. Carried'
  BY Where DEF Carried, Held
<1>4. Parsed'
  BY Where DEF Parsed
<1>5. Answered'
  BY Where DEF Answered, Done, Shown, Expected
<1>6. Reads'
  BY Where DEF Reads, Done, ReadOut, OfDrive
<1> QED BY <1>1, <1>2, <1>3, <1>4, <1>5, <1>6

LEMMA SendNextKeeps ==
    ASSUME IInv, SendNext
    PROVE  IInv'
<1> USE DEF IInv, SendNext, mainVars, recvVars, work, At
<1>0. Typed /\ Control /\ Carried /\ Parsed /\ Answered /\ Reads
  BY DEF IInv
<1>1. Typed'
  BY Where DEF Typed
<1>2. Control'
  BY Where DEF Control, Calling, Sending, Receiving, Row, Answered
<1>3. Carried'
  BY Where DEF Carried, Held
<1>4. Parsed'
  BY Where DEF Parsed
<1>5. Answered'
  <2>1. got \o sendbuf = reply
    BY Where DEF Answered, Shown
  <2> QED BY <2>1, RestOfAnswer, Where DEF Answered, Done, Shown, Expected
<1>6. Reads'
  BY Where DEF Reads, Done, ReadOut, OfDrive
<1> QED BY <1>1, <1>2, <1>3, <1>4, <1>5, <1>6

LEMMA EndCycleKeeps ==
    ASSUME IInv, EndCycle
    PROVE  IInv'
<1> USE DEF IInv, EndCycle, mainVars, recvVars, work, Forget
<1>0. Typed /\ Control /\ Carried /\ Parsed /\ Answered /\ Reads
  BY DEF IInv
<1>1. Typed'
  BY Where DEF Typed
<1>2. Control'
  BY Where DEF Control, Calling, Sending, Receiving, Row
<1>3. Carried'
  BY Where DEF Carried, Held
<1>4. Parsed'
  BY Where DEF Parsed
<1>5. Answered'
  BY Where DEF Answered, Done, Shown, Expected
<1>6. Reads'
  BY Where DEF Reads, Done, ReadOut, OfDrive
<1> QED BY <1>1, <1>2, <1>3, <1>4, <1>5, <1>6

LEMMA ClearAtnKeeps ==
    ASSUME IInv, ClearAtn
    PROVE  IInv'
<1> USE DEF IInv, ClearAtn, Lines, subVars, recvVars, work
<1>0. Typed /\ Control /\ Carried /\ Parsed /\ Answered /\ Reads
  BY DEF IInv
<1>1. Typed'
  BY Where DEF Typed
<1>2. Control'
  BY Where DEF Control, Calling, Sending, Receiving, Row
<1>3. Carried'
  <2>1. todo # <<>>
    BY Where, RequestBytes DEF Carried
  <2> QED BY <2>1, Where DEF Carried, Held
<1>4. Parsed'
  BY Where DEF Parsed
<1>5. Answered'
  BY Where DEF Answered, Done, Shown, Expected
<1>6. Reads'
  BY Where DEF Reads, Done, ReadOut, OfDrive
<1> QED BY <1>1, <1>2, <1>3, <1>4, <1>5, <1>6

LEMMA PutKeeps ==
    ASSUME IInv, Put
    PROVE  IInv'
<1> USE DEF IInv, Put, Lines, subVars, recvVars, work
<1>0. Typed /\ Control /\ Carried /\ Parsed /\ Answered /\ Reads
  BY DEF IInv
<1>1. Typed'
  BY HeadMoves, Where DEF Typed, Carried
<1>2. Control'
  BY Where DEF Control, Calling, Sending, Receiving, Row
<1>3. Carried'
  <2>1. todo # <<>>
    BY Where DEF Carried
  <2>2. Append(taken, portB') \o todo' = taken \o todo /\ <<portB'>> \o todo' = todo
    BY <2>1, HeadMoves DEF Typed
  <2> QED BY <2>2, Where DEF Carried, Held
<1>4. Parsed'
  BY Where DEF Parsed
<1>5. Answered'
  BY Where DEF Answered, Done, Shown, Expected
<1>6. Reads'
  BY Where DEF Reads, Done, ReadOut, OfDrive
<1> QED BY <1>1, <1>2, <1>3, <1>4, <1>5, <1>6

LEMMA RaiseDavKeeps ==
    ASSUME IInv, RaiseDav
    PROVE  IInv'
<1> USE DEF IInv, RaiseDav, Lines, subVars, recvVars, work
<1>0. Typed /\ Control /\ Carried /\ Parsed /\ Answered /\ Reads
  BY DEF IInv
<1>1. Typed'
  BY Where DEF Typed
<1>2. Control'
  BY Where DEF Control, Calling, Sending, Receiving, Row
<1>3. Carried'
  BY Where DEF Carried, Held
<1>4. Parsed'
  BY Where DEF Parsed
<1>5. Answered'
  BY Where DEF Answered, Done, Shown, Expected
<1>6. Reads'
  BY Where DEF Reads, Done, ReadOut, OfDrive
<1> QED BY <1>1, <1>2, <1>3, <1>4, <1>5, <1>6

LEMMA DropDavKeeps ==
    ASSUME IInv, DropDav
    PROVE  IInv'
<1> USE DEF IInv, DropDav, Lines, subVars, recvVars, work
<1>0. Typed /\ Control /\ Carried /\ Parsed /\ Answered /\ Reads
  BY DEF IInv
<1>1. Typed'
  BY Where DEF Typed
<1>2. Control'
  BY Where DEF Control, Calling, Sending, Receiving, Row
<1>3. Carried'
  BY Where DEF Carried, Held
<1>4. Parsed'
  BY Where DEF Parsed
<1>5. Answered'
  BY Where DEF Answered, Done, Shown, Expected
<1>6. Reads'
  BY Where DEF Reads, Done, ReadOut, OfDrive
<1> QED BY <1>1, <1>2, <1>3, <1>4, <1>5, <1>6

LEMMA SentKeeps ==
    ASSUME IInv, Sent
    PROVE  IInv'
<1> USE DEF IInv, Sent, Lines, subVars, recvVars, work
<1>0. Typed /\ Control /\ Carried /\ Parsed /\ Answered /\ Reads
  BY DEF IInv
<1>1. Typed'
  BY Where DEF Typed
<1>2. Control'
  BY AfterSent, Where DEF Control, Calling, Sending, Receiving, Row
<1>3. Carried'
  BY AfterSent, Where DEF Carried, Held
<1>4. Parsed'
  BY Where DEF Parsed
<1>5. Answered'
  BY AfterSent, Where DEF Answered, Done, Shown, Expected
<1>6. Reads'
  BY AfterSent, Where DEF Reads, Done, ReadOut, OfDrive
<1> QED BY <1>1, <1>2, <1>3, <1>4, <1>5, <1>6

LEMMA RaiseRfdKeeps ==
    ASSUME IInv, RaiseRfd
    PROVE  IInv'
<1> USE DEF IInv, RaiseRfd, Lines, subVars, recvVars, work
<1>0. Typed /\ Control /\ Carried /\ Parsed /\ Answered /\ Reads
  BY DEF IInv
<1>1. Typed'
  BY Where DEF Typed
<1>2. Control'
  BY Where DEF Control, Calling, Sending, Receiving, Row
<1>3. Carried'
  BY Where DEF Carried, Held
<1>4. Parsed'
  BY Where DEF Parsed
<1>5. Answered'
  BY Where DEF Answered, Done, Shown, Expected
<1>6. Reads'
  BY Where DEF Reads, Done, ReadOut, OfDrive
<1> QED BY <1>1, <1>2, <1>3, <1>4, <1>5, <1>6

LEMMA GetKeeps ==
    ASSUME IInv, Get
    PROVE  IInv'
<1> USE DEF IInv, Get, Lines, subVars, recvVars, work
<1>0. Typed /\ Control /\ Carried /\ Parsed /\ Answered /\ Reads
  BY DEF IInv
<1>1. Typed'
  BY Where DEF Typed
<1>2. Control'
  BY Where DEF Control, Calling, Sending, Receiving, Row
<1>3. Carried'
  BY Where DEF Carried, Held
<1>4. Parsed'
  BY Where DEF Parsed
<1>5. Answered'
  BY Where DEF Answered, Done, Shown, Expected
<1>6. Reads'
  BY Where DEF Reads, Done, ReadOut, OfDrive
<1> QED BY <1>1, <1>2, <1>3, <1>4, <1>5, <1>6

LEMMA TakeKeeps ==
    ASSUME IInv, Take
    PROVE  IInv'
<1> USE DEF IInv, Take, Lines, subVars, recvVars, work
<1>0. Typed /\ Control /\ Carried /\ Parsed /\ Answered /\ Reads
  BY DEF IInv
<1>1. Typed'
  BY Where DEF Typed
<1>2. Control'
  BY Where DEF Control, Calling, Sending, Receiving, Row
<1>3. Carried'
  BY Where DEF Carried, Held
<1>4. Parsed'
  BY Where DEF Parsed
<1>5. Answered'
  BY Where DEF Answered, Done, Shown, Expected
<1>6. Reads'
  BY Where DEF Reads, Done, ReadOut, OfDrive
<1> QED BY <1>1, <1>2, <1>3, <1>4, <1>5, <1>6

LEMMA DropDacKeeps ==
    ASSUME IInv, DropDac
    PROVE  IInv'
<1> USE DEF IInv, DropDac, Lines, subVars, recvVars, work
<1>0. Typed /\ Control /\ Carried /\ Parsed /\ Answered /\ Reads
  BY DEF IInv
<1>1. Typed'
  BY Where DEF Typed
<1>2. Control'
  BY AfterDropDac, Where DEF Control, Calling, Sending, Receiving, Row
<1>3. Carried'
  BY AfterDropDac, Where DEF Carried, Held
<1>4. Parsed'
  BY Where DEF Parsed
<1>5. Answered'
  BY AfterDropDac, Where DEF Answered, Done, Shown, Expected
<1>6. Reads'
  <2>1. Done /\ got \o sendbuf = reply
    BY AfterDropDac
  <2>2. ASSUME req.cmd = SEND_RESULT_STATUS, got = << 64 >> PROVE status = 64
    <3>1. reply = <<status>>
      BY <2>1, <2>2 DEF Reads
    <3>2. got[1] = 64 /\ (got \o sendbuf)[1] = got[1]
      BY <2>2 DEF Typed
    <3> QED BY <2>1, <3>1, <3>2
  <2>3. good' => ReadOut = asked
    BY <2>1, <2>2 DEF Reads
  <2>4. (req.cmd \in {READ_DATA, WRITE_DATA} => ~good') /\ (req.cmd = SEND_DATA => good')
    <3>1. SEND_RESULT_STATUS \notin {READ_DATA, WRITE_DATA}
      BY DEF SEND_RESULT_STATUS, READ_DATA, WRITE_DATA
    <3>2. good' = (good \/ (req.cmd = SEND_RESULT_STATUS /\ got = << 64 >> /\ asked # <<>>))
      OBVIOUS
    <3> QED BY <3>1, <3>2, Zenon DEF Reads
  <2>5. Done' = Done /\ ReadOut' = ReadOut
    BY <2>1, Where DEF Done, ReadOut
  <2> QED BY <2>1, <2>3, <2>4, <2>5, Where DEF Reads
<1> QED BY <1>1, <1>2, <1>3, <1>4, <1>5, <1>6

-----------------------------------------------------------------------------
(***************************************************************************)
(* Bytes on the disk.                                                      *)
(***************************************************************************)
LEMMA OnDiskIsByte ==
    ASSUME NEW drv \in Nat, NEW track \in Nat, NEW sector \in Nat, NEW i \in Nat \ {0},
           NEW s \in Nat \ {0}
    PROVE  OnDisk(drv, track, sector + (i - 1) \div s, (i - 1) % s) \in Byte
<1>1. (i - 1) \div s \in Nat /\ (i - 1) % s \in Nat
  OBVIOUS
<1>2. ASSUME NEW x \in Nat, NEW k \in Nat PROVE OnDisk(drv, track, x, k) \in Byte
  BY DEF OnDisk, Byte
<1> QED BY <1>1, <1>2

\* The first k bytes from a sector on.
BytesFrom(drv, track, sector, k, s) ==
    [i \in 1..k |-> OnDisk(drv, track, sector + (i - 1) \div s, (i - 1) % s)]

LEMMA SectorsAreBytes ==
    ASSUME NEW drv \in Nat, NEW track \in Nat, NEW sector \in Nat, NEW k \in Nat,
           NEW s \in Nat \ {0}
    PROVE  BytesFrom(drv, track, sector, k, s) \in Seq(Byte)
<1> DEFINE Place(i) == OnDisk(drv, track, sector + (i - 1) \div s, (i - 1) % s)
<1>1. \A i \in 1..k : Place(i) \in Byte
  <2>1. \A i \in 1..k : i \in Nat \ {0}
    OBVIOUS
  <2> QED BY <2>1, OnDiskIsByte
<1> HIDE DEF Place
<1>2. [i \in 1..k |-> Place(i)] \in Seq(Byte)
  BY <1>1
<1> QED BY <1>2 DEF BytesFrom, Place

\* A buffer that begins with the bytes of a reads as a.
LEMMA BeginsWith ==
    ASSUME NEW b \in [1..DataBuf -> Byte], NEW a \in Seq(Byte), Len(a) <= DataBuf,
           \A i \in 1..Len(a) : b[i] = a[i]
    PROVE  SubSeq(b, 1, Len(a)) = a
<1>1. DataBuf \in Nat /\ Len(a) \in Nat
  BY FdsubsysAssumption
<1>2. b \in Seq(Byte) /\ Len(b) = DataBuf
  BY <1>1
<1> DEFINE t == SubSeq(b, 1, Len(a))
<1>3. t \in Seq(Byte) /\ Len(t) = Len(a) /\ \A i \in 1..Len(a) : t[i] = b[i]
  BY <1>1, <1>2
<1> HIDE DEF t
<1>4. t = a
  BY <1>3, SeqEqual
<1> QED BY <1>4 DEF t

FirstOf(b, k) == SubSeq(b, 1, k)

Filled(b, drv, track, sector, k, s) ==
    \A i \in 1..DataBuf : i <= k =>
        b[i] = OnDisk(drv, track, sector + (i - 1) \div s, (i - 1) % s)

\* So a read of sectors that fits is read out as those sectors.
LEMMA FilledIsRead ==
    ASSUME NEW drv \in Nat, NEW track \in Nat, NEW sector \in Nat, NEW k \in Nat,
           NEW s \in Nat \ {0}, k <= DataBuf, NEW b \in [1..DataBuf -> Byte],
           Filled(b, drv, track, sector, k, s)
    PROVE  FirstOf(b, k) = BytesFrom(drv, track, sector, k, s)
<1> DEFINE a == BytesFrom(drv, track, sector, k, s)
<1>1. DataBuf \in Nat
  BY FdsubsysAssumption
<1>2. a \in Seq(Byte)
  BY SectorsAreBytes
<1>3. Len(a) = k /\ \A i \in 1..k : a[i] = OnDisk(drv, track, sector + (i - 1) \div s, (i - 1) % s)
  BY DEF BytesFrom
<1>4. \A i \in 1..k : b[i] = a[i]
  <2>1. \A i \in 1..k : i \in 1..DataBuf /\ i <= k
    BY <1>1
  <2> QED BY <2>1, <1>3 DEF Filled
<1> HIDE DEF a
<1>5. SubSeq(b, 1, k) = a
  BY <1>2, <1>3, <1>4, BeginsWith
<1> QED BY <1>5 DEF a, FirstOf

-----------------------------------------------------------------------------
(***************************************************************************)
(* subsys_exec_cmd.                                                        *)
(***************************************************************************)
ExecFrame == UNCHANGED <<mainVars, portA, sub, hsstate, cmd, cmdrecvd, taken>>

\* What a command starts from: its own parameters, and nothing left to send if
\* it takes no payload or has it.
LEMMA Executing ==
    ASSUME IInv, state = "EXEC_CMD"
    PROVE  /\ mpc = "sent" /\ main = {} /\ sub = {} /\ hsstate = "STOPPED" /\ cmdrecvd
           /\ ~Done /\ ~Held /\ cmd = req.cmd /\ param = req.params /\ got = <<>> /\ recvcnt = 0
           /\ taken \o todo = BytesOf(req)
           /\ ~started => Len(taken) = 1 + Len(req.params)
           /\ started => cmd \in {WRITE_DATA, RECEIVE_MEMORY}
           /\ started \/ PayloadLength(cmd, param) = 0 => todo = <<>>
<1> USE DEF IInv
<1>1. mpc = "sent" /\ main = {} /\ sub = {} /\ hsstate = "STOPPED" /\ cmdrecvd
  BY DEF Control, Calling, Sending, Receiving, Row
<1>2. ~Done /\ ~Held /\ got = <<>>
  BY <1>1 DEF Done, Held, Answered
<1>3. cmd = req.cmd /\ recvcnt = 0 /\ taken \o todo = BytesOf(req)
  BY <1>1, <1>2 DEF Parsed, Carried
<1>4. Len(param) = Len(req.params)
  <2>1. Len(param) \in Nat /\ Len(req.params) \in Nat
    BY RequestBytes DEF Typed
  <2> QED BY <1>3, <2>1 DEF Parsed
<1>5. param = req.params
  <2>1. param \in Seq(Byte) /\ req.params \in Seq(Byte)
    BY RequestBytes DEF Typed
  <2>2. \A i \in 1..Len(param) : param[i] = req.params[i]
    BY DEF Parsed
  <2> HIDE DEF IInv
  <2> QED BY <1>4, <2>1, <2>2, SeqEqual
<1>6. /\ ~started => Len(taken) = 1 + Len(req.params)
      /\ started => cmd \in {WRITE_DATA, RECEIVE_MEMORY} /\ Len(taken) + recvcnt = Len(BytesOf(req))
  BY <1>4 DEF Parsed
<1>7. Len(taken) \in Nat /\ Len(BytesOf(req)) \in Nat
  BY RequestBytes DEF Typed
<1>8. CASE started
  <2>1. Len(taken) = Len(BytesOf(req))
    BY <1>3, <1>6, <1>7, <1>8
  <2> QED BY <1>1, <1>2, <1>3, <1>5, <1>6, <1>8, <2>1, RestOfRequest
<1>9. CASE ~started
  <2>1. ASSUME PayloadLength(cmd, param) = 0 PROVE Len(taken) = Len(BytesOf(req))
    <3>1. Len(req.payload) = 0
      BY <1>3, <1>5, <2>1, RequestBytes
    <3> QED BY <1>6, <1>9, <3>1, RequestBytes
  <2> QED BY <1>1, <1>2, <1>3, <1>5, <1>6, <1>9, <2>1, RestOfRequest
<1> QED BY <1>8, <1>9

\* The answer is a sequence of bytes of the length that the main CPU expects,
\* and a read leaves what it says it does.
LEMMA AnswersKeeps ==
    ASSUME IInv, state = "EXEC_CMD", ExecFrame, UNCHANGED recvVars,
           NEW s \in Seq(Byte), Answers(s), Len(s) = Expected,
           started \/ PayloadLength(cmd, param) = 0,
           buffer' \in [1..DataBuf -> Byte], mode' \in [0..(Drives - 1) -> Byte],
           n' \in 0..3, count' \in Byte, status' \in Byte,
           good => ReadOut' = asked,
           status' = 64 /\ asked # <<>> => ReadOut' = asked,
           cmd = SEND_RESULT_STATUS => s = <<status'>>,
           cmd = SEND_DATA => s = asked
    PROVE  IInv'
<1> USE DEF ExecFrame, mainVars, recvVars, Answers
<1>0. Typed /\ Control /\ Carried /\ Parsed /\ Answered /\ Reads
  BY DEF IInv
<1>1. Typed'
  BY <1>0 DEF Typed
<1>2. Control'
  BY Executing DEF Control, Calling, Sending, Receiving, Row
<1>3. Carried'
  BY Executing DEF Carried, Held
<1>4. Parsed'
  BY <1>0, Executing DEF Parsed
<1>5. Answered'
  <2>1. <<>> \o s = s
    BY EmptyEnds
  <2> QED BY <1>0, <2>1, Executing DEF Answered, Done, Shown, Expected
<1>6. Reads'
  BY <1>0, Executing DEF Reads, Done, ReadOut, OfDrive
<1> QED BY <1>1, <1>2, <1>3, <1>4, <1>5, <1>6 DEF IInv

\* The second part of the request follows.
LEMMA PayloadKeeps ==
    ASSUME IInv, state = "EXEC_CMD", ExecFrame, ~started, UNCHANGED work,
           cmd \in {WRITE_DATA, RECEIVE_MEMORY},
           Payload(IF cmd = WRITE_DATA THEN "data" ELSE "memory", PayloadLength(cmd, param))
    PROVE  IInv'
<1> USE DEF ExecFrame, mainVars, work, Payload
<1>0. Typed /\ Control /\ Carried /\ Parsed /\ Answered /\ Reads
  BY DEF IInv
<1>9. /\ PayloadLength(cmd, param) = Len(req.payload) /\ Len(req.payload) \in Nat
      /\ Len(taken) + Len(req.payload) = Len(BytesOf(req))
  <2>1. PayloadLength(cmd, param) = Len(req.payload) /\ Len(req.payload) \in Nat
    BY <1>0, Executing, RequestBytes
  <2>2. Len(taken) = 1 + Len(req.params)
    BY Executing
  <2> QED BY <1>0, <2>1, <2>2, RequestBytes
<1>1. Typed'
  BY SMTT(40), <1>0, <1>9 DEF Typed
<1>2. Control'
  BY Executing DEF Control, Calling, Sending, Receiving, Row
<1>3. Carried'
  BY Executing DEF Carried, Held
<1>4. Parsed'
  BY <1>0, <1>9, Executing DEF Parsed
<1>5. Answered'
  BY <1>0, Executing DEF Answered, Done, Shown, Expected
<1>6. Reads'
  BY <1>0, Executing DEF Reads, Done, ReadOut, OfDrive, WRITE_DATA, RECEIVE_MEMORY, READ_DATA, SEND_DATA
<1> QED BY <1>1, <1>2, <1>3, <1>4, <1>5, <1>6 DEF IInv

-----------------------------------------------------------------------------
(***************************************************************************)
(* The commands.                                                           *)
(***************************************************************************)
Codes == {INITIALIZE, WRITE_DATA, READ_DATA, SEND_DATA, SEND_RESULT_STATUS, RECEIVE_MEMORY,
          SET_DISK_MODE, SEND_DISK_MODE, DRIVE_READY_CHECK, SLEEP}

\* The codes are different, so each command has its own parameters, payload and
\* answer.
LEMMA CodesDiffer ==
    /\ Codes = {0, 1, 2, 3, 6, 12, 31, 32, 35, 37}
    /\ INITIALIZE = 0 /\ WRITE_DATA = 1 /\ READ_DATA = 2 /\ SEND_DATA = 3
    /\ SEND_RESULT_STATUS = 6 /\ RECEIVE_MEMORY = 12 /\ SET_DISK_MODE = 31
    /\ SEND_DISK_MODE = 32 /\ DRIVE_READY_CHECK = 35 /\ SLEEP = 37
BY DEF Codes, INITIALIZE, WRITE_DATA, READ_DATA, SEND_DATA, SEND_RESULT_STATUS, RECEIVE_MEMORY, SET_DISK_MODE, SEND_DISK_MODE, DRIVE_READY_CHECK, SLEEP

LEMMA LengthsOf ==
    ASSUME IInv, state = "EXEC_CMD"
    PROVE  /\ cmd = SEND_DATA => Expected = Len(asked)
           /\ cmd \in {SEND_RESULT_STATUS, SEND_DISK_MODE, DRIVE_READY_CHECK} => Expected = 1
           /\ cmd = SLEEP => Expected = 2
           /\ cmd \in {INITIALIZE, WRITE_DATA, READ_DATA, RECEIVE_MEMORY, SET_DISK_MODE}
                  \/ cmd \notin Codes => Expected = 0
           /\ cmd \notin {WRITE_DATA, RECEIVE_MEMORY} => PayloadLength(cmd, param) = 0
<1>1. cmd = req.cmd
  BY Executing
<1> QED BY <1>1, CodesDiffer DEF Expected, PayloadLength

\* The parameters are bytes, as many as the command has.
LEMMA ParamsOf ==
    ASSUME IInv, state = "EXEC_CMD"
    PROVE  /\ param \in Seq(Byte)
           /\ cmd \in {WRITE_DATA, READ_DATA, RECEIVE_MEMORY} => Len(param) = 4
           /\ cmd = SET_DISK_MODE => Len(param) = 2
           /\ cmd = SEND_DISK_MODE => Len(param) = 1
<1>1. cmd = req.cmd /\ param = req.params
  BY Executing
<1>2. Len(req.params) = ParamLength(req.cmd) /\ req.params \in Seq(Byte)
  BY RequestBytes DEF IInv
<1> QED BY <1>1, <1>2, CodesDiffer DEF ParamLength

\* What a command that reads nothing leaves.
LEMMA NothingRead ==
    ASSUME IInv, state = "EXEC_CMD", UNCHANGED <<buffer, n, count>>, 
           UNCHANGED status \/ status' = 1, status' = 1 \/ cmd # READ_DATA
    PROVE  /\ good => ReadOut' = asked
           /\ status' = 64 /\ asked # <<>> => ReadOut' = asked
<1>1. cmd = req.cmd
  BY Executing
<1>2. ReadOut' = ReadOut
  BY DEF ReadOut
<1> QED BY <1>1, <1>2 DEF IInv, Reads

LEMMA DriveIndex ==
    ASSUME NEW d \in Byte, d < Drives
    PROVE  d \in 0..(Drives - 1)
BY FdsubsysAssumption DEF Byte

LEMMA WorkTypes ==
    ASSUME IInv, UNCHANGED work
    PROVE  /\ buffer' \in [1..DataBuf -> Byte] /\ mode' \in [0..(Drives - 1) -> Byte]
           /\ n' \in 0..3 /\ count' \in Byte /\ status' \in Byte
BY DEF IInv, Typed, work

LEMMA InitializeKeeps ==
    ASSUME IInv, state = "EXEC_CMD", ExecFrame, Initialize
    PROVE  IInv'
<1>1. mode' \in [0..(Drives - 1) -> Byte]
  BY DEF Initialize, IInv, Typed, Byte
<1>2. <<>> \in Seq(Byte) /\ Len(<<>>) = Expected /\ PayloadLength(cmd, param) = 0
  BY LengthsOf, CodesDiffer DEF Initialize
<1>3. /\ good => ReadOut' = asked
      /\ status' = 64 /\ asked # <<>> => ReadOut' = asked
  BY NothingRead, CodesDiffer DEF Initialize
<1>4. cmd \notin {SEND_RESULT_STATUS, SEND_DATA}
  BY CodesDiffer DEF Initialize
<1>5. buffer' \in [1..DataBuf -> Byte] /\ n' \in 0..3 /\ count' \in Byte /\ status' \in Byte
  BY DEF Initialize, IInv, Typed
<1>6. UNCHANGED recvVars /\ Answers(<<>>)
  BY DEF Initialize
<1> QED BY <1>1, <1>2, <1>3, <1>4, <1>5, <1>6, AnswersKeeps

LEMMA WriteDataKeeps ==
    ASSUME IInv, state = "EXEC_CMD", ExecFrame, WriteData
    PROVE  IInv'
<1>1. CASE ~started /\ param[1] # 0
  <2>1. PayloadLength(cmd, param) = Size[1] * param[1]
    BY CodesDiffer DEF WriteData, PayloadLength
  <2>2. Payload("data", PayloadLength(cmd, param)) /\ UNCHANGED work
    BY <1>1, <2>1 DEF WriteData
  <2> QED BY <1>1, <2>2, PayloadKeeps DEF WriteData
<1>2. CASE started \/ param[1] = 0
  <2>1. started \/ PayloadLength(cmd, param) = 0
    <3>1. PayloadLength(cmd, param) = Size[1] * param[1]
      BY CodesDiffer DEF WriteData, PayloadLength
    <3>2. Size[1] * 0 = 0
      BY FdsubsysAssumption
    <3> QED BY <1>2, <3>1, <3>2
  <2>2. <<>> \in Seq(Byte) /\ Len(<<>>) = Expected
    BY LengthsOf DEF WriteData
  <2>3. Answers(<<>>) /\ UNCHANGED recvVars /\ UNCHANGED work
    BY <1>2 DEF WriteData
  <2>4. /\ good => ReadOut' = asked
        /\ status' = 64 /\ asked # <<>> => ReadOut' = asked
    BY <2>3, NothingRead, CodesDiffer DEF WriteData, work
  <2>5. cmd \notin {SEND_RESULT_STATUS, SEND_DATA}
    BY CodesDiffer DEF WriteData
  <2> QED BY <2>1, <2>2, <2>3, <2>4, <2>5, WorkTypes, AnswersKeeps
<1> QED BY <1>1, <1>2

LEMMA ReceiveMemoryKeeps ==
    ASSUME IInv, state = "EXEC_CMD", ExecFrame, ReceiveMemory
    PROVE  IInv'
<1>1. CASE ~started
  <2>1. Payload("memory", PayloadLength(cmd, param)) /\ UNCHANGED work /\ cmd # WRITE_DATA
    BY <1>1, CodesDiffer DEF ReceiveMemory, PayloadLength
  <2> QED BY <1>1, <2>1, PayloadKeeps DEF ReceiveMemory
<1>2. CASE started
  <2>2. <<>> \in Seq(Byte) /\ Len(<<>>) = Expected
    BY LengthsOf DEF ReceiveMemory
  <2>3. Answers(<<>>) /\ UNCHANGED recvVars /\ UNCHANGED work
    BY <1>2 DEF ReceiveMemory
  <2>4. /\ good => ReadOut' = asked
        /\ status' = 64 /\ asked # <<>> => ReadOut' = asked
    BY <2>3, NothingRead, CodesDiffer DEF ReceiveMemory, work
  <2>5. cmd \notin {SEND_RESULT_STATUS, SEND_DATA}
    BY CodesDiffer DEF ReceiveMemory
  <2> QED BY <1>2, <2>2, <2>3, <2>4, <2>5, WorkTypes, AnswersKeeps
<1> QED BY <1>1, <1>2

\* A read that says it is complete has left in the buffer what is on the disk.
LEMMA ReadDataKeeps ==
    ASSUME IInv, state = "EXEC_CMD", ExecFrame, ReadData
    PROVE  IInv'
<1> DEFINE drv == param[2]
           track == param[3]
           sector == param[4]
           s == Size[n']
<1>0. Typed /\ Reads
  BY DEF IInv
<1>1. /\ <<>> \in Seq(Byte) /\ Len(<<>>) = Expected /\ PayloadLength(cmd, param) = 0
      /\ cmd \notin {SEND_RESULT_STATUS, SEND_DATA} /\ Answers(<<>>) /\ UNCHANGED recvVars
      /\ UNCHANGED mode /\ cmd = READ_DATA
  BY LengthsOf, CodesDiffer DEF ReadData
<1>2. param[1] \in Byte /\ drv \in Byte /\ track \in Byte /\ sector \in Byte
  BY <1>1, ParamsOf
<1>3. ~good /\ asked = OfDrive(param)
  BY <1>0, <1>1, Executing DEF Reads
<1>4. CASE UNCHANGED <<buffer, count>> /\ status' = 1 /\ n' \in 0..3
  <2>1. /\ buffer' \in [1..DataBuf -> Byte] /\ mode' \in [0..(Drives - 1) -> Byte]
        /\ count' \in Byte /\ status' \in Byte /\ status' # 64
    <3>1. 1 \in Byte /\ 1 # 64
      BY DEF Byte
    <3> QED BY <1>0, <1>1, <1>4, <3>1 DEF Typed
  <2> QED BY <1>1, <1>3, <1>4, <2>1, AnswersKeeps
<1>5. ASSUME drv < Drives PROVE mode[drv] \in Byte /\ NOf(mode[drv]) \in 0..3
  <2>1. drv \in 0..(Drives - 1)
    BY <1>2, <1>5, DriveIndex
  <2>2. mode[drv] \in Byte
    BY <1>0, <2>1 DEF Typed
  <2> QED BY <2>2 DEF NOf, Byte
<1>6. ASSUME drv < Drives, Config(drv), NEW m \in 0..param[1],
             ReadSectors(m, drv, track, sector, param[1])
      PROVE  IInv'
  <2>1. n' = NOf(mode[drv]) /\ n' \in 0..3 /\ s \in Nat \ {0}
    BY <1>5, <1>6, FdsubsysAssumption DEF Config
  <2>2. m \in Nat /\ m \in Byte /\ drv \in Nat /\ track \in Nat /\ sector \in Nat
    BY SMTT(40), <1>2 DEF Byte
  <2>3. buffer' = [i \in 1..DataBuf |->
                      IF i > m * s THEN buffer[i]
                      ELSE OnDisk(drv, track, sector + (i - 1) \div s, (i - 1) % s)]
    BY <1>0, <1>6 DEF ReadSectors, Advanced, Typed
  <2>4. buffer' \in [1..DataBuf -> Byte]
    <3>1. \A i \in 1..DataBuf : i \in Nat \ {0}
      OBVIOUS
    <3>2. \A i \in 1..DataBuf : OnDisk(drv, track, sector + (i - 1) \div s, (i - 1) % s) \in Byte
      BY <2>1, <2>2, <3>1, OnDiskIsByte
    <3> QED BY <1>0, <2>3, <3>2 DEF Typed
  <2>5. count' = m /\ status' \in {1, 64} /\ (status' = 64 => m = param[1] /\ ~(m > 0 /\ m * s >= DataBuf))
    BY <1>6 DEF ReadSectors, Counted
  <2>6. ASSUME status' = 64 PROVE ReadOut' = asked
    <3>1. m * s \in Nat /\ (m = 0 => m * s = 0) /\ DataBuf \in Nat
      BY SMTT(40), <2>1, <2>2, FdsubsysAssumption
    <3> DEFINE k == m * s
    <3>2. k \in Nat /\ k <= DataBuf /\ s * m = k
      <4>1. s * m = k
        BY <2>1, <2>2
      <4> HIDE DEF k
      <4> QED BY <2>2, <2>5, <2>6, <3>1, <4>1 DEF k
    <3>3. SubSeq(buffer', 1, s * m) = Sectors(drv, track, sector, m, s)
      <4>1. Filled(buffer', drv, track, sector, k, s)
        <5> SUFFICES ASSUME NEW i \in 1..DataBuf, i <= k
                     PROVE  buffer'[i] = OnDisk(drv, track, sector + (i - 1) \div s, (i - 1) % s)
          BY DEF Filled
        <5>1. ~(i > k)
          <6> HIDE DEF k
          <6> QED BY <3>1, <3>2
        <5> QED BY <2>3, <5>1
      <4>2. Sectors(drv, track, sector, m, s) = BytesFrom(drv, track, sector, k, s)
        BY DEF Sectors, BytesFrom
      <4> HIDE DEF drv, track, sector, s, k
      <4>3. FirstOf(buffer', k) = BytesFrom(drv, track, sector, k, s)
        BY SMTT(40), <2>1, <2>2, <2>4, <3>2, <4>1, FilledIsRead
      <4> QED BY <3>2, <4>2, <4>3 DEF FirstOf
    <3>4. asked = Sectors(drv, track, sector, param[1], s)
      BY <1>3, <1>6, <2>1 DEF OfDrive
    <3> QED BY <2>5, <2>6, <3>3, <3>4 DEF ReadOut
  <2>7. mode' \in [0..(Drives - 1) -> Byte] /\ count' \in Byte /\ status' \in Byte
    BY SMTT(40), <1>0, <1>1, <2>2, <2>5 DEF Typed, Byte
  <2> QED BY <1>1, <1>3, <2>1, <2>4, <2>6, <2>7, AnswersKeeps
<1>7. \/ UNCHANGED <<buffer, count>> /\ status' = 1 /\ n' \in 0..3
      \/ /\ drv < Drives /\ Config(drv)
         /\ \E m \in 0..param[1] : ReadSectors(m, drv, track, sector, param[1])
  BY <1>0, <1>5 DEF ReadData, Config, Typed
<1> QED BY <1>4, <1>6, <1>7

\* 03H is asked for only after a complete read.
LEMMA SendDataKeeps ==
    ASSUME IInv, state = "EXEC_CMD", ExecFrame, SendData
    PROVE  IInv'
<1>1. good /\ ReadOut = asked /\ asked \in Seq(Byte)
  BY Executing DEF IInv, Reads, Typed, SendData
<1>2. Answers(asked) /\ UNCHANGED recvVars /\ UNCHANGED work /\ cmd = SEND_DATA
  BY <1>1 DEF SendData, ReadOut
<1>3. Len(asked) = Expected /\ PayloadLength(cmd, param) = 0 /\ cmd # SEND_RESULT_STATUS
  BY <1>2, LengthsOf, CodesDiffer
<1>4. ReadOut' = asked
  BY <1>1, <1>2 DEF ReadOut, work
<1> QED BY <1>1, <1>2, <1>3, <1>4, WorkTypes, AnswersKeeps

LEMMA SendResultStatusKeeps ==
    ASSUME IInv, state = "EXEC_CMD", ExecFrame, SendResultStatus PROVE IInv'
<1>1. Answers(<<status>>) /\ UNCHANGED recvVars /\ UNCHANGED work /\ cmd = SEND_RESULT_STATUS
  BY DEF SendResultStatus
<1>2. <<status>> \in Seq(Byte) /\ Len(<<status>>) = Expected /\ status' = status
  BY <1>1, LengthsOf DEF IInv, Typed, work
<1>3. PayloadLength(cmd, param) = 0 /\ cmd # SEND_DATA
  BY <1>1, LengthsOf, CodesDiffer
<1>4. /\ good => ReadOut' = asked
      /\ status' = 64 /\ asked # <<>> => ReadOut' = asked
  BY <1>1, NothingRead, CodesDiffer DEF work
<1> QED BY <1>1, <1>2, <1>3, <1>4, WorkTypes, AnswersKeeps

LEMMA SetDiskModeKeeps ==
    ASSUME IInv, state = "EXEC_CMD", ExecFrame, SetDiskMode
    PROVE  IInv'
<1>1. /\ cmd = SET_DISK_MODE /\ Answers(<<>>) /\ UNCHANGED recvVars
      /\ UNCHANGED <<buffer, n, count, status>>
      /\ mode' = [d \in DOMAIN mode |-> IF d = param[1] THEN param[2] ELSE mode[d]]
  BY DEF SetDiskMode
<1>2. mode' \in [0..(Drives - 1) -> Byte]
  <2>1. param[2] \in Byte
    <3>1. cmd = SET_DISK_MODE
      BY <1>1
    <3> QED BY <3>1, ParamsOf
  <2> QED BY <1>1, <2>1 DEF IInv, Typed
<1>3. <<>> \in Seq(Byte) /\ Len(<<>>) = Expected /\ PayloadLength(cmd, param) = 0
      /\ cmd \notin {SEND_RESULT_STATUS, SEND_DATA, READ_DATA}
  BY <1>1, LengthsOf, CodesDiffer
<1>4. /\ good => ReadOut' = asked
      /\ status' = 64 /\ asked # <<>> => ReadOut' = asked
  BY <1>1, <1>3, NothingRead
<1>5. buffer' \in [1..DataBuf -> Byte] /\ n' \in 0..3 /\ count' \in Byte /\ status' \in Byte
  BY <1>1 DEF IInv, Typed
<1> QED BY <1>1, <1>2, <1>3, <1>4, <1>5, AnswersKeeps

\* The commands that answer and change nothing.
LEMMA PlainAnswer ==
    ASSUME IInv, state = "EXEC_CMD", ExecFrame, UNCHANGED recvVars, UNCHANGED work,
           NEW s \in Seq(Byte), Answers(s), Len(s) = Expected,
           cmd \notin {WRITE_DATA, READ_DATA, RECEIVE_MEMORY, SEND_RESULT_STATUS, SEND_DATA}
    PROVE  IInv'
<1>1. PayloadLength(cmd, param) = 0
  BY LengthsOf
<1>2. /\ good => ReadOut' = asked
      /\ status' = 64 /\ asked # <<>> => ReadOut' = asked
  BY NothingRead DEF work
<1> QED BY <1>1, <1>2, WorkTypes, AnswersKeeps

LEMMA SendDiskModeKeeps ==
    ASSUME IInv, state = "EXEC_CMD", ExecFrame, SendDiskMode
    PROVE  IInv'
<1> DEFINE s == <<IF param[1] < Drives THEN mode[param[1]] ELSE 255>>
<1>1. cmd = SEND_DISK_MODE /\ Answers(s) /\ UNCHANGED recvVars /\ UNCHANGED work
  BY DEF SendDiskMode
<1>2. param[1] \in Byte
  BY SMTT(40), <1>1, ParamsOf
<1>3. param[1] < Drives => mode[param[1]] \in Byte
  <2>1. param[1] < Drives => param[1] \in 0..(Drives - 1)
    BY <1>2, DriveIndex
  <2> QED BY <2>1 DEF IInv, Typed
<1>4. s \in Seq(Byte) /\ Len(s) = 1
  BY <1>3 DEF Byte
<1>5. Len(s) = Expected
       /\ cmd \notin {WRITE_DATA, READ_DATA, RECEIVE_MEMORY, SEND_RESULT_STATUS, SEND_DATA}
  BY <1>1, <1>4, LengthsOf, CodesDiffer
<1> QED BY <1>1, <1>4, <1>5, PlainAnswer

LEMMA DriveReadyCheckKeeps ==
    ASSUME IInv, state = "EXEC_CMD", ExecFrame, DriveReadyCheck PROVE IInv'
<1>1. /\ cmd = DRIVE_READY_CHECK /\ UNCHANGED recvVars /\ UNCHANGED work
      /\ Expected = 1
      /\ cmd \notin {WRITE_DATA, READ_DATA, RECEIVE_MEMORY, SEND_RESULT_STATUS, SEND_DATA}
  BY LengthsOf, CodesDiffer DEF DriveReadyCheck
<1>2. PICK r \in {0, 255} : Answers(<<r>>)
  BY DEF DriveReadyCheck
<1>3. <<r>> \in Seq(Byte) /\ Len(<<r>>) = 1
  BY DEF Byte
<1> QED BY <1>1, <1>2, <1>3, PlainAnswer

LEMMA SleepKeeps ==
    ASSUME IInv, state = "EXEC_CMD", ExecFrame, Sleep
    PROVE  IInv'
<1>1. /\ cmd = SLEEP /\ Answers(<<0, 0>>) /\ UNCHANGED recvVars /\ UNCHANGED work
      /\ Expected = 2
      /\ cmd \notin {WRITE_DATA, READ_DATA, RECEIVE_MEMORY, SEND_RESULT_STATUS, SEND_DATA}
  BY LengthsOf, CodesDiffer DEF Sleep
<1>2. <<0, 0>> \in Seq(Byte) /\ Len(<<0, 0>>) = 2
  BY DEF Byte
<1> QED BY <1>1, <1>2, PlainAnswer

LEMMA NothingKeeps ==
    ASSUME IInv, state = "EXEC_CMD", ExecFrame, Nothing
    PROVE  IInv'
<1>1. cmd \notin Codes /\ Answers(<<>>) /\ UNCHANGED recvVars /\ UNCHANGED work
  BY DEF Nothing, Codes
<1>2. <<>> \in Seq(Byte) /\ Len(<<>>) = Expected
      /\ cmd \notin {WRITE_DATA, READ_DATA, RECEIVE_MEMORY, SEND_RESULT_STATUS, SEND_DATA}
  BY <1>1, LengthsOf DEF Codes
<1> QED BY <1>1, <1>2, PlainAnswer

LEMMA ExecCmdKeeps ==
    ASSUME IInv, ExecCmd
    PROVE  IInv'
<1>1. state = "EXEC_CMD" /\ ExecFrame
  BY DEF ExecCmd, ExecFrame
<1> QED BY <1>1, InitializeKeeps, WriteDataKeeps, ReadDataKeeps, SendDataKeeps,
           SendResultStatusKeeps, ReceiveMemoryKeeps, SetDiskModeKeeps, SendDiskModeKeeps,
           DriveReadyCheckKeeps, SleepKeeps, NothingKeeps DEF ExecCmd

-----------------------------------------------------------------------------
(***************************************************************************)
(* A new request and a reset.                                              *)
(***************************************************************************)
\* The bytes that a read is about, by what it asks for.
LEMMA AskedBytes ==
    ASSUME Typed, NEW r \in Requests, r.cmd = READ_DATA, r.params[2] < Drives
    PROVE  Sectors(r.params[2], r.params[3], r.params[4], r.params[1],
                   Size[NOf(mode[r.params[2]])]) \in Seq(Byte)
<1> DEFINE p == r.params
           s == Size[NOf(mode[p[2]])]
<1>1. p \in Seq(Byte) /\ Len(p) = 4
  <2>1. p \in Seq(Byte) /\ Len(p) = ParamLength(READ_DATA)
    BY FdsubsysAssumption
  <2>2. ParamLength(READ_DATA) = 4
    <3>1. ASSUME NEW c, c = READ_DATA PROVE ParamLength(c) = 4
      BY <3>1, CodesDiffer DEF ParamLength
    <3> QED BY <3>1
  <2> QED BY <2>1, <2>2
<1>2. p[1] \in Byte /\ p[2] \in Byte /\ p[3] \in Byte /\ p[4] \in Byte
  BY <1>1
<1>3. s \in Nat \ {0}
  <2>1. p[2] \in 0..(Drives - 1)
    BY <1>2, DriveIndex
  <2>2. mode[p[2]] \in Byte
    BY <2>1 DEF Typed
  <2>3. NOf(mode[p[2]]) \in 0..3
    BY <2>2 DEF NOf, Byte
  <2> QED BY <2>3, FdsubsysAssumption
<1> HIDE DEF p, s
<1>4. p[1] \in Nat /\ p[2] \in Nat /\ p[3] \in Nat /\ p[4] \in Nat
  BY SMTT(40), <1>2 DEF Byte
<1>5. p[1] * s \in Nat
  BY <1>3, <1>4
<1>6. BytesFrom(p[2], p[3], p[4], p[1] * s, s) \in Seq(Byte)
  BY <1>3, <1>4, <1>5, SectorsAreBytes
<1>7. Sectors(p[2], p[3], p[4], p[1], s) \in Seq(Byte)
  BY <1>6 DEF BytesFrom, Sectors
<1> QED BY <1>7 DEF p, s

LEMMA CallKeeps ==
    ASSUME IInv, NEW r \in Requests, Call(r)
    PROVE  IInv'
<1> USE DEF Call, Lines, subVars, recvVars, work
<1>0. Typed /\ Control /\ Carried /\ Parsed /\ Answered /\ Reads
  BY DEF IInv
<1>1. /\ mpc = "idle" /\ main = {} /\ sub = {} /\ state = "RECV_CMD"
      /\ hsstate = "WAIT_ATN" /\ ~cmdrecvd
  <2> USE DEF Control, Calling, Sending, Receiving, Row
  <2> QED BY <1>0 DEF Waiting, DavDropped
<1>2. /\ mpc' = "attn" /\ main' = {"ATN"} /\ ~Done' /\ ~Held' /\ Done /\ ~cmdrecvd'
      /\ req' = r /\ todo' = BytesOf(r) /\ got' = <<>>
  BY <1>1 DEF Done, Held
<1>3. Typed'
  <2>1. asked' \in Seq(Byte)
    <3>1. asked \in Seq(Byte) /\ <<>> \in Seq(Byte)
      BY <1>0 DEF Typed
    <3>2. CASE r.cmd = READ_DATA /\ r.params[2] < Drives
      BY <1>0, <3>2, AskedBytes
    <3>3. CASE ~(r.cmd = READ_DATA /\ r.params[2] < Drives)
      BY <3>1, <3>3
    <3> QED BY <3>2, <3>3
  <2>2. BytesOf(r) \in Seq(Byte)
    BY FdsubsysAssumption, ThreeParts DEF BytesOf
  <2>3. calls' \in 0..MaxCalls
    BY <1>0, FdsubsysAssumption DEF Typed
  <2>4. good' \in BOOLEAN
    BY <1>0 DEF Typed
  <2>5. todo' \in Seq(Byte) /\ got' \in Seq(Byte) /\ req' \in Requests \cup {NoRequest}
    BY <1>2, <2>2
  <2>6. UNCHANGED <<cmdrecvd, portA, portB, cmd, status, param, sendbuf, taken, reply, buffer,
                    mode, n, count, recvcnt, recvbuf, started>>
    OBVIOUS
  <2> HIDE DEF Call, Lines, subVars, recvVars, work
  <2> QED BY <1>0, <2>1, <2>3, <2>4, <2>5, <2>6 DEF Typed
<1>4. Control'
  BY <1>1, <1>2 DEF Control, Calling, Sending, Receiving, Row
<1>5. Carried'
  BY <1>2 DEF Carried, BytesOf
<1>6. Parsed'
  BY <1>1, <1>2 DEF Parsed
<1>7. Answered'
  BY <1>1, <1>2 DEF Answered
<1>8. Reads'
  <2>1. ReadOut' = ReadOut
    BY DEF ReadOut
  <2>2. r.cmd = READ_DATA => asked' = OfDrive(req.params)'
    BY <1>2, CodesDiffer DEF OfDrive
  <2>3. r.cmd = WRITE_DATA => asked' = <<>>
    BY CodesDiffer
  <2>4. r.cmd \notin {READ_DATA, WRITE_DATA} => asked' = asked /\ good' = good
    OBVIOUS
  <2>5. r.cmd \in {READ_DATA, WRITE_DATA} => ~good'
    OBVIOUS
  <2>6. r.cmd = SEND_DATA => good'
    BY CodesDiffer
  <2> QED BY <1>0, <1>2, <2>1, <2>2, <2>3, <2>4, <2>5, <2>6 DEF Reads
<1> QED BY <1>3, <1>4, <1>5, <1>6, <1>7, <1>8 DEF IInv

\* No request: the subsystem and the main CPU have nothing of it left.
LEMMA NoRequestKeeps ==
    ASSUME Typed', req' = NoRequest, taken' = BytesOf(NoRequest), todo' = <<>>, got' = <<>>,
           reply' = <<>>, asked' = <<>>, good' = FALSE, cmdrecvd' = FALSE,
           mpc' = "idle", main' = {}, sub' = {}, state' = "RECV_CMD", hsstate' = "STOPPED"
    PROVE  IInv'
<1>1. Control'
  BY DEF Control, Calling, Row
<1>2. Carried'
  <2>1. taken' \o todo' = BytesOf(NoRequest)
    BY EmptyEnds DEF Typed
  <2> QED BY <2>1 DEF Carried, Held
<1>3. Parsed'
  BY DEF Parsed
<1>4. Answered'
  <2>1. NoRequest.cmd = 0
    BY DEF NoRequest, INITIALIZE
  <2>2. Expected' = 0
    BY <2>1, CodesDiffer DEF Expected
  <2> QED BY <2>2 DEF Answered, Done, Shown
<1>5. Reads'
  <2>1. NoRequest.cmd = 0
    BY DEF NoRequest, INITIALIZE
  <2> QED BY <2>1, CodesDiffer DEF Reads, Done
<1> QED BY <1>1, <1>2, <1>3, <1>4, <1>5 DEF IInv

LEMMA NoBytes == BytesOf(NoRequest) \in Seq(Byte)
<1>1. NoRequest.cmd \in Byte /\ NoRequest.params \in Seq(Byte) /\ NoRequest.payload \in Seq(Byte)
  BY DEF NoRequest, INITIALIZE, Byte
<1> QED BY <1>1, ThreeParts DEF BytesOf

LEMMA ResetKeeps ==
    ASSUME IInv, Reset
    PROVE  IInv'
<1>1. Typed'
  <2>1. UNCHANGED <<portA, portB, cmd, status, param, sendbuf, buffer, mode, n, count, recvcnt,
                    recvbuf, started, calls>>
    BY DEF Reset, recvVars, work
  <2>2. /\ cmdrecvd' \in BOOLEAN /\ good' \in BOOLEAN /\ req' \in Requests \cup {NoRequest}
        /\ todo' \in Seq(Byte) /\ got' \in Seq(Byte) /\ asked' \in Seq(Byte)
        /\ reply' \in Seq(Byte) /\ taken' \in Seq(Byte)
    <3>1. <<>> \in Seq(Byte)
      OBVIOUS
    <3> QED BY <3>1, NoBytes, Zenon DEF Reset
  <2>3. Typed
    BY DEF IInv
  <2> QED BY <2>1, <2>2, <2>3 DEF Typed
<1> QED BY <1>1, NoRequestKeeps DEF Reset

\* The initial state is one in which there is no request, as after a reset.
LEMMA InitIInv ==
    ASSUME Init
    PROVE  IInv
<1>1. Typed
  <2>1. taken \in Seq(Byte)
    BY NoBytes DEF Init
  <2>2. \A d \in {portA, portB, cmd, status, count} : d \in Byte
    BY DEF Init, Byte
  <2>3. calls \in 0..MaxCalls
    BY FdsubsysAssumption DEF Init
  <2>4. buffer \in [1..DataBuf -> Byte] /\ mode \in [0..(Drives - 1) -> Byte]
    BY DEF Init, Byte
  <2>5. n \in 0..3 /\ recvcnt \in Nat
    BY DEF Init
  <2>6. /\ param \in Seq(Byte) /\ sendbuf \in Seq(Byte) /\ got \in Seq(Byte)
        /\ todo \in Seq(Byte) /\ reply \in Seq(Byte) /\ asked \in Seq(Byte)
    BY DEF Init
  <2>7. /\ cmdrecvd \in BOOLEAN /\ req \in Requests \cup {NoRequest}
        /\ recvbuf \in {"param", "data", "memory"} /\ started \in BOOLEAN /\ good \in BOOLEAN
    BY DEF Init
  <2> QED BY <2>1, <2>2, <2>3, <2>4, <2>5, <2>6, <2>7 DEF Typed
<1>2. Control
  BY DEF Init, Control, Calling, Row
<1>3. Carried
  <2>1. taken \o todo = BytesOf(req)
    BY <1>1, EmptyEnds DEF Init, Typed
  <2> QED BY <2>1 DEF Init, Carried, Held
<1>4. Parsed
  BY DEF Init, Parsed
<1>5. req.cmd = 0
  BY DEF Init, NoRequest, INITIALIZE
<1>6. Answered
  <2>1. Expected = 0
    BY <1>5, CodesDiffer DEF Expected
  <2> QED BY <2>1 DEF Init, Answered, Done, Shown
<1>7. Reads
  BY <1>5, CodesDiffer DEF Init, Reads, Done
<1> QED BY <1>1, <1>2, <1>3, <1>4, <1>6, <1>7 DEF IInv

-----------------------------------------------------------------------------
(***************************************************************************)
(* The theorems.                                                           *)
(***************************************************************************)
LEMMA NextKeeps ==
    ASSUME IInv, [Next]_vars
    PROVE  IInv'
<1>1. ASSUME Exec PROVE IInv'
  BY <1>1, WaitAtnKeeps, WaitCmdKeeps, WaitDataKeeps, WaitDavResetKeeps, WaitRfdKeeps,
     WaitDacKeeps, WaitDacResetKeeps, CmdReceivedKeeps, IdleKeeps, NextByteKeeps,
     DataReceivedKeeps, SendNextKeeps, EndCycleKeeps, ExecCmdKeeps DEF Exec
<1>2. ASSUME Transport PROVE IInv'
  BY <1>2, ClearAtnKeeps, PutKeeps, RaiseDavKeeps, DropDavKeeps, SentKeeps, RaiseRfdKeeps,
     GetKeeps, TakeKeeps, DropDacKeeps DEF Transport
<1>3. ASSUME UNCHANGED vars PROVE IInv'
  <2>1. UNCHANGED <<mainVars, subVars>>
    BY <1>3 DEF vars
  <2> USE <2>1 DEF mainVars, subVars, recvVars, work
  <2>2. Typed' = Typed /\ Control' = Control
    BY DEF Typed, Control, Calling, Sending, Receiving, Row
  <2>3. Carried' = Carried /\ Parsed' = Parsed
    BY DEF Carried, Held, Parsed
  <2>4. Answered' = Answered /\ Reads' = Reads
    BY DEF Answered, Done, Shown, Expected, Reads, ReadOut, OfDrive
  <2> QED BY <2>2, <2>3, <2>4 DEF IInv
<1> QED BY <1>1, <1>2, <1>3, ResetKeeps, CallKeeps DEF Next

\* Wherever the two sides of the handshake are, each knows what the other has
\* of the request and of the answer.
THEOREM Invariance == Spec => []IInv
<1>1. Init => IInv
  BY InitIInv
<1>2. IInv /\ [Next]_vars => IInv'
  BY NextKeeps
<1> QED BY <1>1, <1>2, PTL DEF Spec

\* Each loop of the subsystem (fdsubsys.c, subsys_exec) finds a handshake state
\* it knows, and every variable keeps its type.
THEOREM TypeIsKept == Spec => []TypeOK
<1>1. ASSUME IInv PROVE TypeOK
  <2>1. Typed /\ Control /\ Parsed
    BY <1>1 DEF IInv
  <2>2. state \in DOMAIN Loop /\ hsstate \in Loop[state]
    BY <2>1 DEF Control, Calling, Sending, Receiving, Row, Loop
  <2>3. /\ main \subseteq {"ATN", "DAC", "RFD", "DAV"} /\ sub \subseteq {"DAC", "RFD", "DAV"}
        /\ mpc \in {"idle", "attn", "put", "valid", "dac", "sent", "ready", "dav", "take", "end"}
        /\ hsstate \in {"WAIT_ATN", "WAIT_CMD"} => ~cmdrecvd
        /\ state # "RECV_CMD" => cmdrecvd
    BY <2>1 DEF Control, Calling, Sending, Receiving, Row
  <2>4. cmdrecvd /\ state = "RECV_CMD" => taken = <<cmd>>
    BY <2>1 DEF Parsed
  <2>5. /\ {portA, portB, cmd, status} \subseteq Byte
        /\ {param, sendbuf, got, todo, taken, reply} \subseteq Seq(Byte)
    BY <2>1 DEF Typed
  <2> QED BY <2>1, <2>2, <2>3, <2>4, <2>5 DEF TypeOK, Typed
<1> QED BY <1>1, Invariance, PTL

\* Where the main CPU is done with a request and the subsystem waits, both have
\* all of it.
LEMMA DoneIsWaiting ==
    ASSUME IInv, mpc = "idle", Waiting
    PROVE  hsstate = "WAIT_ATN" /\ sub = {} /\ state = "RECV_CMD" /\ ~cmdrecvd /\ todo = <<>>
<1>1. Control /\ Answered
  BY DEF IInv
<1>2. hsstate = "WAIT_ATN" /\ sub = {} /\ state = "RECV_CMD" /\ ~cmdrecvd
  BY <1>1 DEF Control, Calling, Sending, Receiving, Row, Waiting, DavDropped
<1>3. todo = <<>>
  BY <1>1, <1>2 DEF Answered, Done
<1> QED BY <1>2, <1>3

\* The first part of a sequence, and how much the rest is.
LEMMA Parts ==
    ASSUME NEW g \in Seq(Byte), NEW t \in Seq(Byte)
    PROVE  /\ SubSeq(g \o t, 1, Len(g)) = g
           /\ Len(g \o t) - Len(g) - Len(t) = 0
<1>1. /\ g \o t \in Seq(Byte) /\ Len(g \o t) = Len(g) + Len(t) /\ Len(g) \in Nat /\ Len(t) \in Nat
      /\ \A i \in 1..Len(g) : (g \o t)[i] = g[i]
  OBVIOUS
<1> DEFINE u == g \o t
           v == SubSeq(u, 1, Len(g))
<1>2. v \in Seq(Byte) /\ Len(v) = Len(g) /\ \A i \in 1..Len(g) : v[i] = u[i]
  BY <1>1
<1>3. v = g
  <2> HIDE DEF v
  <2> QED BY <1>1, <1>2, SeqEqual
<1> QED BY <1>1, <1>3

\* Every byte of a request and of its answer is taken once and in order, though
\* both sides move on from each other's lines (fdsubsys.c:200-352).
THEOREM EachByteIsTakenOnce == Spec => []EachByteOnce
<1>1. ASSUME IInv PROVE EachByteOnce
  <2>1. Typed /\ Carried /\ Answered
    BY <1>1 DEF IInv
  <2>2. ASSUME state = "SEND_DATA"
        PROVE  got = SubSeq(reply, 1, Len(got)) /\ Len(reply) - Len(got) - Len(sendbuf) \in {0, 1}
    <3>1. got \in Seq(Byte) /\ sendbuf \in Seq(Byte) /\ portA \in Byte
      BY <2>1 DEF Typed
    <3>2. CASE ~Shown
      <4>1. got \o sendbuf = reply
        BY <2>1, <2>2, <3>2 DEF Answered
      <4> QED BY <3>1, <4>1, Parts
    <3>3. CASE Shown
      <4> DEFINE t == <<portA>> \o sendbuf
      <4>1. t \in Seq(Byte) /\ Len(t) = 1 + Len(sendbuf) /\ Len(got) \in Nat /\ Len(sendbuf) \in Nat
        BY <3>1
      <4>2. Append(got, portA) \o sendbuf = got \o t
        <5> DEFINE u == Append(got, portA) \o sendbuf
                   v == got \o t
        <5>1. u \in Seq(Byte) /\ v \in Seq(Byte) /\ Len(u) = Len(got) + 1 + Len(sendbuf)
              /\ Len(v) = Len(u)
          BY <3>1, <4>1
        <5>2. ASSUME NEW i \in 1..Len(u) PROVE u[i] = v[i]
          BY <3>1, <5>1
        <5> QED BY <5>1, <5>2, SeqEqual
      <4>3. reply = got \o t
        BY <2>1, <2>2, <3>3, <4>2 DEF Answered
      <4> HIDE DEF t
      <4>4. SubSeq(got \o t, 1, Len(got)) = got /\ Len(got \o t) = Len(got) + Len(t)
        BY <3>1, <4>1, Parts
      <4>5. Len(reply) - Len(got) - Len(sendbuf) = 1
        BY <4>1, <4>3, <4>4
      <4> QED BY <4>3, <4>4, <4>5
    <3> QED BY <3>2, <3>3
  <2>3. ASSUME mpc = "idle", Waiting
        PROVE  /\ taken = BytesOf(req) /\ got = reply
               /\ hsstate = "WAIT_ATN" /\ sub = {}
    <3>1. hsstate = "WAIT_ATN" /\ sub = {} /\ state = "RECV_CMD" /\ ~cmdrecvd /\ todo = <<>>
      BY <1>1, <2>3, DoneIsWaiting
    <3>2. taken \o todo = BytesOf(req)
      BY <2>1, <2>3 DEF Carried, Held
    <3>3. taken = BytesOf(req)
      BY <2>1, <3>1, <3>2, EmptyEnds DEF Typed
    <3> QED BY <2>1, <2>3, <3>1, <3>3 DEF Answered, Done
  <2> QED BY <2>2, <2>3 DEF EachByteOnce
<1> QED BY <1>1, Invariance, PTL

\* What the main CPU reads with 03H, after 06H has called the read complete, is
\* what the disk holds there (fdsubsys.c:575-679), in any number of requests.
THEOREM ReadsAreHonest == Spec => []HonestRead
<1>1. ASSUME IInv, mpc = "idle", req.cmd = SEND_DATA PROVE got = asked
  <2>1. Typed /\ Control /\ Answered /\ Reads
    BY <1>1 DEF IInv
  <2>2. Done
    BY <1>1, <2>1 DEF Control, Calling, Sending, Receiving, Row, Done
  <2>3. reply = asked
    BY <1>1, <2>1, <2>2 DEF Reads
  <2>4. CASE state # "SEND_DATA"
    BY <2>1, <2>2, <2>3, <2>4 DEF Answered
  <2>5. CASE state = "SEND_DATA"
    <3>1. got \o sendbuf = reply /\ sendbuf = <<>>
      BY <1>1, <2>1, <2>5 DEF Answered, Shown
    <3> QED BY <2>1, <2>3, <3>1, RestOfAnswer
  <2> QED BY <2>4, <2>5
<1> QED BY <1>1, Invariance, PTL DEF HonestRead
=============================================================================
