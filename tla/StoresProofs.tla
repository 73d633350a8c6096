---------------------------- MODULE StoresProofs ----------------------------
(***************************************************************************)
(* Proofs about the SASI controller, the cassette recorder, the sound      *)
(* stream, the D88 images and the save states of MCStores: each keeps an   *)
(* invariant in every step of its own, and the invariant has the           *)
(* properties of MCDevices; DevicesProofs puts them together.              *)
(***************************************************************************)
EXTENDS MCStores, WellFoundedInduction, TLAPS

-----------------------------------------------------------------------------
(***************************************************************************)
(* The SASI controller.                                                    *)
(***************************************************************************)
SasiBytes == [0 .. SasiBlockBytes - 1 -> Nat]
SasiRecords ==
    [phase : Sasi!Phases, inte : BOOLEAN, dmae : BOOLEAN, isr : BOOLEAN, irq : BOOLEAN,
     dma : BOOLEAN, event : Sasi!Events, error : Sasi!Errors, check : BOOLEAN,
     blocks : 0 .. 255, sector : Nat, pos : Nat, size : {0, SasiBlockBytes}, bytes : Nat,
     dat : SasiBytes, wrong : BOOLEAN, broken : BOOLEAN, late : BOOLEAN, cut : BOOLEAN]

SasiTyped ==
    /\ x1 \in SasiRecords
    /\ x2 \in [Sasi!Sector -> SasiBytes]
    /\ x3 \in {Sasi!Idle} \cup [op : SasiOps, n : SasiBlocks]
    /\ x4 \in Nat

\* The bytes of a block stand at their place.
SasiRight(bytes, b, k) == \A i \in 0 .. SasiBlockBytes - 1 : i < k => bytes[i] = b * SasiBlockBytes + i + 1

\* A transfer of n blocks is in the middle of block s.sector.
SasiMoving(s, medium, n, moved) ==
    /\ ~s.broken /\ ~s.wrong
    /\ s.size = SasiBlockBytes /\ s.pos < s.size
    /\ s.sector < n /\ s.blocks = n - s.sector
    /\ moved = s.sector * SasiBlockBytes + s.pos
    /\ s.phase = "read" => SasiRight(s.dat, s.sector, SasiBlockBytes)
    /\ s.phase = "write" =>
         /\ SasiRight(s.dat, s.sector, s.pos)
         /\ \A b \in Sasi!Sector : b < s.sector => SasiRight(medium[b], b, SasiBlockBytes)

\* All of it has been moved.
SasiMoved(s, medium, op, n, moved) ==
    /\ moved = n * SasiBlockBytes
    /\ op = "read" => ~s.wrong
    /\ op = "write" => \A b \in Sasi!Sector : b < n => SasiRight(medium[b], b, SasiBlockBytes)

SasiData == {"read", "write"}

\* The event of the guest's own command is on its way, or has come.
SasiEnds(s) == s.event = "own" \/ (s.phase = "stat" /\ ~s.cut)

SasiStands(s, medium, a, moved) ==
    /\ s.phase = "free" => a = Sasi!Idle
    /\ a = Sasi!Idle => s.phase \in {"free", "stat", "msg"}
    /\ s.phase \in {"stat", "msg"} => s.event = "none"
    /\ s.phase = "free" => s.event # "own"
    /\ s.phase = "cmd" => s.event = "own"
    /\ s.phase \in {"c2", "sense"} => a.op \notin SasiData /\ (s.event = "own" \/ s.bytes # 0)
    /\ s.phase \in SasiData => a.op = s.phase
    /\ s.phase \in SasiData /\ s.event # "own" => SasiMoving(s, medium, a.n, moved)
    /\ s.phase \in SasiData /\ s.event = "own" /\ ~s.broken => s.error = "none"
    /\ SasiEnds(s) /\ a.op \in SasiData /\ s.broken /\ ~s.late => s.error = "fault"
    /\ SasiEnds(s) /\ a.op \in SasiData /\ s.error = "none" /\ ~s.broken
         => SasiMoved(s, medium, a.op, a.n, moved)

SasiInv == SasiTyped /\ SasiStands(x1, x2, x3, x4)

LEMMA SasiStarts == Sasi!Init => SasiInv
<1> SUFFICES ASSUME Sasi!Init PROVE SasiInv
  OBVIOUS
<1>1. x1 \in SasiRecords
  BY SasiAssumption DEF Sasi!Init, Sasi!Fresh, SasiRecords, SasiBytes, Sasi!Phases, Sasi!Errors,
                        Sasi!Events
<1>2. x2 \in [Sasi!Sector -> SasiBytes]
  BY SasiAssumption DEF Sasi!Init, Sasi!Blank, SasiBytes
<1>3. SasiTyped
  BY <1>1, <1>2 DEF Sasi!Init, SasiTyped
<1>4. SasiStands(x1, x2, x3, x4)
  BY DEF Sasi!Init, Sasi!Fresh, Sasi!Idle, SasiStands, SasiEnds, SasiData
<1> QED BY <1>3, <1>4 DEF SasiInv

\* What a transfer and its event are about, which the lines to the guest are not.
SasiSame(s, t) ==
    /\ t.phase = s.phase /\ t.event = s.event /\ t.error = s.error /\ t.blocks = s.blocks
    /\ t.sector = s.sector /\ t.pos = s.pos /\ t.size = s.size /\ t.bytes = s.bytes
    /\ t.dat = s.dat /\ t.wrong = s.wrong /\ t.broken = s.broken
    /\ t.late = s.late /\ t.cut = s.cut

LEMMA SasiDmacs ==
    ASSUME NEW s \in SasiRecords
    PROVE  Sasi!Dmac(s) \in SasiRecords /\ SasiSame(s, Sasi!Dmac(s))
<1>1. PICK d \in BOOLEAN : d = (s.dmae /\ s.phase \in {"read", "write"})
  OBVIOUS
<1>2. Sasi!Dmac(s) = [s EXCEPT !.dma = d]
  BY <1>1 DEF Sasi!Dmac
<1> QED BY <1>2 DEF SasiRecords, SasiSame

LEMMA SasiStays ==
    ASSUME SasiInv, SasiSame(x1, x1'), x1' \in SasiRecords, UNCHANGED <<x2, x3, x4>>
    PROVE  SasiInv'
BY DEF SasiInv, SasiTyped, SasiStands, SasiEnds, SasiMoving, SasiMoved, SasiSame

LEMMA SasiPhases ==
    \A s \in SasiRecords, p \in Sasi!Phases : [s EXCEPT !.phase = p] \in SasiRecords
BY DEF SasiRecords

LEMMA SasiControls ==
    ASSUME SasiInv, NEW inte \in BOOLEAN, NEW dmae \in BOOLEAN, NEW rst \in BOOLEAN,
           Sasi!Control(inte, dmae, rst)
    PROVE  SasiInv'
<1>1. x1 \in SasiRecords
  BY DEF SasiInv, SasiTyped
<1>2. PICK p \in Sasi!Phases : p = IF rst THEN "free" ELSE x1.phase
  BY <1>1 DEF SasiRecords, Sasi!Phases
<1>3. PICK e \in Sasi!Events : e = IF rst /\ x1.event = "own" THEN "stale" ELSE x1.event
  BY <1>1 DEF SasiRecords, Sasi!Events
<1>4. PICK u \in SasiRecords : u = [x1 EXCEPT !.inte = inte, !.dmae = dmae]
  <2>1. [x1 EXCEPT !.inte = inte, !.dmae = dmae] \in SasiRecords
    BY <1>1 DEF SasiRecords
  <2> QED BY <2>1
<1>5. PICK s \in SasiRecords : s = [u EXCEPT !.phase = p, !.event = e]
  <2>1. [u EXCEPT !.phase = p, !.event = e] \in SasiRecords
    BY DEF SasiRecords
  <2> QED BY <2>1
<1>6. x1' = Sasi!Dmac(s)
  BY <1>2, <1>3, <1>4, <1>5 DEF Sasi!Control
<1>7. x1' \in SasiRecords /\ SasiSame(s, x1')
  BY <1>6, SasiDmacs
<1>8. s.phase = p /\ s.event = e
  BY <1>4, <1>5 DEF SasiRecords
<1>9. CASE rst
  <2>1. /\ x1'.phase = "free" /\ x1'.event # "own"
        /\ x3' = Sasi!Idle /\ x2' = x2 /\ x4' = x4
    BY <1>2, <1>3, <1>7, <1>8, <1>9 DEF Sasi!Control, SasiSame
  <2> QED BY <1>7, <2>1 DEF SasiInv, SasiTyped, SasiStands, SasiEnds, SasiData, Sasi!Idle
<1>10. CASE ~rst
  <2>1. SasiSame(x1, s) /\ UNCHANGED <<x2, x3, x4>>
    BY <1>1, <1>2, <1>3, <1>4, <1>5, <1>10 DEF SasiRecords, Sasi!Control, SasiSame
  <2>2. SasiSame(x1, x1')
    BY <1>7, <2>1 DEF SasiSame
  <2> QED BY <1>7, <2>1, <2>2, SasiStays
<1> QED BY <1>9, <1>10

LEMMA SasiEvents ==
    ASSUME SasiInv, Sasi!Event
    PROVE  SasiInv'
<1>1. x1 \in SasiRecords /\ x1.event # "none" /\ UNCHANGED <<x2, x3, x4>>
  BY DEF SasiInv, SasiTyped, Sasi!Event
<1>2. PICK b \in BOOLEAN : b = (x1.irq \/ x1.inte)
  OBVIOUS
<1>3. PICK c \in BOOLEAN : c = (x1.event = "stale")
  OBVIOUS
<1>4. PICK t \in SasiRecords : t = [x1 EXCEPT !.phase = "stat", !.isr = TRUE]
  BY <1>1 DEF SasiRecords, Sasi!Phases
<1>5. PICK u \in SasiRecords : u = [t EXCEPT !.irq = b, !.cut = c]
  BY DEF SasiRecords
<1>6. PICK s \in SasiRecords : s = [u EXCEPT !.event = "none"]
  BY DEF SasiRecords, Sasi!Events
<1>7. x1' = Sasi!Dmac(s)
  BY <1>2, <1>3, <1>4, <1>5, <1>6 DEF Sasi!Event, Sasi!Int
<1>8. x1' \in SasiRecords /\ SasiSame(s, x1')
  BY <1>7, SasiDmacs
<1>9. SasiTyped'
  BY <1>1, <1>8 DEF SasiInv, SasiTyped
<1>10. /\ s.phase = "stat" /\ s.event = "none" /\ s.error = x1.error /\ s.wrong = x1.wrong
       /\ s.broken = x1.broken /\ s.late = x1.late /\ s.cut = c
  BY <1>1, <1>4, <1>5, <1>6 DEF SasiRecords
<1>11. /\ x1'.phase = "stat" /\ x1'.event = "none" /\ x1'.error = x1.error
       /\ x1'.wrong = x1.wrong /\ x1'.broken = x1.broken /\ x1'.late = x1.late /\ x1'.cut = c
  BY <1>8, <1>10 DEF SasiSame
<1>12. ~c => x1.event = "own"
  BY <1>1, <1>3 DEF SasiRecords, Sasi!Events
<1>13. SasiStands(x1, x2, x3, x4)'
  BY <1>1, <1>11, <1>12 DEF SasiInv, SasiStands, SasiEnds, SasiMoved, SasiData
<1> QED BY <1>9, <1>13 DEF SasiInv

LEMMA SasiReads ==
    ASSUME SasiInv, Sasi!ReadStatus
    PROVE  SasiInv'
<1>1. x1.phase \in {"stat", "msg"} /\ UNCHANGED <<x2, x4>>
  BY DEF Sasi!ReadStatus
<1>2. CASE x1.phase = "stat"
  <2>1. x1' = [x1 EXCEPT !.phase = "msg"] /\ x3' = x3
    BY <1>2 DEF Sasi!ReadStatus
  <2>2. SasiTyped'
    BY <1>1, <2>1 DEF SasiInv, SasiTyped, SasiRecords, Sasi!Phases
  <2>3. x1'.phase = "msg" /\ x1'.event = x1.event
    BY <2>1 DEF SasiInv, SasiTyped, SasiRecords
  <2>4. SasiStands(x1, x2, x3, x4)'
    BY <1>1, <1>2, <2>1, <2>3 DEF SasiInv, SasiStands, SasiEnds, SasiData
  <2> QED BY <2>2, <2>4 DEF SasiInv
<1>3. CASE x1.phase = "msg"
  <2>1. x1' = [x1 EXCEPT !.phase = "free"] /\ x3' = Sasi!Idle
    BY <1>3 DEF Sasi!ReadStatus
  <2>2. SasiTyped'
    BY <1>1, <2>1 DEF SasiInv, SasiTyped, SasiRecords, Sasi!Phases
  <2>3. x1'.phase = "free" /\ x1'.event = x1.event
    BY <2>1 DEF SasiInv, SasiTyped, SasiRecords
  <2>4. SasiStands(x1, x2, x3, x4)'
    BY <1>1, <1>3, <2>1, <2>3 DEF SasiInv, SasiStands, SasiEnds, SasiData, Sasi!Idle
  <2> QED BY <2>2, <2>4 DEF SasiInv
<1> QED BY <1>1, <1>2, <1>3

LEMMA SasiIsrs ==
    ASSUME SasiInv, Sasi!ReadIsr
    PROVE  SasiInv'
<1>1. x1 \in SasiRecords
  BY DEF SasiInv, SasiTyped
<1>2. x1' = [x1 EXCEPT !.isr = FALSE, !.irq = FALSE] /\ UNCHANGED <<x2, x3, x4>>
  BY DEF Sasi!ReadIsr
<1>3. [x1 EXCEPT !.isr = FALSE, !.irq = FALSE] \in SasiRecords
  BY <1>1 DEF SasiRecords
<1>4. SasiSame(x1, x1')
  BY <1>1, <1>2 DEF SasiRecords, SasiSame
<1> QED BY <1>2, <1>3, <1>4, SasiStays

LEMMA SasiSets ==
    ASSUME NEW s \in SasiRecords, NEW code \in Sasi!Errors
    PROVE  LET t == Sasi!SetStat(s, code) IN
           /\ t \in SasiRecords
           /\ t.event = "own" /\ t.error = code
           /\ t.phase = s.phase /\ t.blocks = s.blocks /\ t.sector = s.sector /\ t.pos = s.pos
           /\ t.size = s.size /\ t.bytes = s.bytes /\ t.dat = s.dat /\ t.wrong = s.wrong
           /\ t.broken = s.broken /\ t.check = s.check /\ t.late = s.late /\ t.cut = s.cut
BY DEF Sasi!SetStat, SasiRecords, Sasi!Events

\* A parameter of C2H, or a byte of the sense data.
LEMMA SasiOthers ==
    ASSUME SasiInv, Sasi!OtherByte
    PROVE  SasiInv'
<1>1. x1 \in SasiRecords
  BY DEF SasiInv, SasiTyped
<1>2. x1.phase \in {"c2", "sense"} /\ x1.bytes # 0 /\ UNCHANGED <<x2, x3, x4>>
  BY DEF Sasi!OtherByte
<1>3. PICK t \in SasiRecords : t = [x1 EXCEPT !.bytes = @ - 1]
  <2>1. PICK k \in Nat : k = x1.bytes - 1
    BY <1>1, <1>2 DEF SasiRecords
  <2>2. [x1 EXCEPT !.bytes = k] \in SasiRecords
    BY <1>1 DEF SasiRecords
  <2> QED BY <2>1, <2>2
<1>4. /\ t.phase = x1.phase /\ t.event = x1.event /\ t.error = x1.error /\ t.wrong = x1.wrong
      /\ t.broken = x1.broken /\ t.bytes = x1.bytes - 1
  BY <1>1, <1>3 DEF SasiRecords
<1>5. x1' = IF t.bytes = 0 THEN Sasi!SetStat(t, "none") ELSE t
  BY <1>3 DEF Sasi!OtherByte
<1>6. "none" \in Sasi!Errors
  BY DEF Sasi!Errors
<1>7. /\ x1' \in SasiRecords /\ x1'.phase = t.phase
      /\ IF t.bytes = 0 THEN x1'.event = "own" ELSE x1'.event = t.event /\ x1'.bytes = t.bytes
  BY <1>5, <1>6, SasiSets
<1>8. SasiTyped'
  BY <1>2, <1>7 DEF SasiInv, SasiTyped
<1>9. SasiStands(x1, x2, x3, x4)'
  BY <1>2, <1>4, <1>7 DEF SasiInv, SasiStands, SasiEnds, SasiData
<1> QED BY <1>8, <1>9 DEF SasiInv

LEMMA SasiBlocksOf ==
    ASSUME NEW b \in Nat
    PROVE  Sasi!Block(b) \in SasiBytes /\ SasiRight(Sasi!Block(b), b, SasiBlockBytes)
<1>1. \A i \in 0 .. SasiBlockBytes - 1 : b * SasiBlockBytes + i + 1 \in Nat
  <2>1. b * SasiBlockBytes \in Nat
    BY SasiAssumption
  <2> QED BY <2>1
<1>2. Sasi!Block(b) \in SasiBytes
  BY <1>1 DEF Sasi!Block, SasiBytes
<1>3. SasiRight(Sasi!Block(b), b, SasiBlockBytes)
  BY DEF Sasi!Block, SasiRight
<1> QED BY <1>2, <1>3

LEMMA SasiSeeks ==
    ASSUME NEW s \in SasiRecords, NEW ok \in BOOLEAN
    PROVE  LET t == Sasi!Seek(s, ok) IN
           /\ t \in SasiRecords
           /\ t.phase = s.phase /\ t.event = s.event /\ t.error = s.error /\ t.check = s.check
           /\ t.blocks = s.blocks /\ t.sector = s.sector /\ t.bytes = s.bytes
           /\ t.wrong = s.wrong /\ t.broken = s.broken /\ t.late = s.late /\ t.pos = 0
           /\ ok => t.size = SasiBlockBytes /\ SasiRight(t.dat, s.sector, SasiBlockBytes)
<1>1. s.sector \in Nat
  BY DEF SasiRecords
<1>2. PICK d \in SasiBytes : d = Sasi!Block(s.sector) /\ SasiRight(d, s.sector, SasiBlockBytes)
  BY <1>1, SasiBlocksOf
<1>3. CASE ok
  <2>1. Sasi!Seek(s, ok) = [s EXCEPT !.pos = 0, !.size = SasiBlockBytes, !.dat = d]
    BY <1>2, <1>3 DEF Sasi!Seek
  <2>2. [s EXCEPT !.pos = 0, !.size = SasiBlockBytes, !.dat = d] \in SasiRecords
    BY DEF SasiRecords
  <2>3. PICK t : t = Sasi!Seek(s, ok)
    OBVIOUS
  <2>4. /\ t.phase = s.phase /\ t.event = s.event /\ t.error = s.error /\ t.check = s.check
        /\ t.blocks = s.blocks /\ t.sector = s.sector /\ t.bytes = s.bytes
        /\ t.wrong = s.wrong /\ t.broken = s.broken /\ t.late = s.late /\ t.pos = 0
        /\ t.size = SasiBlockBytes /\ t.dat = d
    BY <2>1, <2>3 DEF SasiRecords
  <2> QED BY <1>2, <2>1, <2>2, <2>3, <2>4
<1>4. CASE ~ok
  <2>1. Sasi!Seek(s, ok) = [s EXCEPT !.pos = 0, !.size = 0]
    BY <1>4 DEF Sasi!Seek
  <2>2. [s EXCEPT !.pos = 0, !.size = 0] \in SasiRecords
    BY DEF SasiRecords
  <2>3. PICK t : t = Sasi!Seek(s, ok)
    OBVIOUS
  <2>4. /\ t.phase = s.phase /\ t.event = s.event /\ t.error = s.error /\ t.check = s.check
        /\ t.blocks = s.blocks /\ t.sector = s.sector /\ t.bytes = s.bytes
        /\ t.wrong = s.wrong /\ t.broken = s.broken /\ t.late = s.late /\ t.pos = 0
    BY <2>1, <2>3 DEF SasiRecords
  <2> QED BY <1>4, <2>1, <2>2, <2>3, <2>4
<1> QED BY <1>3, <1>4

\* What the end of a block leads to.
SasiNext(s, t, ok) ==
    /\ t \in SasiRecords
    /\ t.phase = s.phase /\ t.wrong = s.wrong /\ t.late = s.late
    /\ s.event = "own" => t.event = "own"
    /\ s.broken => t.broken
    /\ s.blocks = 1 => t.event = "own" /\ t.error = "none" /\ t.broken = s.broken
    /\ s.blocks > 1 /\ ok =>
         /\ t.event = s.event /\ t.error = s.error /\ t.broken = s.broken
         /\ t.pos = 0 /\ t.size = SasiBlockBytes /\ t.sector = s.sector + 1
         /\ t.blocks = s.blocks - 1 /\ SasiRight(t.dat, t.sector, SasiBlockBytes)
    /\ s.blocks > 1 /\ ~ok => t.event = "own" /\ t.broken /\ t.error = "fault"

LEMMA SasiNexts ==
    ASSUME NEW s \in SasiRecords, NEW ok \in BOOLEAN
    PROVE  SasiNext(s, Sasi!NextBlock(s, ok), ok)
<1>1. s.blocks \in 0 .. 255 /\ s.sector \in Nat
  BY DEF SasiRecords
<1>2. PICK k \in 0 .. 255 : k = (s.blocks + 255) % 256
  BY <1>1
<1>3. (s.blocks = 1 <=> k = 0) /\ (s.blocks > 1 => k = s.blocks - 1)
  BY <1>1, <1>2
<1>4. PICK n \in SasiRecords : n = [s EXCEPT !.blocks = k]
  BY DEF SasiRecords
<1>5. /\ n.phase = s.phase /\ n.event = s.event /\ n.error = s.error /\ n.wrong = s.wrong
      /\ n.broken = s.broken /\ n.late = s.late /\ n.sector = s.sector /\ n.blocks = k
  BY <1>4 DEF SasiRecords
<1>6. PICK m \in SasiRecords : m = [n EXCEPT !.sector = @ + 1]
  <2>1. PICK j \in Nat : j = n.sector + 1
    BY DEF SasiRecords
  <2>2. [n EXCEPT !.sector = j] \in SasiRecords
    BY DEF SasiRecords
  <2> QED BY <2>1, <2>2
<1>7. /\ m.phase = s.phase /\ m.event = s.event /\ m.error = s.error /\ m.wrong = s.wrong
      /\ m.broken = s.broken /\ m.late = s.late /\ m.sector = s.sector + 1 /\ m.blocks = k
  BY <1>5, <1>6 DEF SasiRecords
<1>8. PICK t \in SasiRecords : t = Sasi!Seek(m, ok)
  BY SasiSeeks
<1>9. /\ t.phase = s.phase /\ t.event = s.event /\ t.error = s.error /\ t.wrong = s.wrong
      /\ t.broken = s.broken /\ t.late = s.late /\ t.sector = s.sector + 1 /\ t.blocks = k
      /\ t.pos = 0
      /\ ok => t.size = SasiBlockBytes /\ SasiRight(t.dat, t.sector, SasiBlockBytes)
  BY <1>7, <1>8, SasiSeeks
<1>10. PICK u \in SasiRecords : u = [t EXCEPT !.broken = TRUE]
  BY DEF SasiRecords
<1>11. u.phase = s.phase /\ u.event = s.event /\ u.wrong = s.wrong /\ u.late = s.late /\ u.broken
  BY <1>9, <1>10 DEF SasiRecords
<1>12. {"none", "fault"} \subseteq Sasi!Errors
  BY DEF Sasi!Errors
<1>13. Sasi!NextBlock(s, ok) =
         IF k = 0 THEN Sasi!SetStat(n, "none") ELSE IF ok THEN t ELSE Sasi!SetStat(u, "fault")
  BY <1>2, <1>4, <1>5, <1>6, <1>8, <1>10 DEF Sasi!NextBlock
<1>14. CASE k = 0
  <2>1. Sasi!NextBlock(s, ok) = Sasi!SetStat(n, "none")
    BY <1>13, <1>14
  <2> QED BY <1>3, <1>5, <1>12, <1>14, <2>1, SasiSets DEF SasiNext
<1>15. CASE k # 0 /\ ok
  <2>1. Sasi!NextBlock(s, ok) = t
    BY <1>13, <1>15
  <2> QED BY <1>3, <1>9, <1>15, <2>1 DEF SasiNext
<1>16. CASE k # 0 /\ ~ok
  <2>1. Sasi!NextBlock(s, ok) = Sasi!SetStat(u, "fault")
    BY <1>13, <1>16
  <2> QED BY <1>3, <1>11, <1>12, <1>16, <2>1, SasiSets DEF SasiNext
<1> QED BY <1>14, <1>15, <1>16

\* Bytes are counted through the blocks.
LEMMA SasiCounts ==
    ASSUME NEW b \in Nat, NEW n \in Nat
    PROVE  /\ b * SasiBlockBytes \in Nat
           /\ (b + 1) * SasiBlockBytes = b * SasiBlockBytes + SasiBlockBytes
           /\ b < n => b * SasiBlockBytes + SasiBlockBytes <= n * SasiBlockBytes
<1>1. PICK w \in Nat : w = SasiBlockBytes
  BY SasiAssumption
<1>2. b * w \in Nat /\ n * w \in Nat /\ (b + 1) * w = b * w + w
  OBVIOUS
<1>3. ASSUME b < n PROVE b * w + w <= n * w
  <2>1. PICK k \in Nat : n = b + 1 + k
    <3>1. n - b - 1 \in Nat /\ n = b + 1 + (n - b - 1)
      BY <1>3
    <3> QED BY <3>1
  <2>2. k * w \in Nat
    OBVIOUS
  <2>3. n * w = b * w + w + k * w
    BY <2>1
  <2> QED BY <1>2, <2>2, <2>3
<1> QED BY <1>1, <1>2, <1>3

LEMMA SasiByteReads ==
    ASSUME SasiInv, NEW ok \in BOOLEAN, Sasi!ReadByte(ok)
    PROVE  SasiInv'
<1>0. SasiBlockBytes \in Nat \ {0}
  BY SasiAssumption
<1> USE <1>0
<1>1. x1 \in SasiRecords /\ x3 \in {Sasi!Idle} \cup [op : SasiOps, n : SasiBlocks] /\ x4 \in Nat
  BY DEF SasiInv, SasiTyped
<1>2. x1.phase = "read" /\ x4 < x3.n * SasiBlockBytes /\ x4' = x4 + 1 /\ UNCHANGED <<x2, x3>>
  BY DEF Sasi!ReadByte, Sasi!Wanted
<1>3. x3.op = "read" /\ x3.n \in Nat /\ x3 # Sasi!Idle
  <2>1. x3 # Sasi!Idle /\ x3.op = "read"
    BY <1>2 DEF SasiInv, SasiStands, SasiData, Sasi!Idle
  <2>2. x3.n \in SasiBlocks
    BY <1>1, <2>1
  <2>3. \A n \in SasiBlocks : n \in Nat
    BY SasiAssumption
  <2> QED BY <2>1, <2>2, <2>3
<1>4. PICK w \in BOOLEAN : w = (x1.wrong \/ x1.dat[x1.pos] # x4 + 1)
  OBVIOUS
<1>5. PICK j \in Nat : j = x1.pos + 1
  BY <1>1 DEF SasiRecords
<1>6. PICK t \in SasiRecords : t = [x1 EXCEPT !.pos = j, !.late = x1.broken, !.wrong = w]
  <2>1. [x1 EXCEPT !.pos = j, !.late = x1.broken, !.wrong = w] \in SasiRecords
    BY <1>1 DEF SasiRecords
  <2> QED BY <2>1
<1>7. /\ t.phase = "read" /\ t.event = x1.event /\ t.error = x1.error /\ t.broken = x1.broken
      /\ t.blocks = x1.blocks /\ t.sector = x1.sector /\ t.size = x1.size /\ t.pos = j
      /\ t.dat = x1.dat /\ t.wrong = w /\ t.late = x1.broken
  BY <1>1, <1>2, <1>6 DEF SasiRecords
<1>8. x1' = IF t.pos >= t.size THEN Sasi!NextBlock(t, ok) ELSE t
  BY <1>4, <1>5, <1>6 DEF Sasi!ReadByte, Sasi!DataRead
<1>9. /\ x1' \in SasiRecords /\ x1'.phase = "read" /\ x1'.late = x1.broken
      /\ t.event = "own" => x1'.event = "own"
      /\ t.broken => x1'.broken
  BY <1>7, <1>8, SasiNexts DEF SasiNext
<1>10. SasiTyped'
  BY <1>2, <1>9 DEF SasiInv, SasiTyped
<1>11. CASE x1.broken
  <2>1. x1'.broken /\ x1'.event = "own" /\ x1'.late
    BY <1>2, <1>7, <1>9, <1>11 DEF SasiInv, SasiStands, SasiMoving, SasiData
  <2> QED BY <1>2, <1>3, <1>9, <1>10, <2>1 DEF SasiInv, SasiStands, SasiEnds, SasiData
<1>12. CASE ~x1.broken
  <2>1. x1.event # "own"
    BY <1>1, <1>2, <1>3, <1>12 DEF SasiInv, SasiStands, SasiEnds, SasiMoved, SasiData
  <2>2. SasiMoving(x1, x2, x3.n, x4)
    BY <1>2, <2>1 DEF SasiInv, SasiStands, SasiEnds, SasiData
  <2>3. x1.sector \in Nat /\ x1.pos \in Nat /\ x1.blocks \in 0 .. 255
    BY <1>1 DEF SasiRecords
  <2>4. /\ x1.size = SasiBlockBytes /\ x1.pos < SasiBlockBytes /\ x1.sector < x3.n
        /\ x1.blocks = x3.n - x1.sector /\ x4 = x1.sector * SasiBlockBytes + x1.pos
        /\ SasiRight(x1.dat, x1.sector, SasiBlockBytes) /\ ~x1.wrong
    BY <1>2, <2>2 DEF SasiMoving
  <2>5. ~w
    <3>1. x1.pos \in 0 .. SasiBlockBytes - 1
      BY <2>3, <2>4
    <3>2. PICK q \in Nat : q = x1.sector * SasiBlockBytes
      BY <2>3, SasiCounts
    <3>3. x1.dat[x1.pos] = q + x1.pos + 1
      BY <2>3, <2>4, <3>1, <3>2 DEF SasiRight
    <3>4. x1.dat[x1.pos] = x4 + 1
      BY <2>3, <2>4, <3>2, <3>3
    <3> QED BY <1>4, <2>4, <3>4
  <2>6. CASE j < SasiBlockBytes
    <3>1. x1' = t
      BY <1>7, <1>8, <2>4, <2>6
    <3>2. SasiMoving(t, x2, x3.n, x4 + 1)
      <4>1. x4 + 1 = x1.sector * SasiBlockBytes + j
        BY <1>5, <2>3, <2>4, SasiCounts
      <4> QED BY <1>7, <1>12, <2>3, <2>4, <2>5, <2>6, <4>1 DEF SasiMoving
    <3> QED BY <1>2, <1>3, <1>7, <1>10, <2>1, <3>1, <3>2 DEF SasiInv, SasiStands, SasiEnds, SasiData
  <2>7. CASE j = SasiBlockBytes
    <3>1. SasiNext(t, x1', ok)
      BY <1>7, <1>8, <2>4, <2>7, SasiNexts
    <3>2. x4 + 1 = (x1.sector + 1) * SasiBlockBytes
      BY <1>5, <2>3, <2>4, <2>7, SasiCounts
    <3>3. CASE x1.blocks = 1
      <4>1. x3.n = x1.sector + 1
        BY <1>3, <2>3, <2>4, <3>3
      <4>2. x1'.event = "own" /\ x1'.error = "none" /\ ~x1'.broken /\ ~x1'.wrong
        BY <1>7, <1>12, <2>5, <3>1, <3>3 DEF SasiNext
      <4>3. SasiMoved(x1', x2, "read", x3.n, x4 + 1)
        BY <3>2, <4>1, <4>2 DEF SasiMoved
      <4> QED BY <1>2, <1>3, <1>9, <1>10, <4>2, <4>3 DEF SasiInv, SasiStands, SasiEnds, SasiData
    <3>4. CASE x1.blocks # 1
      <4>1. x1.blocks > 1 /\ x1.sector + 1 < x3.n
        BY <1>3, <2>3, <2>4, <3>4
      <4>2. CASE ok
        <5>1. /\ x1'.event = x1.event /\ ~x1'.broken /\ ~x1'.wrong /\ x1'.pos = 0
              /\ x1'.size = SasiBlockBytes /\ x1'.sector = x1.sector + 1
              /\ x1'.blocks = x1.blocks - 1 /\ SasiRight(x1'.dat, x1'.sector, SasiBlockBytes)
          BY <1>7, <1>12, <2>5, <3>1, <4>1, <4>2 DEF SasiNext
        <5>2. x4 + 1 = x1'.sector * SasiBlockBytes + x1'.pos
          BY <2>3, <3>2, <5>1, SasiCounts
        <5>3. SasiMoving(x1', x2, x3.n, x4 + 1)
          BY <1>3, <1>9, <2>3, <2>4, <4>1, <5>1, <5>2 DEF SasiMoving
        <5> QED BY <1>2, <1>3, <1>9, <1>10, <2>1, <5>1, <5>3 DEF SasiInv, SasiStands, SasiEnds, SasiData
      <4>3. CASE ~ok
        <5>1. x1'.event = "own" /\ x1'.broken /\ x1'.error = "fault"
          BY <1>7, <3>1, <4>1, <4>3 DEF SasiNext
        <5> QED BY <1>2, <1>3, <1>9, <1>10, <5>1 DEF SasiInv, SasiStands, SasiEnds, SasiData
      <4> QED BY <4>2, <4>3
    <3> QED BY <3>3, <3>4
  <2> QED BY <1>5, <2>3, <2>4, <2>6, <2>7
<1> QED BY <1>11, <1>12

LEMMA SasiByteWrites ==
    ASSUME SasiInv, NEW stores \in BOOLEAN, NEW ok \in BOOLEAN, Sasi!WriteByte(stores, ok)
    PROVE  SasiInv'
<1>0. SasiBlockBytes \in Nat \ {0}
  BY SasiAssumption
<1> USE <1>0
<1>1. /\ x1 \in SasiRecords /\ x2 \in [Sasi!Sector -> SasiBytes]
      /\ x3 \in {Sasi!Idle} \cup [op : SasiOps, n : SasiBlocks] /\ x4 \in Nat
  BY DEF SasiInv, SasiTyped
<1>2. x1.phase = "write" /\ x4 < x3.n * SasiBlockBytes /\ x4' = x4 + 1 /\ x3' = x3
  BY DEF Sasi!WriteByte, Sasi!Wanted
<1>3. x3.op = "write" /\ x3.n \in SasiBlocks /\ x3.n \in Nat /\ x3 # Sasi!Idle
  <2>1. x3 # Sasi!Idle /\ x3.op = "write"
    BY <1>2 DEF SasiInv, SasiStands, SasiData, Sasi!Idle
  <2>2. x3.n \in SasiBlocks
    BY <1>1, <2>1
  <2>3. \A n \in SasiBlocks : n \in Nat
    BY SasiAssumption
  <2> QED BY <2>1, <2>2, <2>3
<1>4. PICK d \in SasiBytes : d = [x1.dat EXCEPT ![x1.pos] = x4 + 1]
  <2>1. x1.dat \in SasiBytes
    BY <1>1 DEF SasiRecords
  <2>2. PICK v \in Nat : v = x4 + 1
    BY <1>1
  <2>3. [x1.dat EXCEPT ![x1.pos] = v] \in SasiBytes
    BY <2>1 DEF SasiBytes
  <2> QED BY <2>2, <2>3
<1>5. PICK j \in Nat : j = x1.pos + 1
  BY <1>1 DEF SasiRecords
<1>6. PICK t \in SasiRecords : t = [x1 EXCEPT !.dat = d, !.pos = j, !.late = x1.broken]
  <2>1. [x1 EXCEPT !.dat = d, !.pos = j, !.late = x1.broken] \in SasiRecords
    BY <1>1 DEF SasiRecords
  <2> QED BY <2>1
<1>7. /\ t.phase = "write" /\ t.event = x1.event /\ t.error = x1.error /\ t.broken = x1.broken
      /\ t.blocks = x1.blocks /\ t.sector = x1.sector /\ t.size = x1.size /\ t.pos = j
      /\ t.dat = d /\ t.wrong = x1.wrong /\ t.late = x1.broken
  BY <1>1, <1>2, <1>6 DEF SasiRecords
<1>8. PICK f \in SasiRecords : f = [t EXCEPT !.pos = 0, !.size = 0]
  BY DEF SasiRecords
<1>9. /\ f.phase = "write" /\ f.event = x1.event /\ f.error = x1.error /\ f.broken = x1.broken
      /\ f.blocks = x1.blocks /\ f.sector = x1.sector /\ f.wrong = x1.wrong /\ f.late = x1.broken
  BY <1>7, <1>8 DEF SasiRecords
<1>10. PICK g \in SasiRecords : g = [f EXCEPT !.broken = TRUE]
  BY DEF SasiRecords
<1>11. g.phase = "write" /\ g.broken /\ g.late = x1.broken
  BY <1>9, <1>10 DEF SasiRecords
<1>12. "fault" \in Sasi!Errors
  BY DEF Sasi!Errors
<1>13. x1' = IF ~(j >= x1.size) THEN t ELSE IF ~stores THEN Sasi!SetStat(g, "fault")
             ELSE Sasi!NextBlock(f, ok)
  BY <1>4, <1>5, <1>6, <1>8, <1>10 DEF Sasi!WriteByte, Sasi!DataWrite, Sasi!Full, Sasi!Stored
<1>14. x2' = IF j >= x1.size /\ stores THEN [x2 EXCEPT ![x1.sector] = d] ELSE x2
  BY <1>4, <1>5 DEF Sasi!WriteByte, Sasi!Full, Sasi!Stored
<1>15. /\ x1' \in SasiRecords /\ x1'.phase = "write" /\ x1'.late = x1.broken
       /\ x1.event = "own" => x1'.event = "own"
       /\ x1.broken => x1'.broken
  <2>1. CASE ~(j >= x1.size)
    BY <1>7, <1>13, <2>1
  <2>2. CASE j >= x1.size /\ ~stores
    <3>1. x1' = Sasi!SetStat(g, "fault")
      BY <1>13, <2>2
    <3> QED BY <1>11, <1>12, <3>1, SasiSets
  <2>3. CASE j >= x1.size /\ stores
    <3>1. SasiNext(f, x1', ok)
      BY <1>13, <2>3, SasiNexts
    <3> QED BY <1>9, <3>1 DEF SasiNext
  <2> QED BY <2>1, <2>2, <2>3
<1>16. SasiTyped'
  <2>1. x2' \in [Sasi!Sector -> SasiBytes]
    BY <1>1, <1>14
  <2> QED BY <1>1, <1>2, <1>15, <2>1 DEF SasiTyped
<1>17. CASE x1.broken
  <2>1. x1'.broken /\ x1'.event = "own" /\ x1'.late
    BY <1>2, <1>15, <1>17 DEF SasiInv, SasiStands, SasiMoving, SasiData
  <2> QED BY <1>2, <1>3, <1>15, <1>16, <2>1 DEF SasiInv, SasiStands, SasiEnds, SasiData
<1>18. CASE ~x1.broken
  <2>1. x1.event # "own"
    BY <1>1, <1>2, <1>3, <1>18 DEF SasiInv, SasiStands, SasiEnds, SasiMoved, SasiData
  <2>2. SasiMoving(x1, x2, x3.n, x4)
    BY <1>2, <2>1 DEF SasiInv, SasiStands, SasiEnds, SasiData
  <2>3. x1.sector \in Nat /\ x1.pos \in Nat /\ x1.blocks \in 0 .. 255 /\ x1.dat \in SasiBytes
    BY <1>1 DEF SasiRecords
  <2>4. /\ x1.size = SasiBlockBytes /\ x1.pos < SasiBlockBytes /\ x1.sector < x3.n
        /\ x1.blocks = x3.n - x1.sector /\ x4 = x1.sector * SasiBlockBytes + x1.pos
        /\ SasiRight(x1.dat, x1.sector, x1.pos) /\ ~x1.wrong
        /\ \A b \in Sasi!Sector : b < x1.sector => SasiRight(x2[b], b, SasiBlockBytes)
    BY <1>2, <2>2 DEF SasiMoving
  <2>9. x1.pos < SasiBlockBytes /\ x4 = x1.sector * SasiBlockBytes + x1.pos /\ SasiBlockBytes \in Nat
    BY <2>4, SasiAssumption
  <2>10. PICK q \in Nat : q = x1.sector * SasiBlockBytes /\ x4 = q + x1.pos
                          /\ (x1.sector + 1) * SasiBlockBytes = q + SasiBlockBytes
    BY <2>3, <2>9, SasiCounts
  <2>5. SasiRight(d, x1.sector, j)
    <3>2. d[x1.pos] = q + x1.pos + 1
      BY <1>4, <2>3, <2>9, <2>10 DEF SasiBytes
    <3>3. ASSUME NEW i \in 0 .. SasiBlockBytes - 1, i < j PROVE d[i] = q + i + 1
      <4>1. CASE i = x1.pos
        BY <3>2, <4>1
      <4>2. CASE i # x1.pos
        <5>1. i < x1.pos /\ d[i] = x1.dat[i]
          BY <1>4, <1>5, <2>3, <3>3, <4>2 DEF SasiBytes
        <5> QED BY <2>4, <2>10, <5>1 DEF SasiRight
      <4> QED BY <4>1, <4>2
    <3> QED BY <2>10, <3>3 DEF SasiRight
  <2>6. CASE j < SasiBlockBytes
    <3>1. x1' = t /\ x2' = x2
      BY <1>13, <1>14, <2>3, <2>4, <2>6
    <3>2. SasiMoving(t, x2, x3.n, x4 + 1)
      <4>1. x4 + 1 = x1.sector * SasiBlockBytes + j
        BY <1>5, <2>3, <2>10
      <4> QED BY <1>7, <1>18, <2>3, <2>4, <2>5, <2>6, <4>1 DEF SasiMoving
    <3> QED BY <1>2, <1>3, <1>7, <1>16, <2>1, <3>1, <3>2 DEF SasiInv, SasiStands, SasiEnds, SasiData
  <2>7. CASE j = SasiBlockBytes /\ ~stores
    <3>1. x1' = Sasi!SetStat(g, "fault")
      BY <1>13, <2>4, <2>7
    <3>2. x1'.event = "own" /\ x1'.broken /\ x1'.error = "fault"
      BY <1>11, <1>12, <3>1, SasiSets
    <3> QED BY <1>2, <1>3, <1>15, <1>16, <3>2 DEF SasiInv, SasiStands, SasiEnds, SasiData
  <2>8. CASE j = SasiBlockBytes /\ stores
    <3>1. SasiNext(f, x1', ok)
      BY <1>13, <2>4, <2>8, SasiNexts
    <3>2. x4 + 1 = (x1.sector + 1) * SasiBlockBytes
      BY <1>5, <2>3, <2>8, <2>9, <2>10
    <3>3. x2' = [x2 EXCEPT ![x1.sector] = d]
      BY <1>14, <2>4, <2>8
    <3>4. \A b \in Sasi!Sector : b < x1.sector + 1 => SasiRight(x2'[b], b, SasiBlockBytes)
      <4>1. SUFFICES ASSUME NEW b \in Sasi!Sector, b < x1.sector + 1
                     PROVE  SasiRight(x2'[b], b, SasiBlockBytes)
        OBVIOUS
      <4>2. b \in Nat
        BY DEF Sasi!Sector
      <4>3. CASE b = x1.sector
        BY <1>1, <2>5, <2>8, <3>3, <4>3
      <4>4. CASE b # x1.sector
        <5>1. b < x1.sector /\ x2'[b] = x2[b]
          BY <1>1, <2>3, <3>3, <4>1, <4>2, <4>4
        <5> QED BY <2>4, <5>1
      <4> QED BY <4>3, <4>4
    <3>5. CASE x1.blocks = 1
      <4>1. x3.n = x1.sector + 1
        BY <1>3, <2>3, <2>4, <3>5
      <4>2. x1'.event = "own" /\ x1'.error = "none" /\ ~x1'.broken /\ ~x1'.wrong
        BY <1>9, <1>18, <2>4, <3>1, <3>5 DEF SasiNext
      <4>3. SasiMoved(x1', x2', "write", x3.n, x4 + 1)
        BY <3>2, <3>4, <4>1, <4>2 DEF SasiMoved
      <4> QED BY <1>2, <1>3, <1>15, <1>16, <4>2, <4>3 DEF SasiInv, SasiStands, SasiEnds, SasiData
    <3>6. CASE x1.blocks # 1
      <4>1. x1.blocks > 1 /\ x1.sector + 1 < x3.n
        BY <1>3, <2>3, <2>4, <3>6
      <4>2. CASE ok
        <5>1. /\ x1'.event = x1.event /\ ~x1'.broken /\ ~x1'.wrong /\ x1'.pos = 0
              /\ x1'.size = SasiBlockBytes /\ x1'.sector = x1.sector + 1
              /\ x1'.blocks = x1.blocks - 1
          BY <1>9, <1>18, <2>4, <3>1, <4>1, <4>2 DEF SasiNext
        <5>2. x4 + 1 = x1'.sector * SasiBlockBytes + x1'.pos
          <6>1. PICK k : k = (x1.sector + 1) * SasiBlockBytes /\ k \in Nat
            BY <2>3, <2>10
          <6> QED BY <3>2, <5>1, <6>1
        <5>3. SasiRight(x1'.dat, x1'.sector, 0)
          BY <5>1 DEF SasiRight
        <5>4. SasiMoving(x1', x2', x3.n, x4 + 1)
          BY <1>3, <1>15, <2>3, <2>4, <3>4, <4>1, <5>1, <5>2, <5>3 DEF SasiMoving
        <5> QED BY <1>2, <1>3, <1>15, <1>16, <2>1, <5>1, <5>4 DEF SasiInv, SasiStands, SasiEnds, SasiData
      <4>3. CASE ~ok
        <5>1. x1'.event = "own" /\ x1'.broken /\ x1'.error = "fault"
          BY <1>9, <3>1, <4>1, <4>3 DEF SasiNext
        <5> QED BY <1>2, <1>3, <1>15, <1>16, <5>1 DEF SasiInv, SasiStands, SasiEnds, SasiData
      <4> QED BY <4>2, <4>3
    <3> QED BY <3>5, <3>6
  <2> QED BY <1>5, <2>3, <2>4, <2>6, <2>7, <2>8
<1> QED BY <1>17, <1>18

\* A command: the guest is told at once, or its bytes begin to move.
LEMMA SasiIsCommanded ==
    ASSUME SasiInv, NEW op \in SasiOps, NEW unit \in {0, 1}, NEW n \in SasiBlocks, NEW ok \in BOOLEAN,
           Sasi!Command(op, unit, n, ok)
    PROVE  SasiInv'
<1>0. SasiBlockBytes \in Nat \ {0} /\ n \in 0 .. 255
  BY SasiAssumption
<1>1. x1 \in SasiRecords
  BY DEF SasiInv, SasiTyped
<1>2. x3' = [op |-> op, n |-> n] /\ x2' = Sasi!Blank /\ x4' = 0
  BY DEF Sasi!Command
<1>3. x3' # Sasi!Idle /\ x3'.op = op /\ x3'.n = n
  BY <1>2, SasiAssumption DEF Sasi!Idle
<1>4. x2' \in [Sasi!Sector -> SasiBytes]
  BY <1>0, <1>2 DEF Sasi!Blank, SasiBytes
<1>5. PICK s0 \in SasiRecords : s0 = [x1 EXCEPT !.phase = "cmd", !.bytes = 0]
  BY <1>1 DEF SasiRecords, Sasi!Phases
<1>6. PICK s \in SasiRecords :
        s = [s0 EXCEPT !.wrong = FALSE, !.broken = FALSE, !.late = FALSE, !.cut = FALSE]
  <2>1. [s0 EXCEPT !.wrong = FALSE, !.broken = FALSE, !.late = FALSE, !.cut = FALSE] \in SasiRecords
    BY DEF SasiRecords
  <2> QED BY <2>1
<1>7. s.phase = "cmd" /\ s.event = x1.event /\ ~s.wrong /\ ~s.broken
  BY <1>1, <1>5, <1>6 DEF SasiRecords
<1>8. x1' = Sasi!Check(s, op, unit, n, ok) /\ x1.phase = "free"
  BY <1>5, <1>6 DEF Sasi!Command
<1>9. x1.event # "own"
  BY <1>8 DEF SasiInv, SasiStands
<1> DEFINE present == unit \in SasiDrives
           drive == [s EXCEPT !.check = ~present]
           data == [s EXCEPT !.sector = 0, !.blocks = n, !.check = FALSE]
           plain == [s EXCEPT !.check = FALSE]
           sense == [s EXCEPT !.phase = "sense", !.bytes = Sasi!SenseBytes, !.error = "none", !.check = FALSE]
           c2 == [s EXCEPT !.phase = "c2", !.bytes = Sasi!C2Bytes, !.check = FALSE]
<1>10. {"none", "absent", "fault"} \subseteq Sasi!Errors
  BY DEF Sasi!Errors
\* Commands that end at once.
<1>11. ASSUME NEW t \in SasiRecords, t.phase = "cmd", ~t.broken, NEW code \in Sasi!Errors,
              x1' = Sasi!SetStat(t, code), op \in SasiData => code # "none"
       PROVE  SasiInv'
  <2>1. /\ x1' \in SasiRecords /\ x1'.phase = "cmd" /\ x1'.event = "own"
        /\ x1'.error = code /\ ~x1'.broken
    BY <1>11, SasiSets
  <2> QED BY <1>2, <1>3, <1>4, <1>11, <2>1 DEF SasiInv, SasiTyped, SasiStands, SasiEnds, SasiData
<1>12. drive \in SasiRecords /\ drive.phase = "cmd" /\ ~drive.broken
  <2>1. PICK b \in BOOLEAN : b = ~present
    OBVIOUS
  <2>2. drive = [s EXCEPT !.check = b]
    BY <2>1
  <2> QED BY <1>7, <2>2 DEF SasiRecords
<1>13. plain \in SasiRecords /\ plain.phase = "cmd" /\ ~plain.broken
  BY <1>7 DEF SasiRecords
<1>14. data \in SasiRecords /\ data.phase = "cmd" /\ ~data.broken
  BY <1>0, <1>7 DEF SasiRecords
<1>15. CASE op \in {"ready", "recalibrate"}
  <2>1. PICK code \in Sasi!Errors : code = IF present THEN "none" ELSE "absent"
    BY <1>10
  <2>2. x1' = Sasi!SetStat(drive, code)
    BY <1>8, <1>15, <2>1 DEF Sasi!Check
  <2> QED BY <1>11, <1>12, <1>15, <2>2 DEF SasiData
<1>16. CASE op = "sense"
  <2>1. x1' = sense
    BY <1>8, <1>16 DEF Sasi!Check
  <2>2. [s EXCEPT !.phase = "sense", !.bytes = 2] \in SasiRecords
    BY DEF SasiRecords, Sasi!Phases
  <2>3. PICK t \in SasiRecords : t = [s EXCEPT !.phase = "sense", !.bytes = 2]
    BY <2>2
  <2>4. [t EXCEPT !.error = "none", !.check = FALSE] \in SasiRecords
    BY DEF SasiRecords, Sasi!Errors
  <2>5. x1' = [t EXCEPT !.error = "none", !.check = FALSE]
    BY <2>1, <2>3 DEF Sasi!SenseBytes
  <2>6. x1' \in SasiRecords /\ x1'.phase = "sense" /\ x1'.bytes = 2 /\ x1'.event # "own"
    BY <1>7, <1>9, <2>3, <2>4, <2>5 DEF SasiRecords
  <2> QED BY <1>2, <1>3, <1>4, <1>16, <2>6 DEF SasiInv, SasiTyped, SasiStands, SasiEnds, SasiData
<1>17. CASE op = "formatdrive"
  <2>1. x1' = Sasi!SetStat(plain, "fault")
    BY <1>8, <1>17 DEF Sasi!Check
  <2> QED BY <1>10, <1>11, <1>13, <1>17, <2>1 DEF SasiData
<1>18. CASE op = "formattrack"
  <2>1. PICK code \in Sasi!Errors : code = IF present /\ ok THEN "none" ELSE "fault"
    BY <1>10
  <2>2. x1' = Sasi!SetStat(data, code)
    BY <1>8, <1>18, <2>1 DEF Sasi!Check
  <2> QED BY <1>11, <1>14, <1>18, <2>2 DEF SasiData
<1>19. CASE op = "c2"
  <2>1. x1' = c2
    BY <1>8, <1>19 DEF Sasi!Check
  <2>2. PICK t \in SasiRecords : t = [s EXCEPT !.phase = "c2", !.bytes = 2]
    BY DEF SasiRecords, Sasi!Phases
  <2>3. x1' = [t EXCEPT !.check = FALSE]
    BY <2>1, <2>2 DEF Sasi!C2Bytes
  <2>6. [t EXCEPT !.check = FALSE] \in SasiRecords
    BY DEF SasiRecords
  <2>5. x1' \in SasiRecords
    BY <2>3, <2>6
  <2>4. x1' \in SasiRecords /\ x1'.phase = "c2" /\ x1'.bytes = 2 /\ x1'.event # "own"
    BY <2>5, <1>7, <1>9, <2>2, <2>3 DEF SasiRecords
  <2> QED BY <1>2, <1>3, <1>4, <1>19, <2>4 DEF SasiInv, SasiTyped, SasiStands, SasiEnds, SasiData
<1>20. CASE op \in SasiData
  <2>1. PICK can \in BOOLEAN : can = (present /\ ok)
    OBVIOUS
  <2>2. PICK t \in SasiRecords : t = IF n = 0 THEN data ELSE Sasi!Seek(data, can)
    BY <1>14, SasiSeeks
  <2>3. /\ t.phase = "cmd" /\ t.event = s.event /\ t.wrong = s.wrong /\ t.broken = s.broken
        /\ t.sector = 0 /\ t.blocks = n
        /\ n # 0 /\ can => t.pos = 0 /\ t.size = SasiBlockBytes /\ SasiRight(t.dat, 0, SasiBlockBytes)
    <3>1. /\ data.phase = "cmd" /\ data.event = s.event /\ data.wrong = s.wrong
          /\ data.broken = s.broken /\ data.sector = 0 /\ data.blocks = n
      BY <1>7 DEF SasiRecords
    <3>2. PICK e \in SasiRecords : e = data
      BY <1>14
    <3> HIDE DEF data
    <3> QED BY <2>2, <3>1, <3>2, SasiSeeks
  <2>4. x1' = IF n # 0 /\ can THEN Sasi!Dmac([t EXCEPT !.phase = op]) ELSE Sasi!SetStat(t, "fault")
    BY <1>8, <1>20, <2>1, <2>2 DEF Sasi!Check, SasiData
  <2>5. CASE ~(n # 0 /\ can)
    BY <1>7, <1>10, <1>11, <2>3, <2>4, <2>5
  <2>6. CASE n # 0 /\ can
    <3>1. PICK u \in SasiRecords : u = [t EXCEPT !.phase = op]
      BY <1>20 DEF SasiRecords, Sasi!Phases, SasiData
    <3>2. /\ u.phase = op /\ u.event # "own" /\ ~u.wrong /\ ~u.broken /\ u.sector = 0 /\ u.blocks = n
          /\ u.pos = 0 /\ u.size = SasiBlockBytes /\ SasiRight(u.dat, 0, SasiBlockBytes)
      BY <1>7, <1>9, <2>3, <2>6, <3>1 DEF SasiRecords
    <3>3. x1' = Sasi!Dmac(u)
      BY <2>4, <2>6, <3>1
    <3>4. x1' \in SasiRecords /\ SasiSame(u, x1')
      BY <3>3, SasiDmacs
    <3>5. 0 = 0 * SasiBlockBytes + 0
      BY <1>0
    <3>6. SasiRight(x1'.dat, 0, 0)
      BY DEF SasiRight
    <3>7. /\ x1'.phase = op /\ x1'.event # "own" /\ ~x1'.wrong /\ ~x1'.broken /\ x1'.sector = 0
          /\ x1'.blocks = n /\ x1'.pos = 0 /\ x1'.size = SasiBlockBytes
          /\ SasiRight(x1'.dat, 0, SasiBlockBytes)
      BY <3>2, <3>4 DEF SasiSame
    <3>8. \A b \in Sasi!Sector : ~(b < 0)
      BY <1>0, SasiAssumption DEF Sasi!Sector
    <3>9. SasiMoving(x1', x2', n, 0)
      BY <1>0, <2>6, <3>5, <3>6, <3>7, <3>8 DEF SasiMoving
    <3> QED BY <1>2, <1>3, <1>4, <1>20, <3>4, <3>7, <3>9 DEF SasiInv, SasiTyped, SasiStands, SasiEnds, SasiData
  <2> QED BY <2>5, <2>6
<1>21. CASE op \notin {"ready", "recalibrate", "sense", "formatdrive", "formattrack", "c2"} \cup SasiData
  <2>1. x1' = Sasi!SetStat(s, "none")
    BY <1>8, <1>21 DEF Sasi!Check, SasiData
  <2> QED BY <1>7, <1>10, <1>11, <1>21, <2>1
<1> QED BY <1>15, <1>16, <1>17, <1>18, <1>19, <1>20, <1>21

LEMMA SasiStutters ==
    ASSUME SasiInv, UNCHANGED <<x1, x2, x3, x4>>
    PROVE  SasiInv'
<1>1. x1' \in SasiRecords /\ SasiSame(x1, x1')
  BY DEF SasiInv, SasiTyped, SasiSame
<1> QED BY <1>1, SasiStays

LEMMA SasiSteps ==
    ASSUME SasiInv, Sasi!Next
    PROVE  SasiInv'
<1>1. CASE Sasi!Stop
  BY <1>1, SasiStutters DEF Sasi!Stop, Sasi!vars
<1> QED BY <1>1, SasiEvents, SasiOthers, SasiReads, SasiIsrs, SasiControls, SasiIsCommanded,
           SasiByteReads, SasiByteWrites DEF Sasi!Next

\* What the invariant says of the guest's command.
LEMMA SasiFollows == SasiInv => Sasi!StatusOwed /\ Sasi!GoodMeansMoved
<1> SUFFICES ASSUME SasiInv PROVE Sasi!StatusOwed /\ Sasi!GoodMeansMoved
  OBVIOUS
<1>1. x1 \in SasiRecords /\ x3 \in {Sasi!Idle} \cup [op : SasiOps, n : SasiBlocks]
      /\ x2 \in [Sasi!Sector -> SasiBytes]
  BY DEF SasiInv, SasiTyped
<1>2. \A n \in SasiBlocks : n \in Nat
  BY SasiAssumption
<1>3. Sasi!StatusOwed
  <2>1. SUFFICES ASSUME x3 # Sasi!Idle, ~(x4 < x3.n * SasiBlockBytes), x1.bytes = 0,
                        x1.event # "own", x1.phase \notin {"stat", "msg"}
                 PROVE  FALSE
    BY DEF Sasi!StatusOwed, Sasi!Wanted
  <2>2. x1.phase \in SasiData
    BY <1>1, <2>1 DEF SasiInv, SasiStands, SasiRecords, Sasi!Phases, SasiData
  <2>3. SasiMoving(x1, x2, x3.n, x4)
    BY <2>1, <2>2 DEF SasiInv, SasiStands
  <2>4. x1.sector \in Nat /\ x1.pos \in Nat /\ x3.n \in Nat /\ SasiBlockBytes \in Nat
    BY <1>1, <1>2, <2>1, SasiAssumption DEF SasiRecords
  <2>5. /\ x1.sector < x3.n /\ x1.pos < SasiBlockBytes
        /\ x4 = x1.sector * SasiBlockBytes + x1.pos
    BY <2>3 DEF SasiMoving
  <2>6. PICK q \in Nat, m \in Nat : q = x1.sector * SasiBlockBytes /\ m = x3.n * SasiBlockBytes
                            /\ q + SasiBlockBytes <= m
    BY <2>4, <2>5, SasiCounts
  <2> QED BY <2>1, <2>4, <2>5, <2>6
<1>4. Sasi!GoodMeansMoved
  <2>1. SUFFICES ASSUME x1.phase = "stat", x1.error = "none", ~x1.late, ~x1.cut,
                        x3.op \in SasiData
                 PROVE  /\ x3.op = "read" => ~(x4 < x3.n * SasiBlockBytes) /\ ~x1.wrong
                        /\ x3.op = "write" => \A b \in 0 .. (x3.n - 1) : x2[b] = Sasi!Block(b)
    BY DEF Sasi!GoodMeansMoved, Sasi!Wanted, SasiData
  <2>2. SasiMoved(x1, x2, x3.op, x3.n, x4)
    BY <2>1 DEF SasiInv, SasiStands, SasiEnds
  <2>3. x3.n \in SasiBlocks /\ x3.n \in Nat
    <3>1. x3 # Sasi!Idle
      BY <2>1 DEF Sasi!Idle, SasiData
    <3>2. x3.n \in SasiBlocks
      BY <1>1, <3>1
    <3> QED BY <1>2, <3>2
  <2>4. ~(x4 < x3.n * SasiBlockBytes)
    <3>1. PICK m \in Nat : m = x3.n * SasiBlockBytes
      BY <2>3, SasiCounts
    <3> QED BY <2>2, <3>1 DEF SasiMoved
  <2>5. ASSUME x3.op = "write", NEW b \in 0 .. (x3.n - 1) PROVE x2[b] = Sasi!Block(b)
    <3>1. b \in Sasi!Sector /\ b < x3.n
      <4>1. b \in 0 .. x3.n
        BY <2>3
      <4> QED BY <2>3, <4>1 DEF Sasi!Sector
    <3>2. SasiRight(x2[b], b, SasiBlockBytes) /\ x2[b] \in SasiBytes
      BY <1>1, <2>2, <2>5, <3>1 DEF SasiMoved
    <3> HIDE DEF SasiInv
    <3>3. PICK f \in SasiBytes : f = x2[b] /\ SasiRight(f, b, SasiBlockBytes)
      BY <3>2
    <3>4. \A i \in 0 .. SasiBlockBytes - 1 : f[i] = b * SasiBlockBytes + i + 1
      BY <3>3, SasiAssumption DEF SasiRight
    <3>5. f = Sasi!Block(b)
      BY <3>4 DEF SasiBytes, Sasi!Block
    <3> QED BY <3>3, <3>5
  <2> QED BY <2>2, <2>4, <2>5 DEF SasiMoved
<1> QED BY <1>3, <1>4

-----------------------------------------------------------------------------
(***************************************************************************)
(* The cassette recorder.                                                  *)
(***************************************************************************)
CmtAllTapes == CmtTapes \cup {CmtNoTape}
CmtTones == {"blank", "space", "mark"}
CmtBlocks == [at : Nat, length : Nat \ {0}, kind : CmtTones]
CmtRecords ==
    [tape : CmtAllTapes, pos : Nat, tonepos : Nat, leadpos : 0 .. 2, tone : {"none"} \cup CmtTones,
     raw : BOOLEAN, remain : Int, motor : BOOLEAN, selected : BOOLEAN, rxe : BOOLEAN,
     rxready : BOOLEAN, data : Nat, saving : BOOLEAN, armed : BOOLEAN, fast : BOOLEAN]

\* A block of the tape, or of a raw image's leader, sounds.
CmtOwn(c) == c.tone # "none" /\ ~c.raw
CmtLeads(c) == c.tone # "none" /\ c.raw

\* The places of the tape and of its blocks.
CmtPlaced(c) ==
    /\ c.pos <= Cmt!Size(c) /\ c.tonepos <= Len(Cmt!Blocks(c))
    /\ CmtOwn(c) => c.tonepos > 0
    /\ CmtLeads(c) => c.leadpos > 0
    /\ c.leadpos < 2 \/ CmtLeads(c) => Cmt!Blocks(c) = <<>>

CmtSounding(c) == c.tone # "none" => c.armed /\ Cmt!Plays(c)
CmtMoves(c) == Cmt!Running(c) /\ (c.rxready \/ c.pos < Cmt!Size(c)) => c.armed

CmtFetched(c, last) ==
    IF c.rxready /\ c.data # Cmt!Gap THEN c.data = c.pos /\ last = c.pos - 1 ELSE last = c.pos

\* The blocks that have sounded to their end.
CmtSounded(c) == IF CmtOwn(c) THEN c.tonepos - 1 ELSE c.tonepos
CmtInPlace(c, whole) ==
    /\ whole = CmtSounded(c)
    /\ \A i \in DOMAIN Cmt!Blocks(c) : Cmt!Blocks(c)[i].at < c.pos => i <= whole

CmtInv ==
    /\ x1 \in CmtRecords /\ x4 \in BOOLEAN
    /\ CmtPlaced(x1) /\ CmtSounding(x1) /\ CmtMoves(x1)
    /\ CmtFetched(x1, x2)
    /\ ~x4 => CmtInPlace(x1, x3)

LEMMA CmtTapesTyped ==
    ASSUME NEW c \in CmtRecords
    PROVE  /\ Cmt!Size(c) \in Nat
           /\ Len(Cmt!Blocks(c)) \in Nat /\ DOMAIN Cmt!Blocks(c) = 1 .. Len(Cmt!Blocks(c))
           /\ \A i \in 1 .. Len(Cmt!Blocks(c)) :
                /\ Cmt!Blocks(c)[i].at \in Nat /\ Cmt!Blocks(c)[i].length \in Nat
                /\ Cmt!Blocks(c)[i].kind \in CmtTones
           /\ \A i, j \in 1 .. Len(Cmt!Blocks(c)) :
                i < j => Cmt!Blocks(c)[i].at <= Cmt!Blocks(c)[j].at
<1>1. c.tape \in CmtTapes \cup {CmtNoTape}
  BY DEF CmtRecords, CmtAllTapes
<1>2. PICK n, b : n = c.tape.size /\ b = c.tape.blocks
  OBVIOUS
<1>3. /\ n \in Nat
      /\ b \in Seq(CmtBlocks)
      /\ \A i, j \in DOMAIN b : i < j => b[i].at <= b[j].at
  BY <1>1, <1>2, CmtAssumption DEF CmtTones, CmtBlocks
<1>4. Len(b) \in Nat /\ DOMAIN b = 1 .. Len(b)
  BY <1>3
<1>5. \A i \in 1 .. Len(b) : b[i] \in CmtBlocks
  BY <1>3
<1>6. \A i \in 1 .. Len(b) : b[i].at \in Nat /\ b[i].length \in Nat /\ b[i].kind \in CmtTones
  BY <1>5 DEF CmtBlocks
<1> QED BY <1>2, <1>3, <1>4, <1>6 DEF Cmt!Size, Cmt!Blocks

\* What the deciding again of whether the event is armed leaves as it is.
CmtSame(c, t) ==
    /\ t.tape = c.tape /\ t.pos = c.pos /\ t.rxready = c.rxready /\ t.data = c.data
    /\ t.motor = c.motor /\ t.selected = c.selected /\ t.rxe = c.rxe

LEMMA CmtSound ==
    ASSUME NEW c \in CmtRecords, NEW t, NEW raw \in BOOLEAN, t.kind \in CmtTones, t.length \in Int,
           raw => c.leadpos < 2
    PROVE  LET u == Cmt!Sounds(c, t, raw) IN
           /\ u \in CmtRecords /\ CmtSame(c, u)
           /\ u.tone \in CmtTones /\ u.raw = raw /\ u.armed
           /\ u.tonepos = IF raw THEN c.tonepos ELSE c.tonepos + 1
           /\ u.leadpos = IF raw THEN c.leadpos + 1 ELSE IF c.fast THEN 2 ELSE c.leadpos
<1>1. PICK l \in 0 .. 2 : l = IF raw THEN c.leadpos + 1 ELSE IF c.fast THEN 2 ELSE c.leadpos
  BY DEF CmtRecords
<1>2. PICK p \in Nat : p = IF raw THEN c.tonepos ELSE c.tonepos + 1
  BY DEF CmtRecords
<1>3. PICK k \in CmtTones, r \in Int : k = t.kind /\ r = t.length
  OBVIOUS
<1>4. PICK a \in CmtRecords : a = [c EXCEPT !.tone = k, !.raw = raw]
  BY DEF CmtRecords
<1>5. PICK b \in CmtRecords : b = [a EXCEPT !.remain = r, !.armed = TRUE]
  BY DEF CmtRecords
<1>6. PICK u \in CmtRecords : u = [b EXCEPT !.leadpos = l, !.tonepos = p]
  BY DEF CmtRecords
<1>7. Cmt!Sounds(c, t, raw) = u
  BY <1>1, <1>2, <1>3, <1>4, <1>5, <1>6 DEF Cmt!Sounds
<1>8. /\ CmtSame(c, u) /\ u.tone = k /\ u.raw = raw /\ u.armed /\ u.tonepos = p /\ u.leadpos = l
  BY <1>4, <1>5, <1>6 DEF CmtRecords, CmtSame
<1> QED BY <1>1, <1>2, <1>7, <1>8

LEMMA CmtStop ==
    ASSUME NEW c \in CmtRecords, CmtPlaced(c), c.tone # "none"
    PROVE  LET u == Cmt!ToneStop(c) IN
           /\ u \in CmtRecords /\ CmtSame(c, u)
           /\ u.tone = "none"
           /\ u.tonepos = CmtSounded(c)
           /\ u.leadpos = IF c.raw THEN c.leadpos - 1 ELSE c.leadpos
<1>1. PICK l \in 0 .. 2 : l = IF c.raw THEN c.leadpos - 1 ELSE c.leadpos
  BY DEF CmtRecords, CmtPlaced, CmtLeads
<1>2. PICK p \in Nat : p = IF c.raw THEN c.tonepos ELSE c.tonepos - 1
  BY DEF CmtRecords, CmtPlaced, CmtOwn
<1>3. PICK a \in CmtRecords : a = [c EXCEPT !.tone = "none", !.armed = FALSE]
  BY DEF CmtRecords
<1>4. PICK u \in CmtRecords : u = [a EXCEPT !.leadpos = l, !.tonepos = p]
  BY DEF CmtRecords
<1>5. Cmt!ToneStop(c) = u
  BY <1>1, <1>2, <1>3, <1>4 DEF Cmt!ToneStop
<1>6. CmtSame(c, u) /\ u.tone = "none" /\ u.tonepos = p /\ u.leadpos = l
  BY <1>3, <1>4 DEF CmtRecords, CmtSame
<1> QED BY <1>1, <1>2, <1>5, <1>6 DEF CmtSounded, CmtOwn

LEMMA CmtSchedule ==
    ASSUME NEW c \in CmtRecords, CmtPlaced(c), c.tone # "none" => c.armed
    PROVE  LET t == Cmt!Schedule(c) IN
           /\ t \in CmtRecords /\ CmtPlaced(t) /\ CmtSounding(t) /\ CmtMoves(t)
           /\ CmtSame(c, t) /\ CmtSounded(t) = CmtSounded(c)
<1>1. PICK t : t = Cmt!Schedule(c)
  OBVIOUS
<1>2. CASE c.tone # "none" /\ Cmt!Plays(c)
  <2>1. t = c
    BY <1>1, <1>2 DEF Cmt!Schedule
  <2> QED BY <1>1, <1>2, <2>1 DEF CmtSounding, CmtMoves, CmtSame
<1>3. CASE c.tone # "none" /\ ~Cmt!Plays(c)
  <2>1. t = Cmt!ToneStop(c)
    BY <1>1, <1>3 DEF Cmt!Schedule
  <2>2. /\ t \in CmtRecords /\ CmtSame(c, t) /\ t.tone = "none" /\ t.tonepos = CmtSounded(c)
        /\ t.leadpos = IF c.raw THEN c.leadpos - 1 ELSE c.leadpos
    BY <1>3, <2>1, CmtStop
  <2>6. PICK blocks : blocks = Cmt!Blocks(c)
    OBVIOUS
  <2>3. PICK size \in Nat, len \in Nat :
          size = Cmt!Size(c) /\ blocks = Cmt!Blocks(c) /\ len = Len(blocks)
    BY <2>6, CmtTapesTyped
  <2>4. Cmt!Size(t) = size /\ Cmt!Blocks(t) = blocks /\ ~Cmt!Plays(t)
    BY <1>3, <2>2, <2>3 DEF CmtSame, Cmt!Size, Cmt!Blocks, Cmt!Plays
  <2>5. CmtPlaced(t)
    <3>1. c.pos <= size /\ c.tonepos <= len /\ c.tonepos \in Nat /\ (CmtOwn(c) => c.tonepos > 0)
      BY <2>3 DEF CmtPlaced, CmtRecords
    <3>2. c.raw => blocks = <<>>
      BY <1>3, <2>3 DEF CmtPlaced, CmtLeads
    <3>3. t.leadpos < 2 => blocks = <<>>
      BY <1>3, <2>2, <2>3, <3>2 DEF CmtPlaced
    <3>4. t.tonepos <= len
      BY <2>2, <3>1 DEF CmtSounded
    <3> QED BY <2>2, <2>3, <2>4, <3>1, <3>3, <3>4 DEF CmtPlaced, CmtOwn, CmtLeads, CmtSame
  <2> QED BY <1>1, <2>2, <2>4, <2>5 DEF CmtSounding, CmtMoves, CmtSounded, CmtOwn, Cmt!Running
<1>4. CASE c.tone = "none" /\ ~c.rxready /\ Cmt!LeaderDue(c)
  <2>1. c.leadpos < 2 /\ c.leadpos \in 0 .. 2 /\ Cmt!Plays(c) /\ Cmt!Blocks(c) = <<>>
    BY <1>4 DEF Cmt!LeaderDue, Cmt!MayPlay, CmtRecords, CmtPlaced
  <2>2. PICK e : e = Cmt!Leader[c.leadpos + 1] /\ e.kind \in CmtTones /\ e.length \in Int
    BY <2>1 DEF Cmt!Leader, CmtTones
  <2>3. t = Cmt!Sounds(c, e, TRUE)
    BY <1>1, <1>4, <2>2 DEF Cmt!Schedule
  <2>4. /\ t \in CmtRecords /\ CmtSame(c, t) /\ t.tone \in CmtTones /\ t.raw /\ t.armed
        /\ t.tonepos = c.tonepos /\ t.leadpos = c.leadpos + 1
    BY <2>1, <2>2, <2>3, CmtSound
  <2>5. CmtPlaced(t)
    BY <2>1, <2>4 DEF CmtPlaced, CmtSame, CmtOwn, CmtLeads, Cmt!Size, Cmt!Blocks
  <2>6. CmtSounded(t) = CmtSounded(c)
    BY <1>4, <2>4 DEF CmtSounded, CmtOwn
  <2> QED BY <1>1, <2>1, <2>4, <2>5, <2>6 DEF CmtSounding, CmtMoves, CmtSame, Cmt!Plays
<1>5. CASE c.tone = "none" /\ ~(~c.rxready /\ Cmt!LeaderDue(c)) /\ ~c.rxready /\ Cmt!BlockDue(c)
  <2>1. c.tonepos \in Nat /\ c.tonepos < Len(Cmt!Blocks(c)) /\ Cmt!Plays(c)
    BY <1>5 DEF Cmt!BlockDue, Cmt!MayPlay, CmtRecords
  <2>2. PICK e : e = Cmt!Blocks(c)[c.tonepos + 1]
    OBVIOUS
  <2>3. c.tonepos + 1 \in 1 .. Len(Cmt!Blocks(c)) /\ Len(Cmt!Blocks(c)) \in Nat
    BY <2>1, CmtTapesTyped
  <2>4. e.kind \in CmtTones /\ e.length \in Int
    BY <2>2, <2>3, CmtTapesTyped
  <2>5. t = Cmt!Sounds(c, e, FALSE)
    BY <1>1, <1>5, <2>2 DEF Cmt!Schedule
  <2>6. /\ t \in CmtRecords /\ CmtSame(c, t) /\ t.tone \in CmtTones /\ ~t.raw /\ t.armed
        /\ t.tonepos = c.tonepos + 1 /\ t.leadpos = IF c.fast THEN 2 ELSE c.leadpos
    BY <2>4, <2>5, CmtSound
  <2>7. t.tone # "none"
    BY <2>6 DEF CmtTones
  <2>8. Cmt!Blocks(t) = Cmt!Blocks(c) /\ Cmt!Size(t) = Cmt!Size(c) /\ t.pos = c.pos
    BY <2>6 DEF CmtSame, Cmt!Size, Cmt!Blocks
  <2>9. t.leadpos < 2 => Cmt!Blocks(c) = <<>>
    BY <2>6 DEF CmtPlaced
  <2>10. PICK len \in Nat : len = Len(Cmt!Blocks(c))
    BY <2>3
  <2>11. c.tonepos + 1 <= len
    BY <2>1, <2>3, <2>10
  <2>12. CmtPlaced(t)
    BY <2>1, <2>6, <2>8, <2>9, <2>10, <2>11 DEF CmtPlaced, CmtOwn, CmtLeads
  <2>13. CmtSounded(t) = CmtSounded(c)
    BY <1>5, <2>1, <2>6, <2>7 DEF CmtSounded, CmtOwn
  <2> QED BY <1>1, <2>1, <2>6, <2>12, <2>13 DEF CmtSounding, CmtMoves, CmtSame, Cmt!Plays
<1>6. CASE c.tone = "none" /\ ~(~c.rxready /\ Cmt!LeaderDue(c)) /\ ~(~c.rxready /\ Cmt!BlockDue(c))
  <2>1. PICK b \in BOOLEAN : b = (Cmt!Running(c) /\ (c.rxready \/ c.pos < Cmt!Size(c)))
    OBVIOUS
  <2>2. t = [c EXCEPT !.armed = b]
    BY <1>1, <1>6, <2>1 DEF Cmt!Schedule
  <2>3. t \in CmtRecords
    BY <2>2 DEF CmtRecords
  <2>4. CmtSame(c, t) /\ t.tone = "none" /\ t.tonepos = c.tonepos /\ t.leadpos = c.leadpos /\ t.armed = b
    BY <1>6, <2>2 DEF CmtRecords, CmtSame
  <2>5. CmtPlaced(t)
    BY <1>6, <2>4 DEF CmtPlaced, CmtSame, CmtOwn, CmtLeads, Cmt!Size, Cmt!Blocks
  <2>6. CmtMoves(t)
    BY <2>1, <2>4 DEF CmtMoves, CmtSame, Cmt!Running, Cmt!Plays, Cmt!Size
  <2> QED BY <1>1, <1>6, <2>3, <2>4, <2>5, <2>6 DEF CmtSounding, CmtSounded, CmtOwn
<1> QED BY <1>2, <1>3, <1>4, <1>5, <1>6

LEMMA CmtFetchedStays ==
    ASSUME NEW c, NEW t, NEW last, CmtSame(c, t), CmtFetched(c, last)
    PROVE  CmtFetched(t, last)
BY DEF CmtSame, CmtFetched

LEMMA CmtInPlaceStays ==
    ASSUME NEW c, NEW t, NEW whole, CmtSame(c, t), CmtSounded(t) = CmtSounded(c), CmtInPlace(c, whole)
    PROVE  CmtInPlace(t, whole)
BY DEF CmtSame, CmtInPlace, Cmt!Blocks

\* A step that decides again, after a change to c that leaves the tape where it is.
LEMMA CmtDecides ==
    ASSUME NEW c \in CmtRecords, CmtPlaced(c), c.tone # "none" => c.armed,
           x1' = Cmt!Schedule(c), CmtFetched(c, x2'), x4' \in BOOLEAN,
           ~x4' => CmtInPlace(c, x3')
    PROVE  CmtInv'
<1>1. /\ x1' \in CmtRecords /\ CmtPlaced(x1') /\ CmtSounding(x1') /\ CmtMoves(x1')
      /\ CmtSame(c, x1') /\ CmtSounded(x1') = CmtSounded(c)
  BY CmtSchedule
<1>2. CmtFetched(x1', x2')
  BY <1>1, CmtFetchedStays
<1>3. ~x4' => CmtInPlace(x1', x3')
  BY <1>1, CmtInPlaceStays
<1> QED BY <1>1, <1>2, <1>3 DEF CmtInv

LEMMA CmtStarts == Cmt!Init => CmtInv
<1> SUFFICES ASSUME Cmt!Init PROVE CmtInv
  OBVIOUS
<1>1. PICK fast \in BOOLEAN :
        x1 = [tape |-> CmtNoTape, pos |-> 0, tonepos |-> 0, leadpos |-> 2, tone |-> "none",
              raw |-> FALSE, remain |-> 0, motor |-> FALSE, selected |-> TRUE, rxe |-> FALSE,
              rxready |-> FALSE, data |-> 0, saving |-> FALSE, armed |-> FALSE, fast |-> fast]
  BY DEF Cmt!Init, Cmt!Gap
<1>2. x1 \in CmtRecords
  BY <1>1 DEF CmtRecords, CmtAllTapes
<1>3. Cmt!Size(x1) \in Nat /\ Len(Cmt!Blocks(x1)) \in Nat /\ DOMAIN Cmt!Blocks(x1) = 1 .. Len(Cmt!Blocks(x1))
      /\ \A i \in 1 .. Len(Cmt!Blocks(x1)) : Cmt!Blocks(x1)[i].at \in Nat
  BY <1>2, CmtTapesTyped
<1>4. x1.pos = 0 /\ x1.tonepos = 0 /\ x1.leadpos = 2 /\ x1.tone = "none" /\ ~x1.motor /\ ~x1.rxready
  BY <1>1
<1>5. CmtPlaced(x1) /\ CmtSounding(x1) /\ CmtMoves(x1)
  BY <1>3, <1>4 DEF CmtPlaced, CmtSounding, CmtMoves, CmtOwn, CmtLeads, Cmt!Running, Cmt!Plays
<1>6. x2 = 0 /\ x3 = 0 /\ x4 = FALSE
  BY DEF Cmt!Init
<1>7. CmtFetched(x1, x2)
  BY <1>4, <1>6 DEF CmtFetched
<1>8. \A i \in DOMAIN Cmt!Blocks(x1) : ~(Cmt!Blocks(x1)[i].at < 0)
  BY <1>3
<1>9. CmtInPlace(x1, x3)
  BY <1>4, <1>6, <1>8 DEF CmtInPlace, CmtSounded, CmtOwn
<1> QED BY <1>2, <1>5, <1>6, <1>7, <1>9 DEF CmtInv

\* The motor, the channel and the receiver.
LEMMA CmtPorts ==
    ASSUME CmtInv, Cmt!Port30
    PROVE  CmtInv'
<1>1. x1 \in CmtRecords /\ x4 \in BOOLEAN /\ CmtPlaced(x1) /\ CmtSounding(x1) /\ CmtFetched(x1, x2)
      /\ (~x4 => CmtInPlace(x1, x3))
  BY DEF CmtInv
<1>2. PICK motor \in BOOLEAN, selected \in BOOLEAN :
        x1' = Cmt!Schedule([x1 EXCEPT
                !.motor = motor, !.selected = selected,
                !.leadpos = IF ~x1.motor /\ motor THEN IF Cmt!Blocks(x1) = <<>> THEN 0 ELSE 2 ELSE @])
  BY DEF Cmt!Port30
<1>3. PICK l \in 0 .. 2 : l = IF ~x1.motor /\ motor THEN IF Cmt!Blocks(x1) = <<>> THEN 0 ELSE 2 ELSE x1.leadpos
  BY <1>1 DEF CmtRecords
<1>4. PICK c \in CmtRecords : c = [x1 EXCEPT !.motor = motor, !.selected = selected, !.leadpos = l]
  BY <1>1 DEF CmtRecords
<1>5. /\ c.tape = x1.tape /\ c.pos = x1.pos /\ c.tonepos = x1.tonepos /\ c.tone = x1.tone
      /\ c.raw = x1.raw /\ c.rxready = x1.rxready /\ c.data = x1.data /\ c.armed = x1.armed /\ c.leadpos = l
  BY <1>1, <1>4 DEF CmtRecords
<1>6. x1.tone # "none" => x1.motor
  BY <1>1 DEF CmtSounding, Cmt!Plays
<1>7. CmtPlaced(c)
  BY <1>1, <1>3, <1>5, <1>6 DEF CmtPlaced, CmtOwn, CmtLeads, Cmt!Blocks, Cmt!Size
<1>8. x1' = Cmt!Schedule(c) /\ UNCHANGED <<x2, x3, x4>>
  BY <1>2, <1>3, <1>4 DEF Cmt!Port30
<1>9. CmtFetched(c, x2') /\ (~x4' => CmtInPlace(c, x3')) /\ (c.tone # "none" => c.armed)
  BY <1>1, <1>5, <1>8 DEF CmtFetched, CmtInPlace, CmtSounded, CmtOwn, Cmt!Blocks, CmtSounding
<1> QED BY <1>1, <1>7, <1>8, <1>9, CmtDecides

LEMMA CmtCommands ==
    ASSUME CmtInv, Cmt!Command
    PROVE  CmtInv'
<1>1. x1 \in CmtRecords /\ x4 \in BOOLEAN /\ CmtPlaced(x1) /\ CmtSounding(x1) /\ CmtFetched(x1, x2)
      /\ (~x4 => CmtInPlace(x1, x3))
  BY DEF CmtInv
<1>2. PICK rxe \in BOOLEAN : x1' = Cmt!Schedule([x1 EXCEPT !.rxe = rxe])
  BY DEF Cmt!Command
<1>4. PICK c \in CmtRecords : c = [x1 EXCEPT !.rxe = rxe]
  BY <1>1 DEF CmtRecords
<1>5. /\ c.tape = x1.tape /\ c.pos = x1.pos /\ c.tonepos = x1.tonepos /\ c.tone = x1.tone
      /\ c.raw = x1.raw /\ c.rxready = x1.rxready /\ c.data = x1.data /\ c.armed = x1.armed
      /\ c.leadpos = x1.leadpos
  BY <1>1, <1>4 DEF CmtRecords
<1>7. CmtPlaced(c)
  BY <1>1, <1>5 DEF CmtPlaced, CmtOwn, CmtLeads, Cmt!Blocks, Cmt!Size
<1>8. x1' = Cmt!Schedule(c) /\ UNCHANGED <<x2, x3, x4>>
  BY <1>2, <1>4 DEF Cmt!Command
<1>9. CmtFetched(c, x2') /\ (~x4' => CmtInPlace(c, x3')) /\ (c.tone # "none" => c.armed)
  BY <1>1, <1>5, <1>8 DEF CmtFetched, CmtInPlace, CmtSounded, CmtOwn, Cmt!Blocks, CmtSounding
<1> QED BY <1>1, <1>7, <1>8, <1>9, CmtDecides

\* The guest fetches a byte.
LEMMA CmtFetches ==
    ASSUME CmtInv, Cmt!Fetch
    PROVE  CmtInv'
<1>1. x1 \in CmtRecords /\ x4 \in BOOLEAN /\ CmtPlaced(x1) /\ CmtSounding(x1) /\ CmtFetched(x1, x2)
      /\ (~x4 => CmtInPlace(x1, x3))
  BY DEF CmtInv
<1>2. PICK a \in BOOLEAN : a = (x1.armed /\ x1.tone # "none")
  OBVIOUS
<1>4. PICK c \in CmtRecords : c = [x1 EXCEPT !.rxready = FALSE, !.armed = a]
  BY <1>1 DEF CmtRecords
<1>5. /\ c.tape = x1.tape /\ c.pos = x1.pos /\ c.tonepos = x1.tonepos /\ c.tone = x1.tone
      /\ c.raw = x1.raw /\ ~c.rxready /\ c.armed = a /\ c.leadpos = x1.leadpos
  BY <1>1, <1>4 DEF CmtRecords
<1>7. CmtPlaced(c)
  BY <1>1, <1>5 DEF CmtPlaced, CmtOwn, CmtLeads, Cmt!Blocks, Cmt!Size
<1>8. x1' = Cmt!Schedule(c) /\ UNCHANGED <<x3, x4>>
  BY <1>2, <1>4 DEF Cmt!Fetch
<1>9. x2' = IF x1.rxready /\ x1.data # Cmt!Gap THEN x1.data ELSE x2
  BY DEF Cmt!Fetch
<1>10. CmtFetched(c, x2') /\ (~x4' => CmtInPlace(c, x3')) /\ (c.tone # "none" => c.armed)
  BY <1>1, <1>2, <1>5, <1>8, <1>9 DEF CmtFetched, CmtInPlace, CmtSounded, CmtOwn, Cmt!Blocks, CmtSounding
<1> QED BY <1>1, <1>7, <1>8, <1>10, CmtDecides

\* Another tape, or the same one from its beginning.
LEMMA CmtTapeChanges ==
    ASSUME CmtInv, Cmt!ChangeTape
    PROVE  CmtInv'
<1>1. x1 \in CmtRecords
  BY DEF CmtInv
<1>2. PICK tape \in CmtTapes \cup {CmtNoTape, x1.tape} : x1' = Cmt!Schedule(Cmt!Begins(tape))
  BY DEF Cmt!ChangeTape
<1>3. tape \in CmtAllTapes
  BY <1>1, <1>2 DEF CmtRecords, CmtAllTapes
<1>4. PICK a \in CmtRecords : a = [x1 EXCEPT !.tape = tape, !.pos = 0, !.tonepos = 0]
  BY <1>1, <1>3 DEF CmtRecords
<1>5. PICK b \in CmtRecords : b = [a EXCEPT !.leadpos = 2, !.rxready = FALSE]
  <2>1. PICK l \in 0 .. 2 : l = 2
    OBVIOUS
  <2>2. [a EXCEPT !.leadpos = l, !.rxready = FALSE] \in CmtRecords
    BY DEF CmtRecords
  <2> QED BY <2>1, <2>2
<1>6. PICK c \in CmtRecords : c = [b EXCEPT !.tone = "none", !.armed = FALSE]
  BY DEF CmtRecords
<1>7. c = Cmt!Begins(tape)
  BY <1>4, <1>5, <1>6 DEF Cmt!Begins
<1>8. c.pos = 0 /\ c.tonepos = 0 /\ c.leadpos = 2 /\ ~c.rxready /\ c.tone = "none"
  BY <1>4, <1>5, <1>6 DEF CmtRecords
<1>9. Cmt!Size(c) \in Nat /\ Len(Cmt!Blocks(c)) \in Nat /\ DOMAIN Cmt!Blocks(c) = 1 .. Len(Cmt!Blocks(c))
      /\ \A i \in 1 .. Len(Cmt!Blocks(c)) : Cmt!Blocks(c)[i].at \in Nat
  BY CmtTapesTyped
<1>10. CmtPlaced(c)
  BY <1>8, <1>9 DEF CmtPlaced, CmtOwn, CmtLeads
<1>11. x2' = 0 /\ x3' = 0 /\ x4' = FALSE
  BY DEF Cmt!ChangeTape
<1>12. CmtFetched(c, x2')
  BY <1>8, <1>11 DEF CmtFetched
<1>13. \A i \in DOMAIN Cmt!Blocks(c) : ~(Cmt!Blocks(c)[i].at < 0)
  BY <1>9
<1>14. CmtInPlace(c, x3')
  BY <1>8, <1>11, <1>13 DEF CmtInPlace, CmtSounded, CmtOwn
<1>15. x1' = Cmt!Schedule(c) /\ x4' \in BOOLEAN /\ (c.tone # "none" => c.armed)
  BY <1>2, <1>7, <1>8, <1>11
<1> QED BY <1>10, <1>12, <1>14, <1>15, CmtDecides

LEMMA CmtSaves ==
    ASSUME CmtInv, Cmt!Save
    PROVE  CmtInv'
<1>1. x1 \in CmtRecords /\ x4 \in BOOLEAN /\ CmtPlaced(x1) /\ CmtSounding(x1) /\ CmtMoves(x1)
      /\ CmtFetched(x1, x2) /\ (~x4 => CmtInPlace(x1, x3))
  BY DEF CmtInv
<1>2. PICK b \in BOOLEAN : b = ~x1.saving
  OBVIOUS
<1>3. PICK c \in CmtRecords : c = [x1 EXCEPT !.saving = b]
  BY <1>1 DEF CmtRecords
<1>4. /\ c.tape = x1.tape /\ c.pos = x1.pos /\ c.tonepos = x1.tonepos /\ c.tone = x1.tone
      /\ c.raw = x1.raw /\ c.rxready = x1.rxready /\ c.data = x1.data /\ c.armed = x1.armed
      /\ c.leadpos = x1.leadpos /\ c.motor = x1.motor /\ c.selected = x1.selected /\ c.rxe = x1.rxe
  BY <1>1, <1>3 DEF CmtRecords
<1>5. x1' = c /\ UNCHANGED <<x2, x3, x4>>
  BY <1>2, <1>3 DEF Cmt!Save
<1>6. CmtPlaced(c) /\ CmtSounding(c) /\ CmtMoves(c)
  BY <1>1, <1>4 DEF CmtPlaced, CmtOwn, CmtLeads, CmtSounding, CmtMoves, Cmt!Blocks, Cmt!Size,
                    Cmt!Plays, Cmt!Running
<1>7. CmtFetched(c, x2) /\ (~x4 => CmtInPlace(c, x3))
  BY <1>1, <1>4 DEF CmtFetched, CmtInPlace, CmtSounded, CmtOwn, Cmt!Blocks
<1> QED BY <1>1, <1>5, <1>6, <1>7 DEF CmtInv

\* A reset leaves the tape where it is.
LEMMA CmtResets ==
    ASSUME CmtInv, Cmt!Reset
    PROVE  CmtInv'
<1>1. x1 \in CmtRecords /\ x4 \in BOOLEAN /\ CmtPlaced(x1) /\ CmtFetched(x1, x2)
      /\ (~x4 => CmtInPlace(x1, x3))
  BY DEF CmtInv
<1>2. PICK a \in CmtRecords : a = [x1 EXCEPT !.motor = FALSE, !.selected = TRUE, !.rxready = FALSE]
  <2>1. [x1 EXCEPT !.motor = FALSE, !.selected = TRUE, !.rxready = FALSE] \in CmtRecords
    BY <1>1 DEF CmtRecords
  <2> QED BY <2>1
<1>3. PICK b \in CmtRecords : b = [a EXCEPT !.rxe = FALSE, !.tone = "none"]
  <2>1. [a EXCEPT !.rxe = FALSE, !.tone = "none"] \in CmtRecords
    BY DEF CmtRecords
  <2> QED BY <2>1
<1>4. PICK c \in CmtRecords : c = [b EXCEPT !.leadpos = 2, !.armed = FALSE]
  <2>1. PICK l \in 0 .. 2 : l = 2
    OBVIOUS
  <2>2. [b EXCEPT !.leadpos = l, !.armed = FALSE] \in CmtRecords
    BY DEF CmtRecords
  <2> QED BY <2>1, <2>2
<1>5. x1' = c
  BY <1>2, <1>3, <1>4 DEF Cmt!Reset
<1>6. c.tape = x1.tape /\ c.pos = x1.pos /\ c.tonepos = x1.tonepos /\ c.leadpos = 2 /\ ~c.motor /\ ~c.rxready
      /\ c.tone = "none"
  BY <1>1, <1>2, <1>3, <1>4 DEF CmtRecords
<1>7. /\ x2' = IF x1.rxready /\ x1.data # Cmt!Gap THEN x1.data ELSE x2
      /\ x3' = x3 /\ x4' = (x4 \/ (x1.tone # "none" /\ ~x1.raw))
  BY DEF Cmt!Reset
<1>8. CmtPlaced(c) /\ CmtSounding(c) /\ CmtMoves(c)
  BY <1>1, <1>6 DEF CmtPlaced, CmtOwn, CmtLeads, CmtSounding, CmtMoves, Cmt!Blocks, Cmt!Size,
                    Cmt!Plays, Cmt!Running
<1>9. CmtFetched(c, x2')
  BY <1>1, <1>6, <1>7 DEF CmtFetched
<1>10. ~x4' => CmtInPlace(c, x3')
  BY <1>1, <1>6, <1>7 DEF CmtInPlace, CmtSounded, CmtOwn, Cmt!Blocks
<1>11. x4' \in BOOLEAN
  BY <1>7
<1> QED BY <1>5, <1>8, <1>9, <1>10, <1>11 DEF CmtInv

\* The event in a block: a gap is received, or the block is over.
LEMMA CmtToneEvents ==
    ASSUME CmtInv, Cmt!ToneEvent
    PROVE  CmtInv'
<1>1. /\ x1 \in CmtRecords /\ x4 \in BOOLEAN /\ CmtPlaced(x1) /\ CmtSounding(x1) /\ CmtMoves(x1)
      /\ CmtFetched(x1, x2) /\ (~x4 => CmtInPlace(x1, x3))
  BY DEF CmtInv
<1>2. x1.tone # "none" /\ Cmt!Plays(x1) /\ UNCHANGED <<x2, x4>>
  BY <1>1 DEF Cmt!ToneEvent, CmtSounding
<1>3. PICK r \in Int : r = x1.remain - Cmt!Step(x1)
  BY <1>1 DEF CmtRecords, Cmt!Step
<1>4. PICK c \in CmtRecords : c = [x1 EXCEPT !.remain = r, !.armed = FALSE]
  BY <1>1 DEF CmtRecords
<1>5. /\ CmtSame(x1, c) /\ c.tonepos = x1.tonepos /\ c.leadpos = x1.leadpos /\ c.tone = x1.tone
      /\ c.raw = x1.raw /\ c.remain = r
  BY <1>1, <1>4 DEF CmtRecords, CmtSame
<1>6. PICK g \in BOOLEAN : g = (Cmt!ToneBytes(c) /\ Cmt!Running(c) /\ ~c.rxready)
  OBVIOUS
<1>14. g => ~x1.rxready
  BY <1>5, <1>6 DEF CmtSame
<1>7. PICK told \in CmtRecords : told = IF g THEN Cmt!Received(c, Cmt!Gap) ELSE c
  <2>1. [c EXCEPT !.rxready = TRUE, !.data = 0] \in CmtRecords
    BY DEF CmtRecords
  <2> QED BY <2>1 DEF Cmt!Received, Cmt!Gap
<1>8. /\ told.tape = x1.tape /\ told.pos = x1.pos /\ told.tonepos = x1.tonepos
      /\ told.leadpos = x1.leadpos /\ told.tone = x1.tone /\ told.raw = x1.raw
      /\ told.motor = x1.motor /\ told.selected = x1.selected /\ told.rxe = x1.rxe
      /\ IF g THEN told.rxready /\ told.data = 0
              ELSE told.rxready = x1.rxready /\ told.data = x1.data
  BY <1>5, <1>7 DEF CmtRecords, CmtSame, Cmt!Received, Cmt!Gap
<1>10. IF r > 0 THEN x1' = [told EXCEPT !.armed = TRUE] /\ x3' = x3
       ELSE /\ x1' = Cmt!Schedule([told EXCEPT !.tone = "none"])
            /\ x3' = IF c.raw THEN x3 ELSE c.tonepos
  BY <1>3, <1>4, <1>5, <1>6, <1>7 DEF Cmt!ToneEvent
<1>11. CmtFetched(told, x2)
  BY <1>1, <1>8, <1>14 DEF CmtFetched, Cmt!Gap
<1>12. CASE r > 0
  <2>1. PICK t \in CmtRecords : t = [told EXCEPT !.armed = TRUE]
    BY DEF CmtRecords
  <2>2. /\ CmtSame(told, t) /\ t.tonepos = x1.tonepos /\ t.leadpos = x1.leadpos /\ t.tone = x1.tone
        /\ t.raw = x1.raw /\ t.armed
    BY <1>8, <2>1 DEF CmtRecords, CmtSame
  <2>3. x1' = t /\ x3' = x3
    BY <1>10, <1>12, <2>1
  <2>4. CmtFetched(t, x2)
    BY <1>11, <2>2, CmtFetchedStays
  <2>5. CmtPlaced(t) /\ CmtSounding(t) /\ CmtMoves(t)
    BY <1>1, <1>2, <1>8, <2>2 DEF CmtPlaced, CmtOwn, CmtLeads, CmtSounding, CmtMoves, CmtSame,
                                 Cmt!Blocks, Cmt!Size, Cmt!Plays
  <2>6. ~x4 => CmtInPlace(t, x3)
    BY <1>1, <1>8, <2>2 DEF CmtInPlace, CmtSounded, CmtOwn, CmtSame, Cmt!Blocks
  <2> QED BY <1>1, <1>2, <2>3, <2>4, <2>5, <2>6 DEF CmtInv
<1>13. CASE ~(r > 0)
  <2>1. PICK t \in CmtRecords : t = [told EXCEPT !.tone = "none"]
    BY DEF CmtRecords
  <2>2. CmtSame(told, t) /\ t.tonepos = x1.tonepos /\ t.leadpos = x1.leadpos /\ t.tone = "none"
    BY <1>8, <2>1 DEF CmtRecords, CmtSame
  <2>3. x1' = Cmt!Schedule(t) /\ x3' = IF x1.raw THEN x3 ELSE x1.tonepos
    BY <1>5, <1>10, <1>13, <2>1
  <2>4. CmtFetched(t, x2)
    BY <1>11, <2>2, CmtFetchedStays
  <2>5. CmtPlaced(t)
    BY <1>1, <1>2, <1>8, <2>2 DEF CmtPlaced, CmtOwn, CmtLeads, CmtSame, Cmt!Blocks, Cmt!Size
  <2>6. ASSUME ~x4 PROVE CmtInPlace(t, x3')
    <3>1. Cmt!Blocks(t) = Cmt!Blocks(x1) /\ t.pos = x1.pos
      BY <1>8, <2>2 DEF CmtSame, Cmt!Blocks
    <3>2. x1.tonepos \in Nat
      BY <1>1 DEF CmtRecords
    <3>3. CmtInPlace(x1, x3)
      BY <1>1, <2>6
    <3>4. x3' = CmtSounded(t) /\ x3 <= x3' /\ x3 \in Int /\ x3' \in Int
      BY <1>2, <2>2, <2>3, <3>2, <3>3 DEF CmtInPlace, CmtSounded, CmtOwn
    <3>5. DOMAIN Cmt!Blocks(x1) \subseteq Int
      BY <1>1, CmtTapesTyped
    <3>6. ASSUME NEW i \in DOMAIN Cmt!Blocks(x1), Cmt!Blocks(x1)[i].at < x1.pos PROVE i <= x3'
      <4>1. i <= x3
        BY <3>3, <3>6 DEF CmtInPlace
      <4> QED BY <3>4, <3>5, <4>1
    <3> QED BY <3>1, <3>4, <3>6 DEF CmtInPlace
  <2>7. t.tone # "none" => t.armed
    BY <2>2
  <2> QED BY <1>1, <1>2, <2>3, <2>4, <2>5, <2>6, <2>7, CmtDecides
<1> QED BY <1>12, <1>13

\* The event between blocks: the next byte is received, or the last is still there.
LEMMA CmtByteEvents ==
    ASSUME CmtInv, Cmt!ByteEvent
    PROVE  CmtInv'
<1>1. /\ x1 \in CmtRecords /\ x4 \in BOOLEAN /\ CmtPlaced(x1) /\ CmtSounding(x1) /\ CmtMoves(x1)
      /\ CmtFetched(x1, x2) /\ (~x4 => CmtInPlace(x1, x3))
  BY DEF CmtInv
<1>2. x1.tone = "none" /\ UNCHANGED <<x2, x3>>
  BY DEF Cmt!ByteEvent
<1>3. PICK c \in CmtRecords : c = [x1 EXCEPT !.armed = FALSE]
  BY <1>1 DEF CmtRecords
<1>4. /\ CmtSame(x1, c) /\ c.tonepos = x1.tonepos /\ c.leadpos = x1.leadpos /\ c.tone = "none"
      /\ c.raw = x1.raw /\ ~c.armed
  BY <1>1, <1>2, <1>3 DEF CmtRecords, CmtSame
<1>5. CmtPlaced(c) /\ CmtFetched(c, x2) /\ (~x4 => CmtInPlace(c, x3))
  BY <1>1, <1>2, <1>4 DEF CmtPlaced, CmtOwn, CmtLeads, CmtSame, CmtFetched, CmtInPlace, CmtSounded,
                         Cmt!Blocks, Cmt!Size
<1>6. PICK given \in BOOLEAN : given = (~c.rxready /\ c.pos < Cmt!Size(c))
  OBVIOUS
<1>7. x1' = IF ~Cmt!Running(c) THEN c
            ELSE Cmt!Schedule(IF given THEN [Cmt!Received(c, c.pos + 1) EXCEPT !.pos = @ + 1] ELSE c)
  <2> DEFINE d == [x1 EXCEPT !.armed = FALSE]
             next == [Cmt!Received(d, d.pos + 1) EXCEPT !.pos = @ + 1]
  <2>1. x1' = IF ~Cmt!Running(d) THEN d
              ELSE Cmt!Schedule(IF ~d.rxready /\ d.pos < Cmt!Size(d) THEN next ELSE d)
    BY Zenon DEF Cmt!ByteEvent
  <2>2. d = c /\ next = [Cmt!Received(c, c.pos + 1) EXCEPT !.pos = @ + 1]
    BY <1>3
  <2> HIDE DEF d, next
  <2> QED BY <1>6, <2>1, <2>2
<1>8. x4' = (x4 \/ (Cmt!Running(c) /\ given /\ Cmt!BlockDue([c EXCEPT !.saving = FALSE])))
  BY <1>3, <1>6 DEF Cmt!ByteEvent
<1>9. x4' \in BOOLEAN
  BY <1>8
<1>10. CASE ~Cmt!Running(c)
  <2>1. x1' = c /\ (~x4' => ~x4)
    BY <1>7, <1>8, <1>10
  <2>2. CmtSounding(c) /\ CmtMoves(c)
    BY <1>4, <1>10 DEF CmtSounding, CmtMoves
  <2> QED BY <1>2, <1>5, <1>9, <2>1, <2>2 DEF CmtInv
<1>11. CASE Cmt!Running(c) /\ ~given
  <2>1. x1' = Cmt!Schedule(c) /\ (~x4' => ~x4)
    BY <1>7, <1>8, <1>11
  <2> QED BY <1>2, <1>4, <1>5, <1>9, <2>1, CmtDecides
<1>12. CASE Cmt!Running(c) /\ given
  <2>1. ~c.rxready /\ c.pos < Cmt!Size(c) /\ c.pos \in Nat /\ Cmt!Size(c) \in Nat /\ c.tonepos \in Nat
    BY <1>6, <1>12, CmtTapesTyped DEF CmtRecords
  <2>2. PICK p \in Nat : p = c.pos + 1
    BY <2>1
  <2>3. PICK n \in CmtRecords : n = [c EXCEPT !.rxready = TRUE, !.data = p, !.pos = p]
    <3>1. [c EXCEPT !.rxready = TRUE, !.data = p, !.pos = p] \in CmtRecords
      BY DEF CmtRecords
    <3> QED BY <3>1
  <2>4. n = [Cmt!Received(c, c.pos + 1) EXCEPT !.pos = @ + 1]
    BY <2>2, <2>3 DEF Cmt!Received, CmtRecords
  <2>5. /\ n.tape = c.tape /\ n.pos = p /\ n.tonepos = c.tonepos /\ n.leadpos = c.leadpos
        /\ n.tone = "none" /\ n.rxready /\ n.data = p
    BY <1>4, <2>3 DEF CmtRecords
  <2>6. x1' = Cmt!Schedule(n)
    BY <1>7, <1>12, <2>4
  <2>7. CmtPlaced(n)
    BY <1>4, <1>5, <2>1, <2>2, <2>5 DEF CmtPlaced, CmtOwn, CmtLeads, Cmt!Size, Cmt!Blocks
  <2>8. CmtFetched(n, x2)
    BY <1>5, <2>1, <2>2, <2>5 DEF CmtFetched, Cmt!Gap
  <2>9. ASSUME ~x4' PROVE CmtInPlace(n, x3)
    <3>1. CmtInPlace(c, x3) /\ ~Cmt!BlockDue([c EXCEPT !.saving = FALSE])
      BY <1>5, <1>8, <1>12, <2>9
    <3>2. x3 = c.tonepos
      BY <1>4, <3>1 DEF CmtInPlace, CmtSounded, CmtOwn
    <3>3. PICK u \in CmtRecords : u = [c EXCEPT !.saving = FALSE]
      BY DEF CmtRecords
    <3>4. /\ u.tape = c.tape /\ u.pos = c.pos /\ u.tonepos = c.tonepos /\ u.leadpos = c.leadpos
          /\ u.selected = c.selected /\ u.motor = c.motor /\ ~u.saving
      BY <3>3 DEF CmtRecords
    <3>5. Cmt!MayPlay(u)
      BY <1>12, <2>1, <3>4 DEF Cmt!MayPlay, Cmt!Plays, Cmt!Running, Cmt!Size
    <3>6. Cmt!Blocks(n) = Cmt!Blocks(c) /\ Cmt!Blocks(u) = Cmt!Blocks(c)
      BY <2>5, <3>4 DEF Cmt!Blocks
    <3>7. PICK len \in Nat : len = Len(Cmt!Blocks(c)) /\ DOMAIN Cmt!Blocks(c) = 1 .. len
      BY CmtTapesTyped
    <3>8. \A i \in 1 .. len : Cmt!Blocks(c)[i].at < p => i <= c.tonepos
      <4>1. CASE Cmt!LeaderDue(u)
        <5>1. Cmt!Blocks(c) = <<>>
          BY <1>5, <3>4, <4>1 DEF Cmt!LeaderDue, CmtPlaced
        <5>2. len = 0
          BY <3>7, <5>1
        <5> QED BY <5>2
      <4>2. CASE ~Cmt!LeaderDue(u)
        <5>1. ~(c.tonepos < len /\ Cmt!Blocks(c)[c.tonepos + 1].at <= c.pos)
          BY <3>1, <3>3, <3>4, <3>5, <3>6, <3>7, <4>2 DEF Cmt!BlockDue
        <5>2. SUFFICES ASSUME NEW i \in 1 .. len, c.tonepos < i PROVE ~(Cmt!Blocks(c)[i].at < p)
          BY <2>1
        <5>3. c.tonepos < len /\ c.tonepos + 1 \in 1 .. len
          BY <2>1, <5>2
        <5>4. PICK a \in Nat : a = Cmt!Blocks(c)[c.tonepos + 1].at
          BY <3>7, <5>3, CmtTapesTyped
        <5>5. PICK b \in Nat : b = Cmt!Blocks(c)[i].at
          BY <3>7, CmtTapesTyped
        <5>6. a <= b
          <6>1. CASE i = c.tonepos + 1
            BY <5>4, <5>5, <6>1
          <6>2. CASE i # c.tonepos + 1
            <7>1. c.tonepos + 1 < i
              BY <2>1, <5>2, <6>2
            <7> QED BY <3>7, <5>3, <5>4, <5>5, <7>1, CmtTapesTyped
          <6> QED BY <6>1, <6>2
        <5> QED BY <2>1, <2>2, <5>1, <5>3, <5>4, <5>5, <5>6
      <4> QED BY <4>1, <4>2
    <3>9. CmtSounded(n) = c.tonepos
      BY <2>5 DEF CmtSounded, CmtOwn
    <3> QED BY <2>5, <3>2, <3>6, <3>7, <3>8, <3>9 DEF CmtInPlace
  <2>10. n.tone # "none" => n.armed
    BY <2>5
  <2> QED BY <1>2, <1>9, <2>6, <2>7, <2>8, <2>9, <2>10, CmtDecides
<1> QED BY <1>10, <1>11, <1>12

LEMMA CmtStutters == CmtInv /\ UNCHANGED <<x1, x2, x3, x4>> => CmtInv'
BY DEF CmtInv

LEMMA CmtSteps ==
    ASSUME CmtInv, Cmt!Next
    PROVE  CmtInv'
<1>1. CASE Cmt!Read
  <2>1. Cmt!Fetch \/ UNCHANGED <<x1, x2, x3, x4>>
    BY <1>1 DEF Cmt!Read, Cmt!vars
  <2> QED BY <2>1, CmtFetches, CmtStutters
<1> QED BY <1>1, CmtToneEvents, CmtByteEvents, CmtPorts, CmtCommands, CmtTapeChanges, CmtSaves,
           CmtResets DEF Cmt!Next

LEMMA CmtFollows == CmtInv => Cmt!NeverStalls /\ Cmt!BytesInOrder /\ Cmt!BlocksFirst
BY DEF CmtInv, CmtSounding, CmtMoves, CmtFetched, CmtInPlace, Cmt!NeverStalls, Cmt!BytesInOrder,
       Cmt!BlocksFirst

-----------------------------------------------------------------------------
(***************************************************************************)
(* Numbers.                                                                *)
(***************************************************************************)
LessThan == OpToRel(<, Nat)

LEMMA LessThanIsLess ==
    \A k \in Nat, n \in Nat : <<k, n>> \in LessThan <=> k < n
BY DEF LessThan, OpToRel

LEMMA LessThanIsWellFounded == IsWellFoundedOn(LessThan, Nat)
BY NatLessThanWellFounded DEF LessThan

LEMMA LeastNatural ==
    ASSUME NEW T \in SUBSET Nat, T # {}
    PROVE  \E n \in T : \A k \in T : n <= k
<1>1. PICK n \in T : \A k \in T : ~(<<k, n>> \in LessThan)
  BY LessThanIsWellFounded, WFMin
<1>2. ASSUME NEW k \in T PROVE n <= k
  <2>1. ~(<<k, n>> \in LessThan) /\ k \in Nat /\ n \in Nat
    BY <1>1
  <2>2. ~(k < n)
    BY <2>1, LessThanIsLess
  <2> QED BY <2>1, <2>2
<1> QED BY <1>2

\* A set of numbers up to a bound has a greatest.
LEMMA GreatestNatural ==
    ASSUME NEW T \in SUBSET Nat, T # {}, NEW b \in Nat, \A k \in T : k <= b
    PROVE  \E n \in T : \A k \in T : k <= n
<1> DEFINE gaps == {b - k : k \in T}
<1>1. gaps \in SUBSET Nat /\ gaps # {}
  <2>1. \A k \in T : b - k \in Nat
    OBVIOUS
  <2>2. PICK k \in T : TRUE
    OBVIOUS
  <2>3. b - k \in gaps
    OBVIOUS
  <2> QED BY <2>1, <2>3
<1>2. PICK g \in gaps : \A h \in gaps : g <= h
  <2> HIDE DEF gaps
  <2> QED BY <1>1, LeastNatural
<1>3. PICK n \in T : g = b - n
  BY <1>2
<1>4. ASSUME NEW k \in T PROVE k <= n
  <2>1. b - k \in gaps
    OBVIOUS
  <2>2. b - n <= b - k
    BY <2>1, <1>2, <1>3
  <2>3. k \in Nat /\ n \in Nat
    BY <1>3
  <2> QED BY <2>2, <2>3
<1> QED BY <1>4
-----------------------------------------------------------------------------
(***************************************************************************)
(* The sound stream.                                                       *)
(***************************************************************************)
Capacity == Samples + Reserve
Locked == {"prepare", "render", "advance", "shrink", "prepared"}
EmuLocked == Locked \cup {"record"}
AudioLocked == Locked \cup {"shift", "pack", "unlock"}

\* Frames in the buffer that count; the front ones of them that were played but are
\* still there; and those behind them that were rendered but do not count yet.
Filled == Capacity - remain
Skipped ==
    IF pc["audio"] = "unlock" THEN Samples
    ELSE IF pc["audio"] = "shift" THEN want["audio"] ELSE 0
Extra ==
    IF pc["emu"] \in {"advance", "shrink"} THEN count["emu"]
    ELSE IF pc["audio"] \in {"advance", "shrink"} THEN count["audio"] ELSE 0

SoundTyped ==
    /\ now \in Nat /\ lastclock \in Nat /\ chip \in Nat
    /\ buffer \in [0..(Capacity - 1) -> Nat]
    /\ ptr \in Nat /\ remain \in 0..Capacity /\ generated \in Nat /\ epoch \in Nat
    /\ fifo \in [buffer : BOOLEAN, frames : Seq(Nat), first : Nat, consumed : Nat, epoch : Nat]
    /\ active \in BOOLEAN /\ failed \in BOOLEAN /\ dropped \in Nat
    /\ owner \in {"none", "emu", "audio"}
    /\ pc \in [{"emu", "audio"} -> {"idle", "sync", "reset", "play", "lock"}
                                       \cup EmuLocked \cup AudioLocked]
    /\ want \in [{"emu", "audio"} -> Nat] /\ count \in [{"emu", "audio"} -> Nat]
    /\ heard \in Seq(Nat) /\ forgone \in Nat /\ base \in Nat /\ taken \in Seq(Nat)
    /\ mark.base \in Nat /\ mark.heard \in Nat /\ mark.stray \in Nat

\* Who is where, and who is in a section.
Locking ==
    /\ pc["emu"] \in {"idle", "sync", "reset"} \cup EmuLocked
    /\ pc["audio"] \in {"idle", "play", "lock"} \cup AudioLocked
    /\ owner = "emu" <=> pc["emu"] \in EmuLocked
    /\ owner = "audio" <=> pc["audio"] \in AudioLocked
    /\ active => /\ pc["emu"] \in {"idle", "sync", "record", "prepared"}
                 /\ pc["audio"] \in {"idle", "play", "shift"}
                 /\ fifo.buffer
    /\ pc["emu"] = "record" => active

\* The write position is where the frames end, and there is room for those on
\* their way.
Positioned ==
    /\ \A t \in {"emu", "audio"} :
         /\ pc[t] \in {"render", "advance", "shrink"} => count[t] <= remain
         /\ pc[t] = "shrink" => ptr = Filled + count[t]
    /\ pc["emu"] # "shrink" /\ pc["audio"] # "shrink" => ptr = Filled
    /\ pc["audio"] = "prepare" => remain = want["audio"] + Reserve
    /\ pc["audio"] \in {"render", "advance", "shrink"} => remain = count["audio"] + Reserve
    /\ pc["audio"] \in {"prepared", "pack", "unlock"} => remain <= Reserve
    /\ pc["audio"] = "shift" => Filled = want["audio"] + count["audio"]

\* The frames to play, behind those played, are apart by at least their
\* distance, and no frame is missing that nobody gave up.
Ended == Filled + Extra
Waiting == Skipped..(Ended - 1)
Kept ==
    /\ \A i, j \in DOMAIN heard : i < j => heard[i] < heard[j]
    /\ \A i \in DOMAIN heard : heard[i] <= chip
    /\ \A i \in DOMAIN heard, j \in Waiting : heard[i] < buffer[j]
    /\ \A i, j \in Waiting : i <= j => buffer[i] + (j - i) <= buffer[j]
    /\ \A j \in Waiting : buffer[j] + (Ended - 1 - j) <= chip
    /\ Len(heard) + (Ended - Skipped) + dropped + forgone = chip
    /\ base + generated = chip

\* What is in the recording, and where.
RecordedFrames ==
    {taken[k] : k \in DOMAIN taken} \cup {fifo.frames[k] : k \in DOMAIN fifo.frames}
InPlace ==
    fifo.buffer =>
        /\ fifo.consumed = Len(taken)
        /\ \A i \in DOMAIN taken : i > mark.stray => taken[i] = mark.base + fifo.first + i
        /\ \A i \in DOMAIN fifo.frames : Len(taken) + i > mark.stray =>
              fifo.frames[i] = mark.base + fifo.first + Len(taken) + i
Complete ==
    active =>
        /\ mark.base = base
        /\ base + fifo.first + Len(taken) + Len(fifo.frames) = chip
        /\ \A j \in Waiting : buffer[j] \in RecordedFrames
        /\ \A i \in DOMAIN heard : i > mark.heard => heard[i] \in RecordedFrames

SoundInv == SoundTyped /\ Locking /\ Positioned /\ Kept /\ InPlace /\ Complete

\* What of it is about the recording alone.
Runs ==
    /\ fifo \in [buffer : BOOLEAN, frames : Seq(Nat), first : Nat, consumed : Nat, epoch : Nat]
    /\ taken \in Seq(Nat) /\ mark.base \in Nat /\ mark.stray \in Nat
    /\ InPlace
    /\ active => mark.base + fifo.first + Len(taken) + Len(fifo.frames) = chip
-----------------------------------------------------------------------------
(***************************************************************************)
(* What the stream's operators do.                                         *)
(***************************************************************************)
LEMMA SoundConstants ==
    /\ Samples \in Nat \ {0} /\ Chunk \in Nat \ {0} /\ ClockBase \in Nat \ {0}
    /\ Reserve \in Nat /\ FifoFrames \in Nat /\ CounterWord \in Nat /\ Samples + Reserve < CounterWord
    /\ Capacity \in Nat /\ Capacity = Samples + Reserve /\ 0 < CounterWord
    /\ 2 * Capacity < CounterWord
    /\ SoundStream!Capacity = Capacity
BY SoundAssumption DEF Capacity, SoundStream!Capacity

LEMMA Modulo ==
    ASSUME NEW x \in Int
    PROVE  x % CounterWord \in Nat /\ (0 <= x /\ x < CounterWord => x % CounterWord = x)
BY SoundConstants

LEMMA Quotient ==
    ASSUME NEW x \in Nat
    PROVE  x \div ClockBase \in Nat
BY SoundConstants

LEMMA SmallerIs ==
    ASSUME NEW a \in Nat, NEW b \in Nat
    PROVE  /\ SoundStream!SmallerOf(a, b) \in Nat
           /\ SoundStream!SmallerOf(a, b) <= a /\ SoundStream!SmallerOf(a, b) <= b
           /\ SoundStream!SmallerOf(a, b) \in {a, b}
BY DEF SoundStream!SmallerOf

LEMMA PendingIs ==
    ASSUME SoundTyped
    PROVE  SoundStream!Pending = Filled /\ Filled \in 0..Capacity
<1>1. Filled \in 0..Capacity /\ Filled < CounterWord /\ Filled \in Int
  BY SoundConstants DEF SoundTyped, Filled
<1>2. SoundStream!Pending = Filled % CounterWord
  BY SoundConstants DEF SoundStream!Pending, Filled
<1>3. Filled % CounterWord = Filled
  BY <1>1, Modulo
<1> QED BY <1>1, <1>2, <1>3

LEMMA FrontIs ==
    ASSUME SoundTyped, NEW n \in 0..Capacity
    PROVE  /\ SoundStream!Front(n) \in Seq(Nat) /\ Len(SoundStream!Front(n)) = n
           /\ \A i \in 1..n : SoundStream!Front(n)[i] = buffer[i - 1]
<1>1. ASSUME NEW i \in 1..n
      PROVE  SoundStream!At(i - 1) = buffer[i - 1] /\ buffer[i - 1] \in Nat
  <2>1. i - 1 \in 0..(Capacity - 1)
    BY SoundConstants
  <2> QED BY <2>1 DEF SoundTyped, SoundStream!At
<1> QED BY <1>1, SoundConstants DEF SoundStream!Front

LEMMA RenderedIs ==
    ASSUME chip \in Nat, NEW n \in Nat
    PROVE  /\ SoundStream!Rendered(n) \in Seq(Nat) /\ Len(SoundStream!Rendered(n)) = n
           /\ \A i \in 1..n : SoundStream!Rendered(n)[i] = chip + i
BY DEF SoundStream!Rendered

LEMMA CopiedIs ==
    ASSUME SoundTyped, NEW p \in Nat, NEW fs \in Seq(Nat)
    PROVE  /\ SoundStream!Copied(p, fs) \in [0..(Capacity - 1) -> Nat]
           /\ \A i \in 0..(Capacity - 1) : SoundStream!Copied(p, fs)[i] =
                 IF p <= i /\ i < p + Len(fs) THEN fs[i - p + 1] ELSE buffer[i]
<1>1. DOMAIN buffer = 0..(Capacity - 1) /\ \A i \in 0..(Capacity - 1) : buffer[i] \in Nat
  BY DEF SoundTyped
<1>2. Len(fs) \in Nat
  OBVIOUS
<1>3. \A i \in 0..(Capacity - 1) : i \in p..(p + Len(fs) - 1) <=> p <= i /\ i < p + Len(fs)
  BY <1>2, SoundConstants
<1>4. \A i \in 0..(Capacity - 1) : p <= i /\ i < p + Len(fs) => fs[i - p + 1] \in Nat
  <2> TAKE i \in 0..(Capacity - 1)
  <2> HAVE p <= i /\ i < p + Len(fs)
  <2>1. i - p + 1 \in 1..Len(fs)
    BY <1>2, SoundConstants
  <2> QED BY <2>1
<1> QED BY <1>1, <1>3, <1>4 DEF SoundStream!Copied

LEMMA MovedIs ==
    ASSUME SoundTyped, NEW from \in Nat, NEW n \in Nat, from + n <= Capacity
    PROVE  /\ SoundStream!Moved(from, n) \in [0..(Capacity - 1) -> Nat]
           /\ \A i \in 0..(Capacity - 1) : SoundStream!Moved(from, n)[i] =
                 IF i < n THEN buffer[from + i] ELSE buffer[i]
<1> DEFINE fs == [i \in 1..n |-> SoundStream!At(from + i - 1)]
<1>1. ASSUME NEW i \in 1..n
      PROVE  /\ SoundStream!At(from + i - 1) = buffer[from + i - 1]
             /\ buffer[from + i - 1] \in Nat
  <2>1. from + i - 1 \in 0..(Capacity - 1)
    BY SMTT(40), SoundConstants
  <2> QED BY <2>1 DEF SoundTyped, SoundStream!At
<1>a. \A i \in 1..n : fs[i] = SoundStream!At(from + i - 1)
  OBVIOUS
<1>b. \A i \in 1..n : SoundStream!At(from + i - 1) \in Nat
  BY <1>1
<1>c. fs \in Seq(Nat) /\ Len(fs) = n
  BY <1>b
<1>2. fs \in Seq(Nat) /\ Len(fs) = n /\ \A i \in 1..n : fs[i] = buffer[from + i - 1]
  <2> HIDE DEF fs
  <2> QED BY <1>1, <1>a, <1>c
<1>3. SoundStream!Moved(from, n) = SoundStream!Copied(0, fs)
  BY DEF SoundStream!Moved
<1> HIDE DEF fs
<1>4. 0 \in Nat OBVIOUS
<1>5. SoundStream!Copied(0, fs) \in [0..(Capacity - 1) -> Nat]
  BY <1>2, <1>4, CopiedIs
<1>6. ASSUME NEW i \in 0..(Capacity - 1)
      PROVE  SoundStream!Copied(0, fs)[i] = IF i < n THEN buffer[from + i] ELSE buffer[i]
  <2>1. SoundStream!Copied(0, fs)[i] =
          IF 0 <= i /\ i < 0 + Len(fs) THEN fs[i - 0 + 1] ELSE buffer[i]
    BY <1>2, <1>4, CopiedIs
  <2>2. ASSUME i < n PROVE fs[i + 1] = buffer[from + i]
    <3>1. i \in Nat /\ i + 1 \in 1..n /\ from + (i + 1) - 1 = from + i
      BY <2>2, SoundConstants
    <3> QED BY <3>1, <1>2
  <2> QED BY <2>1, <2>2, <1>2, SoundConstants
<1> QED BY <1>3, <1>5, <1>6

LEMMA ConcatIs ==
    ASSUME NEW s \in Seq(Nat), NEW t \in Seq(Nat)
    PROVE  /\ s \o t \in Seq(Nat) /\ Len(s) \in Nat /\ Len(t) \in Nat
           /\ Len(s \o t) = Len(s) + Len(t) /\ DOMAIN (s \o t) = 1..(Len(s) + Len(t))
           /\ DOMAIN s = 1..Len(s) /\ DOMAIN t = 1..Len(t)
           /\ \A i \in 1..Len(s) : (s \o t)[i] = s[i]
           /\ \A i \in (Len(s) + 1)..(Len(s) + Len(t)) :
                 i - Len(s) \in 1..Len(t) /\ (s \o t)[i] = t[i - Len(s)]
OBVIOUS
-----------------------------------------------------------------------------
(***************************************************************************)
(* Steps that leave the frames where they are.                             *)
(***************************************************************************)
\* What Kept, InPlace and Complete speak of.
frames == <<buffer, chip, generated, fifo, dropped, heard, forgone, base, taken, mark>>
frameVars == <<frames, remain>>

LEMMA FramesStay ==
    ASSUME SoundInv, UNCHANGED frames, Skipped' = Skipped, Ended' = Ended, active' => active
    PROVE  Kept' /\ InPlace' /\ Complete'
<1>1. Waiting' = Waiting
  BY DEF Waiting
<1>2. Kept'
  BY <1>1 DEF SoundInv, Kept, frames
<1>3. InPlace'
  BY DEF SoundInv, InPlace, frames
<1>4. RecordedFrames' = RecordedFrames
  BY DEF RecordedFrames, frames
<1>5. Complete'
  BY <1>1, <1>4 DEF SoundInv, Complete, frames
<1> QED BY <1>2, <1>3, <1>5

LEMMA FramesUnmoved ==
    ASSUME SoundInv, UNCHANGED frameVars, Skipped' = Skipped, Extra' = Extra, active' => active
    PROVE  Kept' /\ InPlace' /\ Complete'
<1>1. UNCHANGED frames /\ Ended' = Ended
  BY DEF frameVars, frames, Ended, Filled
<1> QED BY <1>1, FramesStay

\* A step of the emulation thread, or one of the audio callback, that changes
\* no frame.
LEMMA RunKeeps ==
    ASSUME SoundInv, NEW d \in Nat, SoundStream!Run(d)
    PROVE  SoundInv'
<1> USE DEF SoundStream!Run, SoundStream!sectionVars, SoundStream!streamVars, SoundStream!recordingVars,
            SoundStream!localVars, SoundStream!historyVars
<1>1. SoundTyped'
  BY DEF SoundInv, SoundTyped
<1>2. Locking'
  BY DEF SoundInv, Locking
<1>3. Positioned'
  BY DEF SoundInv, Positioned, Filled
<1>4. UNCHANGED frameVars /\ Skipped' = Skipped /\ Extra' = Extra /\ (active' => active)
  BY DEF frameVars, frames, Skipped, Extra
<1> QED BY <1>1, <1>2, <1>3, <1>4, FramesUnmoved DEF SoundInv

\* Where the threads are after the step of one of them.
LEMMA Moves ==
    ASSUME SoundTyped, NEW t \in {"emu", "audio"}, NEW l, SoundStream!Goto(t, l)
    PROVE  pc'[t] = l /\ \A u \in {"emu", "audio"} \ {t} : pc'[u] = pc[u]
BY DEF SoundTyped, SoundStream!Goto

LEMMA SyncKeeps ==
    ASSUME SoundInv, SoundStream!Sync
    PROVE  SoundInv'
<1>1. SoundStream!Length \in Nat
  <2>1. now - lastclock \in Int
    BY DEF SoundInv, SoundTyped
  <2> QED BY <2>1, Modulo DEF SoundStream!Length
<1>2. PICK w \in Nat : want' = [want EXCEPT !["emu"] = w]
  BY <1>1, Quotient DEF SoundStream!Sync
<1>3. /\ pc["emu"] = "idle" /\ pc' = [pc EXCEPT !["emu"] = "sync"]
      /\ UNCHANGED <<SoundStream!clockVars, SoundStream!streamVars, SoundStream!recordingVars,
                     owner, count, callbacks, SoundStream!historyVars>>
  BY DEF SoundStream!Sync, SoundStream!Goto, SoundStream!sectionVars
<1> USE DEF SoundStream!streamVars, SoundStream!recordingVars, SoundStream!clockVars,
            SoundStream!historyVars
<1>4. SoundTyped'
  BY <1>2, <1>3 DEF SoundInv, SoundTyped
<1>5. Locking'
  BY <1>2, <1>3 DEF SoundInv, SoundTyped, Locking, EmuLocked, AudioLocked, Locked
<1>6. Positioned'
  BY <1>2, <1>3 DEF SoundInv, SoundTyped, Positioned, Filled
<1>7. UNCHANGED frameVars /\ Skipped' = Skipped /\ Extra' = Extra /\ (active' => active)
  BY <1>2, <1>3 DEF frameVars, frames, Skipped, Extra, SoundInv, SoundTyped
<1> QED BY <1>4, <1>5, <1>6, <1>7, FramesUnmoved DEF SoundInv

\* As long as the threads do not cross, the sections are as good as a lock.
LEMMA TheLock ==
    /\ SoundStream!Trespass /\ ~crossed' => owner = "none"
    /\ \A t : SoundStream!Enter(t) /\ ~crossed' => owner = "none" /\ owner' = t
    /\ SoundStream!Leave => owner' = "none"
BY DEF SoundStream!Trespass, SoundStream!Enter, SoundStream!Leave

LEMMA SyncEnterKeeps ==
    ASSUME SoundInv, SoundStream!SyncEnter, ~crossed'
    PROVE  SoundInv'
<1>1. /\ pc["emu"] = "sync" /\ owner = "none" /\ owner' = "emu"
      /\ count' = [count EXCEPT !["emu"] = want["emu"]]
      /\ UNCHANGED <<SoundStream!clockVars, SoundStream!streamVars, fifo, dropped, want,
                     callbacks, SoundStream!historyVars>>
  BY TheLock DEF SoundStream!SyncEnter
<1>2. /\ active' \in BOOLEAN /\ failed' \in BOOLEAN /\ (active' => active)
      /\ \/ active' /\ pc' = [pc EXCEPT !["emu"] = "record"]
         \/ ~active' /\ pc' = [pc EXCEPT !["emu"] = "prepare"]
  <2> DEFINE full == active /\ ~SoundStream!CanAppend(want["emu"])
  <2>1. /\ active' = (active /\ ~full) /\ failed' = (failed \/ full)
        /\ pc' = [pc EXCEPT !["emu"] = IF active /\ ~full THEN "record" ELSE "prepare"]
    BY DEF SoundStream!SyncEnter, SoundStream!Goto
  <2> HIDE DEF full
  <2> QED BY <2>1
<1> USE DEF SoundStream!streamVars, SoundStream!clockVars, SoundStream!historyVars
<1>4. SoundTyped'
  BY <1>1, <1>2 DEF SoundInv, SoundTyped, EmuLocked, Locked
<1>5. Locking'
  BY <1>1, <1>2 DEF SoundInv, SoundTyped, Locking, EmuLocked, AudioLocked, Locked
<1>6. Positioned'
  BY ZenonT(60), <1>1, <1>2 DEF SoundInv, SoundTyped, Positioned, Filled
<1>7. UNCHANGED frameVars /\ Skipped' = Skipped /\ Extra' = Extra
  BY <1>1, <1>2 DEF frameVars, frames, Skipped, Extra, SoundInv, SoundTyped, Locking, AudioLocked, Locked
<1> QED BY <1>2, <1>4, <1>5, <1>6, <1>7, FramesUnmoved DEF SoundInv

LEMMA SyncLeaveKeeps ==
    ASSUME SoundInv, SoundStream!SyncLeave
    PROVE  SoundInv'
<1>1. /\ pc["emu"] = "prepared" /\ pc' = [pc EXCEPT !["emu"] = "idle"] /\ owner' = "none"
      /\ UNCHANGED <<now, SoundStream!streamVars, SoundStream!recordingVars,
                     SoundStream!localVars, callbacks, SoundStream!historyVars>>
  BY TheLock DEF SoundStream!SyncLeave, SoundStream!Goto
<1>2. lastclock' \in Nat
  <2>1. lastclock + want["emu"] * ClockBase \in Int
    <3>1. PICK l \in Nat, w \in Nat, b \in Nat :
            l = lastclock /\ w = want["emu"] /\ b = ClockBase
      BY SoundConstants DEF SoundInv, SoundTyped
    <3>2. l + w * b \in Int
      OBVIOUS
    <3> QED BY <3>1, <3>2
  <2> QED BY <2>1, Modulo DEF SoundStream!SyncLeave
<1> USE DEF SoundStream!streamVars, SoundStream!recordingVars, SoundStream!localVars,
            SoundStream!historyVars
<1>4. SoundTyped'
  BY <1>1, <1>2 DEF SoundInv, SoundTyped
<1>5. Locking'
  BY <1>1 DEF SoundInv, SoundTyped, Locking, EmuLocked, AudioLocked, Locked
<1>6. Positioned'
  BY <1>1 DEF SoundInv, SoundTyped, Positioned, Filled
<1>7. UNCHANGED frameVars /\ Skipped' = Skipped /\ Extra' = Extra /\ (active' => active)
  BY <1>1 DEF frameVars, frames, Skipped, Extra, SoundInv, SoundTyped, Locking, AudioLocked, Locked
<1> QED BY <1>4, <1>5, <1>6, <1>7, FramesUnmoved DEF SoundInv

LEMMA CallbackKeeps ==
    ASSUME SoundInv, SoundStream!Callback
    PROVE  SoundInv'
<1>1. /\ pc["audio"] = "idle"
      /\ pc' = [pc EXCEPT !["audio"] = IF active THEN "play" ELSE "lock"]
      /\ UNCHANGED <<SoundStream!clockVars, SoundStream!streamVars, SoundStream!recordingVars,
                     owner, SoundStream!localVars, SoundStream!historyVars>>
  BY DEF SoundStream!Callback, SoundStream!Goto, SoundStream!sectionVars
<1> USE DEF SoundStream!streamVars, SoundStream!recordingVars, SoundStream!localVars,
            SoundStream!historyVars, SoundStream!clockVars
<1>4. SoundTyped'
  BY <1>1 DEF SoundInv, SoundTyped
<1>5. Locking'
  BY <1>1 DEF SoundInv, SoundTyped, Locking, EmuLocked, AudioLocked, Locked
<1>6. Positioned'
  BY <1>1 DEF SoundInv, SoundTyped, Positioned, Filled
<1>7. UNCHANGED frameVars /\ Skipped' = Skipped /\ Extra' = Extra /\ (active' => active)
  BY <1>1 DEF frameVars, frames, Skipped, Extra, SoundInv, SoundTyped
<1> QED BY <1>4, <1>5, <1>6, <1>7, FramesUnmoved DEF SoundInv

LEMMA PcmLockKeeps ==
    ASSUME SoundInv, SoundStream!PcmLock, ~crossed'
    PROVE  SoundInv'
<1>1. /\ pc["audio"] = "lock"
      /\ UNCHANGED <<SoundStream!clockVars, SoundStream!streamVars, SoundStream!recordingVars,
                     count, callbacks, SoundStream!historyVars>>
  BY DEF SoundStream!PcmLock
<1>2. ~active
  BY <1>1 DEF SoundInv, Locking
<1>3. owner = "none" /\ owner' = "audio"
  BY <1>2, TheLock DEF SoundStream!PcmLock
<1>a. PICK n \in Nat :
        /\ want' = [want EXCEPT !["audio"] = n]
        /\ pc' = [pc EXCEPT !["audio"] = IF n > 0 THEN "prepare" ELSE "pack"]
        /\ IF remain > Reserve THEN remain = n + Reserve ELSE n = 0
  <2>1. remain \in Nat
    BY SoundConstants DEF SoundInv, SoundTyped
  <2>2. /\ SoundStream!LookAhead \in Nat
        /\ IF remain > Reserve THEN remain = SoundStream!LookAhead + Reserve
           ELSE SoundStream!LookAhead = 0
    BY <2>1, SoundConstants DEF SoundStream!LookAhead
  <2> QED BY <1>2, <2>2 DEF SoundStream!PcmLock, SoundStream!Goto
<1> USE DEF SoundStream!streamVars, SoundStream!recordingVars, SoundStream!localVars,
            SoundStream!historyVars, SoundStream!clockVars
<1>4. SoundTyped'
  BY <1>1, <1>3, <1>a DEF SoundInv, SoundTyped, AudioLocked, Locked
<1>5. Locking'
  BY <1>1, <1>2, <1>3, <1>a DEF SoundInv, SoundTyped, Locking, EmuLocked, AudioLocked, Locked
<1>6. Positioned'
  <2>1. pc'["emu"] = pc["emu"] /\ pc'["audio"] = IF n > 0 THEN "prepare" ELSE "pack"
    BY <1>a DEF SoundInv, SoundTyped
  <2>2. pc["emu"] \notin {"render", "advance", "shrink"}
    BY <1>3 DEF SoundInv, Locking, EmuLocked, Locked
  <2>3. ptr = Filled /\ ptr' = ptr /\ remain' = remain /\ Filled' = Filled
    BY <1>1, <2>2 DEF SoundInv, Positioned, Filled
  <2>4. want'["audio"] = n /\ remain \in Nat
    BY <1>a, SoundConstants DEF SoundInv, SoundTyped
  <2> QED BY <1>a, <2>1, <2>2, <2>3, <2>4, SoundConstants DEF Positioned
<1>7. UNCHANGED frameVars /\ Skipped' = Skipped /\ Extra' = Extra /\ (active' => active)
  BY <1>1, <1>3, <1>a DEF frameVars, frames, Skipped, Extra, SoundInv, SoundTyped
<1> QED BY <1>4, <1>5, <1>6, <1>7, FramesUnmoved DEF SoundInv

LEMMA CaughtUpKeeps ==
    ASSUME SoundInv, SoundStream!CaughtUp
    PROVE  SoundInv'
<1>1. /\ pc["audio"] = "prepared" /\ pc' = [pc EXCEPT !["audio"] = "pack"] /\ lastclock' = now
      /\ UNCHANGED <<now, SoundStream!streamVars, SoundStream!recordingVars, owner,
                     SoundStream!localVars, callbacks, SoundStream!historyVars>>
  BY DEF SoundStream!CaughtUp, SoundStream!Goto, SoundStream!sectionVars
<1> USE DEF SoundStream!streamVars, SoundStream!recordingVars, SoundStream!localVars,
            SoundStream!historyVars
<1>4. SoundTyped'
  BY <1>1 DEF SoundInv, SoundTyped, AudioLocked
<1>5. Locking'
  BY <1>1 DEF SoundInv, SoundTyped, Locking, EmuLocked, AudioLocked, Locked
<1>6. Positioned'
  BY <1>1 DEF SoundInv, SoundTyped, Positioned, Filled
<1>7. UNCHANGED frameVars /\ Skipped' = Skipped /\ Extra' = Extra /\ (active' => active)
  BY <1>1 DEF frameVars, frames, Skipped, Extra, SoundInv, SoundTyped
<1> QED BY <1>4, <1>5, <1>6, <1>7, FramesUnmoved DEF SoundInv

LEMMA StopKeeps ==
    ASSUME SoundInv, SoundStream!Stop
    PROVE  SoundInv'
<1>1. /\ active' = FALSE /\ pc["emu"] = "idle"
      /\ UNCHANGED <<SoundStream!clockVars, SoundStream!streamVars, fifo, failed, dropped, owner,
                     pc, SoundStream!localVars, callbacks, SoundStream!historyVars>>
  BY DEF SoundStream!Stop, SoundStream!Calls, SoundStream!sectionVars
<1> USE DEF SoundStream!streamVars, SoundStream!localVars,
            SoundStream!historyVars, SoundStream!clockVars
<1>4. SoundTyped'
  BY <1>1 DEF SoundInv, SoundTyped
<1>5. Locking'
  BY <1>1 DEF SoundInv, SoundTyped, Locking
<1>6. Positioned'
  BY <1>1 DEF SoundInv, SoundTyped, Positioned, Filled
<1>7. UNCHANGED frameVars /\ Skipped' = Skipped /\ Extra' = Extra /\ (active' => active)
  BY <1>1 DEF frameVars, frames, Skipped, Extra
<1> QED BY <1>4, <1>5, <1>6, <1>7, FramesUnmoved DEF SoundInv

LEMMA ChangeClockKeeps ==
    ASSUME SoundInv, SoundStream!ChangeClock
    PROVE  SoundInv'
<1>1. /\ active' = FALSE /\ failed' \in BOOLEAN /\ pc["emu"] = "idle" /\ lastclock' = now
      /\ UNCHANGED <<now, SoundStream!streamVars, fifo, dropped, owner,
                     pc, SoundStream!localVars, callbacks, SoundStream!historyVars>>
  BY DEF SoundStream!ChangeClock, SoundStream!Calls, SoundStream!EndRecording, SoundStream!sectionVars
<1> USE DEF SoundStream!streamVars, SoundStream!localVars,
            SoundStream!historyVars
<1>4. SoundTyped'
  BY <1>1 DEF SoundInv, SoundTyped
<1>5. Locking'
  BY <1>1 DEF SoundInv, SoundTyped, Locking
<1>6. Positioned'
  BY <1>1 DEF SoundInv, SoundTyped, Positioned, Filled
<1>7. UNCHANGED frameVars /\ Skipped' = Skipped /\ Extra' = Extra /\ (active' => active)
  BY <1>1 DEF frameVars, frames, Skipped, Extra
<1> QED BY <1>4, <1>5, <1>6, <1>7, FramesUnmoved DEF SoundInv

LEMMA ResetKeeps ==
    ASSUME SoundInv, SoundStream!Reset
    PROVE  SoundInv'
<1>1. /\ active' = FALSE /\ failed' \in BOOLEAN /\ pc["emu"] = "idle"
      /\ pc' = [pc EXCEPT !["emu"] = "reset"]
      /\ UNCHANGED <<SoundStream!clockVars, SoundStream!streamVars, fifo, dropped, owner,
                     SoundStream!localVars, callbacks, SoundStream!historyVars>>
  BY DEF SoundStream!Reset, SoundStream!Calls, SoundStream!EndRecording, SoundStream!Goto, SoundStream!sectionVars
<1> USE DEF SoundStream!streamVars, SoundStream!localVars,
            SoundStream!historyVars, SoundStream!clockVars
<1>4. SoundTyped'
  BY <1>1 DEF SoundInv, SoundTyped
<1>5. Locking'
  BY <1>1 DEF SoundInv, SoundTyped, Locking, EmuLocked, AudioLocked, Locked
<1>6. Positioned'
  BY <1>1 DEF SoundInv, SoundTyped, Positioned, Filled
<1>7. UNCHANGED frameVars /\ Skipped' = Skipped /\ Extra' = Extra /\ (active' => active)
  BY <1>1 DEF frameVars, frames, Skipped, Extra, SoundInv, SoundTyped
<1> QED BY <1>4, <1>5, <1>6, <1>7, FramesUnmoved DEF SoundInv

LEMMA PrepareKeeps ==
    ASSUME SoundInv, NEW t \in {"emu", "audio"}, SoundStream!Prepare(t)
    PROVE  SoundInv'
<1>1. PICK n \in Nat :
        /\ pc[t] = "prepare" /\ n <= remain /\ n <= want[t] /\ n \in {remain, want[t]}
        /\ count' = [count EXCEPT ![t] = n]
        /\ pc' = [pc EXCEPT ![t] = IF n = 0 THEN "prepared" ELSE "render"]
  <2>1. remain \in Nat
    BY SoundConstants DEF SoundInv, SoundTyped
  <2>2. want[t] \in Nat
    BY DEF SoundInv, SoundTyped
  <2> QED BY <2>1, <2>2, SmallerIs DEF SoundStream!Prepare, SoundStream!Goto
<1>2. UNCHANGED <<SoundStream!clockVars, SoundStream!streamVars, SoundStream!recordingVars, owner,
                  want, callbacks, SoundStream!historyVars>>
  BY DEF SoundStream!Prepare, SoundStream!sectionVars
<1> USE DEF SoundStream!streamVars, SoundStream!recordingVars,
            SoundStream!historyVars, SoundStream!clockVars
<1>4. SoundTyped'
  BY <1>1, <1>2 DEF SoundInv, SoundTyped, EmuLocked, AudioLocked, Locked
<1>5. Locking'
  BY <1>1, <1>2 DEF SoundInv, SoundTyped, Locking, EmuLocked, AudioLocked, Locked
<1>6. Positioned'
  <2>1. pc'[t] = (IF n = 0 THEN "prepared" ELSE "render") /\ count'[t] = n
    BY <1>1 DEF SoundInv, SoundTyped
  <2>2. \A u \in {"emu", "audio"} \ {t} : pc'[u] = pc[u] /\ count'[u] = count[u]
    BY <1>1 DEF SoundInv, SoundTyped
  <2>3. \A u \in {"emu", "audio"} \ {t} :
          pc[u] \notin {"render", "advance", "shrink", "prepared", "prepare", "pack", "unlock"}
    BY <1>1 DEF SoundInv, Locking, EmuLocked, AudioLocked, Locked
  <2>4. ptr = Filled /\ ptr' = ptr /\ remain' = remain /\ Filled' = Filled /\ want' = want
    BY <1>1, <1>2, <2>3 DEF SoundInv, Positioned, Filled
  <2>5. pc["audio"] = "prepare" => remain = want["audio"] + Reserve /\ want["audio"] \in Nat
    BY DEF SoundInv, Positioned, SoundTyped
  <2>6. pc["audio"] = "shift" => Filled = want["audio"] + count["audio"]
    BY DEF SoundInv, Positioned
  <2>7. CASE t = "emu"
    BY <1>1, <2>1, <2>2, <2>3, <2>4, <2>6, <2>7 DEF Positioned
  <2>8. CASE t = "audio"
    <3>1. n = want["audio"] /\ remain = n + Reserve
      BY <1>1, <2>5, <2>8, SoundConstants
    <3> QED BY <1>1, <2>1, <2>2, <2>3, <2>4, <3>1, <2>8, SoundConstants DEF Positioned
  <2> QED BY <2>7, <2>8
<1>7. UNCHANGED frameVars /\ Skipped' = Skipped /\ Extra' = Extra /\ (active' => active)
  BY <1>1, <1>2 DEF frameVars, frames, Skipped, Extra, SoundInv, SoundTyped, Locking, EmuLocked, AudioLocked, Locked
<1> QED BY <1>4, <1>5, <1>6, <1>7, FramesUnmoved DEF SoundInv
-----------------------------------------------------------------------------
(***************************************************************************)
(* Frames that are added, played and moved to the front.                   *)
(***************************************************************************)
LEMMA Bounds ==
    ASSUME SoundInv
    PROVE  /\ Filled \in 0..Capacity /\ Extra \in Nat /\ Skipped \in Nat /\ Ended \in Nat
           /\ Ended = Filled + Extra /\ Skipped <= Ended /\ Ended <= Capacity
           /\ \A j \in Waiting : j \in Nat /\ Skipped <= j /\ j < Ended /\ buffer[j] \in Nat
<1>1. Filled \in 0..Capacity /\ Filled = Capacity - remain /\ remain \in Nat
  BY SoundConstants DEF SoundInv, SoundTyped, Filled
<1>2. want["audio"] \in Nat /\ count["audio"] \in Nat /\ count["emu"] \in Nat
  BY DEF SoundInv, SoundTyped
<1>3. Extra \in Nat /\ Extra <= remain
  BY <1>1, <1>2 DEF Extra, SoundInv, Positioned
<1>4. Skipped \in Nat
  BY <1>2, SoundConstants DEF Skipped
<1>5. pc["audio"] = "unlock" => remain <= Reserve
  BY DEF SoundInv, Positioned
<1>6. pc["audio"] = "shift" => Filled = want["audio"] + count["audio"]
  BY DEF SoundInv, Positioned
<1>7. Skipped <= Filled
  BY <1>1, <1>2, <1>5, <1>6, SoundConstants DEF Skipped
<1>8. Ended \in Nat /\ Ended = Filled + Extra /\ Skipped <= Ended /\ Ended <= Capacity
  BY <1>1, <1>3, <1>4, <1>7, SoundConstants DEF Ended
<1>9. ASSUME NEW j \in Waiting
      PROVE  j \in Nat /\ Skipped <= j /\ j < Ended /\ buffer[j] \in Nat
  <2>1. j \in Nat /\ Skipped <= j /\ j < Ended /\ j \in 0..(Capacity - 1)
    BY <1>4, <1>8, SoundConstants DEF Waiting
  <2> QED BY <2>1 DEF SoundInv, SoundTyped
<1> QED BY <1>1, <1>3, <1>4, <1>8, <1>9

LEMMA Apart ==
    ASSUME NEW x \in Nat, NEW y \in Nat, NEW p \in Nat, NEW q \in Nat, p < q, x + (q - p) <= y
    PROVE  x < y
OBVIOUS

LEMMA SameSum ==
    \A h, n, e, s, d, f \in Nat :
        (h + n) + (e - (s + n)) + d + f = h + (e - s) + d + f
OBVIOUS

\* n frames are rendered and the first f of them get into the buffer.
LEMMA FramesAdded ==
    ASSUME SoundInv, NEW n \in Nat, NEW f \in 0..n, UNCHANGED <<heard, forgone, base>>,
           Skipped' = Skipped, Ended' = Ended + f,
           chip' = chip + n, generated' = generated + n, dropped' = dropped + (n - f),
           \A j \in Waiting : buffer'[j] = buffer[j],
           \A j \in Ended..(Ended + f - 1) : buffer'[j] = chip + 1 + (j - Ended)
    PROVE  Kept'
<1>0. chip \in Nat /\ generated \in Nat /\ base \in Nat /\ dropped \in Nat /\ forgone \in Nat
      /\ heard \in Seq(Nat)
  BY DEF SoundInv, SoundTyped
<1>1. Skipped \in Nat /\ Ended \in Nat /\ Skipped <= Ended
  BY Bounds
<1>2. \A j \in Waiting : j \in Nat /\ buffer[j] \in Nat /\ Skipped <= j /\ j < Ended
  BY Bounds
<1>3. ASSUME NEW j \in Waiting'
      PROVE  /\ j \in Nat
             /\ \/ j \in Waiting /\ buffer'[j] = buffer[j]
                \/ j \in Ended..(Ended + f - 1) /\ buffer'[j] = chip + 1 + (j - Ended)
  <2>1. j \in Skipped..(Ended + f - 1)
    BY <1>1 DEF Waiting
  <2>2. j \in Waiting \/ j \in Ended..(Ended + f - 1)
    BY <2>1, <1>1 DEF Waiting
  <2> QED BY <2>1, <2>2, <1>1
<1>4. \A i \in DOMAIN heard : heard[i] \in Nat /\ heard[i] <= chip
  BY <1>0 DEF SoundInv, Kept
<1>5. \A i, j \in DOMAIN heard : i < j => heard'[i] < heard'[j]
  BY DEF SoundInv, Kept
<1>6. \A i \in DOMAIN heard : heard'[i] <= chip'
  BY <1>0, <1>4
<1>7. ASSUME NEW i \in DOMAIN heard, NEW j \in Waiting' PROVE heard'[i] < buffer'[j]
  <2>1. CASE j \in Waiting /\ buffer'[j] = buffer[j]
    BY <2>1 DEF SoundInv, Kept
  <2>2. CASE j \in Ended..(Ended + f - 1) /\ buffer'[j] = chip + 1 + (j - Ended)
    BY <2>2, <1>0, <1>1, <1>4
  <2> QED BY <1>3, <2>1, <2>2
<1>8. ASSUME NEW i \in Waiting', NEW j \in Waiting', i <= j
      PROVE  buffer'[i] + (j - i) <= buffer'[j]
  <2>1. i \in Nat /\ j \in Nat
    BY <1>3
  <2>2. CASE j \in Waiting /\ buffer'[j] = buffer[j]
    <3>1. i \in Waiting
      BY <1>1, <1>2, <1>8, <2>1, <2>2 DEF Waiting
    <3>2. buffer'[i] = buffer[i]
      BY <3>1
    <3> QED BY <2>2, <3>1, <3>2, <1>8 DEF SoundInv, Kept
  <2>3. CASE j \in Ended..(Ended + f - 1) /\ buffer'[j] = chip + 1 + (j - Ended)
    <3>1. CASE i \in Waiting /\ buffer'[i] = buffer[i]
      <4>1. buffer[i] + (Ended - 1 - i) <= chip /\ buffer[i] \in Nat
        BY <3>1, <1>2 DEF SoundInv, Kept
      <4> QED BY <4>1, <3>1, <2>1, <2>3, <1>0, <1>1
    <3>2. CASE i \in Ended..(Ended + f - 1) /\ buffer'[i] = chip + 1 + (i - Ended)
      BY <3>2, <2>3, <1>0, <1>1
    <3> QED BY <1>3, <3>1, <3>2
  <2> QED BY <1>3, <2>2, <2>3
<1>9. ASSUME NEW j \in Waiting' PROVE buffer'[j] + (Ended' - 1 - j) <= chip'
  <2>1. CASE j \in Waiting /\ buffer'[j] = buffer[j]
    <3>1. buffer[j] + (Ended - 1 - j) <= chip /\ buffer[j] \in Nat
      BY <2>1, <1>2 DEF SoundInv, Kept
    <3> QED BY <3>1, <2>1, <1>0, <1>1, <1>3
  <2>2. CASE j \in Ended..(Ended + f - 1) /\ buffer'[j] = chip + 1 + (j - Ended)
    BY <2>2, <1>0, <1>1
  <2> QED BY <1>3, <2>1, <2>2
<1>10. Len(heard)' + (Ended' - Skipped') + dropped' + forgone' = chip'
  <2>1. Len(heard) + (Ended - Skipped) + dropped + forgone = chip /\ Len(heard) \in Nat
    BY <1>0 DEF SoundInv, Kept
  <2> QED BY <2>1, <1>0, <1>1
<1>11. base' + generated' = chip'
  BY <1>0 DEF SoundInv, Kept
<1> QED BY <1>5, <1>6, <1>7, <1>8, <1>9, <1>10, <1>11 DEF Kept

\* The first n frames that wait are played and stay where they are.
LEMMA FramesPlayed ==
    ASSUME SoundInv, NEW n \in Nat, NEW s \in Seq(Nat), Len(s) = n, heard' = heard \o s,
           \A i \in 1..n : s[i] = buffer[Skipped + i - 1],
           UNCHANGED <<buffer, chip, generated, fifo, dropped, forgone, base, taken, mark>>,
           Skipped' = Skipped + n, Ended' = Ended, Skipped + n <= Ended, active' = active
    PROVE  Kept' /\ InPlace' /\ Complete'
<1>0. chip \in Nat /\ generated \in Nat /\ base \in Nat /\ dropped \in Nat /\ forgone \in Nat
      /\ heard \in Seq(Nat) /\ Len(heard) \in Nat
  BY DEF SoundInv, SoundTyped
<1>1. Skipped \in Nat /\ Ended \in Nat /\ Skipped <= Ended
  BY Bounds
<1>2. \A j \in Waiting : j \in Nat /\ buffer[j] \in Nat /\ Skipped <= j /\ j < Ended
  BY Bounds
<1>3. DOMAIN heard = 1..Len(heard) /\ DOMAIN heard' = 1..(Len(heard) + n)
      /\ Len(heard)' = Len(heard) + n
  BY <1>0, ConcatIs
<1>4. ASSUME NEW i \in DOMAIN heard'
      PROVE  /\ i \in Nat
             /\ \/ i \in DOMAIN heard /\ heard'[i] = heard[i]
                \/ /\ i \in (Len(heard) + 1)..(Len(heard) + n)
                   /\ Skipped + (i - Len(heard)) - 1 \in Waiting
                   /\ heard'[i] = buffer[Skipped + (i - Len(heard)) - 1]
  <2>1. CASE i \in DOMAIN heard
    BY <2>1, <1>0, <1>3, ConcatIs
  <2>2. CASE i \notin DOMAIN heard
    <3>1. i \in (Len(heard) + 1)..(Len(heard) + n) /\ i - Len(heard) \in 1..n
      BY <2>2, <1>0, <1>3
    <3>2. heard'[i] = s[i - Len(heard)]
      BY <3>1, <1>0, ConcatIs
    <3>3. Skipped + (i - Len(heard)) - 1 \in Waiting
      BY SMTT(40), <3>1, <1>0, <1>1 DEF Waiting
    <3> QED BY <3>1, <3>2, <3>3
  <2> QED BY <2>1, <2>2
<1>5. ASSUME NEW j \in Waiting' PROVE j \in Waiting /\ j \in Nat /\ Skipped + n <= j
  <2>1. j \in (Skipped + n)..(Ended - 1)
    BY DEF Waiting
  <2> QED BY <2>1, <1>1 DEF Waiting
<1>6. ASSUME NEW i \in DOMAIN heard', NEW j \in DOMAIN heard', i < j PROVE heard'[i] < heard'[j]
  <2>1. CASE j \in DOMAIN heard
    <3>1. i \in DOMAIN heard
      BY <2>1, <1>0, <1>3, <1>4, <1>6
    <3> QED BY <3>1, <2>1, <1>0, <1>3, <1>4, <1>6 DEF SoundInv, Kept
  <2>2. CASE j \notin DOMAIN heard /\ i \in DOMAIN heard
    <3>1. heard'[i] = heard[i]
      BY <2>2, <1>0, <1>3, ConcatIs
    <3> QED BY <3>1, <2>2, <1>4 DEF SoundInv, Kept
  <2>3. CASE j \notin DOMAIN heard /\ i \notin DOMAIN heard
    <3> DEFINE a == Skipped + (i - Len(heard)) - 1
               b == Skipped + (j - Len(heard)) - 1
    <3>0. i \in Nat /\ j \in Nat /\ heard'[i] = buffer[a] /\ heard'[j] = buffer[b]
          /\ a \in Waiting /\ b \in Waiting
      BY <2>3, <1>4
    <3>1. a \in Waiting /\ b \in Waiting /\ a < b /\ a \in Nat /\ b \in Nat
          /\ heard'[i] = buffer[a] /\ heard'[j] = buffer[b]
      BY SMTT(40), <3>0, <1>0, <1>1, <1>2, <1>6
    <3> HIDE DEF a, b
    <3>2. buffer[a] \in Nat /\ buffer[b] \in Nat
      BY <3>1, <1>2
    <3>3. a <= b
      BY <3>1
    <3>4. buffer[a] + (b - a) <= buffer[b]
      BY <3>1, <3>3 DEF SoundInv, Kept
    <3>5. PICK x \in Nat, y \in Nat, k \in Nat, l \in Nat :
            x = buffer[a] /\ y = buffer[b] /\ k = a /\ l = b
      BY <3>1, <3>2
    <3>6. x + (l - k) <= y /\ k < l
      BY <3>1, <3>4, <3>5
    <3>7. x < y
      BY <3>6
    <3> QED BY <3>1, <3>5, <3>7
  <2> QED BY <2>1, <2>2, <2>3
<1>7. ASSUME NEW i \in DOMAIN heard' PROVE heard'[i] <= chip'
  <2>1. ASSUME NEW j \in Waiting PROVE buffer[j] <= chip
    <3>1. buffer[j] + (Ended - 1 - j) <= chip
      BY DEF SoundInv, Kept
    <3> QED BY <3>1, <1>0, <1>1, <1>2
  <2> QED BY <2>1, <1>4 DEF SoundInv, Kept
<1>8. ASSUME NEW i \in DOMAIN heard', NEW j \in Waiting' PROVE heard'[i] < buffer'[j]
  <2>1. CASE i \in DOMAIN heard
    <3>1. heard'[i] = heard[i]
      BY <2>1, <1>0, <1>3, ConcatIs
    <3> QED BY <3>1, <2>1, <1>5 DEF SoundInv, Kept
  <2>2. CASE i \notin DOMAIN heard
    <3> DEFINE a == Skipped + (i - Len(heard)) - 1
    <3>0. /\ i \in (Len(heard) + 1)..(Len(heard) + n) /\ a \in Waiting /\ heard'[i] = buffer[a]
          /\ j \in Waiting /\ j \in Nat /\ Skipped + n <= j
      BY <2>2, <1>4, <1>5
    <3>1. a \in Waiting /\ a \in Nat /\ a < j /\ heard'[i] = buffer[a] /\ j \in Waiting /\ j \in Nat
      BY SMTT(40), <3>0, <1>0, <1>1
    <3> HIDE DEF a
    <3>2. buffer[a] + (j - a) <= buffer[j] /\ buffer[a] \in Nat /\ buffer[j] \in Nat
      BY <3>1, <1>2 DEF SoundInv, Kept
    <3>3. buffer[a] < buffer[j]
      BY <3>1, <3>2, Apart
    <3>4. buffer' = buffer
      OBVIOUS
    <3> QED BY <3>1, <3>3, <3>4
  <2> QED BY <2>1, <2>2
<1>9. \A i, j \in Waiting' : i <= j => buffer'[i] + (j - i) <= buffer'[j]
  BY <1>5 DEF SoundInv, Kept
<1>10. \A j \in Waiting' : buffer'[j] + (Ended' - 1 - j) <= chip'
  BY <1>5 DEF SoundInv, Kept
<1>11. Len(heard)' + (Ended' - Skipped') + dropped' + forgone' = chip'
  <2>1. Len(heard) + (Ended - Skipped) + dropped + forgone = chip
    BY DEF SoundInv, Kept
  <2>2. Len(heard)' = Len(heard) + n /\ Ended' = Ended /\ Skipped' = Skipped + n
        /\ dropped' = dropped /\ forgone' = forgone /\ chip' = chip
    BY <1>3
  <2>3. (Len(heard) + n) + (Ended - (Skipped + n)) + dropped + forgone = chip
    <3> DEFINE h == Len(heard)
    <3>1. h \in Nat /\ h + (Ended - Skipped) + dropped + forgone = chip
      BY <2>1, <1>0
    <3> SUFFICES (h + n) + (Ended - (Skipped + n)) + dropped + forgone = chip
      OBVIOUS
    <3> HIDE DEF h
    <3> QED BY <3>1, <1>0, <1>1, SameSum
  <2> QED BY <2>2, <2>3
<1>12. base' + generated' = chip'
  BY DEF SoundInv, Kept
<1>13. Kept'
  BY <1>6, <1>7, <1>8, <1>9, <1>10, <1>11, <1>12 DEF Kept
<1>14. InPlace'
  BY DEF SoundInv, InPlace
<1>15. RecordedFrames' = RecordedFrames
  BY DEF RecordedFrames
<1>16. ASSUME active, NEW i \in DOMAIN heard', i > mark.heard PROVE heard'[i] \in RecordedFrames
  <2>1. CASE i \in DOMAIN heard /\ heard'[i] = heard[i]
    BY <2>1, <1>16 DEF SoundInv, Complete
  <2>2. CASE i \notin DOMAIN heard
    BY <2>2, <1>4, <1>16 DEF SoundInv, Complete
  <2> QED BY <2>1, <2>2, <1>4
<1>17. active => \A j \in Waiting' : buffer'[j] \in RecordedFrames
  BY <1>5 DEF SoundInv, Complete
<1>18. active => /\ mark'.base = base'
                 /\ base' + fifo'.first + Len(taken)' + Len(fifo'.frames) = chip'
  BY DEF SoundInv, Complete
<1>19. Complete'
  BY <1>15, <1>16, <1>17, <1>18 DEF Complete
<1> QED BY <1>13, <1>14, <1>19

\* The frames that wait move to the front.
LEMMA FramesShifted ==
    ASSUME SoundInv, UNCHANGED <<chip, generated, fifo, dropped, heard, forgone, base, taken, mark>>,
           Skipped' = 0, Ended' = Ended - Skipped, active' = active,
           \A j \in 0..(Ended - Skipped - 1) : buffer'[j] = buffer[Skipped + j]
    PROVE  Kept' /\ InPlace' /\ Complete'
<1>0. chip \in Nat /\ heard \in Seq(Nat) /\ dropped \in Nat /\ forgone \in Nat
  BY DEF SoundInv, SoundTyped
<1>1. Skipped \in Nat /\ Ended \in Nat /\ Skipped <= Ended
  BY Bounds
<1>2. ASSUME NEW j \in Waiting'
      PROVE  j \in Nat /\ Skipped + j \in Waiting /\ buffer'[j] = buffer[Skipped + j]
             /\ buffer[Skipped + j] \in Nat
  <2>1. j \in 0..(Ended - Skipped - 1)
    BY DEF Waiting
  <2>2. Skipped + j \in Waiting
    BY <2>1, <1>1 DEF Waiting
  <2> QED BY <2>1, <2>2, Bounds
<1>3. \A i, j \in DOMAIN heard' : i < j => heard'[i] < heard'[j]
  BY DEF SoundInv, Kept
<1>4. \A i \in DOMAIN heard' : heard'[i] <= chip'
  BY DEF SoundInv, Kept
<1>5. \A i \in DOMAIN heard', j \in Waiting' : heard'[i] < buffer'[j]
  BY <1>2 DEF SoundInv, Kept
<1>6. ASSUME NEW i \in Waiting', NEW j \in Waiting', i <= j
      PROVE  buffer'[i] + (j - i) <= buffer'[j]
  <2> DEFINE a == Skipped + i
             b == Skipped + j
  <2>1. a \in Waiting /\ b \in Waiting /\ a <= b /\ b - a = j - i
        /\ buffer'[i] = buffer[a] /\ buffer'[j] = buffer[b]
    BY <1>1, <1>2, <1>6
  <2> HIDE DEF a, b
  <2>2. buffer[a] + (b - a) <= buffer[b]
    BY <2>1 DEF SoundInv, Kept
  <2> QED BY <2>1, <2>2
<1>7. ASSUME NEW j \in Waiting' PROVE buffer'[j] + (Ended' - 1 - j) <= chip'
  <2> DEFINE b == Skipped + j
  <2>1. b \in Waiting /\ buffer'[j] = buffer[b] /\ Ended' - 1 - j = Ended - 1 - b
    BY <1>1, <1>2
  <2> HIDE DEF b
  <2>2. buffer[b] + (Ended - 1 - b) <= chip
    BY <2>1 DEF SoundInv, Kept
  <2> QED BY <2>1, <2>2
<1>8. Len(heard)' + (Ended' - Skipped') + dropped' + forgone' = chip'
  BY <1>0, <1>1 DEF SoundInv, Kept
<1>9. base' + generated' = chip'
  BY DEF SoundInv, Kept
<1>10. Kept'
  BY <1>3, <1>4, <1>5, <1>6, <1>7, <1>8, <1>9 DEF Kept
<1>11. InPlace'
  BY DEF SoundInv, InPlace
<1>12. RecordedFrames' = RecordedFrames
  BY DEF RecordedFrames
<1>13. active => \A j \in Waiting' : buffer'[j] \in RecordedFrames
  BY <1>2 DEF SoundInv, Complete
<1>14. active => \A i \in DOMAIN heard' : i > mark'.heard => heard'[i] \in RecordedFrames
  BY DEF SoundInv, Complete
<1>15. active => /\ mark'.base = base'
                 /\ base' + fifo'.first + Len(taken)' + Len(fifo'.frames) = chip'
  BY DEF SoundInv, Complete
<1>16. Complete'
  BY <1>12, <1>13, <1>14, <1>15 DEF Complete
<1> QED BY <1>10, <1>11, <1>16
-----------------------------------------------------------------------------
(***************************************************************************)
(* The steps of rendering.                                                 *)
(***************************************************************************)
\* While frames are rendered into the buffer alone, nothing is recorded, and
\* the other thread is not in the lock.
LEMMA Alone ==
    ASSUME SoundInv, NEW t \in {"emu", "audio"}, pc[t] \in {"render", "advance", "shrink"}
    PROVE  /\ ~active /\ Skipped = 0 /\ count[t] \in Nat /\ count[t] <= remain
           /\ \A u \in {"emu", "audio"} \ {t} : pc[u] \notin EmuLocked \cup AudioLocked
           /\ Extra = IF pc[t] = "render" THEN 0 ELSE count[t]
           /\ ptr = IF pc[t] = "shrink" THEN Filled + count[t] ELSE Filled
<1>1. pc[t] \in EmuLocked /\ pc[t] \in AudioLocked
  BY DEF EmuLocked, AudioLocked, Locked
<1>2. \A u \in {"emu", "audio"} \ {t} : pc[u] \notin EmuLocked \cup AudioLocked
  BY <1>1 DEF SoundInv, Locking, EmuLocked, AudioLocked, Locked
<1>3. ~active
  BY DEF SoundInv, Locking
<1>4. Skipped = 0
  BY <1>2 DEF Skipped, AudioLocked, Locked
<1>5. count[t] \in Nat /\ count[t] <= remain
  BY DEF SoundInv, SoundTyped, Positioned
<1>6. Extra = IF pc[t] = "render" THEN 0 ELSE count[t]
  BY <1>2 DEF Extra, EmuLocked, Locked
<1>7. ptr = IF pc[t] = "shrink" THEN Filled + count[t] ELSE Filled
  BY <1>2 DEF SoundInv, Positioned, EmuLocked, Locked
<1> QED BY <1>2, <1>3, <1>4, <1>5, <1>6, <1>7

LEMMA RenderKeeps ==
    ASSUME SoundInv, NEW t \in {"emu", "audio"}, SoundStream!Render(t)
    PROVE  SoundInv'
<1>1. /\ pc[t] = "render" /\ pc' = [pc EXCEPT ![t] = "advance"]
      /\ buffer' = SoundStream!Copied(ptr, SoundStream!Rendered(count[t]))
      /\ chip' = chip + count[t] /\ generated' = generated + count[t]
      /\ UNCHANGED <<SoundStream!clockVars, ptr, remain, epoch, SoundStream!recordingVars, owner,
                     SoundStream!localVars, callbacks, SoundStream!historyVars>>
  BY DEF SoundStream!Render, SoundStream!Goto, SoundStream!sectionVars
<1> USE DEF SoundStream!clockVars, SoundStream!recordingVars, SoundStream!localVars,
            SoundStream!historyVars
<1>2. /\ ~active /\ Skipped = 0 /\ count[t] \in Nat /\ count[t] <= remain /\ Extra = 0
      /\ \A u \in {"emu", "audio"} \ {t} : pc[u] \notin EmuLocked \cup AudioLocked
      /\ ptr = Filled
  BY <1>1, Alone
<1>3. chip \in Nat /\ generated \in Nat /\ ptr \in Nat /\ remain \in 0..Capacity
  BY DEF SoundInv, SoundTyped
<1>4. /\ buffer' \in [0..(Capacity - 1) -> Nat]
      /\ \A i \in 0..(Capacity - 1) : buffer'[i] =
            IF ptr <= i /\ i < ptr + count[t] THEN chip + (i - ptr + 1) ELSE buffer[i]
  <2> DEFINE fs == SoundStream!Rendered(count[t])
  <2>1. fs \in Seq(Nat) /\ Len(fs) = count[t] /\ \A i \in 1..count[t] : fs[i] = chip + i
    BY <1>2, <1>3, RenderedIs
  <2>2. buffer' = SoundStream!Copied(ptr, fs)
    BY <1>1
  <2> HIDE DEF fs
  <2>3. ASSUME NEW i \in 0..(Capacity - 1), ptr <= i, i < ptr + count[t]
        PROVE  fs[i - ptr + 1] = chip + (i - ptr + 1)
    <3>1. i - ptr + 1 \in 1..count[t]
      BY <2>3, <1>2, <1>3, SoundConstants
    <3> QED BY <3>1, <2>1
  <2> QED BY <2>1, <2>2, <2>3, <1>3, CopiedIs DEF SoundInv
<1>5. SoundTyped'
  <2>1. chip' \in Nat /\ generated' \in Nat
    BY <1>1, <1>2, <1>3
  <2>2. pc' \in [{"emu", "audio"} -> {"idle", "sync", "reset", "play", "lock"}
                                         \cup EmuLocked \cup AudioLocked]
    BY <1>1 DEF SoundInv, SoundTyped, EmuLocked, AudioLocked, Locked
  <2> QED BY <1>1, <1>4, <2>1, <2>2 DEF SoundInv, SoundTyped
<1>6. Locking'
  BY <1>1, <1>2 DEF SoundInv, SoundTyped, Locking, EmuLocked, AudioLocked, Locked
<1>7. /\ \A u \in {"emu", "audio"} \ {t} : pc'[u] = pc[u]
      /\ pc'[t] = "advance"
  BY <1>1 DEF SoundInv, SoundTyped
<1>8. Positioned'
  BY <1>1, <1>2, <1>7 DEF SoundInv, Positioned, Filled, EmuLocked, AudioLocked, Locked
<1>9. Skipped' = 0 /\ Extra' = count[t] /\ Filled' = Filled
  BY <1>1, <1>2, <1>7 DEF Skipped, Extra, Filled, EmuLocked, AudioLocked, Locked
<1>10. /\ Skipped' = Skipped /\ Ended' = Ended + count[t] /\ Ended = Filled /\ Filled \in Nat
       /\ Filled + count[t] <= Capacity
  BY <1>2, <1>3, <1>9, SoundConstants DEF Ended, Filled
<1>11. \A j \in Waiting : buffer'[j] = buffer[j]
  BY <1>2, <1>4, <1>10, SoundConstants DEF Waiting
<1>12. \A j \in Ended..(Ended + count[t] - 1) : buffer'[j] = chip + 1 + (j - Ended)
  BY <1>2, <1>3, <1>4, <1>10, SoundConstants
<1>13. count[t] \in 0..count[t] /\ dropped' = dropped + (count[t] - count[t])
  <2>1. dropped' = dropped /\ dropped \in Nat
    BY <1>1 DEF SoundInv, SoundTyped
  <2> QED BY <2>1, <1>2
<1>14. UNCHANGED <<heard, forgone, base>>
  BY <1>1
<1>15. Kept'
  BY <1>1, <1>2, <1>10, <1>11, <1>12, <1>13, <1>14, FramesAdded
<1>16. InPlace' /\ Complete'
  BY <1>1, <1>2 DEF SoundInv, InPlace, Complete
<1> QED BY <1>5, <1>6, <1>8, <1>15, <1>16 DEF SoundInv

LEMMA AdvanceKeeps ==
    ASSUME SoundInv, NEW t \in {"emu", "audio"}, SoundStream!Advance(t)
    PROVE  SoundInv'
<1>1. /\ pc[t] = "advance" /\ pc' = [pc EXCEPT ![t] = "shrink"] /\ ptr' = ptr + count[t]
      /\ UNCHANGED <<SoundStream!clockVars, buffer, remain, generated, epoch, chip,
                     SoundStream!recordingVars, owner,
                     SoundStream!localVars, callbacks, SoundStream!historyVars>>
  BY DEF SoundStream!Advance, SoundStream!Goto, SoundStream!sectionVars
<1> USE DEF SoundStream!clockVars, SoundStream!recordingVars, SoundStream!localVars,
            SoundStream!historyVars
<1>2. /\ ~active /\ Skipped = 0 /\ count[t] \in Nat /\ count[t] <= remain /\ Extra = count[t]
      /\ \A u \in {"emu", "audio"} \ {t} : pc[u] \notin EmuLocked \cup AudioLocked
      /\ ptr = Filled
  BY <1>1, Alone
<1>3. SoundTyped'
  <2>1. ptr' \in Nat
    <3>1. ptr \in Nat /\ count[t] \in Nat
      BY <1>2 DEF SoundInv, SoundTyped
    <3>2. ptr' = ptr + count[t]
      BY <1>1
    <3> QED BY <3>1, <3>2
  <2>2. pc' \in [{"emu", "audio"} -> {"idle", "sync", "reset", "play", "lock"}
                                         \cup EmuLocked \cup AudioLocked]
    BY <1>1 DEF SoundInv, SoundTyped, EmuLocked, AudioLocked, Locked
  <2> QED BY <1>1, <2>1, <2>2 DEF SoundInv, SoundTyped
<1>4. Locking'
  BY <1>1, <1>2 DEF SoundInv, SoundTyped, Locking, EmuLocked, AudioLocked, Locked
<1>5. /\ \A u \in {"emu", "audio"} \ {t} : pc'[u] = pc[u]
      /\ pc'[t] = "shrink"
  BY <1>1 DEF SoundInv, SoundTyped
<1>6. Positioned'
  BY <1>1, <1>2, <1>5 DEF SoundInv, Positioned, Filled, EmuLocked, AudioLocked, Locked
<1>7. UNCHANGED frameVars /\ Skipped' = Skipped /\ Extra' = Extra /\ (active' => active)
  BY <1>1, <1>2, <1>5 DEF frameVars, frames, Skipped, Extra, EmuLocked, AudioLocked, Locked
<1> QED BY <1>3, <1>4, <1>6, <1>7, FramesUnmoved DEF SoundInv

LEMMA ShrinkKeeps ==
    ASSUME SoundInv, NEW t \in {"emu", "audio"}, SoundStream!Shrink(t)
    PROVE  SoundInv'
<1>1. /\ pc[t] = "shrink" /\ pc' = [pc EXCEPT ![t] = "prepared"]
      /\ UNCHANGED <<SoundStream!clockVars, buffer, ptr, generated, epoch, chip,
                     SoundStream!recordingVars, owner,
                     SoundStream!localVars, callbacks, SoundStream!historyVars>>
  BY DEF SoundStream!Shrink, SoundStream!Goto, SoundStream!sectionVars
<1> USE DEF SoundStream!clockVars, SoundStream!recordingVars, SoundStream!localVars,
            SoundStream!historyVars
<1>2. /\ ~active /\ Skipped = 0 /\ count[t] \in Nat /\ count[t] <= remain /\ Extra = count[t]
      /\ \A u \in {"emu", "audio"} \ {t} : pc[u] \notin EmuLocked \cup AudioLocked
      /\ ptr = Filled + count[t]
  BY <1>1, Alone
<1>a. remain \in 0..Capacity
  BY DEF SoundInv, SoundTyped
<1>b. remain' = remain - count[t] /\ remain' \in 0..Capacity
  <2>1. remain - count[t] \in Int /\ 0 <= remain - count[t] /\ remain - count[t] < CounterWord
        /\ remain - count[t] \in 0..Capacity
    BY <1>2, <1>a, SoundConstants
  <2>2. remain' = (remain - count[t]) % CounterWord
    BY DEF SoundStream!Shrink
  <2> QED BY <2>1, <2>2, Modulo
<1>3. SoundTyped'
  BY <1>1, <1>2, <1>b DEF SoundInv, SoundTyped, EmuLocked, AudioLocked, Locked
<1>4. Locking'
  BY <1>1, <1>2 DEF SoundInv, SoundTyped, Locking, EmuLocked, AudioLocked, Locked
<1>5. /\ \A u \in {"emu", "audio"} \ {t} : pc'[u] = pc[u]
      /\ pc'[t] = "prepared"
  BY <1>1 DEF SoundInv, SoundTyped
<1>c. Filled' = Filled + count[t] /\ Filled \in Nat
  BY <1>2, <1>a, <1>b, SoundConstants DEF Filled
<1>d. pc["audio"] = "shrink" => remain = count["audio"] + Reserve
  BY DEF SoundInv, Positioned
<1>6. Positioned'
  <2>1. ptr' = Filled' /\ count' = count
    BY <1>1, <1>2, <1>c
  <2>2. t = "audio" => remain' <= Reserve
    BY <1>1, <1>2, <1>a, <1>b, <1>d, SoundConstants
  <2> QED BY <1>1, <1>2, <1>5, <2>1, <2>2 DEF SoundInv, Positioned, EmuLocked, AudioLocked, Locked
<1>7. Skipped' = Skipped /\ Extra' = 0
  BY <1>1, <1>2, <1>5 DEF Skipped, Extra, EmuLocked, AudioLocked, Locked
<1>8. UNCHANGED frames /\ Ended' = Ended /\ (active' => active)
  BY <1>1, <1>2, <1>7, <1>c DEF frames, Ended
<1> QED BY <1>3, <1>4, <1>6, <1>7, <1>8, FramesStay DEF SoundInv
-----------------------------------------------------------------------------
(***************************************************************************)
(* The steps of playing.                                                   *)
(***************************************************************************)
\* While a thread has the lock, the other is not in it.
LEMMA AudioAlone ==
    ASSUME SoundInv, pc["audio"] \in {"shift", "pack", "unlock"} \/ owner = "none"
    PROVE  /\ pc["emu"] \notin EmuLocked /\ Extra = 0 /\ Ended = Filled /\ ptr = Filled
           /\ Filled \in 0..Capacity /\ Filled = Capacity - remain /\ remain \in 0..Capacity
<1>1. pc["emu"] \notin EmuLocked
  BY DEF SoundInv, Locking, AudioLocked
<1>2. pc["audio"] \notin Locked
  BY DEF SoundInv, Locking, AudioLocked, Locked
<1>3. Extra = 0
  BY <1>1, <1>2 DEF Extra, EmuLocked, Locked
<1>4. Filled \in 0..Capacity /\ Filled = Capacity - remain /\ remain \in 0..Capacity
  BY SoundConstants DEF SoundInv, SoundTyped, Filled
<1>5. ptr = Filled
  BY <1>1, <1>2 DEF SoundInv, Positioned, EmuLocked, Locked
<1> QED BY <1>1, <1>3, <1>4, <1>5 DEF Ended

LEMMA PlayKeeps ==
    ASSUME SoundInv, SoundStream!Play, ~crossed'
    PROVE  SoundInv'
<1>1. /\ pc["audio"] = "play" /\ pc' = [pc EXCEPT !["audio"] = "shift"]
      /\ owner = "none" /\ owner' = "audio"
      /\ UNCHANGED <<SoundStream!clockVars, SoundStream!streamVars, SoundStream!recordingVars,
                     callbacks, forgone, base, taken, mark>>
  BY TheLock DEF SoundStream!Play, SoundStream!Goto
<1> USE DEF SoundStream!clockVars, SoundStream!recordingVars, SoundStream!streamVars
<1>2. /\ pc["emu"] \notin EmuLocked /\ Extra = 0 /\ Ended = Filled /\ ptr = Filled
      /\ Filled \in 0..Capacity /\ Filled = Capacity - remain /\ remain \in 0..Capacity
  BY <1>1, AudioAlone
<1>3. PICK n \in Nat :
        /\ n <= Filled /\ n <= Capacity
        /\ heard' = heard \o SoundStream!Front(n)
        /\ want' = [want EXCEPT !["audio"] = n]
        /\ count' = [count EXCEPT !["audio"] = Filled - n]
  <2>1. Filled \in Nat /\ Capacity \in Nat /\ Samples \in Nat
    BY <1>2, SoundConstants
  <2>2. SoundStream!Pending = Filled /\ SoundStream!Capacity = Capacity
    BY PendingIs, SoundConstants DEF SoundInv
  <2> DEFINE n == SoundStream!SmallerOf(Samples, Filled)
  <2>3. n \in Nat /\ n <= Filled /\ n <= Capacity
    BY <1>2, <2>1, SmallerIs, SoundConstants
  <2>4. SoundStream!SmallerOf(n, Capacity) = n
    BY <2>3, <2>1 DEF SoundStream!SmallerOf
  <2>5. /\ heard' = heard \o SoundStream!Front(SoundStream!SmallerOf(n, Capacity))
        /\ want' = [want EXCEPT !["audio"] = n]
        /\ count' = [count EXCEPT !["audio"] = Filled - n]
    BY <2>2 DEF SoundStream!Play
  <2> HIDE DEF n
  <2> QED BY <2>3, <2>4, <2>5
<1>4. /\ SoundStream!Front(n) \in Seq(Nat) /\ Len(SoundStream!Front(n)) = n
      /\ \A i \in 1..n : SoundStream!Front(n)[i] = buffer[i - 1]
  BY SMTT(40), <1>3, FrontIs, SoundConstants DEF SoundInv
<1>a. heard \in Seq(Nat) /\ heard' \in Seq(Nat)
  BY <1>3, <1>4, ConcatIs DEF SoundInv, SoundTyped
<1>5. SoundTyped'
  <2>1. Filled - n \in Nat
    BY <1>2, <1>3, SoundConstants
  <2>2. want' \in [{"emu", "audio"} -> Nat] /\ count' \in [{"emu", "audio"} -> Nat]
    BY <2>1, <1>3 DEF SoundInv, SoundTyped
  <2>3. pc' \in [{"emu", "audio"} -> {"idle", "sync", "reset", "play", "lock"}
                                         \cup EmuLocked \cup AudioLocked]
    BY <1>1 DEF SoundInv, SoundTyped, EmuLocked, AudioLocked, Locked
  <2> QED BY <1>1, <1>a, <2>2, <2>3 DEF SoundInv, SoundTyped
<1>6. Locking'
  BY <1>1, <1>2 DEF SoundInv, SoundTyped, Locking, EmuLocked, AudioLocked, Locked
<1>7. /\ pc'["emu"] = pc["emu"] /\ pc'["audio"] = "shift" /\ want'["audio"] = n
      /\ count'["audio"] = Filled - n /\ count'["emu"] = count["emu"]
  BY <1>1, <1>3 DEF SoundInv, SoundTyped
<1>8. Filled' = Filled /\ Skipped = 0 /\ Skipped' = n /\ Extra' = 0
  BY <1>1, <1>2, <1>7 DEF Filled, Skipped, Extra, EmuLocked, Locked
<1>9. Positioned'
  <2>1. Filled' = want'["audio"] + count'["audio"]
    BY <1>2, <1>3, <1>7, <1>8, SoundConstants
  <2> QED BY <1>1, <1>2, <1>7, <1>8, <2>1 DEF Positioned, EmuLocked, Locked
<1>10. Skipped' = Skipped + n /\ Ended' = Ended /\ Skipped + n <= Ended
  BY <1>2, <1>3, <1>8, SoundConstants DEF Ended
<1>11. \A i \in 1..n : SoundStream!Front(n)[i] = buffer[Skipped + i - 1]
  BY <1>4, <1>8
<1>12. UNCHANGED <<buffer, chip, generated, fifo, dropped, forgone, base, taken, mark>>
       /\ active' = active
  BY <1>1
<1>13. Kept' /\ InPlace' /\ Complete'
  BY <1>3, <1>4, <1>10, <1>11, <1>12, FramesPlayed
<1> QED BY <1>5, <1>6, <1>9, <1>13 DEF SoundInv

LEMMA PackKeeps ==
    ASSUME SoundInv, SoundStream!Pack
    PROVE  SoundInv'
<1>1. /\ pc["audio"] = "pack" /\ pc' = [pc EXCEPT !["audio"] = "unlock"]
      /\ heard' = heard \o SoundStream!Front(Samples)
      /\ UNCHANGED <<SoundStream!clockVars, SoundStream!streamVars, SoundStream!recordingVars,
                     owner, SoundStream!localVars, callbacks, forgone, base, taken, mark>>
  BY DEF SoundStream!Pack, SoundStream!Goto, SoundStream!sectionVars
<1> USE DEF SoundStream!clockVars, SoundStream!recordingVars, SoundStream!streamVars,
            SoundStream!localVars
<1>2. /\ pc["emu"] \notin EmuLocked /\ Extra = 0 /\ Ended = Filled /\ ptr = Filled
      /\ Filled \in 0..Capacity /\ Filled = Capacity - remain /\ remain \in 0..Capacity
  BY <1>1, AudioAlone
<1>3. remain <= Reserve /\ Samples <= Filled /\ Samples \in 0..Capacity /\ Samples \in Nat
  BY <1>1, <1>2, SoundConstants DEF SoundInv, Positioned
<1>4. /\ SoundStream!Front(Samples) \in Seq(Nat) /\ Len(SoundStream!Front(Samples)) = Samples
      /\ \A i \in 1..Samples : SoundStream!Front(Samples)[i] = buffer[i - 1]
  BY <1>3, FrontIs DEF SoundInv
<1>a. heard \in Seq(Nat) /\ heard' \in Seq(Nat)
  BY <1>1, <1>4, ConcatIs DEF SoundInv, SoundTyped
<1>5. SoundTyped'
  <2>1. pc' \in [{"emu", "audio"} -> {"idle", "sync", "reset", "play", "lock"}
                                         \cup EmuLocked \cup AudioLocked]
    BY <1>1 DEF SoundInv, SoundTyped, EmuLocked, AudioLocked, Locked
  <2> QED BY <1>1, <1>a, <2>1 DEF SoundInv, SoundTyped
<1>6. Locking'
  BY <1>1 DEF SoundInv, SoundTyped, Locking, EmuLocked, AudioLocked, Locked
<1>7. pc'["emu"] = pc["emu"] /\ pc'["audio"] = "unlock"
  BY <1>1 DEF SoundInv, SoundTyped
<1>8. Filled' = Filled /\ Skipped = 0 /\ Skipped' = Samples /\ Extra' = 0
  BY <1>1, <1>2, <1>7 DEF Filled, Skipped, Extra, EmuLocked, Locked
<1>9. Positioned'
  BY <1>1, <1>2, <1>3, <1>7, <1>8 DEF Positioned, EmuLocked, Locked
<1>10. Skipped' = Skipped + Samples /\ Ended' = Ended /\ Skipped + Samples <= Ended
  BY <1>2, <1>3, <1>8, SoundConstants DEF Ended
<1>11. \A i \in 1..Samples : SoundStream!Front(Samples)[i] = buffer[Skipped + i - 1]
  BY <1>4, <1>8
<1>12. UNCHANGED <<buffer, chip, generated, fifo, dropped, forgone, base, taken, mark>>
       /\ active' = active
  BY <1>1
<1>13. Kept' /\ InPlace' /\ Complete'
  BY <1>1, <1>3, <1>4, <1>10, <1>11, <1>12, FramesPlayed
<1> QED BY <1>5, <1>6, <1>9, <1>13 DEF SoundInv

LEMMA ShiftKeeps ==
    ASSUME SoundInv, SoundStream!Shift
    PROVE  SoundInv'
<1> DEFINE w == want["audio"]
           c == count["audio"]
<1>1. /\ pc["audio"] = "shift" /\ pc' = [pc EXCEPT !["audio"] = "idle"] /\ owner' = "none"
      /\ IF w = 0 THEN UNCHANGED <<buffer, ptr, remain>>
         ELSE buffer' = SoundStream!Moved(w, c) /\ ptr' = c /\ remain' = (Capacity - c) % CounterWord
      /\ UNCHANGED <<SoundStream!clockVars, generated, epoch, chip, SoundStream!recordingVars,
                     SoundStream!localVars, callbacks, SoundStream!historyVars>>
  BY TheLock, SoundConstants DEF SoundStream!Shift, SoundStream!Goto
<1> USE DEF SoundStream!clockVars, SoundStream!recordingVars, SoundStream!historyVars,
            SoundStream!localVars
<1>2. /\ pc["emu"] \notin EmuLocked /\ Extra = 0 /\ Ended = Filled /\ ptr = Filled
      /\ Filled \in 0..Capacity /\ Filled = Capacity - remain /\ remain \in 0..Capacity
  BY <1>1, AudioAlone
<1>3. w \in Nat /\ c \in Nat /\ Filled = w + c /\ Skipped = w
  BY <1>1 DEF SoundInv, SoundTyped, Positioned, Skipped
<1> HIDE DEF w, c
<1>4. w + c <= Capacity /\ (Capacity - c) % CounterWord = Capacity - c
  <2>1. w + c <= Capacity
    BY <1>2, <1>3, SoundConstants
  <2>2. Capacity - c \in Int /\ 0 <= Capacity - c /\ Capacity - c < CounterWord
    BY <1>3, <2>1, SoundConstants
  <2> QED BY <2>1, <2>2, Modulo
<1>5. /\ buffer' \in [0..(Capacity - 1) -> Nat] /\ ptr' = c /\ remain' = Capacity - c
      /\ \A j \in 0..(c - 1) : buffer'[j] = buffer[w + j]
  <2>1. CASE w = 0
    <3>1. \A j \in 0..(c - 1) : w + j = j
      BY <2>1, <1>3
    <3>2. buffer' = buffer /\ ptr' = ptr /\ remain' = remain
      BY <2>1, <1>1
    <3>3. buffer \in [0..(Capacity - 1) -> Nat]
      BY DEF SoundInv, SoundTyped
    <3>4. ptr = c /\ remain = Capacity - c
      BY <2>1, <1>2, <1>3, SoundConstants
    <3> QED BY <3>1, <3>2, <3>3, <3>4
  <2>2. CASE w # 0
    <3>1. /\ buffer' \in [0..(Capacity - 1) -> Nat]
          /\ \A i \in 0..(Capacity - 1) : buffer'[i] = IF i < c THEN buffer[w + i] ELSE buffer[i]
      BY <2>2, <1>1, <1>3, <1>4, MovedIs DEF SoundInv
    <3>2. \A j \in 0..(c - 1) : j \in 0..(Capacity - 1) /\ j < c
      BY <1>3, <1>4, SoundConstants
    <3> QED BY <2>2, <1>1, <1>4, <3>1, <3>2
  <2> QED BY <2>1, <2>2
<1>6. SoundTyped'
  <2>1. pc' \in [{"emu", "audio"} -> {"idle", "sync", "reset", "play", "lock"}
                                         \cup EmuLocked \cup AudioLocked]
    BY <1>1 DEF SoundInv, SoundTyped
  <2>2. ptr' \in Nat /\ remain' \in 0..Capacity
    BY <1>3, <1>4, <1>5, SoundConstants
  <2> QED BY <1>1, <1>5, <2>1, <2>2 DEF SoundInv, SoundTyped
<1>7. Locking'
  BY <1>1, <1>2 DEF SoundInv, SoundTyped, Locking, EmuLocked, AudioLocked, Locked
<1>8. pc'["emu"] = pc["emu"] /\ pc'["audio"] = "idle"
  BY <1>1 DEF SoundInv, SoundTyped
<1>9. Filled' = c /\ Skipped' = 0 /\ Extra' = 0
  BY <1>2, <1>3, <1>5, <1>8, SoundConstants DEF Filled, Skipped, Extra, EmuLocked, Locked
<1>10. Positioned'
  BY <1>2, <1>5, <1>8, <1>9 DEF Positioned, EmuLocked, Locked
<1>11. Ended' = Ended - Skipped /\ Ended - Skipped = c
  BY <1>2, <1>3, <1>9 DEF Ended
<1>12. \A j \in 0..(Ended - Skipped - 1) : buffer'[j] = buffer[Skipped + j]
  BY <1>3, <1>5, <1>11
<1>13. UNCHANGED <<chip, generated, fifo, dropped, heard, forgone, base, taken, mark>>
       /\ active' = active
  BY <1>1
<1>14. Kept' /\ InPlace' /\ Complete'
  BY <1>9, <1>11, <1>12, <1>13, FramesShifted
<1> QED BY <1>6, <1>7, <1>10, <1>14 DEF SoundInv

LEMMA PcmUnlockKeeps ==
    ASSUME SoundInv, SoundStream!PcmUnlock
    PROVE  SoundInv'
<1> DEFINE c == Reserve - remain
<1>0. c \in Nat /\ SoundStream!Signed(c % CounterWord) = c /\ (Capacity - c) % CounterWord = Capacity - c
  <2>1. remain <= Reserve /\ remain \in Nat
    BY SoundConstants DEF SoundInv, SoundTyped, Positioned, SoundStream!PcmUnlock
  <2>2. c \in Nat /\ c <= Capacity
    BY <2>1, SoundConstants
  <2> HIDE DEF c
  <2>3. c \in Int /\ 0 <= c /\ 2 * c < CounterWord /\ c < CounterWord
    BY <2>2, SoundConstants
  <2>4. Capacity - c \in Int /\ 0 <= Capacity - c /\ Capacity - c < CounterWord
    BY <2>2, SoundConstants
  <2>5. c % CounterWord = c /\ (Capacity - c) % CounterWord = Capacity - c
    BY <2>3, <2>4, Modulo
  <2> QED BY <2>2, <2>3, <2>5 DEF SoundStream!Signed
<1>1. /\ pc["audio"] = "unlock" /\ pc' = [pc EXCEPT !["audio"] = "idle"] /\ owner' = "none"
      /\ buffer' = IF c > 0 THEN SoundStream!Moved(Samples, c) ELSE buffer
      /\ ptr' = c /\ remain' = Capacity - c
      /\ UNCHANGED <<SoundStream!clockVars, generated, epoch, chip, SoundStream!recordingVars,
                     SoundStream!localVars, callbacks, SoundStream!historyVars>>
  BY <1>0, TheLock, SoundConstants
  DEF SoundStream!PcmUnlock, SoundStream!Goto, SoundStream!TailMoved
<1> USE DEF SoundStream!clockVars, SoundStream!recordingVars, SoundStream!historyVars,
            SoundStream!localVars
<1>2. /\ pc["emu"] \notin EmuLocked /\ Extra = 0 /\ Ended = Filled /\ ptr = Filled
      /\ Filled \in 0..Capacity /\ Filled = Capacity - remain /\ remain \in 0..Capacity
  BY <1>1, AudioAlone
<1>3. c \in Nat /\ Filled = Samples + c /\ Skipped = Samples /\ Samples \in Nat
      /\ Samples + c <= Capacity
  <2>1. remain <= Reserve /\ Skipped = Samples
    BY <1>1 DEF SoundInv, Positioned, Skipped
  <2> QED BY <2>1, <1>2, SoundConstants
<1> HIDE DEF c
<1>5. /\ buffer' \in [0..(Capacity - 1) -> Nat]
      /\ \A j \in 0..(c - 1) : buffer'[j] = buffer[Samples + j]
  <2>1. CASE c = 0
    <3>1. buffer' = buffer /\ 0..(c - 1) = {}
      BY <2>1, <1>1
    <3> QED BY <3>1 DEF SoundInv, SoundTyped
  <2>2. CASE c # 0
    <3>0. buffer' = SoundStream!Moved(Samples, c)
      BY <2>2, <1>1, <1>3
    <3>1. /\ buffer' \in [0..(Capacity - 1) -> Nat]
          /\ \A i \in 0..(Capacity - 1) :
               buffer'[i] = IF i < c THEN buffer[Samples + i] ELSE buffer[i]
      BY <3>0, <1>3, MovedIs DEF SoundInv
    <3>2. \A j \in 0..(c - 1) : j \in 0..(Capacity - 1) /\ j < c
      BY <1>3, SoundConstants
    <3> QED BY <3>1, <3>2
  <2> QED BY <2>1, <2>2
<1>6. SoundTyped'
  <2>1. pc' \in [{"emu", "audio"} -> {"idle", "sync", "reset", "play", "lock"}
                                         \cup EmuLocked \cup AudioLocked]
    BY <1>1 DEF SoundInv, SoundTyped
  <2>2. ptr' \in Nat /\ remain' \in 0..Capacity
    BY <1>1, <1>3, SoundConstants
  <2> QED BY <1>1, <1>5, <2>1, <2>2 DEF SoundInv, SoundTyped
<1>7. Locking'
  BY <1>1, <1>2 DEF SoundInv, SoundTyped, Locking, EmuLocked, AudioLocked, Locked
<1>8. pc'["emu"] = pc["emu"] /\ pc'["audio"] = "idle"
  BY <1>1 DEF SoundInv, SoundTyped
<1>9. Filled' = c /\ Skipped' = 0 /\ Extra' = 0
  BY <1>1, <1>2, <1>3, <1>8, SoundConstants DEF Filled, Skipped, Extra, EmuLocked, Locked
<1>10. Positioned'
  BY <1>1, <1>2, <1>8, <1>9 DEF Positioned, EmuLocked, Locked
<1>11. Ended' = Ended - Skipped /\ Ended - Skipped = c
  BY <1>2, <1>3, <1>9 DEF Ended
<1>12. \A j \in 0..(Ended - Skipped - 1) : buffer'[j] = buffer[Skipped + j]
  BY <1>3, <1>5, <1>11
<1>13. UNCHANGED <<chip, generated, fifo, dropped, heard, forgone, base, taken, mark>>
       /\ active' = active
  BY <1>1
<1>14. Kept' /\ InPlace' /\ Complete'
  BY <1>9, <1>11, <1>12, <1>13, FramesShifted
<1> QED BY <1>6, <1>7, <1>10, <1>14 DEF SoundInv
-----------------------------------------------------------------------------
(***************************************************************************)
(* The steps of the recording.                                             *)
(***************************************************************************)
\* Between the calls of both threads nothing is on its way.
LEMMA BothAlone ==
    ASSUME SoundInv, owner = "none"
    PROVE  Extra = 0 /\ Skipped = 0 /\ Ended = Filled /\ ptr = Filled /\ Filled \in 0..Capacity
           /\ pc["emu"] \notin EmuLocked /\ pc["audio"] \notin AudioLocked
<1>1. pc["emu"] \notin EmuLocked /\ pc["audio"] \notin AudioLocked
  BY DEF SoundInv, Locking
<1>2. Extra = 0 /\ Ended = Filled /\ ptr = Filled /\ Filled \in 0..Capacity
  BY AudioAlone
<1>3. Skipped = 0
  BY <1>1 DEF Skipped, AudioLocked, Locked
<1> QED BY <1>1, <1>2, <1>3

LEMMA SameEnd ==
    ASSUME NEW b \in Nat, NEW p \in Nat, NEW t \in Nat, NEW a \in Nat, NEW c \in Nat,
           NEW i \in Nat, b + p + t + a = c
    PROVE  c + (i - a) = b + p + t + i
OBVIOUS

LEMMA SoundRuns == SoundInv => Runs
BY DEF SoundInv, SoundTyped, Runs, Complete

\* Frames that are rendered into the recording take the next positions.
LEMMA RecordRuns ==
    ASSUME Runs, active, fifo.buffer, NEW n \in Nat,
           fifo' = [fifo EXCEPT !.frames = @ \o SoundStream!Rendered(n)], chip' = chip + n,
           UNCHANGED <<active, taken, mark>>
    PROVE  Runs'
<1> DEFINE new == SoundStream!Rendered(n)
           old == fifo.frames
<1>1. /\ old \in Seq(Nat) /\ taken \in Seq(Nat) /\ Len(old) \in Nat /\ Len(taken) \in Nat
      /\ fifo.first \in Nat /\ mark.base \in Nat /\ mark.stray \in Nat
  BY DEF Runs
<1>2. PICK a \in Nat, b \in Nat, o \in Nat :
        a = Len(old) /\ b = Len(taken) /\ o = mark.base + fifo.first
  <2>1. mark.base + fifo.first \in Nat
    BY <1>1
  <2> QED BY <1>1, <2>1, Zenon
<1>3. chip = o + b + a
  BY <1>2 DEF Runs
<1>4. chip \in Nat
  BY <1>3
<1>5. new \in Seq(Nat) /\ Len(new) = n /\ \A i \in 1..n : new[i] = chip + i
  BY <1>4, RenderedIs
<1>6. /\ fifo' = [fifo EXCEPT !.frames = old \o new] /\ fifo'.frames = old \o new
      /\ fifo'.buffer = fifo.buffer /\ fifo'.first = fifo.first /\ fifo'.consumed = fifo.consumed
  BY DEF Runs
<1> HIDE DEF new
<1>7. old \o new \in Seq(Nat) /\ Len(old \o new) = a + n
      /\ DOMAIN (old \o new) = 1..(a + n) /\ DOMAIN old = 1..a
      /\ (\A i \in 1..a : (old \o new)[i] = old[i])
      /\ \A i \in (a + 1)..(a + n) : i - a \in 1..n /\ (old \o new)[i] = chip + (i - a)
  <2>1. /\ old \o new \in Seq(Nat) /\ Len(old \o new) = Len(old) + Len(new)
        /\ DOMAIN (old \o new) = 1..(Len(old) + Len(new)) /\ DOMAIN old = 1..Len(old)
        /\ \A i \in 1..Len(old) : (old \o new)[i] = old[i]
        /\ \A i \in (Len(old) + 1)..(Len(old) + Len(new)) :
              i - Len(old) \in 1..Len(new) /\ (old \o new)[i] = new[i - Len(old)]
    BY <1>1, <1>5, ConcatIs
  <2> QED BY <2>1, <1>2, <1>5
<1>8. /\ fifo'.consumed = b /\ Len(taken') = b /\ DOMAIN taken' = DOMAIN taken
      /\ \A i \in DOMAIN taken : i > mark.stray => taken[i] = o + i
      /\ \A i \in 1..a : b + i > mark.stray => old[i] = o + b + i
  BY <1>2, <1>6, <1>7 DEF Runs, InPlace
<1>9. ASSUME NEW i \in 1..(a + n), b + i > mark.stray
      PROVE  (old \o new)[i] = o + b + i
  <2>1. CASE i \in 1..a
    BY <1>7, <1>8, <1>9, <2>1
  <2>2. CASE i \in (a + 1)..(a + n)
    <3>1. o + b + a + (i - a) = o + b + i
      OBVIOUS
    <3> QED BY <1>3, <1>7, <2>2, <3>1
  <2> QED BY <1>7, <2>1, <2>2
<1>10. mark'.base + fifo'.first = o /\ mark'.stray = mark.stray /\ taken' = taken
  BY <1>2, <1>6
<1>11. InPlace'
  <2>1. \A i \in DOMAIN fifo'.frames : b + i > mark'.stray => fifo'.frames[i] = o + b + i
    BY <1>6, <1>7, <1>9, <1>10
  <2> QED BY <1>8, <1>10, <2>1 DEF InPlace
<1>12. mark'.base + fifo'.first + Len(taken') + Len(fifo'.frames) = chip'
  BY <1>3, <1>6, <1>7, <1>8, <1>10
<1>13. fifo' \in [buffer : BOOLEAN, frames : Seq(Nat), first : Nat, consumed : Nat, epoch : Nat]
  BY <1>6, <1>7 DEF Runs
<1> QED BY <1>1, <1>11, <1>12, <1>13 DEF Runs

LEMMA RecordKeeps ==
    ASSUME SoundInv, SoundStream!Record
    PROVE  SoundInv'
<1>1. /\ pc["emu"] = "record"
      /\ UNCHANGED <<SoundStream!clockVars, epoch, active, failed, owner, want, callbacks,
                     SoundStream!historyVars>>
  BY DEF SoundStream!Record, SoundStream!sectionVars
<1> USE DEF SoundStream!clockVars, SoundStream!historyVars
<1>2. /\ active /\ fifo.buffer /\ pc["audio"] \in {"idle", "play"} /\ owner = "emu"
      /\ Skipped = 0 /\ Extra = 0 /\ Ended = Filled /\ ptr = Filled
  <2>1. active /\ fifo.buffer /\ pc["audio"] \in {"idle", "play"} /\ owner = "emu"
    BY <1>1 DEF SoundInv, Locking, EmuLocked, AudioLocked, Locked
  <2>2. Skipped = 0 /\ Extra = 0
    BY <1>1, <2>1 DEF Skipped, Extra
  <2>3. ptr = Filled
    BY <1>1, <2>1 DEF SoundInv, Positioned
  <2>4. Filled \in Nat
    BY Bounds
  <2> QED BY <2>1, <2>2, <2>3, <2>4 DEF Ended
<1>3. Filled \in 0..Capacity /\ Filled = Capacity - remain /\ remain \in 0..Capacity
      /\ chip \in Nat /\ generated \in Nat /\ dropped \in Nat /\ taken \in Seq(Nat)
      /\ fifo.frames \in Seq(Nat) /\ fifo.first \in Nat
  BY SoundConstants DEF SoundInv, SoundTyped, Filled
<1>4. PICK n \in Nat, f \in Nat :
        /\ n <= count["emu"] /\ f <= n /\ f <= remain
        /\ fifo' = [fifo EXCEPT !.frames = @ \o SoundStream!Rendered(n)]
        /\ chip' = chip + n /\ generated' = generated + n
        /\ buffer' = SoundStream!Copied(Filled, SoundStream!Rendered(f))
        /\ ptr' = Filled + f /\ remain' = (remain - f) % CounterWord
        /\ dropped' = dropped + (n - f)
        /\ count' = [count EXCEPT !["emu"] = @ - n]
        /\ pc' = [pc EXCEPT !["emu"] = IF n = count["emu"] THEN "prepared" ELSE "record"]
  <2>1. SoundStream!Pending = Filled
    BY PendingIs DEF SoundInv
  <2>2. count["emu"] \in Nat /\ Chunk \in Nat /\ remain \in Nat
    BY <1>3, SoundConstants DEF SoundInv, SoundTyped
  <2> DEFINE n == SoundStream!SmallerOf(count["emu"], Chunk)
             f == SoundStream!SmallerOf(n, remain)
  <2>3. n \in Nat /\ n <= count["emu"]
    BY <2>2, SmallerIs
  <2>4. f \in Nat /\ f <= n /\ f <= remain
    BY <2>2, <2>3, SmallerIs
  <2>5. /\ fifo' = [fifo EXCEPT !.frames = @ \o SoundStream!Rendered(n)]
        /\ chip' = chip + n /\ generated' = generated + n
        /\ buffer' = SoundStream!Copied(Filled, SoundStream!Rendered(f))
        /\ ptr' = Filled + f /\ remain' = (remain - f) % CounterWord
        /\ dropped' = dropped + (n - f)
        /\ count' = [count EXCEPT !["emu"] = @ - n]
        /\ pc' = [pc EXCEPT !["emu"] = IF n = count["emu"] THEN "prepared" ELSE "record"]
    BY <2>1 DEF SoundStream!Record, SoundStream!Goto
  <2> HIDE DEF n, f
  <2> QED BY <2>3, <2>4, <2>5
<1>a. n \in Nat /\ f \in Nat /\ n <= count["emu"] /\ f <= n /\ f <= remain
      /\ count["emu"] \in Nat
  BY <1>4 DEF SoundInv, SoundTyped
<1>b. chip' = chip + n /\ generated' = generated + n /\ dropped' = dropped + (n - f)
      /\ ptr' = Filled + f
  BY <1>4
<1>5. remain' = remain - f /\ remain' \in 0..Capacity /\ Filled + f <= Capacity
  <2>1. remain - f \in Int /\ 0 <= remain - f /\ remain - f < CounterWord /\ remain - f \in 0..Capacity
        /\ Filled + f <= Capacity
    BY <1>3, <1>a, SoundConstants
  <2> QED BY <2>1, <1>4, Modulo
<1> DEFINE new == SoundStream!Rendered(n)
           old == fifo.frames
<1>6. new \in Seq(Nat) /\ Len(new) = n /\ \A i \in 1..n : new[i] = chip + i
  BY <1>3, RenderedIs
<1>7. /\ fifo' = [fifo EXCEPT !.frames = old \o new] /\ fifo'.frames = old \o new
      /\ fifo'.buffer = fifo.buffer /\ fifo'.first = fifo.first /\ fifo'.consumed = fifo.consumed
  BY <1>4 DEF SoundInv, SoundTyped
<1>8. /\ buffer' \in [0..(Capacity - 1) -> Nat]
      /\ \A i \in 0..(Capacity - 1) : buffer'[i] =
            IF Filled <= i /\ i < Filled + f THEN chip + (i - Filled + 1) ELSE buffer[i]
  <2> DEFINE fs == SoundStream!Rendered(f)
  <2>1. fs \in Seq(Nat) /\ Len(fs) = f /\ \A i \in 1..f : fs[i] = chip + i
    BY <1>3, RenderedIs
  <2>2. buffer' = SoundStream!Copied(Filled, fs) /\ Filled \in Nat
    BY <1>3, <1>4
  <2> HIDE DEF fs
  <2>3. ASSUME NEW i \in 0..(Capacity - 1), Filled <= i, i < Filled + f
        PROVE  fs[i - Filled + 1] = chip + (i - Filled + 1)
    <3>1. i - Filled + 1 \in 1..f
      BY <2>2, <2>3, <1>3, SoundConstants
    <3> QED BY <3>1, <2>1
  <2> QED BY <2>1, <2>2, <2>3, CopiedIs DEF SoundInv
<1> HIDE DEF new
<1>9. old \o new \in Seq(Nat) /\ Len(old \o new) = Len(old) + n
      /\ DOMAIN (old \o new) = 1..(Len(old) + n) /\ DOMAIN old = 1..Len(old) /\ Len(old) \in Nat
      /\ (\A i \in 1..Len(old) : (old \o new)[i] = old[i])
      /\ \A i \in (Len(old) + 1)..(Len(old) + n) :
           i - Len(old) \in 1..n /\ (old \o new)[i] = chip + (i - Len(old))
  <2>1. /\ old \o new \in Seq(Nat) /\ Len(old) \in Nat
        /\ Len(old \o new) = Len(old) + Len(new) /\ DOMAIN (old \o new) = 1..(Len(old) + Len(new))
        /\ DOMAIN old = 1..Len(old)
        /\ \A i \in 1..Len(old) : (old \o new)[i] = old[i]
        /\ \A i \in (Len(old) + 1)..(Len(old) + Len(new)) :
              i - Len(old) \in 1..Len(new) /\ (old \o new)[i] = new[i - Len(old)]
    BY <1>3, <1>6, ConcatIs
  <2> QED BY <2>1, <1>6
<1>c. PICK a \in Nat, b \in Nat : a = Len(old) /\ b = Len(taken)
  BY <1>3, <1>9
<1>10. SoundTyped'
  <2>1. pc' \in [{"emu", "audio"} -> {"idle", "sync", "reset", "play", "lock"}
                                         \cup EmuLocked \cup AudioLocked]
    BY <1>4 DEF SoundInv, SoundTyped, EmuLocked, AudioLocked, Locked
  <2>2. count["emu"] - n \in Nat
    BY <1>a
  <2>3. count' \in [{"emu", "audio"} -> Nat]
    BY <2>2, <1>4 DEF SoundInv, SoundTyped
  <2>4. chip' \in Nat /\ generated' \in Nat /\ dropped' \in Nat /\ ptr' \in Nat
    BY <1>3, <1>a, <1>b
  <2>5. fifo' \in [buffer : BOOLEAN, frames : Seq(Nat), first : Nat, consumed : Nat, epoch : Nat]
    BY <1>7, <1>9 DEF SoundInv, SoundTyped
  <2> QED BY <1>1, <1>5, <1>8, <2>1, <2>3, <2>4, <2>5 DEF SoundInv, SoundTyped
<1>11. pc'["audio"] = pc["audio"] /\ pc'["emu"] \in {"prepared", "record"}
  BY <1>4 DEF SoundInv, SoundTyped
<1>12. Locking'
  BY <1>1, <1>2, <1>7, <1>11 DEF Locking, EmuLocked, AudioLocked, Locked
<1>13. Filled' = Filled + f /\ Skipped' = 0 /\ Extra' = 0
  BY <1>2, <1>3, <1>5, <1>11, SoundConstants DEF Filled, Skipped, Extra
<1>14. Positioned'
  BY <1>2, <1>4, <1>11, <1>13 DEF Positioned
<1>15. /\ Skipped' = Skipped /\ Ended' = Ended + f /\ Ended = Filled /\ f \in 0..n
       /\ UNCHANGED <<heard, forgone, base>>
  BY <1>1, <1>2, <1>3, <1>4, <1>13 DEF Ended
<1>16. \A j \in Waiting : buffer'[j] = buffer[j]
  BY <1>2, <1>3, <1>8, <1>15, SoundConstants DEF Waiting
<1>17. \A j \in Ended..(Ended + f - 1) : buffer'[j] = chip + 1 + (j - Ended)
  <2> TAKE j \in Ended..(Ended + f - 1)
  <2>1. j \in 0..(Capacity - 1) /\ Filled <= j /\ j < Filled + f /\ j \in Nat /\ Filled \in Nat
    BY <1>3, <1>a, <1>5, <1>15, SoundConstants
  <2>2. buffer'[j] = chip + (j - Filled + 1)
    BY <2>1, <1>8
  <2> QED BY SMTT(40), <2>1, <2>2, <1>3, <1>15
<1>18. Kept'
  BY <1>4, <1>15, <1>16, <1>17, FramesAdded
<1>19. mark.base = base /\ base + fifo.first + Len(taken) + Len(old) = chip
       /\ taken' = taken /\ mark' = mark /\ base' = base /\ Len(taken) \in Nat
       /\ mark.base \in Nat
  <2>1. mark.base = base /\ base + fifo.first + Len(taken) + Len(old) = chip
    BY <1>2 DEF SoundInv, Complete
  <2>2. taken' = taken /\ mark' = mark /\ base' = base
    BY <1>1
  <2>3. Len(taken) \in Nat /\ mark.base \in Nat
    BY <1>3 DEF SoundInv, SoundTyped
  <2> QED BY <2>1, <2>2, <2>3
<1>20. Runs'
  <2>1. Runs
    BY SoundRuns
  <2>2. UNCHANGED <<active, taken, mark>>
    BY <1>1
  <2> QED BY <1>2, <1>4, <2>1, <2>2, RecordRuns
<1>21. RecordedFrames \subseteq RecordedFrames'
       /\ \A i \in 1..n : chip + i \in RecordedFrames'
  <2>1. \A k \in DOMAIN old : k \in DOMAIN (old \o new) /\ old[k] = (old \o new)[k]
    BY <1>9
  <2>2. RecordedFrames \subseteq RecordedFrames'
    BY <2>1, <1>7, <1>19 DEF RecordedFrames
  <2>3. ASSUME NEW i \in 1..n PROVE chip + i \in RecordedFrames'
    <3> DEFINE k == Len(old) + i
    <3>1. k \in (Len(old) + 1)..(Len(old) + n) /\ k - Len(old) = i /\ k \in 1..(Len(old) + n)
      BY <1>9
    <3>2. k \in DOMAIN (old \o new) /\ (old \o new)[k] = chip + i
      BY <3>1, <1>9
    <3> QED BY <3>2, <1>7 DEF RecordedFrames
  <2> QED BY <2>2, <2>3
<1>22. Complete'
  <2>1. base' + fifo'.first + Len(taken)' + Len(fifo'.frames) = chip'
    BY <1>1, <1>2, <1>19, <1>20 DEF Runs
  <2>2. ASSUME NEW j \in Waiting' PROVE buffer'[j] \in RecordedFrames'
    <3>1. j \in 0..(Filled + f - 1)
      <4>1. Waiting' = 0..(Ended + f - 1)
        BY <1>3, <1>13, <1>15 DEF Waiting
      <4> QED BY <4>1, <1>15
    <3>2. CASE j < Filled
      <4>1. j \in Waiting
        BY <3>1, <3>2, <1>2, <1>3 DEF Waiting
      <4> QED BY <4>1, <1>2, <1>16, <1>21 DEF SoundInv, Complete
    <3>3. CASE Filled <= j
      <4>1. j - Filled + 1 \in 1..n /\ j \in Ended..(Ended + f - 1)
        <5>1. PICK q \in Nat : q = Filled /\ q = Ended /\ f <= n
          BY <1>3, <1>15
        <5>2. j \in 0..(q + f - 1) /\ q <= j
          BY <3>1, <3>3, <5>1
        <5>3. j - q + 1 \in 1..n /\ j \in q..(q + f - 1)
          BY <5>1, <5>2
        <5> QED BY <5>1, <5>3
      <4>2. buffer'[j] = chip + (j - Filled + 1)
        BY <3>1, <3>3, <1>3, <1>5, <1>8, SoundConstants
      <4> QED BY <4>1, <4>2, <1>21
    <3> QED BY <3>1, <3>2, <3>3, <1>3
  <2>3. \A i \in DOMAIN heard : i > mark.heard => heard[i] \in RecordedFrames'
    BY <1>2, <1>21 DEF SoundInv, Complete
  <2> QED BY <2>1, <2>2, <2>3, <1>15, <1>19 DEF Complete
<1> QED BY <1>10, <1>12, <1>14, <1>18, <1>20, <1>22 DEF SoundInv, Runs

LEMMA StartKeeps ==
    ASSUME SoundInv, SoundStream!Start
    PROVE  SoundInv'
<1>1. /\ pc["emu"] = "idle" /\ pc["audio"] = "idle"
      /\ SoundStream!Pending = Filled /\ Filled <= generated
      /\ fifo' = [buffer |-> TRUE, frames |-> SoundStream!Front(Filled),
                  first |-> generated - Filled, consumed |-> 0, epoch |-> epoch]
      /\ active' = TRUE /\ failed' = FALSE /\ dropped' = 0
      /\ forgone' = forgone + dropped /\ taken' = <<>>
      /\ UNCHANGED <<SoundStream!clockVars, SoundStream!streamVars, owner, pc,
                     SoundStream!localVars, callbacks, heard, base>>
  BY PendingIs DEF SoundInv, SoundStream!Start, SoundStream!Calls, SoundStream!Paused,
                   SoundStream!AtHand, SoundStream!sectionVars
<1>2. PICK stray \in Nat :
        /\ mark'.base = base /\ mark'.heard = Len(heard) /\ mark'.stray = stray
        /\ stray = IF Filled > 0 /\ buffer[0] # chip - Filled + 1 THEN Filled ELSE 0
  <2>1. Filled \in Nat
    BY Bounds, SoundConstants
  <2> DEFINE s == IF Filled > 0 /\ buffer[0] # chip - Filled + 1 THEN Filled ELSE 0
  <2>2. s \in Nat
    BY <2>1
  <2>3. mark'.base = base /\ mark'.heard = Len(heard) /\ mark'.stray = s
    BY <1>1 DEF SoundStream!Start
  <2> QED BY <2>2, <2>3
<1> USE DEF SoundStream!clockVars, SoundStream!streamVars, SoundStream!localVars
<1>3. owner = "none" /\ owner' = "none"
  BY <1>1 DEF SoundInv, SoundTyped, Locking, EmuLocked, AudioLocked, Locked
<1>4. /\ Extra = 0 /\ Skipped = 0 /\ Ended = Filled /\ ptr = Filled /\ Filled \in 0..Capacity
      /\ Filled \in Nat
  BY <1>3, BothAlone, SoundConstants
<1>5. /\ chip \in Nat /\ generated \in Nat /\ dropped \in Nat /\ forgone \in Nat /\ base \in Nat
      /\ heard \in Seq(Nat) /\ Len(heard) \in Nat /\ epoch \in Nat
  BY DEF SoundInv, SoundTyped
<1> DEFINE new == SoundStream!Front(Filled)
<1>6. new \in Seq(Nat) /\ Len(new) = Filled /\ DOMAIN new = 1..Filled
      /\ \A i \in 1..Filled : new[i] = buffer[i - 1]
  <2>1. new \in Seq(Nat) /\ Len(new) = Filled /\ \A i \in 1..Filled : new[i] = buffer[i - 1]
    BY <1>4, FrontIs DEF SoundInv
  <2> QED BY <2>1
<1> HIDE DEF new
<1>7. /\ fifo'.buffer = TRUE /\ fifo'.frames = new /\ fifo'.first = generated - Filled
      /\ fifo'.consumed = 0 /\ generated - Filled \in Nat
      /\ mark'.base = base /\ mark'.stray = stray /\ mark'.heard = Len(heard)
  BY <1>1, <1>2, <1>4, <1>5 DEF new
<1>8. SoundTyped'
  <2>1. fifo' \in [buffer : BOOLEAN, frames : Seq(Nat), first : Nat, consumed : Nat, epoch : Nat]
    BY <1>1, <1>5, <1>6, <1>7 DEF new
  <2>2. mark'.base \in Nat /\ mark'.heard \in Nat /\ mark'.stray \in Nat
    BY <1>2, <1>5
  <2>3. forgone' \in Nat /\ dropped' \in Nat /\ taken' \in Seq(Nat)
    BY <1>1, <1>5
  <2>4. active' \in BOOLEAN /\ failed' \in BOOLEAN
    BY <1>1
  <2> QED BY <1>1, <1>5, <2>1, <2>2, <2>3, <2>4 DEF SoundInv, SoundTyped
<1>9. Locking'
  BY <1>1, <1>3, <1>7 DEF Locking, EmuLocked, AudioLocked, Locked
<1>10. Filled' = Filled /\ Skipped' = 0 /\ Extra' = 0 /\ Ended' = Filled /\ Waiting' = Waiting
  BY <1>1, <1>4 DEF Filled, Skipped, Extra, Ended, Waiting
<1>11. Positioned'
  BY <1>1, <1>4, <1>10 DEF Positioned
<1>12. Kept'
  <2>1. Len(heard)' + (Ended' - Skipped') + dropped' + forgone' = chip'
    <3> DEFINE h == Len(heard)
    <3>1. h \in Nat /\ h + (Filled - 0) + dropped + forgone = chip
      BY <1>4, <1>5 DEF SoundInv, Kept
    <3>2. Len(heard)' = h /\ Ended' = Filled /\ Skipped' = 0 /\ dropped' = 0
          /\ forgone' = forgone + dropped /\ chip' = chip
      BY <1>1, <1>10
    <3> HIDE DEF h
    <3>3. h + (Filled - 0) + 0 + (forgone + dropped) = chip
      BY <3>1, <1>4, <1>5
    <3> QED BY <3>2, <3>3
  <2>2. Ended' = Ended /\ UNCHANGED <<heard, chip, buffer, base, generated>>
    BY <1>1, <1>4, <1>10
  <2> QED BY <2>1, <2>2, <1>10 DEF SoundInv, Kept
<1>13. InPlace'
  <2>1. ASSUME NEW i \in 1..Filled, 0 + i > stray
        PROVE  new[i] = base + (generated - Filled) + 0 + i
    <3>1. i \in Nat /\ 1 <= i /\ i <= Filled /\ 0 < Filled /\ i - 1 \in Nat
      BY <1>4
    <3>2. buffer[0] = chip - Filled + 1
      BY <1>2, <2>1, <3>1, <1>4
    <3>3. 0 \in Waiting /\ i - 1 \in Waiting
      BY <1>4, <3>1 DEF Waiting
    <3>4. buffer[i - 1] \in Nat /\ buffer[0] \in Nat
      BY <3>3, Bounds
    <3>5. buffer[0] + ((i - 1) - 0) <= buffer[i - 1]
          /\ buffer[i - 1] + (Filled - 1 - (i - 1)) <= chip
      BY <3>1, <3>3, <1>4 DEF SoundInv, Kept
    <3>6. base + generated = chip
      BY DEF SoundInv, Kept
    <3>7. buffer[i - 1] = base + (generated - Filled) + 0 + i
      BY <3>1, <3>2, <3>4, <3>5, <3>6, <1>4, <1>5
    <3> QED BY <3>7, <1>6
  <2>2. Len(taken') = 0 /\ DOMAIN taken' = {}
    BY <1>1
  <2>3. \A i \in DOMAIN fifo'.frames : Len(taken') + i > mark'.stray =>
            fifo'.frames[i] = mark'.base + fifo'.first + Len(taken') + i
    BY <2>1, <2>2, <1>6, <1>7
  <2>4. fifo'.consumed = Len(taken')
    BY <2>2, <1>7
  <2> QED BY <2>2, <2>3, <2>4 DEF InPlace
<1>14. Complete'
  <2>1. base' + fifo'.first + Len(taken)' + Len(fifo'.frames) = chip'
    <3>1. base + (generated - Filled) + 0 + Filled = chip
      BY <1>4, <1>5 DEF SoundInv, Kept
    <3>2. Len(taken)' = 0 /\ Len(fifo'.frames) = Filled /\ base' = base /\ chip' = chip
      BY <1>1, <1>6, <1>7
    <3> QED BY <3>1, <3>2, <1>7
  <2>2. ASSUME NEW j \in Waiting' PROVE buffer'[j] \in RecordedFrames'
    <3>1. j \in Waiting /\ j \in 0..(Filled - 1) /\ j + 1 \in 1..Filled /\ (j + 1) - 1 = j
      BY <1>4, <1>10 DEF Waiting
    <3>2. new[j + 1] = buffer[j] /\ j + 1 \in DOMAIN new
      BY <3>1, <1>6
    <3>3. buffer' = buffer
      BY <1>1
    <3> QED BY <3>2, <3>3, <1>7 DEF RecordedFrames
  <2>3. \A i \in DOMAIN heard' : ~(i > mark'.heard)
    <3>1. DOMAIN heard' = 1..Len(heard)
      BY <1>1, <1>5
    <3> QED BY <3>1, <1>7, <1>5
  <2>4. mark'.base = base'
    BY <1>1, <1>7
  <2> QED BY <2>1, <2>2, <2>3, <2>4 DEF Complete
<1> QED BY <1>8, <1>9, <1>11, <1>12, <1>13, <1>14 DEF SoundInv

LEMMA ReleaseKeeps ==
    ASSUME SoundInv, SoundStream!Release
    PROVE  SoundInv'
<1>1. /\ active' = FALSE /\ failed' = FALSE /\ dropped' = 0 /\ taken' = <<>>
      /\ fifo' = [buffer |-> FALSE, frames |-> <<>>, first |-> 0, consumed |-> 0, epoch |-> 0]
      /\ mark'.base = 0 /\ mark'.heard = 0 /\ mark'.stray = 0
      /\ forgone' = forgone + dropped /\ pc["emu"] = "idle"
      /\ UNCHANGED <<SoundStream!clockVars, SoundStream!streamVars, owner, pc,
                     SoundStream!localVars, callbacks, heard, base>>
  BY DEF SoundStream!Release, SoundStream!NoFifo, SoundStream!NoMark, SoundStream!Calls,
         SoundStream!sectionVars
<1> USE DEF SoundStream!clockVars, SoundStream!streamVars, SoundStream!localVars
<1>2. /\ dropped \in Nat /\ forgone \in Nat /\ Len(heard) \in Nat
      /\ Ended \in Nat /\ Skipped \in Nat
  <2>1. SoundTyped
    BY DEF SoundInv
  <2>2. dropped \in Nat /\ forgone \in Nat /\ heard \in Seq(Nat)
    BY <2>1 DEF SoundTyped
  <2>3. Len(heard) \in Nat
    BY <2>2
  <2>4. Ended \in Nat /\ Skipped \in Nat
    BY Bounds
  <2> QED BY <2>2, <2>3, <2>4
<1>3. SoundTyped'
  <2>1. fifo' \in [buffer : BOOLEAN, frames : Seq(Nat), first : Nat, consumed : Nat, epoch : Nat]
    BY <1>1
  <2>2. mark'.base \in Nat /\ mark'.heard \in Nat /\ mark'.stray \in Nat
    BY <1>1
  <2>3. forgone' \in Nat /\ dropped' \in Nat /\ taken' \in Seq(Nat)
    BY <1>1, <1>2
  <2>4. active' \in BOOLEAN /\ failed' \in BOOLEAN
    BY <1>1
  <2> QED BY <1>1, <2>1, <2>2, <2>3, <2>4 DEF SoundInv, SoundTyped
<1>4. Locking'
  BY <1>1 DEF SoundInv, Locking
<1>5. Positioned'
  BY <1>1 DEF SoundInv, Positioned, Filled
<1>6. Skipped' = Skipped /\ Ended' = Ended /\ Waiting' = Waiting
  BY <1>1 DEF Skipped, Ended, Extra, Filled, Waiting
<1>7. Kept'
  <2>1. Len(heard)' + (Ended' - Skipped') + dropped' + forgone' = chip'
    <3> DEFINE h == Len(heard)
    <3>1. h \in Nat /\ h + (Ended - Skipped) + dropped + forgone = chip
      BY <1>2 DEF SoundInv, Kept
    <3>2. Len(heard)' = h /\ Ended' = Ended /\ Skipped' = Skipped /\ dropped' = 0
          /\ forgone' = forgone + dropped /\ chip' = chip
      BY <1>1, <1>6
    <3> HIDE DEF h
    <3>3. h + (Ended - Skipped) + 0 + (forgone + dropped) = chip
      BY <3>1, <1>2
    <3> QED BY <3>2, <3>3
  <2> QED BY <2>1, <1>1, <1>6 DEF SoundInv, Kept
<1>8. InPlace' /\ Complete'
  BY <1>1 DEF InPlace, Complete
<1> QED BY <1>3, <1>4, <1>5, <1>7, <1>8 DEF SoundInv

LEMMA SubSeqIs ==
    ASSUME NEW s \in Seq(Nat), NEW m \in Nat, m <= Len(s)
    PROVE  /\ SubSeq(s, 1, m) \in Seq(Nat) /\ Len(SubSeq(s, 1, m)) = m
           /\ \A i \in 1..m : SubSeq(s, 1, m)[i] = s[i]
           /\ SubSeq(s, m + 1, Len(s)) \in Seq(Nat)
           /\ Len(SubSeq(s, m + 1, Len(s))) = Len(s) - m /\ Len(s) \in Nat
           /\ \A i \in 1..(Len(s) - m) : SubSeq(s, m + 1, Len(s))[i] = s[m + i]
OBVIOUS

\* Frames that are read leave the FIFO at its front.
ReadSome(m) ==
    /\ m \in 0..Len(fifo.frames) /\ taken' = taken \o SubSeq(fifo.frames, 1, m)
    /\ fifo' = [fifo EXCEPT !.frames = SubSeq(@, m + 1, Len(@)), !.consumed = @ + m]

LEMMA ReadIsSome ==
    ASSUME fifo.frames \in Seq(Nat), NEW n \in Nat, SoundStream!Read(n)
    PROVE  \E m \in Nat : ReadSome(m)
<1> DEFINE m == SoundStream!SmallerOf(n, Len(fifo.frames))
<1>1. m \in Nat /\ m \in 0..Len(fifo.frames)
  <2>1. Len(fifo.frames) \in Nat
    OBVIOUS
  <2>2. m \in Nat /\ m <= Len(fifo.frames)
    BY <2>1, SmallerIs
  <2> QED BY <2>1, <2>2
<1>2. /\ taken' = taken \o SubSeq(fifo.frames, 1, m)
      /\ fifo' = [fifo EXCEPT !.frames = SubSeq(@, m + 1, Len(@)), !.consumed = @ + m]
  BY DEF SoundStream!Read
<1> HIDE DEF m
<1> QED BY <1>1, <1>2 DEF ReadSome

LEMMA ReadRuns ==
    ASSUME Runs, NEW m \in Nat, ReadSome(m), UNCHANGED <<active, chip, mark>>
    PROVE  Runs' /\ fifo'.buffer = fifo.buffer /\ RecordedFrames \subseteq RecordedFrames'
<1> DEFINE old == fifo.frames
           front == SubSeq(old, 1, m)
           rest == SubSeq(old, m + 1, Len(old))
<1>0. old \in Seq(Nat) /\ taken \in Seq(Nat) /\ Len(old) \in Nat /\ Len(taken) \in Nat
      /\ fifo.consumed \in Nat /\ fifo.first \in Nat /\ mark.base \in Nat /\ mark.stray \in Nat
  BY SMTT(40) DEF Runs
<1>1. m <= Len(old)
  BY <1>0 DEF ReadSome
<1>3. /\ fifo'.frames = rest /\ fifo'.consumed = fifo.consumed + m /\ fifo'.first = fifo.first
      /\ fifo'.buffer = fifo.buffer /\ fifo'.epoch = fifo.epoch
      /\ fifo' = [fifo EXCEPT !.frames = rest, !.consumed = fifo.consumed + m]
      /\ taken' = taken \o front
  BY DEF Runs, ReadSome
<1>4. /\ front \in Seq(Nat) /\ Len(front) = m
      /\ \A i \in 1..m : front[i] = old[i]
      /\ rest \in Seq(Nat) /\ Len(rest) = Len(old) - m
      /\ \A i \in 1..(Len(old) - m) : rest[i] = old[m + i]
  BY <1>0, <1>1, SubSeqIs
<1> HIDE DEF front, rest
<1>5. PICK a \in Nat, b \in Nat : a = Len(old) /\ b = Len(taken)
  BY <1>0
<1>6. /\ taken' \in Seq(Nat) /\ Len(taken') = b + m /\ DOMAIN taken' = 1..(b + m)
      /\ DOMAIN taken = 1..b /\ DOMAIN old = 1..a /\ DOMAIN rest = 1..(a - m) /\ m <= a
      /\ (\A i \in 1..b : taken'[i] = taken[i])
      /\ (\A i \in (b + 1)..(b + m) : i - b \in 1..m /\ taken'[i] = old[i - b])
      /\ \A i \in 1..(a - m) : rest[i] = old[m + i]
  <2>1. /\ taken' \in Seq(Nat) /\ Len(taken') = Len(taken) + Len(front)
        /\ DOMAIN taken' = 1..(Len(taken) + Len(front))
        /\ DOMAIN taken = 1..Len(taken)
        /\ \A i \in 1..Len(taken) : taken'[i] = taken[i]
        /\ \A i \in (Len(taken) + 1)..(Len(taken) + Len(front)) :
              i - Len(taken) \in 1..Len(front) /\ taken'[i] = front[i - Len(taken)]
    <3>1. taken \in Seq(Nat) /\ front \in Seq(Nat) /\ taken' = taken \o front
      BY <1>0, <1>3, <1>4
    <3> QED BY <3>1, ConcatIs
  <2>2. DOMAIN old = 1..Len(old) /\ DOMAIN rest = 1..Len(rest)
    BY <1>0, <1>4
  <2> QED BY <2>1, <2>2, <1>1, <1>4, <1>5
<1>7. fifo' \in [buffer : BOOLEAN, frames : Seq(Nat), first : Nat, consumed : Nat, epoch : Nat]
  <2>1. fifo.consumed + m \in Nat /\ rest \in Seq(Nat)
    BY SMTT(40), <1>0, <1>4
  <2>2. fifo' = [fifo EXCEPT !.frames = rest, !.consumed = fifo.consumed + m]
    BY <1>3
  <2> QED BY <2>1, <2>2 DEF Runs
<1>12. ASSUME fifo.buffer
       PROVE  /\ fifo.consumed = b
              /\ \A i \in 1..b : i > mark.stray => taken[i] = mark.base + fifo.first + i
              /\ \A i \in 1..a : b + i > mark.stray => old[i] = mark.base + fifo.first + b + i
  BY <1>5, <1>6, <1>12 DEF Runs, InPlace
<1>13. InPlace'
  <2> SUFFICES ASSUME fifo.buffer
               PROVE  /\ fifo'.consumed = Len(taken')
                      /\ \A i \in DOMAIN taken' : i > mark'.stray =>
                            taken'[i] = mark'.base + fifo'.first + i
                      /\ \A i \in DOMAIN fifo'.frames : Len(taken') + i > mark'.stray =>
                            fifo'.frames[i] = mark'.base + fifo'.first + Len(taken') + i
    BY <1>3 DEF InPlace
  <2> DEFINE o == mark.base + fifo.first
  <2>0. o \in Nat /\ mark'.base + fifo'.first = o /\ mark'.stray = mark.stray
    BY SMTT(40), <1>0, <1>3
  <2>1. \A i \in 1..b : i > mark.stray => taken[i] = o + i
    BY <1>12
  <2>2. \A i \in 1..a : b + i > mark.stray => old[i] = o + b + i
    BY <1>12
  <2> HIDE DEF o
  <2>3. ASSUME NEW i \in 1..(b + m), i > mark.stray PROVE taken'[i] = o + i
    <3>1. CASE i \in 1..b
      BY <2>1, <2>3, <3>1, <1>6
    <3>2. CASE i \in (b + 1)..(b + m)
      <4>1. i - b \in 1..a /\ b + (i - b) = i /\ o + b + (i - b) = o + i
        BY <3>2, <1>6, <2>0
      <4>2. taken'[i] = old[i - b]
        BY <3>2, <1>6
      <4> QED BY <4>1, <4>2, <2>2, <2>3
    <3> QED BY <3>1, <3>2
  <2>4. ASSUME NEW i \in 1..(a - m), (b + m) + i > mark.stray PROVE rest[i] = o + (b + m) + i
    <3>1. m + i \in 1..a /\ b + (m + i) = (b + m) + i /\ o + b + (m + i) = o + (b + m) + i
      BY SMTT(40), <1>6, <2>0
    <3> QED BY <3>1, <2>2, <2>4, <1>6
  <2>5. fifo'.consumed = Len(taken')
    BY <1>3, <1>6, <1>12
  <2> QED BY ZenonT(60), <2>0, <2>3, <2>4, <2>5, <1>3, <1>6
<1>14. RecordedFrames \subseteq RecordedFrames'
  <2>1. ASSUME NEW k \in 1..b PROVE taken[k] \in RecordedFrames'
    <3>1. k \in DOMAIN taken' /\ taken'[k] = taken[k]
      BY <1>6
    <3> QED BY <3>1 DEF RecordedFrames
  <2>2. ASSUME NEW k \in 1..a PROVE old[k] \in RecordedFrames'
    <3>1. CASE k <= m
      <4>1. b + k \in (b + 1)..(b + m) /\ (b + k) - b = k /\ b + k \in 1..(b + m)
        BY <3>1
      <4>2. taken'[b + k] = old[k] /\ b + k \in DOMAIN taken'
        BY <4>1, <1>6
      <4> QED BY <4>2 DEF RecordedFrames
    <3>2. CASE k > m
      <4>1. k - m \in 1..(a - m) /\ m + (k - m) = k
        BY <3>2
      <4>2. rest[k - m] = old[k] /\ k - m \in DOMAIN rest
        BY <4>1, <1>6
      <4> QED BY <4>2, <1>3 DEF RecordedFrames
    <3> QED BY <3>1, <3>2
  <2>3. RecordedFrames = {taken[k] : k \in 1..b} \cup {old[k] : k \in 1..a}
    BY <1>6 DEF RecordedFrames
  <2> QED BY <2>1, <2>2, <2>3
<1>15. ASSUME active PROVE mark'.base + fifo'.first + Len(taken') + Len(fifo'.frames) = chip'
  <2>1. PICK o \in Nat : o = mark.base + fifo.first
    BY <1>0
  <2>2. o + b + a = chip
    BY <1>5, <1>15, <2>1 DEF Runs
  <2>3. o + (b + m) + (a - m) = o + b + a
    OBVIOUS
  <2>4. Len(taken') = b + m /\ Len(fifo'.frames) = a - m
    BY <1>3, <1>4, <1>5, <1>6
  <2> QED BY <1>3, <2>1, <2>2, <2>3, <2>4
<1> QED BY <1>0, <1>3, <1>6, <1>7, <1>13, <1>14, <1>15 DEF Runs

LEMMA ReadKeeps ==
    ASSUME SoundInv, NEW n \in Nat, SoundStream!Read(n)
    PROVE  SoundInv'
<1>1. PICK m \in Nat : ReadSome(m)
  BY ReadIsSome DEF SoundInv, SoundTyped
<1>2. /\ pc["emu"] = "idle"
      /\ UNCHANGED <<SoundStream!clockVars, SoundStream!streamVars, active, failed, dropped, owner,
                     pc, SoundStream!localVars, callbacks, heard, forgone, base, mark>>
  BY DEF SoundStream!Read, SoundStream!Calls, SoundStream!sectionVars
<1> USE DEF SoundStream!clockVars, SoundStream!streamVars, SoundStream!localVars
<1>3. Runs' /\ fifo'.buffer = fifo.buffer /\ RecordedFrames \subseteq RecordedFrames'
  BY <1>1, <1>2, SoundRuns, ReadRuns
<1>7. SoundTyped'
  BY <1>2, <1>3 DEF SoundInv, SoundTyped, Runs
<1>8. Locking'
  BY <1>2, <1>3 DEF SoundInv, Locking
<1>9. Positioned'
  BY <1>2 DEF SoundInv, Positioned, Filled
<1>10. Skipped' = Skipped /\ Ended' = Ended /\ Waiting' = Waiting
  BY <1>2 DEF Skipped, Ended, Extra, Filled, Waiting
<1>11. Kept'
  BY <1>2, <1>10 DEF SoundInv, Kept
<1>15. Complete'
  BY <1>2, <1>3, <1>10 DEF SoundInv, Complete, Runs
<1> QED BY <1>3, <1>7, <1>8, <1>9, <1>11, <1>15 DEF SoundInv, Runs

LEMMA StreamResetKeeps ==
    ASSUME SoundInv, SoundStream!StreamReset, ~crossed'
    PROVE  SoundInv'
<1>1. /\ pc["emu"] = "reset" /\ owner = "none" /\ pc' = [pc EXCEPT !["emu"] = "idle"]
      /\ ptr' = 0 /\ remain' = Capacity /\ generated' = 0 /\ epoch' = epoch + 1
      /\ lastclock' = now /\ forgone' = forgone + Filled /\ base' = chip
      /\ UNCHANGED <<now, buffer, chip, SoundStream!recordingVars, owner, SoundStream!localVars,
                     callbacks, heard, taken, mark>>
  BY TheLock, PendingIs, SoundConstants
  DEF SoundInv, SoundStream!StreamReset, SoundStream!Goto
<1> USE DEF SoundStream!recordingVars, SoundStream!localVars
<1>2. /\ Extra = 0 /\ Skipped = 0 /\ Ended = Filled /\ ptr = Filled /\ Filled \in 0..Capacity
      /\ pc["emu"] \notin EmuLocked /\ pc["audio"] \notin AudioLocked /\ Filled \in Nat
  BY <1>1, BothAlone, SoundConstants
<1>3. ~active
  BY <1>1 DEF SoundInv, Locking
<1>4. chip \in Nat /\ forgone \in Nat /\ dropped \in Nat /\ Len(heard) \in Nat /\ now \in Nat
  BY DEF SoundInv, SoundTyped
<1>5. pc'["emu"] = "idle" /\ pc'["audio"] = pc["audio"]
  BY <1>1 DEF SoundInv, SoundTyped
<1>6. SoundTyped'
  <2>1. ptr' \in Nat /\ remain' \in 0..Capacity /\ generated' \in Nat /\ epoch' \in Nat
        /\ lastclock' \in Nat /\ forgone' \in Nat /\ base' \in Nat
    BY <1>1, <1>2, <1>4, SoundConstants DEF SoundInv, SoundTyped
  <2>2. pc' \in [{"emu", "audio"} -> {"idle", "sync", "reset", "play", "lock"}
                                         \cup EmuLocked \cup AudioLocked]
    BY <1>1 DEF SoundInv, SoundTyped
  <2> QED BY <1>1, <2>1, <2>2 DEF SoundInv, SoundTyped
<1>7. Locking'
  BY <1>1, <1>3, <1>5 DEF SoundInv, Locking, EmuLocked, AudioLocked, Locked
<1>8. Filled' = 0 /\ Skipped' = 0 /\ Extra' = 0
  BY <1>1, <1>2, <1>5, SoundConstants DEF Filled, Skipped, Extra, AudioLocked, Locked
<1>9. Positioned'
  BY <1>1, <1>2, <1>5, <1>8 DEF Positioned, AudioLocked, Locked
<1>10. Ended' = 0 /\ Waiting' = {}
  <2>1. Ended' = 0
    BY <1>8 DEF Ended
  <2>2. Waiting' = 0..(0 - 1)
    BY <2>1, <1>8 DEF Waiting
  <2> QED BY <2>1, <2>2
<1>11. Kept'
  <2>1. Len(heard)' + (Ended' - Skipped') + dropped' + forgone' = chip'
    <3> DEFINE h == Len(heard)
    <3>1. h \in Nat /\ h + (Filled - 0) + dropped + forgone = chip
      BY <1>2, <1>4 DEF SoundInv, Kept
    <3>2. Len(heard)' = h /\ Ended' = 0 /\ Skipped' = 0 /\ dropped' = dropped
          /\ forgone' = forgone + Filled /\ chip' = chip
      BY <1>1, <1>8, <1>10
    <3> HIDE DEF h
    <3>3. h + (0 - 0) + dropped + (forgone + Filled) = chip
      BY <3>1, <1>2, <1>4
    <3> QED BY <3>2, <3>3
  <2>2. base' + generated' = chip'
    BY <1>1, <1>4
  <2> QED BY <2>1, <2>2, <1>1, <1>10 DEF SoundInv, Kept
<1>12. InPlace' /\ Complete'
  BY <1>1, <1>3 DEF SoundInv, InPlace, Complete
<1> QED BY <1>6, <1>7, <1>9, <1>11, <1>12 DEF SoundInv

-----------------------------------------------------------------------------
(***************************************************************************)
(* The recording when the threads have crossed: what is in it and where,   *)
(* and the chips' count, do not depend on the buffer.                      *)
(***************************************************************************)
Placed ==
    /\ DOMAIN pc = {"emu", "audio"} /\ DOMAIN want = {"emu", "audio"}
    /\ DOMAIN count = {"emu", "audio"} /\ "buffer" \in DOMAIN fifo
    /\ now \in Nat /\ lastclock \in Nat /\ want["emu"] \in Nat
    /\ active => /\ pc["emu"] \in {"idle", "sync", "record", "prepared"}
                 /\ pc["audio"] \in {"idle", "play", "shift"}
                 /\ fifo.buffer
    /\ pc["emu"] = "record" => active /\ count["emu"] \in Nat

RunKept == fifo.buffer /\ ~mark.crossed => Runs
RecordInv == Placed /\ RunKept

LEMMA RunStays ==
    ASSUME RecordInv, UNCHANGED <<fifo, taken, mark>>, active' => active /\ chip' = chip
    PROVE  RunKept'
BY DEF RecordInv, RunKept, Runs, InPlace

\* The steps of the emulation thread that render nothing.
LEMMA EmuRecords ==
    ASSUME RecordInv,
           \/ \E d \in Nat : SoundStream!Run(d)
           \/ SoundStream!Sync \/ SoundStream!SyncEnter \/ SoundStream!SyncLeave
    PROVE  RecordInv'
<1> USE DEF SoundStream!clockVars, SoundStream!streamVars, SoundStream!recordingVars,
            SoundStream!localVars, SoundStream!historyVars, SoundStream!Goto
<1>0. Placed
  BY DEF RecordInv
<1>1. CASE \E d \in Nat : SoundStream!Run(d)
  <2>1. Placed'
    BY <1>0, <1>1 DEF Placed, SoundStream!Run
  <2>2. UNCHANGED <<fifo, taken, mark, active, chip>>
    BY <1>1 DEF SoundStream!Run
  <2> QED BY <2>1, <2>2, RunStays DEF RecordInv
<1>2. CASE SoundStream!Sync
  <2>1. SoundStream!Length \in Nat
    <3>1. now - lastclock \in Int
      BY <1>0 DEF Placed
    <3> QED BY <3>1, Modulo DEF SoundStream!Length
  <2>2. PICK w \in Nat : want' = [want EXCEPT !["emu"] = w]
    BY <1>2, <2>1, Quotient DEF SoundStream!Sync
  <2>3. Placed'
    BY <1>0, <1>2, <2>2 DEF Placed, SoundStream!Sync
  <2>4. UNCHANGED <<fifo, taken, mark, active, chip>>
    BY <1>2 DEF SoundStream!Sync
  <2> QED BY <2>3, <2>4, RunStays DEF RecordInv
<1>3. CASE SoundStream!SyncEnter
  <2>1. PICK full \in BOOLEAN : full = (active /\ ~SoundStream!CanAppend(want["emu"]))
    OBVIOUS
  <2>2. /\ active' = (active /\ ~full)
        /\ pc' = [pc EXCEPT !["emu"] = IF active /\ ~full THEN "record" ELSE "prepare"]
        /\ count' = [count EXCEPT !["emu"] = want["emu"]]
        /\ UNCHANGED <<now, lastclock, want, fifo, taken, mark, chip>>
    BY <1>3, <2>1 DEF SoundStream!SyncEnter
  <2>3. Placed'
    BY <1>0, <2>2 DEF Placed
  <2> QED BY <2>2, <2>3, RunStays DEF RecordInv
<1>4. CASE SoundStream!SyncLeave
  <2>1. lastclock' \in Nat
    <3>1. PICK l \in Nat, w \in Nat, b \in Nat :
            l = lastclock /\ w = want["emu"] /\ b = ClockBase
      BY <1>0, SoundConstants DEF Placed
    <3>2. l + w * b \in Int
      OBVIOUS
    <3> QED BY <1>4, <3>1, <3>2, Modulo DEF SoundStream!SyncLeave
  <2>2. Placed'
    BY <1>0, <1>4, <2>1 DEF Placed, SoundStream!SyncLeave
  <2>3. UNCHANGED <<fifo, taken, mark, active, chip>>
    BY <1>4 DEF SoundStream!SyncLeave
  <2> QED BY <2>2, <2>3, RunStays DEF RecordInv
<1> QED BY <1>1, <1>2, <1>3, <1>4

\* The steps of the callback.
LEMMA AudioRecords ==
    ASSUME RecordInv,
           \/ SoundStream!Callback \/ SoundStream!Play \/ SoundStream!Shift
           \/ SoundStream!PcmLock \/ SoundStream!CaughtUp \/ SoundStream!Pack
           \/ SoundStream!PcmUnlock
    PROVE  RecordInv'
<1> USE DEF SoundStream!clockVars, SoundStream!streamVars, SoundStream!recordingVars,
            SoundStream!localVars, SoundStream!historyVars, SoundStream!Goto
<1>0. Placed
  BY DEF RecordInv
<1>1. CASE SoundStream!Callback
  <2>1. Placed' /\ UNCHANGED <<fifo, taken, mark, active, chip>>
    BY <1>0, <1>1 DEF Placed, SoundStream!Callback
  <2> QED BY <2>1, RunStays DEF RecordInv
<1>2. CASE SoundStream!Play
  <2>1. Placed' /\ UNCHANGED <<fifo, taken, mark, active, chip>>
    BY <1>0, <1>2 DEF Placed, SoundStream!Play
  <2> QED BY <2>1, RunStays DEF RecordInv
<1>3. CASE SoundStream!Shift
  <2>1. Placed' /\ UNCHANGED <<fifo, taken, mark, active, chip>>
    BY <1>0, <1>3 DEF Placed, SoundStream!Shift
  <2> QED BY <2>1, RunStays DEF RecordInv
<1>4. CASE SoundStream!PcmLock
  <2>1. Placed' /\ UNCHANGED <<fifo, taken, mark, active, chip>>
    BY <1>0, <1>4 DEF Placed, SoundStream!PcmLock
  <2> QED BY <2>1, RunStays DEF RecordInv
<1>5. CASE SoundStream!CaughtUp
  <2>1. Placed' /\ UNCHANGED <<fifo, taken, mark, active, chip>>
    BY <1>0, <1>5 DEF Placed, SoundStream!CaughtUp
  <2> QED BY <2>1, RunStays DEF RecordInv
<1>6. CASE SoundStream!Pack
  <2>1. Placed' /\ UNCHANGED <<fifo, taken, mark, active, chip>>
    BY <1>0, <1>6 DEF Placed, SoundStream!Pack
  <2> QED BY <2>1, RunStays DEF RecordInv
<1>7. CASE SoundStream!PcmUnlock
  <2>1. Placed' /\ UNCHANGED <<fifo, taken, mark, active, chip>>
    BY <1>0, <1>7 DEF Placed, SoundStream!PcmUnlock
  <2> QED BY <2>1, RunStays DEF RecordInv
<1> QED BY <1>1, <1>2, <1>3, <1>4, <1>5, <1>6, <1>7

\* What either thread renders for the buffer alone is not for the recording.
LEMMA RenderRecords ==
    ASSUME RecordInv, NEW t \in {"emu", "audio"},
           \/ SoundStream!Prepare(t) \/ SoundStream!Render(t)
           \/ SoundStream!Advance(t) \/ SoundStream!Shrink(t)
    PROVE  RecordInv'
<1> USE DEF SoundStream!clockVars, SoundStream!streamVars, SoundStream!recordingVars,
            SoundStream!localVars, SoundStream!historyVars
<1>1. /\ pc[t] \in {"prepare", "render", "advance", "shrink"}
      /\ \E l \in {"prepared", "render", "advance", "shrink"} : pc' = [pc EXCEPT ![t] = l]
      /\ UNCHANGED <<now, lastclock, want, fifo, taken, mark, active>>
      /\ count' = count \/ \E n : count' = [count EXCEPT ![t] = n]
  BY DEF SoundStream!Prepare, SoundStream!Render, SoundStream!Advance, SoundStream!Shrink,
         SoundStream!Goto
<1>2. Placed
  BY DEF RecordInv
<1>3. ~active
  BY <1>1, <1>2 DEF Placed
<1>4. Placed'
  <2>1. CASE t = "emu"
    BY <1>1, <1>2, <1>3, <2>1 DEF Placed
  <2>2. CASE t = "audio"
    BY <1>1, <1>2, <1>3, <2>2 DEF Placed
  <2> QED BY <2>1, <2>2
<1> QED BY <1>1, <1>3, <1>4, RunStays DEF RecordInv

LEMMA RecordRecords ==
    ASSUME RecordInv, SoundStream!Record
    PROVE  RecordInv'
<1>1. Placed /\ pc["emu"] = "record"
  BY DEF RecordInv, SoundStream!Record
<1>2. active /\ fifo.buffer /\ count["emu"] \in Nat /\ pc["audio"] \in {"idle", "play", "shift"}
  BY <1>1 DEF Placed
<1>3. PICK n \in Nat :
        /\ n <= count["emu"]
        /\ fifo' = [fifo EXCEPT !.frames = @ \o SoundStream!Rendered(n)] /\ chip' = chip + n
        /\ count' = [count EXCEPT !["emu"] = @ - n]
        /\ pc' = [pc EXCEPT !["emu"] = IF n = count["emu"] THEN "prepared" ELSE "record"]
  <2> DEFINE n == SoundStream!SmallerOf(count["emu"], Chunk)
  <2>1. n \in Nat /\ n <= count["emu"]
    BY <1>2, SmallerIs, SoundConstants
  <2>2. /\ fifo' = [fifo EXCEPT !.frames = @ \o SoundStream!Rendered(n)] /\ chip' = chip + n
        /\ count' = [count EXCEPT !["emu"] = @ - n]
        /\ pc' = [pc EXCEPT !["emu"] = IF n = count["emu"] THEN "prepared" ELSE "record"]
    BY DEF SoundStream!Record, SoundStream!Goto
  <2> HIDE DEF n
  <2> QED BY <2>1, <2>2
<1>4. UNCHANGED <<now, lastclock, want, active, taken, mark>>
  BY DEF SoundStream!Record, SoundStream!clockVars, SoundStream!historyVars
<1>5. fifo'.buffer = fifo.buffer /\ "buffer" \in DOMAIN fifo'
  BY <1>1, <1>3 DEF Placed
<1>6. PICK k \in Nat : k = count["emu"] - n
  BY <1>2, <1>3
<1>7. Placed'
  BY <1>1, <1>2, <1>3, <1>4, <1>5, <1>6 DEF Placed
<1>8. RunKept'
  <2>1. ASSUME ~mark.crossed PROVE Runs'
    <3>1. Runs
      BY <1>2, <2>1 DEF RecordInv, RunKept
    <3> QED BY <1>2, <1>3, <1>4, <3>1, RecordRuns
  <2> QED BY <1>4, <2>1 DEF RunKept
<1> QED BY <1>7, <1>8 DEF RecordInv

\* The calls.
LEMMA CallRecords ==
    ASSUME RecordInv, ~crossed => SoundInv,
           \/ SoundStream!Start \/ SoundStream!Stop \/ SoundStream!Release
           \/ \E n \in Nat : SoundStream!Read(n)
           \/ SoundStream!ChangeClock \/ SoundStream!Reset \/ SoundStream!StreamReset
    PROVE  RecordInv'
<1> USE DEF SoundStream!clockVars, SoundStream!streamVars, SoundStream!recordingVars,
            SoundStream!localVars, SoundStream!historyVars, SoundStream!Goto, SoundStream!Calls,
            SoundStream!Paused
<1>0. Placed
  BY DEF RecordInv
<1>1. CASE SoundStream!Start
  <2>1. Placed' /\ mark'.crossed = crossed
    BY <1>0, <1>1 DEF Placed, SoundStream!Start
  <2>2. ASSUME ~crossed PROVE Runs'
    <3>1. SoundInv'
      BY <1>1, <2>2, StartKeeps
    <3> QED BY <3>1 DEF SoundInv, SoundTyped, Runs, Complete
  <2> QED BY <2>1, <2>2 DEF RecordInv, RunKept
<1>2. CASE SoundStream!Stop
  <2>1. Placed' /\ UNCHANGED <<fifo, taken, mark>> /\ ~active'
    BY <1>0, <1>2 DEF Placed, SoundStream!Stop
  <2> QED BY <2>1, RunStays DEF RecordInv
<1>3. CASE SoundStream!Release
  <2>1. Placed' /\ ~fifo'.buffer
    BY <1>0, <1>3 DEF Placed, SoundStream!Release, SoundStream!NoFifo
  <2> QED BY <2>1 DEF RecordInv, RunKept
<1>4. ASSUME NEW n \in Nat, SoundStream!Read(n) PROVE RecordInv'
  <2>1. /\ UNCHANGED <<now, lastclock, pc, want, count, active, chip, mark>>
        /\ \E q, c : fifo' = [fifo EXCEPT !.frames = q, !.consumed = c]
    BY <1>4 DEF SoundStream!Read
  <2>2. fifo'.buffer = fifo.buffer /\ "buffer" \in DOMAIN fifo'
    BY <1>0, <2>1 DEF Placed
  <2>3. Placed'
    BY <1>0, <2>1, <2>2 DEF Placed
  <2>4. ASSUME fifo.buffer, ~mark.crossed PROVE Runs'
    <3>1. Runs
      BY <2>4 DEF RecordInv, RunKept
    <3>2. PICK m \in Nat : ReadSome(m)
      BY <1>4, <3>1, ReadIsSome DEF Runs
    <3> QED BY <2>1, <3>1, <3>2, ReadRuns
  <2> QED BY <2>1, <2>2, <2>3, <2>4 DEF RecordInv, RunKept
<1>5. CASE SoundStream!ChangeClock
  <2>1. Placed' /\ UNCHANGED <<fifo, taken, mark>> /\ ~active'
    BY <1>0, <1>5 DEF Placed, SoundStream!ChangeClock, SoundStream!EndRecording
  <2> QED BY <2>1, RunStays DEF RecordInv
<1>6. CASE SoundStream!Reset
  <2>1. Placed' /\ UNCHANGED <<fifo, taken, mark>> /\ ~active'
    BY <1>0, <1>6 DEF Placed, SoundStream!Reset, SoundStream!EndRecording
  <2> QED BY <2>1, RunStays DEF RecordInv
<1>7. CASE SoundStream!StreamReset
  <2>1. Placed' /\ UNCHANGED <<fifo, taken, mark, active, chip>>
    BY <1>0, <1>7 DEF Placed, SoundStream!StreamReset
  <2> QED BY <2>1, RunStays DEF RecordInv
<1> QED BY <1>1, <1>2, <1>3, <1>4, <1>5, <1>6, <1>7

-----------------------------------------------------------------------------
(***************************************************************************)
(* The invariant of the stream, and what follows from it.                  *)
(***************************************************************************)
SoundWhole == (~crossed => SoundInv) /\ RecordInv

LEMMA SoundStarts ==
    ASSUME SoundStream!Init
    PROVE  SoundWhole
<1> USE DEF SoundStream!Init, SoundStream!NoFifo, SoundStream!NoMark, SoundStream!Threads
<1>1. SoundTyped
  <2>1. SoundStream!Capacity = Capacity /\ Capacity \in Nat
    BY SoundConstants
  <2>2. buffer = [i \in 0..(Capacity - 1) |-> 0] /\ remain = Capacity
    BY <2>1
  <2>3. buffer \in [0..(Capacity - 1) -> Nat]
    BY <2>2
  <2>4. remain \in 0..Capacity
    BY <2>1, <2>2
  <2>5. /\ fifo \in [buffer : BOOLEAN, frames : Seq(Nat), first : Nat, consumed : Nat,
                      epoch : Nat]
        /\ mark.base \in Nat /\ mark.heard \in Nat /\ mark.stray \in Nat
    OBVIOUS
  <2>6. /\ pc \in [{"emu", "audio"} -> {"idle", "sync", "reset", "play", "lock"}
                                           \cup EmuLocked \cup AudioLocked]
        /\ want \in [{"emu", "audio"} -> Nat] /\ count \in [{"emu", "audio"} -> Nat]
    OBVIOUS
  <2>7. /\ now \in Nat /\ lastclock \in Nat /\ chip \in Nat /\ ptr \in Nat
        /\ generated \in Nat /\ epoch \in Nat /\ active \in BOOLEAN /\ failed \in BOOLEAN
        /\ dropped \in Nat /\ owner \in {"none", "emu", "audio"}
        /\ forgone \in Nat /\ base \in Nat
    <3>1. Capacity \in Nat
      BY <2>1
    <3> QED BY <3>1
  <2>8. heard \in Seq(Nat) /\ taken \in Seq(Nat)
    OBVIOUS
  <2> QED BY <2>3, <2>4, <2>5, <2>6, <2>7, <2>8 DEF SoundTyped
<1>2. Locking
  BY DEF Locking, EmuLocked, AudioLocked, Locked
<1>3. Filled = 0 /\ Skipped = 0 /\ Extra = 0
  BY SoundConstants DEF Filled, Skipped, Extra
<1>4. Positioned
  BY <1>3 DEF Positioned
<1>5. Ended = 0 /\ Waiting = {}
  <2>1. Ended = 0
    BY <1>3 DEF Ended
  <2>2. Waiting = 0..(0 - 1)
    BY <2>1, <1>3 DEF Waiting
  <2> QED BY <2>1, <2>2
<1>6. Kept
  BY <1>3, <1>5 DEF Kept
<1>7. InPlace /\ Complete
  BY DEF InPlace, Complete
<1>8. RecordInv
  BY DEF RecordInv, Placed, RunKept
<1> QED BY <1>1, <1>2, <1>4, <1>6, <1>7, <1>8 DEF SoundInv, SoundWhole

\* Threads that have crossed stay crossed.
LEMMA StillApart ==
    ASSUME SoundStream!Next, ~crossed'
    PROVE  ~crossed
<1> USE DEF SoundStream!sectionVars, SoundStream!Enter, SoundStream!Leave, SoundStream!Trespass
<1>1. ASSUME NEW d, SoundStream!Run(d) PROVE ~crossed
  BY <1>1 DEF SoundStream!Run
<1>2. ASSUME NEW t, \/ SoundStream!Prepare(t) \/ SoundStream!Render(t)
                    \/ SoundStream!Advance(t) \/ SoundStream!Shrink(t)
      PROVE  ~crossed
  BY <1>2 DEF SoundStream!Prepare, SoundStream!Render, SoundStream!Advance, SoundStream!Shrink
<1>3. ASSUME NEW n, SoundStream!Read(n) PROVE ~crossed
  BY <1>3 DEF SoundStream!Read
<1>4. CASE \/ SoundStream!Sync \/ SoundStream!SyncEnter \/ SoundStream!Record
           \/ SoundStream!SyncLeave \/ SoundStream!Callback \/ SoundStream!Play
           \/ SoundStream!Shift
  BY <1>4 DEF SoundStream!Sync, SoundStream!SyncEnter, SoundStream!Record,
              SoundStream!SyncLeave, SoundStream!Callback, SoundStream!Play, SoundStream!Shift
<1>5. CASE \/ SoundStream!PcmLock \/ SoundStream!CaughtUp \/ SoundStream!Pack
           \/ SoundStream!PcmUnlock \/ SoundStream!Start \/ SoundStream!Stop
           \/ SoundStream!Release \/ SoundStream!ChangeClock \/ SoundStream!Reset
           \/ SoundStream!StreamReset
  BY <1>5 DEF SoundStream!PcmLock, SoundStream!CaughtUp, SoundStream!Pack,
              SoundStream!PcmUnlock, SoundStream!Start, SoundStream!Stop,
              SoundStream!Release, SoundStream!ChangeClock, SoundStream!Reset,
              SoundStream!StreamReset
<1> QED BY <1>1, <1>2, <1>3, <1>4, <1>5 DEF SoundStream!Next

LEMMA ApartSteps ==
    ASSUME SoundInv, SoundStream!Next, ~crossed'
    PROVE  SoundInv'
<1>1. ASSUME NEW d \in {1, 2 * ClockBase}, SoundStream!Run(d) PROVE SoundInv'
  <2>1. d \in Nat
    BY SoundConstants
  <2> QED BY <2>1, <1>1, RunKeeps
<1>2. ASSUME NEW t \in SoundStream!Threads,
             \/ SoundStream!Prepare(t) \/ SoundStream!Render(t)
             \/ SoundStream!Advance(t) \/ SoundStream!Shrink(t)
      PROVE  SoundInv'
  <2>1. t \in {"emu", "audio"}
    BY DEF SoundStream!Threads
  <2> QED BY <2>1, <1>2, PrepareKeeps, RenderKeeps, AdvanceKeeps, ShrinkKeeps
<1>3. ASSUME NEW n \in {1, FifoFrames}, SoundStream!Read(n) PROVE SoundInv'
  <2>1. n \in Nat
    BY SoundConstants
  <2> QED BY <2>1, <1>3, ReadKeeps
<1>4. CASE \/ SoundStream!Sync \/ SoundStream!SyncEnter \/ SoundStream!Record
           \/ SoundStream!SyncLeave \/ SoundStream!Callback \/ SoundStream!Play
           \/ SoundStream!Shift
  BY <1>4, SyncKeeps, SyncEnterKeeps, RecordKeeps, SyncLeaveKeeps, CallbackKeeps, PlayKeeps,
     ShiftKeeps
<1>5. CASE \/ SoundStream!PcmLock \/ SoundStream!CaughtUp \/ SoundStream!Pack
           \/ SoundStream!PcmUnlock \/ SoundStream!Start \/ SoundStream!Stop
           \/ SoundStream!Release \/ SoundStream!ChangeClock \/ SoundStream!Reset
           \/ SoundStream!StreamReset
  BY <1>5, PcmLockKeeps, CaughtUpKeeps, PackKeeps, PcmUnlockKeeps, StartKeeps, StopKeeps,
     ReleaseKeeps, ChangeClockKeeps, ResetKeeps, StreamResetKeeps
<1> QED BY <1>1, <1>2, <1>3, <1>4, <1>5 DEF SoundStream!Next

LEMMA SoundSteps ==
    ASSUME SoundWhole, SoundStream!Next
    PROVE  SoundWhole'
<1>1. RecordInv /\ (~crossed => SoundInv)
  BY DEF SoundWhole
<1>2. ~crossed' => SoundInv'
  BY <1>1, StillApart, ApartSteps
<1>3. ASSUME NEW d \in {1, 2 * ClockBase}, SoundStream!Run(d) PROVE RecordInv'
  <2>1. d \in Nat
    BY SoundConstants
  <2> QED BY <1>1, <1>3, <2>1, EmuRecords
<1>4. ASSUME NEW n \in {1, FifoFrames}, SoundStream!Read(n) PROVE RecordInv'
  <2>1. n \in Nat
    BY SoundConstants
  <2> QED BY <1>1, <1>4, <2>1, CallRecords
<1>5. ASSUME NEW t \in SoundStream!Threads,
             \/ SoundStream!Prepare(t) \/ SoundStream!Render(t)
             \/ SoundStream!Advance(t) \/ SoundStream!Shrink(t)
      PROVE  RecordInv'
  BY <1>1, <1>5, RenderRecords DEF SoundStream!Threads
<1>6. RecordInv'
  BY <1>1, <1>3, <1>4, <1>5, EmuRecords, AudioRecords, RecordRecords, CallRecords
  DEF SoundStream!Next
<1> QED BY <1>2, <1>6 DEF SoundWhole

soundVars == <<soundOnly, ptr>>
LEMMA ApartStutters ==
    ASSUME SoundInv, UNCHANGED soundVars
    PROVE  SoundInv'
<1> USE DEF soundVars, soundOnly
<1>1. SoundTyped' /\ Locking' /\ Positioned'
  BY DEF SoundInv, SoundTyped, Locking, Positioned, Filled
<1>2. UNCHANGED frameVars /\ Skipped' = Skipped /\ Extra' = Extra /\ (active' => active)
  BY DEF frameVars, frames, Skipped, Extra
<1> QED BY <1>1, <1>2, FramesUnmoved DEF SoundInv

LEMMA SoundStutters ==
    ASSUME SoundWhole, UNCHANGED soundVars
    PROVE  SoundWhole'
<1>1. crossed' = crossed /\ (~crossed => SoundInv')
  BY ApartStutters DEF SoundWhole, soundVars, soundOnly
<1>2. Placed'
  BY DEF SoundWhole, RecordInv, Placed, soundVars, soundOnly
<1>3. RunKept'
  BY RunStays DEF SoundWhole, soundVars, soundOnly
<1> QED BY <1>1, <1>2, <1>3 DEF SoundWhole, RecordInv

\* PlayedOnce, from Kept.
LEMMA PlayedFollows ==
    ASSUME SoundInv
    PROVE  SoundStream!PlayedOnce
<1> SUFFICES ASSUME SoundStream!Quiet
             PROVE  /\ SoundStream!Increasing(heard \o SoundStream!Front(SoundStream!Pending))
                    /\ Len(heard \o SoundStream!Front(SoundStream!Pending)) + dropped + forgone
                          = chip
  BY DEF SoundStream!PlayedOnce
<1>1. pc["emu"] = "idle" /\ pc["audio"] = "idle"
  BY DEF SoundStream!Quiet, SoundStream!Threads
<1>2. owner = "none"
  BY <1>1 DEF SoundInv, SoundTyped, Locking, EmuLocked, AudioLocked, Locked
<1>3. /\ Extra = 0 /\ Skipped = 0 /\ Ended = Filled /\ Filled \in 0..Capacity /\ Filled \in Nat
      /\ SoundStream!Pending = Filled
  BY <1>2, BothAlone, PendingIs, SoundConstants DEF SoundInv
<1> DEFINE new == SoundStream!Front(Filled)
<1>4. new \in Seq(Nat) /\ Len(new) = Filled /\ \A i \in 1..Filled : new[i] = buffer[i - 1]
  BY <1>3, FrontIs DEF SoundInv
<1> HIDE DEF new
<1> DEFINE s == heard \o new
<1>5. PICK h \in Nat : h = Len(heard)
  BY DEF SoundInv, SoundTyped
<1>6. /\ Len(s) = h + Filled /\ DOMAIN heard = 1..h
      /\ \A i \in 1..h : s[i] = heard[i]
      /\ \A i \in (h + 1)..(h + Filled) : i - h \in 1..Filled /\ s[i] = new[i - h]
  <2>1. heard \in Seq(Nat) /\ new \in Seq(Nat)
    BY <1>4 DEF SoundInv, SoundTyped
  <2>2. /\ Len(s) = Len(heard) + Len(new) /\ DOMAIN heard = 1..Len(heard)
        /\ \A i \in 1..Len(heard) : s[i] = heard[i]
        /\ \A i \in (Len(heard) + 1)..(Len(heard) + Len(new)) :
              i - Len(heard) \in 1..Len(new) /\ s[i] = new[i - Len(heard)]
    BY <2>1, ConcatIs
  <2> QED BY <2>2, <1>4, <1>5
<1> HIDE DEF s
<1>7. ASSUME NEW i \in 1..(h + Filled - 1) PROVE s[i] < s[i + 1]
  <2>1. CASE i + 1 <= h
    <3>1. i \in 1..h /\ i + 1 \in 1..h /\ i < i + 1
      BY <2>1
    <3> QED BY <3>1, <1>6 DEF SoundInv, Kept
  <2>2. CASE i = h
    <3>1. i \in 1..h /\ i + 1 \in (h + 1)..(h + Filled) /\ (i + 1) - h = 1 /\ 1 \in 1..Filled
      BY <2>2, <1>3
    <3>2. s[i] = heard[i] /\ s[i + 1] = new[1] /\ new[1] = buffer[0] /\ i \in DOMAIN heard
      BY <3>1, <1>4, <1>6
    <3>3. 0 \in Waiting
      BY <3>1, <1>3 DEF Waiting
    <3> QED BY <3>2, <3>3 DEF SoundInv, Kept
  <2>3. CASE i > h
    <3> DEFINE a == i - h - 1
               b == i - h
    <3>1. /\ i \in (h + 1)..(h + Filled) /\ i + 1 \in (h + 1)..(h + Filled)
          /\ i - h = b /\ (i + 1) - h = b + 1 /\ b \in 1..Filled /\ b + 1 \in 1..Filled
          /\ b - 1 = a /\ (b + 1) - 1 = b /\ a < b /\ a \in 0..(Filled - 1)
          /\ b \in 0..(Filled - 1) /\ a \in Nat /\ b \in Nat /\ a <= b
      BY <2>3, <1>3
    <3> HIDE DEF a, b
    <3>2. s[i] = buffer[a] /\ s[i + 1] = buffer[b]
      BY <3>1, <1>4, <1>6
    <3>3. a \in Waiting /\ b \in Waiting
      BY <3>1, <1>3 DEF Waiting
    <3>4. buffer[a] + (b - a) <= buffer[b] /\ buffer[a] \in Nat /\ buffer[b] \in Nat
      BY <3>1, <3>3, Bounds DEF SoundInv, Kept
    <3>5. buffer[a] < buffer[b]
      BY <3>1, <3>4, Apart
    <3> QED BY <3>2, <3>5
  <2> QED BY <2>1, <2>2, <2>3
<1>8. SoundStream!Increasing(s)
  <2>1. PICK n \in Nat : n = h + Filled /\ n - 1 = h + Filled - 1
    BY <1>3, <1>5
  <2>2. Len(s) = n
    BY <2>1, <1>6
  <2>3. \A i \in 1..(n - 1) : s[i] < s[i + 1]
    BY <2>1, <1>7
  <2> QED BY <2>2, <2>3 DEF SoundStream!Increasing
<1>9. Len(s) + dropped + forgone = chip
  <2>1. h + (Filled - 0) + dropped + forgone = chip
    BY <1>3, <1>5 DEF SoundInv, Kept
  <2> QED BY <2>1, <1>3, <1>6
<1> QED BY <1>3, <1>8, <1>9 DEF s, new

\* What is recorded is whole, from Runs.
LEMMA WholeFollows ==
    ASSUME Runs, fifo.buffer
    PROVE  /\ SoundStream!RunIsWhole
           /\ \A x \in RecordedFrames :
                 \E j \in DOMAIN SoundStream!Recorded : SoundStream!Recorded[j] = x
<1> DEFINE old == fifo.frames
           s == taken \o old
<1>1. /\ old \in Seq(Nat) /\ taken \in Seq(Nat)
      /\ mark.base \in Nat /\ mark.stray \in Nat /\ fifo.first \in Nat
  BY DEF Runs
<1>2. PICK a \in Nat, b \in Nat : a = Len(old) /\ b = Len(taken)
  BY <1>1
<1>3. /\ Len(s) = b + a /\ DOMAIN s = 1..(b + a) /\ DOMAIN taken = 1..b /\ DOMAIN old = 1..a
      /\ \A i \in 1..b : s[i] = taken[i]
      /\ \A i \in (b + 1)..(b + a) : i - b \in 1..a /\ s[i] = old[i - b]
  BY <1>1, <1>2, ConcatIs
<1>4. /\ \A i \in 1..b : i > mark.stray => taken[i] = mark.base + fifo.first + i
      /\ \A i \in 1..a : b + i > mark.stray => old[i] = mark.base + fifo.first + b + i
  BY <1>2, <1>3 DEF Runs, InPlace
<1>5. fifo.consumed = Len(taken)
  BY DEF Runs, InPlace
<1>6. active => mark.base + fifo.first + b + a = chip
  BY <1>2 DEF Runs
<1> HIDE DEF s, old
<1>7. ASSUME NEW i \in (mark.stray + 1)..(b + a) PROVE s[i] = mark.base + fifo.first + i
  <2>1. i \in Nat /\ i > mark.stray /\ (i \in 1..b \/ i \in (b + 1)..(b + a))
    BY <1>1
  <2>2. CASE i \in 1..b
    BY <2>1, <2>2, <1>3, <1>4
  <2>3. CASE i \in (b + 1)..(b + a)
    <3>1. i - b \in 1..a /\ s[i] = old[i - b]
      BY <2>3, <1>3
    <3>2. PICK m \in Nat : m = mark.base + fifo.first
      BY <1>1
    <3>3. b + (i - b) = i /\ m + b + (i - b) = m + i
      BY <2>1, <3>2
    <3>4. old[i - b] = m + b + (i - b)
      BY <3>1, <3>2, <3>3, <2>1, <1>4
    <3> QED BY <3>1, <3>2, <3>3, <3>4
  <2> QED BY <2>1, <2>2, <2>3
<1>8. ASSUME NEW x \in RecordedFrames PROVE \E j \in DOMAIN s : s[j] = x
  <2>1. CASE \E k \in DOMAIN taken : taken[k] = x
    <3>1. PICK k \in 1..b : taken[k] = x
      BY <2>1, <1>3
    <3>2. k \in 1..(b + a)
      OBVIOUS
    <3> QED BY <3>1, <3>2, <1>3
  <2>2. CASE \E k \in DOMAIN old : old[k] = x
    <3>1. PICK k \in 1..a : old[k] = x
      BY <2>2, <1>3
    <3>2. b + k \in 1..(b + a) /\ b + k \in (b + 1)..(b + a) /\ (b + k) - b = k
      OBVIOUS
    <3> QED BY <3>1, <3>2, <1>3
  <2>3. x \in {taken[k] : k \in DOMAIN taken} \cup {old[k] : k \in DOMAIN old}
    BY DEF RecordedFrames, old
  <2> QED BY <2>1, <2>2, <2>3
<1>10. active => mark.base + fifo.first + Len(s) = chip
  <2>1. mark.base + fifo.first + (b + a) = mark.base + fifo.first + b + a
    BY <1>1
  <2> QED BY <2>1, <1>3, <1>6
<1> QED BY <1>3, <1>5, <1>7, <1>8, <1>10 DEF SoundStream!RunIsWhole, SoundStream!Recorded, s, old

\* RecordedOnce, from InPlace and Complete.
LEMMA RecordedFollows ==
    ASSUME SoundInv
    PROVE  SoundStream!RecordedOnce
<1> SUFFICES ASSUME fifo.buffer
             PROVE  /\ SoundStream!RunIsWhole
                    /\ active => \A i \in (mark.heard + 1)..Len(heard) :
                         \E j \in DOMAIN SoundStream!Recorded : SoundStream!Recorded[j] = heard[i]
  BY DEF SoundStream!RecordedOnce
<1>1. /\ SoundStream!RunIsWhole
      /\ \A x \in RecordedFrames :
            \E j \in DOMAIN SoundStream!Recorded : SoundStream!Recorded[j] = x
  BY SoundRuns, WholeFollows
<1>2. ASSUME active, NEW i \in (mark.heard + 1)..Len(heard)
      PROVE  heard[i] \in RecordedFrames
  <2>1. mark.heard \in Nat /\ heard \in Seq(Nat)
    BY DEF SoundInv, SoundTyped
  <2>2. i \in DOMAIN heard /\ i > mark.heard
    BY <2>1
  <2> QED BY <1>2, <2>2 DEF SoundInv, Complete
<1> QED BY <1>1, <1>2

\* What FramesOnce says of the stream.
LEMMA SoundFollows ==
    SoundWhole => /\ ~crossed => SoundStream!PlayedOnce /\ SoundStream!RecordedOnce
                  /\ SoundStream!RecordedWhole
BY PlayedFollows, RecordedFollows, WholeFollows
DEF SoundWhole, RecordInv, RunKept, SoundStream!RecordedWhole

-----------------------------------------------------------------------------
(***************************************************************************)
(* The images in the drives: what the operators do.                        *)
(***************************************************************************)
Cells == [n : Nat, v : Nat]

\* The tracks of at are in f, no two at one place.
Laid(f, at) ==
    /\ f \in Seq(Cells) /\ at \in [Tracks -> Nat]
    /\ \A t \in Tracks : at[t] <= Len(f)
    /\ \A t, u \in Tracks : at[t] = at[u] /\ at[t] # 0 => t = u

\* The cells a to b - 1 of f.
Stretch(f, a, b) == SubSeq(f, a, b - 1)

LEMMA DiskConstants ==
    /\ Drives \subseteq Nat /\ NoDrive \notin Drives /\ Tracks \subseteq Nat /\ 0 \in Tracks
    /\ TrackMax \in Nat /\ 2 <= TrackMax
BY DiskAssumption

LEMMA NextTrackIs ==
    ASSUME NEW at \in [Tracks -> Nat], NEW last \in Nat, NEW p \in Nat, p < last
    PROVE  /\ D88Cache!NextTrack(p, at, last) \in (p + 1)..last
           /\ \A t \in Tracks : at[t] > p => D88Cache!NextTrack(p, at, last) <= at[t]
           /\ \/ D88Cache!NextTrack(p, at, last) = last
              \/ \E t \in Tracks : at[t] = D88Cache!NextTrack(p, at, last)
<1> DEFINE beyond == {at[t] : t \in Tracks} \cap (p + 1)..(last - 1)
           next == D88Cache!NextTrack(p, at, last)
<1>1. next = IF beyond = {} THEN last ELSE CHOOSE x \in beyond : \A y \in beyond : x <= y
  BY DEF D88Cache!NextTrack
<1>2. /\ beyond \in SUBSET Nat /\ \A x \in beyond : x \in (p + 1)..last
      /\ \A t \in Tracks : at[t] > p => at[t] \in beyond \/ last <= at[t]
      /\ \A x \in beyond : \E t \in Tracks : at[t] = x
  OBVIOUS
<1> HIDE DEF beyond
<1>3. CASE beyond = {}
  <2>1. next = last
    BY <1>1, <1>3
  <2>2. last \in (p + 1)..last
    OBVIOUS
  <2> QED BY <2>1, <2>2, <1>2, <1>3 DEF next
<1>4. CASE beyond # {}
  <2>1. \E x \in beyond : \A y \in beyond : x <= y
    BY <1>2, <1>4, LeastNatural
  <2>2. next \in beyond /\ \A y \in beyond : next <= y
    BY <2>1, <1>1, <1>4
  <2>3. next \in (p + 1)..last /\ \E t \in Tracks : at[t] = next
    BY <2>2, <1>2
  <2>4. ASSUME NEW t \in Tracks, at[t] > p PROVE next <= at[t]
    <3>1. next <= last /\ next \in Nat
      BY <2>3
    <3> QED BY <3>1, <2>2, <2>4, <1>2
  <2> QED BY <2>3, <2>4
<1> QED BY <1>3, <1>4

LEMMA NextTrackOnly ==
    ASSUME NEW at \in [Tracks -> Nat], NEW last \in Nat, NEW p \in Nat, p < last,
           NEW x \in (p + 1)..last, \A t \in Tracks : at[t] > p => x <= at[t],
           x = last \/ \E t \in Tracks : at[t] = x
    PROVE  D88Cache!NextTrack(p, at, last) = x
<1> DEFINE y == D88Cache!NextTrack(p, at, last)
<1>1. /\ y \in (p + 1)..last /\ \A t \in Tracks : at[t] > p => y <= at[t]
      /\ y = last \/ \E t \in Tracks : at[t] = y
  BY NextTrackIs
<1> HIDE DEF y
<1>2. ~(y < x)
  BY <1>1
<1>3. ~(x < y)
  BY <1>1
<1>4. x \in Nat /\ y \in Nat
  BY <1>1
<1> QED BY <1>2, <1>3, <1>4 DEF y

LEMMA StretchIs ==
    ASSUME NEW s \in Seq(Cells), NEW a \in Nat, NEW b \in Nat, 1 <= a, a <= b, b <= Len(s) + 1
    PROVE  /\ Stretch(s, a, b) \in Seq(Cells) /\ Len(Stretch(s, a, b)) = b - a
           /\ \A i \in 1..(b - a) : Stretch(s, a, b)[i] = s[a + i - 1]
<1>1. \A i \in a..(b - 1) : i \in 1..Len(s)
  OBVIOUS
<1>2. SubSeq(s, a, b - 1) \in Seq(Cells) /\ Len(SubSeq(s, a, b - 1)) = b - a
  BY <1>1
<1> QED BY <1>2 DEF Stretch

LEMMA SameCells ==
    ASSUME NEW s \in Seq(Cells), NEW t \in Seq(Cells), Len(s) = Len(t),
           \A i \in 1..Len(s) : s[i] = t[i]
    PROVE  s = t
OBVIOUS

\* Cells a to b - 1 of f are k further on in g.
LEMMA StretchMoved ==
    ASSUME NEW f \in Seq(Cells), NEW g \in Seq(Cells), NEW a \in Nat, NEW b \in Nat, NEW k \in Nat,
           1 <= a, a <= b, b <= Len(f) + 1, b + k <= Len(g) + 1,
           \A i \in a..(b - 1) : g[i + k] = f[i]
    PROVE  Stretch(g, a + k, b + k) = Stretch(f, a, b)
<1> DEFINE s == Stretch(g, a + k, b + k)
           t == Stretch(f, a, b)
<1>1. /\ a + k \in Nat /\ b + k \in Nat /\ 1 <= a + k /\ a + k <= b + k
      /\ (b + k) - (a + k) = b - a
  OBVIOUS
<1>2. /\ s \in Seq(Cells) /\ Len(s) = b - a
      /\ \A i \in 1..(b - a) : s[i] = g[(a + k) + i - 1]
  <2>1. PICK c \in Nat, e \in Nat : c = a + k /\ e = b + k
    OBVIOUS
  <2>2. 1 <= c /\ c <= e /\ e <= Len(g) + 1 /\ e - c = b - a
    BY <2>1
  <2>3. /\ Stretch(g, c, e) \in Seq(Cells) /\ Len(Stretch(g, c, e)) = e - c
        /\ \A i \in 1..(e - c) : Stretch(g, c, e)[i] = g[c + i - 1]
    BY ZenonT(60), <2>2, StretchIs
  <2>4. s = Stretch(g, c, e)
    BY <2>1
  <2> HIDE DEF s
  <2> QED BY <2>1, <2>2, <2>3, <2>4
<1>3. t \in Seq(Cells) /\ Len(t) = b - a /\ \A i \in 1..(b - a) : t[i] = f[a + i - 1]
  BY StretchIs
<1> HIDE DEF s, t
<1>4. ASSUME NEW i \in 1..(b - a) PROVE s[i] = t[i]
  <2>1. a + i - 1 \in a..(b - 1) /\ (a + i - 1) + k = (a + k) + i - 1
    OBVIOUS
  <2> QED BY <2>1, <1>2, <1>3
<1>5. s = t
  BY <1>2, <1>3, <1>4, SameCells
<1> QED BY <1>5 DEF s, t

LEMMA ListedIs ==
    ASSUME NEW c \in Seq(Cells)
    PROVE  /\ D88Cache!Listed(c) \in Seq(Cells) /\ Len(D88Cache!Listed(c)) <= Len(c)
           /\ \A i \in 1..Len(D88Cache!Listed(c)) : D88Cache!Listed(c)[i] = c[i]
           /\ c # <<>> => Len(D88Cache!Listed(c)) = IF c[1].n < Len(c) THEN c[1].n ELSE Len(c)
<1>1. CASE c = <<>>
  BY <1>1 DEF D88Cache!Listed
<1>2. CASE c # <<>>
  <2> DEFINE m == IF c[1].n < Len(c) THEN c[1].n ELSE Len(c)
  <2>1. c[1] \in Cells /\ Len(c) \in Nat /\ Len(c) # 0
    BY <1>2
  <2>2. m \in Nat /\ m <= Len(c)
    BY <2>1 DEF Cells
  <2>3. D88Cache!Listed(c) = SubSeq(c, 1, m)
    BY <1>2 DEF D88Cache!Listed
  <2> HIDE DEF m
  <2>4. \A i \in 1..m : i \in 1..Len(c)
    BY <2>1, <2>2
  <2>5. SubSeq(c, 1, m) \in Seq(Cells) /\ Len(SubSeq(c, 1, m)) = m
        /\ \A i \in 1..m : SubSeq(c, 1, m)[i] = c[i]
    BY <2>2, <2>4
  <2> QED BY <2>2, <2>3, <2>5 DEF m
<1> QED BY <1>1, <1>2

LEMMA TrackListed ==
    ASSUME NEW s \in Seq(Cells), NEW track \in Seq(Cells), NEW n \in Nat \ {0}, Len(track) = n,
           n <= Len(s), \A i \in 1..n : s[i] = track[i] /\ track[i].n = n
    PROVE  D88Cache!Listed(s) = track
<1> DEFINE t == D88Cache!Listed(s)
<1>1. 1 \in 1..n /\ Len(s) \in Nat
  OBVIOUS
<1>2. s # <<>> /\ s[1].n = n
  BY <1>1
<1>3. /\ t \in Seq(Cells) /\ \A i \in 1..Len(t) : t[i] = s[i]
      /\ Len(t) = IF s[1].n < Len(s) THEN s[1].n ELSE Len(s)
  BY <1>2, ListedIs
<1> HIDE DEF t
<1>4. Len(t) = n
  BY <1>1, <1>2, <1>3
<1>5. t = track
  BY <1>3, <1>4, SameCells
<1> QED BY <1>5 DEF t

LEMMA WrittenIs ==
    ASSUME NEW f \in Seq(Cells), NEW b \in Seq(Cells), NEW p \in Nat, 1 <= p, p <= Len(f) + 1
    PROVE  /\ D88Cache!Written(f, p, b) \in Seq(Cells)
           /\ Len(D88Cache!Written(f, p, b)) =
                IF p + Len(b) > Len(f) + 1 THEN p + Len(b) - 1 ELSE Len(f)
           /\ \A i \in 1..Len(D88Cache!Written(f, p, b)) :
                D88Cache!Written(f, p, b)[i] =
                    IF p <= i /\ i < p + Len(b) THEN b[i - p + 1] ELSE f[i]
<1>1. PICK l \in Nat, m \in Nat : l = Len(f) /\ m = Len(b)
  OBVIOUS
<1> DEFINE size == IF p + m > l + 1 THEN p + m - 1 ELSE l
           cell(i) == IF i >= p /\ i < p + m THEN b[i - p + 1] ELSE f[i]
           w == [i \in 1..size |-> cell(i)]
<1>2. D88Cache!Written(f, p, b) = w
  BY <1>1 DEF D88Cache!Written, D88Cache!End
<1>3. size \in Nat
  BY <1>1
<1>4. ASSUME NEW i \in 1..size
      PROVE  cell(i) \in Cells
  <2>1. CASE i >= p /\ i < p + m
    <3>1. i - p + 1 \in 1..m
      BY <2>1
    <3> QED BY <3>1, <2>1, <1>1
  <2>2. CASE ~(i >= p /\ i < p + m)
    <3>1. i \in 1..l
      BY <2>2, <1>1
    <3> QED BY <3>1, <2>2, <1>1
  <2> QED BY <2>1, <2>2
<1> HIDE DEF size, cell
<1>5. w \in Seq(Cells) /\ Len(w) = size /\ \A i \in 1..size : w[i] = cell(i)
  BY <1>3, <1>4
<1> QED BY <1>1, <1>2, <1>5 DEF size, cell

LEMMA MovedUpIs ==
    ASSUME NEW f \in Seq(Cells), NEW p \in Nat, NEW n \in Nat, 1 <= p, p <= Len(f)
    PROVE  /\ D88Cache!MovedUp(f, p, n) \in Seq(Cells)
           /\ Len(D88Cache!MovedUp(f, p, n)) = Len(f) + n
           /\ \A i \in 1..(p - 1) : D88Cache!MovedUp(f, p, n)[i] = f[i]
           /\ \A i \in p..Len(f) : D88Cache!MovedUp(f, p, n)[i + n] = f[i]
<1>1. PICK l \in Nat : l = Len(f)
  OBVIOUS
<1> DEFINE cell(i) == IF i < p + n /\ i <= l THEN f[i]
                      ELSE IF i < p + n THEN D88Cache!Cell(0, 0) ELSE f[i - n]
           w == [i \in 1..(l + n) |-> cell(i)]
<1>2. D88Cache!MovedUp(f, p, n) = w
  BY <1>1 DEF D88Cache!MovedUp, D88Cache!End
<1>3. ASSUME NEW i \in 1..(l + n) PROVE cell(i) \in Cells
  <2>1. CASE i < p + n /\ i <= l
    <3>1. i \in 1..l
      BY <2>1
    <3> QED BY <3>1, <2>1, <1>1
  <2>2. CASE i < p + n /\ ~(i <= l)
    BY <2>2 DEF D88Cache!Cell, Cells
  <2>3. CASE ~(i < p + n)
    <3>1. i - n \in 1..l
      BY <2>3, <1>1
    <3> QED BY <3>1, <2>3, <1>1
  <2> QED BY <2>1, <2>2, <2>3
<1>4. ASSUME NEW i \in 1..(p - 1) PROVE i \in 1..(l + n) /\ cell(i) = f[i]
  BY <1>1
<1>5. ASSUME NEW i \in p..l PROVE i + n \in 1..(l + n) /\ cell(i + n) = f[i]
  <2>1. i + n \in 1..(l + n) /\ ~(i + n < p + n) /\ (i + n) - n = i
    OBVIOUS
  <2> QED BY <2>1
<1> HIDE DEF cell
<1>6. w \in Seq(Cells) /\ Len(w) = l + n
  BY <1>3
<1> QED BY <1>1, <1>2, <1>4, <1>5, <1>6

LEMMA OnFileIs ==
    ASSUME NEW f, NEW at, Laid(f, at), NEW t \in Tracks
    PROVE  /\ at[t] = 0 => D88Cache!OnFile(f, at, t) = <<>>
           /\ at[t] # 0 =>
                /\ at[t] \in Nat /\ 1 <= at[t] /\ at[t] < D88Cache!End(f)
                /\ D88Cache!End(f) = Len(f) + 1 /\ D88Cache!End(f) \in Nat
                /\ D88Cache!OnFile(f, at, t) = D88Cache!Listed(Stretch(f, at[t],
                       D88Cache!NextTrack(at[t], at, D88Cache!End(f))))
           /\ D88Cache!OnFile(f, at, t) \in Seq(Cells)
<1>1. f \in Seq(Cells) /\ at \in [Tracks -> Nat] /\ at[t] <= Len(f) /\ at[t] \in Nat /\ Len(f) \in Nat
  BY DEF Laid
<1>2. CASE at[t] = 0
  BY <1>2 DEF D88Cache!OnFile
<1>3. CASE at[t] # 0
  <2>1. /\ 1 <= at[t] /\ at[t] < D88Cache!End(f) /\ D88Cache!End(f) = Len(f) + 1
        /\ D88Cache!End(f) \in Nat
    BY <1>1, <1>3 DEF D88Cache!End
  <2> DEFINE x == D88Cache!NextTrack(at[t], at, D88Cache!End(f))
  <2>2. x \in (at[t] + 1)..D88Cache!End(f)
    BY <1>1, <2>1, NextTrackIs
  <2>3. D88Cache!OnFile(f, at, t) = D88Cache!Listed(Stretch(f, at[t], x))
    BY <1>3 DEF D88Cache!OnFile, Stretch
  <2> HIDE DEF x
  <2>4. x \in Nat /\ at[t] <= x /\ x <= Len(f) + 1
    BY <2>1, <2>2, <1>1
  <2>5. Stretch(f, at[t], x) \in Seq(Cells)
    BY <2>4, <2>1, <1>1, StretchIs
  <2>6. D88Cache!OnFile(f, at, t) \in Seq(Cells)
    BY <2>3, <2>5, ListedIs
  <2> QED BY <2>1, <2>3, <2>6, <1>1, <1>3 DEF x
<1> QED BY <1>2, <1>3

\* A track that is k further on, with all its cells, is the same track.
LEMMA TrackStays ==
    ASSUME NEW f, NEW at, Laid(f, at), NEW g, NEW bt, Laid(g, bt), NEW u \in Tracks, at[u] # 0,
           NEW k \in Nat, bt[u] = at[u] + k, NEW x,
           x = D88Cache!NextTrack(at[u], at, D88Cache!End(f)),
           D88Cache!NextTrack(bt[u], bt, D88Cache!End(g)) = x + k,
           \A i \in at[u]..(x - 1) : g[i + k] = f[i]
    PROVE  D88Cache!OnFile(g, bt, u) = D88Cache!OnFile(f, at, u)
<1>1. PICK l \in Nat, m \in Nat, a \in Nat : l = Len(f) /\ m = Len(g) /\ a = at[u]
  BY DEF Laid
<1>2. /\ 1 <= a /\ a < D88Cache!End(f) /\ D88Cache!End(f) = l + 1
      /\ D88Cache!OnFile(f, at, u) = D88Cache!Listed(Stretch(f, a, x))
  BY <1>1, OnFileIs
<1>3. bt[u] # 0
  BY <1>1, <1>2
<1>4. /\ bt[u] < D88Cache!End(g) /\ D88Cache!End(g) = m + 1
      /\ D88Cache!OnFile(g, bt, u) = D88Cache!Listed(Stretch(g, a + k, x + k))
  <2> DEFINE y == D88Cache!NextTrack(bt[u], bt, D88Cache!End(g))
  <2>1. /\ bt[u] < D88Cache!End(g) /\ D88Cache!End(g) = m + 1
        /\ D88Cache!OnFile(g, bt, u) = D88Cache!Listed(Stretch(g, bt[u], y))
    BY <1>1, <1>3, OnFileIs
  <2>2. y = x + k /\ bt[u] = a + k
    BY <1>1
  <2> HIDE DEF y
  <2>3. D88Cache!OnFile(g, bt, u) = D88Cache!Listed(Stretch(g, a + k, x + k))
    BY <2>1, <2>2
  <2> QED BY <2>1, <2>3
<1>5. x \in (a + 1)..(l + 1)
  BY SMTT(40), <1>1, <1>2, NextTrackIs DEF Laid
<1>6. x + k <= m + 1
  <2> DEFINE y == D88Cache!NextTrack(bt[u], bt, D88Cache!End(g))
  <2>1. bt \in [Tracks -> Nat] /\ bt[u] \in Nat /\ D88Cache!End(g) \in Nat
    BY <1>1, <1>4 DEF Laid
  <2>2. y \in (bt[u] + 1)..D88Cache!End(g)
    BY <2>1, <1>4, NextTrackIs
  <2>3. y = x + k
    OBVIOUS
  <2> HIDE DEF y
  <2> QED BY <2>1, <2>2, <2>3, <1>4
<1>7. Stretch(g, a + k, x + k) = Stretch(f, a, x)
  <2>1. f \in Seq(Cells) /\ g \in Seq(Cells)
    BY DEF Laid
  <2>2. x \in Nat /\ a <= x /\ x <= l + 1 /\ x + k <= m + 1
    BY SMTT(40), <1>1, <1>5, <1>6
  <2>3. 1 <= a /\ \A i \in a..(x - 1) : g[i + k] = f[i]
    BY <1>1, <1>2
  <2>4. x <= Len(f) + 1 /\ x + k <= Len(g) + 1
    BY <2>2, <1>1
  <2>5. PICK y \in Nat : y = x
    BY <2>2
  <2>6. /\ a <= y /\ y <= Len(f) + 1 /\ y + k <= Len(g) + 1
        /\ \A i \in a..(y - 1) : g[i + k] = f[i]
    BY <2>2, <2>3, <2>4, <2>5
  <2>7. Stretch(g, a + k, y + k) = Stretch(f, a, y)
    BY <2>1, <2>3, <2>6, StretchMoved
  <2> QED BY <2>5, <2>7
<1> QED BY <1>2, <1>4, <1>7

-----------------------------------------------------------------------------
(***************************************************************************)
(* The cache c, the files f, the places of the tracks at, and what tr says *)
(* the guest has put on them.                                              *)
(***************************************************************************)
CacheType == [owner : Drives \cup {NoDrive}, track : Tracks, write : BOOLEAN, fptr : Nat,
              size : Nat, buf : Seq(Cells)]

\* The cache has the room of a whole track, and the guest's track unless it is one
\* of ln, those a format has been built over.
Fits(c, f, at, tr, ln) ==
    c.owner # NoDrive =>
        /\ at[c.owner][c.track] # 0 /\ c.fptr = at[c.owner][c.track]
        /\ c.fptr + c.size =
             D88Cache!NextTrack(c.fptr, at[c.owner], D88Cache!End(f[c.owner]))
        /\ c.size <= Len(c.buf)
        /\ \/ <<c.owner, c.track>> \in ln
           \/ c.size = Len(c.buf) /\ D88Cache!Listed(c.buf) = tr[c.owner][c.track]

\* Every other track is in the file.
Stands(c, f, at, tr, ln) ==
    \A d \in Drives, t \in Tracks :
        \/ d = c.owner /\ t = c.track /\ c.write
        \/ <<d, t>> \in ln
        \/ D88Cache!OnFile(f[d], at[d], t) = tr[d][t]

Image(c, f, at, tr, ln) ==
    /\ c \in CacheType /\ f \in [Drives -> Seq(Cells)] /\ at \in [Drives -> [Tracks -> Nat]]
    /\ tr \in [Drives -> [Tracks -> Seq(Cells)]]
    /\ \A d \in Drives : Laid(f[d], at[d])
    /\ Fits(c, f, at, tr, ln) /\ Stands(c, f, at, tr, ln)

\* What a format builds over the track in the cache.
Overlaying(c, f, at, tr, ln, lm, new, b) ==
    /\ Image(c, f, at, tr, ln) /\ ln \subseteq lm
    /\ c.owner = NoDrive \/ <<c.owner, c.track>> \in lm
    /\ new \in Seq(Cells) /\ Len(c.buf) <= Len(new) /\ b = [c EXCEPT !.buf = new]

LEMMA Overlaid ==
    ASSUME NEW c, NEW f, NEW at, NEW tr, NEW ln, NEW lm, NEW new, NEW b,
           Overlaying(c, f, at, tr, ln, lm, new, b)
    PROVE  Image(b, f, at, tr, lm) /\ b.owner = c.owner /\ b.track = c.track
<1>0. /\ Image(c, f, at, tr, ln) /\ ln \subseteq lm
      /\ c.owner = NoDrive \/ <<c.owner, c.track>> \in lm
      /\ new \in Seq(Cells) /\ Len(c.buf) <= Len(new) /\ b = [c EXCEPT !.buf = new]
  BY DEF Overlaying
<1>1. /\ c \in CacheType /\ f \in [Drives -> Seq(Cells)] /\ at \in [Drives -> [Tracks -> Nat]]
      /\ tr \in [Drives -> [Tracks -> Seq(Cells)]]
      /\ \A d \in Drives : Laid(f[d], at[d])
      /\ Fits(c, f, at, tr, ln) /\ Stands(c, f, at, tr, ln)
  BY <1>0 DEF Image
<1>2. b \in CacheType /\ b.owner = c.owner /\ b.track = c.track /\ b.write = c.write
      /\ b.fptr = c.fptr /\ b.size = c.size /\ b.buf = new
  BY <1>0, <1>1 DEF CacheType
<1>3. c.size \in Nat /\ c.buf \in Seq(Cells)
  BY <1>1 DEF CacheType
<1>4. c.owner # NoDrive => c.size <= Len(b.buf)
  <2>1. PICK z \in Nat, s \in Seq(Cells) : z = c.size /\ s = c.buf
    BY <1>3
  <2>2. c.owner # NoDrive => z <= Len(s)
    BY <2>1, <1>1 DEF Fits
  <2>3. Len(s) \in Nat /\ Len(new) \in Nat /\ Len(s) <= Len(new)
    BY <2>1, <1>0
  <2> QED BY <2>1, <2>2, <2>3, <1>2
<1>5. Fits(b, f, at, tr, lm)
  BY <1>0, <1>1, <1>2, <1>4 DEF Fits
<1>6. Stands(b, f, at, tr, lm)
  BY <1>0, <1>1, <1>2 DEF Stands
<1> QED BY <1>1, <1>2, <1>5, <1>6 DEF Image

\* A cache nobody owns says nothing.
LEMMA Unowned ==
    ASSUME NEW c, NEW f, NEW at, NEW tr, NEW ln, Image(c, f, at, tr, ln), ~c.write \/ c.owner = NoDrive,
           NEW b \in CacheType, b.owner = NoDrive
    PROVE  Image(b, f, at, tr, ln)
<1>1. Fits(b, f, at, tr, ln)
  BY DEF Fits
<1>2. ASSUME NEW d \in Drives, NEW t \in Tracks, <<d, t>> \notin ln
      PROVE  D88Cache!OnFile(f[d], at[d], t) = tr[d][t]
  BY <1>2, DiskConstants DEF Image, Stands
<1> QED BY <1>1, <1>2 DEF Image, Stands

\* Writing a track of just its length leaves the others, and puts it there.
LEMMA TrackWritten ==
    ASSUME NEW f, NEW at, Laid(f, at), NEW t \in Tracks, at[t] # 0, NEW b \in Seq(Cells),
           at[t] + Len(b) = D88Cache!NextTrack(at[t], at, D88Cache!End(f)), NEW g,
           g = D88Cache!Written(f, at[t], b)
    PROVE  /\ Laid(g, at) /\ D88Cache!End(g) = D88Cache!End(f)
           /\ D88Cache!OnFile(g, at, t) = D88Cache!Listed(b)
           /\ \A u \in Tracks \ {t} : D88Cache!OnFile(g, at, u) = D88Cache!OnFile(f, at, u)
<1>1. /\ f \in Seq(Cells) /\ at \in [Tracks -> Nat]
      /\ \A u \in Tracks : at[u] \in Nat /\ at[u] <= Len(f)
      /\ \A u, w \in Tracks : at[u] = at[w] /\ at[u] # 0 => u = w
  BY DEF Laid
<1>2. PICK l \in Nat, m \in Nat, p \in Nat : l = Len(f) /\ m = Len(b) /\ p = at[t]
  BY <1>1
<1>3. 1 <= p /\ p <= l /\ D88Cache!End(f) = l + 1
  BY <1>1, <1>2, OnFileIs
<1>4. p + m = D88Cache!NextTrack(p, at, l + 1)
  BY <1>2, <1>3
<1>5. p + m \in (p + 1)..(l + 1) /\ \A u \in Tracks : at[u] > p => p + m <= at[u]
  <2>1. p < l + 1 /\ l + 1 \in Nat
    BY <1>3
  <2> DEFINE y == D88Cache!NextTrack(p, at, l + 1)
  <2>2. y \in (p + 1)..(l + 1) /\ \A u \in Tracks : at[u] > p => y <= at[u]
    BY <1>1, <2>1, NextTrackIs
  <2>3. y = p + m
    BY <1>4
  <2> HIDE DEF y
  <2> QED BY <2>2, <2>3
<1>6. /\ g \in Seq(Cells) /\ Len(g) = l
      /\ \A i \in 1..l : g[i] = IF p <= i /\ i < p + m THEN b[i - p + 1] ELSE f[i]
  <2>1. p <= l + 1 /\ ~(p + m > l + 1)
    BY <1>3, <1>5
  <2>2. /\ g \in Seq(Cells) /\ Len(g) = IF p + m > l + 1 THEN p + m - 1 ELSE l
        /\ \A i \in 1..Len(g) : g[i] = IF p <= i /\ i < p + m THEN b[i - p + 1] ELSE f[i]
    BY <1>1, <1>2, <1>3, <2>1, WrittenIs
  <2> QED BY <2>1, <2>2
<1>7. Laid(g, at) /\ D88Cache!End(g) = l + 1
  BY <1>1, <1>2, <1>6 DEF Laid, D88Cache!End
<1>8. D88Cache!OnFile(g, at, t) = D88Cache!Listed(b)
  <2>1. D88Cache!OnFile(g, at, t) =
          D88Cache!Listed(Stretch(g, p, D88Cache!NextTrack(p, at, l + 1)))
    BY <1>2, <1>3, <1>7, OnFileIs
  <2>2. D88Cache!OnFile(g, at, t) = D88Cache!Listed(Stretch(g, p, p + m))
    BY <2>1, <1>4
  <2>3. PICK e \in Nat : e = p + m
    OBVIOUS
  <2>4. /\ Stretch(g, p, e) \in Seq(Cells) /\ Len(Stretch(g, p, e)) = e - p
        /\ \A i \in 1..(e - p) : Stretch(g, p, e)[i] = g[p + i - 1]
    <3>1. p <= e /\ e <= Len(g) + 1
      BY <2>3, <1>5, <1>6
    <3>2. 1 <= p /\ g \in Seq(Cells)
      BY <1>3, <1>6
    <3> QED BY ZenonT(60), <3>1, <3>2, StretchIs
  <2>5. ASSUME NEW i \in 1..m PROVE Stretch(g, p, e)[i] = b[i]
    <3>1. i \in 1..(e - p) /\ p + i - 1 \in 1..l /\ p <= p + i - 1 /\ p + i - 1 < p + m
          /\ (p + i - 1) - p + 1 = i
      BY <2>3, <1>3, <1>5
    <3> QED BY <3>1, <2>4, <1>6
  <2>6. Len(Stretch(g, p, e)) = m
    BY <2>3, <2>4
  <2>7. Stretch(g, p, e) = b
    BY <2>4, <2>5, <2>6, <1>2, SameCells
  <2> QED BY <2>2, <2>3, <2>7
<1>9. ASSUME NEW u \in Tracks \ {t} PROVE D88Cache!OnFile(g, at, u) = D88Cache!OnFile(f, at, u)
  <2>1. CASE at[u] = 0
    BY <2>1, <1>7, OnFileIs
  <2>2. CASE at[u] # 0
    <3> DEFINE x == D88Cache!NextTrack(at[u], at, l + 1)
    <3>1. PICK a \in Nat : a = at[u] /\ 1 <= a /\ a <= l /\ a # p
      BY <1>1, <1>2, <2>2
    <3>2. x \in (a + 1)..(l + 1) /\ \A w \in Tracks : at[w] > a => x <= at[w]
      <4>1. l + 1 \in Nat /\ a < l + 1
        BY <3>1
      <4> QED BY <4>1, <3>1, <1>1, NextTrackIs
    <3>3. x = D88Cache!NextTrack(at[u], at, D88Cache!End(f))
          /\ D88Cache!NextTrack(at[u], at, D88Cache!End(g)) = x
      BY <1>3, <1>7
    <3> HIDE DEF x
    <3>4. PICK y \in Nat : y = x /\ y = x + 0
      BY <3>2
    <3>5. ASSUME NEW i \in a..(y - 1) PROVE g[i + 0] = f[i]
      <4>1. a > p => p + m <= a
        BY <3>1, <1>5
      <4>2. a < p => y <= p
        BY <3>1, <3>2, <3>4, <1>2
      <4>3. i \in 1..l /\ ~(p <= i /\ i < p + m) /\ i + 0 = i
        BY <4>1, <4>2, <3>1, <3>2, <3>4
      <4> QED BY <4>3, <1>6
    <3>6. at[u] = at[u] + 0 /\ \A i \in at[u]..(y - 1) : g[i + 0] = f[i]
      BY <3>1, <3>5
    <3>7. /\ y = D88Cache!NextTrack(at[u], at, D88Cache!End(f))
          /\ D88Cache!NextTrack(at[u], at, D88Cache!End(g)) = y + 0 /\ 0 \in Nat
      BY <3>3, <3>4
    <3> QED BY <3>6, <3>7, <2>2, <1>7, TrackStays
  <2> QED BY <2>1, <2>2
<1> QED BY <1>3, <1>7, <1>8, <1>9

\* The same of a pair of the cache and the files.
Imaged(z, at, tr, ln) ==
    z = [cache |-> z.cache, file |-> z.file] /\ Image(z.cache, z.file, at, tr, ln)

LEMMA FrontCells ==
    ASSUME NEW s \in Seq(Cells), NEW n \in Nat, n <= Len(s)
    PROVE  /\ SubSeq(s, 1, n) \in Seq(Cells) /\ Len(SubSeq(s, 1, n)) = n
           /\ n = Len(s) => SubSeq(s, 1, n) = s
<1> DEFINE t == SubSeq(s, 1, n)
<1>1. \A i \in 1..n : i \in 1..Len(s)
  OBVIOUS
<1>2. t \in Seq(Cells) /\ Len(t) = n /\ \A i \in 1..n : t[i] = s[i]
  BY <1>1
<1> HIDE DEF t
<1>3. n = Len(s) => t = s
  BY <1>2, SameCells
<1> QED BY <1>2, <1>3 DEF t

\* d88trk_flushdata, which finds the file.
LEMMA FlushedIs ==
    ASSUME NEW at, NEW tr, NEW ln, NEW z, Imaged(z, at, tr, ln)
    PROVE  /\ Imaged(D88Cache!Flushed(z, TRUE), at, tr, ln)
           /\ D88Cache!Flushed(z, TRUE).cache.owner = NoDrive
<1> DEFINE c == z.cache
           f == z.file
           s == D88Cache!Flushed(z, TRUE)
           dirty == c.owner # NoDrive /\ c.size # 0 /\ c.write
<1>1. /\ c \in CacheType /\ f \in [Drives -> Seq(Cells)] /\ at \in [Drives -> [Tracks -> Nat]]
      /\ tr \in [Drives -> [Tracks -> Seq(Cells)]]
      /\ \A d \in Drives : Laid(f[d], at[d])
      /\ Fits(c, f, at, tr, ln) /\ Stands(c, f, at, tr, ln)
  BY DEF Imaged, Image
<1>0. z = [cache |-> c, file |-> f] /\ Image(c, f, at, tr, ln)
  BY DEF Imaged
<1> HIDE DEF c, f
<1>2. c.owner # NoDrive => c.size # 0
  <2> SUFFICES ASSUME c.owner # NoDrive, c.size = 0 PROVE FALSE
    OBVIOUS
  <2> DEFINE d == c.owner
             y == D88Cache!NextTrack(at[d][c.track], at[d], D88Cache!End(f[d]))
  <2>1. d \in Drives /\ c.track \in Tracks /\ Laid(f[d], at[d]) /\ at[d][c.track] # 0
    BY <1>1 DEF CacheType, Fits
  <2>2. at[d][c.track] + 0 = y
    BY <1>1 DEF Fits
  <2>3. /\ at[d] \in [Tracks -> Nat] /\ D88Cache!End(f[d]) \in Nat
        /\ at[d][c.track] \in Nat /\ at[d][c.track] < D88Cache!End(f[d])
    <3>1. at[d] \in [Tracks -> Nat] /\ at[d][c.track] \in Nat
      BY <2>1 DEF Laid
    <3> QED BY <3>1, <2>1, OnFileIs
  <2>4. y \in (at[d][c.track] + 1)..D88Cache!End(f[d])
    BY <2>3, NextTrackIs
  <2> HIDE DEF y
  <2> QED BY <2>2, <2>3, <2>4
<1>3. CASE ~dirty
  <2>1. s = [z EXCEPT !.cache.owner = NoDrive]
    BY <1>3 DEF D88Cache!Flushed, c
  <2> HIDE DEF s
  <2>2. s.file = f /\ s.cache = [c EXCEPT !.owner = NoDrive] /\ s = [cache |-> s.cache, file |-> s.file]
    BY <2>1, <1>0
  <2>3. s.cache \in CacheType /\ s.cache.owner = NoDrive
    BY <2>2, <1>1 DEF CacheType
  <2>4. ~c.write \/ c.owner = NoDrive
    BY <1>2, <1>3
  <2>5. Image(s.cache, f, at, tr, ln)
    BY <2>3, <2>4, <1>0, Unowned
  <2> QED BY <2>2, <2>3, <2>5 DEF Imaged, s
<1>4. CASE dirty
  <2> DEFINE d == c.owner
             t == c.track
             b == SubSeq(c.buf, 1, c.size)
             g == D88Cache!Written(f[d], c.fptr, b)
  <2>1. s = [z EXCEPT !.file[c.owner] = D88Cache!Written(@, c.fptr, b),
                      !.cache.owner = NoDrive, !.cache.write = FALSE]
    BY <1>4 DEF D88Cache!Flushed, c
  <2> HIDE DEF s
  <2>2. /\ s.file = [f EXCEPT ![d] = g] /\ s.cache = [c EXCEPT !.owner = NoDrive, !.write = FALSE]
        /\ s = [cache |-> s.cache, file |-> s.file]
    BY <2>1, <1>0
  <2>3. s.cache \in CacheType /\ s.cache.owner = NoDrive
    BY <2>2, <1>1 DEF CacheType
  <2>a. /\ d \in Drives /\ t \in Tracks /\ c.buf \in Seq(Cells) /\ Laid(f[d], at[d])
        /\ at[d][t] # 0 /\ c.fptr = at[d][t] /\ c.size \in Nat /\ c.size <= Len(c.buf)
        /\ <<d, t>> \in ln \/ (c.size = Len(c.buf) /\ D88Cache!Listed(c.buf) = tr[d][t])
        /\ at[d][t] + c.size = D88Cache!NextTrack(at[d][t], at[d], D88Cache!End(f[d]))
    BY <1>1, <1>4 DEF CacheType, Fits
  <2>b. /\ b \in Seq(Cells) /\ Len(b) = c.size
        /\ c.size = Len(c.buf) => b = c.buf
    BY <2>a, FrontCells
  <2> HIDE DEF b
  <2>4. /\ d \in Drives /\ t \in Tracks /\ b \in Seq(Cells) /\ Laid(f[d], at[d])
        /\ at[d][t] # 0 /\ c.fptr = at[d][t]
        /\ <<d, t>> \in ln \/ D88Cache!Listed(b) = tr[d][t]
        /\ at[d][t] + Len(b) = D88Cache!NextTrack(at[d][t], at[d], D88Cache!End(f[d]))
    BY <2>a, <2>b
  <2>5. /\ Laid(g, at[d])
        /\ <<d, t>> \in ln \/ D88Cache!OnFile(g, at[d], t) = tr[d][t]
        /\ \A u \in Tracks \ {t} : D88Cache!OnFile(g, at[d], u) = D88Cache!OnFile(f[d], at[d], u)
    <3>1. /\ Laid(g, at[d]) /\ D88Cache!OnFile(g, at[d], t) = D88Cache!Listed(b)
          /\ \A u \in Tracks \ {t} : D88Cache!OnFile(g, at[d], u) = D88Cache!OnFile(f[d], at[d], u)
      BY <2>4, TrackWritten
    <3> QED BY <3>1, <2>4
  <2> HIDE DEF g
  <2>6. s.file \in [Drives -> Seq(Cells)] /\ \A e \in Drives : Laid(s.file[e], at[e])
    <3>1. g \in Seq(Cells)
      BY <2>5 DEF Laid
    <3>2. \A e \in Drives : s.file[e] = IF e = d THEN g ELSE f[e]
      BY <2>2, <2>4, <1>1
    <3> QED BY <3>1, <3>2, <2>2, <2>5, <1>1
  <2>7. ASSUME NEW e \in Drives, NEW u \in Tracks, <<e, u>> \notin ln
        PROVE  D88Cache!OnFile(s.file[e], at[e], u) = tr[e][u]
    <3>1. CASE e # d
      <4>1. s.file[e] = f[e] /\ D88Cache!OnFile(f[e], at[e], u) = tr[e][u]
        BY <2>7, <3>1, <2>2, <1>1 DEF Stands
      <4> QED BY <4>1
    <3>2. CASE e = d /\ u = t
      <4>1. s.file[e] = g
        BY <3>2, <2>2, <2>4, <1>1
      <4> QED BY <4>1, <3>2, <2>5, <2>7
    <3>3. CASE e = d /\ u # t
      <4>1. s.file[e] = g /\ D88Cache!OnFile(f[d], at[d], u) = tr[d][u]
        BY <2>7, <3>3, <2>2, <2>4, <1>1 DEF Stands
      <4> QED BY <4>1, <3>3, <2>5
    <3> QED BY <3>1, <3>2, <3>3
  <2>8. Fits(s.cache, s.file, at, tr, ln) /\ Stands(s.cache, s.file, at, tr, ln)
    BY <2>3, <2>7 DEF Fits, Stands
  <2>9. Image(s.cache, s.file, at, tr, ln)
    BY <2>3, <2>6, <2>8, <1>1 DEF Image
  <2> QED BY <2>2, <2>3, <2>9 DEF Imaged, s
<1> QED BY <1>3, <1>4

\* d88trk_read
LEMMA ReadTrackIs ==
    ASSUME NEW tr, NEW ln, NEW z, Imaged(z, ptr, tr, ln), NEW d \in Drives, NEW t \in Tracks
    PROVE  /\ Imaged(D88Cache!ReadTrack(z, d, t, TRUE), ptr, tr, ln)
           /\ D88Cache!ReadTrack(z, d, t, TRUE).cache.owner \in {NoDrive, d}
<1> DEFINE e == D88Cache!Flushed(z, TRUE)
           s == D88Cache!ReadTrack(z, d, t, TRUE)
<1>1. /\ e = [cache |-> e.cache, file |-> e.file] /\ Imaged(e, ptr, tr, ln)
      /\ Image(e.cache, e.file, ptr, tr, ln) /\ e.cache.owner = NoDrive
  BY FlushedIs DEF Imaged
<1> DEFINE p == ptr[d][t]
           x == D88Cache!NextTrack(p, ptr[d], D88Cache!End(e.file[d]))
           b == Stretch(e.file[d], p, x)
           k == [owner |-> d, track |-> t, write |-> FALSE, fptr |-> p, size |-> x - p, buf |-> b]
<1>2. s = IF p = 0 THEN e ELSE [e EXCEPT !.cache = D88Cache!Loaded(d, t, e.file[d])]
  BY DEF D88Cache!ReadTrack
<1> HIDE DEF e, s
<1>3. CASE p = 0
  BY <1>1, <1>2, <1>3 DEF s
<1>4. CASE p # 0
  <2>1. /\ e.file \in [Drives -> Seq(Cells)] /\ Laid(e.file[d], ptr[d])
        /\ \A u \in Drives, w \in Tracks :
              <<u, w>> \in ln \/ D88Cache!OnFile(e.file[u], ptr[u], w) = tr[u][w]
    BY <1>1, DiskConstants DEF Image, Stands
  <2>2. /\ p \in Nat /\ 1 <= p /\ p < D88Cache!End(e.file[d])
        /\ D88Cache!End(e.file[d]) = Len(e.file[d]) + 1 /\ D88Cache!End(e.file[d]) \in Nat
        /\ D88Cache!OnFile(e.file[d], ptr[d], t) = D88Cache!Listed(b)
    BY <2>1, <1>4, OnFileIs
  <2>3. x \in (p + 1)..D88Cache!End(e.file[d])
    BY <2>1, <2>2, NextTrackIs DEF Laid
  <2>4. b \in Seq(Cells) /\ Len(b) = x - p
    <3>1. PICK y \in Nat : y = x
      BY <2>3, <2>2
    <3>2. e.file[d] \in Seq(Cells) /\ p <= y /\ y <= Len(e.file[d]) + 1
      BY <2>1, <2>2, <2>3, <3>1
    <3>3. Stretch(e.file[d], p, y) \in Seq(Cells) /\ Len(Stretch(e.file[d], p, y)) = y - p
      BY <3>2, <2>2, StretchIs
    <3> QED BY <3>1, <3>3
  <2>a. D88Cache!Loaded(d, t, e.file[d]) = k
    <3>1. PICK y \in Nat : y = x /\ p + (y - p) - 1 = y - 1
      BY <2>3, <2>2
    <3>2. SubSeq(e.file[d], p, p + (x - p) - 1) = b
      BY <3>1 DEF Stretch
    <3> HIDE DEF x, b
    <3>3. D88Cache!Loaded(d, t, e.file[d]) =
            [owner |-> d, track |-> t, write |-> FALSE, fptr |-> p, size |-> x - p,
             buf |-> SubSeq(e.file[d], p, p + (x - p) - 1)]
      BY DEF D88Cache!Loaded, x
    <3> QED BY <3>2, <3>3
  <2>5. s = [cache |-> k, file |-> e.file]
    BY <1>1, <1>2, <1>4, <2>a
  <2> HIDE DEF b
  <2>7. x - p \in Nat /\ p + (x - p) = x /\ x - p <= Len(b)
    <3>1. PICK y \in Nat : y = x /\ p < y
      BY <2>3, <2>2
    <3> HIDE DEF x
    <3> QED BY <3>1, <2>2, <2>4
  <2>6. k \in CacheType
    <3>1. PICK v \in Nat : v = x - p
      BY <2>7
    <3>2. k = [owner |-> d, track |-> t, write |-> FALSE, fptr |-> p, size |-> v, buf |-> b]
      BY <3>1
    <3> HIDE DEF k, x
    <3> QED BY <2>2, <2>4, <3>2 DEF CacheType
  <2>8. <<d, t>> \in ln \/ D88Cache!Listed(b) = tr[d][t]
    BY <2>1, <2>2
  <2> HIDE DEF x
  <2>9. Fits(k, e.file, ptr, tr, ln)
    <3>1. x = D88Cache!NextTrack(p, ptr[d], D88Cache!End(e.file[d]))
      BY DEF x
    <3> QED BY <2>4, <2>7, <2>8, <3>1, <1>4 DEF Fits
  <2>10. Stands(k, e.file, ptr, tr, ln)
    BY <2>1 DEF Stands
  <2> HIDE DEF k
  <2>11. Image(k, e.file, ptr, tr, ln)
    BY <2>6, <2>9, <2>10, <1>1 DEF Image
  <2>12. k.owner = d
    BY DEF k
  <2>13. s.cache = k /\ s.file = e.file
    BY <2>5
  <2> QED BY <2>5, <2>11, <2>12, <2>13 DEF Imaged, s
<1> QED BY <1>3, <1>4

\* trkseek
LEMMA TrkSeekIs ==
    ASSUME NEW tr, NEW ln, NEW z, Imaged(z, ptr, tr, ln), NEW d \in Drives, NEW t \in Tracks
    PROVE  /\ Imaged(D88Cache!TrkSeek(z, d, t, TRUE), ptr, tr, ln)
           /\ D88Cache!TrkSeek(z, d, t, TRUE).cache.owner \in {NoDrive, d}
<1>1. CASE D88Cache!Holds(z.cache, d, t)
  BY <1>1 DEF D88Cache!TrkSeek, D88Cache!Holds
<1>2. CASE ~D88Cache!Holds(z.cache, d, t)
  <2>1. D88Cache!TrkSeek(z, d, t, TRUE) = D88Cache!ReadTrack(z, d, t, TRUE)
    BY <1>2 DEF D88Cache!TrkSeek
  <2>2. Imaged(z, ptr, tr, ln)
    OBVIOUS
  <2>3. /\ Imaged(D88Cache!ReadTrack(z, d, t, TRUE), ptr, tr, ln)
        /\ D88Cache!ReadTrack(z, d, t, TRUE).cache.owner \in {NoDrive, d}
    BY <2>2, ReadTrackIs
  <2> QED BY <2>1, <2>3
<1> QED BY <1>1, <1>2

\* drvflush
OwnerLeft(z, d) == IF z.cache.owner = d THEN NoDrive ELSE z.cache.owner

DrvFlushed(z, d, at, tr, ln) ==
    /\ Imaged(D88Cache!DrvFlush(z, d, TRUE), at, tr, ln)
    /\ D88Cache!DrvFlush(z, d, TRUE).cache.owner = OwnerLeft(z, d)
    /\ z.cache.owner # d => D88Cache!DrvFlush(z, d, TRUE).cache = z.cache

LEMMA DrvFlushIs ==
    ASSUME NEW at, NEW tr, NEW ln, NEW z, Imaged(z, at, tr, ln), NEW d \in Drives
    PROVE  DrvFlushed(z, d, at, tr, ln)
<1> DEFINE s == D88Cache!DrvFlush(z, d, TRUE)
<1>1. CASE z.cache.owner = d
  <2> DEFINE e == D88Cache!Flushed(z, TRUE)
  <2>1. /\ e = [cache |-> e.cache, file |-> e.file] /\ Imaged(e, at, tr, ln)
        /\ Image(e.cache, e.file, at, tr, ln) /\ e.cache.owner = NoDrive
    BY FlushedIs DEF Imaged
  <2>2. s = [e EXCEPT !.cache.owner = NoDrive]
    BY <1>1 DEF D88Cache!DrvFlush
  <2> HIDE DEF e, s
  <2>3. e.cache \in CacheType
    BY <2>1 DEF Image
  <2>4. [e.cache EXCEPT !.owner = NoDrive] = e.cache
    BY <2>1, <2>3 DEF CacheType
  <2>5. s = e
    BY <2>1, <2>2, <2>4
  <2> QED BY <2>1, <2>5, <1>1 DEF s, OwnerLeft, DrvFlushed
<1>2. CASE z.cache.owner # d
  BY <1>2 DEF D88Cache!DrvFlush, OwnerLeft, DrvFlushed
<1> QED BY <1>1, <1>2

-----------------------------------------------------------------------------
(***************************************************************************)
(* Formatting: the cells from end on move up by m, the new track goes to   *)
(* p, and no track between them but the old one.                           *)
(***************************************************************************)
Relaying(f, at, t, p, end, m, n, track, g, bt) ==
    /\ Laid(f, at) /\ track \in Seq(Cells) /\ Len(track) = n
    /\ \A i \in 1..n : track[i].n = n
    /\ 1 <= p /\ p <= end /\ end <= Len(f) + 1 /\ p + n <= end + m /\ at[t] \in {0, p}
    /\ \A u \in Tracks \ {t} : at[u] # 0 =>
          \/ at[u] < p /\ D88Cache!NextTrack(at[u], at, D88Cache!End(f)) <= p
          \/ end <= at[u]
    /\ g \in Seq(Cells) /\ Len(g) = Len(f) + m
    /\ \A i \in 1..(p - 1) : g[i] = f[i]
    /\ \A i \in 1..n : g[p + i - 1] = track[i]
    /\ \A i \in end..Len(f) : g[i + m] = f[i]
    /\ bt \in [Tracks -> Nat] /\ bt[t] = p
    /\ \A u \in Tracks \ {t} : bt[u] = IF end <= at[u] THEN at[u] + m ELSE at[u]

\* All tracks of g are where bt says: the new one, and the others as they were.
Remade(f, at, t, track, g, bt) ==
    /\ Laid(g, bt) /\ D88Cache!OnFile(g, bt, t) = track
    /\ \A u \in Tracks \ {t} : D88Cache!OnFile(g, bt, u) = D88Cache!OnFile(f, at, u)

LEMMA Relaid ==
    ASSUME NEW f, NEW at, NEW t \in Tracks, NEW p \in Nat, NEW end \in Nat, NEW m \in Nat,
           NEW n \in Nat \ {0}, NEW track, NEW g, NEW bt,
           Relaying(f, at, t, p, end, m, n, track, g, bt)
    PROVE  Remade(f, at, t, track, g, bt)
<1>a. /\ Laid(f, at) /\ track \in Seq(Cells) /\ Len(track) = n /\ \A i \in 1..n : track[i].n = n
  BY DEF Relaying
<1>b. 1 <= p /\ p <= end /\ end <= Len(f) + 1 /\ p + n <= end + m /\ at[t] \in {0, p}
  BY DEF Relaying
<1>c. \A u \in Tracks \ {t} : at[u] # 0 =>
          \/ at[u] < p /\ D88Cache!NextTrack(at[u], at, D88Cache!End(f)) <= p
          \/ end <= at[u]
  BY DEF Relaying
<1>d. g \in Seq(Cells) /\ Len(g) = Len(f) + m
  BY DEF Relaying
<1>e. /\ \A i \in 1..(p - 1) : g[i] = f[i]
      /\ \A i \in 1..n : g[p + i - 1] = track[i]
      /\ \A i \in end..Len(f) : g[i + m] = f[i]
  BY DEF Relaying
<1>f. /\ bt \in [Tracks -> Nat] /\ bt[t] = p
      /\ \A u \in Tracks \ {t} : bt[u] = IF end <= at[u] THEN at[u] + m ELSE at[u]
  BY DEF Relaying
<1>1. PICK l \in Nat, r \in Nat, q \in Nat :
        l = Len(f) /\ l + m = Len(g) /\ r = l + 1 /\ q = l + m + 1
  <2>1. PICK l \in Nat : l = Len(f)
    BY <1>a DEF Laid
  <2>2. l + 1 \in Nat /\ l + m + 1 \in Nat
    OBVIOUS
  <2> QED BY <2>1, <2>2, <1>d
<1>2. /\ f \in Seq(Cells) /\ at \in [Tracks -> Nat] /\ bt \in [Tracks -> Nat]
      /\ \A u \in Tracks : at[u] \in Nat /\ at[u] <= l
      /\ \A u, w \in Tracks : at[u] = at[w] /\ at[u] # 0 => u = w
  BY <1>1, <1>a, <1>f DEF Laid
<1>3. /\ D88Cache!End(f) = r /\ D88Cache!End(g) = q /\ end <= r /\ q = r + m
      /\ r = l + 1 /\ q = l + m + 1
  BY <1>1, <1>b DEF D88Cache!End
<1>4. ASSUME NEW u \in Tracks \ {t}
      PROVE  \/ bt[u] = at[u] /\ at[u] < end /\ at[u] < p
             \/ bt[u] = at[u] + m /\ end <= at[u] /\ p < bt[u] /\ p + n <= bt[u]
  <2>1. PICK a \in Nat : a = at[u]
    BY <1>2
  <2>2. bt[u] = IF end <= a THEN a + m ELSE a
    BY <2>1, <1>f
  <2>3. a = 0 \/ a < p \/ end <= a
    BY <2>1, <1>c
  <2>4. CASE end <= a
    <3>1. bt[u] = a + m /\ p < a + m /\ p + n <= a + m
      BY <2>2, <2>4, <1>b
    <3>2. bt[u] = at[u] + m /\ end <= at[u]
      BY <3>1, <2>1, <2>4
    <3> QED BY <3>1, <3>2
  <2>5. CASE ~(end <= a)
    <3>1. bt[u] = a /\ a < p /\ a < end
      BY <2>2, <2>3, <2>5, <1>b
    <3>2. bt[u] = at[u] /\ at[u] < end /\ at[u] < p
      BY <3>1, <2>1
    <3> QED BY <3>2
  <2> QED BY <2>4, <2>5
<1>5. Laid(g, bt)
  <2>1. ASSUME NEW u \in Tracks PROVE bt[u] <= l + m
    <3>1. CASE u = t
      BY <3>1, <1>3, <1>b, <1>f
    <3>2. CASE u # t
      BY <3>2, <1>2, <1>4
    <3> QED BY <3>1, <3>2
  <2>2. ASSUME NEW u \in Tracks, NEW w \in Tracks, bt[u] = bt[w], bt[u] # 0 PROVE u = w
    <3>1. CASE u = t \/ w = t
      BY <3>1, <2>2, <1>2, <1>4, <1>f
    <3>2. CASE u # t /\ w # t
      <4>1. PICK a \in Nat, b \in Nat : a = at[u] /\ b = at[w]
        BY <1>2
      <4>2. \/ bt[u] = a /\ a < p
            \/ bt[u] = a + m /\ end <= a /\ p < a + m
        BY <3>2, <4>1, <1>4
      <4>3. \/ bt[w] = b /\ b < p
            \/ bt[w] = b + m /\ end <= b /\ p < b + m
        BY <3>2, <4>1, <1>4
      <4>4. a = b /\ a # 0
        BY <4>2, <4>3, <2>2, <1>b
      <4>5. at[u] = at[w] /\ at[u] # 0
        BY <4>1, <4>4
      <4> QED BY <4>5, <1>2
    <3> QED BY <3>1, <3>2
  <2> QED BY <2>1, <2>2, <1>1, <1>d, <1>f DEF Laid
<1>6. D88Cache!OnFile(g, bt, t) = track
  <2> DEFINE y == D88Cache!NextTrack(p, bt, q)
  <2>1. p < q
    BY <1>3, <1>b
  <2>2. y \in (p + 1)..(q) /\ (y = q \/ \E w \in Tracks : bt[w] = y)
    BY <2>1, <1>2, NextTrackIs
  <2>3. D88Cache!OnFile(g, bt, t) = D88Cache!Listed(Stretch(g, p, y))
    <3>1. D88Cache!OnFile(g, bt, t) =
            D88Cache!Listed(Stretch(g, bt[t], D88Cache!NextTrack(bt[t], bt, D88Cache!End(g))))
      <4>1. bt[t] # 0
        BY <1>b, <1>f
      <4> QED BY <4>1, <1>5, OnFileIs
    <3> QED BY <3>1, <1>3, <1>f
  <2> HIDE DEF y
  <2>4. PICK e \in Nat : e = y /\ p + n <= e /\ e <= q
    <3>1. PICK e \in Nat : e = y /\ p < e /\ e <= q
      BY <2>2
    <3>2. CASE e = q
      BY <3>1, <3>2, <1>3, <1>b
    <3>3. CASE \E w \in Tracks : bt[w] = e
      <4>1. PICK w \in Tracks : bt[w] = e
        BY <3>3
      <4>2. w # t
        BY <4>1, <3>1, <1>f
      <4> QED BY <4>1, <4>2, <3>1, <1>4, <1>2
    <3> QED BY <3>1, <3>2, <3>3, <2>2
  <2>5. /\ Stretch(g, p, e) \in Seq(Cells) /\ Len(Stretch(g, p, e)) = e - p
        /\ \A i \in 1..(e - p) : Stretch(g, p, e)[i] = g[p + i - 1]
    <3>1. p <= e /\ e <= Len(g) + 1 /\ 1 <= p
      BY <2>4, <1>1, <1>3, <1>b
    <3>2. g \in Seq(Cells)
      BY <1>d
    <3> QED BY ZenonT(60), <3>1, <3>2, StretchIs
  <2>6. ASSUME NEW i \in 1..n PROVE Stretch(g, p, e)[i] = track[i] /\ track[i].n = n
    <3>1. i \in 1..(e - p)
      BY <2>4
    <3> QED BY <3>1, <2>5, <1>a, <1>e
  <2>7. n <= Len(Stretch(g, p, e))
    BY <2>4, <2>5
  <2>8. D88Cache!Listed(Stretch(g, p, e)) = track
    BY <2>5, <2>6, <2>7, <1>a, TrackListed
  <2> QED BY <2>3, <2>4, <2>8
<1>7. ASSUME NEW u \in Tracks \ {t} PROVE D88Cache!OnFile(g, bt, u) = D88Cache!OnFile(f, at, u)
  <2>1. PICK a \in Nat : a = at[u]
    BY <1>2
  <2>2. CASE a = 0
    <3>1. bt[u] = 0 /\ at[u] = 0
      <4>1. at[u] = 0 /\ ~(end <= at[u])
        BY <2>1, <2>2, <1>b
      <4> QED BY <4>1, <1>f
    <3>2. D88Cache!OnFile(g, bt, u) = <<>> /\ D88Cache!OnFile(f, at, u) = <<>>
      BY <3>1, <1>5, <1>a, OnFileIs
    <3> QED BY <3>2
  <2>3. CASE a # 0
    <3> DEFINE y == D88Cache!NextTrack(a, at, r)
    <3>1. a < r
      BY <2>1, <1>2, <1>3
    <3>2. /\ y \in (a + 1)..(r) /\ \A w \in Tracks : at[w] > a => y <= at[w]
          /\ y = r \/ \E w \in Tracks : at[w] = y
      BY <3>1, <1>2, NextTrackIs
    <3> HIDE DEF y
    <3>3. PICK x \in Nat : x = y
      BY <3>2
    <3>4. x = D88Cache!NextTrack(at[u], at, D88Cache!End(f))
      BY <3>3, <2>1, <1>3 DEF y
    <3>5. /\ x \in (a + 1)..(r) /\ \A w \in Tracks : at[w] > a => x <= at[w]
          /\ x = r \/ \E w \in Tracks : at[w] = x
      BY <3>2, <3>3
    <3>6. CASE a < p /\ x <= p
      <4>1. bt[u] = a
        BY <2>1, <3>6, <1>4, <1>b
      <4>2. ASSUME NEW w \in Tracks, bt[w] > a PROVE x <= bt[w]
        <5>1. CASE w = t
          BY <5>1, <3>6, <1>f
        <5>2. CASE w # t
          <6>1. PICK b \in Nat : b = at[w]
            BY <1>2
          <6>2. bt[w] = b \/ (bt[w] = b + m /\ p <= b)
            <7>1. w \in Tracks \ {t}
              BY <5>2
            <7>2. bt[w] = IF end <= b THEN b + m ELSE b
              BY <6>1, <7>1, <1>f
            <7>3. end <= b => p <= b
              BY <1>b
            <7>4. end <= b \/ ~(end <= b)
              OBVIOUS
            <7> QED BY <7>2, <7>3, <7>4
          <6>3. b > a
            BY <6>2, <4>2, <3>6
          <6>4. x <= b
            BY <6>1, <6>3, <3>5
          <6> QED BY <6>2, <6>4
        <5> QED BY <5>1, <5>2
      <4>3. \E w \in Tracks : bt[w] = x
        <5>1. CASE x = p
          BY <5>1, <1>f
        <5>2. CASE x # p
          <6>1. x < p /\ x # r /\ x # 0
            BY <5>2, <3>6, <3>5, <1>3, <1>b
          <6>2. PICK w \in Tracks : at[w] = x
            BY <6>1, <3>5
          <6>3. w # t
            BY <6>1, <6>2, <1>b
          <6>4. bt[w] = x
            BY <6>1, <6>2, <6>3, <1>4, <1>b, <1>2
          <6> QED BY <6>4
        <5> QED BY <5>1, <5>2
      <4>4. a < q /\ x \in (a + 1)..(q)
        BY <3>5, <3>6, <1>3, <1>b
      <4>5. D88Cache!NextTrack(a, bt, q) = x
        BY <4>2, <4>3, <4>4, <1>2, NextTrackOnly
      <4>6. /\ D88Cache!NextTrack(bt[u], bt, D88Cache!End(g)) = x + 0
            /\ bt[u] = at[u] + 0 /\ 0 \in Nat /\ at[u] # 0
        <5>1. x + 0 = x /\ a + 0 = a
          BY <3>5
        <5> QED BY <5>1, <4>1, <4>5, <2>1, <2>3, <1>3
      <4>7. ASSUME NEW i \in at[u]..(x - 1) PROVE g[i + 0] = f[i]
        <5>1. i \in 1..(p - 1) /\ i + 0 = i
          BY <2>1, <2>3, <3>6
        <5> QED BY <5>1, <1>e
      <4> QED BY <4>6, <4>7, <3>4, <1>5, <1>a, TrackStays
    <3>7. CASE end <= a
      <4>1. bt[u] = a + m
        BY <2>1, <3>7, <1>4, <1>b
      <4>2. ASSUME NEW w \in Tracks, bt[w] > a + m PROVE x + m <= bt[w]
        <5>1. w # t
          BY <4>2, <3>7, <1>b, <1>f
        <5>2. PICK b \in Nat : b = at[w]
          BY <1>2
        <5>3. (bt[w] = b /\ b < end) \/ bt[w] = b + m
          BY <5>1, <5>2, <1>4
        <5>4. bt[w] = b + m /\ b > a
          BY <5>3, <4>2, <3>7
        <5>5. x <= b
          BY <5>2, <5>4, <3>5
        <5> QED BY <5>4, <5>5
      <4>3. x + m = q \/ \E w \in Tracks : bt[w] = x + m
        <5>1. CASE x = r
          BY <5>1, <1>3
        <5>2. CASE x # r
          <6>1. PICK w \in Tracks : at[w] = x
            BY <5>2, <3>5
          <6>2. w # t /\ end <= x
            BY <6>1, <3>5, <3>7, <1>b
          <6>3. bt[w] = x + m
            BY SMTT(40), <6>1, <6>2, <1>4, <1>b, <1>2
          <6> QED BY <6>3
        <5> QED BY <5>1, <5>2
      <4>4. PICK c \in Nat, z \in Nat : c = a + m /\ z = x + m
        OBVIOUS
      <4>5. c < q /\ z \in (c + 1)..(q)
        BY <3>5, <4>4, <3>1, <1>3
      <4>6. D88Cache!NextTrack(c, bt, q) = z
        <5>1. /\ \A w \in Tracks : bt[w] > c => z <= bt[w]
              /\ z = q \/ \E w \in Tracks : bt[w] = z
          BY <4>2, <4>3, <4>4
        <5> QED BY <5>1, <4>5, <1>2, NextTrackOnly
      <4>7. /\ D88Cache!NextTrack(bt[u], bt, D88Cache!End(g)) = x + m
            /\ bt[u] = at[u] + m /\ at[u] # 0
        BY <4>1, <4>4, <4>6, <2>1, <2>3, <1>3
      <4>8. ASSUME NEW i \in at[u]..(x - 1) PROVE g[i + m] = f[i]
        <5>1. i \in a..(x - 1)
          BY <2>1
        <5>2. i \in end..l
          BY <5>1, <3>5, <3>7, <1>3
        <5>3. i \in end..Len(f)
          BY <5>2, <1>1
        <5> QED BY <5>3, <1>e
      <4> QED BY <4>7, <4>8, <3>4, <1>5, <1>a, TrackStays
    <3>8. (a < p /\ x <= p) \/ end <= a
      BY <2>1, <2>3, <3>4, <1>c
    <3> QED BY <3>6, <3>7, <3>8
  <2> QED BY <2>2, <2>3
<1> QED BY <1>5, <1>6, <1>7 DEF Remade

\* Where endoftrack puts a track: no other lies between p and end.
LEMMA PlaceIs ==
    ASSUME NEW f, NEW at, Laid(f, at), NEW t \in Tracks, NEW p, NEW end,
           p = D88Cache!Place(at, t, D88Cache!End(f)),
           end = IF at[t] = 0 THEN p ELSE D88Cache!NextTrack(p, at, D88Cache!End(f))
    PROVE  /\ p \in Nat /\ end \in Nat /\ 1 <= p /\ p <= end /\ end <= Len(f) + 1
           /\ at[t] \in {0, p}
           /\ \A u \in Tracks \ {t} : at[u] # 0 =>
                 \/ at[u] < p /\ D88Cache!NextTrack(at[u], at, D88Cache!End(f)) <= p
                 \/ end <= at[u]
<1>1. PICK l \in Nat, r \in Nat : l = Len(f) /\ r = l + 1 /\ D88Cache!End(f) = r
  <2>1. PICK l \in Nat : l = Len(f)
    BY DEF Laid
  <2>2. l + 1 \in Nat
    OBVIOUS
  <2> QED BY <2>1, <2>2 DEF D88Cache!End
<1>2. /\ at \in [Tracks -> Nat] /\ \A u \in Tracks : at[u] \in Nat /\ at[u] < r
      /\ \A u, w \in Tracks : at[u] = at[w] /\ at[u] # 0 => u = w
  BY <1>1 DEF Laid
<1> DEFINE next(a) == D88Cache!NextTrack(a, at, r)
           before == {u \in Tracks : u <= t /\ at[u] # 0}
           nearest == CHOOSE u \in before : \A w \in before : w <= u
<1>3. ASSUME NEW a \in Nat, a < r
      PROVE  /\ next(a) \in Nat /\ a < next(a) /\ next(a) <= r
             /\ \A w \in Tracks : at[w] > a => next(a) <= at[w]
  <2>1. next(a) \in (a + 1)..r /\ \A w \in Tracks : at[w] > a => next(a) <= at[w]
    BY <1>2, <1>3, NextTrackIs
  <2> HIDE DEF next
  <2> QED BY <2>1
<1>4. /\ p = CASE at[t] # 0 -> at[t]
               [] at[t] = 0 /\ before # {} -> next(at[nearest])
               [] OTHER -> 1
      /\ end = IF at[t] = 0 THEN p ELSE next(p)
  BY <1>1 DEF D88Cache!Place
<1>5. CASE at[t] # 0
  <2>1. PICK a \in Nat : a = at[t] /\ p = a /\ end = next(a) /\ 1 <= a /\ a < r
    BY <1>2, <1>4, <1>5
  <2>2. end \in Nat /\ a < end /\ end <= r /\ \A w \in Tracks : at[w] > a => end <= at[w]
    BY <2>1, <1>3
  <2>3. ASSUME NEW u \in Tracks \ {t}, at[u] # 0, ~(end <= at[u])
        PROVE  at[u] < a /\ next(at[u]) <= a
    <3>1. PICK b \in Nat : b = at[u] /\ b # a /\ b < r
      BY <2>1, <2>3, <1>2
    <3>2. b < a
      BY <2>2, <2>3, <3>1
    <3>3. next(b) <= a
      BY <3>1, <3>2, <2>1, <1>3
    <3> QED BY <3>1, <3>2, <3>3
  <2> HIDE DEF next
  <2> QED BY <2>1, <2>2, <2>3, <1>1 DEF next
<1>6. CASE at[t] = 0 /\ before = {}
  <2>1. p = 1 /\ end = 1
    BY <1>4, <1>6
  <2>2. ASSUME NEW u \in Tracks, at[u] # 0 PROVE 1 <= at[u]
    BY <2>2, <1>2
  <2> QED BY <2>1, <2>2, <1>1, <1>6
<1>7. CASE at[t] = 0 /\ before # {}
  <2>1. \E u \in before : \A w \in before : w <= u
    <3>1. before \in SUBSET Nat /\ t \in Nat /\ \A w \in before : w <= t
      BY DiskConstants
    <3> HIDE DEF before
    <3> QED BY <3>1, <1>7, GreatestNatural
  <2>2. nearest \in Tracks /\ at[nearest] # 0
    <3>1. nearest \in before
      BY <2>1
    <3> HIDE DEF nearest
    <3> QED BY <3>1
  <2>3. PICK a \in Nat : a = at[nearest] /\ p = next(a) /\ end = p /\ 1 <= a /\ a < r
    <3> HIDE DEF nearest, next
    <3> QED BY <2>2, <1>2, <1>4, <1>7
  <2>4. p \in Nat /\ a < p /\ p <= r /\ \A w \in Tracks : at[w] > a => p <= at[w]
    BY <2>3, <1>3
  <2>5. ASSUME NEW u \in Tracks \ {t}, at[u] # 0, ~(end <= at[u])
        PROVE  at[u] < p /\ next(at[u]) <= p
    <3>1. PICK b \in Nat : b = at[u] /\ b < r
      BY <1>2
    <3>2. b < p /\ b <= a
      BY <2>3, <2>4, <2>5, <3>1
    <3>3. next(b) <= p
      <4>1. CASE b = a
        BY <4>1, <2>3, <2>4
      <4>2. CASE b # a
        <5>1. b < a /\ next(b) \in Nat
          BY <4>2, <3>1, <3>2, <1>3
        <5>2. next(b) <= at[nearest]
          BY <5>1, <3>1, <2>2, <2>3, <1>3
        <5> HIDE DEF next
        <5> QED BY <5>1, <5>2, <2>3, <2>4
      <4> QED BY <4>1, <4>2
    <3> QED BY <3>1, <3>2, <3>3
  <2> HIDE DEF next
  <2> QED BY <2>3, <2>4, <2>5, <1>1, <1>7 DEF next
<1> QED BY <1>5, <1>6, <1>7

\* h is f with room for n cells at p, ct where its tracks are then: what lay
\* from end on, if anything did, is m further on.
Room(f, at, l, p, end, m, n, h, ct) ==
    /\ p + n <= end + m
    /\ h \in Seq(Cells)
    /\ \/ Len(h) = l + m /\ p + n <= l + m + 1
       \/ Len(h) = l /\ p + n = l + m + 1 /\ m > 0
    /\ \A i \in 1..(p - 1) : h[i] = f[i]
    /\ \A i \in end..l : h[i + m] = f[i] /\ p + n <= i + m
    /\ ct \in [Tracks -> Nat]
    /\ \A u \in Tracks : ct[u] = IF end <= at[u] THEN at[u] + m ELSE at[u]

LEMMA RoomIsMade ==
    ASSUME NEW f \in Seq(Cells), NEW at \in [Tracks -> Nat], NEW l \in Nat, l = Len(f),
           \A u \in Tracks : at[u] <= l, NEW n \in Nat \ {0}, NEW p \in Nat, NEW end \in Nat,
           1 <= p, p <= end, end <= l + 1, NEW more, more = n - (end - p)
    PROVE  \E m \in Nat : Room(f, at, l, p, end, m, n,
               IF more > 0 THEN D88Cache!MovedUp(f, end, more) ELSE f,
               IF more > 0 THEN D88Cache!Grown(f, at, end, more) ELSE at)
<1> DEFINE h == IF more > 0 THEN D88Cache!MovedUp(f, end, more) ELSE f
           ct == IF more > 0 THEN D88Cache!Grown(f, at, end, more) ELSE at
<1>1. D88Cache!End(f) = l + 1
  BY DEF D88Cache!End
<1>2. CASE more > 0 /\ end <= l
  <2>1. PICK m \in Nat : m = more /\ p + n = end + m
    BY <1>2
  <2>2. h = D88Cache!MovedUp(f, end, m)
    BY <1>2, <2>1
  <2>3. /\ h \in Seq(Cells) /\ Len(h) = l + m
        /\ \A i \in 1..(end - 1) : h[i] = f[i]
        /\ \A i \in end..l : h[i + m] = f[i]
    <3>1. 1 <= end /\ end <= Len(f)
      BY <1>2
    <3> DEFINE w == D88Cache!MovedUp(f, end, m)
    <3>2. /\ w \in Seq(Cells) /\ Len(w) = Len(f) + m
          /\ \A i \in 1..(end - 1) : w[i] = f[i]
          /\ \A i \in end..Len(f) : w[i + m] = f[i]
      BY ZenonT(60), <3>1, MovedUpIs
    <3>3. h = w
      BY <2>2
    <3> HIDE DEF h, w
    <3> QED BY <3>2, <3>3
  <2>4. ct = [u \in Tracks |-> IF at[u] >= end /\ at[u] # 0 THEN at[u] + m ELSE at[u]]
    <3>1. ~(l + 1 <= end)
      BY <1>2
    <3> QED BY <1>1, <1>2, <2>1, <3>1 DEF D88Cache!Grown, D88Cache!MovedPtr
  <2> HIDE DEF h, ct
  <2>5. \A u \in Tracks : at[u] \in Nat /\ (at[u] >= end /\ at[u] # 0 <=> end <= at[u])
    OBVIOUS
  <2>6. ct \in [Tracks -> Nat]
    BY <2>4, <2>5
  <2>7. \A u \in Tracks : ct[u] = IF end <= at[u] THEN at[u] + m ELSE at[u]
    BY <2>4, <2>5
  <2>8. \A i \in 1..(p - 1) : h[i] = f[i]
    <3>1. \A i \in 1..(p - 1) : i \in 1..(end - 1)
      OBVIOUS
    <3> QED BY <3>1, <2>3
  <2>9. p + n <= end + m /\ p + n <= l + m + 1 /\ \A i \in end..l : p + n <= i + m
    BY <2>1, <1>2
  <2>10. Room(f, at, l, p, end, m, n, h, ct)
    BY <2>3, <2>6, <2>7, <2>8, <2>9 DEF Room
  <2> QED BY <2>10 DEF h, ct
<1>3. CASE more > 0 /\ ~(end <= l)
  <2>1. PICK m \in Nat : m = more /\ p + n = end + m /\ m > 0 /\ end = l + 1
    BY <1>3
  <2>2. h = f /\ ct = at
    BY <1>1, <1>3, <2>1 DEF D88Cache!MovedUp, D88Cache!Grown, D88Cache!MovedPtr
  <2> HIDE DEF h, ct
  <2>3. ct \in [Tracks -> Nat] /\ \A u \in Tracks : ct[u] = IF end <= at[u] THEN at[u] + m ELSE at[u]
    <3>1. \A u \in Tracks : ~(end <= at[u])
      BY <2>1
    <3> QED BY <3>1, <2>2
  <2>4. p + n <= end + m /\ p + n = l + m + 1
    BY <2>1
  <2>5. \A i \in end..l : h[i + m] = f[i] /\ p + n <= i + m
    <3>1. \A i \in end..l : FALSE
      BY <2>1
    <3> QED BY <3>1
  <2>6. h \in Seq(Cells) /\ Len(h) = l /\ \A i \in 1..(p - 1) : h[i] = f[i]
    BY <2>2
  <2>7. Room(f, at, l, p, end, m, n, h, ct)
    BY <2>1, <2>3, <2>4, <2>5, <2>6 DEF Room
  <2> QED BY <2>7 DEF h, ct
<1>4. CASE ~(more > 0)
  <2>1. h = f /\ ct = at
    BY <1>4
  <2> HIDE DEF h, ct
  <2>2. p + n <= end + 0 /\ p + n <= l + 0 + 1 /\ l + 0 = l
    BY <1>4
  <2>3. \A i \in end..l : p + n <= i + 0 /\ h[i + 0] = f[i]
    <3>1. \A i \in end..l : p + n <= i + 0 /\ i + 0 = i
      BY <1>4
    <3> QED BY <3>1, <2>1
  <2>4. ct \in [Tracks -> Nat] /\ \A u \in Tracks : ct[u] = IF end <= at[u] THEN at[u] + 0 ELSE at[u]
    <3>1. \A u \in Tracks : at[u] + 0 = at[u]
      OBVIOUS
    <3> QED BY <3>1, <2>1
  <2>5. h \in Seq(Cells) /\ Len(h) = l /\ \A i \in 1..(p - 1) : h[i] = f[i]
    BY <2>1
  <2>6. Len(h) = l + 0
    BY <2>2, <2>5
  <2>7. Room(f, at, l, p, end, 0, n, h, ct)
    BY <2>2, <2>3, <2>4, <2>5, <2>6 DEF Room
  <2> QED BY <2>7 DEF h, ct
<1> QED BY <1>2, <1>3, <1>4

\* The track written into the room.
Filling(f, at, l, p, end, m, n, h, ct, track, g) ==
    /\ f \in Seq(Cells) /\ l = Len(f) /\ 1 <= p /\ p <= end /\ end <= l + 1
    /\ Room(f, at, l, p, end, m, n, h, ct)
    /\ track \in Seq(Cells) /\ Len(track) = n /\ g = D88Cache!Written(h, p, track)

\* It is in its place, and nothing else is disturbed.
Tight(f, l, p, end, m, n, track, g) ==
    /\ g \in Seq(Cells) /\ Len(g) = l + m
    /\ \A i \in 1..(p - 1) : g[i] = f[i]
    /\ \A i \in 1..n : g[p + i - 1] = track[i]
    /\ \A i \in end..l : g[i + m] = f[i]

LEMMA RoomIsFilled ==
    ASSUME NEW f, NEW at, NEW l \in Nat, NEW n \in Nat \ {0}, NEW p \in Nat, NEW end \in Nat,
           NEW m \in Nat, NEW h, NEW ct, NEW track, NEW g,
           Filling(f, at, l, p, end, m, n, h, ct, track, g)
    PROVE  Tight(f, l, p, end, m, n, track, g)
<1>0. /\ f \in Seq(Cells) /\ l = Len(f) /\ 1 <= p /\ p <= end /\ end <= l + 1
      /\ Room(f, at, l, p, end, m, n, h, ct)
      /\ track \in Seq(Cells) /\ Len(track) = n /\ g = D88Cache!Written(h, p, track)
  BY DEF Filling
<1>1. h \in Seq(Cells) /\ p + n <= end + m
  BY <1>0 DEF Room
<1>2. \A i \in 1..(p - 1) : h[i] = f[i]
  BY <1>0 DEF Room
<1>3. \A i \in end..l : h[i + m] = f[i] /\ p + n <= i + m
  BY <1>0 DEF Room
<1>4. PICK k \in Nat : /\ k = Len(h)
                       /\ \/ k = l + m /\ p + n <= l + m + 1
                          \/ k = l /\ p + n = l + m + 1 /\ m > 0
  <2>1. \/ Len(h) = l + m /\ p + n <= l + m + 1
        \/ Len(h) = l /\ p + n = l + m + 1 /\ m > 0
    BY <1>0 DEF Room
  <2>2. PICK k \in Nat : k = Len(h)
    BY <1>1
  <2> QED BY <2>1, <2>2
<1>5. p <= k + 1 /\ p + n <= l + m + 1 /\ (IF p + n > k + 1 THEN p + n - 1 ELSE k) = l + m
  <2>1. CASE k = l + m /\ p + n <= l + m + 1
    BY <2>1, <1>0
  <2>2. CASE k = l /\ p + n = l + m + 1 /\ m > 0
    <3>1. p <= k + 1 /\ p + n <= l + m + 1
      BY <2>2, <1>0
    <3>2. p + n > k + 1 /\ p + n - 1 = l + m
      BY <2>2
    <3> QED BY <3>1, <3>2
  <2> QED BY <2>1, <2>2, <1>4
<1>6. /\ g \in Seq(Cells) /\ Len(g) = l + m
      /\ \A i \in 1..(l + m) : g[i] = IF p <= i /\ i < p + n THEN track[i - p + 1] ELSE h[i]
  <2> DEFINE w == D88Cache!Written(h, p, track)
  <2>1. p <= Len(h) + 1
    BY <1>4, <1>5
  <2>2. /\ w \in Seq(Cells) /\ Len(w) = IF p + Len(track) > Len(h) + 1 THEN p + Len(track) - 1 ELSE Len(h)
        /\ \A i \in 1..Len(w) : w[i] = IF p <= i /\ i < p + Len(track) THEN track[i - p + 1] ELSE h[i]
    BY ZenonT(60), <1>0, <1>1, <2>1, WrittenIs
  <2>3. g = w
    BY <1>0
  <2> HIDE DEF w
  <2>4. Len(g) = l + m
    BY <2>2, <2>3, <1>0, <1>4, <1>5
  <2>5. \A i \in 1..(l + m) : g[i] = IF p <= i /\ i < p + n THEN track[i - p + 1] ELSE h[i]
    BY <2>2, <2>3, <2>4, <1>0
  <2> QED BY <2>2, <2>3, <2>4, <2>5
<1>7. ASSUME NEW i \in 1..(p - 1) PROVE g[i] = f[i]
  <2>1. i \in 1..(l + m) /\ ~(p <= i)
    BY <1>0, <1>5
  <2> QED BY <2>1, <1>2, <1>6
<1>8. ASSUME NEW i \in 1..n PROVE g[p + i - 1] = track[i]
  <2>1. PICK j \in Nat : j = p + i - 1
    OBVIOUS
  <2>2. j \in 1..(l + m) /\ p <= j /\ j < p + n /\ j - p + 1 = i
    BY <2>1, <1>0, <1>5
  <2>3. g[j] = track[i]
    BY <2>2, <1>6
  <2> QED BY <2>1, <2>3
<1>9. ASSUME NEW i \in end..l PROVE g[i + m] = f[i]
  <2>1. h[i + m] = f[i] /\ p + n <= i + m
    BY <1>3
  <2>2. PICK j \in Nat : j = i + m
    OBVIOUS
  <2>3. j \in 1..(l + m) /\ ~(j < p + n)
    BY <2>1, <2>2, <1>0
  <2>4. g[j] = h[j]
    BY <2>3, <1>6
  <2> QED BY <2>1, <2>2, <2>4
<1> QED BY <1>6, <1>7, <1>8, <1>9 DEF Tight

\* endoftrack makes room and puts the track there.
LEMMA Formats ==
    ASSUME NEW f, NEW at, Laid(f, at), NEW t \in Tracks, NEW n \in Nat \ {0}, NEW track,
           track \in Seq(Cells), Len(track) = n, \A i \in 1..n : track[i].n = n,
           NEW p, NEW end, NEW more, NEW g, NEW bt,
           p = D88Cache!Place(at, t, D88Cache!End(f)),
           end = IF at[t] = 0 THEN p ELSE D88Cache!NextTrack(p, at, D88Cache!End(f)),
           more = n - (end - p),
           g = D88Cache!Written(IF more > 0 THEN D88Cache!MovedUp(f, end, more) ELSE f, p, track),
           bt = [(IF more > 0 THEN D88Cache!Grown(f, at, end, more) ELSE at) EXCEPT ![t] = p]
    PROVE  p \in Nat /\ end \in Nat /\ \E m \in Nat : Relaying(f, at, t, p, end, m, n, track, g, bt)
<1>1. /\ p \in Nat /\ end \in Nat /\ 1 <= p /\ p <= end /\ end <= Len(f) + 1
      /\ at[t] \in {0, p}
  BY PlaceIs
<1>2. \A u \in Tracks \ {t} : at[u] # 0 =>
         \/ at[u] < p /\ D88Cache!NextTrack(at[u], at, D88Cache!End(f)) <= p
         \/ end <= at[u]
  BY PlaceIs
<1>3. /\ f \in Seq(Cells) /\ at \in [Tracks -> Nat]
      /\ \A u \in Tracks : at[u] \in Nat /\ at[u] <= Len(f)
  BY DEF Laid
<1>4. PICK l \in Nat : l = Len(f) /\ end <= l + 1 /\ \A u \in Tracks : at[u] <= l
  BY <1>1, <1>3
<1> DEFINE h == IF more > 0 THEN D88Cache!MovedUp(f, end, more) ELSE f
           ct == IF more > 0 THEN D88Cache!Grown(f, at, end, more) ELSE at
<1>5. PICK m \in Nat : Room(f, at, l, p, end, m, n, h, ct)
  BY ZenonT(60), <1>1, <1>3, <1>4, RoomIsMade
<1>6. g = D88Cache!Written(h, p, track) /\ bt = [ct EXCEPT ![t] = p]
  OBVIOUS
<1> HIDE DEF h, ct
<1>12. f \in Seq(Cells) /\ at \in [Tracks -> Nat] /\ 1 <= p /\ p <= end /\ end <= l + 1
  BY <1>1, <1>3, <1>4
<1>13. PICK w : w = h /\ Room(f, at, l, p, end, m, n, w, ct) /\ g = D88Cache!Written(w, p, track)
  BY <1>5, <1>6
<1>14. PICK q \in Nat, e \in Nat : q = p /\ e = end
  BY <1>1
<1>15. PICK b \in Seq(Cells) : b = track
  OBVIOUS
<1>7. /\ g \in Seq(Cells) /\ Len(g) = l + m
      /\ \A i \in 1..(p - 1) : g[i] = f[i]
      /\ \A i \in 1..n : g[p + i - 1] = track[i]
      /\ \A i \in end..l : g[i + m] = f[i]
  <2>1. Filling(f, at, l, q, e, m, n, w, ct, b, g)
    BY <1>4, <1>12, <1>13, <1>14, <1>15 DEF Filling
  <2>2. Tight(f, l, q, e, m, n, b, g)
    BY <2>1, RoomIsFilled
  <2> QED BY <2>2, <1>14, <1>15 DEF Tight
<1>8. /\ bt \in [Tracks -> Nat] /\ bt[t] = p
      /\ \A u \in Tracks \ {t} : bt[u] = IF end <= at[u] THEN at[u] + m ELSE at[u]
  <2>1. /\ ct \in [Tracks -> Nat]
        /\ \A u \in Tracks : ct[u] = IF end <= at[u] THEN at[u] + m ELSE at[u]
    BY <1>5 DEF Room
  <2> QED BY ZenonT(60), <2>1, <1>1, <1>6
<1>9. p + n <= end + m
  BY <1>5 DEF Room
<1>10. Len(g) = Len(f) + m /\ \A i \in end..Len(f) : g[i + m] = f[i]
  BY <1>4, <1>7
<1>11. Relaying(f, at, t, p, end, m, n, track, g, bt)
  BY <1>1, <1>2, <1>7, <1>8, <1>9, <1>10 DEF Relaying
<1> QED BY <1>1, <1>11

-----------------------------------------------------------------------------
(***************************************************************************)
(* The invariant of the images.  While a track is formatted its sectors    *)
(* are in the cache's buffer, which then belongs to no drive, or to        *)
(* another one, whose track is lent.                                       *)
(***************************************************************************)
FormatType == [on : BOOLEAN, drive : Drives \cup {NoDrive}, sec : Nat, sc : Nat, pos : Nat, v : Nat]

Formatting ==
    /\ format \in FormatType
    /\ format.on =>
         /\ format.drive \in Drives /\ cache.owner # format.drive
         /\ format.sc # 0 /\ (format.sec # 0 => format.pos # 0)
         /\ cache.owner # NoDrive /\ format.pos # 0 => <<cache.owner, cache.track>> \in lent

DiskInv ==
    /\ Image(cache, file, ptr, truth, lent)
    /\ inserted \subseteq Drives /\ cache.owner \in inserted \cup {NoDrive}
    /\ head \in [Drives -> Tracks] /\ changes \in Nat
    /\ Formatting

\* The pair the code works on.
LEMMA BothIs ==
    ASSUME DiskInv
    PROVE  /\ Imaged(D88Cache!Both, ptr, truth, lent)
           /\ D88Cache!Both.cache = cache /\ D88Cache!Both.file = file
BY DEF DiskInv, Imaged, D88Cache!Both

LEMMA DiskBecomes ==
    ASSUME NEW z, D88Cache!Becomes(z), Imaged(z, ptr', truth', lent'), inserted' \subseteq Drives,
           z.cache.owner \in inserted' \cup {NoDrive}, head' \in [Drives -> Tracks],
           changes' \in Nat, Formatting'
    PROVE  DiskInv'
<1>1. cache' = z.cache /\ file' = z.file
  BY DEF D88Cache!Becomes
<1>2. Image(cache', file', ptr', truth', lent')
  BY <1>1 DEF Imaged
<1>3. cache'.owner \in inserted' \cup {NoDrive}
  BY <1>1
<1> QED BY <1>2, <1>3 DEF DiskInv

LEMMA DiskSeek ==
    ASSUME DiskInv, NEW d \in Drives, NEW t \in Tracks, D88Cache!Seek(d, t, TRUE)
    PROVE  DiskInv'
<1> DEFINE z == D88Cache!TrkSeek(D88Cache!Both, d, t, TRUE)
<1>1. d \in inserted /\ ~format.on /\ D88Cache!Becomes(z) /\ head' = [head EXCEPT ![d] = t]
      /\ ptr' = ptr /\ inserted' = inserted /\ format' = format /\ truth' = truth
      /\ lent' = lent /\ changes' = changes
  BY DEF D88Cache!Seek, D88Cache!Ready
<1>2. Imaged(z, ptr, truth, lent) /\ z.cache.owner \in {NoDrive, d}
  BY BothIs, TrkSeekIs
<1> HIDE DEF z
<1>3. head' \in [Drives -> Tracks] /\ Formatting'
  BY <1>1 DEF DiskInv, Formatting
<1> QED BY <1>1, <1>2, <1>3, DiskBecomes DEF DiskInv

LEMMA DiskRead ==
    ASSUME DiskInv, NEW d \in Drives, D88Cache!Read(d, TRUE)
    PROVE  DiskInv'
<1> DEFINE z == D88Cache!TrkSeek(D88Cache!Both, d, head[d], TRUE)
<1>1. d \in inserted /\ ~format.on /\ D88Cache!Becomes(z) /\ head' = head
      /\ ptr' = ptr /\ inserted' = inserted /\ format' = format /\ truth' = truth
      /\ lent' = lent /\ changes' = changes
  BY DEF D88Cache!Read, D88Cache!Ready
<1>2. Imaged(z, ptr, truth, lent) /\ z.cache.owner \in {NoDrive, d}
  <2>1. head[d] \in Tracks
    BY DEF DiskInv
  <2> QED BY <2>1, BothIs, TrkSeekIs
<1> HIDE DEF z
<1>3. head' \in [Drives -> Tracks] /\ Formatting'
  BY <1>1 DEF DiskInv, Formatting
<1> QED BY <1>1, <1>2, <1>3, DiskBecomes DEF DiskInv

\* A sector written in the cache.
LEMMA CellStored ==
    ASSUME NEW x \in Cells, NEW v \in Nat
    PROVE  [x EXCEPT !.v = v] \in Cells /\ [x EXCEPT !.v = v].n = x.n
BY DEF Cells

SetCell(b, r, v) == [b EXCEPT ![r].v = v]

LEMMA ListStored ==
    ASSUME NEW b \in Seq(Cells), NEW r \in Nat \ {0}, r <= Len(D88Cache!Listed(b)), NEW v \in Nat
    PROVE  /\ SetCell(b, r, v) \in Seq(Cells) /\ Len(SetCell(b, r, v)) = Len(b)
           /\ D88Cache!Listed(SetCell(b, r, v)) = SetCell(D88Cache!Listed(b), r, v)
           /\ D88Cache!Listed(SetCell(b, r, v)) \in Seq(Cells)
<1> DEFINE e == SetCell(b, r, v)
<1> DEFINE lb == D88Cache!Listed(b)
           le == D88Cache!Listed(e)
<1>1. /\ lb \in Seq(Cells) /\ Len(lb) <= Len(b) /\ \A i \in 1..Len(lb) : lb[i] = b[i]
      /\ b # <<>> => Len(lb) = IF b[1].n < Len(b) THEN b[1].n ELSE Len(b)
  BY ListedIs
<1> HIDE DEF lb
<1>2. r \in 1..Len(lb) /\ r \in 1..Len(b) /\ 1 \in 1..Len(b) /\ b # <<>>
  BY <1>1 DEF lb
<1>3. /\ e \in Seq(Cells) /\ Len(e) = Len(b)
      /\ \A i \in 1..Len(b) : e[i] = (IF i = r THEN [b[r] EXCEPT !.v = v] ELSE b[i]) /\ e[i].n = b[i].n
  <2>1. b[r] \in Cells
    BY <1>2
  <2>2. PICK x \in Cells : x = [b[r] EXCEPT !.v = v] /\ x.n = b[r].n
    BY <2>1, CellStored
  <2>3. e = [b EXCEPT ![r] = x]
    BY <2>2 DEF SetCell
  <2> HIDE DEF e
  <2>4. e \in Seq(Cells) /\ Len(e) = Len(b) /\ \A i \in 1..Len(b) : e[i] = IF i = r THEN x ELSE b[i]
    BY <2>3, <1>2
  <2>5. \A i \in 1..Len(b) : e[i].n = b[i].n
    BY <2>2, <2>4
  <2> QED BY <2>2, <2>4, <2>5
<1> HIDE DEF e
<1>4. e # <<>> /\ e[1].n = b[1].n
  BY <1>2, <1>3
<1>5. /\ le \in Seq(Cells) /\ \A i \in 1..Len(le) : le[i] = e[i]
      /\ Len(le) = IF e[1].n < Len(e) THEN e[1].n ELSE Len(e)
  BY <1>3, <1>4, ListedIs
<1> HIDE DEF le
<1>6. Len(le) = Len(lb)
  BY <1>1, <1>2, <1>3, <1>4, <1>5
<1> DEFINE new == SetCell(lb, r, v)
<1>7. new \in Seq(Cells) /\ Len(new) = Len(lb)
      /\ \A i \in 1..Len(lb) : new[i] = IF i = r THEN [lb[r] EXCEPT !.v = v] ELSE lb[i]
  <2>1. lb[r] \in Cells
    BY <1>1, <1>2
  <2>2. PICK x \in Cells : x = [lb[r] EXCEPT !.v = v]
    BY <2>1, CellStored
  <2>3. new = [lb EXCEPT ![r] = x]
    BY <2>2 DEF SetCell
  <2> HIDE DEF new
  <2>4. new \in Seq(Cells) /\ Len(new) = Len(lb) /\ \A i \in 1..Len(lb) : new[i] = IF i = r THEN x ELSE lb[i]
    BY <2>3, <1>1, <1>2
  <2> QED BY <2>2, <2>4
<1> HIDE DEF new
<1>8. ASSUME NEW i \in 1..Len(lb) PROVE le[i] = new[i]
  <2>1. i \in 1..Len(b) /\ lb[i] = b[i] /\ lb[r] = b[r]
    BY <1>1, <1>2
  <2>2. le[i] = e[i]
    BY <1>5, <1>6
  <2>3. e[i] = IF i = r THEN [b[r] EXCEPT !.v = v] ELSE b[i]
    BY <2>1, <1>3
  <2>4. new[i] = IF i = r THEN [lb[r] EXCEPT !.v = v] ELSE lb[i]
    BY <1>7
  <2> QED BY <2>1, <2>2, <2>3, <2>4
<1>9. le = new
  BY <1>5, <1>6, <1>7, <1>8, SameCells
<1> QED BY <1>3, <1>5, <1>9 DEF le, lb, new, e

Storing(c, f, at, tr, ln, d, t, r, v, k, new) ==
    /\ Image(c, f, at, tr, ln) /\ D88Cache!Holds(c, d, t) /\ D88Cache!Found(c, r)
    /\ k = D88Cache!Stored(c, r, v)
    /\ new = IF <<d, t>> \in ln THEN tr ELSE [tr EXCEPT ![d][t] = SetCell(@, r, v)]

LEMMA StoredIs ==
    ASSUME NEW c, NEW f, NEW at, NEW tr, NEW ln, NEW d \in Drives, NEW t \in Tracks,
           NEW r \in Nat \ {0}, NEW v \in Nat, NEW k, NEW new,
           Storing(c, f, at, tr, ln, d, t, r, v, k, new)
    PROVE  Image(k, f, at, new, ln) /\ k.owner = d
<1>0. /\ Image(c, f, at, tr, ln) /\ D88Cache!Holds(c, d, t) /\ D88Cache!Found(c, r)
      /\ k = D88Cache!Stored(c, r, v)
      /\ new = IF <<d, t>> \in ln THEN tr ELSE [tr EXCEPT ![d][t] = SetCell(@, r, v)]
  BY DEF Storing
<1>1. /\ c \in CacheType /\ f \in [Drives -> Seq(Cells)] /\ at \in [Drives -> [Tracks -> Nat]]
      /\ tr \in [Drives -> [Tracks -> Seq(Cells)]]
      /\ \A w \in Drives : Laid(f[w], at[w])
      /\ Fits(c, f, at, tr, ln) /\ Stands(c, f, at, tr, ln)
  BY <1>0 DEF Image
<1> DEFINE e == SetCell(c.buf, r, v)
<1>2. /\ c.buf \in Seq(Cells) /\ c.owner = d /\ c.track = t /\ d # NoDrive
      /\ r <= Len(D88Cache!Listed(c.buf)) /\ c.size \in Nat
      /\ at[d][t] # 0 /\ c.fptr = at[d][t] /\ c.size <= Len(c.buf)
      /\ c.fptr + c.size = D88Cache!NextTrack(c.fptr, at[d], D88Cache!End(f[d]))
      /\ <<d, t>> \in ln \/ (c.size = Len(c.buf) /\ D88Cache!Listed(c.buf) = tr[d][t])
  BY <1>0, <1>1, DiskConstants DEF CacheType, D88Cache!Holds, D88Cache!Found, Fits
<1>3. /\ e \in Seq(Cells) /\ Len(e) = Len(c.buf)
      /\ D88Cache!Listed(e) = SetCell(D88Cache!Listed(c.buf), r, v)
      /\ D88Cache!Listed(e) \in Seq(Cells)
  BY <1>2, ListStored
<1>4. k = [c EXCEPT !.buf = e, !.write = TRUE]
  BY <1>0, <1>1 DEF D88Cache!Stored, CacheType, SetCell
<1> HIDE DEF e
<1>6. /\ k \in CacheType /\ k.owner = d /\ k.track = t /\ k.write /\ k.fptr = c.fptr /\ k.buf = e
      /\ k.size = c.size
  BY <1>1, <1>2, <1>3, <1>4 DEF CacheType
<1>7. k.fptr + k.size = D88Cache!NextTrack(k.fptr, at[d], D88Cache!End(f[d])) /\ k.size <= Len(k.buf)
      /\ at[d][t] # 0 /\ k.fptr = at[d][t]
  BY <1>2, <1>3, <1>6
<1>8. CASE <<d, t>> \in ln
  <2>1. new = tr
    BY <1>0, <1>8
  <2>2. Fits(k, f, at, tr, ln)
    BY <1>6, <1>7, <1>8 DEF Fits
  <2>3. Stands(k, f, at, tr, ln)
    <3>1. ASSUME NEW w \in Drives, NEW u \in Tracks, ~(w = d /\ u = t), <<w, u>> \notin ln
          PROVE  D88Cache!OnFile(f[w], at[w], u) = tr[w][u]
      BY <3>1, <1>1, <1>2 DEF Stands
    <3> QED BY <3>1, <1>6 DEF Stands
  <2>4. Image(k, f, at, tr, ln)
    BY <1>1, <1>6, <2>2, <2>3 DEF Image
  <2> QED BY <1>6, <2>1, <2>4
<1>9. CASE <<d, t>> \notin ln
  <2>7. PICK l \in Seq(Cells) : l = D88Cache!Listed(e) /\ l = SetCell(tr[d][t], r, v)
    BY <1>2, <1>3, <1>9
  <2>8. PICK row \in [Tracks -> Seq(Cells)] : row = [tr[d] EXCEPT ![t] = l]
    BY <1>1
  <2>13. new = [tr EXCEPT ![d] = row]
    BY <1>0, <1>1, <1>9, <2>7, <2>8
  <2>14. row[t] = l /\ \A u \in Tracks : u # t => row[u] = tr[d][u]
    BY <1>1, <2>8
  <2>15. /\ new \in [Drives -> [Tracks -> Seq(Cells)]] /\ new[d] = row
         /\ \A w \in Drives : w # d => new[w] = tr[w]
    BY <1>1, <2>13
  <2>9. ASSUME NEW w \in Drives, NEW u \in Tracks, ~(w = d /\ u = t) PROVE new[w][u] = tr[w][u]
    BY <2>9, <2>14, <2>15
  <2>10. Fits(k, f, at, new, ln)
    <3>1. k.size = Len(k.buf) /\ D88Cache!Listed(k.buf) = new[d][t]
      BY <1>2, <1>3, <1>6, <1>9, <2>7, <2>14, <2>15
    <3> QED BY <1>6, <1>7, <3>1 DEF Fits
  <2>11. Stands(k, f, at, new, ln)
    <3>1. ASSUME NEW w \in Drives, NEW u \in Tracks, ~(w = d /\ u = t), <<w, u>> \notin ln
          PROVE  D88Cache!OnFile(f[w], at[w], u) = new[w][u]
      <4>1. D88Cache!OnFile(f[w], at[w], u) = tr[w][u]
        BY <3>1, <1>1, <1>2 DEF Stands
      <4> QED BY <3>1, <4>1, <2>9
    <3> QED BY <3>1, <1>6 DEF Stands
  <2>12. Image(k, f, at, new, ln)
    BY <1>1, <1>6, <2>15, <2>10, <2>11 DEF Image
  <2> QED BY <1>6, <2>12
<1> QED BY <1>8, <1>9

LEMMA DiskWrite ==
    ASSUME DiskInv, NEW d \in Drives, NEW r \in D88Cache!Sectors, D88Cache!Write(d, r, TRUE)
    PROVE  DiskInv'
<1> DEFINE s == D88Cache!TrkSeek(D88Cache!Both, d, head[d], TRUE)
           k == D88Cache!Stored(s.cache, r, changes + 1)
<1>1. /\ d \in inserted /\ ~format.on /\ changes' = changes + 1
      /\ D88Cache!Holds(s.cache, d, head[d]) /\ D88Cache!Found(s.cache, r)
      /\ D88Cache!Becomes([s EXCEPT !.cache = k])
      /\ truth' = IF <<d, head[d]>> \in lent THEN truth
                  ELSE [truth EXCEPT ![d][head[d]][r].v = changes + 1]
      /\ ptr' = ptr /\ inserted' = inserted /\ head' = head /\ format' = format /\ lent' = lent
  BY DEF D88Cache!Write, D88Cache!Ready, D88Cache!Changed
<1>2. head[d] \in Tracks /\ changes + 1 \in Nat /\ r \in Nat \ {0}
  BY DiskConstants DEF DiskInv, D88Cache!Sectors
<1>3. Imaged(s, ptr, truth, lent)
  BY <1>2, BothIs, TrkSeekIs
<1>4. s = [cache |-> s.cache, file |-> s.file] /\ Image(s.cache, s.file, ptr, truth, lent)
  BY <1>3 DEF Imaged
<1> HIDE DEF s
<1>5. Image(k, s.file, ptr, truth', lent) /\ k.owner = d
  <2>1. PICK v \in Nat, t \in Tracks : v = changes + 1 /\ t = head[d]
    BY <1>2
  <2>2. /\ D88Cache!Holds(s.cache, d, t) /\ D88Cache!Found(s.cache, r)
        /\ truth' = IF <<d, t>> \in lent THEN truth ELSE [truth EXCEPT ![d][t] = SetCell(@, r, v)]
        /\ k = D88Cache!Stored(s.cache, r, v)
    BY <2>1, <1>1 DEF SetCell
  <2> HIDE DEF k
  <2>3. PICK c, f, b, new : c = s.cache /\ f = s.file /\ b = k /\ new = truth'
    OBVIOUS
  <2>4. Storing(c, f, ptr, truth, lent, d, t, r, v, b, new)
    BY <2>2, <2>3, <1>4 DEF Storing
  <2>5. Image(b, f, ptr, new, lent) /\ b.owner = d
    BY <2>4, <1>2, StoredIs
  <2> QED BY <2>3, <2>5
<1> HIDE DEF k
<1>6. PICK z : z = [s EXCEPT !.cache = k]
  OBVIOUS
<1>7. z = [cache |-> k, file |-> s.file]
  BY <1>4, <1>6
<1>8. Imaged(z, ptr', truth', lent') /\ z.cache.owner = d
  BY <1>1, <1>5, <1>7 DEF Imaged
<1>9. Formatting'
  BY <1>1 DEF DiskInv, Formatting
<1> QED BY <1>1, <1>2, <1>6, <1>8, <1>9, DiskBecomes DEF DiskInv

\* The drive's cache is flushed for a format, and for an eject.
LEMMA FlushedHere ==
    ASSUME DiskInv, NEW d \in Drives, NEW z, z = D88Cache!DrvFlush(D88Cache!Both, d, TRUE)
    PROVE  /\ Imaged(z, ptr, truth, lent)
           /\ cache.owner = d => z.cache.owner = NoDrive
           /\ cache.owner # d => z.cache = cache
<1>1. PICK y, at, tr, ln : y = D88Cache!Both /\ at = ptr /\ tr = truth /\ ln = lent
  OBVIOUS
<1>2. Imaged(y, at, tr, ln)
  BY <1>1, BothIs
<1>5. y.cache = cache
  BY <1>1, BothIs
<1>3. z = D88Cache!DrvFlush(y, d, TRUE)
  BY <1>1
<1>4. DrvFlushed(y, d, at, tr, ln)
  BY <1>2, DrvFlushIs
<1> QED BY <1>1, <1>3, <1>4, <1>5 DEF OwnerLeft, DrvFlushed

LEMMA DiskFormatInit ==
    ASSUME DiskInv, NEW d \in Drives, NEW sc \in Nat \ {0}, D88Cache!FormatInit(d, sc, TRUE)
    PROVE  DiskInv'
<1> DEFINE z == D88Cache!DrvFlush(D88Cache!Both, d, TRUE)
<1>1. /\ d \in inserted /\ ~format.on /\ changes' = changes + 1 /\ lent' = lent
      /\ format' = [on |-> TRUE, drive |-> d, sec |-> 0, sc |-> sc, pos |-> 0, v |-> changes + 1]
      /\ D88Cache!Becomes(z) /\ ptr' = ptr /\ inserted' = inserted /\ head' = head /\ truth' = truth
  BY DEF D88Cache!FormatInit, D88Cache!Ready, D88Cache!Changed
<1>2. Imaged(z, ptr, truth, lent) /\ z.cache.owner # d
      /\ z.cache.owner \in inserted \cup {NoDrive}
  <2>1. /\ Imaged(z, ptr, truth, lent)
        /\ cache.owner = d => z.cache.owner = NoDrive
        /\ cache.owner # d => z.cache = cache
    BY FlushedHere
  <2> HIDE DEF z
  <2> QED BY <2>1, DiskConstants DEF DiskInv
<1> HIDE DEF z
<1>3. changes' \in Nat /\ changes + 1 \in Nat
  BY <1>1 DEF DiskInv
<1>4. Formatting'
  <2>1. cache'.owner # d
    BY <1>1, <1>2 DEF D88Cache!Becomes
  <2>2. format' \in FormatType
    BY <1>1, <1>3 DEF FormatType
  <2>3. format'.drive = d /\ format'.sc # 0 /\ format'.sec = 0 /\ format'.pos = 0
    BY <1>1
  <2> QED BY <2>1, <2>2, <2>3 DEF Formatting
<1> QED BY <1>1, <1>2, <1>3, <1>4, DiskBecomes DEF DiskInv

LEMMA PutIs ==
    ASSUME NEW b \in Seq(Cells), NEW i \in Nat \ {0}, NEW v \in Nat
    PROVE  D88Cache!Put(b, i, v) \in Seq(Cells) /\ Len(b) <= Len(D88Cache!Put(b, i, v))
<1>1. PICK l \in Nat : l = Len(b)
  OBVIOUS
<1> DEFINE size == IF i > l THEN i ELSE l
           cell(j) == IF j = i THEN D88Cache!Cell(0, v)
                      ELSE IF j <= l THEN b[j] ELSE D88Cache!Cell(0, 0)
<1>2. D88Cache!Put(b, i, v) = [j \in 1..size |-> cell(j)]
  BY <1>1 DEF D88Cache!Put
<1>3. size \in Nat /\ l <= size
  OBVIOUS
<1>4. ASSUME NEW j \in 1..size PROVE cell(j) \in Cells
  <2>1. D88Cache!Cell(0, v) \in Cells /\ D88Cache!Cell(0, 0) \in Cells
    BY DEF D88Cache!Cell, Cells
  <2>2. j <= l => b[j] \in Cells
    BY <1>1, <1>3
  <2> QED BY <2>1, <2>2
<1> HIDE DEF size, cell
<1>5. [j \in 1..size |-> cell(j)] \in Seq(Cells) /\ Len([j \in 1..size |-> cell(j)]) = size
  BY <1>3, <1>4
<1> QED BY <1>1, <1>2, <1>3, <1>5

LEMMA DiskFormatSector ==
    ASSUME DiskInv, D88Cache!FormatSector
    PROVE  DiskInv'
<1> DEFINE fits == format.pos < TrackMax
<1>1. /\ format.on /\ format.sec < format.sc
      /\ format' = [format EXCEPT !.sec = @ + 1, !.pos = IF fits THEN @ + 1 ELSE @]
      /\ cache' = IF fits THEN [cache EXCEPT !.buf = D88Cache!Put(@, format.pos + 1, format.v)] ELSE cache
      /\ file' = file /\ ptr' = ptr /\ inserted' = inserted /\ head' = head /\ truth' = truth
      /\ changes' = changes
      /\ lent' = IF fits THEN lent \cup D88Cache!Overbuilt ELSE lent
  BY DEF D88Cache!FormatSector
<1>2. /\ (cache.owner # NoDrive /\ format.pos # 0 => <<cache.owner, cache.track>> \in lent)
      /\ format \in FormatType /\ format.drive \in Drives /\ cache.owner # format.drive
      /\ format.sc # 0 /\ Image(cache, file, ptr, truth, lent)
  BY <1>1 DEF DiskInv, Formatting
<1>3. cache \in CacheType
  BY <1>2 DEF Image
<1>4. /\ format' \in FormatType /\ format'.drive = format.drive /\ format'.sc = format.sc
      /\ format'.pos # 0
  <2>1. format'.pos = IF fits THEN format.pos + 1 ELSE format.pos
    BY <1>1, <1>2 DEF FormatType
  <2>2. format.pos \in Nat /\ TrackMax \in Nat /\ 2 <= TrackMax
    BY <1>2, DiskConstants DEF FormatType
  <2>3. format'.pos \in Nat /\ format'.pos # 0
    BY <2>1, <2>2
  <2>4. format' = [format EXCEPT !.sec = format.sec + 1, !.pos = format'.pos]
    BY <1>1, <1>2, <2>1 DEF FormatType
  <2> HIDE DEF fits
  <2>5. PICK q \in Nat : q = format'.pos /\ q # 0
    BY <2>3
  <2>6. format.sec + 1 \in Nat
    BY <1>2 DEF FormatType
  <2>7. PICK m \in Nat : m = format.sec + 1
    BY <2>6
  <2>8. format' = [format EXCEPT !.sec = m, !.pos = q]
    BY <2>4, <2>5, <2>7
  <2>9. format' \in FormatType /\ format'.drive = format.drive /\ format'.sc = format.sc
    BY <1>2, <2>8 DEF FormatType
  <2> QED BY <2>3, <2>9
<1>5. /\ lent \subseteq lent'
      /\ cache.owner = NoDrive \/ <<cache.owner, cache.track>> \in lent'
  <2>1. CASE fits
    BY <1>1, <2>1 DEF D88Cache!Overbuilt
  <2>2. CASE ~fits
    <3>1. format.pos # 0
      BY <1>2, <2>2, DiskConstants DEF FormatType
    <3> QED BY <1>1, <1>2, <2>2, <3>1
  <2> QED BY <2>1, <2>2
<1>6. \E new \in Seq(Cells) : Len(cache.buf) <= Len(new) /\ cache' = [cache EXCEPT !.buf = new]
  <2>1. cache.buf \in Seq(Cells) /\ format.pos + 1 \in Nat \ {0} /\ format.v \in Nat
    BY <1>2, <1>3 DEF CacheType, FormatType
  <2>2. CASE fits
    <3>1. PICK p \in Seq(Cells) : /\ p = D88Cache!Put(cache.buf, format.pos + 1, format.v)
                                  /\ Len(cache.buf) <= Len(p)
      BY <2>1, PutIs
    <3>2. cache' = [cache EXCEPT !.buf = p]
      BY <1>1, <2>2, <3>1
    <3> QED BY <3>1, <3>2
  <2>3. CASE ~fits
    <3>1. cache' = [cache EXCEPT !.buf = cache.buf]
      BY <1>1, <1>3, <2>3 DEF CacheType
    <3>2. Len(cache.buf) <= Len(cache.buf)
      <4>1. Len(cache.buf) \in Nat
        BY <2>1
      <4> QED BY <4>1
    <3> QED BY <2>1, <3>1, <3>2
  <2> QED BY <2>2, <2>3
<1> HIDE DEF fits
<1>7. Image(cache', file, ptr, truth, lent') /\ cache'.owner = cache.owner /\ cache'.track = cache.track
  <2>1. PICK new \in Seq(Cells) : Len(cache.buf) <= Len(new) /\ cache' = [cache EXCEPT !.buf = new]
    BY <1>6
  <2>2. PICK c, b, lm : c = cache /\ b = cache' /\ lm = lent'
    OBVIOUS
  <2>3. Overlaying(c, file, ptr, truth, lent, lm, new, b)
    BY <1>2, <1>5, <2>1, <2>2 DEF Overlaying
  <2>4. Image(b, file, ptr, truth, lm) /\ b.owner = c.owner /\ b.track = c.track
    BY <2>3, Overlaid
  <2> QED BY <2>2, <2>4
<1>8. Image(cache', file', ptr', truth', lent')
  BY <1>1, <1>7
<1>9. Formatting'
  <2>1. cache'.owner = NoDrive \/ <<cache'.owner, cache'.track>> \in lent'
    BY <1>5, <1>7
  <2> QED BY <1>2, <1>4, <1>7, <2>1 DEF Formatting
<1> QED BY <1>1, <1>7, <1>8, <1>9 DEF DiskInv

LEMMA EndTrackIs ==
    ASSUME NEW f, NEW at, Laid(f, at), NEW t \in Tracks, NEW n \in Nat \ {0}, NEW track,
           track \in Seq(Cells), Len(track) = n, \A i \in 1..n : track[i].n = n,
           NEW p, NEW end, NEW more, NEW g, NEW bt,
           p = D88Cache!Place(at, t, D88Cache!End(f)),
           end = IF at[t] = 0 THEN p ELSE D88Cache!NextTrack(p, at, D88Cache!End(f)),
           more = n - (end - p),
           g = D88Cache!Written(IF more > 0 THEN D88Cache!MovedUp(f, end, more) ELSE f, p, track),
           bt = [(IF more > 0 THEN D88Cache!Grown(f, at, end, more) ELSE at) EXCEPT ![t] = p]
    PROVE  Remade(f, at, t, track, g, bt)
<1>1. PICK m \in Nat : /\ p \in Nat /\ end \in Nat
                       /\ Relaying(f, at, t, p, end, m, n, track, g, bt)
  BY Formats
<1>2. PICK q \in Nat, e \in Nat : q = p /\ e = end
  BY <1>1
<1>3. Relaying(f, at, t, q, e, m, n, track, g, bt)
  BY <1>1, <1>2
<1> QED BY <1>3, Relaid

LEMMA DiskEndOfTrack ==
    ASSUME DiskInv, D88Cache!EndOfTrack
    PROVE  DiskInv'
<1> DEFINE d == format.drive
           t == head[d]
           n == format.pos
           track == D88Cache!BuiltTrack
           last == D88Cache!End(file[d])
           p == D88Cache!Place(ptr[d], t, last)
           end == IF ptr[d][t] = 0 THEN p ELSE D88Cache!NextTrack(p, ptr[d], last)
           more == n - (end - p)
           g == D88Cache!Written(IF more > 0 THEN D88Cache!MovedUp(file[d], end, more) ELSE file[d], p, track)
           bt == [(IF more > 0 THEN D88Cache!Grown(file[d], ptr[d], end, more) ELSE ptr[d]) EXCEPT ![t] = p]
<1>1. /\ format.on /\ format.sec = format.sc /\ format' = D88Cache!NoFormat
      /\ inserted' = inserted /\ head' = head /\ changes' = changes
  BY ZenonT(60) DEF D88Cache!EndOfTrack
<1>2. /\ cache' = [cache EXCEPT !.buf = track \o SubSeq(@, n + 1, Len(@))]
      /\ d \notin inserted => file' = file /\ ptr' = ptr /\ truth' = truth /\ lent' = lent
      /\ d \in inserted =>
           /\ file' = [file EXCEPT ![d] = g] /\ ptr' = [ptr EXCEPT ![d] = bt]
           /\ truth' = [truth EXCEPT ![d][t] = track]
           /\ lent' = lent \ {<<d, t>>}
  BY DEF D88Cache!EndOfTrack
<1> HIDE DEF g, bt
<1>3. /\ format \in FormatType /\ d \in Drives /\ cache.owner # d /\ n \in Nat \ {0}
      /\ (cache.owner # NoDrive => <<cache.owner, cache.track>> \in lent)
      /\ format.v \in Nat /\ Image(cache, file, ptr, truth, lent) /\ t \in Tracks
  BY <1>1 DEF DiskInv, Formatting, FormatType
<1>4. /\ cache \in CacheType /\ file \in [Drives -> Seq(Cells)] /\ ptr \in [Drives -> [Tracks -> Nat]]
      /\ truth \in [Drives -> [Tracks -> Seq(Cells)]]
      /\ \A w \in Drives : Laid(file[w], ptr[w])
  BY <1>3 DEF Image
<1>5. Formatting'
  <2>1. D88Cache!NoFormat \in FormatType /\ ~D88Cache!NoFormat.on
    BY DEF D88Cache!NoFormat, FormatType
  <2> QED BY <2>1, <1>1 DEF Formatting
<1>a. track \in Seq(Cells) /\ Len(track) = n /\ \A i \in 1..n : track[i].n = n
  <2>1. PICK k \in Nat, v \in Nat : k = n /\ v = format.v
    BY <1>3
  <2>2. D88Cache!Cell(k, v) \in Cells /\ D88Cache!Cell(k, v).n = k
    BY DEF D88Cache!Cell, Cells
  <2>3. PICK x \in Cells : x = D88Cache!Cell(n, format.v) /\ x.n = n
    BY <2>1, <2>2
  <2>4. track = [i \in 1..n |-> x]
    BY <2>3 DEF D88Cache!BuiltTrack
  <2> HIDE DEF track
  <2> QED BY <2>3, <2>4, <1>3
<1> HIDE DEF track
\* What is in the cache is built over.
<1>b. \E new \in Seq(Cells) : Len(cache.buf) <= Len(new) /\ cache' = [cache EXCEPT !.buf = new]
  <2>1. PICK s \in Seq(Cells), k \in Nat \ {0} : s = cache.buf /\ k = n
    BY <1>3, <1>4 DEF CacheType
  <2>2. SubSeq(s, k + 1, Len(s)) \in Seq(Cells) /\ Len(s) <= k + Len(SubSeq(s, k + 1, Len(s)))
    <3>1. CASE k >= Len(s)
      BY <3>1
    <3>2. CASE k < Len(s)
      <4>1. PICK a \in Nat, e \in Nat : a = k + 1 /\ e = Len(s) + 1
        OBVIOUS
      <4>2. 1 <= a /\ a <= e /\ e <= Len(s) + 1 /\ e - 1 = Len(s) /\ e - a = Len(s) - k
        BY <3>2, <4>1
      <4>3. Stretch(s, a, e) \in Seq(Cells) /\ Len(Stretch(s, a, e)) = e - a
        BY <4>2, StretchIs
      <4>4. Stretch(s, a, e) = SubSeq(s, k + 1, Len(s))
        BY <4>1, <4>2 DEF Stretch
      <4> QED BY <4>2, <4>3, <4>4
    <3> QED BY <3>1, <3>2
  <2>3. PICK r \in Seq(Cells) : r = SubSeq(s, k + 1, Len(s)) /\ Len(s) <= k + Len(r)
    BY <2>2
  <2>4. PICK b \in Seq(Cells) : b = track \o r /\ Len(b) = k + Len(r)
    <3>1. PICK q \in Seq(Cells) : q = track /\ Len(q) = k
      BY <1>a, <2>1
    <3>2. q \o r \in Seq(Cells) /\ Len(q \o r) = k + Len(r)
      BY <3>1
    <3> QED BY <3>1, <3>2
  <2>5. Len(b) = k + Len(r)
    BY <2>4
  <2>6. cache' = [cache EXCEPT !.buf = b]
    BY <1>2, <2>1, <2>3, <2>4
  <2> QED BY <2>1, <2>3, <2>5, <2>6
<1>c. Image(cache', file, ptr, truth, lent) /\ cache'.owner = cache.owner /\ cache'.track = cache.track
  <2>1. PICK new \in Seq(Cells) : Len(cache.buf) <= Len(new) /\ cache' = [cache EXCEPT !.buf = new]
    BY <1>b
  <2>2. PICK c, b : c = cache /\ b = cache'
    OBVIOUS
  <2>3. Overlaying(c, file, ptr, truth, lent, lent, new, b)
    BY <1>3, <2>1, <2>2 DEF Overlaying
  <2>4. Image(b, file, ptr, truth, lent) /\ b.owner = c.owner /\ b.track = c.track
    BY <2>3, Overlaid
  <2> QED BY <2>2, <2>4
<1>6. CASE d \notin inserted
  <2>1. Image(cache', file', ptr', truth', lent')
    BY <1>2, <1>6, <1>c
  <2> QED BY <2>1, <1>1, <1>5, <1>c DEF DiskInv
<1>7. CASE d \in inserted
  <2>2. /\ Laid(g, bt) /\ D88Cache!OnFile(g, bt, t) = track
        /\ \A u \in Tracks \ {t} : D88Cache!OnFile(g, bt, u) = D88Cache!OnFile(file[d], ptr[d], u)
    <3>1. PICK f, at, s : f = file[d] /\ at = ptr[d] /\ s = track
      OBVIOUS
    <3>2. PICK q, e, k : /\ q = D88Cache!Place(at, t, D88Cache!End(f))
                         /\ e = IF at[t] = 0 THEN q ELSE D88Cache!NextTrack(q, at, D88Cache!End(f))
                         /\ k = n - (e - q)
      OBVIOUS
    <3>3. q = p /\ e = end /\ k = more
      BY <3>1, <3>2
    <3>4. /\ g = D88Cache!Written(IF k > 0 THEN D88Cache!MovedUp(f, e, k) ELSE f, q, s)
          /\ bt = [(IF k > 0 THEN D88Cache!Grown(f, at, e, k) ELSE at) EXCEPT ![t] = q]
      BY <3>1, <3>3 DEF g, bt
    <3>5. Laid(f, at) /\ s \in Seq(Cells) /\ Len(s) = n /\ \A i \in 1..n : s[i].n = n
      BY <3>1, <1>a, <1>3, <1>4
    <3>6. PICK u \in Tracks, m \in Nat \ {0} : u = t /\ m = n
      BY <1>3
    <3>7. /\ q = D88Cache!Place(at, u, D88Cache!End(f))
          /\ e = IF at[u] = 0 THEN q ELSE D88Cache!NextTrack(q, at, D88Cache!End(f))
          /\ k = m - (e - q)
          /\ bt = [(IF k > 0 THEN D88Cache!Grown(f, at, e, k) ELSE at) EXCEPT ![u] = q]
          /\ Len(s) = m /\ \A i \in 1..m : s[i].n = m
      BY <3>2, <3>4, <3>5, <3>6
    <3>8. Remade(f, at, u, s, g, bt)
      BY <3>4, <3>5, <3>7, EndTrackIs
    <3> QED BY <3>1, <3>6, <3>8 DEF Remade
  <2> HIDE DEF d, t, n
  <2>3. /\ file' \in [Drives -> Seq(Cells)] /\ ptr' \in [Drives -> [Tracks -> Nat]]
        /\ \A w \in Drives : file'[w] = IF w = d THEN g ELSE file[w]
        /\ \A w \in Drives : ptr'[w] = IF w = d THEN bt ELSE ptr[w]
    <3>1. g \in Seq(Cells) /\ bt \in [Tracks -> Nat]
      BY <2>2 DEF Laid
    <3> QED BY ZenonT(60), <3>1, <1>2, <1>3, <1>4, <1>7
  <2>4. /\ truth' \in [Drives -> [Tracks -> Seq(Cells)]] /\ truth'[d][t] = track
        /\ \A w \in Drives, u \in Tracks : w # d \/ u # t => truth'[w][u] = truth[w][u]
    <3>1. PICK row \in [Tracks -> Seq(Cells)] : row = [truth[d] EXCEPT ![t] = track]
      BY <1>a, <1>3, <1>4
    <3>2. truth' = [truth EXCEPT ![d] = row]
      BY <1>2, <1>7, <3>1
    <3>3. row[t] = track /\ \A u \in Tracks : u # t => row[u] = truth[d][u]
      BY <3>1, <1>3, <1>4
    <3>4. truth' \in [Drives -> [Tracks -> Seq(Cells)]] /\ truth'[d] = row
          /\ \A w \in Drives : w # d => truth'[w] = truth[w]
      BY <3>2, <1>3, <1>4
    <3> QED BY <3>3, <3>4
  <2>5. \A w \in Drives : Laid(file'[w], ptr'[w])
    BY <2>2, <2>3, <1>4
  <2>6. /\ cache' \in CacheType
        /\ Fits(cache', file, ptr, truth, lent) /\ Stands(cache', file, ptr, truth, lent)
    BY <1>c DEF Image
  <2>7. PICK k \in CacheType : k = cache' /\ k.owner # d /\ d # NoDrive
    BY <2>6, <1>3, <1>c, DiskConstants
  <2>8. \A w \in Drives, u \in Tracks : w # d \/ u # t => (<<w, u>> \in lent' <=> <<w, u>> \in lent)
    BY <1>2, <1>7
  <2>9. ASSUME NEW w \in Drives, NEW u \in Tracks, ~(w = k.owner /\ u = k.track /\ k.write),
               <<w, u>> \notin lent'
        PROVE  D88Cache!OnFile(file'[w], ptr'[w], u) = truth'[w][u]
    <3>1. CASE w # d
      <4>1. file'[w] = file[w] /\ ptr'[w] = ptr[w] /\ truth'[w][u] = truth[w][u]
            /\ <<w, u>> \notin lent
        BY <3>1, <2>3, <2>4, <2>8, <2>9
      <4> QED BY <4>1, <2>6, <2>7, <2>9 DEF Stands
    <3>2. CASE w = d /\ u = t
      <4>1. file'[w] = g /\ ptr'[w] = bt /\ truth'[w][u] = track
        BY <3>2, <2>3, <2>4
      <4> QED BY <4>1, <3>2, <2>2
    <3>3. CASE w = d /\ u # t
      <4>1. file'[w] = g /\ ptr'[w] = bt /\ truth'[w][u] = truth[d][u]
            /\ <<d, u>> \notin lent
        BY <3>3, <2>3, <2>4, <2>8, <2>9
      <4>2. D88Cache!OnFile(g, bt, u) = D88Cache!OnFile(file[d], ptr[d], u)
        BY <3>3, <2>2
      <4>3. D88Cache!OnFile(file[d], ptr[d], u) = truth[d][u]
        BY <4>1, <2>6, <2>7, <1>3 DEF Stands
      <4> QED BY <4>1, <4>2, <4>3
    <3> QED BY <3>1, <3>2, <3>3
  <2>10. Stands(cache', file', ptr', truth', lent')
    BY <2>7, <2>9 DEF Stands
  <2>11. Fits(cache', file', ptr', truth', lent')
    <3>1. CASE k.owner = NoDrive
      BY <3>1, <2>7 DEF Fits
    <3>2. CASE k.owner # NoDrive
      <4>1. PICK w \in Drives, u \in Tracks : w = k.owner /\ u = k.track
        BY <3>2 DEF CacheType
      <4>2. file'[w] = file[w] /\ ptr'[w] = ptr[w] /\ <<w, u>> \in lent'
        <5>1. w # d /\ <<w, u>> \in lent
          BY <4>1, <2>7, <1>3, <1>c, <3>2
        <5> QED BY <5>1, <2>3, <2>8
      <4>3. /\ ptr[w][u] # 0 /\ k.fptr = ptr[w][u] /\ k.size <= Len(k.buf)
            /\ k.fptr + k.size = D88Cache!NextTrack(k.fptr, ptr[w], D88Cache!End(file[w]))
        BY <2>6, <2>7, <3>2, <4>1 DEF Fits
      <4> QED BY <2>7, <4>1, <4>2, <4>3 DEF Fits
    <3> QED BY <3>1, <3>2
  <2>12. Image(cache', file', ptr', truth', lent')
    BY <2>3, <2>4, <2>5, <2>6, <2>10, <2>11 DEF Image
  <2> QED BY <2>12, <1>1, <1>5, <1>c DEF DiskInv
<1> QED BY SMTT(40), <1>6, <1>7

LEMMA DiskFlush ==
    ASSUME DiskInv, D88Cache!Flush(TRUE)
    PROVE  DiskInv'
<1> DEFINE z == D88Cache!Flushed(D88Cache!Both, TRUE)
<1>1. /\ D88Cache!Becomes(z) /\ ptr' = ptr /\ inserted' = inserted /\ head' = head
      /\ format' = format /\ truth' = truth /\ lent' = lent /\ changes' = changes
  BY DEF D88Cache!Flush
<1>2. Imaged(z, ptr, truth, lent) /\ z.cache.owner = NoDrive
  BY BothIs, FlushedIs
<1> HIDE DEF z
<1>3. cache'.owner = NoDrive
  BY <1>1, <1>2 DEF D88Cache!Becomes
<1>4. Formatting'
  BY <1>1, <1>3, DiskConstants DEF DiskInv, Formatting
<1> QED BY <1>1, <1>2, <1>4, DiskBecomes DEF DiskInv

LEMMA DiskEject ==
    ASSUME DiskInv, NEW d \in Drives, D88Cache!Eject(d, TRUE)
    PROVE  DiskInv'
<1> DEFINE z == D88Cache!DrvFlush(D88Cache!Both, d, TRUE)
<1>1. /\ D88Cache!Becomes(z) /\ ptr' = ptr /\ inserted' = inserted \ {d} /\ head' = head
      /\ format' = format /\ truth' = truth /\ lent' = lent /\ changes' = changes + 1
  BY DEF D88Cache!Eject, D88Cache!Changed
<1>2. /\ Imaged(z, ptr, truth, lent)
      /\ cache.owner = d => z.cache.owner = NoDrive
      /\ cache.owner # d => z.cache = cache
  BY FlushedHere
<1> HIDE DEF z
<1>4. z.cache.owner \in inserted' \cup {NoDrive} /\ inserted' \subseteq Drives
  <2>1. cache.owner \in inserted \cup {NoDrive} /\ inserted \subseteq Drives
    BY DEF DiskInv
  <2> QED BY <2>1, <1>1, <1>2
<1>5. Formatting'
  <2>1. cache' = z.cache
    BY <1>1 DEF D88Cache!Becomes
  <2>2. cache'.owner = NoDrive \/ cache' = cache
    BY <2>1, <1>2
  <2>3. format' = format /\ lent' = lent
    BY <1>1
  <2>4. format.drive # NoDrive \/ ~format.on
    BY DiskConstants DEF DiskInv, Formatting
  <2> QED BY <2>2, <2>3, <2>4 DEF DiskInv, Formatting
<1>6. changes' \in Nat
  BY <1>1 DEF DiskInv
<1> QED BY <1>1, <1>2, <1>4, <1>5, <1>6, DiskBecomes DEF DiskInv

LEMMA DiskInsert ==
    ASSUME DiskInv, NEW d \in Drives, D88Cache!Insert(d)
    PROVE  DiskInv'
<1>1. /\ inserted' = inserted \cup {d} /\ file' = file /\ ptr' = ptr /\ head' = head
      /\ cache' = cache /\ format' = format /\ truth' = truth /\ lent' = lent /\ changes' = changes
  BY DEF D88Cache!Insert
<1>2. Image(cache', file', ptr', truth', lent')
  BY <1>1 DEF DiskInv
<1>3. Formatting'
  BY <1>1 DEF DiskInv, Formatting
<1> QED BY <1>1, <1>2, <1>3 DEF DiskInv

LEMMA DiskStutters ==
    ASSUME DiskInv, UNCHANGED <<ptr, diskOnly>>
    PROVE  DiskInv'
<1>1. /\ inserted' = inserted /\ file' = file /\ ptr' = ptr /\ head' = head
      /\ cache' = cache /\ format' = format /\ truth' = truth /\ lent' = lent /\ changes' = changes
  BY DEF diskOnly
<1>2. Image(cache', file', ptr', truth', lent')
  BY <1>1 DEF DiskInv
<1>3. Formatting'
  BY <1>1 DEF DiskInv, Formatting
<1> QED BY <1>1, <1>2, <1>3 DEF DiskInv

\* Every step of the commands and of the host.
LEMMA DiskSteps ==
    ASSUME DiskInv, D88Cache!Next
    PROVE  DiskInv'
<1>1. CASE \E d \in Drives, t \in Tracks : D88Cache!Seek(d, t, TRUE)
  BY <1>1, DiskSeek
<1>2. CASE \E d \in Drives : D88Cache!Read(d, TRUE)
  BY <1>2, DiskRead
<1>3. CASE \E d \in Drives, r \in D88Cache!Sectors : D88Cache!Write(d, r, TRUE)
  BY <1>3, DiskWrite
<1>4. CASE \E d \in Drives, sc \in 1..(TrackMax + 1) : D88Cache!FormatInit(d, sc, TRUE)
  <2>1. PICK d \in Drives, sc \in 1..(TrackMax + 1) : D88Cache!FormatInit(d, sc, TRUE)
    BY <1>4
  <2>2. sc \in Nat \ {0}
    BY DiskConstants
  <2> QED BY <2>1, <2>2, DiskFormatInit
<1>5. CASE \E d \in Drives : D88Cache!Eject(d, TRUE)
  BY <1>5, DiskEject
<1>6. CASE D88Cache!Flush(TRUE)
  BY <1>6, DiskFlush
<1>7. CASE D88Cache!FormatSector
  BY <1>7, DiskFormatSector
<1>8. CASE D88Cache!EndOfTrack
  BY <1>8, DiskEndOfTrack
<1>9. CASE \E d \in Drives : D88Cache!Insert(d)
  BY <1>9, DiskInsert
<1> QED BY <1>1, <1>2, <1>3, <1>4, <1>5, <1>6, <1>7, <1>8, <1>9 DEF D88Cache!Next

-----------------------------------------------------------------------------
(***************************************************************************)
(* The images as they come.                                                *)
(***************************************************************************)
LEMMA OriginalIs ==
    ASSUME NEW d \in Drives, NEW t \in Tracks
    PROVE  /\ D88Cache!Original(d, t) \in Seq(Cells) /\ Len(D88Cache!Original(d, t)) = 2
           /\ \A i \in 1..2 : D88Cache!Original(d, t)[i].n = 2
<1>1. d \in Nat /\ t \in Nat
  BY DiskConstants
<1>2. PICK a \in Nat, b \in Nat : a = 100 * (d + 1) + 10 * t + 1 /\ b = 100 * (d + 1) + 10 * t + 2
  BY <1>1
<1>3. D88Cache!Original(d, t) = <<D88Cache!Cell(2, a), D88Cache!Cell(2, b)>>
  BY <1>2 DEF D88Cache!Original
<1>4. /\ D88Cache!Cell(2, a) \in Cells /\ D88Cache!Cell(2, b) \in Cells
      /\ D88Cache!Cell(2, a).n = 2 /\ D88Cache!Cell(2, b).n = 2
  BY DEF D88Cache!Cell, Cells
<1>5. PICK x \in Cells, y \in Cells : x = D88Cache!Cell(2, a) /\ y = D88Cache!Cell(2, b)
  BY <1>4
<1>6. <<x, y>> \in Seq(Cells) /\ Len(<<x, y>>) = 2 /\ \A i \in 1..2 : <<x, y>>[i] \in {x, y}
  OBVIOUS
<1>7. x.n = 2 /\ y.n = 2
  BY <1>4, <1>5
<1> QED BY <1>3, <1>5, <1>6, <1>7

\* Where tracks are at first, and their cells.
Places == [t \in Tracks |-> IF \E i \in DOMAIN Present : Present[i] = t
                            THEN 2 * (CHOOSE i \in DOMAIN Present : Present[i] = t) - 1 ELSE 0]
CellAt(d, i) == D88Cache!Original(d, Present[(i + 1) \div 2])[2 - (i % 2)]

LEMMA PlacesAre ==
    ASSUME NEW l \in Nat, l = Len(Present)
    PROVE  /\ Places \in [Tracks -> Nat]
           /\ \A t \in Tracks : Places[t] # 0 =>
                 \E i \in 1..l : Present[i] = t /\ Places[t] = 2 * i - 1
<1>1. Present \in Seq(Tracks) /\ DOMAIN Present = 1..l
  BY DiskAssumption
<1>2. ASSUME NEW t \in Tracks
      PROVE  /\ Places[t] \in Nat
             /\ Places[t] # 0 => \E i \in 1..l : Present[i] = t /\ Places[t] = 2 * i - 1
  <2>1. CASE \E i \in 1..l : Present[i] = t
    <3>1. PICK i \in 1..l : i = CHOOSE j \in 1..l : Present[j] = t
      BY <2>1
    <3>2. Present[i] = t
      BY <2>1, <3>1
    <3>3. Places[t] = 2 * i - 1
      BY <1>1, <2>1, <3>1 DEF Places
    <3>4. 2 * i - 1 \in Nat
      OBVIOUS
    <3> QED BY <3>2, <3>3, <3>4
  <2>2. CASE ~\E i \in 1..l : Present[i] = t
    <3>1. Places[t] = 0
      BY <1>1, <2>2 DEF Places
    <3> QED BY <3>1
  <2> QED BY <2>1, <2>2
<1>3. Places = [t \in Tracks |-> Places[t]]
  BY DEF Places
<1> QED BY <1>2, <1>3

LEMMA CellsAre ==
    ASSUME NEW l \in Nat, l = Len(Present), NEW d \in Drives, NEW i \in 1..l
    PROVE  /\ Present[i] \in Tracks
           /\ CellAt(d, 2 * i - 1) = D88Cache!Original(d, Present[i])[1]
           /\ CellAt(d, 2 * i) = D88Cache!Original(d, Present[i])[2]
<1>1. Present[i] \in Tracks
  BY DiskAssumption
<1>2. ((2 * i - 1) + 1) \div 2 = i /\ (2 * i - 1) % 2 = 1 /\ (2 * i + 1) \div 2 = i /\ (2 * i) % 2 = 0
  OBVIOUS
<1>3. 2 - 1 = 1 /\ 2 - 0 = 2
  OBVIOUS
<1> QED BY <1>1, <1>2, <1>3 DEF CellAt

LEMMA HalfIs ==
    ASSUME NEW l \in Nat, NEW j \in 1..(2 * l)
    PROVE  \E i \in 1..l : j = 2 * i - 1 \/ j = 2 * i
<1>1. PICK i \in Nat : i = (j + 1) \div 2
  OBVIOUS
<1>2. j = 2 * i - 1 \/ j = 2 * i
  BY <1>1
<1>3. i \in 1..l
  BY <1>2
<1> QED BY <1>2, <1>3

LEMMA FilesAre ==
    ASSUME NEW l \in Nat, l = Len(Present), NEW d \in Drives, NEW f,
           f = [i \in 1..(2 * l) |-> CellAt(d, i)]
    PROVE  /\ Laid(f, Places)
           /\ \A t \in Tracks : D88Cache!OnFile(f, Places, t) =
                 IF Places[t] # 0 THEN D88Cache!Original(d, t) ELSE <<>>
<1>1. PICK e \in Nat, r \in Nat : e = 2 * l /\ r = 2 * l + 1
  OBVIOUS
<1>2. ASSUME NEW j \in 1..e PROVE CellAt(d, j) \in Cells
  <2>1. PICK i \in 1..l : j = 2 * i - 1 \/ j = 2 * i
    BY <1>1, HalfIs
  <2>2. PICK o \in Seq(Cells) : o = D88Cache!Original(d, Present[i]) /\ Len(o) = 2
    BY CellsAre, OriginalIs
  <2>3. o[1] \in Cells /\ o[2] \in Cells
    BY <2>2
  <2>4. CellAt(d, j) = o[1] \/ CellAt(d, j) = o[2]
    BY <2>1, <2>2, CellsAre
  <2> QED BY <2>3, <2>4
<1>3. f \in Seq(Cells) /\ Len(f) = e /\ \A i \in 1..e : f[i] = CellAt(d, i)
  BY <1>1, <1>2
<1>4. /\ Places \in [Tracks -> Nat]
      /\ \A t \in Tracks : Places[t] # 0 => \E i \in 1..l : Present[i] = t /\ Places[t] = 2 * i - 1
  BY PlacesAre
<1>5. Laid(f, Places)
  <2>1. ASSUME NEW t \in Tracks PROVE Places[t] <= Len(f)
    <3>1. CASE Places[t] = 0
      BY <3>1, <1>3
    <3>2. CASE Places[t] # 0
      <4>1. PICK i \in 1..l : Places[t] = 2 * i - 1
        BY <3>2, <1>4
      <4>2. 2 * i - 1 <= e
        BY <1>1
      <4> QED BY <4>1, <4>2, <1>3
    <3> QED BY <3>1, <3>2
  <2>2. ASSUME NEW t \in Tracks, NEW u \in Tracks, Places[t] = Places[u], Places[t] # 0 PROVE t = u
    <3>1. PICK i \in 1..l : Present[i] = t /\ Places[t] = 2 * i - 1
      BY <2>2, <1>4
    <3>2. PICK j \in 1..l : Present[j] = u /\ Places[u] = 2 * j - 1
      BY <2>2, <1>4
    <3>3. i = j
      BY <3>1, <3>2, <2>2
    <3> QED BY <3>1, <3>2, <3>3
  <2> QED BY <2>1, <2>2, <1>3, <1>4 DEF Laid
<1>6. ASSUME NEW t \in Tracks, Places[t] # 0
      PROVE  D88Cache!OnFile(f, Places, t) = D88Cache!Original(d, t)
  <2>1. PICK i \in 1..l : Present[i] = t /\ Places[t] = 2 * i - 1
    BY <1>4, <1>6
  <2>2. PICK a \in Nat : a = 2 * i - 1 /\ a + 1 = 2 * i /\ 1 <= a /\ a < r
    BY <1>1
  <2> DEFINE y == D88Cache!NextTrack(a, Places, r)
  <2>3. y \in (a + 1)..r /\ (y = r \/ \E u \in Tracks : Places[u] = y)
    BY <1>4, <2>2, NextTrackIs
  <2>4. D88Cache!OnFile(f, Places, t) = D88Cache!Listed(Stretch(f, a, y))
    <3>1. D88Cache!End(f) = r /\ Places[t] = a
      BY <1>1, <1>3, <2>1, <2>2 DEF D88Cache!End
    <3> QED BY <3>1, <1>5, <1>6, OnFileIs
  <2> HIDE DEF y
  <2>5. PICK x \in Nat : x = y /\ a + 2 <= x /\ x <= r
    <3>1. PICK x \in Nat : x = y /\ a < x /\ x <= r
      BY <2>3
    <3>2. CASE x = r
      BY <3>1, <3>2, <2>2, <1>1
    <3>3. CASE \E u \in Tracks : Places[u] = x
      <4>1. PICK u \in Tracks : Places[u] = x
        BY <3>3
      <4>2. PICK j \in 1..l : x = 2 * j - 1
        BY <4>1, <3>1, <1>4
      <4> QED BY <4>2, <3>1, <2>2
    <3> QED BY <3>1, <3>2, <3>3, <2>3
  <2>6. PICK o \in Seq(Cells) : /\ o = D88Cache!Original(d, t) /\ Len(o) = 2
                                /\ \A k \in 1..2 : o[k].n = 2
    BY OriginalIs
  <2>7. /\ Stretch(f, a, x) \in Seq(Cells) /\ Len(Stretch(f, a, x)) = x - a
        /\ \A k \in 1..(x - a) : Stretch(f, a, x)[k] = f[a + k - 1]
    <3>1. a <= x /\ x <= Len(f) + 1
      BY <2>2, <2>5, <1>1, <1>3
    <3>2. PICK g \in Seq(Cells) : g = f /\ x <= Len(g) + 1
      BY <3>1, <1>3
    <3>3. /\ Stretch(g, a, x) \in Seq(Cells) /\ Len(Stretch(g, a, x)) = x - a
          /\ \A k \in 1..(x - a) : Stretch(g, a, x)[k] = g[a + k - 1]
      <4>1. 1 <= a /\ a <= x /\ x <= Len(g) + 1
        BY <3>1, <3>2, <2>2
      <4> QED BY <4>1, StretchIs
    <3> QED BY <3>2, <3>3
  <2>8. PICK s \in Seq(Cells) : /\ s = Stretch(f, a, x) /\ 2 <= Len(s)
                                /\ s[1] = f[a] /\ s[2] = f[a + 1]
    <3>1. 1 \in 1..(x - a) /\ 2 \in 1..(x - a) /\ a + 1 - 1 = a /\ a + 2 - 1 = a + 1 /\ 2 <= x - a
      BY <2>5
    <3> QED BY <3>1, <2>7
  <2>9. s[1] = o[1] /\ s[2] = o[2]
    <3>1. a \in 1..e /\ a + 1 \in 1..e
      BY <2>2, <1>1
    <3>2. f[a] = CellAt(d, 2 * i - 1) /\ f[a + 1] = CellAt(d, 2 * i)
      BY <3>1, <2>2, <1>3
    <3> QED BY <3>2, <2>1, <2>6, <2>8, CellsAre
  <2>10. \A k \in 1..2 : s[k] = o[k] /\ o[k].n = 2
    <3>1. \A k \in 1..2 : k = 1 \/ k = 2
      OBVIOUS
    <3> QED BY <3>1, <2>6, <2>9
  <2>11. D88Cache!Listed(s) = o
    <3>1. 2 \in Nat \ {0}
      OBVIOUS
    <3> QED BY <3>1, <2>6, <2>8, <2>10, TrackListed
  <2> QED BY <2>4, <2>5, <2>6, <2>8, <2>11
<1>7. ASSUME NEW t \in Tracks, Places[t] = 0 PROVE D88Cache!OnFile(f, Places, t) = <<>>
  BY <1>5, <1>7, OnFileIs
<1> QED BY <1>5, <1>6, <1>7

LEMMA DiskStarts == D88Cache!Init => DiskInv
<1> SUFFICES ASSUME D88Cache!Init PROVE DiskInv
  OBVIOUS
<1>1. PICK l \in Nat : l = Len(Present)
  BY DiskAssumption
<1>2. /\ file = [d \in Drives |-> [i \in 1..(2 * l) |-> CellAt(d, i)]]
      /\ ptr = [d \in Drives |-> Places]
  BY <1>1 DEF D88Cache!Init, CellAt, Places
<1>3. /\ inserted = Drives /\ head = [d \in Drives |-> 0] /\ cache = D88Cache!NoCache
      /\ format = D88Cache!NoFormat /\ changes = 0 /\ lent = {}
      /\ truth = [d \in Drives |-> [t \in Tracks |->
                    IF ptr[d][t] # 0 THEN D88Cache!Original(d, t) ELSE <<>>]]
  BY DEF D88Cache!Init
<1>4. ASSUME NEW d \in Drives
      PROVE  /\ Laid(file[d], ptr[d]) /\ ptr[d] = Places
             /\ \A t \in Tracks : D88Cache!OnFile(file[d], ptr[d], t) = truth[d][t]
  <2>1. PICK f : f = file[d] /\ f = [i \in 1..(2 * l) |-> CellAt(d, i)]
    BY <1>2
  <2>2. /\ Laid(f, Places)
        /\ \A t \in Tracks : D88Cache!OnFile(f, Places, t) =
                 IF Places[t] # 0 THEN D88Cache!Original(d, t) ELSE <<>>
    BY <1>1, <2>1, FilesAre
  <2>3. ptr[d] = Places
    BY <1>2
  <2>4. \A t \in Tracks : truth[d][t] = IF Places[t] # 0 THEN D88Cache!Original(d, t) ELSE <<>>
    BY <1>3, <2>3
  <2> QED BY <2>1, <2>2, <2>3, <2>4
<1>5. /\ file \in [Drives -> Seq(Cells)] /\ ptr \in [Drives -> [Tracks -> Nat]]
      /\ truth \in [Drives -> [Tracks -> Seq(Cells)]]
  <2>1. \A d \in Drives : file[d] \in Seq(Cells) /\ ptr[d] \in [Tracks -> Nat]
    BY <1>4 DEF Laid
  <2>2. \A d \in Drives, t \in Tracks :
          (IF ptr[d][t] # 0 THEN D88Cache!Original(d, t) ELSE <<>>) \in Seq(Cells)
    BY OriginalIs
  <2> QED BY <2>1, <2>2, <1>2, <1>3
<1>6. cache \in CacheType /\ cache.owner = NoDrive
  BY <1>3, DiskConstants DEF CacheType, D88Cache!NoCache
<1>7. Image(cache, file, ptr, truth, lent)
  BY <1>4, <1>5, <1>6 DEF Image, Fits, Stands
<1>8. Formatting
  BY <1>3 DEF Formatting, FormatType, D88Cache!NoFormat
<1>9. head \in [Drives -> Tracks]
  BY <1>3, DiskConstants
<1> QED BY <1>3, <1>6, <1>7, <1>8, <1>9 DEF DiskInv

\* What the guest has put on a disk is read back, and is in the file once
\* nothing waits in the cache, except for tracks a format was built over.
LEMMA DiskFollows ==
    ASSUME DiskInv
    PROVE  D88Cache!ReadsBack /\ D88Cache!Complete
<1>1. /\ inserted \subseteq Drives /\ cache.owner \in inserted \cup {NoDrive}
      /\ Fits(cache, file, ptr, truth, lent) /\ Stands(cache, file, ptr, truth, lent)
  BY DEF DiskInv, Image
<1>2. ASSUME NEW d \in inserted, NEW t \in Tracks, <<d, t>> \notin lent
      PROVE  truth[d][t] = IF D88Cache!Holds(cache, d, t) THEN D88Cache!Listed(cache.buf)
                           ELSE D88Cache!OnFile(file[d], ptr[d], t)
  <2>1. d \in Drives /\ d # NoDrive
    BY <1>1, DiskConstants
  <2> QED BY <1>2, <2>1, <1>1 DEF Fits, Stands, D88Cache!Holds
<1>3. ASSUME NEW d \in Drives, d \notin inserted \/ cache.owner # d \/ ~cache.write, NEW t \in Tracks,
               <<d, t>> \notin lent
      PROVE  D88Cache!OnFile(file[d], ptr[d], t) = truth[d][t]
  <2>1. d # NoDrive
    BY DiskConstants
  <2> QED BY <2>1, <1>1, <1>3 DEF Stands
<1> QED BY <1>2, <1>3 DEF D88Cache!ReadsBack, D88Cache!Complete

-----------------------------------------------------------------------------
(***************************************************************************)
(* The save states: the events of a machine, written as identifiers, are   *)
(* read back.                                                              *)
(***************************************************************************)
\* Two rows have two numbers, and two identifiers but for the mouse's.
EvtNum == StateSave!EvtNum
Rows == 1..20

\* The row of a number, and the first of an identifier.
RowOf(num) ==
    CASE num = "FLAMES" -> 1 [] num = "ITIMER" -> 2 [] num = "BEEP" -> 3
          [] num = "RS232C" -> 4 [] num = "FMTIMERA" -> 5 [] num = "FMTIMERB" -> 6
          [] num = "MOUSE" -> 7 [] num = "KEYBOARD" -> 8 [] num = "MIDIWAIT" -> 9
          [] num = "MIDIINT" -> 10 [] num = "PICMASK" -> 11 [] num = "FDBIOSBUSY" -> 12
          [] num = "FDCINT" -> 13 [] num = "SASIIO" -> 14 [] num = "SCSIIO" -> 15
          [] num = "SCSIWATCHDOG" -> 16 [] num = "FDCSTATE" -> 17
          [] num = "GENTIMER2" -> 18 [] num = "CMT" -> 19 [] num = "FLAMES2" -> 20
FirstOf(id) ==
    CASE id = "main" -> 1 [] id = "pit " -> 2 [] id = "beep" -> 3 [] id = "r232" -> 4
          [] id = "fm-a" -> 5 [] id = "fm-b" -> 6 [] id = "mous" -> 7 [] id = "midw" -> 9
          [] id = "midi" -> 10 [] id = "picm" -> 11 [] id = "fdbb" -> 12
          [] id = "fdci" -> 13 [] id = "sasi" -> 14 [] id = "scsi" -> 15
          [] id = "scsw" -> 16 [] id = "fstw" -> 17 [] id = "gtm2" -> 18
          [] id = "cmt " -> 19 [] id = "flm2" -> 20

LEMMA EvtNumRows ==
    /\ DOMAIN EvtNum = Rows
    /\ \A i \in Rows : RowOf(EvtNum[i][2]) = i
    /\ \A i \in Rows : FirstOf(EvtNum[i][1]) = IF i = 8 THEN 7 ELSE i
    /\ EvtNum[8][2] = "KEYBOARD"
<1>1. DOMAIN EvtNum = Rows
  BY DEF EvtNum, StateSave!EvtNum, Rows
<1>2. EvtNum[8][2] = "KEYBOARD"
  BY DEF EvtNum, StateSave!EvtNum
<1>3. \A i \in Rows : RowOf(EvtNum[i][2]) = i
  <2>1. /\ RowOf(EvtNum[1][2]) = 1 /\ RowOf(EvtNum[2][2]) = 2 /\ RowOf(EvtNum[3][2]) = 3
        /\ RowOf(EvtNum[4][2]) = 4 /\ RowOf(EvtNum[5][2]) = 5 /\ RowOf(EvtNum[6][2]) = 6
        /\ RowOf(EvtNum[7][2]) = 7 /\ RowOf(EvtNum[8][2]) = 8 /\ RowOf(EvtNum[9][2]) = 9
        /\ RowOf(EvtNum[10][2]) = 10 /\ RowOf(EvtNum[11][2]) = 11 /\ RowOf(EvtNum[12][2]) = 12
        /\ RowOf(EvtNum[13][2]) = 13 /\ RowOf(EvtNum[14][2]) = 14 /\ RowOf(EvtNum[15][2]) = 15
        /\ RowOf(EvtNum[16][2]) = 16 /\ RowOf(EvtNum[17][2]) = 17 /\ RowOf(EvtNum[18][2]) = 18
        /\ RowOf(EvtNum[19][2]) = 19 /\ RowOf(EvtNum[20][2]) = 20
    BY DEF EvtNum, StateSave!EvtNum, RowOf
  <2> QED BY <2>1 DEF Rows
<1>4. \A i \in Rows : FirstOf(EvtNum[i][1]) = IF i = 8 THEN 7 ELSE i
  <2>1. /\ FirstOf(EvtNum[1][1]) = 1 /\ FirstOf(EvtNum[2][1]) = 2 /\ FirstOf(EvtNum[3][1]) = 3
        /\ FirstOf(EvtNum[4][1]) = 4 /\ FirstOf(EvtNum[5][1]) = 5 /\ FirstOf(EvtNum[6][1]) = 6
        /\ FirstOf(EvtNum[7][1]) = 7 /\ FirstOf(EvtNum[8][1]) = 7 /\ FirstOf(EvtNum[9][1]) = 9
        /\ FirstOf(EvtNum[10][1]) = 10 /\ FirstOf(EvtNum[11][1]) = 11 /\ FirstOf(EvtNum[12][1]) = 12
        /\ FirstOf(EvtNum[13][1]) = 13 /\ FirstOf(EvtNum[14][1]) = 14 /\ FirstOf(EvtNum[15][1]) = 15
        /\ FirstOf(EvtNum[16][1]) = 16 /\ FirstOf(EvtNum[17][1]) = 17 /\ FirstOf(EvtNum[18][1]) = 18
        /\ FirstOf(EvtNum[19][1]) = 19 /\ FirstOf(EvtNum[20][1]) = 20
    BY DEF EvtNum, StateSave!EvtNum, FirstOf
  <2> QED BY <2>1 DEF Rows
<1> QED BY <1>1, <1>2, <1>3, <1>4

Numbers == StateSave!Numbers
EvtProc == StateSave!EvtProc

\* A key's event has the mouse's identifier, and comes back as the mouse's.
Renamed(num) == IF num = "KEYBOARD" THEN "MOUSE" ELSE num

LEMMA RenamedIs ==
    ASSUME NEW num \in Numbers
    PROVE  Renamed(num) \in Numbers
<1>1. 7 \in Rows /\ EvtNum[7][2] = "MOUSE"
  BY DEF EvtNum, StateSave!EvtNum, Rows
<1>2. "MOUSE" \in Numbers
  BY <1>1, EvtNumRows DEF Numbers, StateSave!Numbers, EvtNum
<1> QED BY <1>2 DEF Renamed

\* An event goes into the file by its identifier, and comes back under its number.
LEMMA EventBack ==
    ASSUME NEW num \in Numbers, NEW proc \in EvtProc, NEW acc
    PROVE  StateSave!EventRead(acc, StateSave!EventWrite(<<num, proc>>))
               = [acc EXCEPT !.item[Renamed(num)] = proc, !.level = Append(@, Renamed(num))]
<1>1. PICK i \in Rows : num = EvtNum[i][2]
  BY EvtNumRows DEF Numbers, StateSave!Numbers, EvtNum
<1> DEFINE first == IF i = 8 THEN 7 ELSE i
           written == {j \in DOMAIN StateSave!EvtNum : StateSave!EvtNum[j][2] = num}
           wanted == {j \in DOMAIN StateSave!EvtNum : StateSave!EvtNum[j][1] = EvtNum[i][1]}
           e == StateSave!EventWrite(<<num, proc>>)
<1>2. EvtNum[first][2] = Renamed(num) /\ first \in Rows
  <2>1. CASE i = 8
    <3>1. num = "KEYBOARD"
      BY <2>1, <1>1, EvtNumRows
    <3>2. EvtNum[7][2] = "MOUSE"
      BY DEF EvtNum, StateSave!EvtNum
    <3> QED BY <3>1, <3>2, <2>1 DEF Renamed, Rows
  <2>2. CASE i # 8
    <3>1. RowOf("KEYBOARD") = 8 /\ RowOf(num) = i
      BY <1>1, EvtNumRows DEF Rows
    <3>2. num # "KEYBOARD"
      BY <3>1, <2>2
    <3> QED BY <3>2, <2>2, <1>1 DEF Renamed
  <2> QED BY <2>1, <2>2
<1>3. written = {i}
  <2>1. \A j \in Rows : EvtNum[j][2] = num => j = i
    BY <1>1, EvtNumRows
  <2> QED BY <2>1, <1>1, EvtNumRows DEF EvtNum
<1>4. first \in wanted /\ \A j \in wanted : first <= j
  <2>1. first \in wanted
    <3>1. CASE i = 8
      <4>1. EvtNum[7][1] = EvtNum[8][1]
        BY DEF EvtNum, StateSave!EvtNum
      <4> QED BY <4>1, <3>1, <1>2, EvtNumRows DEF EvtNum
    <3>2. CASE i # 8
      BY <3>2, EvtNumRows DEF EvtNum
    <3> QED BY <3>1, <3>2
  <2>2. ASSUME NEW j \in wanted PROVE first <= j
    <3>1. j \in Rows /\ EvtNum[j][1] = EvtNum[i][1]
      BY EvtNumRows DEF EvtNum
    <3>2. (IF j = 8 THEN 7 ELSE j) = first
      BY <3>1, EvtNumRows
    <3> HIDE DEF first
    <3>3. (first = 7 /\ j = 8) \/ first = j
      BY <3>2
    <3> QED BY <3>1, <3>3 DEF Rows
  <2> QED BY <2>1, <2>2
<1>5. wanted \subseteq Rows
  BY EvtNumRows DEF EvtNum
<1> HIDE DEF written, wanted, first
<1>6. e = [id |-> EvtNum[i][1], proc |-> proc]
  <2>1. (CHOOSE j \in written : \A k \in written : j <= k) = i
    BY <1>3 DEF Rows
  <2> QED BY <2>1, <1>3 DEF StateSave!EventWrite, written, EvtNum, EvtProc
<1>7. (CHOOSE j \in wanted : \A k \in wanted : j <= k) = first
  <2> DEFINE c == CHOOSE j \in wanted : \A k \in wanted : j <= k
  <2>1. c \in wanted /\ \A k \in wanted : c <= k
    BY <1>4
  <2> HIDE DEF c
  <2>2. c \in Rows /\ c <= first /\ first <= c
    BY <2>1, <1>4, <1>5
  <2>3. c = first
    BY <2>2, <1>2 DEF Rows
  <2> QED BY <2>3 DEF c
<1>8. e.id = EvtNum[i][1] /\ e.proc = proc
  BY <1>6
<1> HIDE DEF e
<1>9. wanted # {} /\ wanted = {j \in DOMAIN StateSave!EvtNum : StateSave!EvtNum[j][1] = e.id}
  BY <1>4, <1>8 DEF wanted
<1>10. StateSave!EventRead(acc, e)
           = [acc EXCEPT !.item[EvtNum[first][2]] = proc, !.level = Append(@, EvtNum[first][2])]
  BY <1>7, <1>8, <1>9 DEF StateSave!EventRead, EvtNum, EvtProc
<1> QED BY <1>2, <1>10 DEF e

\* What holds of 0 and with n of n + 1 holds of every number.
LEMMA SetInduction ==
    ASSUME NEW S, 0 \in S, \A n \in Nat : n \in S => n + 1 \in S
    PROVE  Nat \subseteq S
<1> DEFINE T == Nat \ S
<1> SUFFICES ASSUME T # {} PROVE FALSE
  OBVIOUS
<1>1. PICK n \in T : \A k \in T : n <= k
  <2>1. T \in SUBSET Nat
    OBVIOUS
  <2> HIDE DEF T
  <2> QED BY <2>1, LeastNatural
<1>2. n # 0 /\ n \in Nat
  OBVIOUS
<1>3. n - 1 \in Nat /\ n - 1 \notin T
  BY <1>1, <1>2
<1> QED BY <1>2, <1>3

\* What reading the first n of the written events has collected: a number's
\* item is that of its last event.
Queue(s) == s \in Seq(Numbers \X EvtProc)
Written(s) == [i \in DOMAIN s |-> StateSave!EventWrite(s[i])]
Under(s, n, m) == {i \in 1..n : Renamed(s[i][1]) = m}
LastOf(s, n, m) == CHOOSE i \in Under(s, n, m) : \A j \in Under(s, n, m) : j <= i
Items(s, n) ==
    [m \in Numbers |-> IF Under(s, n, m) # {} THEN s[LastOf(s, n, m)][2] ELSE "null"]
Collected(s, n) ==
    [level |-> [i \in 1..n |-> Renamed(s[i][1])], item |-> Items(s, n), warn |-> FALSE]

\* The events that come back.
Back(s) == [i \in DOMAIN s |-> <<Renamed(s[i][1]), Items(s, Len(s))[Renamed(s[i][1])]>>]

LEMMA CollectedStep ==
    ASSUME NEW s, Queue(s), NEW n \in 0..(Len(s) - 1)
    PROVE  StateSave!EventRead(Collected(s, n), Written(s)[n + 1]) = Collected(s, n + 1)
<1>1. PICK len \in Nat : len = Len(s) /\ DOMAIN s = 1..len
  BY DEF Queue
<1>2. n \in Nat /\ n + 1 \in 1..len /\ \A i \in 1..n : i \in 1..len /\ i # n + 1
  BY <1>1
<1>3. \A i \in 1..len : s[i] \in Numbers \X EvtProc
  BY <1>1 DEF Queue
<1>4. PICK num \in Numbers, proc \in EvtProc : s[n + 1] = <<num, proc>>
  BY <1>2, <1>3
<1>5. Written(s)[n + 1] = StateSave!EventWrite(<<num, proc>>)
  BY <1>1, <1>2, <1>4 DEF Written
<1>6. StateSave!EventRead(Collected(s, n), Written(s)[n + 1])
          = [Collected(s, n) EXCEPT !.item[Renamed(num)] = proc, !.level = Append(@, Renamed(num))]
  BY <1>5, EventBack
<1>7. Append([i \in 1..n |-> Renamed(s[i][1])], Renamed(num)) = [i \in 1..(n + 1) |-> Renamed(s[i][1])]
  <2>1. ASSUME NEW i \in 1..n PROVE Renamed(s[i][1]) \in Numbers
    <3>1. PICK k \in Numbers, p \in EvtProc : s[i] = <<k, p>>
      BY <1>2, <1>3
    <3> QED BY <3>1, RenamedIs
  <2>2. /\ [i \in 1..n |-> Renamed(s[i][1])] \in Seq(Numbers)
        /\ Len([i \in 1..n |-> Renamed(s[i][1])]) = n
    BY <1>2, <2>1
  <2> QED BY <2>2, <1>2, <1>4, RenamedIs
<1>8. [Items(s, n) EXCEPT ![Renamed(num)] = proc] = Items(s, n + 1)
  <2>1. ASSUME NEW m \in Numbers
        PROVE  [Items(s, n) EXCEPT ![Renamed(num)] = proc][m] = Items(s, n + 1)[m]
    <3>1. CASE m = Renamed(num)
      <4>1. n + 1 \in Under(s, n + 1, m) /\ \A j \in Under(s, n + 1, m) : j \in 1..(n + 1)
        BY <3>1, <1>2, <1>4 DEF Under
      <4>2. LastOf(s, n + 1, m) \in Under(s, n + 1, m) /\ n + 1 <= LastOf(s, n + 1, m)
        BY <4>1, <1>2 DEF LastOf
      <4>3. LastOf(s, n + 1, m) = n + 1
        BY <4>1, <4>2, <1>2
      <4>4. Items(s, n + 1)[m] = s[n + 1][2]
        BY <4>1, <4>3 DEF Items
      <4>5. Items(s, n + 1)[m] = proc
        BY <4>4, <1>4
      <4> QED BY <4>5, <3>1 DEF Items
    <3>2. CASE m # Renamed(num)
      <4>1. Under(s, n + 1, m) = Under(s, n, m)
        <5>1. Renamed(s[n + 1][1]) # m
          BY <3>2, <1>4
        <5> QED BY <5>1, <1>2 DEF Under
      <4>3. LastOf(s, n + 1, m) = LastOf(s, n, m)
        BY <4>1, Zenon DEF LastOf
      <4>2. Items(s, n)[m] = Items(s, n + 1)[m]
        BY <4>1, <4>3 DEF Items
      <4> QED BY <4>2, <3>2 DEF Items
    <3> QED BY <3>1, <3>2
  <2> QED BY <2>1 DEF Items
<1> QED BY <1>6, <1>7, <1>8 DEF Collected

\* The recursion of EventsRead.
Reading(s, f, n) ==
    IF n = 0 THEN [level |-> <<>>, item |-> [m \in StateSave!Numbers |-> "null"], warn |-> FALSE]
    ELSE StateSave!EventRead(f[n - 1], Written(s)[n])
Reader(s) == CHOOSE f : f = [n \in 0..Len(Written(s)) |-> Reading(s, f, n)]

LEMMA EventsReadBack ==
    ASSUME NEW s, Queue(s)
    PROVE  StateSave!EventsRead(Written(s)) = [warn |-> FALSE, events |-> Back(s)]
<1>1. PICK len \in Nat : len = Len(s) /\ DOMAIN s = 1..len
  BY DEF Queue
<1>2. Len(Written(s)) = len
  BY <1>1 DEF Written
<1> DEFINE c == [n \in 0..Len(Written(s)) |-> Collected(s, n)]
<1>3. c = [n \in 0..Len(Written(s)) |-> Reading(s, c, n)]
  <2>1. ASSUME NEW n \in 0..len PROVE Collected(s, n) = Reading(s, c, n)
    <3>1. CASE n = 0
      BY <3>1 DEF Collected, Items, Under, Reading, Numbers
    <3>2. CASE n # 0
      <4>1. PICK m \in 0..(len - 1) : m = n - 1 /\ n = m + 1
        BY <3>2
      <4>2. c[m] = Collected(s, m)
        BY <4>1, <1>2
      <4> QED BY <3>2, <4>1, <4>2, <1>1, CollectedStep DEF Reading
    <3> QED BY <3>1, <3>2
  <2> QED BY <2>1, <1>2
<1>4. Reader(s) = [n \in 0..len |-> Reading(s, Reader(s), n)]
  BY <1>3, <1>2 DEF Reader
<1>5. \A n \in 0..len : Reader(s)[n] = Collected(s, n)
  <2> DEFINE S == {n \in Nat : n <= len => Reader(s)[n] = Collected(s, n)}
  <2>1. 0 \in S
    <3>1. 0 \in 0..len
      OBVIOUS
    <3>4. Reader(s)[0] = Reading(s, Reader(s), 0)
      BY <3>1, <1>4
    <3>2. Items(s, 0) = [m \in StateSave!Numbers |-> "null"]
      BY DEF Items, Under, Numbers
    <3>3. [i \in 1..0 |-> Renamed(s[i][1])] = <<>>
      OBVIOUS
    <3> QED BY <3>4, <3>2, <3>3 DEF Collected, Reading
  <2>2. ASSUME NEW n \in Nat, n \in S PROVE n + 1 \in S
    <3> SUFFICES ASSUME n + 1 <= len PROVE Reader(s)[n + 1] = Collected(s, n + 1)
      OBVIOUS
    <3>1. Reader(s)[n] = Collected(s, n) /\ n \in 0..(len - 1) /\ n + 1 \in 0..len
      BY <2>2
    <3>2. Reader(s)[n + 1] = Reading(s, Reader(s), n + 1)
      BY <3>1, <1>4
    <3>3. Reading(s, Reader(s), n + 1) = StateSave!EventRead(Reader(s)[n], Written(s)[n + 1])
      BY DEF Reading
    <3> QED BY <3>1, <3>2, <3>3, <1>1, CollectedStep
  <2> HIDE DEF S
  <2>3. Nat \subseteq S
    BY <2>1, <2>2, SetInduction
  <2> QED BY <2>3 DEF S
<1>6. StateSave!EventsRead(Written(s)) =
          [warn |-> Reader(s)[len].warn,
           events |-> [i \in DOMAIN Reader(s)[len].level |->
                          <<Reader(s)[len].level[i], Reader(s)[len].item[Reader(s)[len].level[i]]>>]]
  BY <1>2 DEF StateSave!EventsRead, Reader, Reading
<1>7. Reader(s)[len] = Collected(s, len)
  BY <1>5
<1>9. /\ Reader(s)[len].warn = FALSE /\ Reader(s)[len].item = Items(s, len)
      /\ Reader(s)[len].level = [i \in 1..len |-> Renamed(s[i][1])]
  BY <1>7 DEF Collected
<1>10. [i \in DOMAIN Reader(s)[len].level |->
           <<Reader(s)[len].level[i], Reader(s)[len].item[Reader(s)[len].level[i]]>>] = Back(s)
  BY <1>1, <1>9 DEF Back
<1> QED BY <1>6, <1>9, <1>10

\* The events of the machine that has the queue q: those of q in their places, but
\* that a key and a mouse beside it may have become the mouse's.
Keys(q) == \E i \in DOMAIN q : q[i][1] = "KEYBOARD"
KeyOrMouse == {"KEYBOARD", "MOUSE"}
Like(s, q) ==
    /\ Queue(s) /\ Len(s) = Len(q)
    /\ \A i \in DOMAIN q : IF Keys(q) /\ q[i][1] \in KeyOrMouse THEN s[i][1] \in KeyOrMouse
                            ELSE s[i] = q[i]
Pending(q) == Queue(q) /\ \A i, j \in DOMAIN q : q[i][1] = q[j][1] => i = j

LEMMA LikeItself ==
    ASSUME NEW q, Pending(q)
    PROVE  Like(q, q)
BY DEF Pending, Like

\* The last event of a number that has one, and the item it leaves.
LEMMA ItemIs ==
    ASSUME NEW s, Queue(s), NEW i \in DOMAIN s
    PROVE  /\ Renamed(s[i][1]) \in Numbers
           /\ Items(s, Len(s))[Renamed(s[i][1])] \in EvtProc
           /\ (\A j \in DOMAIN s : Renamed(s[j][1]) = Renamed(s[i][1]) => j = i) =>
                 Items(s, Len(s))[Renamed(s[i][1])] = s[i][2]
<1>1. PICK len \in Nat : len = Len(s) /\ DOMAIN s = 1..len
  BY DEF Queue
<1>2. \A j \in 1..len : s[j] \in Numbers \X EvtProc
  BY <1>1 DEF Queue
<1>3. PICK k \in Numbers, p \in EvtProc : s[i] = <<k, p>>
  BY <1>1, <1>2
<1>4. PICK m \in Numbers : m = Renamed(s[i][1])
  BY <1>3, RenamedIs
<1> DEFINE U == Under(s, len, m)
<1>5. i \in U /\ U \subseteq 1..len
  BY <1>1, <1>4 DEF Under
<1>6. LastOf(s, len, m) \in U
  <2>1. U \in SUBSET Nat /\ U # {} /\ \A j \in U : j <= len
    BY <1>5
  <2> HIDE DEF U
  <2>2. \E j \in U : \A k2 \in U : k2 <= j
    BY <2>1, GreatestNatural
  <2> QED BY <2>2 DEF LastOf, U
<1>7. Items(s, len)[m] = s[LastOf(s, len, m)][2]
  BY <1>5 DEF Items
<1>8. s[LastOf(s, len, m)][2] \in EvtProc
  BY <1>2, <1>5, <1>6
<1>9. ASSUME \A j \in DOMAIN s : Renamed(s[j][1]) = Renamed(s[i][1]) => j = i
      PROVE  LastOf(s, len, m) = i
  BY <1>9, <1>1, <1>4, <1>6 DEF Under
<1> QED BY <1>1, <1>4, <1>7, <1>8, <1>9

\* In such events no other has the number of one that is neither.
LEMMA OnlyOne ==
    ASSUME NEW s, NEW q, Pending(q), Like(s, q), NEW i \in DOMAIN q,
           ~(Keys(q) /\ q[i][1] \in KeyOrMouse), NEW j \in DOMAIN q,
           Renamed(s[j][1]) = Renamed(s[i][1])
    PROVE  j = i /\ Renamed(s[i][1]) = s[i][1]
<1>1. s[i] = q[i] /\ q[i][1] # "KEYBOARD" /\ (Keys(q) => q[i][1] # "MOUSE")
  BY DEF Like, Keys, KeyOrMouse
<1>2. Renamed(s[i][1]) = q[i][1]
  BY <1>1 DEF Renamed
<1>3. CASE Keys(q) /\ q[j][1] \in KeyOrMouse
  <2>1. s[j][1] \in KeyOrMouse
    BY <1>3 DEF Like
  <2>2. Renamed(s[j][1]) = "MOUSE"
    BY <2>1 DEF KeyOrMouse, Renamed
  <2> QED BY <2>2, <1>1, <1>2, <1>3
<1>4. CASE ~(Keys(q) /\ q[j][1] \in KeyOrMouse)
  <2>1. s[j] = q[j] /\ q[j][1] # "KEYBOARD"
    BY <1>4 DEF Like, Keys, KeyOrMouse
  <2>2. q[j][1] = q[i][1]
    BY <2>1, <1>2 DEF Renamed
  <2> QED BY <2>2, <1>1, <1>2 DEF Pending
<1> QED BY <1>3, <1>4

LEMMA BackIsLike ==
    ASSUME NEW s, NEW q, Pending(q), Like(s, q)
    PROVE  Like(Back(s), q)
<1>1. PICK len \in Nat : len = Len(s) /\ DOMAIN s = 1..len /\ DOMAIN q = 1..len /\ Len(q) = len
  BY DEF Like, Queue, Pending
<1>2. Queue(s)
  BY DEF Like
<1>3. ASSUME NEW i \in 1..len
      PROVE  Back(s)[i] \in Numbers \X EvtProc
  <2>1. Renamed(s[i][1]) \in Numbers /\ Items(s, Len(s))[Renamed(s[i][1])] \in EvtProc
    BY <1>1, <1>2, ItemIs
  <2> QED BY <2>1, <1>1 DEF Back
<1>4. Queue(Back(s)) /\ Len(Back(s)) = len
  <2>1. Back(s) = [i \in 1..len |-> Back(s)[i]]
    BY <1>1 DEF Back
  <2> QED BY <2>1, <1>3 DEF Queue
<1>5. ASSUME NEW i \in 1..len, Keys(q) /\ q[i][1] \in KeyOrMouse
      PROVE  Back(s)[i][1] \in KeyOrMouse
  <2>1. s[i][1] \in KeyOrMouse
    BY <1>1, <1>5 DEF Like
  <2> QED BY <2>1, <1>1 DEF Back, KeyOrMouse, Renamed
<1>6. ASSUME NEW i \in 1..len, ~(Keys(q) /\ q[i][1] \in KeyOrMouse)
      PROVE  Back(s)[i] = q[i]
  <2>1. /\ \A j \in DOMAIN s : Renamed(s[j][1]) = Renamed(s[i][1]) => j = i
        /\ Renamed(s[i][1]) = s[i][1]
    BY <1>1, <1>6, OnlyOne
  <2>2. Items(s, Len(s))[Renamed(s[i][1])] = s[i][2]
    BY <2>1, <1>1, <1>2, ItemIs
  <2>3. Back(s)[i] = <<s[i][1], s[i][2]>>
    BY <2>1, <2>2, <1>1 DEF Back
  <2>4. s[i] \in Numbers \X EvtProc /\ s[i] = q[i]
    BY <1>1, <1>2, <1>6 DEF Like, Queue
  <2> QED BY <2>3, <2>4
<1> QED BY <1>1, <1>4, <1>5, <1>6 DEF Like

-----------------------------------------------------------------------------
(***************************************************************************)
(* The save states: what machines, files and steps are.                    *)
(***************************************************************************)
Broken == StateSave!Broken
NoState == StateSave!NoState
Undo == StateSave!Undo
Held == StateSave!Held
Names == StateSave!Names

\* A machine with the events it was live with, or as they came back.
Machine(n, q, d) == [id |-> n, events |-> q, disk |-> d]
IsMachine(m) ==
    /\ m = Machine(m.id, m.events, m.disk) /\ m.id \in 0..MaxId /\ m.disk \in Nat
    /\ Like(m.events, Queues[m.id])
Machines ==
    {m \in [id : 0..MaxId, events : Seq(Numbers \X EvtProc), disk : Nat] : IsMachine(m)}

\* A saved machine, with the image that has what its guest believes, unless it is broken.
SavedOf(m, image) == StateSave!Snapshot(m, image)
Saved == {SavedOf(m, m.disk) : m \in Machines} \cup {SavedOf(Broken, image) : image \in Nat}
Files == Saved \cup {NoState}

LEMMA StateConstants ==
    /\ Slots \in Nat /\ 1 <= Slots /\ MaxId \in Nat /\ MaxTasks \in Nat /\ MaxCrashes \in Nat
    /\ \A n \in 0..MaxId : Pending(Queues[n]) /\ Like(Queues[n], Queues[n])
<1>1. Slots \in Nat /\ 1 <= Slots /\ MaxId \in Nat /\ MaxTasks \in Nat /\ MaxCrashes \in Nat
  BY StateAssumption
<1>2. ASSUME NEW n \in 0..MaxId PROVE Pending(Queues[n])
  BY StateAssumption DEF Pending, Queue, Numbers, EvtProc
<1> QED BY <1>1, <1>2, LikeItself

LEMMA MachineIs ==
    ASSUME NEW m \in Machines
    PROVE  /\ m.id \in 0..MaxId /\ Like(m.events, Queues[m.id]) /\ m.disk \in Nat
           /\ m = Machine(m.id, m.events, m.disk) /\ m # Broken /\ Queue(m.events)
<1>1. IsMachine(m)
  BY DEF Machines
<1>2. Broken.id = -1 /\ m.id # -1
  BY <1>1, StateConstants DEF Broken, StateSave!Broken, IsMachine
<1>3. Queue(m.events)
  BY <1>1 DEF IsMachine, Like
<1> QED BY <1>1, <1>2, <1>3 DEF IsMachine

\* Machines are made of such events.
LEMMA MachineMade ==
    ASSUME NEW n \in 0..MaxId, NEW d \in Nat, NEW q, Like(q, Queues[n])
    PROVE  Machine(n, q, d) \in Machines /\ Machine(n, q, d).disk = d
<1> DEFINE m == Machine(n, q, d)
<1>1. m.id = n /\ m.events = q /\ m.disk = d
  BY DEF Machine
<1>2. q \in Seq(Numbers \X EvtProc)
  BY DEF Like, Queue
<1>3. m \in [id : 0..MaxId, events : Seq(Numbers \X EvtProc), disk : Nat]
  BY <1>2 DEF Machine
<1> HIDE DEF m
<1>4. IsMachine(m)
  BY <1>1 DEF IsMachine, m
<1> QED BY <1>1, <1>3, <1>4 DEF Machines, m

\* Reading a saved state back gives the machine that was saved, with its events
\* as they come back.
ReadsAs(f, m) ==
    /\ f.was = m /\ f.id = m.id /\ f.disk = m.disk
    /\ StateSave!EventsRead(f.events) = [warn |-> FALSE, events |-> Back(m.events)]

LEMMA SnapshotIs ==
    ASSUME NEW m, NEW image, Queue(m.events)
    PROVE  ReadsAs(SavedOf(m, image), m) /\ SavedOf(m, image).image = image
<1>1. SavedOf(m, image).events = Written(m.events)
  BY DEF SavedOf, StateSave!Snapshot, Written
<1> QED BY <1>1, EventsReadBack DEF SavedOf, StateSave!Snapshot, ReadsAs

LEMMA BrokenQueue == Queue(Broken.events) /\ Broken.id = -1 /\ Broken.disk = 0
BY DEF Broken, StateSave!Broken, Queue

LEMMA SavedIs ==
    ASSUME NEW f \in Saved
    PROVE  /\ \/ f.was = Broken
              \/ f.was \in Machines /\ f.image = f.was.disk
           /\ ReadsAs(f, f.was) /\ f.image \in Nat /\ f # NoState
<1>1. CASE \E m \in Machines : f = SavedOf(m, m.disk)
  <2>1. PICK m \in Machines : f = SavedOf(m, m.disk)
    BY <1>1
  <2>2. Queue(m.events) /\ m.disk \in Nat /\ m.id \in 0..MaxId
    BY MachineIs
  <2>3. ReadsAs(f, m) /\ f.image = m.disk
    BY <2>1, <2>2, SnapshotIs
  <2>4. f.was = m /\ f.id = m.id
    BY <2>3 DEF ReadsAs
  <2>5. f # NoState
    BY <2>2, <2>4, StateConstants DEF NoState, StateSave!NoState
  <2> QED BY <2>2, <2>3, <2>4, <2>5
<1>2. CASE \E image \in Nat : f = SavedOf(Broken, image)
  <2>1. PICK image \in Nat : f = SavedOf(Broken, image)
    BY <1>2
  <2>2. ReadsAs(f, Broken) /\ f.image = image
    BY <2>1, SnapshotIs, BrokenQueue
  <2>3. f.was = Broken /\ f.id = -1
    BY <2>2, BrokenQueue DEF ReadsAs
  <2>4. f # NoState
    BY <2>3 DEF NoState, StateSave!NoState
  <2> QED BY <2>2, <2>3, <2>4
<1> QED BY <1>1, <1>2 DEF Saved

LEMMA NoStateNotSaved == NoState \notin Saved
BY SavedIs

\* The live machine is saved as it stands when its disk's image has what it believes.
LEMMA LiveSaved ==
    ASSUME NEW m \in Machines \cup {Broken}, NEW image \in Nat, m = Broken \/ m.disk = image
    PROVE  SavedOf(m, image) \in Saved /\ SavedOf(m, image).was = m
<1>1. Queue(m.events)
  BY BrokenQueue, MachineIs
<1>2. SavedOf(m, image).was = m
  BY <1>1, SnapshotIs DEF ReadsAs
<1> QED BY <1>2 DEF Saved

-----------------------------------------------------------------------------
(***************************************************************************)
(* The save states: the ring of quick saves and its rotation.              *)
(***************************************************************************)
\* The file that was at n when a rotation, now at k, began.
At(f, k, n) == IF n > k THEN f[n + 1] ELSE f[n]

\* The i-th save is at its place, or behind it by at most one for each crash.
Behind(f, r, c, k, top) ==
    \A i \in 1..Len(r) : i <= top - c => \E n \in i..(i + c) : At(f, k, n) = r[i]

\* The files are the saves, newest first, and no others.
Exact(f, r, k, top) ==
    \A i \in 1..top : At(f, k, i) = IF i <= Len(r) THEN r[i] ELSE NoState

LEMMA NamesAre ==
    /\ Names = -2..Slots /\ Undo = -1 /\ Held = -2 /\ Undo \in Names /\ Held \in Names /\ 0 \in Names
    /\ 1..Slots \subseteq Names /\ Slots - 1 \in Nat
BY StateConstants DEF Names, StateSave!Names, Undo, Held, StateSave!Undo, StateSave!Held

LEMMA RotationStarts ==
    ASSUME NEW f, NEW r \in Seq(Saved), NEW c \in Nat
    PROVE  /\ Behind(f, r, c, Slots, Slots) => Behind(f, r, c, Slots - 1, Slots - 1)
           /\ Exact(f, r, Slots, Slots) => Exact(f, r, Slots - 1, Slots - 1)
<1>1. ASSUME NEW n \in 1..(Slots - 1) PROVE At(f, Slots - 1, n) = At(f, Slots, n)
  BY StateConstants DEF At
<1>2. ASSUME Behind(f, r, c, Slots, Slots), NEW i \in 1..Len(r), i <= Slots - 1 - c
      PROVE  \E n \in i..(i + c) : At(f, Slots - 1, n) = r[i]
  <2>1. i \in Nat /\ i <= Slots - c
    BY <1>2, StateConstants
  <2>2. PICK n \in i..(i + c) : At(f, Slots, n) = r[i]
    BY <1>2, <2>1 DEF Behind
  <2>3. n \in 1..(Slots - 1)
    BY <1>2, <2>1, StateConstants
  <2> QED BY <1>1, <2>2, <2>3
<1>3. ASSUME Exact(f, r, Slots, Slots), NEW i \in 1..(Slots - 1)
      PROVE  At(f, Slots - 1, i) = IF i <= Len(r) THEN r[i] ELSE NoState
  BY <1>1, <1>3, StateConstants DEF Exact
<1> QED BY <1>2, <1>3 DEF Behind, Exact

\* What the first half of a step removes has been moved already.
LEMMA RemoveKeeps ==
    ASSUME NEW f \in [Names -> Files], NEW r \in Seq(Saved), NEW c \in Nat, NEW k \in 0..(Slots - 1)
    PROVE  LET g == [f EXCEPT ![k + 1] = NoState]
           IN  /\ Behind(f, r, c, k, Slots - 1) => Behind(g, r, c, k, Slots - 1)
               /\ Exact(f, r, k, Slots - 1) => Exact(g, r, k, Slots - 1)
<1> DEFINE g == [f EXCEPT ![k + 1] = NoState]
<1>1. ASSUME NEW n \in 1..(Slots - 1) PROVE At(g, k, n) = At(f, k, n)
  <2>1. n \in Names /\ n + 1 \in Names
    BY NamesAre, StateConstants
  <2> QED BY <2>1, StateConstants DEF At
<1> HIDE DEF g
<1>2. ASSUME Behind(f, r, c, k, Slots - 1), NEW i \in 1..Len(r), i <= Slots - 1 - c
      PROVE  \E n \in i..(i + c) : At(g, k, n) = r[i]
  <2>1. i \in Nat
    BY <1>2
  <2>2. PICK n \in i..(i + c) : At(f, k, n) = r[i]
    BY <1>2 DEF Behind
  <2>3. n \in 1..(Slots - 1)
    BY <1>2, <2>1, StateConstants
  <2> QED BY <1>1, <2>2, <2>3
<1>3. Behind(f, r, c, k, Slots - 1) => Behind(g, r, c, k, Slots - 1)
  BY <1>2 DEF Behind
<1>4. Exact(f, r, k, Slots - 1) => Exact(g, r, k, Slots - 1)
  BY <1>1 DEF Exact
<1> QED BY <1>3, <1>4 DEF g

\* A move from k to k + 1.
Moved(f, k) == IF f[k] # NoState THEN [f EXCEPT ![k + 1] = f[k], ![k] = NoState] ELSE f

LEMMA MoveKeeps ==
    ASSUME NEW f \in [Names -> Files], NEW r \in Seq(Saved), NEW c \in Nat, NEW k \in 1..(Slots - 1)
    PROVE  /\ Behind(f, r, c, k, Slots - 1) => Behind(Moved(f, k), r, c, k - 1, Slots - 1)
           /\ Exact(f, r, k, Slots - 1) /\ f[k + 1] = NoState
                => Exact(Moved(f, k), r, k - 1, Slots - 1)
<1> DEFINE g == Moved(f, k)
<1>1. k \in Names /\ k + 1 \in Names /\ k - 1 \in Nat
  BY NamesAre, StateConstants
<1>2. ASSUME NEW n \in 1..(Slots - 1), At(f, k, n) # NoState \/ f[k + 1] = NoState
      PROVE  At(g, k - 1, n) = At(f, k, n)
  <2>1. n \in Names /\ n + 1 \in Names
    BY NamesAre, StateConstants
  <2>2. CASE n = k
    BY <2>1, <2>2, <1>1, <1>2, StateConstants DEF At, Moved
  <2>3. CASE n < k
    BY <2>1, <2>3, <1>1, StateConstants DEF At, Moved
  <2>4. CASE n > k
    BY <2>1, <2>4, <1>1, StateConstants DEF At, Moved
  <2> QED BY <2>2, <2>3, <2>4, StateConstants
<1> HIDE DEF g
<1>3. ASSUME Behind(f, r, c, k, Slots - 1), NEW i \in 1..Len(r), i <= Slots - 1 - c
      PROVE  \E n \in i..(i + c) : At(g, k - 1, n) = r[i]
  <2>1. i \in Nat /\ r[i] # NoState
    BY <1>3, NoStateNotSaved
  <2>2. PICK n \in i..(i + c) : At(f, k, n) = r[i]
    BY <1>3 DEF Behind
  <2>3. n \in 1..(Slots - 1)
    BY <1>3, <2>1, StateConstants
  <2> QED BY <1>2, <2>1, <2>2, <2>3
<1>4. Behind(f, r, c, k, Slots - 1) => Behind(g, r, c, k - 1, Slots - 1)
  BY <1>3 DEF Behind
<1>5. Exact(f, r, k, Slots - 1) /\ f[k + 1] = NoState => Exact(g, r, k - 1, Slots - 1)
  BY <1>2 DEF Exact
<1> QED BY <1>4, <1>5 DEF g

LEMMA FirstMoved ==
    ASSUME NEW f \in [Names -> Files], f[0] # NoState
    PROVE  Moved(f, 0)[1] = f[0] /\ \A n \in 2..Slots : Moved(f, 0)[n] = f[n]
BY NamesAre, StateConstants DEF Moved

\* The places that a window of c + 1 places and the next one share.
LEMMA NextPlace ==
    ASSUME NEW c \in Nat, NEW j \in Nat, NEW k \in Nat, NEW i \in Nat, NEW n \in j..(j + c),
           1 <= j, j <= k - 1 - c, i = j + 1
    PROVE  n \in 1..(k - 1) /\ n + 1 \in i..(i + c)
OBVIOUS

\* The last move: the new save is the first of the ring.
LEMMA MoveEnds ==
    ASSUME NEW f \in [Names -> Files], NEW r \in Seq(Saved), NEW c \in Nat,
           NEW s \in Seq(Saved), f[0] # NoState, Len(r) <= Slots,
           Len(s) = IF Len(r) < Slots THEN Len(r) + 1 ELSE Slots,
           \A i \in 1..Len(s) : s[i] = IF i = 1 THEN f[0] ELSE r[i - 1]
    PROVE  /\ Behind(f, r, c, 0, Slots - 1) => Behind(Moved(f, 0), s, c, Slots, Slots)
           /\ Exact(f, r, 0, Slots - 1) => Exact(Moved(f, 0), s, Slots, Slots)
<1> DEFINE g == Moved(f, 0)
<1>1. PICK len \in Nat : len = Len(r) /\ len <= Slots
  OBVIOUS
<1>2. PICK more \in Nat : more = Len(s) /\ more = IF len < Slots THEN len + 1 ELSE Slots
  BY <1>1, StateConstants
<1>3. g[1] = f[0] /\ \A n \in 2..Slots : g[n] = f[n]
  BY FirstMoved
<1> HIDE DEF g
<1>4. \A n \in 1..Slots : At(g, Slots, n) = g[n]
  BY StateConstants DEF At
<1>5. \A n \in 1..(Slots - 1) : At(g, Slots, n + 1) = At(f, 0, n)
  <2>1. ASSUME NEW n \in 1..(Slots - 1) PROVE At(g, Slots, n + 1) = At(f, 0, n)
    <3>1. n + 1 \in 2..Slots /\ n + 1 \in 1..Slots /\ n > 0
      BY StateConstants
    <3> QED BY <3>1, <1>3, <1>4 DEF At
  <2> QED BY <2>1
<1>6. ASSUME Behind(f, r, c, 0, Slots - 1), NEW i \in 1..more, i <= Slots - c
      PROVE  \E n \in i..(i + c) : At(g, Slots, n) = s[i]
  <2>1. CASE i = 1
    <3>1. At(g, Slots, 1) = s[1] /\ 1 \in i..(i + c)
      BY <1>2, <1>3, <1>4, <2>1, StateConstants
    <3> QED BY <3>1, <2>1
  <2>2. CASE i # 1
    <3>1. PICK j \in Nat : i = j + 1 /\ 1 <= j /\ j <= len /\ j <= Slots - 1 - c
      BY <2>2, <1>6, <1>1, <1>2, StateConstants
    <3>2. j \in 1..Len(r) /\ s[i] = r[j]
      BY SMTT(40), <3>1, <2>2, <1>1, <1>2
    <3>3. PICK n \in j..(j + c) : At(f, 0, n) = r[j]
      BY <1>6, <3>1, <3>2 DEF Behind
    <3>4. Slots \in Nat /\ i \in Nat
      BY StateConstants
    <3>5. n \in 1..(Slots - 1) /\ n + 1 \in i..(i + c)
      BY <3>1, <3>4, NextPlace
    <3> QED BY <3>2, <3>3, <3>5, <1>5
  <2> QED BY <2>1, <2>2
<1>7. ASSUME Exact(f, r, 0, Slots - 1), NEW i \in 1..Slots
      PROVE  At(g, Slots, i) = IF i <= more THEN s[i] ELSE NoState
  <2>1. CASE i = 1
    BY <1>2, <1>3, <1>4, <2>1, StateConstants
  <2>2. CASE i # 1
    <3>1. PICK j \in Nat : i = j + 1 /\ j \in 1..(Slots - 1)
      <4>1. i - 1 \in Nat /\ i = (i - 1) + 1 /\ i - 1 \in 1..(Slots - 1)
        BY <2>2, StateConstants
      <4> QED BY <4>1
    <3>2. At(g, Slots, i) = IF j <= len THEN r[j] ELSE NoState
      BY <3>1, <1>1, <1>5, <1>7 DEF Exact
    <3>3. j <= len <=> i <= more
      BY <3>1, <1>1, <1>2, StateConstants
    <3>4. j <= len => s[i] = r[j]
      BY <3>1, <3>3, <2>2, <1>2
    <3> QED BY <3>2, <3>3, <3>4
  <2> QED BY <2>1, <2>2
<1>8. Behind(f, r, c, 0, Slots - 1) => Behind(g, s, c, Slots, Slots)
  BY <1>2, <1>6 DEF Behind
<1>9. Exact(f, r, 0, Slots - 1) => Exact(g, s, Slots, Slots)
  BY <1>2, <1>7 DEF Exact
<1> QED BY <1>8, <1>9 DEF g

\* A crash leaves one more place open, in a rotation or out of one.
LEMMA CrashLeaves ==
    ASSUME NEW f, NEW r \in Seq(Saved), NEW c \in Nat, NEW k \in 0..(Slots - 1)
    PROVE  \/ Behind(f, r, c, Slots, Slots) \/ Behind(f, r, c, k, Slots - 1)
           => Behind(f, r, c + 1, Slots, Slots)
<1> SUFFICES ASSUME Behind(f, r, c, Slots, Slots) \/ Behind(f, r, c, k, Slots - 1),
                    NEW i \in 1..Len(r), i <= Slots - (c + 1)
             PROVE  \E n \in i..(i + (c + 1)) : At(f, Slots, n) = r[i]
  BY DEF Behind
<1>1. i \in Nat /\ 1 <= i /\ i <= Slots - c /\ i <= Slots - 1 - c
  BY StateConstants
<1>2. CASE Behind(f, r, c, Slots, Slots)
  <2>1. PICK n \in i..(i + c) : At(f, Slots, n) = r[i]
    BY <1>1, <1>2 DEF Behind
  <2> QED BY <2>1, <1>1
<1>3. CASE Behind(f, r, c, k, Slots - 1)
  <2>1. PICK n \in i..(i + c) : At(f, k, n) = r[i]
    BY <1>1, <1>3 DEF Behind
  <2>2. n \in Nat /\ n + 1 <= Slots /\ n \in i..(i + (c + 1)) /\ n + 1 \in i..(i + (c + 1))
    BY <2>1, <1>1, StateConstants
  <2>3. At(f, Slots, n) = f[n] /\ At(f, Slots, n + 1) = f[n + 1]
    BY <2>2, StateConstants DEF At
  <2>4. r[i] = f[n] \/ r[i] = f[n + 1]
    BY <2>1 DEF At
  <2> QED BY <2>2, <2>3, <2>4
<1> QED BY <1>2, <1>3

\* What happens to the other files does not matter.
LEMMA RingOnly ==
    ASSUME NEW f, NEW g, NEW r \in Seq(Saved), NEW c \in Nat, \A n \in 1..Slots : g[n] = f[n]
    PROVE  /\ Behind(f, r, c, Slots, Slots) => Behind(g, r, c, Slots, Slots)
           /\ Exact(f, r, Slots, Slots) => Exact(g, r, Slots, Slots)
<1>1. \A n \in 1..Slots : At(g, Slots, n) = At(f, Slots, n)
  BY StateConstants DEF At
<1>2. ASSUME Behind(f, r, c, Slots, Slots), NEW i \in 1..Len(r), i <= Slots - c
      PROVE  \E n \in i..(i + c) : At(g, Slots, n) = r[i]
  <2>1. i \in Nat /\ 1 <= i
    OBVIOUS
  <2>2. PICK n \in i..(i + c) : At(f, Slots, n) = r[i]
    BY <1>2 DEF Behind
  <2>3. n \in 1..Slots
    BY <1>2, <2>1, <2>2, StateConstants
  <2> QED BY <1>1, <2>2, <2>3
<1> QED BY <1>1, <1>2 DEF Behind, Exact

\* What is owed is in one of the undo files, and nowhere else when the other goes.
Owed(o, f) == f # NoState /\ f.was = o

-----------------------------------------------------------------------------
(***************************************************************************)
(* The save states: the invariant, and the steps that leave the ring alone.*)
(***************************************************************************)
Rotating == task.step \in {"remove", "move"}
Steps == {"none", "write", "commit", "check", "load", "unhold", "remove", "move", "drop"}

StateTyped ==
    /\ machine \in Machines \cup {Broken}
    /\ disk \in [image : Nat, cache : Nat]
    /\ files \in [Names -> Files]
    /\ task \in [op : {"none", "save", "load", "undo"}, step : Steps, k : Names]
    /\ ring \in Seq(Saved) /\ Len(ring) <= Slots
    /\ owed \subseteq Machines
    /\ used \in [id : Nat, tasks : Nat, crashes : Nat]

\* The live machine finds on the disk what its guest believes.
OnItsDisk == machine # Broken => machine.disk = disk.cache

\* Where a task has got to.  A save has its sections; a load's state fits the image.
Underway ==
    /\ task.op = "none" => task.step = "none"
    /\ task.step = "commit" => temp \in Saved /\ temp.was = machine
    /\ task.step = "load" => files[task.k].image = disk.image
    /\ task.op = "save" => task.step \in {"write", "commit", "remove", "move"}
    /\ task.op = "load" => /\ task.step \in {"write", "commit", "check", "load"}
                           /\ task.k \in 1..Slots /\ files[task.k] # NoState
    /\ task.op = "undo" => /\ task.step \in {"write", "commit", "check", "load", "unhold", "drop"}
                           /\ task.k = Held /\ files[Held] # NoState
                           /\ task.step \in {"write", "commit", "unhold"} => files[Undo] = NoState
    /\ Rotating => task.op = "save" /\ task.k \in 0..(Slots - 1) /\ files[0] # NoState

\* What has to be brought back is in an undo file that stays.
Owing ==
    \A o \in owed : Owed(o, files[Undo]) \/ (Owed(o, files[Held]) /\ task.step # "drop")

\* The files of the ring, between rotations and in one.
RingStands ==
    /\ ~Rotating => /\ Behind(files, ring, used.crashes, Slots, Slots)
                    /\ used.crashes = 0 => Exact(files, ring, Slots, Slots)
    /\ Rotating => /\ Behind(files, ring, used.crashes, task.k, Slots - 1)
                   /\ used.crashes = 0 =>
                        /\ Exact(files, ring, task.k, Slots - 1)
                        /\ task.step = "move" => files[task.k + 1] = NoState

StateInv == StateTyped /\ OnItsDisk /\ Underway /\ Owing /\ RingStands

LEMMA NotRotated ==
    ASSUME StateInv, ring' = ring, used'.crashes = used.crashes, ~Rotating, ~Rotating',
           \A n \in 1..Slots : files'[n] = files[n]
    PROVE  RingStands'
<1>1. ring \in Seq(Saved) /\ used.crashes \in Nat
  BY DEF StateInv, StateTyped
<1>2. /\ Behind(files, ring, used.crashes, Slots, Slots) => Behind(files', ring, used.crashes, Slots, Slots)
      /\ Exact(files, ring, Slots, Slots) => Exact(files', ring, Slots, Slots)
  BY <1>1, RingOnly
<1> QED BY <1>2 DEF StateInv, RingStands

\* A step of the list, and the end of a task.
LEMMA GotoIs ==
    ASSUME StateTyped, NEW s \in Steps
    PROVE  StateSave!Goto(s) => task' = [op |-> task.op, step |-> s, k |-> task.k]
BY DEF StateTyped, StateSave!Goto

LEMMA DoneIs == StateSave!Done => task' = [op |-> "none", step |-> "none", k |-> 0]
BY DEF StateSave!Done, StateSave!Idle

LEMMA IdleIs ==
    ASSUME task = [op |-> "none", step |-> "none", k |-> 0]
    PROVE  task \in [op : {"none", "save", "load", "undo"}, step : Steps, k : Names]
           /\ ~Rotating /\ task.op = "none" /\ task.step = "none"
BY NamesAre DEF Rotating, Steps

LEMMA StatesStart ==
    ASSUME StateSave!Init
    PROVE  StateInv
<1>1. /\ machine = Machine(0, Queues[0], 0) /\ disk = [image |-> 0, cache |-> 0] /\ files = [n \in Names |-> NoState]
      /\ task = [op |-> "none", step |-> "none", k |-> 0] /\ ring = <<>> /\ owed = {}
      /\ used = [id |-> 1, tasks |-> 0, crashes |-> 0]
  BY DEF StateSave!Init, StateSave!Idle, Machine, Names, NoState
<1>2. machine \in Machines
  <2>1. 0 \in 0..MaxId /\ Like(Queues[0], Queues[0])
    BY StateConstants
  <2> QED BY <2>1, <1>1, MachineMade
<1>3. files \in [Names -> Files] /\ \A n \in Names : files[n] = NoState
  BY <1>1 DEF Files
<1>4. StateTyped
  BY <1>1, <1>2, <1>3, IdleIs DEF StateTyped
<1>5. Behind(files, ring, 0, Slots, Slots) /\ Exact(files, ring, Slots, Slots)
  <2>1. \A n \in 1..Slots : files[n] = NoState
    BY <1>3, NamesAre
  <2>2. \A i \in 1..Slots : At(files, Slots, i) = NoState
    BY <2>1, StateConstants DEF At
  <2>3. Len(ring) = 0
    BY <1>1
  <2> QED BY <2>2, <2>3 DEF Behind, Exact
<1>6. OnItsDisk /\ Underway /\ Owing
  BY <1>1, IdleIs DEF OnItsDisk, Underway, Owing, Machine
<1>7. RingStands
  BY <1>1, <1>5, IdleIs DEF RingStands
<1> QED BY <1>4, <1>6, <1>7 DEF StateInv

LEMMA StatesStutter ==
    ASSUME StateInv, UNCHANGED stateVars
    PROVE  StateInv'
<1>1. /\ machine' = machine /\ disk' = disk /\ files' = files /\ temp' = temp /\ task' = task
      /\ ring' = ring /\ owed' = owed /\ used' = used
  BY DEF stateVars
<1>2. StateTyped' /\ OnItsDisk'
  BY <1>1 DEF StateInv, StateTyped, OnItsDisk
<1>3. Underway'
  BY <1>1 DEF StateInv, Underway, Rotating
<1>4. Owing'
  BY <1>1 DEF StateInv, Owing
<1>5. RingStands'
  BY <1>1 DEF StateInv, RingStands, Rotating
<1> QED BY <1>2, <1>3, <1>4, <1>5 DEF StateInv

LEMMA GuestRunsKeeps ==
    ASSUME StateInv, NEW writes \in BOOLEAN, StateSave!Run(writes)
    PROVE  StateInv'
<1>1. /\ task = [op |-> "none", step |-> "none", k |-> 0] /\ machine # Broken /\ used.id <= MaxId
      /\ used' = [used EXCEPT !.id = @ + 1]
      /\ disk' = IF writes THEN [disk EXCEPT !.cache = used.id] ELSE disk
      /\ machine' = Machine(used.id, Queues[used.id], IF writes THEN used.id ELSE machine.disk)
      /\ files' = files /\ temp' = temp /\ task' = task /\ ring' = ring /\ owed' = owed
  BY DEF StateSave!Run, StateSave!Idle, Broken, Machine
<1>2. used \in [id : Nat, tasks : Nat, crashes : Nat] /\ disk \in [image : Nat, cache : Nat]
  BY DEF StateInv, StateTyped
<1>3. PICK id \in 0..MaxId : id = used.id
  BY <1>1, <1>2, StateConstants
<1>4. machine \in Machines /\ machine.disk \in Nat
  BY <1>1, MachineIs DEF StateInv, StateTyped
<1>5. machine' \in Machines /\ machine'.disk = IF writes THEN id ELSE machine.disk
  <2>1. PICK d \in Nat : d = IF writes THEN id ELSE machine.disk
    BY <1>4
  <2>2. Like(Queues[id], Queues[id])
    BY StateConstants
  <2>3. machine' = Machine(id, Queues[id], d)
    BY <1>1, <1>3, <2>1
  <2> QED BY <2>1, <2>2, <2>3, MachineMade
<1>6. /\ disk' \in [image : Nat, cache : Nat] /\ disk'.cache = IF writes THEN id ELSE disk.cache
      /\ used' \in [id : Nat, tasks : Nat, crashes : Nat] /\ used'.crashes = used.crashes
  BY <1>1, <1>2, <1>3, StateConstants
<1>7. StateTyped'
  BY <1>1, <1>5, <1>6 DEF StateInv, StateTyped
<1>8. OnItsDisk'
  BY <1>1, <1>5, <1>6 DEF StateInv, OnItsDisk
<1>9. Underway' /\ ~Rotating /\ ~Rotating'
  BY <1>1, IdleIs DEF Underway, Rotating
<1>10. Owing'
  BY <1>1 DEF StateInv, Owing
<1>11. RingStands'
  BY <1>1, <1>6, <1>9, NotRotated
<1> QED BY <1>7, <1>8, <1>9, <1>10, <1>11 DEF StateInv

\* The user asks for something: the machine and the disk stay.
LEMMA AsksKeep ==
    ASSUME StateInv, StateSave!Another, machine' = machine, disk' = disk, ring' = ring, owed' = owed,
           files' \in [Names -> Files], \A n \in 1..Slots : files'[n] = files[n],
           task.op = "none" /\ task.step = "none" /\ ~Rotating,
           task'.op # "none" /\ task'.step = "write",
           task' \in [op : {"none", "save", "load", "undo"}, step : Steps, k : Names]
    PROVE  StateTyped' /\ OnItsDisk' /\ RingStands' /\ ~Rotating'
<1>1. used' \in [id : Nat, tasks : Nat, crashes : Nat] /\ used'.crashes = used.crashes
  BY DEF StateSave!Another, StateInv, StateTyped
<1>2. StateTyped'
  BY <1>1 DEF StateInv, StateTyped
<1>3. OnItsDisk'
  BY DEF StateInv, OnItsDisk
<1>4. ~Rotating'
  BY DEF Rotating
<1>5. RingStands'
  BY <1>1, <1>4, NotRotated
<1> QED BY <1>2, <1>3, <1>4, <1>5

LEMMA QuickSaveKeeps ==
    ASSUME StateInv, StateSave!QuickSave
    PROVE  StateInv'
<1>1. /\ task = [op |-> "none", step |-> "none", k |-> 0] /\ StateSave!Another
      /\ task' = [op |-> "save", step |-> "write", k |-> 0]
      /\ machine' = machine /\ disk' = disk /\ files' = files /\ temp' = temp /\ ring' = ring /\ owed' = owed
  BY DEF StateSave!QuickSave, StateSave!Idle
<1>2. task.op = "none" /\ task.step = "none" /\ ~Rotating
  BY <1>1, IdleIs
<1>3. task' \in [op : {"none", "save", "load", "undo"}, step : Steps, k : Names]
  BY <1>1, NamesAre DEF Steps
<1>4. StateTyped' /\ OnItsDisk' /\ RingStands' /\ ~Rotating'
  <2>1. files' \in [Names -> Files] /\ \A n \in 1..Slots : files'[n] = files[n]
    BY <1>1 DEF StateInv, StateTyped
  <2>2. task'.op # "none" /\ task'.step = "write"
    BY <1>1
  <2> QED BY <2>1, <2>2, <1>1, <1>2, <1>3, AsksKeep
<1>5. Underway'
  BY <1>1, <1>4 DEF Underway, Rotating
<1>6. Owing'
  BY <1>1 DEF StateInv, Owing
<1> QED BY <1>4, <1>5, <1>6 DEF StateInv

LEMMA QuickLoadKeeps ==
    ASSUME StateInv, NEW k \in 1..Slots, StateSave!QuickLoad(k)
    PROVE  StateInv'
<1>1. /\ task = [op |-> "none", step |-> "none", k |-> 0] /\ StateSave!Another
      /\ task' = [op |-> "load", step |-> "write", k |-> k] /\ files[k] # NoState
      /\ machine' = machine /\ disk' = disk /\ files' = files /\ temp' = temp /\ ring' = ring /\ owed' = owed
  BY DEF StateSave!QuickLoad, StateSave!Idle, StateSave!Exists, NoState
<1>2. task.op = "none" /\ task.step = "none" /\ ~Rotating
  BY <1>1, IdleIs
<1>3. task' \in [op : {"none", "save", "load", "undo"}, step : Steps, k : Names]
  BY <1>1, NamesAre DEF Steps
<1>4. StateTyped' /\ OnItsDisk' /\ RingStands' /\ ~Rotating'
  <2>1. files' \in [Names -> Files] /\ \A n \in 1..Slots : files'[n] = files[n]
    BY <1>1 DEF StateInv, StateTyped
  <2>2. task'.op # "none" /\ task'.step = "write"
    BY <1>1
  <2> QED BY <2>1, <2>2, <1>1, <1>2, <1>3, AsksKeep
<1>5. Underway'
  BY <1>1, <1>4 DEF Underway, Rotating
<1>6. Owing'
  BY <1>1 DEF StateInv, Owing
<1> QED BY <1>4, <1>5, <1>6 DEF StateInv

LEMMA QuickUndoKeeps ==
    ASSUME StateInv, StateSave!QuickUndo
    PROVE  StateInv'
<1>1. /\ task = [op |-> "none", step |-> "none", k |-> 0] /\ StateSave!Another
      /\ task' = [op |-> "undo", step |-> "write", k |-> Held]
      /\ files[Undo] # NoState /\ files[Held] = NoState
      /\ files' = [files EXCEPT ![Held] = files[Undo], ![Undo] = NoState]
      /\ machine' = machine /\ disk' = disk /\ temp' = temp /\ ring' = ring /\ owed' = owed
  BY DEF StateSave!QuickUndo, StateSave!Idle, StateSave!Exists, NoState, Held, Undo
<1>2. task.op = "none" /\ task.step = "none" /\ ~Rotating
  BY <1>1, IdleIs
<1>3. task' \in [op : {"none", "save", "load", "undo"}, step : Steps, k : Names]
  BY <1>1, NamesAre DEF Steps
<1>4. files \in [Names -> Files] /\ files[Undo] \in Files /\ NoState \in Files
  BY NamesAre DEF StateInv, StateTyped, Files
<1>5. /\ files' \in [Names -> Files] /\ files'[Held] = files[Undo] /\ files'[Undo] = NoState
      /\ \A n \in 1..Slots : files'[n] = files[n]
  BY <1>1, <1>4, NamesAre
<1>6. StateTyped' /\ OnItsDisk' /\ RingStands' /\ ~Rotating'
  <2>1. task'.op # "none" /\ task'.step = "write"
    BY <1>1
  <2> QED BY <2>1, <1>1, <1>2, <1>3, <1>5, AsksKeep
<1>7. Underway'
  BY <1>1, <1>5, <1>6 DEF Underway, Rotating
<1>8. Owing'
  BY <1>1, <1>5 DEF StateInv, Owing, Owed
<1> QED BY <1>6, <1>7, <1>8 DEF StateInv

\* A task goes on or ends, and the files stay.
LEMMA GoesOn ==
    ASSUME StateInv, machine' \in Machines \cup {Broken}, disk' \in [image : Nat, cache : Nat],
           files' = files, ring' = ring, used' = used, ~Rotating, ~Rotating',
           task' \in [op : {"none", "save", "load", "undo"}, step : Steps, k : Names]
    PROVE  /\ RingStands'
           /\ owed' \subseteq Machines => StateTyped'
           /\ owed' \subseteq owed /\ task'.step # "drop" => Owing'
<1>1. RingStands'
  BY NotRotated
<1>2. owed' \subseteq Machines => StateTyped'
  BY DEF StateInv, StateTyped
<1>3. owed' \subseteq owed /\ task'.step # "drop" => Owing'
  BY DEF StateInv, Owing
<1> QED BY <1>1, <1>2, <1>3

\* The step that follows a failure, and the flushed disk.
LEMMA FailedIs ==
    ASSUME StateTyped, StateSave!Failed
    PROVE  task' = IF task.op = "undo" THEN [op |-> task.op, step |-> "unhold", k |-> task.k]
                   ELSE [op |-> "none", step |-> "none", k |-> 0]
BY GotoIs, DoneIs DEF StateSave!Failed, Steps

LEMMA ImageIsFlushed ==
    ASSUME NEW d \in [image : Nat, cache : Nat]
    PROVE  StateSave!Flushed(d) = [image |-> d.cache, cache |-> d.cache]
BY DEF StateSave!Flushed

LEMMA SaveWriteKeeps ==
    ASSUME StateInv, StateSave!SaveWrite
    PROVE  StateInv'
<1>1. /\ task.step = "write" /\ disk \in [image : Nat, cache : Nat] /\ task.k \in Names
      /\ task \in [op : {"none", "save", "load", "undo"}, step : Steps, k : Names]
  BY DEF StateSave!SaveWrite, StateInv, StateTyped
<1>2. /\ disk' = disk \/ disk' = [image |-> disk.cache, cache |-> disk.cache]
      /\ machine' = machine /\ files' = files /\ ring' = ring /\ owed' = owed /\ used' = used
  BY <1>1, ImageIsFlushed DEF StateSave!SaveWrite
<1>3. \/ /\ disk' = [image |-> disk.cache, cache |-> disk.cache]
         /\ temp' = SavedOf(machine, disk'.image)
         /\ task' = [op |-> task.op, step |-> "commit", k |-> task.k]
      \/ task' = IF task.op = "undo" THEN [op |-> task.op, step |-> "unhold", k |-> task.k]
                 ELSE [op |-> "none", step |-> "none", k |-> 0]
  <2>1. StateSave!Goto("commit") => task' = [op |-> task.op, step |-> "commit", k |-> task.k]
    BY GotoIs DEF StateInv, Steps
  <2>2. StateSave!Failed => task' = IF task.op = "undo" THEN [op |-> task.op, step |-> "unhold", k |-> task.k]
                                    ELSE [op |-> "none", step |-> "none", k |-> 0]
    BY FailedIs DEF StateInv
  <2> QED BY <2>1, <2>2, <1>1, ImageIsFlushed DEF StateSave!SaveWrite, SavedOf
<1>4. disk' \in [image : Nat, cache : Nat] /\ disk'.cache = disk.cache
  BY <1>1, <1>2
<1>5. machine \in Machines \cup {Broken} /\ owed \subseteq Machines
  BY DEF StateInv, StateTyped
<1>6. /\ task' \in [op : {"none", "save", "load", "undo"}, step : Steps, k : Names]
      /\ task'.step \in {"commit", "unhold", "none"} /\ ~Rotating /\ ~Rotating'
  BY <1>1, <1>3, NamesAre DEF Steps, Rotating
<1>7. StateTyped' /\ RingStands' /\ Owing'
  <2>1. machine' \in Machines \cup {Broken} /\ owed' \subseteq Machines /\ owed' \subseteq owed
    BY <1>2, <1>5
  <2>2. task'.step # "drop"
    BY <1>6
  <2> QED BY <1>2, <1>4, <1>6, <2>1, <2>2, GoesOn
<1>8. OnItsDisk'
  BY <1>2, <1>4 DEF StateInv, OnItsDisk
<1>9. Underway'
  <2>1. ASSUME task'.step = "commit" PROVE temp' \in Saved /\ temp'.was = machine'
    <3>1. temp' = SavedOf(machine, disk.cache) /\ disk.cache \in Nat
      BY <1>1, <1>3, <2>1
    <3>2. machine = Broken \/ machine.disk = disk.cache
      BY DEF StateInv, OnItsDisk
    <3> QED BY <3>1, <3>2, <1>2, <1>5, LiveSaved
  <2>2. Underway
    BY DEF StateInv
  <2> QED BY <1>1, <1>2, <1>3, <1>6, <2>1, <2>2 DEF Underway
<1> QED BY <1>7, <1>8, <1>9 DEF StateInv

\* The new file is there, as quick-new.sav or as the undo file.
LEMMA CommitSaveKeeps ==
    ASSUME StateInv, task.op = "save", task.step = "commit",
           files' = [files EXCEPT ![0] = temp],
           task' = [op |-> task.op, step |-> "remove", k |-> Slots - 1],
           machine' = machine, disk' = disk, ring' = ring, owed' = owed, used' = used
    PROVE  StateInv'
<1>1. /\ files \in [Names -> Files] /\ temp \in Saved /\ ring \in Seq(Saved) /\ used.crashes \in Nat
      /\ task \in [op : {"none", "save", "load", "undo"}, step : Steps, k : Names]
  BY DEF StateInv, StateTyped, Underway
<1>2. /\ files' \in [Names -> Files] /\ files'[0] = temp /\ files'[0] # NoState
      /\ files'[Undo] = files[Undo] /\ files'[Held] = files[Held]
      /\ \A n \in 1..Slots : files'[n] = files[n]
  BY <1>1, NamesAre, NoStateNotSaved DEF Files
<1>3. /\ task' \in [op : {"none", "save", "load", "undo"}, step : Steps, k : Names]
      /\ task'.op = "save" /\ task'.step = "remove" /\ task'.k = Slots - 1 /\ Slots - 1 \in 0..(Slots - 1)
  BY <1>1, NamesAre, StateConstants DEF Steps
<1>4. ~Rotating /\ Rotating'
  BY <1>3 DEF Rotating
<1>5. StateTyped'
  BY <1>2, <1>3 DEF StateInv, StateTyped
<1>6. OnItsDisk'
  BY DEF StateInv, OnItsDisk
<1>7. Underway'
  BY <1>2, <1>3, <1>4 DEF Underway
<1>8. Owing'
  BY <1>2, <1>3 DEF StateInv, Owing
<1>9. RingStands'
  <2>1. /\ Behind(files, ring, used.crashes, Slots, Slots)
        /\ used.crashes = 0 => Exact(files, ring, Slots, Slots)
    BY <1>4 DEF StateInv, RingStands
  <2>2. /\ Behind(files', ring, used.crashes, Slots, Slots)
        /\ used.crashes = 0 => Exact(files', ring, Slots, Slots)
    BY <2>1, <1>1, <1>2, RingOnly
  <2>3. /\ Behind(files', ring, used.crashes, Slots - 1, Slots - 1)
        /\ used.crashes = 0 => Exact(files', ring, Slots - 1, Slots - 1)
    BY <2>2, <1>1, RotationStarts
  <2> QED BY <2>3, <1>3, <1>4 DEF RingStands
<1> QED BY <1>5, <1>6, <1>7, <1>8, <1>9 DEF StateInv

LEMMA CommitUndoKeeps ==
    ASSUME StateInv, task.op \in {"load", "undo"}, task.step = "commit",
           files' = [files EXCEPT ![Undo] = temp],
           task' = [op |-> task.op, step |-> "check", k |-> task.k],
           owed' = StateSave!OwedAfter,
           machine' = machine, disk' = disk, ring' = ring, used' = used
    PROVE  StateInv'
<1>1. /\ files \in [Names -> Files] /\ temp \in Saved /\ temp.was = machine
      /\ machine \in Machines \cup {Broken} /\ owed \subseteq Machines
      /\ task \in [op : {"none", "save", "load", "undo"}, step : Steps, k : Names]
  BY DEF StateInv, StateTyped, Underway
<1>2. /\ files' \in [Names -> Files] /\ files'[Undo] = temp /\ files'[Undo] # NoState
      /\ files'[0] = files[0] /\ files'[Held] = files[Held]
      /\ \A n \in 1..Slots : files'[n] = files[n]
  BY <1>1, NamesAre, NoStateNotSaved DEF Files
<1>3. /\ task' \in [op : {"none", "save", "load", "undo"}, step : Steps, k : Names]
      /\ task'.op = task.op /\ task'.step = "check" /\ task'.k = task.k
  BY <1>1 DEF Steps
<1>4. ~Rotating /\ ~Rotating'
  BY <1>3 DEF Rotating
<1>5. \A o \in owed' : o = machine \/ (o \in owed /\ (task.op = "undo" \/ Owed(o, files[Held])))
  BY DEF StateSave!OwedAfter, StateSave!Exists, NoState, Held, Owed
<1>6. owed' \subseteq Machines
  BY <1>1 DEF StateSave!OwedAfter, Broken
<1>7. StateTyped'
  BY <1>2, <1>3, <1>6 DEF StateInv, StateTyped
<1>8. OnItsDisk'
  BY DEF StateInv, OnItsDisk
<1>9. Underway'
  BY <1>2, <1>3, <1>4 DEF StateInv, Underway
<1>10. Owing'
  <2>1. ASSUME NEW o \in owed' PROVE Owed(o, files'[Undo]) \/ Owed(o, files'[Held])
    <3>1. CASE o = machine
      BY <3>1, <1>1, <1>2 DEF Owed
    <3>2. CASE o \in owed /\ task.op = "undo"
      <4>1. files[Undo] = NoState
        BY <3>2 DEF StateInv, Underway
      <4>2. Owed(o, files[Held])
        BY <3>2, <4>1 DEF StateInv, Owing, Owed
      <4> QED BY <4>2, <1>2
    <3>3. CASE Owed(o, files[Held])
      BY <3>3, <1>2
    <3> QED BY <2>1, <1>5, <3>1, <3>2, <3>3
  <2> QED BY <2>1, <1>3 DEF Owing
<1>11. RingStands'
  BY <1>2, <1>4, NotRotated
<1> QED BY <1>7, <1>8, <1>9, <1>10, <1>11 DEF StateInv

LEMMA SaveCommitKeeps ==
    ASSUME StateInv, StateSave!SaveCommit
    PROVE  StateInv'
<1>1. /\ task.step = "commit" /\ machine' = machine /\ disk' = disk /\ ring' = ring /\ used' = used
      /\ task \in [op : {"none", "save", "load", "undo"}, step : Steps, k : Names]
      /\ disk \in [image : Nat, cache : Nat] /\ machine \in Machines \cup {Broken} /\ owed \subseteq Machines
  BY DEF StateSave!SaveCommit, StateInv, StateTyped
<1>2. task.op \in {"save", "load", "undo"}
  BY <1>1 DEF StateInv, Underway
<1>3. CASE /\ files' = [files EXCEPT ![StateSave!Dest] = temp] /\ task.op = "save"
           /\ task' = [task EXCEPT !.step = "remove", !.k = Slots - 1] /\ owed' = owed
  <2>1. StateSave!Dest = 0
    BY <1>3 DEF StateSave!Dest, StateSave!Fresh
  <2>2. task' = [op |-> task.op, step |-> "remove", k |-> Slots - 1]
    BY <1>1, <1>3
  <2> QED BY <1>1, <1>3, <2>1, <2>2, CommitSaveKeeps
<1>4. CASE /\ files' = [files EXCEPT ![StateSave!Dest] = temp] /\ task.op # "save"
           /\ StateSave!Goto("check") /\ owed' = StateSave!OwedAfter
  <2>1. StateSave!Dest = Undo
    BY <1>4 DEF StateSave!Dest, Undo
  <2>2. task' = [op |-> task.op, step |-> "check", k |-> task.k]
    BY <1>4, GotoIs DEF StateInv, Steps
  <2>3. task.op \in {"load", "undo"}
    BY <1>2, <1>4
  <2> QED BY <1>1, <1>4, <2>1, <2>2, <2>3, CommitUndoKeeps
<1>5. CASE files' = files /\ owed' = owed /\ StateSave!Failed
  <2>1. task' = IF task.op = "undo" THEN [op |-> task.op, step |-> "unhold", k |-> task.k]
                ELSE [op |-> "none", step |-> "none", k |-> 0]
    BY <1>5, FailedIs DEF StateInv
  <2>2. /\ task' \in [op : {"none", "save", "load", "undo"}, step : Steps, k : Names]
        /\ task'.step \in {"unhold", "none"} /\ ~Rotating /\ ~Rotating'
    BY <1>1, <2>1, NamesAre DEF Steps, Rotating
  <2>3. StateTyped' /\ RingStands' /\ Owing'
    <3>1. machine' \in Machines \cup {Broken} /\ disk' \in [image : Nat, cache : Nat] /\ task'.step # "drop"
          /\ owed' \subseteq Machines /\ owed' \subseteq owed
      BY <1>1, <1>5, <2>2
    <3> QED BY <1>1, <1>5, <2>2, <3>1, GoesOn
  <2>4. OnItsDisk'
    BY <1>1 DEF StateInv, OnItsDisk
  <2>5. Underway
    BY DEF StateInv
  <2>6. Underway'
    BY <1>1, <1>5, <2>1, <2>2, <2>5 DEF Underway
  <2> QED BY <2>3, <2>4, <2>6 DEF StateInv
<1> QED BY <1>3, <1>4, <1>5 DEF StateSave!SaveCommit

LEMMA UnholdKeeps ==
    ASSUME StateInv, StateSave!Unhold
    PROVE  StateInv'
<1>1. /\ task.step = "unhold" /\ task' = [op |-> "none", step |-> "none", k |-> 0]
      /\ \/ files' = [files EXCEPT ![Undo] = files[Held], ![Held] = NoState]
         \/ files' = files
      /\ machine' = machine /\ disk' = disk /\ temp' = temp /\ ring' = ring /\ owed' = owed /\ used' = used
      /\ task \in [op : {"none", "save", "load", "undo"}, step : Steps, k : Names]
  BY DoneIs DEF StateSave!Unhold, Undo, Held, NoState, StateInv, StateTyped
<1>2. task.op = "undo" /\ files[Held] # NoState /\ files[Undo] = NoState
  BY <1>1 DEF StateInv, Underway
<1>3. files \in [Names -> Files] /\ NoState \in Files
  BY DEF StateInv, StateTyped, Files
<1>4. /\ files' \in [Names -> Files] /\ \A n \in 1..Slots : files'[n] = files[n]
      /\ files'[Undo] = files[Held] \/ files'[Held] = files[Held]
  <2>1. CASE files' = [files EXCEPT ![Undo] = files[Held], ![Held] = NoState]
    <3>1. files[Held] \in Files /\ Undo # Held /\ Undo \in Names
      BY <1>3, NamesAre
    <3>2. files' \in [Names -> Files] /\ files'[Undo] = files[Held]
      BY <2>1, <3>1, <1>3
    <3>3. \A n \in 1..Slots : files'[n] = files[n]
      BY <2>1, <1>3, NamesAre
    <3> QED BY <3>2, <3>3
  <2>2. CASE files' = files
    BY <2>2, <1>3
  <2> QED BY <1>1, <2>1, <2>2
<1>5. /\ task'.op = "none" /\ task'.step = "none" /\ ~Rotating'
      /\ task' \in [op : {"none", "save", "load", "undo"}, step : Steps, k : Names]
  BY <1>1, NamesAre DEF Steps, Rotating
<1>6. StateTyped' /\ OnItsDisk'
  BY <1>1, <1>4, <1>5 DEF StateInv, StateTyped, OnItsDisk
<1>7. Underway'
  BY <1>5 DEF Underway
<1>8. Owing'
  <2>1. \A o \in owed : Owed(o, files[Held])
    BY <1>2 DEF StateInv, Owing, Owed
  <2> QED BY <2>1, <1>1, <1>4, <1>5 DEF Owing
<1>9. RingStands'
  BY <1>1, <1>4, <1>5, NotRotated DEF Rotating
<1> QED BY <1>6, <1>7, <1>8, <1>9 DEF StateInv

-----------------------------------------------------------------------------
(***************************************************************************)
(* The save states: the rotation.                                          *)
(***************************************************************************)
\* A step of the rotation leaves all but the ring and its files.
LEMMA RotationKeeps ==
    ASSUME StateInv, Rotating, files' \in [Names -> Files], files'[0] # NoState \/ ~Rotating',
           files'[Undo] = files[Undo] /\ files'[Held] = files[Held],
           machine' = machine /\ disk' = disk /\ temp' = temp /\ owed' = owed /\ used' = used,
           ring' \in Seq(Saved) /\ Len(ring') <= Slots,
           \/ task' = [op |-> "none", step |-> "none", k |-> 0]
           \/ /\ task'.op = task.op /\ task'.step \in {"remove", "move"} /\ task'.k \in 0..(Slots - 1)
              /\ task' \in [op : {"none", "save", "load", "undo"}, step : Steps, k : Names]
    PROVE  StateTyped' /\ OnItsDisk' /\ Underway' /\ Owing'
<1>1. task.op = "save"
  BY DEF StateInv, Underway
<1>2. \/ task'.op = "none" /\ task'.step = "none" /\ ~Rotating'
      \/ task'.op = "save" /\ task'.step \in {"remove", "move"} /\ task'.k \in 0..(Slots - 1) /\ Rotating'
  BY <1>1 DEF Rotating
<1>3. task' \in [op : {"none", "save", "load", "undo"}, step : Steps, k : Names]
  BY NamesAre DEF Steps
<1>4. StateTyped' /\ OnItsDisk'
  BY <1>3 DEF StateInv, StateTyped, OnItsDisk
<1>5. Underway'
  BY <1>2 DEF Underway
<1>6. Owing'
  BY <1>2 DEF StateInv, Owing
<1> QED BY <1>4, <1>5, <1>6

LEMMA RemoveSteps ==
    ASSUME StateInv, StateSave!RotateRemove
    PROVE  StateInv'
<1>1. PICK k \in 0..(Slots - 1) : k = task.k
  BY DEF StateSave!RotateRemove, StateInv, Underway, Rotating
<1>2. /\ task.step = "remove" /\ Rotating /\ files' = [files EXCEPT ![k + 1] = NoState]
      /\ task' = [op |-> task.op, step |-> "move", k |-> k]
      /\ machine' = machine /\ disk' = disk /\ temp' = temp /\ ring' = ring /\ owed' = owed /\ used' = used
  BY <1>1, GotoIs DEF StateSave!RotateRemove, StateInv, Rotating, NoState, Steps
<1>3. files \in [Names -> Files] /\ NoState \in Files /\ k + 1 \in 1..Slots /\ files[0] # NoState
      /\ ring \in Seq(Saved) /\ Len(ring) <= Slots /\ used.crashes \in Nat
      /\ task \in [op : {"none", "save", "load", "undo"}, step : Steps, k : Names]
  BY <1>1, <1>2, StateConstants DEF StateInv, StateTyped, Underway, Files
<1>4. /\ files' \in [Names -> Files] /\ files'[0] # NoState /\ files'[k + 1] = NoState
      /\ files'[Undo] = files[Undo] /\ files'[Held] = files[Held]
  BY <1>2, <1>3, NamesAre, StateConstants
<1>5. /\ task'.op = task.op /\ task'.step = "move" /\ task'.k = k /\ Rotating'
      /\ task' \in [op : {"none", "save", "load", "undo"}, step : Steps, k : Names]
  BY <1>1, <1>2, <1>3 DEF Steps, Rotating
<1>6. StateTyped' /\ OnItsDisk' /\ Underway' /\ Owing'
  BY <1>2, <1>3, <1>4, <1>5, RotationKeeps
<1>7. RingStands'
  <2>1. /\ Behind(files, ring, used.crashes, k, Slots - 1)
        /\ used.crashes = 0 => Exact(files, ring, k, Slots - 1)
    BY <1>1, <1>2 DEF StateInv, RingStands
  <2>2. /\ Behind(files', ring, used.crashes, k, Slots - 1)
        /\ used.crashes = 0 => Exact(files', ring, k, Slots - 1)
    BY <2>1, <1>2, <1>3, RemoveKeeps
  <2> QED BY <2>2, <1>2, <1>4, <1>5 DEF RingStands
<1> QED BY <1>6, <1>7 DEF StateInv

\* The history with a save before the others.
LEMMA RecentIs ==
    ASSUME ring \in Seq(Saved), Len(ring) <= Slots, NEW f \in Saved
    PROVE  /\ StateSave!Recent(f) \in Seq(Saved) /\ Len(StateSave!Recent(f)) <= Slots
           /\ Len(StateSave!Recent(f)) = IF Len(ring) < Slots THEN Len(ring) + 1 ELSE Slots
           /\ \A i \in 1..Len(StateSave!Recent(f)) :
                  StateSave!Recent(f)[i] = IF i = 1 THEN f ELSE ring[i - 1]
<1>1. PICK len \in Nat : len = Len(ring) /\ len <= Slots
  OBVIOUS
<1>2. PICK more \in Nat : more = IF len < Slots THEN len + 1 ELSE Slots
  BY StateConstants
<1>3. more <= len + 1 /\ more <= Slots
  BY <1>1, <1>2, StateConstants
<1> DEFINE long == <<f>> \o ring
<1>4. /\ long \in Seq(Saved) /\ Len(long) = len + 1
      /\ \A i \in 1..(len + 1) : long[i] = IF i = 1 THEN f ELSE ring[i - 1]
  BY <1>1
<1>5. StateSave!Recent(f) = SubSeq(long, 1, more)
  BY <1>1, <1>2 DEF StateSave!Recent
<1> HIDE DEF long
<1>6. /\ SubSeq(long, 1, more) \in Seq(Saved) /\ Len(SubSeq(long, 1, more)) = more
      /\ \A i \in 1..more : SubSeq(long, 1, more)[i] = long[i]
  BY <1>3, <1>4
<1> QED BY <1>1, <1>2, <1>3, <1>4, <1>5, <1>6

LEMMA MoveSteps ==
    ASSUME StateInv, StateSave!RotateMove
    PROVE  StateInv'
<1>1. PICK k \in 0..(Slots - 1) : k = task.k
  BY DEF StateSave!RotateMove, StateInv, Underway, Rotating
<1>2. /\ task.step = "move" /\ Rotating /\ files' = Moved(files, k)
      /\ machine' = machine /\ disk' = disk /\ temp' = temp /\ owed' = owed /\ used' = used
      /\ k = 0 => task' = [op |-> "none", step |-> "none", k |-> 0] /\ ring' = StateSave!Recent(files'[1])
      /\ k # 0 => task' = [task EXCEPT !.step = "remove", !.k = @ - 1] /\ ring' = ring
  BY <1>1, DoneIs DEF StateSave!RotateMove, Rotating, Moved, StateSave!Exists, NoState
<1>3. files \in [Names -> Files] /\ NoState \in Files /\ k + 1 \in 1..Slots /\ files[0] # NoState
      /\ ring \in Seq(Saved) /\ Len(ring) <= Slots /\ used.crashes \in Nat
      /\ task \in [op : {"none", "save", "load", "undo"}, step : Steps, k : Names]
  BY <1>1, <1>2, StateConstants DEF StateInv, StateTyped, Underway, Files
<1>4. /\ Behind(files, ring, used.crashes, k, Slots - 1)
      /\ used.crashes = 0 => Exact(files, ring, k, Slots - 1) /\ files[k + 1] = NoState
  BY <1>1, <1>2 DEF StateInv, RingStands
<1>5. /\ files' \in [Names -> Files] /\ files'[Undo] = files[Undo] /\ files'[Held] = files[Held]
      /\ k = 0 => files'[1] = files[0]
      /\ k # 0 => files'[0] = files[0]
  <2>1. k \in Names /\ k + 1 \in Names /\ files[k] \in Files
    BY <1>3, NamesAre, StateConstants
  <2>2. CASE files[k] = NoState
    <3>1. files' = files /\ k # 0
      BY <2>2, <1>2, <1>3 DEF Moved
    <3> QED BY <3>1, <1>3
  <2>3. CASE files[k] # NoState
    <3>1. files' = [files EXCEPT ![k + 1] = files[k], ![k] = NoState]
      BY <2>3, <1>2 DEF Moved
    <3>2. files' \in [Names -> Files]
      BY <3>1, <2>1, <1>3
    <3>3. files'[Undo] = files[Undo] /\ files'[Held] = files[Held]
      BY <3>1, <1>3, NamesAre, StateConstants
    <3>4. files'[k + 1] = files[k]
      BY <3>1, <2>1, <1>3, StateConstants
    <3>5. k # 0 => files'[0] = files[0]
      BY <3>1, <1>3, NamesAre, StateConstants
    <3> QED BY <3>2, <3>3, <3>4, <3>5
  <2> QED BY <2>2, <2>3
<1>6. CASE k = 0
  <2>1. files[0] \in Saved /\ ring' = StateSave!Recent(files[0])
    BY <1>2, <1>3, <1>5, <1>6, NamesAre DEF Files
  <2>2. /\ ring' \in Seq(Saved) /\ Len(ring') <= Slots
        /\ Len(ring') = IF Len(ring) < Slots THEN Len(ring) + 1 ELSE Slots
        /\ \A i \in 1..Len(ring') : ring'[i] = IF i = 1 THEN files[0] ELSE ring[i - 1]
    BY <2>1, <1>3, RecentIs
  <2>3. task' = [op |-> "none", step |-> "none", k |-> 0] /\ ~Rotating'
    BY <1>2, <1>6 DEF Rotating
  <2>4. StateTyped' /\ OnItsDisk' /\ Underway' /\ Owing'
    BY <1>2, <1>5, <2>2, <2>3, RotationKeeps
  <2>5. /\ Behind(files', ring', used.crashes, Slots, Slots)
        /\ used.crashes = 0 => Exact(files', ring', Slots, Slots)
    <3>1. files' = Moved(files, 0)
      BY <1>2, <1>6
    <3>2. /\ Behind(files, ring, used.crashes, 0, Slots - 1)
          /\ used.crashes = 0 => Exact(files, ring, 0, Slots - 1)
      BY <1>4, <1>6
    <3> QED BY <3>1, <3>2, <1>3, <2>2, MoveEnds
  <2>6. RingStands'
    BY <2>3, <2>5, <1>2 DEF RingStands
  <2> QED BY <2>4, <2>6 DEF StateInv
<1>7. CASE k # 0
  <2>1. PICK j \in 0..(Slots - 1) : j = k - 1 /\ k \in 1..(Slots - 1)
    BY <1>7, StateConstants
  <2>2. /\ task' = [op |-> task.op, step |-> "remove", k |-> j] /\ ring' = ring /\ files'[0] # NoState
        /\ task'.op = task.op /\ task'.step = "remove" /\ task'.k = j /\ j \in Names
    <3>1. task' = [op |-> task.op, step |-> "remove", k |-> j]
      BY <1>1, <1>2, <1>3, <1>7, <2>1
    <3>2. ring' = ring /\ files'[0] # NoState
      BY <1>2, <1>3, <1>5, <1>7
    <3>3. j \in Names
      BY NamesAre, StateConstants
    <3> QED BY <3>1, <3>2, <3>3
  <2>3. Rotating' /\ task' \in [op : {"none", "save", "load", "undo"}, step : Steps, k : Names]
    BY <2>2, <1>3 DEF Rotating, Steps
  <2>4. StateTyped' /\ OnItsDisk' /\ Underway' /\ Owing'
    BY <1>2, <1>3, <1>5, <2>2, <2>3, RotationKeeps
  <2>5. /\ Behind(files', ring, used.crashes, j, Slots - 1)
        /\ used.crashes = 0 => Exact(files', ring, j, Slots - 1)
    BY <1>2, <1>3, <1>4, <2>1, MoveKeeps
  <2>6. RingStands'
    BY <2>2, <2>3, <2>5, <1>2 DEF RingStands
  <2> QED BY <2>4, <2>6 DEF StateInv
<1> QED BY <1>6, <1>7

-----------------------------------------------------------------------------
(***************************************************************************)
(* The save states: the check, the load, and a crash.                      *)
(***************************************************************************)
LEMMA CheckKeeps ==
    ASSUME StateInv, StateSave!Check
    PROVE  StateInv'
<1>1. /\ task.step = "check" /\ disk \in [image : Nat, cache : Nat]
      /\ machine' = machine /\ files' = files /\ temp' = temp /\ ring' = ring /\ owed' = owed /\ used' = used
      /\ machine \in Machines \cup {Broken} /\ owed \subseteq Machines
      /\ task \in [op : {"none", "save", "load", "undo"}, step : Steps, k : Names]
  BY DEF StateSave!Check, StateInv, StateTyped
<1>2. /\ disk' = disk \/ disk' = [image |-> disk.cache, cache |-> disk.cache]
      /\ \/ /\ files[task.k].image = disk'.image
            /\ task' = [op |-> task.op, step |-> "load", k |-> task.k]
         \/ task' = [op |-> "none", step |-> "none", k |-> 0]
  BY <1>1, ImageIsFlushed, GotoIs, DoneIs DEF StateSave!Check, StateInv, Steps
<1>3. disk' \in [image : Nat, cache : Nat] /\ disk'.cache = disk.cache
  BY <1>1, <1>2
<1>4. /\ task' \in [op : {"none", "save", "load", "undo"}, step : Steps, k : Names]
      /\ task'.step \in {"load", "none"} /\ ~Rotating /\ ~Rotating'
  BY <1>1, <1>2, NamesAre DEF Steps, Rotating
<1>5. StateTyped' /\ RingStands' /\ Owing'
  <2>1. machine' \in Machines \cup {Broken} /\ owed' \subseteq Machines /\ owed' \subseteq owed
        /\ task'.step # "drop"
    BY <1>1, <1>4
  <2> QED BY <1>1, <1>3, <1>4, <2>1, GoesOn
<1>6. OnItsDisk'
  BY <1>1, <1>3 DEF StateInv, OnItsDisk
<1>7. Underway'
  <2>1. Underway
    BY DEF StateInv
  <2> QED BY <1>1, <1>2, <1>4, <2>1 DEF Underway
<1> QED BY <1>5, <1>6, <1>7 DEF StateInv

\* The state that is loaded.
LEMMA LoadedIs ==
    ASSUME StateInv, task.step = "load"
    PROVE  /\ task.op \in {"load", "undo"} /\ task.k \in Names /\ files[task.k] \in Saved
           /\ files[task.k].image = disk.image
           /\ task.op = "undo" => task.k = Held
<1>1. task.op \in {"load", "undo"} /\ task.k \in Names /\ files[task.k] # NoState
      /\ files[task.k].image = disk.image /\ (task.op = "undo" => task.k = Held)
  BY DEF StateInv, StateTyped, Underway
<1>2. files[task.k] \in Files
  BY <1>1 DEF StateInv, StateTyped
<1> QED BY <1>1, <1>2 DEF Files

LEMMA LoadKeeps ==
    ASSUME StateInv, StateSave!Load
    PROVE  StateInv'
<1>1. PICK f \in Saved : f = files[task.k]
  BY LoadedIs DEF StateSave!Load
<1>2. PICK m \in Machines \cup {Broken} : f.was = m /\ (m = Broken \/ f.image = m.disk)
  BY SavedIs
<1>3. /\ StateSave!EventsRead(f.events) = [warn |-> FALSE, events |-> Back(m.events)]
      /\ f.id = m.id /\ f.disk = m.disk
  BY <1>2, SavedIs DEF ReadsAs
<1>4. PICK new \in Machines \cup {Broken} :
          /\ new = Machine(m.id, Back(m.events), m.disk)
          /\ new # Broken => new.disk = m.disk /\ m # Broken
  <2>1. CASE m = Broken
    <3>1. Back(Broken.events) = Broken.events
      BY DEF Broken, StateSave!Broken, Back
    <3>2. Machine(Broken.id, Broken.events, Broken.disk) = Broken
      BY DEF Machine, Broken, StateSave!Broken
    <3> QED BY <2>1, <3>1, <3>2
  <2>2. CASE m \in Machines
    <3>1. m.id \in 0..MaxId /\ Like(m.events, Queues[m.id]) /\ m.disk \in Nat /\ m # Broken
      BY <2>2, MachineIs
    <3>2. Like(Back(m.events), Queues[m.id])
      BY <3>1, StateConstants, BackIsLike
    <3>3. /\ Machine(m.id, Back(m.events), m.disk) \in Machines
          /\ Machine(m.id, Back(m.events), m.disk).disk = m.disk
      BY <3>1, <3>2, MachineMade
    <3> QED BY <3>1, <3>3
  <2> QED BY <2>1, <2>2
<1>5. /\ task.step = "load" /\ disk \in [image : Nat, cache : Nat] /\ f.image = disk.image
      /\ files' = files /\ temp' = temp /\ ring' = ring /\ used' = used /\ owed \subseteq Machines
      /\ task \in [op : {"none", "save", "load", "undo"}, step : Steps, k : Names]
      /\ disk' = [image |-> disk.image, cache |-> disk.image]
      /\ task.op \in {"load", "undo"} /\ (task.op = "undo" => f = files[Held])
  BY <1>1, LoadedIs DEF StateSave!Load, StateInv, StateTyped
<1>6. \/ /\ machine' = new
         /\ owed' = IF task.op = "undo" THEN owed \ {m} ELSE owed
         /\ task' = IF task.op = "undo" THEN [op |-> task.op, step |-> "drop", k |-> task.k]
                    ELSE [op |-> "none", step |-> "none", k |-> 0]
      \/ /\ machine' = Broken /\ owed' = owed
         /\ task' = [op |-> "none", step |-> "none", k |-> 0]
  <2>1. /\ StateSave!Goto("drop") => task' = [op |-> task.op, step |-> "drop", k |-> task.k]
        /\ StateSave!Done => task' = [op |-> "none", step |-> "none", k |-> 0]
    BY GotoIs, DoneIs DEF StateInv, Steps
  <2>2. \/ /\ machine' = Machine(f.id, Back(m.events), f.disk)
           /\ owed' = IF task.op = "undo" THEN owed \ {f.was} ELSE owed
           /\ IF task.op = "undo" THEN StateSave!Goto("drop") ELSE StateSave!Done
        \/ machine' = Broken /\ owed' = owed /\ StateSave!Done
    BY <1>1, <1>3 DEF StateSave!Load, Broken, Machine
  <2> QED BY <2>1, <2>2, <1>2, <1>3, <1>4
<1>7. /\ task' \in [op : {"none", "save", "load", "undo"}, step : Steps, k : Names]
      /\ ~Rotating /\ ~Rotating' /\ task'.step \in {"drop", "none"}
      /\ disk' \in [image : Nat, cache : Nat] /\ disk'.cache = disk.image
      /\ machine' \in Machines \cup {Broken} /\ owed' \subseteq owed /\ owed' \subseteq Machines
  BY <1>5, <1>6, NamesAre DEF Steps, Rotating
<1>8. StateTyped' /\ RingStands'
  BY <1>5, <1>7, GoesOn
<1>9. OnItsDisk'
  BY <1>2, <1>4, <1>5, <1>6, <1>7 DEF OnItsDisk
<1>10. Underway'
  <2>1. Underway
    BY DEF StateInv
  <2> QED BY <1>5, <1>6, <1>7, <2>1 DEF Underway
<1>11. Owing'
  <2>1. CASE task'.step = "none"
    <3>1. task'.step # "drop"
      BY <2>1
    <3> QED BY <3>1, <1>5, <1>7 DEF StateInv, Owing
  <2>2. CASE task'.step = "drop"
    <3>1. task.op = "undo" /\ owed' = owed \ {m} /\ f = files[Held]
      BY <2>2, <1>5, <1>6
    <3>2. ASSUME NEW o \in owed' PROVE Owed(o, files[Undo])
      <4>1. o \in owed /\ o # m
        BY <3>1, <3>2
      <4>2. ~Owed(o, files[Held])
        BY <4>1, <3>1, <1>2 DEF Owed
      <4> QED BY <4>1, <4>2 DEF StateInv, Owing
    <3> QED BY <3>2, <1>5 DEF Owing
  <2> QED BY <1>7, <2>1, <2>2
<1> QED BY <1>8, <1>9, <1>10, <1>11 DEF StateInv

LEMMA DropKeeps ==
    ASSUME StateInv, StateSave!Drop
    PROVE  StateInv'
<1>1. /\ task.step = "drop" /\ task' = [op |-> "none", step |-> "none", k |-> 0]
      /\ files' = [files EXCEPT ![Held] = NoState]
      /\ machine' = machine /\ disk' = disk /\ temp' = temp /\ ring' = ring /\ owed' = owed /\ used' = used
      /\ files \in [Names -> Files] /\ NoState \in Files
  BY DoneIs DEF StateSave!Drop, Held, NoState, StateInv, StateTyped, Files
<1>2. /\ files' \in [Names -> Files] /\ files'[Undo] = files[Undo]
      /\ \A n \in 1..Slots : files'[n] = files[n]
  BY <1>1, NamesAre
<1>3. /\ task'.op = "none" /\ task'.step = "none" /\ ~Rotating /\ ~Rotating'
      /\ task' \in [op : {"none", "save", "load", "undo"}, step : Steps, k : Names]
  BY <1>1, NamesAre DEF Steps, Rotating
<1>4. StateTyped' /\ OnItsDisk'
  BY <1>1, <1>2, <1>3 DEF StateInv, StateTyped, OnItsDisk
<1>5. Underway'
  BY <1>3 DEF Underway
<1>6. Owing'
  BY <1>1, <1>2 DEF StateInv, Owing
<1>7. RingStands'
  BY <1>1, <1>2, <1>3, NotRotated
<1> QED BY <1>4, <1>5, <1>6, <1>7 DEF StateInv

LEMMA CrashKeeps ==
    ASSUME StateInv, StateSave!Crash
    PROVE  StateInv'
<1>1. PICK c \in Nat : c = used.crashes /\ used'.crashes = c + 1 /\ used' \in [id : Nat, tasks : Nat, crashes : Nat]
  BY DEF StateSave!Crash, StateInv, StateTyped
<1>2. /\ machine' = Machine(0, Queues[0], disk.image) /\ disk' = [image |-> disk.image, cache |-> disk.image]
      /\ task' = [op |-> "none", step |-> "none", k |-> 0]
      /\ files' = files /\ ring' = ring /\ owed' = owed
      /\ ring \in Seq(Saved) /\ disk.image \in Nat
  BY DoneIs DEF StateSave!Crash, StateInv, StateTyped, Machine
<1>3. machine' \in Machines /\ machine'.disk = disk.image
  <2>1. 0 \in 0..MaxId /\ Like(Queues[0], Queues[0])
    BY StateConstants
  <2> QED BY <2>1, <1>2, MachineMade
<1>4. /\ task'.op = "none" /\ task'.step = "none" /\ ~Rotating'
      /\ task' \in [op : {"none", "save", "load", "undo"}, step : Steps, k : Names]
  BY <1>2, NamesAre DEF Steps, Rotating
<1>5. StateTyped' /\ OnItsDisk'
  BY <1>1, <1>2, <1>3, <1>4 DEF StateInv, StateTyped, OnItsDisk
<1>6. Underway'
  BY <1>4 DEF Underway
<1>7. Owing'
  BY <1>2, <1>4 DEF StateInv, Owing
<1>8. RingStands'
  <2>1. \/ Behind(files, ring, c, Slots, Slots)
        \/ \E k \in 0..(Slots - 1) : Behind(files, ring, c, k, Slots - 1)
    BY <1>1 DEF StateInv, RingStands, Underway
  <2>2. Behind(files, ring, c + 1, Slots, Slots)
    <3>1. 0 \in 0..(Slots - 1)
      BY StateConstants
    <3> QED BY <2>1, <3>1, <1>2, CrashLeaves
  <2>3. c + 1 # 0
    OBVIOUS
  <2> QED BY <2>2, <2>3, <1>1, <1>2, <1>4 DEF RingStands
<1> QED BY <1>5, <1>6, <1>7, <1>8 DEF StateInv

\* Every step of the machine, the user and the files.
LEMMA StatesStep ==
    ASSUME StateInv, StateSave!Next
    PROVE  StateInv'
<1>1. CASE StateSave!Run(TRUE) \/ StateSave!Run(FALSE)
  BY <1>1, GuestRunsKeeps
<1>2. CASE StateSave!QuickSave
  BY <1>2, QuickSaveKeeps
<1>3. CASE StateSave!QuickUndo
  BY <1>3, QuickUndoKeeps
<1>4. CASE \E k \in 1..Slots : StateSave!QuickLoad(k)
  BY <1>4, QuickLoadKeeps
<1>5. CASE StateSave!SaveWrite
  BY <1>5, SaveWriteKeeps
<1>6. CASE StateSave!SaveCommit
  BY <1>6, SaveCommitKeeps
<1>7. CASE StateSave!Unhold
  BY <1>7, UnholdKeeps
<1>8. CASE StateSave!RotateRemove
  BY <1>8, RemoveSteps
<1>9. CASE StateSave!RotateMove
  BY <1>9, MoveSteps
<1>10. CASE StateSave!Check
  BY <1>10, CheckKeeps
<1>11. CASE StateSave!Load
  BY <1>11, LoadKeeps
<1>12. CASE StateSave!Drop
  BY <1>12, DropKeeps
<1>13. CASE StateSave!Crash
  BY <1>13, CrashKeeps
<1> QED BY <1>1, <1>2, <1>3, <1>4, <1>5, <1>6, <1>7, <1>8, <1>9, <1>10, <1>11, <1>12, <1>13
        DEF StateSave!Next

\* Such events are as they were pending.
LEMMA LikePending ==
    ASSUME NEW n \in 0..MaxId, NEW q, Like(q, Queues[n])
    PROVE  StateSave!AsPending(q, n)
BY DEF Like, Keys, KeyOrMouse, StateSave!AsPending

\* What the invariant says of the states.
LEMMA StatesFollow ==
    ASSUME StateInv
    PROVE  StateSave!RestoredExactly /\ StateSave!RingKept /\ StateSave!UndoKept
<1>1. StateSave!RestoredExactly
  <2> SUFFICES ASSUME machine # Broken
               PROVE  StateSave!AsPending(machine.events, machine.id) /\ machine.disk = disk.cache
    BY DEF StateSave!RestoredExactly, Broken
  <2>1. machine \in Machines
    BY DEF StateInv, StateTyped
  <2>2. machine.id \in 0..MaxId /\ Like(machine.events, Queues[machine.id])
    BY <2>1, MachineIs
  <2> QED BY <2>2, LikePending DEF StateInv, OnItsDisk
<1>2. ASSUME used.crashes = 0, ~Rotating, NEW i \in 1..Slots
      PROVE  files[i] = IF i <= Len(ring) THEN ring[i] ELSE NoState
  <2>1. At(files, Slots, i) = IF i <= Len(ring) THEN ring[i] ELSE NoState
    BY <1>2 DEF StateInv, RingStands, Exact
  <2>2. At(files, Slots, i) = files[i]
    BY StateConstants DEF At
  <2> QED BY <2>1, <2>2
<1>3. ASSUME NEW i \in 1..(Slots - 1 - used.crashes), i <= Len(ring)
      PROVE  \E n \in 0..Slots : files[n] = ring[i]
  <2>1. PICK c \in Nat, len \in Nat : c = used.crashes /\ len = Len(ring)
    BY DEF StateInv, StateTyped
  <2>2. i \in 1..len /\ i <= Slots - 1 - c /\ i <= Slots - c /\ i \in Nat
    BY <1>3, <2>1, StateConstants
  <2>3. CASE ~Rotating
    <3>1. Behind(files, ring, c, Slots, Slots)
      BY <2>1, <2>3 DEF StateInv, RingStands
    <3>2. PICK n \in i..(i + c) : At(files, Slots, n) = ring[i]
      BY <3>1, <2>1, <2>2 DEF Behind
    <3>3. n \in 0..Slots /\ ~(n > Slots)
      BY <3>2, <2>2, StateConstants
    <3> QED BY <3>2, <3>3 DEF At
  <2>4. CASE Rotating
    <3>1. PICK k \in 0..(Slots - 1) : k = task.k
      BY <2>4 DEF StateInv, Underway
    <3>2. Behind(files, ring, c, k, Slots - 1)
      BY <2>1, <2>4, <3>1 DEF StateInv, RingStands
    <3>3. PICK n \in i..(i + c) : At(files, k, n) = ring[i]
      BY <3>2, <2>1, <2>2 DEF Behind
    <3>4. n \in 0..Slots /\ n + 1 \in 0..Slots
      BY <3>3, <2>2, StateConstants
    <3> QED BY <3>3, <3>4 DEF At
  <2> QED BY <2>3, <2>4
<1>4. StateSave!RingKept
  BY <1>2, <1>3 DEF StateSave!RingKept, Rotating, NoState, StateSave!Fresh
<1>5. ASSUME NEW o \in owed, NEW n \in {Undo, Held}, Owed(o, files[n])
      PROVE  /\ StateSave!Exists(n) /\ files[n].was = o
             /\ ~StateSave!EventsRead(files[n].events).warn
             /\ StateSave!AsPending(StateSave!EventsRead(files[n].events).events, o.id)
  <2>1. n \in Names /\ files[n] \in Files
    BY NamesAre DEF StateInv, StateTyped
  <2>2. files[n] \in Saved /\ files[n].was = o
    BY <2>1, <1>5 DEF Files, Owed
  <2>3. ReadsAs(files[n], files[n].was)
    BY <2>2, SavedIs
  <2>4. o.id \in 0..MaxId /\ Like(o.events, Queues[o.id])
    <3>1. o \in Machines
      BY DEF StateInv, StateTyped
    <3> QED BY <3>1, MachineIs
  <2>5. Like(Back(o.events), Queues[o.id])
    BY <2>4, StateConstants, BackIsLike
  <2>6. StateSave!EventsRead(files[n].events) = [warn |-> FALSE, events |-> Back(o.events)]
    BY <2>2, <2>3 DEF ReadsAs
  <2>7. StateSave!AsPending(Back(o.events), o.id)
    BY <2>4, <2>5, LikePending
  <2> QED BY <2>2, <2>6, <2>7, <1>5 DEF Owed, StateSave!Exists, NoState
<1>6. StateSave!UndoKept
  <2>1. ASSUME NEW o \in owed PROVE \E n \in {Undo, Held} : Owed(o, files[n])
    BY DEF StateInv, Owing
  <2> QED BY <2>1, <1>5 DEF StateSave!UndoKept, Undo, Held
<1> QED BY <1>1, <1>4, <1>6
=============================================================================
