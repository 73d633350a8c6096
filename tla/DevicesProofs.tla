---------------------------- MODULE DevicesProofs ---------------------------
(***************************************************************************)
(* Proofs about MCDevices: what StoresProofs has of its units, for the     *)
(* run's specification.                                                    *)
(***************************************************************************)
EXTENDS MCDevices, StoresProofs, TLAPS

-----------------------------------------------------------------------------
(***************************************************************************)
(* The devices together: each unit keeps its own invariant.                *)
(***************************************************************************)
DevicesInv ==
    /\ unit = "sound" => SoundWhole
    /\ unit = "d88" => DiskInv
    /\ unit = "states" => StateInv
    /\ unit = "sasi" => SasiInv
    /\ unit = "tape" => CmtInv

LEMMA DevicesStart == Init => DevicesInv
<1> SUFFICES ASSUME Init PROVE DevicesInv
  OBVIOUS
<1>1. unit = "sound" => SoundStream!Init
  BY DEF Init
<1>2. unit = "d88" => D88Cache!Init
  BY DEF Init
<1>3. unit = "states" => StateSave!Init
  BY DEF Init
<1>4. unit = "sasi" => Sasi!Init
  BY DEF Init
<1>5. unit = "tape" => Cmt!Init
  BY DEF Init
<1> QED BY <1>1, <1>2, <1>3, <1>4, <1>5, SoundStarts, DiskStarts, StatesStart, SasiStarts,
           CmtStarts DEF DevicesInv

LEMMA DevicesStep ==
    ASSUME DevicesInv, [Next]_vars
    PROVE  DevicesInv'
<1>1. unit' = unit
  BY DEF Next, vars, SgpEnded, UserLeaves, ProgramEnds
<1>2. UNCHANGED vars =>
            UNCHANGED soundVars /\ UNCHANGED <<ptr, diskOnly>> /\ UNCHANGED stateVars
            /\ UNCHANGED <<x1, x2, x3, x4>>
  BY DEF vars, named, others, soundVars, soundOnly
<1>3. ASSUME unit = "sound" PROVE SoundWhole'
  <2>1. SoundStream!Next \/ UNCHANGED vars
    BY <1>3 DEF Next, SgpEnded, UserLeaves, ProgramEnds
  <2> QED BY <1>2, <1>3, <2>1, SoundSteps, SoundStutters DEF DevicesInv
<1>4. ASSUME unit = "d88" PROVE DiskInv'
  <2>1. D88Cache!Next \/ UNCHANGED vars
    BY <1>4 DEF Next, SgpEnded, UserLeaves, ProgramEnds
  <2> QED BY <1>2, <1>4, <2>1, DiskSteps, DiskStutters DEF DevicesInv
<1>5. ASSUME unit = "states" PROVE StateInv'
  <2>1. StateSave!Next \/ UNCHANGED vars
    BY <1>5 DEF Next, SgpEnded, UserLeaves, ProgramEnds
  <2> QED BY <1>2, <1>5, <2>1, StatesStep, StatesStutter DEF DevicesInv
<1>6. ASSUME unit = "sasi" PROVE SasiInv'
  <2>1. Sasi!Next \/ UNCHANGED vars
    BY <1>6 DEF Next, SgpEnded, UserLeaves, ProgramEnds
  <2> QED BY <1>2, <1>6, <2>1, SasiSteps, SasiStutters DEF DevicesInv
<1>7. ASSUME unit = "tape" PROVE CmtInv'
  <2>1. Cmt!Next \/ UNCHANGED vars
    BY <1>7 DEF Next, SgpEnded, UserLeaves, ProgramEnds
  <2> QED BY <1>2, <1>7, <2>1, CmtSteps, CmtStutters DEF DevicesInv
<1> QED BY <1>1, <1>3, <1>4, <1>5, <1>6, <1>7 DEF DevicesInv

\* The invariant of the devices holds in every state.
THEOREM Invariance == Spec => []DevicesInv
<1>1. Init => DevicesInv
  BY DevicesStart
<1>2. DevicesInv /\ [Next]_vars => DevicesInv'
  BY DevicesStep
<1> QED BY <1>1, <1>2, PTL DEF Spec

\* In the program as it is built, whose sections of sound.c nothing keeps apart: as long as
\* neither the emulation thread nor the audio callback has entered one with the other in it,
\* no frame is lost or doubled, neither in what is played nor in a recording; and a recording
\* that began before they first crossed is whole and in place also when they have (sound.c,
\* soundmng.c), whatever the sizes of the period, the reserve, the chunk and the recording.
THEOREM FramesAreKept == Spec => []FramesOnce
<1>1. DevicesInv => FramesOnce
  BY SoundFollows DEF DevicesInv, FramesOnce
<1> QED BY <1>1, Invariance, PTL

\* What the guest has put on a D88 disk is read back, through the one track cache that all
\* drives share, and is in the file once nothing waits in the cache (fdd_d88.c): across
\* reads, writes, formats that move the rest of the file, flushes, ejects and inserts,
\* whatever the images hold, for every number of drives and tracks.  The one exception is a
\* track that was in the cache when the guest formatted one in another drive, until it is
\* formatted itself: the new track was built in its buffer.
THEOREM DiskIsKept == Spec => []DiskKeepsWrites
<1>1. DevicesInv => DiskKeepsWrites
  BY DiskFollows DEF DevicesInv, DiskKeepsWrites
<1> QED BY <1>1, Invariance, PTL

\* The quick saves and the machine before the last load survive every failed save, failed
\* load, undo and death of the process, and a machine that is taken for a saved one has its
\* disk and its events (gui.cpp, statsave.c): for a ring of any size, any number of crashes
\* and any queues of events of the tables without one twice.  A key's event in the queue
\* comes back as the mouse's, and the mouse's beside it may get its handler; all others keep
\* their places, numbers and handlers.
THEOREM StatesAreKept == Spec => []StatesKept
<1>1. DevicesInv => StatesKept
  BY StatesFollow DEF DevicesInv, StatesKept
<1> QED BY <1>1, Invariance, PTL

\* A guest of the SASI controller has a status, a request or an event to wait for, and a
\* read or write that is reported good has moved its blocks, all of them and to their
\* places, though the event comes late and the controller may be reset while one is pending
\* (sasiio.c): for blocks of any size and commands of any length.  Not so, and left out of
\* the statement, are a command that went on after a block had failed, and one that the
\* event of a command before it has ended: the code reports them good.
THEOREM SasiIsKept == Spec => [](unit = "sasi" => Sasi!StatusOwed /\ Sasi!GoodMeansMoved)
<1>1. DevicesInv => (unit = "sasi" => Sasi!StatusOwed /\ Sasi!GoodMeansMoved)
  BY SasiFollows DEF DevicesInv
<1> QED BY <1>1, Invariance, PTL

\* A tape that is read does not stand still, its bytes come in order and none before the
\* blocks that stand ahead of it (cmt.c), whatever the tape, and whenever the guest and the
\* user switch the motor, the receiver or the recorder, or change, rewind and erase the tape.
THEOREM TapeIsKept ==
    Spec => [](unit = "tape" => Cmt!NeverStalls /\ Cmt!BytesInOrder /\ Cmt!BlocksFirst)
<1>1. DevicesInv => (unit = "tape" => Cmt!NeverStalls /\ Cmt!BytesInOrder /\ Cmt!BlocksFirst)
  BY CmtFollows DEF DevicesInv
<1> QED BY <1>1, Invariance, PTL
=============================================================================
