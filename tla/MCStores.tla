------------------------------ MODULE MCStores ------------------------------
(***************************************************************************)
(* The parts of MCDevices whose proofs StoresProofs has, side by side: the *)
(* stream of frames, the images in the drives, the save states, the SASI   *)
(* controller and the cassette recorder.  The first three have their       *)
(* variables and constants by the names of their modules, the stream and   *)
(* the images use ptr in turns; x1, x2, ... are those of the other two.    *)
(***************************************************************************)
EXTENDS Integers, Sequences

CONSTANTS
    Samples, Reserve, Chunk, FifoFrames, ClockBase, CounterWord,  \* of SoundStream
    MaxClock, MaxCallbacks, MaxEpoch,
    Drives, NoDrive, Tracks, Present, TrackMax, MaxChanges,  \* of D88Cache
    Slots, Queues, MaxId, MaxTasks, MaxCrashes,              \* of StateSave
    SasiOps, SasiDrives, SasiBlocks, SasiBlockBytes, SasiCommands,  \* of Sasi
    CmtTapes, CmtNoTape, CmtMaxOps                                  \* of Cmt

VARIABLES
    now, lastclock, chip, buffer, ptr, remain, generated, epoch, fifo, active, failed, dropped,
    owner, crossed, pc, want, count, callbacks, heard, forgone, base, taken, mark,
    file, inserted, head, cache, format, truth, lent, changes,
    machine, disk, files, temp, task, ring, owed, used,
    x1, x2, x3, x4, x5, x6, x7

\* The images' cache is asked for when their file can be reached.
D88Cache == INSTANCE D88Cache WITH Outcomes <- {TRUE}

\* Tracks are numbers, no drive is NoDrive, and an image has each track once.
ASSUME DiskAssumption ==
    /\ Drives \subseteq Nat /\ NoDrive \notin Drives
    /\ Tracks \subseteq Nat /\ 0 \in Tracks
    /\ Present \in Seq(Tracks)
    /\ \A i, j \in 1..Len(Present) : Present[i] = Present[j] => i = j
    /\ TrackMax \in Nat /\ 2 <= TrackMax
    /\ MaxChanges \in Nat

StateSave == INSTANCE StateSave

\* A machine's queue has no event twice, and only such as the tables list.
ASSUME StateAssumption ==
    /\ Slots \in Nat \ {0} /\ {MaxId, MaxTasks, MaxCrashes} \subseteq Nat
    /\ \A n \in 0..MaxId :
          /\ Queues[n] \in Seq(StateSave!Numbers \X StateSave!EvtProc)
          /\ \A i, j \in DOMAIN Queues[n] : Queues[n][i][1] = Queues[n][j][1] => i = j

\* Three queues of events, the last with a key on its way beside the mouse.
MCQueues == [n \in 0..2 |->
    CASE n = 0 -> <<<<"FLAMES", "screendispva">>>>
      [] n = 1 -> <<<<"MOUSE", "mouseint">>, <<"SCSIIO", "scsiioint">>>>
      [] n = 2 -> <<<<"KEYBOARD", "keyboard_callback">>, <<"MOUSE", "mouseint">>,
                    <<"FLAMES", "screendispva">>>>]
MCPresent == <<1, 0>>

SoundStream == INSTANCE SoundStream WITH Word <- CounterWord

\* A period fits the buffer, and the buffer the counter of what is free in it,
\* also where that becomes an int.
ASSUME SoundAssumption ==
    /\ {Samples, Chunk, ClockBase} \subseteq Nat \ {0}
    /\ {Reserve, FifoFrames, CounterWord} \subseteq Nat /\ 2 * (Samples + Reserve) < CounterWord
    /\ {MaxClock, MaxCallbacks, MaxEpoch} \subseteq Nat

\* The count of a command is a byte.
ASSUME SasiAssumption ==
    /\ "none" \notin SasiOps
    /\ SasiBlocks \subseteq 0 .. 255
    /\ SasiBlockBytes \in Nat \ {0}

Sasi == INSTANCE Sasi WITH
    Ops <- SasiOps, Drives <- SasiDrives, Blocks <- SasiBlocks, BlockBytes <- SasiBlockBytes,
    MaxCommands <- SasiCommands,
    sasi <- x1, medium <- x2, asked <- x3, moved <- x4, commands <- x5

\* The blocks of a tape come in the order of the bytes they stand before.
ASSUME CmtAssumption ==
    \A tape \in CmtTapes \cup {CmtNoTape} :
        /\ tape.size \in Nat
        /\ tape.blocks \in Seq([at : Nat, length : Nat \ {0}, kind : {"blank", "space", "mark"}])
        /\ \A i, j \in DOMAIN tape.blocks : i < j => tape.blocks[i].at <= tape.blocks[j].at

Cmt == INSTANCE Cmt WITH
    Images <- CmtTapes, NoTape <- CmtNoTape, MaxOps <- CmtMaxOps,
    cmt <- x1, last <- x2, whole <- x3, spoiled <- x4, ops <- x5

\* A raw tape, and a T88 tape with spaces and a mark before its bytes.
Block(at, length, kind) == [at |-> at, length |-> length, kind |-> kind]
MCTapes ==
    {[size |-> 3, blocks |-> <<>>],
     [size |-> 2, blocks |-> <<Block(0, 2, "space"), Block(0, 1, "mark"), Block(1, 2, "space")>>]}
MCNoTape == [size |-> 0, blocks |-> <<>>]

soundOnly == <<now, lastclock, chip, buffer, remain, generated, epoch, fifo, active, failed,
               dropped, owner, crossed, pc, want, count, callbacks, heard, forgone, base, taken,
               mark>>
diskOnly == <<file, inserted, head, cache, format, truth, lent, changes>>
stateVars == <<machine, disk, files, temp, task, ring, owed, used>>
=============================================================================
