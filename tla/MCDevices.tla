----------------------------- MODULE MCDevices ------------------------------
(***************************************************************************)
(* The parts that keep to themselves, side by side: the SCSI board, the    *)
(* SASI controller, the floppy disk controller, the track cache of D88     *)
(* images, the save states, the graphic processor, the sound stream, the   *)
(* numeric coprocessor, the timers, the cassette recorder, the text and    *)
(* sprites of the display, the processor's arithmetic, its strings, its    *)
(* stack frames and the way it takes interrupts.                           *)
(* They share no state, so that their product would only multiply their    *)
(* states; a behaviour here is one of one unit, chosen at the start, and   *)
(* the run checks each as its module states it, and leaves the variables   *)
(* of the others Off.  MCStores has the sound stream, the images, the save *)
(* states, the SASI controller and the recorder; x1, x2, ... are the       *)
(* variables of all units but the first three.                             *)
(***************************************************************************)
EXTENDS MCStores, SgpJobs

VARIABLES
    unit, x8, x9, x10, x11, x12, x13

Cdb(op, n) == [op |-> op, n |-> n]

Scsi == INSTANCE Scsi WITH
    Cdbs <- {Cdb("tur", 0), Cdb("inquiry", 2), Cdb("read", 0), Cdb("read", 2), Cdb("read", 4),
             Cdb("write", 2), Cdb("write", 4), Cdb("bad", 0)},
    Window <- 3, Counts <- {1, 2, 3}, Routes <- {"direct", "legacy", "level2"}, MaxCommands <- 3,
    spc <- x1, told <- x2, waiting <- x3, commands <- x4

Fdc == INSTANCE Fdc WITH
    Drives <- {0, 1}, Eot <- 2, SecBytes <- 2, Inserted <- [d \in {0, 1} |-> <<"rw", "ro">>[d + 1]],
    Lengths <- {3, 4}, MaxCommands <- 2, MaxChanges <- 1,
    fdc <- x1, dma <- x2, disk <- x3, delay <- x4, medium <- x5, guest <- x6, count <- x7

Sgp == INSTANCE Sgp WITH
    WordBits <- 4, DotCountMax <- MCDotCountMax, Words <- MCWords, Jobs <- MCJobs,
    mem <- x1, list <- x2, sgp <- x3, want <- x4, cut <- x5, accesses <- x6

ASSUME SgpIsGivenJobs == Sgp!SgpAssumption

Exceptions == {"I", "D", "Z", "R", "P"}

Fpu == INSTANCE Fpu WITH
    N <- 2, Masks <- {Exceptions, Exceptions \ {"I"}, {"I", "P"}}, MaxControls <- 2,
    fpu <- x1, irq <- x2, image <- x3, returned <- x4, torn <- x5, count <- x6

Timers == INSTANCE Timers WITH
    Presets <- {1, 3}, Base <- 2, Cut <- 1, MaxOps <- 4,
    fm <- x1, pit <- x2, guest <- x3, chip <- x4, ops <- x5

\* As many bytes after a command as it takes to tell one from two or more, and
\* only those with a value that the model looks at.
Any == {0}
Params == [SYNC |-> <<Any, Any>>, DSPON |-> <<Any>>, DSPDEF |-> <<Any, Any>>,
           CURDEF |-> <<[sprite : {0, 1}, on : BOOLEAN]>>, CURS |-> <<Any, {0, 1}>>,
           SPRON |-> <<Any, {0, 1}>>, SPRSW |-> <<[sprite : 0..2, on : BOOLEAN]>>,
           TVADDR |-> <<{0, 1}>>, SPRDEF |-> <<>>, TVWRITE |-> <<>>, SPROV |-> <<>>,
           DSPOFF |-> <<>>, SPROFF |-> <<>>, EXIT |-> <<>>, UNKNOWN |-> <<>>]

Video == INSTANCE Video WITH
    Sprites <- 3, Moving <- 1, Cost <- [s \in 0..2 |-> 2], LineBytes <- 4, Over <- {1},
    Params <- Params, MaxOps <- 2,
    tsp <- x1, tvram <- x2, port <- x3, draw <- x4, shown <- x5, silent <- x6, since <- x7,
    ops <- x8

\* Operands at the ends of every range: of a nibble, of the signed and of the
\* unsigned numbers of w bits.
Lows(w) == {0, 1, 9, 16, 2^(w - 1) - 1, 2^(w - 1), 2^(w - 1) + 1, 2^w - 16, 2^w - 1}
Highs(w) == {0, 1, 2^(w - 1), 2^w - 1}
Digits == {0, 5, 80, 153}

Alu == INSTANCE Alu WITH
    Word <- 12, Lows <- Lows, Highs <- Highs,
    Counts <- {0, 1, 2, 7, 8, 9, 11, 12, 13, 14, 17, 25, 100},
    Packed <- {0, 5, 9, 16, 21, 73, 80, 144, 149, 153},
    Strings <- {[dst |-> <<a, b>>, src |-> <<c, d>>] : a, b, c, d \in Digits},
    phase <- x1, op <- x2, x <- x3, y <- x4

\* Main programs of two phrases, uPD70008 routines of two operations, and
\* handlers that enable interrupts or not.
Phrases == {<<"sti">>, <<"cli">>, <<"popf">>, <<"movss">>, <<"op">>, <<"int">>, <<"io">>,
            <<"rep", "movs">>, <<"seg", "rep", "movs">>, <<"rep", "seg", "movs">>,
            <<"repc", "seg", "scan">>, <<"rep", "scan">>}
Routine == {"z", "ei", "di", "halt", "calln", "zio"}
Handler == {<<"iret">>, <<"sti", "iret">>}
Programs ==
    [main : {p \o q \o <<"hlt", "jmp">> : p \in Phrases, q \in Phrases},
     isr : Handler, svc : {<<"op", "iret">>}, z : {<<"retem">>}]
    \cup [main : {<<"brkem", "cli", "hlt", "jmp">>}, isr : Handler, svc : Handler,
          z : {<<a, b, "retem">> : a \in Routine, b \in Routine}]

Cpu == INSTANCE Cpu WITH
    Programs <- Programs, Count <- 2, MaxDepth <- 2,
    code <- x1, at <- x2, frames <- x3, ie <- x4, mode <- x5, pend <- x6, ret <- x7, cx <- x8,
    slice <- x9, halted <- x10, request <- x11, shade <- x12, waited <- x13

\* Strings that overlap, wrap at the end of a segment of eight bytes, or do not;
\* bytes that differ, and that recur.
Strings == INSTANCE Strings WITH
    OffsetBits <- 3, Bases <- {0, 8}, Offsets <- {1, 3, 6}, Counts <- {0, 1, 3},
    Memories <- {[a \in 0..24 |-> a % 11], [a \in 0..24 |-> IF a % 5 = 3 THEN 1 ELSE 2]},
    Accumulators <- {<<2, 2>>},
    phase <- x1, insn <- x2, start <- x3, reg <- x4, mem <- x5, io <- x6, moved <- x7

Frames == INSTANCE Frames WITH
    OffsetBits <- 5, DispBits <- 4, Base <- 10, Labels <- {1, 2}, Entry <- 3, Levels <- 0..3, Sizes <- {2},
    MaxWords <- 14, MaxOps <- 4,
    reg <- x1, mem <- x2, data <- x3, want <- x4, ops <- x5

-----------------------------------------------------------------------------
named == <<soundOnly, ptr, diskOnly, stateVars>>
late == <<x9, x10, x11, x12, x13>>
others == <<x1, x2, x3, x4, x5, x6, x7, x8, late>>
vars == <<unit, named, others>>

Off == "off"
SoundOff ==
    /\ now = Off /\ lastclock = Off /\ chip = Off /\ buffer = Off /\ remain = Off
    /\ generated = Off /\ epoch = Off /\ fifo = Off /\ active = Off /\ failed = Off
    /\ dropped = Off /\ owner = Off /\ pc = Off /\ want = Off /\ count = Off
    /\ callbacks = Off /\ heard = Off /\ forgone = Off /\ base = Off /\ taken = Off
    /\ mark = Off /\ crossed = Off
DiskOff ==
    /\ file = Off /\ inserted = Off /\ head = Off /\ cache = Off /\ format = Off
    /\ truth = Off /\ lent = Off /\ changes = Off
StatesOff ==
    /\ machine = Off /\ disk = Off /\ files = Off /\ temp = Off /\ task = Off
    /\ ring = Off /\ owed = Off /\ used = Off
NamedOff == SoundOff /\ ptr = Off /\ DiskOff /\ StatesOff
LateOff == x9 = Off /\ x10 = Off /\ x11 = Off /\ x12 = Off /\ x13 = Off
OthersOff ==
    /\ x1 = Off /\ x2 = Off /\ x3 = Off /\ x4 = Off
    /\ x5 = Off /\ x6 = Off /\ x7 = Off /\ x8 = Off /\ LateOff

Init ==
    \/ unit = "sound" /\ SoundStream!Init /\ DiskOff /\ StatesOff /\ OthersOff
    \/ unit = "d88" /\ D88Cache!Init /\ SoundOff /\ StatesOff /\ OthersOff
    \/ unit = "states" /\ StateSave!Init /\ SoundOff /\ ptr = Off /\ DiskOff /\ OthersOff
    \/ unit = "scsi" /\ Scsi!Init /\ x5 = Off /\ x6 = Off /\ x7 = Off /\ x8 = Off /\ LateOff /\ NamedOff
    \/ unit = "sasi" /\ Sasi!Init /\ x6 = Off /\ x7 = Off /\ x8 = Off /\ LateOff /\ NamedOff
    \/ unit = "fdc" /\ Fdc!Init /\ x8 = Off /\ LateOff /\ NamedOff
    \/ unit = "sgp" /\ Sgp!Init /\ x7 = Off /\ x8 = Off /\ LateOff /\ NamedOff
    \/ unit = "fpu" /\ Fpu!Init /\ x7 = Off /\ x8 = Off /\ LateOff /\ NamedOff
    \/ unit = "timers" /\ Timers!Init /\ x6 = Off /\ x7 = Off /\ x8 = Off /\ LateOff /\ NamedOff
    \/ unit = "tape" /\ Cmt!Init /\ x6 = Off /\ x7 = Off /\ x8 = Off /\ LateOff /\ NamedOff
    \/ unit = "display" /\ Video!Init /\ LateOff /\ NamedOff
    \/ unit = "alu" /\ Alu!Init /\ x5 = Off /\ x6 = Off /\ x7 = Off /\ x8 = Off /\ LateOff /\ NamedOff
    \/ unit = "strings" /\ Strings!Init /\ x8 = Off /\ LateOff /\ NamedOff
    \/ unit = "frames" /\ Frames!Init /\ x6 = Off /\ x7 = Off /\ x8 = Off /\ LateOff /\ NamedOff
    \/ unit = "cpu" /\ Cpu!Init /\ NamedOff

\* A list of the SGP ends; the others always have something to wait for.
SgpEnded == unit = "sgp" /\ ~x3.busy /\ UNCHANGED vars

\* The user of the save states may leave it at that.
UserLeaves == unit = "states" /\ task = StateSave!Idle /\ UNCHANGED vars

\* A program has done the operations it has.
ProgramEnds == unit = "frames" /\ x5 = 4 /\ UNCHANGED vars

Next ==
    \/ unit = "sound" /\ SoundStream!Next /\ UNCHANGED <<unit, diskOnly, stateVars, others>>
    \/ unit = "d88" /\ D88Cache!Next /\ UNCHANGED <<unit, soundOnly, stateVars, others>>
    \/ unit = "states" /\ StateSave!Next /\ UNCHANGED <<unit, soundOnly, ptr, diskOnly, others>>
    \/ unit = "scsi" /\ Scsi!Next /\ UNCHANGED <<unit, x5, x6, x7, x8, late, named>>
    \/ unit = "sasi" /\ Sasi!Next /\ UNCHANGED <<unit, x6, x7, x8, late, named>>
    \/ unit = "fdc" /\ Fdc!Next /\ UNCHANGED <<unit, x8, late, named>>
    \/ unit = "sgp" /\ Sgp!Next /\ UNCHANGED <<unit, x7, x8, late, named>>
    \/ unit = "fpu" /\ Fpu!Next /\ UNCHANGED <<unit, x7, x8, late, named>>
    \/ unit = "timers" /\ Timers!Next /\ UNCHANGED <<unit, x6, x7, x8, late, named>>
    \/ unit = "tape" /\ Cmt!Next /\ UNCHANGED <<unit, x6, x7, x8, late, named>>
    \/ unit = "display" /\ Video!Next /\ UNCHANGED <<unit, late, named>>
    \/ unit = "alu" /\ Alu!Next /\ UNCHANGED <<unit, x5, x6, x7, x8, late, named>>
    \/ unit = "strings" /\ Strings!Next /\ UNCHANGED <<unit, x8, late, named>>
    \/ unit = "frames" /\ Frames!Next /\ UNCHANGED <<unit, x6, x7, x8, late, named>>
    \/ unit = "cpu" /\ Cpu!Next /\ UNCHANGED <<unit, named>>
    \/ SgpEnded \/ UserLeaves \/ ProgramEnds

Spec == Init /\ [][Next]_vars

\* Where the run goes on: once the sound threads have crossed, only while the
\* recording goes on that began before, of which alone FramesOnce says something.
Followed == unit = "sound" /\ crossed => active /\ ~mark.crossed

-----------------------------------------------------------------------------
TypeOK ==
    /\ unit = "scsi" => Scsi!TypeOK
    /\ unit = "sasi" => Sasi!TypeOK
    /\ unit = "fdc"  => Fdc!TypeOK
    /\ unit = "d88"  => D88Cache!TypeOK
    /\ unit = "sgp"  => Sgp!TypeOK
    /\ unit = "states" => StateSave!TypeOK
    /\ unit = "sound" => SoundStream!TypeOK
    /\ unit = "fpu" => Fpu!TypeOK
    /\ unit = "timers" => Timers!TypeOK
    /\ unit = "tape" => Cmt!TypeOK
    /\ unit = "display" => Video!TypeOK
    /\ unit = "alu" => Alu!TypeOK
    /\ unit = "strings" => Strings!TypeOK
    /\ unit = "frames" => Frames!TypeOK
    /\ unit = "cpu" => Cpu!TypeOK

\* A guest that has given a command is not left alone with it: a status, a
\* request for a byte or the event that brings one is there (scsiio.c,
\* sasiio.c), and the DMA channel works as long as the FDC's command
\* (fdc.c, dmac.c).  A tape that is being read does not stand still (cmt.c).
\* Not served is a SCSI read of a whole window, which waits for a byte there is
\* not (scsiio.c:771).
GuestIsServed ==
    /\ unit = "scsi" => Scsi!Answered
    /\ unit = "sasi" => Sasi!StatusOwed
    /\ unit = "fdc"  => Fdc!ChannelFollows
    /\ unit = "tape" => Cmt!NeverStalls

\* A command that reports success has moved what it was asked to move, all of
\* it, in order, and nothing else; a count the guest latches is the one there
\* was, however it reads the halves (pit.c).  The bytes of a tape come in order
\* and after the blocks that stand before them (cmt.c), and a command of the
\* text sprite processor is carried out with its own bytes (tsp.c).  The code
\* also reports GOOD where this does not hold, and these are left out by name:
\* of a SCSI read only the first window is moved (scsicmd.c:805, 810), a SASI
\* command goes on after a block that failed (sasiio.c:242, 263), and the event
\* of a SASI command that was reset ends the one after it (sasiio.c:328).
SuccessIsTrue ==
    /\ unit = "timers" => Timers!OnTime
    /\ unit = "scsi" => Scsi!OneFinalStatus
    /\ unit = "sasi" => Sasi!GoodMeansMoved
    /\ unit = "fdc"  => Fdc!TransferExact
    /\ unit = "tape" => Cmt!BytesInOrder /\ Cmt!BlocksFirst
    /\ unit = "display" => Video!OwnBytes

\* What a device has to report is neither lost nor overtaken: the one event of
\* the SCSI board carries the status its flags speak of, a service request
\* names the phase the bus is in, and the end of a seek or a change of disk
\* stays until the guest fetches it.  The request of the coprocessor follows
\* its unmasked exceptions (upd8087.c), the one request of the two FM timers
\* is there as long as one of them asks (fmtimer.c), the interval timer asks
\* once for each count it was given (pit.c), and the processor accepts a request
\* in the first window of two instructions that its program gives it.  The
\* status of the text sprite processor speaks of what SPROV has (makesprva.c).
ReportsArrive ==
    /\ unit = "cpu" => Cpu!WindowTaken
    /\ unit = "display" => Video!SpritesReported
    /\ unit = "fpu" => Fpu!RequestFollows
    /\ unit = "timers" => Timers!FmAsked /\ Timers!OneRequest
    /\ unit = "scsi" => Scsi!OneHandler /\ Scsi!ServiceNamesPhase
    /\ unit = "fdc"  => Fdc!ReportKept

\* What the guest has put on a D88 disk is read back, through the one track
\* cache of all drives, and is in the file once nothing waits in the cache
\* (fdd_d88.c).  Not kept is a track that was in the cache when the guest
\* formatted one in another drive, which is built in the same buffer
\* (fdd_d88.c:730, 752); every other track is.
DiskKeepsWrites == unit = "d88" => D88Cache!ReadsBack /\ D88Cache!Complete

\* What computes leaves what its manual says.  A command of the graphic
\* processor writes the words it has to (sgp.c).  An instruction of the
\* coprocessor that raises an unmasked exception has left its operands alone,
\* and tags speak of the values they stand beside (upd8087.c).  The
\* processor's sums, quotients, shifts and decimals are those of numbers, and
\* its conditional jumps follow their order; a repeated move that interrupts
\* broke off moves what is left; a string instruction, with any prefix, moves
\* and finds what it is for (cpu/upd9002).  The state the guest saves of its
\* coprocessor comes back as it was, and so does code that is interrupted or
\* calls (upd9002_core.c): a program finds its registers, arguments, locals and
\* return addresses where calls, pushes and ENTER have put them (upd9002_mn.c).
\* The screen has the text of the memory, though blank text is not drawn again
\* (maketextva.c).  Left out by name, for the code does otherwise: what a REP
\* OUTSW puts out, bytes (upd9002_mn.c:4223, 4559), an FPTAN with no room for its
\* second result, and text that port 148H or the graphic processor has written.
ResultsTrue ==
    /\ unit = "sgp" => Sgp!Faithful
    /\ unit = "fpu" => Fpu!Whole /\ Fpu!TagsTrue /\ Fpu!Returned
    /\ unit = "alu" =>
        /\ Alu!SumsExact /\ Alu!QuotientsExact /\ Alu!ShiftsIterate
        /\ Alu!DecimalsExact /\ Alu!JumpsFollowOrder
    /\ unit = "cpu" => Cpu!RepeatsWhole /\ Cpu!ModeMatches /\ Cpu!AtStarts
    /\ unit = "strings" => Strings!Moved /\ Strings!Found
    /\ unit = "frames" => Frames!Agree
    /\ unit = "display" => Video!TextFresh

\* The quick saves and the machine before the last load survive every failed
\* save, failed load, undo and crash, and a machine that is taken for a saved
\* one has its events and its disk (gui.cpp, statsave.c).  The event of a key
\* on its way comes back as the mouse's, and takes the mouse's own with it:
\* all other events are kept (run state_events).
StatesKept ==
    unit = "states" =>
        StateSave!RestoredExactly /\ StateSave!RingKept /\ StateSave!UndoKept

\* What the emulation thread and the audio callback do to the stream buffer
\* loses and doubles no frame, neither in what is played nor in a recording
\* (sound.c, soundmng.c), as long as neither enters a section of sound.c while
\* the other is in one: the build has no lock there to keep it out, and then
\* frames are lost (run sound_unlocked).  A recording that began before is
\* whole and in place even so.
FramesOnce ==
    unit = "sound" =>
        /\ ~crossed => SoundStream!PlayedOnce /\ SoundStream!RecordedOnce
        /\ SoundStream!RecordedWhole
=============================================================================
