# Verification of vaeg

vaeg is an emulator of the NEC PC-88VA: a C core (CPU, chips, scheduler) around
which an SDL2 front end, written in C and C++, plays sound, shows the screen,
records video and keeps save states. This directory holds TLA+ models of the
parts of vaeg whose correctness depends on the *order* in which things happen,
or on arithmetic that is easy to get wrong by one; the configurations that
model-check them with TLC; and proofs about them that TLAPS checks.

Contents: 1 the system; 2 modules and code; 3 runs and bounds; 4 fairness;
5 proofs; 6 where code and text disagree; 7 not modelled; 8 what is left.

Running it: `tlc -workers 2 -config MCPic.cfg MCPic`, `tlapm HostProofs.tla`.
`HostInvariants` has the invariants `HostProofs` proves, definitions only.
`PROJECT.json` lists components, runs, a mutated definition for each property of
each run (it shows that the property can fail), the source lines of every
definition, findings, hazards and theorems.

## 1 The system

### 1.1 Components

The emulation thread runs everything in the upper part of this table; threads
of their own are marked (T). Modules in italics are this project's.

| component | state | operations | correct when |
|---|---|---|---|
| Event scheduler, `machine/nevent.c`, loop of `machine/pccore.c` (*Nevent, TimerQueue*) | sorted ready list, clock of each event relative to the slice, `SETEVENT` flags, wait list, base and remaining clocks | set (absolute, relative), reset, forced exit, progress, execute | guest time is exact; events come in order, once, never early, and at most an instruction late |
| CPU, `cpu/upd9002`, uPD70008 mode (*Cpu, Alu, Strings, Frames*) | registers, flags, memory, interrupt flag, instruction set | instructions, prefixes, interrupts, `BRKEM`, `CALLN`, `RETEM` | results are those of numbers; a request is taken in the first window the program gives; what is interrupted goes on as it was |
| FPU, `cpu/upd8087` (*Fpu*) | register stack, tags, masks, exceptions, request line | instructions, state save and load | unmasked exceptions leave operands alone and ask for an interrupt; a saved state comes back |
| Interrupt controllers, `io/pic.c` (*Pic*) | 8259 master and slave: IRR, IMR, ISR, priority, modes; 8214: levels, status, mask, armed, offered level | request, withdraw, arbitrate, ICW/OCW, E4H, E6H, 158H | the foremost request is taken; none is lost, repeated or left waiting by a slice that goes on |
| Timers: `io/pit.c`, `sound/fmtimer.c` (*Timers*) | counters, status flags, masks | ports, events | one request per count, and one as long as a timer asks; what is latched is what there was |
| Disk subsystem, the mock `io/fdsubsys.c` (*Fdsubsys*) | 8255 lines and ports, handshake state, command buffers | port writes of the main CPU, reset | each byte is taken once; both sides agree on where a request ends |
| Floppy disks: `io/fdc.c`, `io/dmac.c`, `fdd/diskdrv.c` (*Fdc*), `fdd/fdd_d88.c` (*D88Cache*) | phase, buffer, DMA channel, attentions; track cache | ports, events, DMA, insert, eject | a transfer reported good moved its bytes; what was written is read back |
| Hard disks: `cbus/sasiio.c` (*Sasi*), `cbus/scsiio.c`, `cbus/scsicmd.c` (*Scsi*) | phases, flags for what is owed, buffers | ports, DMA, events | every command is answered once, and with what happened |
| Graphic processor, `io/sgp.c` (*Sgp*) | command list, block registers, progress | steps between CPU accesses, abort | a command writes the words it has to and no others |
| Text and sprites, `io/tsp.c`, `vram/maketextva.c`, `vram/makesprva.c` (*Video*) | command and parameter bytes, sleeping text, sprite report | ports, frames | a command is carried out with its bytes; the screen follows memory |
| Cassette, `io/cmt.c` (*Cmt*) | tape position, blocks, one event | motor, receiver, user | bytes in order, none before the blocks ahead of them; a tape that runs moves |
| Keyboard and paste, `io/serial.c`, `machine/keystat.c`, `sdl2/kbdmap.c`, `sdl2/kbdpaste.c` (*Keyboard*) | held keys and counts, paced queue and matrix, FIFO, paste | host keys, GUI capture, frames, reset | the matrix comes to show what is held; a guest that scans once a frame sees every key |
| Save states, `machine/statsave.c`, quick saves of `sdl2/gui/gui.cpp` (*StateSave*) | files, ring of quick saves, undo | save, check, load, rotate, undo | what is loaded is consistent; a failure or a crash loses no more than it must |
| Folder as a drive, `io/hostfat.c`, `sdl2/hostfat_*.cpp` (*HostFat*) (T) | scan notes, candidate image, mounted image, manager's state | build, poll, swap; other programs change the folder | what is mounted is the folder as it was at one instant |
| Sound stream, `sound/sound.c`, `sdl2/soundmng.c` (*SoundStream*) | buffer, `ptr`, `remain`, last rendered clock; recording FIFO | sync (emulation), callback (T), recording start, stop, read, reset | each rendered frame is played once, in order; a recording has no gap |
| Recording queue and session, `sdl2/recording/recording_queue.cpp` (*RecordingQueue, RecordingSession, RecordingArchive*) | bounded queue, flags, counts, session state | push, pop, close, cancel, fail; prepare to destroy; worker (T) | bounded, ordered, drained before published; every call returns |
| Native recorder, `sdl2/recording/recording_native_session.cpp` and tap (*NativeSession*) | sample grid, clock mapping, segments, files | per guest frame, stop, split, reset, limit, fault | picture and sound follow each other without a gap, in step |
| MP4 export, `sdl2/recording/recording_mp4.cpp` (*Mp4Export*) | job queue, status, flags, temporary directory | enqueue, cancel, shutdown; worker (T), track threads (T) | the outcome reported is the true one |
| Memory map, other ports and chips, sound synthesis, rendering, GUI, configuration, self tests | | | section 7 |

### 1.2 Interaction

* A device arms an **event**; the CPU loop of `pccore_exec` runs instructions
  until the slice is used up, `nevent_progress` moves due events to the wait
  list, `nevent_execute` calls them, `pic_irq` arbitrates, the next slice
  begins. Port handlers run *inside* an instruction and may arm events, reset
  them, raise requests or force the slice to end.
* A device raises an interrupt by `pic_setirq`. Nothing is delivered before the
  slice ends, so whatever makes an interrupt deliverable has to end it. What STI,
  EI, POPF, IRET and HLT promise is made by cutting or stretching the slice.
* DMA moves a byte between two instructions (`dmap.c`), when a device asks for it.
* The main CPU and the disk subsystem share two data ports and a port of
  handshake lines (ATN, DAV, RFD, DAC).
* All floppy drives share one track cache; a save state flushes it and stores the
  hash of the images, which stay outside the state.
* The audio callback and the emulation thread share the stream buffer.
* The frame loop hands slices to the recording worker through the queue; when
  a recording has been published it may be queued for the MP4 exporter.
* The worker of the folder drive reads files another program may be writing; its
  candidate is swapped in by the main thread when it polls.

### 1.3 What is hard

Re-entrant scheduling from callbacks and from within an instruction; relative
time that is moved under running code; two interrupt controllers of which one
stands in front of the other, with guest code that switches modes in the middle
of an offer; one event that serves several handlers; a byte handshake with
resets; a cache that belongs to a drive that has just been emptied; a crash
between two renames; two threads and a buffer; condition variables with several
producers; failure, cancel and destruction at any point of a worker's life; time
counted on two grids; a directory nobody can lock. `PROJECT.json` "hazards" names
each at its line.

## 2 Modules and code

Every module begins with a comment that says what a step is and what was
abstracted. Definitions keep the names of the source; operators whose name ends
in `Mutant` exist to show that a property can fail.

Components that share no state are checked side by side: `MCDevices` and `MCHost`
choose one **unit** at the start of a behaviour, and the variables of the others
stay `Off`. Their product would multiply states and show nothing more, and one run
answers one question for all of them: is the guest served, is what is reported as
done done, does what has to be reported arrive. `MCStores` holds those units of
`MCDevices` whose proofs are in `StoresProofs`, so that both can be proved about in
reasonable time.

### Nevent, TimerQueue (`nevent.c`, `pccore_exec`)
`Nevent` has the ready list, `clock`, flags, wait list, `base`/`rem` and the
program counter of the loop. An instruction is any sequence of *charges* of
clocks and scheduler calls; a callback is any sequence of calls. `Arm` (with
`SetAbsolute`, `SetRelative`, `SetStale`) is `nevent_set` with the cut of the
running slice, `Progress` is `nevent_progress`, `CallBack`, `CallBackDone` and
`Executed` are the loop of `nevent_execute`. `left` is a history variable: the
clocks until an event is due, maintained without looking at slices; the
properties compare the relative bookkeeping with it.
`TimerQueue` is the abstract specification: a set of deadlines, time that may not
pass one by more than `Late`, batches delivered in order of deadline.
`Nevent` implements it (`armed <- Ready, due <- left, batch <- waitevent`).

### Pic (`pic.c`, the interrupt side of `pccore_exec` and of the CPU)
State of both 8259s, of the 8214, the CPU's interrupt flag and instruction set,
and the place in the slice. One step of the guest is one instruction: a port
write or an instruction that touches the flag; `PicIrq` is the whole of `pic_irq`,
8214 delivery included. Line counts are parameters (three and two instead of
eight). `nest`, `served`, `plain` are histories. `Modes` bounds which instruction
sets the guest uses. `Sti` here always gives its window; what a fetch stall does to
it is in Cpu.

### Cpu, Alu, Strings, Frames (`cpu/upd9002`)
`Cpu` is the loop of slices: prefixes, repeated strings that stop at the end of a
slice and start again from their first prefix, windows of STI, POPF and `MOV SS`,
HLT, INT and IRET, BRKEM, RETEM, CALLN and trapped ports of uPD70008 code. `Alu` has
each instruction's destination and flags as the macros compute them, bit for bit,
beside sums, quotients and decimals of numbers. `Strings` has the elements, prefixes
and repetitions of string instructions with memory that wraps at a segment's end;
`Function` is what the tables of prefixes dispatch to, and what the instruction should do
is told from the one that was written (`start.insn`), not from the table;
`Frames` runs calls, pushes, ENTER and LEAVE beside an abstract stack of named
frames. Parameters: `Word` (12 bits instead of 16, since TLC's integers have 32),
`OffsetBits`, `DispBits`. `Cpu` assumes that native code entered from uPD70008 code
does not use BRKEM (docs/modernization/upd9002-upd70008-mode.md:299-308). The models
keep SP even and words inside a segment; section 6 says what the code does there.

### Fpu (`cpu/upd8087`)
One step is one instruction. A number is the class the code tells apart; signs,
digits and condition codes are left out, and whatever SoftFloat returns is any
outcome. Two registers instead of eight wrap as eight do; the guest loads only
images it has saved.

### Timers (`io/pit.c`, `sound/fmtimer.c`, `sound/fmboard.c`)
FM timers A and B with their shared request and its mask, and channel 0 of the
interval timer with its halved count and latch. `Base` is a digit of the count.

### Fdsubsys (`fdsubsys.c`)
`Exec` is one pass of the loop of `subsys_exec`, with one action per handshake
state and per command; lines are sets of names, the disk is a function of track,
sector and offset, reads may fail. The main CPU is guest code, modelled from the
transport that docs/bios/fdc_monitor.md:58-63 describes: it raises ATN with a
command, gives and takes bytes by DAV, RFD and DAC, and asks with 03H only for
what 06H reported as read. `Reset` may come between any two steps.
Command 0BH of the real monitor is not in the mock, hence not here; 0CH writes
outside the work memory; after a write, 06H reports the status of the last read,
because nothing else sets it (the model's main CPU does not ask then).

### Fdc (`fdc.c`, `dmac.c`, `dmap.c`, `diskdrv.c`) and D88Cache (`fdd_d88.c`)
`Fdc`: command, execution and result phases, seeks and their attentions, motors,
the pacing event, programmed and DMA transfers, terminal count, the mask of the
channel, disks taken out and put in with the insertion delay. The guest uses MT=0.
`D88Cache`: a file is a sequence of cells, a cell a sector with its header; the one
cache, its flushes, and formats that build a track in the cache's buffer and move
the rest of the file. Nothing keeps a format from the buffer while it holds another
drive's track (fdd_d88.c:730, :752): `lent` is the history of the tracks that were in it.
`Outcomes` says whether the file can always be opened; each image is a file of its own.

### Sasi (`sasiio.c`), Scsi (`scsiio.c`, `scsicmd.c`)
A step is one port access, a byte moved by DMA, or the event. A byte is the pair of
its block and its place, so that loss, doubling and order show. `Scsi` keeps the
board as one record, because the handlers call one another; what it owes the guest
is in flags that `NEVENT_SCSIIO` works off, for two handlers in turns. Data go by
three routes: direct after SELECT AND TRANSFER, port 0CC6H, and TRANSFER INFO
("level2"). A read of more than one window ends with the first on all of them, because
`scsicmd_direct_data_complete` (scsicmd.c:810) closes the command's block transfer with
it, so that scsicmd.c:364, which fetches the next, is not reached. The guest resets
and selects only when it has been told something. A SASI reset may come at any time and
leaves the event in the queue, where it is `"stale"`; `cut` and `late` are the history
of commands that a stale event has ended, or that went on after a failure.

### Sgp, SgpJobs (`io/sgp.c`)
A word is a sequence of bits, a mode packs pixels in it. The steps of a command are
those of the code, and the CPU may abort or restart between any two. `BltWanted`,
`LineWanted`, `ClsWanted`, `ScanWanted` say what a command must leave; they come from
docs/modernization/upd92017-sgp.md and not from the code. `SgpJobs` has the lists the
run tries: every raster operation, transparency, alignment, direction and line slope.

### Video (`io/tsp.c`, `vram/`)
Commands and the bytes that follow them, one cell of text that sleeps while it is
blank, one line of sprites whose collision or overflow is reported in the next frame.
Byte counts are scaled down (SYNC has 14 parameters, DSPON 3, here two and one), so
that one byte, the last and the one before it still differ.

### Cmt (`io/cmt.c`)
A tape is bytes with blocks between them; one event paces both, and the guest's
motor, channel and receiver, and the user's tape, rewind and recording decide again
whether it is armed.

### Keyboard (`serial.c`, `keystat.c`, `kbdmap.c`, `kbdpaste.c`)
`keys` is the keyboard side: held keys with their counts, the FIFO's length, the
queue of paced makes and breaks, the matrix a guest scans and the age since its last
change. `paste` is the paste's state machine. `MatrixSend`, `MatrixTick` and
`FlushMatrix` are serial.c's; `Frame` is a guest frame with the scan that comes with
it. `typed`, `seen`, `known` are histories of what a guest that scans once a frame
reads. Layout tables and roman-kana conversion are left out.

### StateSave (`statsave.c`, `gui.cpp`)
Steps are the file operations, and the process may die between any two. The machine
is an identity, its pending events by the names the tables give them, and what the
guest believes is on the disk. `temp`, the ring and the undo file are real files.

### HostFat (`hostfat.c`, `hostfat_*.cpp`)
The worker's scan and copy call by call, with another program changing the folder
between any two of them; the manager's thread, poll and swap. Every change gives a
file or its directory a new modification time, unless a file is put in another's
place: it may bring an old time with it. What an entry is refused for is `Refuse`.

### SoundStream (`sound.c`, `sound_capture.c`, `sdl2/soundmng.c`)
Two threads, `emu` and `audio`. A frame is the number under which the chips
rendered it, so that loss, doubling and reordering can be seen. Steps are as fine
as the statements that write `ptr`, `remain` and the buffer. `SNDCSEC_ENTER` and
`SNDCSEC_LEAVE` keep nobody out, as in the build: readme.txt:111 names the option
`SOUND_CRITICAL`, no build file sets it. `owner` is the last thread to have entered a
section and not left one, `crossed` the history that a thread entered with the other in.
Clock arithmetic and `remain` wrap at `Word`.

### RecordingQueue, RecordingSession, RecordingArchive (`recording_queue.cpp`)
A region under the queue's mutex is one step, a notification after the unlock is
another, waits can end spuriously. `RecordingSession` instantiates the queue with
the client as producer and controller and the worker as consumer, and adds the
session's states, the worker's life and its sink. The program drives a
session from one thread, and so does the model. A slice is its
number, its size and one reason why it may not fit. `RecordingArchive` is the
promise made for one file, which the session implements: slices are stored in the
order they were taken, and the file is published only with all of them.

### NativeSession (`recording_native_session.cpp`, the tap, the runtime)
One pass of the main loop (a guest frame, perhaps with a sound register written in
its middle) is one action. Sound advances on the grid of samples (`Rate`), picture on
that of clocks (`ClockRate`); a frame is stored when the next one gives its end.
Splits, resets, new geometries, limits, stops, cancels and faults of the queue and the
writer come between. Cells of a file are intervals of clocks and samples.

### Mp4Export (`recording_mp4.cpp`)
Front end, worker and track threads; critical sections are steps, `cancel_` is
shared between `cancel()` and a failing track, as in the code. `Foreign` is another
program that creates a file at the target name. Decoding and encoding end, fail, or
notice `cancel_`.

## 3 Runs and bounds

States are distinct states; times are those of two TLC workers.

| run | properties | states, time | shows |
|---|---|---|---|
| nevent | TypeOK TimeExact NothingDueWhenFetching Deadline NoLostEvent ImplementsTimerQueue EventuallyCalled | 439,231, 2 min | no drift, no event early, late, lost or doubled, no starvation |
| pic_8259 | NestedOrder EdgeOnce TakesTheHighest RequestsKept | 927,177, 2 min | arbitration, nesting, edge input, nothing lost |
| pic_8214 | NoSpuriousInt LetsThroughAtOnce OneAcceptPerArming | 1,558,801, 3 min | the 8214 in front of the master, native and compatible code, no late interrupt |
| fdsubsys | EachByteOnce HonestRead RequestEnds | 1,089,561, 2 min | four requests with resets and read errors |
| recording_queue | UnbrokenRun ClosedIsDrained NoLostWakeup CallsReturn | 163,790, 3 min | two producers, one worker, one controller |
| recording_session | FailureIsNamed StopSaves CallReturns ImplementsArchive | 112,679, 1 min | two recordings in a row with every way to end them |
| devices | TypeOK GuestIsServed SuccessIsTrue ReportsArrive DiskKeepsWrites ResultsTrue StatesKept FramesOnce | 1,257,754, 2 min | fifteen units, each against its own environment |
| host | KeysArrive RecordedExactly SnapshotTrue KeysSeen NothingIsLost HonestOutcome ComesToEnd | 211,836, 1 min | keys and pastes, exports, recordings, a folder as a drive |

Four more runs each find one violation; section 6 describes them: `sound_unlocked`
(`PlayedOnce`), `state_events` (`UndoRestores`), `d88_retry` (`ReadsBack`),
`session_short` (`NoFalseFailure`).

A property of `devices` or `host` is a conjunction over units; each conjunct is a
definition of the unit's module:

| property | units and their definitions |
|---|---|
| GuestIsServed | Scsi `Answered`; Sasi `StatusOwed`; Fdc `ChannelFollows`; Cmt `NeverStalls` |
| SuccessIsTrue | Timers `OnTime`; Scsi `OneFinalStatus`; Sasi `GoodMeansMoved`; Fdc `TransferExact`; Cmt `BytesInOrder`, `BlocksFirst`; Video `OwnBytes` |
| ReportsArrive | Cpu `WindowTaken`; Video `SpritesReported`; Fpu `RequestFollows`; Timers `FmAsked`, `OneRequest`; Scsi `OneHandler`, `ServiceNamesPhase`; Fdc `ReportKept` |
| ResultsTrue | Sgp `Faithful`; Fpu `Whole`, `TagsTrue`, `Returned`; Alu `SumsExact`, `QuotientsExact`, `ShiftsIterate`, `DecimalsExact`, `JumpsFollowOrder`; Cpu `RepeatsWhole`, `ModeMatches`, `AtStarts`; Strings `Moved`, `Found`; Frames `Agree`; Video `TextFresh` |
| DiskKeepsWrites, StatesKept, FramesOnce | D88Cache `ReadsBack`, `Complete`; StateSave `RestoredExactly`, `RingKept`, `UndoKept`; SoundStream `PlayedOnce`, `RecordedOnce` until the threads cross, `RecordedWhole` |
| KeysArrive, KeysSeen | Keyboard `Settles`, `PasteTyped`; `SeenBeforeRelease` |
| RecordedExactly | NativeSession `RecordedExactly`, `SavedIsWhole`, `Released` |
| SnapshotTrue, NothingIsLost | HostFat `Coherent`, `StatusTrue`; Mp4Export `CancelTakes`, HostFat `KeepsDrive` |
| ComesToEnd | Keyboard `AtRest`; Mp4Export `Dequeued`, `JobEnded`, `Returned`; HostFat `Rest` |

Where the code as built does otherwise, a property leaves the case out by name, in its
comment and in its formula, and nothing else:

| property | left out | because |
|---|---|---|
| SuccessIsTrue, Scsi | blocks of a read after the first window | reported GOOD and never moved (scsicmd.c:805, :810) |
| SuccessIsTrue, Scsi | number and order of the bytes of a read by TRANSFER INFO (`level2`) | the data port serves it without counting (scsiio.c:737) |
| GuestIsServed, Scsi | a read that has taken the whole window (`WindowEmpty`) | waits for a byte there is not (scsiio.c:771) |
| SuccessIsTrue, Sasi | `late`: bytes moved after a failed block | they end the command with GOOD (sasiio.c:242, :263) |
| SuccessIsTrue, Sasi | `cut`: ended by the event of a command before a reset | the reset does not cancel it (sasiio.c:328) |
| DiskKeepsWrites | `lent`: tracks in the cache under another drive's format | built over (fdd_d88.c:752) |
| StatesKept | the events of a keyboard, and of a mouse beside it | one identifier for two rows (statsave.tbl:46; run state_events) |
| FramesOnce | what is played, and recordings begun, after `crossed` | no lock (sndcsec.h:4; run sound_unlocked) |
| ResultsTrue, Strings | width of REP OUTSW (`AsBytes`) | table entry 6FH (upd9002_mn.c:4223, :4559) |
| ResultsTrue, Fpu | FPTAN on a full stack | writes before it raises (upd8087.c:2840) |
| ResultsTrue, Video | text written by port 148H or the graphic processor | does not wake sleeping text (sgp.c:215) |

The units of `devices` alone have these states: fdc 266,432; sound 214,114; d88
196,396; fpu 144,189; display 100,911; sasi 62,432; states 50,402; scsi 48,018; cpu
39,391; strings 32,905; alu 27,765; timers 22,796; frames 19,198; sgp 18,720; tape
14,085. Of `host`: folder 82,757; recording 71,853; the rest keys and exports.

Bounds, and why they suffice:

* **nevent**: three events, one of each kind that the code has: one guarded by
  `nevent_iswork` (FM timers), one re-armed at will (PIT), one armed relative
  while idle (cassette, FDC, MIDI). Delays 0, 1, 3 with a slice of 4 give events
  due at once, inside an instruction of 2, at its end and after the slice; two
  calls per instruction or callback allow an arm and a forced exit, or an arm of
  another event of the batch and of its own.
* **pic**: three master and two slave lines are the least with a line on each
  side of the cascade's rank once the priority rotates, and nesting within a
  controller. The 8259 run starts with the masks of reset and unmasks; it has
  specific EOI with rotation and unspecific EOI, special mask mode, automatic EOI and
  level triggering of the slave, an edge input, and native code only. The
  8214 run has all three kinds of code, two status values, two masks of E6H, and
  masks and unmasks the cascade, in 8214 mode and after the change to 8259 mode.
* **fdsubsys**: a sector has 1 to 4 bytes, the buffer 4, so that reads end before,
  at and past its end; four requests let a status, a count or a flag of one
  command reach the one after next.
* **recording_queue**: 2 slices of size 1 or 2 in a room of 2, so that the size,
  not only the count, blocks a push; both producers compete for each number.
* **recording_session**: up to 4 numbers over 2 slots, two recordings.
* **sound**: a period of 2 frames with 1 in reserve and a chunk of 2, so
  that a chunk crosses a period; FIFO of 6, words modulo 16, five clocks (eight in
  sound_unlocked), three callbacks, one reset. Once the threads have crossed, nothing is
  claimed but of a recording that began before; the constraint `Followed` cuts the
  behaviours after a crossing in which there is no such recording.
* **d88**: two drives and three tracks of up to three sectors, two of which the
  images have at first, so that a format moves a track behind it; two exchanges.
* **states**: a ring of three (five in the code) is rotated past its end by four
  tasks; three queues of events, one with a key's beside the mouse's, one crash.
* **scsi**: commands without data, with data in, in and out past a window of three
  blocks, and unknown, on all three routes; counts below and at the window; three
  commands, so that a status of one can meet the next one's. **sasi**: every command,
  0, 1 and 2 blocks of two bytes, two commands, one unit with a disk and one without.
* **fdc**: two drives, one of them write-protected, two sectors of two bytes; DMA
  lengths one below and at the end of the track; two commands, one exchange of disks.
* **sgp**: 16 words of four bits in three modes; two accesses of the CPU during a list.
* **fpu**: two registers, three masks, two control instructions. **timers**: periods 1
  and 3, digits below 2, four accesses. **tape**: a raw tape of three bytes and a T88
  tape with spaces and a mark, seven acts of guest and user. **display**: three
  sprites, two commands.
* **cpu**: main programs of two phrases out of twelve, routines of two uPD70008
  operations, handlers that enable interrupts or not, strings of two. **alu**: each
  operand at the ends of every range, of nibbles, signed and unsigned numbers, in 8 and
  12 bits, and counts around 8, 12 and their multiples. **strings**: strings that
  overlap, wrap or do not, in segments of eight bytes. **frames**: stacks of up to 14
  words, four operations after the start, nesting levels 0 to 3.
* **host**: keys: two keys and shift, `Hold` 2, a queue of 5, FIFO of 2, texts with a
  repeated key and a shifted one, two acts of the user. exports: a queue of 1 (4 in the
  code) so that it is full with two recordings; three jobs, so that one follows a
  cancelled and a failed one. recording: two samples in three clocks, frames of 5 and 6
  clocks, so that frame ends fall on and between samples; 17 clocks for each epoch,
  three operations of user or fault. folder: a root, a directory, a file in each, two
  changes, two builds.

Deadlock is checked everywhere except in recording_session, where a destroyed
session, or one past the bound, does nothing more, and in session_short and
state_events, which end at their violation or their bounds. In `devices` the ends
of a list, a program and a user's wishes stutter by name (`SgpEnded`,
`ProgramEnds`, `UserLeaves`).

## 4 Fairness

* Nevent: weak fairness of the loop. `pccore_exec` is a loop; handlers owe
  nothing. `EventuallyCalled` assumes that the CPU gets to run again and again: a
  callback that re-arms its event with delay 0 every time stops guest time, in the
  code as in the model.
* RecordingQueue: every thread inside a call runs; the worker calls `wait_pop`
  after each slice (`SliceWorker::run`). No thread has to push, close or cancel,
  and no wait has to end spuriously.
* RecordingSession, Mp4Export: all threads run and sink calls return (those that
  wait for an encoder have a deadline and look at `cancel_`).
* Fdsubsys: the subsystem runs whenever it is not waiting, inside the port write
  of the main CPU, and the main CPU carries on with its transport.
* Keyboard: frames go by, the pacing event is called, and the front end's loop steps a
  paste. HostFat: its worker's calls return, its end is seen by the poll of the main
  loop, and a wait for it ends; nothing is asked of other programs.
* Pic, NativeSession and the units of `devices` state safety only.

## 5 Proofs

Eight modules hold theorems; all of them are proved for every value of the constants
that satisfies the assumption named here. `PROJECT.json` "theorems" lists the
results a reader should know. Each `Invariance` has the form `Spec => []Inv`: the
initial states satisfy `Inv`, one lemma per action shows that it is kept, and
the properties follow from it. Assumptions ask of the constants what the code's own
constants satisfy (a ring has a slot, a size is positive) and are evaluated by TLC in
every run.

* **NeventProofs** (`ConstantsAssumption`). `IInv` conjoins the type invariant, the
  sorted ready list, `TimeExact`, `SliceCoversHead`, `Deadline`, `NoLostEvent` and
  what makes these inductive: `InstructionLate` (in the middle of an instruction an
  event is late by what it has spent and the slice extension), `FlaggedAreDue`,
  `DueOrder`, `CallingSomeEvent`. `TimeExact` alone is not inductive: the insertion
  is made relative to `rem`, which an instruction in progress has overdrawn.
  Lemmas about the list (`WithoutProperties`, `InsertAtProperties`,
  `InsertionSorts`) carry `Arm`. `QueueIsImplemented`: `Nevent` implements
  `TimerQueue`, step by step.
* **RecordingQueueProofs** (`QueueAssumption`). `Inv` is `Typed`, `Waiting`,
  `Drained` (a worker that was told the end was told so of an empty, closed queue)
  and `Order` (what was popped, then what is stored, are the numbers accepted in
  order). `NoWakeupIsLost` adds `Wake` and has one consumer as a hypothesis, as in the
  code: with two, one notification may wake a consumer whose slice the other has taken.
* **RecordingSessionProofs** (`SessionAssumption`). `Typed`, `ClientAt`, `WorkerAt`
  (where both threads stand for every session state), `Counted`, `Admission`,
  `Storing`. `ArchiveIsImplemented`: the session implements `RecordingArchive`.
* **PicProofs** (`PicAssumption`; `UnmaskAssumption` for the requests, `Fresh` for
  one). `Unrotated` (a controller whose priority never rotated), `NestedOrder`,
  `Offering` (the offer of the 8214 and its level), `IntIsOffer`, `EdgeOnce`, and that
  what is in service is held by a device. `SlicesEndForInterrupts` proves the action
  property: no step makes an interrupt deliverable and lets the slice go on, except
  the ones its statement names.
* **FdsubsysProofs** (`FdsubsysAssumption`). Where both sides of the handshake can be,
  for each pair of lines, and what buffer and counts are there.
* **StoresProofs** and **DevicesProofs**. One invariant per unit, under the
  assumption of its constants; `DevicesProofs` lifts them to the steps of `MCDevices`.
  - `SoundWhole` has two parts. Until the threads have crossed: `SoundInv` = `SoundTyped`,
    `Locking` (who is in a section, and where in it), `Positioned`, `Kept` (each frame was
    played, waits, or was dropped or given up, and in order), `InPlace` and `Complete`
    (what a recording has, and where). At all times: `RecordInv`, what a recording
    begun before the first crossing needs to stay whole, which says nothing of `ptr`,
    `remain` or the frames in the buffer; a crossed thread may have left anything
    there. Nothing is assumed of a lock.
  - `DiskInv` = `Image` (the cells the cache stands for, laid apart, are those the
    file holds; what is not cached is as written, but for the tracks in `lent`), the
    owner's disk is inserted, and `Formatting` (the buffer of a format belongs to no drive,
    or to another one whose track is lent). It needs that the file can be opened, without
    which `d88_retry` finds the loss, and that each image has a file of its own.
  - `StateInv` = `StateTyped`, `OnItsDisk`, `Underway` (which files there are at each
    step of a save, a load, an undo), `Owing`, `RingStands` (each slot holds the save
    it should, or none after a crash). That events read back under the slot they were
    saved for is shown by induction over the set of their names (`EventsReadBack`). A queue may hold any
    events of the tables, each once; the two rows that have one identifier are why
    `AsPending` says nothing of a keyboard's and a mouse's when both may be meant, and
    `state_events` shows what becomes of them.
  - `SasiInv` = `SasiTyped`, `SasiStands`: how many blocks of the command have moved,
    as a function of phase, event and count, with the event's owner, since one that a
    reset left behind may fire in any phase. Hence `SasiIsKept`: a status that the
    program has to fetch is always owed or offered, and a good one means that all
    blocks moved, unless `late` or `cut`.
  - `CmtInv`: `CmtSounding`, `CmtMoves` (a tape that runs has its event armed),
    `CmtFetched` (what the guest read is the tape up to here), `CmtInPlace`. Hence
    `TapeIsKept`.
* **HostProofs**, about the invariants of **HostInvariants** (definitions only).
  - `FolderInv` (`FolderAssumption`): types, `WorkerInv` (what is in the notes, in the
    image and in the list of entries still to copy, and what was true of the folder when
    each was read), `Coherent`, `StatusTrue`. Central is that a file whose
    modification time is the noted one has the noted contents. Hence `SnapshotTrue`
    and half of `NothingIsLost`.
  - `ExportInv`: where the job, the worker and the tracks stand (`Converting`) and what
    `cancel_` means there (`Cancelling`). Hence `HonestOutcome` and the other half.
  - `RecordingInv` (`RecordingAssumption`): at rest the recorder's grid, clock and
    counts agree (`Rest`), and a recording that goes on has stored exactly the cells up
    to now, in files that hold what they were told (`Going`); `Sealed`, `UntilNow` and
    `Halted` describe it in the middle of a step. The sequence of files is flattened by
    set induction over their numbers. Hence `RecordedExactly`.
  - `KeysInv` (`KeyboardAssumption`: a key is held for two scans or more, the queue
    takes two entries, pasted events are paced no faster than the matrix): the matrix
    and the queue together come to what is held (`Settled`), and during an undisturbed
    paste the queue has nothing but releases, what is down is what the paste pressed,
    and at most one event is unread (`Undisturbed`). Folds over the queue are
    handled by set induction over its indices. Hence `KeysArrive` and the action
    property `KeysSeen`.

Only model-checked: the liveness properties (`EventuallyCalled`, `CallsReturn`,
`CallReturns`, `RequestEnds`, `ComesToEnd`), since the installed provers reason
neither about fairness nor about `ENABLED`; and of `devices` the properties
`TypeOK`, `ResultsTrue`, `GuestIsServed`,
`SuccessIsTrue` and `ReportsArrive` but for the SASI and cassette conjuncts of the first two. `ResultsTrue` is about data: sums, quotients, bit
blocks and lines are computed by functions of the operands' bits, and TLC compares
them with reference definitions over the bounded inputs of section 3; proofs about
bit vectors of any width are beyond these provers.

## 6 Where code and text disagree

Four runs show a violation:

* **sound_unlocked** (`PlayedOnce`): `SNDCSEC_ENTER` and `SNDCSEC_LEAVE` are empty
  unless `SOUND_CRITICAL` is defined (sndcsec.h:4), and nothing defines it, while
  docs/recording-v1/audit.md:289 says "`SNDCSEC` remains the core stream lock". The
  emulation thread and the audio callback change `ptr`, `remain` and the buffer
  unprotected: a frame is played twice or lost.
* **state_events** (`UndoRestores`): statsave.tbl:46 gives `NEVENT_KEYBOARD` the
  identifier of `NEVENT_MOUSE`; a pending keyboard event is loaded as the mouse's.
  src/sdl2/README.md:113 and :115 promise that undo returns to the machine as it was.
* **d88_retry** (`ReadsBack`): fdd_d88.c:199 says that a failed flush keeps its owner
  and dirty flag for a retry; `d88trk_read` (:127) reads the next track over the buffer,
  and `drvflush` (:206) gives up the owner, whatever the flush answered.
* **session_short** (`NoFalseFailure`): `sound_sync` generates nothing for less than
  two samples' clocks (sound.c:619), so a register written just before the end of a frame
  leaves the interval one sample short, and the recording ends as failed;
  docs/recording-v1/timing-audio.md:92 asks for all samples of the interval.

Met while reading, without a run of their own:

* *Recording and sound.* `sound_sync` reads `lastclock` before it enters the critical
  section (sound.c:618). Starting a second recording takes frames at hand for its newest
  (sound.c:364). The truncated advance of `lastclock` (sound.c:639) lets samples run
  ahead of the grid without bound, against timing-audio.md T6 "without a slope over
  time"; `elapsed_ticks` jumps after a reset and falls back; a split before the first
  frame skips a segment number.
* *Disk subsystem.* A read may pass the end of the buffer whose size fdsubsys.c:77 calls
  that of the data buffer (fdsubsys.c:645).
* *Interrupts.* OCW1 (pic.c:546) does not look at the slave's requests when it unmasks the
  cascade, and port 158H lets a waiting slave request through without ending the slice;
  ICW1 in 8214 mode clears the INT of a standing offer, which nothing raises until the
  next request or E4 write; RETEM (pic.h:30) with a standing offer goes on to the slice's
  end. `LetsThroughAtOnce` excepts these by name.
* *MP4.* `cancel()` after a job ended makes a success CANCELLED (gui.cpp:713).
* *CPU.* The window of STI breaks off at a fetch stall, against bug-fixes.md:1512-1514 and
  the comment in upd9002_upd70008.cpp; an interrupt accepted just before HLT skips the HLT;
  RETEM to IF=1 does not end the slice; a reserved opcode after REPC or REPNC returns to the
  prefix and loops; LOCK between a repetition and its string operation drops the repetition;
  table entry 6FH of REP and REPNE is `outsb` instead of `outsw` (upd9002_mn.c:4223, :4559);
  LEA of a register returns to SP-2 (`INT_NUM(6, UPD9002_SP - 2)`); a far CALL through
  memory pushes before it reads its pointer; words at offset FFFFH wrap for some
  instructions (MOVS, REPC strings, PUSHF, POPA, ENTER) and go on linearly for the
  others; REP CMPS, SCAS, INS and OUTS never break off at a slice's end; ADD and others
  clear flag bit 1; string I/O is not trapped; ADD4S and SUB4S with carry never set Z; word
  rotates by more than one leave V, byte ones set it; IDIV traps for a quotient of -128;
  AAD ignores its operand.
* *FPU.* FPTAN on a full stack with I unmasked has overwritten ST(0) (upd8087.c:2840 against
  :563); a control word with bits 13-15 makes a saved state that load refuses; FXAM of an
  empty register raises an exception; with IEM set FWAIT loops until FCLEX.
* *Timers.* A control word leaves the old event armed; a half-written count in rate mode is
  used by the running event; a latch during a half read leaves its flag; 27H clears flags
  and leaves the request; `sb2_i047` returns the wrong register bank.
* *SCSI.* A read beyond the window moves one chunk on every route and is reported GOOD,
  against src/docs/agents/tasks/M75_scsi_support.md:785; a legacy read of exactly the window
  never completes; RESET or a selection during a delay replaces the pending handler, RESET in
  a command leaves a phase owed. Were a later chunk ever fetched, its failure would give
  STATUS without CHECK (scsicmd.c:364); as built nothing reaches it.
  *SASI:* a failed block is swallowed if a byte moves before its event; the event survives a
  reset and ends the next command, with its last error (sasiio.c:328); an unknown command
  stays in its phase.
* *Floppies.* A refused format reports the drive status as it stands (fdc.c:912 against
  src/sdl2/README.md:124); MT=1 with head 0 never switches heads; a DMAC master reset masks
  without `dmac_check`; a motor switched off in a transfer hangs the command; TC in Write ID
  before the last sector reports success; two quick exchanges lose an attention. D88: a format is
  built over the track another drive has in the cache, whose unwritten sectors are lost
  (fdd_d88.c:752); formats of an image inside a file, the unmapped track number in 2D
  images, and headers of 2B0H bytes in images of 160 entries overwrite what is
  not theirs; a format in progress is not
  saved.
* *Cassette.* A reset inside a block of a T88 tape loses the rest of it, against the comment
  at cmt.c:283; a byte armed while recording overtakes the block before it; leaving V1/V2 mode
  stops the tape until the next access; writes past 4 MiB vanish and the save succeeds.
* *Keyboard.* A hold of 256 ticks wraps; a full FIFO drops a break; a key released while the GUI
  has the keyboard stays pressed.
* *States.* `scsiio_target_phase_ready_event` is not in the table of handlers, so such a state
  is written and never loads; a `quickundo-held.sav` left behind blocks later undos; a crash in
  a rotation leaves a hole, and the next rotation loses one save more.
* *Screen.* Text hidden for a frame by port 148H and shown again stays blank until the next
  write (`videova_o148` marks nothing dirty), and SGP writes to text memory do not wake it
  (sgp.c:215); collisions are reported only for frames the host draws (upd72022-tsp.md:1023).
* *Memory map.* Words across a 64 KiB seam use the region of their second byte; the last bytes
  of some banks read outside their array (memoryva.c).
* *Folder drive.* A program that rewrites a file in place and restores its time escapes the
  check; the promises of docs/modernization/hostfat.md:73-75 hold otherwise.

## 7 Not modelled

The map covers about a ninth of the implementation's lines (0.11), by choice. Most of the others
are front end, self tests, fonts and utilities, screen presentation, sound synthesis,
encoders and file formats: functions from data to data, or calls of host libraries, with
no order of steps that could be wrong. What is left:

* *Memory map and banking* is a function of bank registers; read, with the seams above
  as the result. *Ports* are tables bound at reset.
* *System ports, calendar, extended memory, MIDI*: register files; MIDI has a second
  interval timer like the one modelled.
* *Disk subsystem interface with the real firmware* (`subsystem` on a uPD780): its protocol
  is that of `Fdsubsys`, its program is a ROM.
* *Within modelled components*: trace and self-test modes everywhere; sound and T88 parsing of the
  cassette; RS-232C, mouse, printer; graphics planes, blinking, split screens; ports of the
  drive mode; MT of the floppy controller; DMA addresses; image formats other than D88;
  thumbnails and manual slots of states; names, clusters and guest reads of the folder
  drive; pixels, OSD, batch mode and the Matroska writer of the recorder; PIT channels 1, 2;
  the FPU's digits; bus timing; the data of instructions outside `Alu` and `Strings`.

## 8 What is left

In this order: the floppy controller's and the SCSI controller's conjuncts of
`GuestIsServed` and `SuccessIsTrue` as theorems; the timers, the FPU's request and the
CPU's windows for `ReportsArrive`; the memory map, whose seams are a small model of
their own; MIDI; the firmware's side of the disk subsystem.
