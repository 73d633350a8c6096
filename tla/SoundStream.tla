----------------------------- MODULE SoundStream ----------------------------
(***************************************************************************)
(* The sound stream of sound/sound.c: a buffer of frames between the       *)
(* emulation thread, which renders the time the guest has used in          *)
(* sound_sync, and the audio callback of sdl2/soundmng.c, which plays the  *)
(* front of the buffer and renders what is missing.  While a recording is  *)
(* active only the emulation thread renders, into the FIFO of the          *)
(* recording and what fits into the buffer too.                            *)
(*                                                                         *)
(* A frame is the number the chips gave it: the n-th they ever rendered.   *)
(* SNDCSEC_ENTER and _LEAVE are a lock if SOUND_CRITICAL is defined; the   *)
(* build defines it nowhere, they are empty, and a thread enters a section *)
(* whoever is in it.  The history crossed tells if that has happened.      *)
(* Steps are as fine as the statements that write ptr, remain and the      *)
(* buffer, except for the recording's own chunk.  A recording starts and   *)
(* stops between SDL_PauseAudioDevice calls, which wait for a callback.    *)
(* Clocks are counted with hzbase = 1, and a reset and a change of clock   *)
(* come between two slices, when CPU_CLOCK is the guest's clock.  The mute *)
(* switch, which changes what a frame holds, and the 64-bit overflows are  *)
(* left out.                                                               *)
(***************************************************************************)
EXTENDS Integers, Sequences, FiniteSets

CONSTANTS
    Samples, Reserve, \* sndstream.samples, reserve
    Chunk,      \* SOUND_CAPTURE_CHUNK_FRAMES
    FifoFrames, \* capacity_frames of a recording
    ClockBase,  \* soundcfg.clockbase: clocks of a frame
    Word,       \* 2^32 in the code
    MaxClock, MaxCallbacks, MaxEpoch \* bounds of the model

VARIABLES
    now,        \* CPU_CLOCK + CPU_BASECLOCK - CPU_REMCLOCK
    lastclock,  \* soundcfg.lastclock
    chip,       \* frames that the sound chips have rendered
    buffer, ptr, remain, generated, epoch, \* sndstream
    fifo, active, failed, dropped,         \* sndrecording
    owner,      \* history: the thread that entered the section last, if it is in it
    crossed,    \* history: a thread has entered while the other was in the section
    pc,         \* where each thread is
    want, count,\* their arguments and locals
    callbacks,  \* callbacks begun
    heard,      \* history: the frames that were played
    forgone,    \* history: frames that a reset or an earlier recording gave up
    base,       \* history: chip at the last streamreset
    taken,      \* history: the frames read from the recording
    mark        \* history: chip, base, clock, length of heard and crossed when it began, and how
                \*   many of the frames at hand were older than some that were dropped

clockVars == <<now, lastclock>>
streamVars == <<buffer, ptr, remain, generated, epoch, chip>>
recordingVars == <<fifo, active, failed, dropped>>
localVars == <<want, count>>
sectionVars == <<owner, crossed>>
historyVars == <<heard, forgone, base, taken, mark>>
vars == <<clockVars, streamVars, recordingVars, sectionVars, pc, localVars, callbacks, historyVars>>

Threads == {"emu", "audio"}
Capacity == Samples + Reserve
MinClock == 2 * ClockBase
NoFifo == [buffer |-> FALSE, frames |-> <<>>, first |-> 0, consumed |-> 0, epoch |-> 0]
NoMark == [chip |-> 0, base |-> 0, owed |-> 0, heard |-> 0, stray |-> 0,
           crossed |-> FALSE]

SmallerOf(a, b) == IF a < b THEN a ELSE b
Pending == (Capacity - remain) % Word
\* What falls outside the buffer is not modelled: nothing is written there, and
\* what is read from there is no frame.
At(i) == IF i \in DOMAIN buffer THEN buffer[i] ELSE 0
Front(n) == [i \in 1..n |-> At(i - 1)]
Rendered(n) == [i \in 1..n |-> chip + i]

\* memory with the frames fs from position p on
Copied(p, fs) ==
    [i \in DOMAIN buffer |-> IF i \in p..(p + Len(fs) - 1) THEN fs[i - p + 1] ELSE buffer[i]]

Init ==
    /\ now = 0 /\ lastclock = 0 /\ chip = 0
    /\ buffer = [i \in 0..(Capacity - 1) |-> 0] /\ ptr = 0 /\ remain = Capacity
    /\ generated = 0 /\ epoch = 1
    /\ fifo = NoFifo /\ active = FALSE /\ failed = FALSE /\ dropped = 0
    /\ owner = "none" /\ crossed = FALSE /\ pc = [t \in Threads |-> "idle"]
    /\ want = [t \in Threads |-> 0] /\ count = [t \in Threads |-> 0] /\ callbacks = 0
    /\ heard = <<>> /\ forgone = 0 /\ base = 0 /\ taken = <<>> /\ mark = NoMark

-----------------------------------------------------------------------------
Goto(t, l) == pc' = [pc EXCEPT ![t] = l]
Trespass == crossed' = (crossed \/ owner # "none")
Enter(t) == owner' = t /\ Trespass
Leave == owner' = "none" /\ UNCHANGED crossed

\* streamprepare(want[t])
Prepare(t) ==
    /\ pc[t] = "prepare"
    /\ LET n == SmallerOf(remain, want[t])
       IN  /\ count' = [count EXCEPT ![t] = n]
           /\ Goto(t, IF n = 0 THEN "prepared" ELSE "render")
    /\ UNCHANGED <<clockVars, streamVars, recordingVars, sectionVars, want, callbacks, historyVars>>

Render(t) ==
    /\ pc[t] = "render" /\ Goto(t, "advance")
    /\ buffer' = Copied(ptr, Rendered(count[t]))
    /\ chip' = chip + count[t] /\ generated' = generated + count[t]
    /\ UNCHANGED <<clockVars, ptr, remain, epoch, recordingVars, sectionVars, localVars,
                   callbacks, historyVars>>

Advance(t) ==
    /\ pc[t] = "advance" /\ Goto(t, "shrink")
    /\ ptr' = ptr + count[t]
    /\ UNCHANGED <<clockVars, buffer, remain, generated, epoch, chip, recordingVars, sectionVars,
                   localVars, callbacks, historyVars>>

Shrink(t) ==
    /\ pc[t] = "shrink" /\ Goto(t, "prepared")
    /\ remain' = (remain - count[t]) % Word
    /\ UNCHANGED <<clockVars, buffer, ptr, generated, epoch, chip, recordingVars, sectionVars,
                   localVars, callbacks, historyVars>>

-----------------------------------------------------------------------------
\* The emulation thread.
Run(d) ==
    /\ pc["emu"] = "idle" /\ now + d <= MaxClock
    /\ now' = now + d
    /\ UNCHANGED <<lastclock, streamVars, recordingVars, sectionVars, pc, localVars, callbacks,
                   historyVars>>

Length == (now - lastclock) % Word

\* sound_sync computes the frames before it enters the critical section
Sync ==
    /\ pc["emu"] = "idle" /\ Length >= MinClock
    /\ want' = [want EXCEPT !["emu"] = Length \div ClockBase]
    /\ Goto("emu", "sync")
    /\ UNCHANGED <<clockVars, streamVars, recordingVars, sectionVars, count, callbacks, historyVars>>

CanAppendMutant(n) == Len(fifo.frames) <= FifoFrames \* mutant: n is not counted
CanAppend(n) == n <= FifoFrames - Len(fifo.frames)

SyncEnter ==
    /\ pc["emu"] = "sync" /\ Enter("emu")
    /\ LET full == active /\ ~CanAppend(want["emu"])
       IN  /\ active' = (active /\ ~full)
           /\ failed' = (failed \/ full)
           /\ Goto("emu", IF active /\ ~full THEN "record" ELSE "prepare")
    /\ count' = [count EXCEPT !["emu"] = want["emu"]]
    /\ UNCHANGED <<clockVars, streamVars, fifo, dropped, want, callbacks, historyVars>>

\* one turn of sound_recording_generate_locked: the chips render a chunk, which goes to
\* the recording whole and to the buffer as far as there is room
Record ==
    /\ pc["emu"] = "record"
    /\ LET n == SmallerOf(count["emu"], Chunk)
           fits == SmallerOf(n, remain)
       IN  /\ fifo' = [fifo EXCEPT !.frames = @ \o Rendered(n)]
           /\ chip' = chip + n /\ generated' = generated + n
           /\ buffer' = Copied(Pending, Rendered(fits))
           /\ ptr' = Pending + fits
           /\ remain' = (remain - fits) % Word
           /\ dropped' = dropped + (n - fits)
           /\ count' = [count EXCEPT !["emu"] = @ - n]
           /\ Goto("emu", IF n = count["emu"] THEN "prepared" ELSE "record")
    /\ UNCHANGED <<clockVars, epoch, active, failed, sectionVars, want, callbacks, historyVars>>

SyncLeave ==
    /\ pc["emu"] = "prepared" /\ Goto("emu", "idle") /\ Leave
    /\ lastclock' = (lastclock + want["emu"] * ClockBase) % Word
    /\ UNCHANGED <<now, streamVars, recordingVars, localVars, callbacks, historyVars>>

-----------------------------------------------------------------------------
\* The audio callback, sound_play_cb.
Callback ==
    /\ pc["audio"] = "idle" /\ callbacks < MaxCallbacks
    /\ callbacks' = callbacks + 1
    /\ Goto("audio", IF active THEN "play" ELSE "lock")
    /\ UNCHANGED <<clockVars, streamVars, recordingVars, sectionVars, localVars, historyVars>>

\* sound_playback_read_s16: what there is, the rest of the period is silence
Play ==
    /\ pc["audio"] = "play" /\ Enter("audio") /\ Goto("audio", "shift")
    /\ LET n == SmallerOf(Samples, Pending)
       IN  /\ heard' = heard \o Front(SmallerOf(n, Capacity))
           /\ want' = [want EXCEPT !["audio"] = n]
           /\ count' = [count EXCEPT !["audio"] = Pending - n]
    /\ UNCHANGED <<clockVars, streamVars, recordingVars, callbacks, forgone, base, taken, mark>>

Moved(from, n) == Copied(0, [i \in 1..n |-> At(from + i - 1)])

Shift ==
    /\ pc["audio"] = "shift" /\ Leave /\ Goto("audio", "idle")
    /\ IF want["audio"] = 0
       THEN UNCHANGED <<buffer, ptr, remain>>
       ELSE /\ buffer' = Moved(want["audio"], count["audio"])
            /\ ptr' = count["audio"]
            /\ remain' = (Capacity - count["audio"]) % Word
    /\ UNCHANGED <<clockVars, generated, epoch, chip, recordingVars, localVars, callbacks,
                   historyVars>>

\* sound_pcmlock
LookAhead == IF remain > Reserve THEN remain - Reserve ELSE 0

PcmLock ==
    /\ pc["audio"] = "lock"
    /\ IF active
       THEN Goto("audio", "idle") /\ UNCHANGED <<sectionVars, want>>
       ELSE /\ Enter("audio")
            /\ want' = [want EXCEPT !["audio"] = LookAhead]
            /\ Goto("audio", IF LookAhead > 0 THEN "prepare" ELSE "pack")
    /\ UNCHANGED <<clockVars, streamVars, recordingVars, count, callbacks, historyVars>>

CaughtUp ==
    /\ pc["audio"] = "prepared" /\ Goto("audio", "pack")
    /\ lastclock' = now
    /\ UNCHANGED <<now, streamVars, recordingVars, sectionVars, localVars, callbacks, historyVars>>

Pack ==
    /\ pc["audio"] = "pack" /\ Goto("audio", "unlock")
    /\ heard' = heard \o Front(Samples)
    /\ UNCHANGED <<clockVars, streamVars, recordingVars, sectionVars, localVars, callbacks, forgone,
                   base, taken, mark>>

\* sound_pcmunlock: the frames past the period move to the front
TailMovedMutant(n) == buffer     \* mutant: the tail stays where it was
TailMoved(n) == Moved(Samples, n)

\* an int that was given the counter x
Signed(x) == IF 2 * x < Word THEN x ELSE x - Word

PcmUnlock ==
    /\ pc["audio"] = "unlock" /\ Leave /\ Goto("audio", "idle")
    /\ LET leng == Signed((Reserve - remain) % Word)
       IN  /\ buffer' = IF leng > 0 THEN TailMoved(leng) ELSE buffer
           /\ ptr' = leng
           /\ remain' = (Capacity - leng) % Word
    /\ UNCHANGED <<clockVars, generated, epoch, chip, recordingVars, localVars, callbacks,
                   historyVars>>

-----------------------------------------------------------------------------
\* The recording, called by the emulation thread.
Calls == pc["emu"] = "idle"
Paused == pc["audio"] = "idle"   \* soundmng_stop waits for the callback to return

AtHandMutant == <<>>             \* mutant: they are not in the recording
AtHand == Front(Pending)         \* rendered before the recording and not played yet

Start ==
    /\ Calls /\ Paused /\ ~fifo.buffer /\ ~active
    /\ Pending <= FifoFrames /\ generated >= Pending
    /\ fifo' = [buffer |-> TRUE, frames |-> AtHand, first |-> generated - Pending,
                consumed |-> 0, epoch |-> epoch]
    /\ active' = TRUE /\ failed' = FALSE /\ dropped' = 0
    /\ forgone' = forgone + dropped
    /\ taken' = <<>>
    /\ mark' = [chip |-> chip, base |-> base, heard |-> Len(heard), crossed |-> crossed,
                stray |-> IF Pending > 0 /\ buffer[0] /= chip - Pending + 1 THEN Pending ELSE 0,
                owed |-> IF lastclock <= now THEN lastclock ELSE now]
    /\ UNCHANGED <<clockVars, streamVars, sectionVars, pc, localVars, callbacks, heard, base>>

Stop ==
    /\ Calls /\ Paused /\ active
    /\ active' = FALSE
    /\ UNCHANGED <<clockVars, streamVars, fifo, failed, dropped, sectionVars, pc, localVars,
                   callbacks, historyVars>>

Release ==
    /\ Calls /\ Paused /\ fifo.buffer
    /\ active' = FALSE /\ failed' = FALSE /\ dropped' = 0 /\ fifo' = NoFifo
    /\ forgone' = forgone + dropped
    /\ taken' = <<>> /\ mark' = NoMark
    /\ UNCHANGED <<clockVars, streamVars, sectionVars, pc, localVars, callbacks, heard, base>>

\* sound_recording_read; the ring of the FIFO is a sequence here
Read(n) ==
    /\ Calls /\ fifo.frames # <<>>
    /\ LET m == SmallerOf(n, Len(fifo.frames))
       IN  /\ taken' = taken \o SubSeq(fifo.frames, 1, m)
           /\ fifo' = [fifo EXCEPT !.frames = SubSeq(@, m + 1, Len(@)), !.consumed = @ + m]
    /\ UNCHANGED <<clockVars, streamVars, active, failed, dropped, sectionVars, pc, localVars,
                   callbacks, heard, forgone, base, mark>>

\* what sound_reset and sound_changeclock do to a recording
EndRecording ==
    /\ active => Paused
    /\ active' = FALSE /\ failed' = (failed \/ active)
    /\ UNCHANGED <<fifo, dropped>>

ChangeClock ==
    /\ Calls /\ EndRecording
    /\ lastclock' = now
    /\ UNCHANGED <<now, streamVars, sectionVars, pc, localVars, callbacks, historyVars>>

Reset ==
    /\ Calls /\ epoch < MaxEpoch /\ EndRecording
    /\ Goto("emu", "reset")
    /\ UNCHANGED <<clockVars, streamVars, sectionVars, localVars, callbacks, historyVars>>

\* streamreset, and the end of sound_reset
StreamReset ==
    /\ pc["emu"] = "reset" /\ Trespass /\ Goto("emu", "idle")
    /\ ptr' = 0 /\ remain' = Capacity /\ generated' = 0 /\ epoch' = epoch + 1
    /\ lastclock' = now
    /\ forgone' = forgone + Pending /\ base' = chip
    /\ UNCHANGED <<now, buffer, chip, recordingVars, owner, localVars, callbacks, heard,
                   taken, mark>>

-----------------------------------------------------------------------------
Next ==
    \/ \E d \in {1, 2 * ClockBase} : Run(d)
    \/ Sync \/ SyncEnter \/ Record \/ SyncLeave
    \/ Callback \/ Play \/ Shift \/ PcmLock \/ CaughtUp \/ Pack \/ PcmUnlock
    \/ \E t \in Threads : Prepare(t) \/ Render(t) \/ Advance(t) \/ Shrink(t)
    \/ Start \/ Stop \/ Release \/ (\E n \in {1, FifoFrames} : Read(n))
    \/ ChangeClock \/ Reset \/ StreamReset

Spec == Init /\ [][Next]_vars

-----------------------------------------------------------------------------
\* Properties

Increasing(s) == \A i \in 1..(Len(s) - 1) : s[i] < s[i + 1]
Quiet == \A t \in Threads : pc[t] = "idle"
Recorded == taken \o fifo.frames

\* Types; between the calls the write position and the room left fill the buffer unless the
\* threads have crossed, and a FIFO holds no more than it was made for.
TypeOK ==
    /\ now \in 0..MaxClock /\ lastclock \in 0..(Word - 1) /\ chip \in Nat
    /\ \A i \in DOMAIN buffer : buffer[i] \in 0..chip
    /\ ptr \in Int /\ remain \in 0..(Word - 1) /\ generated \in Nat
    /\ epoch \in 1..MaxEpoch /\ active \in BOOLEAN /\ failed \in BOOLEAN /\ dropped \in Nat
    /\ Len(fifo.frames) <= FifoFrames
    /\ active => fifo.buffer /\ fifo.epoch = epoch
    /\ owner \in {"none"} \cup Threads /\ crossed \in BOOLEAN
    /\ ~crossed => ptr \in 0..Capacity /\ remain \in 0..Capacity
    /\ Quiet /\ ~crossed => ptr + remain = Capacity

\* Every frame the chips render is played once and in their order, is still to be played,
\* or is one that the counter of dropped frames or a reset gave up: what sound_sync and the
\* callback do to the buffer loses nothing between them (sound.c:83-95, 503-522, 688-694).
\* As the sections are no lock this holds until the threads cross (run sound_unlocked).
PlayedOnce ==
    Quiet => LET s == heard \o Front(Pending)
             IN  /\ Increasing(s)
                 /\ Len(s) + dropped + forgone = chip

\* The recording is an unbroken run of frames at the positions it reports, and while it is
\* active it has all that the chips render.  Frames at hand when it began that are older
\* than those an earlier recording dropped are left to RecordedInPlace.
RunIsWhole ==
    /\ fifo.consumed = Len(taken)
    /\ \A i \in (mark.stray + 1)..Len(Recorded) : Recorded[i] = mark.base + fifo.first + i
    /\ active => mark.base + fifo.first + Len(Recorded) = chip

\* A recording begins with the first frame not yet played when it began, it is whole, and
\* while it is active it has all that is played, too (sound.c:307-396, 126-163); until the
\* threads cross.
RecordedOnce ==
    fifo.buffer /\ Calls =>
        /\ RunIsWhole
        /\ active => \A i \in (mark.heard + 1)..Len(heard) :
               \E j \in DOMAIN Recorded : Recorded[j] = heard[i]

\* A recording that began before the threads ever crossed is whole, whether they cross
\* then or not: the callback may spoil what is played, but not what is recorded.
RecordedWhole == fifo.buffer /\ Calls /\ ~mark.crossed => RunIsWhole

\* The frames of a recording are all at the positions that it reports, those too that were
\* at hand when it began (docs/recording-v1/audit.md:266).
RecordedInPlace ==
    fifo.buffer /\ Calls =>
        \A i \in DOMAIN Recorded : Recorded[i] = mark.base + fifo.first + i

\* A recording holds no more sound than the guest had time for: the frames it adds to those
\* that were there at the start are worth no more clocks than have passed.
RecordedInTime ==
    active /\ Calls =>
        (mark.base + fifo.first + Len(Recorded) - mark.chip) * ClockBase <= now - mark.owed
=============================================================================
