--------------------------- MODULE NativeSession ----------------------------
(***************************************************************************)
(* A recording of picture and sound (sdl2/recording): the session above    *)
(* RecordingSession, the tap that hands it composed guest frames, the      *)
(* capture of displayed frames, the sound FIFO it reads, and the runtime   *)
(* that ends it.  Everything here runs on the main loop, so that one pass  *)
(* of it (a guest frame, perhaps with a sound register written in the      *)
(* middle) is one action; what is hard is that sound and picture are       *)
(* produced on different grids, that a frame is only stored when the next  *)
(* one gives its end, and that a split, a reset, a limit, a stop and a     *)
(* failure meet between them.                                              *)
(*                                                                         *)
(* The queue and the worker behind it are RecordingSession; a failure of   *)
(* theirs is a fault here.  Pixels, the OSD, names of files, the batch     *)
(* mode and elapsed_ticks are left out.                                    *)
(***************************************************************************)
EXTENDS Integers, Sequences

CONSTANTS
    Rate, ClockRate,   \* samples and clocks in the same time
    Frames,            \* clocks a guest frame may take
    Writes,            \* clocks into it a sound register may be written at; 0 is never
    Capacity,          \* of the sound FIFO beyond what is pending
    Limits,            \* frame limits; 0 is none
    MaxTime,           \* bound: the guest clock
    MaxOps             \* bound: everything but frames without a fault

VARIABLES
    m,                 \* the machine and the recorder, see Init
    ops                \* operations and faults so far

vars == <<m, ops>>

None == -1
Faults == {"none", "start", "late", "capture", "writer", "submit", "finish"}

NoSound == [on |-> FALSE, active |-> FALSE, first |-> 0, read |-> 0, next |-> 0]
NoTap == [active |-> FALSE, error |-> "ok", end |-> 0, gen |-> 0, fresh |-> TRUE]
NoFile == [index |-> 0, cells |-> <<>>]

NoSession ==
    [on |-> FALSE, displayed |-> FALSE, auto |-> FALSE, limit |-> 0, gen |-> 0,
     epoch |-> 0, sound |-> FALSE, ticks0 |-> 0, sample0 |-> 0, staged |-> None,
     incoming |-> None, primed |-> FALSE, next |-> 0, accepted |-> 0, first |-> 0,
     index |-> 1, writing |-> FALSE, failed |-> FALSE, stop |-> FALSE, manual |-> FALSE,
     split |-> FALSE, awaiting |-> FALSE]

---------------------------------------------------------------------------
\* What every step below returns: the machine, ok or not.
Good(x) == [x EXCEPT !.ok = TRUE]
Bad(x) == [x EXCEPT !.ok = FALSE]

CeilDiv(a, b) == (a + b - 1) \div b
MinClock == (2 * ClockRate) \div Rate

\* sound_sync renders what the guest clock has reached, into the FIFO as well
\* while that is active.
Sync(x) ==
    LET passed == x.now - x.last
        n == (passed * Rate) \div ClockRate
        fits == x.fifo.next + n - x.fifo.read <= Capacity
    IN IF passed < MinClock \/ n = 0 THEN x
       ELSE [x EXCEPT !.made = @ + n,
                      !.last = @ + (n * ClockRate) \div Rate,
                      !.fifo.active = @ /\ fits,
                      !.fifo.next = IF x.fifo.active /\ fits THEN @ + n ELSE @]

\* sample_boundary_ceil: the first sample at or after a clock.
Boundary(x, ticks) == x.s.sample0 + CeilDiv((ticks - x.s.ticks0) * Rate, ClockRate)

\* Samples from..to-1 are the next ones of the FIFO.
Holds(x, from, to) == x.fifo.on /\ x.s.epoch = x.epoch /\ x.fifo.read = from /\ to <= x.fifo.next

StopVideo(x) ==
    IF x.s.displayed THEN [x EXCEPT !.shown = "off"] ELSE [x EXCEPT !.tap.active = FALSE]
ReleaseSound(x) == IF x.s.sound THEN [x EXCEPT !.fifo = NoSound, !.s.sound = FALSE] ELSE x

\* Cancels the file that is being written; published segments stay.
Abort(x) ==
    [ReleaseSound(StopVideo(x)) EXCEPT !.file = NoFile, !.s.writing = FALSE, !.s.failed = TRUE]

\* The session object is gone, with what the user is told of it.
Ends(x, word) == [Abort(x) EXCEPT !.s = NoSession, !.told = word, !.took = x.s.accepted]

\* start(): the FIFO gets what is still to be played, and the grid of samples
\* is fixed at the sound's last clock.
Start(x, pending, fault) ==
    IF fault = "start" THEN Bad(x)
    ELSE LET armed == [x EXCEPT
                 !.fifo = [on |-> TRUE, active |-> TRUE, first |-> x.made - pending,
                           read |-> x.made - pending, next |-> x.made],
                 !.s.sound = TRUE, !.s.epoch = x.epoch, !.s.gen = x.gen,
                 !.s.ticks0 = x.last, !.s.sample0 = x.made - 1]
         IN IF fault = "late" THEN Bad(armed)
            ELSE IF x.s.displayed THEN Good([armed EXCEPT !.shown = "on"])
            ELSE Good([armed EXCEPT !.tap = [active |-> TRUE, error |-> "ok", end |-> x.now,
                                              gen |-> x.gen, fresh |-> TRUE]])

\* The sound up to the first frame is dropped; after a split nothing is.
Prime(x, fault) ==
    LET first == Boundary(x, x.s.staged)
        found == IF x.s.primed THEN first = x.s.next
                 ELSE x.fifo.first <= first /\ Holds(x, x.fifo.first, first)
    IN IF ~found THEN Bad([x EXCEPT !.short = @ \/ first > x.fifo.next])
       ELSE IF fault = "writer" THEN Bad([x EXCEPT !.fifo.read = first])
       ELSE Good([x EXCEPT !.fifo.read = first, !.s.next = first, !.s.primed = TRUE,
                           !.s.writing = TRUE, !.file = [index |-> x.s.index, cells |-> <<>>]])

\* commit_interval: the staged frame lasts until end, with the samples whose
\* times lie in between.
Commit(x, end, fault) ==
    LET from == Boundary(x, x.s.staged)
        to == Boundary(x, end)
        cell == [epoch |-> x.epoch, begin |-> x.s.staged, end |-> end,
                 sample |-> x.fifo.read, count |-> to - from]
    IN IF ~x.s.primed \/ end <= x.s.staged \/ from # x.s.next \/ to = from \/ ~Holds(x, from, to)
         THEN Bad([x EXCEPT !.short = @ \/ to > x.fifo.next])
       ELSE IF fault = "submit" THEN Bad([x EXCEPT !.fifo.read = to])
       ELSE Good([x EXCEPT !.fifo.read = to, !.s.next = to, !.s.accepted = @ + 1,
                           !.s.stop = @ \/ (x.s.limit # 0 /\ x.s.accepted + 1 >= x.s.limit),
                           !.file.cells = Append(@, cell)])

Advance(x) == [x EXCEPT !.s.staged = x.s.incoming, !.s.incoming = None]
AfterGuestExec(x, fault) ==
    LET active == IF x.s.displayed THEN x.shown = "on" ELSE x.tap.active
        Stored(y) == IF y.ok THEN Advance(y) ELSE Bad(Abort(y))
    IN IF x.s.awaiting \/ (x.s.stop /\ ~x.s.writing /\ ~x.s.failed) THEN Good(x)
       ELSE IF x.s.failed THEN Bad(x)
       ELSE IF ~active THEN Bad(Abort(x))
       ELSE IF x.s.incoming = None THEN Good(x)
       ELSE IF x.s.staged = None
         THEN Prime(Advance(x), fault)
       ELSE Stored(Commit(x, x.s.incoming, fault))

FinishSegmentMutant(x, fault) ==
    IF ~x.ok \/ ~x.s.writing THEN x
    ELSE IF fault = "finish" THEN Bad([x EXCEPT !.s.failed = TRUE])
    ELSE Good([x EXCEPT !.s.writing = FALSE, !.file = NoFile,
                        !.saved = IF x.s.accepted = 0 THEN @ ELSE Append(@, x.file)])
FinishSegment(x, fault) ==
    IF ~x.ok \/ ~x.s.writing THEN x
    ELSE IF fault = "finish" THEN Bad([x EXCEPT !.s.failed = TRUE])
    ELSE Good([x EXCEPT !.s.writing = FALSE, !.file = NoFile,
                        !.saved = IF x.s.accepted = x.s.first THEN @ ELSE Append(@, x.file)])

\* complete_boundary: what is staged lasts until now, and the segment is over.
LastCell(x, fault) ==
    IF ~x.ok \/ x.s.staged = None \/ x.s.stop \/ x.now = x.s.staged THEN x
    ELSE Commit(x, x.now, fault)
CompleteBoundary(x, fault) ==
    LET Fed(y) == IF ~(y.s.displayed /\ y.shown = "changed") THEN AfterGuestExec(y, fault)
                  ELSE IF y.s.failed \/ y.s.incoming # None THEN Bad(y) ELSE Good(y)
    IN FinishSegment(LastCell(Fed(Sync(x)), fault), fault)

---------------------------------------------------------------------------
\* The tap hands a frame to accept_capture.
TapSubmit(x, initial) ==
    LET fails(error) == Bad([x EXCEPT !.tap.active = FALSE, !.tap.error = error])
    IN IF ~x.tap.active THEN Bad(x)
       ELSE IF x.gen # x.tap.gen THEN fails("changed")
       ELSE IF (IF initial THEN ~x.tap.fresh \/ x.now # x.tap.end ELSE x.now <= x.tap.end)
                 \/ x.s.incoming # None \/ x.gen # x.s.gen
         THEN fails("other")
       ELSE Good([x EXCEPT !.s.incoming = x.now, !.tap.end = x.now, !.tap.fresh = FALSE])

\* The next segment begins with the frame that ends this one, on the same
\* FIFO and grid.
Split(x, fault) ==
    LET Reopened(y) == TapSubmit([y EXCEPT
            !.s.index = @ + 1, !.s.gen = y.gen, !.s.first = y.s.accepted,
            !.s.staged = None, !.s.incoming = None, !.s.split = FALSE,
            !.tap = [active |-> TRUE, error |-> "ok", end |-> y.now, gen |-> y.gen,
                     fresh |-> TRUE]], TRUE)
        Closed(y) ==
            IF ~y.ok THEN y
            ELSE IF y.s.stop \/ y.s.manual THEN [y EXCEPT !.tap.active = FALSE, !.s.stop = TRUE]
            ELSE Reopened(y)
    IN Closed(CompleteBoundary(x, fault))

\* The first frame after a reset starts the capture anew.
Rearm(x, pending, fault) ==
    LET Started(y) ==
            IF ~y.ok THEN y
            ELSE TapSubmit([y EXCEPT !.s.awaiting = FALSE, !.s.split = FALSE], TRUE)
    IN IF x.s.manual THEN Good([x EXCEPT !.s.stop = TRUE]) ELSE Started(Start(x, pending, fault))

SubmitFrame(x, pending, fault) ==
    LET Taken(y) == IF ~y.ok /\ x.s.auto THEN Ends(y, "error") ELSE y
    IN IF ~x.s.on \/ x.s.displayed THEN x
       ELSE Taken(
            IF fault = "capture" THEN Good([x EXCEPT !.tap.active = FALSE, !.tap.error =
                                                IF x.tap.active THEN "other" ELSE @])
            ELSE IF x.s.stop /\ ~x.s.writing THEN Good(x)
            ELSE IF x.s.awaiting THEN Rearm(x, pending, fault)
            ELSE IF x.s.auto /\ (x.s.split \/ x.gen # x.s.gen) THEN Split(x, fault)
            ELSE TapSubmit(x, FALSE))

\* A displayed frame is stored while its clock is current.
AcceptDisplayed(x, fault) ==
    LET Taken(y) == IF y.ok THEN y ELSE [y EXCEPT !.shown = "other"]
    IN IF ~x.s.on \/ x.shown # "on" THEN x
       ELSE IF fault = "capture" THEN [x EXCEPT !.shown = "other"]
       ELSE IF x.gen # x.s.gen THEN [x EXCEPT !.shown = "changed"]
       ELSE IF x.s.failed THEN [x EXCEPT !.shown = "other"]
       ELSE IF x.s.stop THEN x
       ELSE IF x.s.incoming # None \/ (x.s.staged # None /\ x.now <= x.s.staged)
         THEN [x EXCEPT !.shown = "other", !.s.failed = TRUE]
       ELSE Taken(AfterGuestExec([x EXCEPT !.s.incoming = x.now], fault))

Stop(x, fault) ==
    LET held == x.s.displayed /\ x.shown \in {"on", "changed"}
        Finished(y) == Ends(y, IF ~y.ok THEN "error"
                               ELSE IF y.s.accepted = 0 THEN "empty" ELSE "saved")
        Bounded(y) == IF x.s.failed \/ ~y.ok THEN Ends(y, "error")
                      ELSE Finished(FinishSegment(StopVideo(y), fault))
    IN Bounded(IF held THEN CompleteBoundary(x, fault) ELSE Good(x))

ScreenChanged(x, fault) ==
    IF ~x.s.on THEN x
    ELSE IF x.s.auto THEN [x EXCEPT !.s.split = TRUE] ELSE Stop(x, fault)

RuntimeStep(x, fault) ==
    LET changed == IF x.s.displayed THEN x.shown = "changed"
                   ELSE ~x.tap.active /\ x.tap.error = "changed"
        Fed(y) == IF ~y.ok THEN Ends(y, "error")
                  ELSE IF y.s.stop THEN Stop(y, fault) ELSE y
    IN IF ~x.s.on THEN x
       ELSE IF changed THEN ScreenChanged(x, fault)
       ELSE Fed(AfterGuestExec(x, fault))

\* The old clock and sound are sealed; the next frame begins new ones.
ChangeEpoch(x, fault) ==
    LET Silent(y) == ReleaseSound([y EXCEPT !.tap.active = FALSE])
        Closed(y) ==
            IF ~y.ok \/ y.s.stop \/ y.s.manual THEN Bad(Silent(y))
            ELSE [Silent(y) EXCEPT !.s.index = @ + 1, !.s.primed = FALSE, !.s.staged = None,
                      !.s.incoming = None, !.s.first = y.s.accepted, !.s.split = FALSE,
                      !.s.awaiting = TRUE]
    IN IF x.s.awaiting THEN Good(x) ELSE Closed(CompleteBoundary(x, fault))

BeforeReset(x, fault) ==
    LET Kept(y) == IF y.ok THEN y ELSE Ends(y, "ended")
    IN IF ~x.s.on THEN x
       ELSE IF x.s.displayed THEN Stop(x, fault)
       ELSE IF ~x.s.auto THEN Ends(x, "ended")
       ELSE Kept(ChangeEpoch(x, fault))

Restarted(x) == [x EXCEPT !.now = 0, !.last = 0, !.made = 0, !.epoch = @ + 1]

---------------------------------------------------------------------------
Pending(x) == {0, IF x.made < 2 THEN x.made ELSE 2}
Does(x) == m' = [x EXCEPT !.ok = TRUE]
Counted == ops < MaxOps /\ ops' = ops + 1

\* One pass of the main loop: pccore_exec with its frame and its sound_sync,
\* vaeg_recording_runtime_step, and the presentation of the frame.
Frame ==
    \E d \in Frames, fault \in Faults, pending \in IF m.s.awaiting THEN Pending(m) ELSE {0} :
    \E k \in Writes :
        LET Drawn(y) == SubmitFrame([y EXCEPT !.now = m.now + d], pending, fault)
            Presented(y) == IF y.s.on /\ y.s.displayed
                              THEN RuntimeStep(AcceptDisplayed(y, fault), fault) ELSE y
            played == IF k = 0 THEN m ELSE Sync([m EXCEPT !.now = @ + k])
        IN /\ m.now + d <= MaxTime /\ k < d
           /\ Does(Presented(RuntimeStep(Sync(Drawn(played)), fault)))
           /\ IF fault = "none" THEN UNCHANGED ops ELSE Counted

\* What a request to record begins from, and what becomes of it.
Blank(x, displayed, limit) ==
    [x EXCEPT !.saved = <<>>, !.told = "none", !.took = 0, !.short = FALSE,
              !.s = [NoSession EXCEPT !.displayed = displayed, !.limit = limit]]
Started(x, auto) ==
    IF x.ok THEN [x EXCEPT !.s.on = TRUE, !.s.auto = auto] ELSE Ends(x, "error")

StartSession ==
    \E displayed, auto \in BOOLEAN, limit \in Limits, pending \in Pending(m), fault \in {"none", "start", "late"} :
        /\ ~m.s.on /\ ~(displayed /\ auto)
        /\ Does(Started(Start(Blank(m, displayed, limit), pending, fault), auto))
        /\ Counted

RequestStop == m.s.on /\ ~m.s.manual /\ Does([m EXCEPT !.s.manual = TRUE]) /\ Counted
PollStop == m.s.on /\ m.s.manual /\ (\E fault \in Faults : Does(Stop(m, fault))) /\ UNCHANGED ops
StopSession == m.s.on /\ (\E fault \in Faults : Does(Stop(m, fault))) /\ Counted
CancelSession == m.s.on /\ Does(Ends(m, "canceled")) /\ Counted
ChangeScreen == m.s.on /\ (\E fault \in Faults : Does(ScreenChanged(m, fault))) /\ Counted
NewGeometry == m.s.on /\ Does([m EXCEPT !.gen = @ + 1]) /\ Counted
Reset == (\E fault \in Faults : Does(Restarted(BeforeReset(m, fault)))) /\ Counted
LoadState == m.s.on /\ Does(Restarted(Ends(m, "ended"))) /\ Counted

Init ==
    /\ m = [now |-> 0, last |-> 0, made |-> 0, epoch |-> 0, gen |-> 0, fifo |-> NoSound,
            tap |-> NoTap, shown |-> "off", s |-> NoSession, file |-> NoFile, saved |-> <<>>,
            told |-> "none", took |-> 0, short |-> FALSE, ok |-> TRUE]
    /\ ops = 0

Next ==
    \/ Frame \/ StartSession \/ RequestStop \/ PollStop \/ StopSession \/ CancelSession
    \/ ChangeScreen \/ NewGeometry \/ Reset \/ LoadState

---------------------------------------------------------------------------
TypeOK ==
    /\ {m.now, m.last, m.made, m.epoch, m.gen, m.took} \subseteq Nat
    /\ m.last <= m.now /\ m.now <= MaxTime
    /\ m.fifo.read <= m.fifo.next /\ m.fifo.next <= m.made
    /\ m.tap.error \in {"ok", "changed", "other"}
    /\ m.shown \in {"off", "on", "changed", "other"}
    /\ m.told \in {"none", "error", "empty", "saved", "ended", "canceled"}
    /\ ops \in 0 .. MaxOps

Flat(parts) ==
    IF Len(parts) = 0 THEN parts
    ELSE LET upTo[i \in 1 .. Len(parts)] == IF i = 1 THEN parts[i] ELSE upTo[i - 1] \o parts[i]
         IN upTo[Len(parts)]
Joined(segments) == Flat([i \in DOMAIN segments |-> segments[i].cells])
Stored == Joined(m.saved) \o m.file.cells

\* Whatever splits, resets, limits and failures meet, the intervals of a
\* recording follow each other without a gap or an overlap of clocks or
\* samples, within a segment and across the segments of one epoch; none is
\* empty, and none of the segments that are kept is.
RecordedExactly ==
    /\ \A i \in 1 .. Len(Stored) - 1 :
          Stored[i].epoch = Stored[i + 1].epoch =>
              /\ Stored[i + 1].begin = Stored[i].end
              /\ Stored[i + 1].sample = Stored[i].sample + Stored[i].count
    /\ \A i \in DOMAIN Stored : Stored[i].begin < Stored[i].end /\ Stored[i].count > 0
    /\ \A i \in DOMAIN m.saved :
          m.saved[i].cells # <<>> /\ \A j \in 1 .. i - 1 : m.saved[j].index < m.saved[i].index

\* "saved" is said only when every accepted interval is in a kept segment, and
\* never of more of them than the limit.
SavedIsWhole ==
    /\ m.told = "saved" => m.took > 0 /\ Len(Joined(m.saved)) = m.took
    /\ m.s.on => m.s.accepted = Len(Stored) /\ (m.s.limit # 0 => m.s.accepted <= m.s.limit)

\* Without a session nothing is recorded: the sound FIFO, the tap, the capture
\* of the display and the file are given back, whatever ended it.
Released == ~m.s.on => ~m.fifo.on /\ ~m.tap.active /\ m.shown # "on" /\ m.file = NoFile

\* No recording fails because samples of a finished frame are missing.
NoFalseFailure == m.told = "error" => ~m.short
=============================================================================
