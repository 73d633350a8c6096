--------------------------- MODULE HostInvariants ---------------------------
(***************************************************************************)
(* The inductive invariants of MCHost: what else is true of an export, of  *)
(* a folder that is mounted as a drive, of a recording, and of the keys    *)
(* that are pressed and pasted, while what MCHost promises is.  HostProofs *)
(* proves them.                                                            *)
(***************************************************************************)
EXTENDS MCHost

-----------------------------------------------------------------------------
(***************************************************************************)
(* The exports.  The thread converts, or not; it is asked to stop, or one  *)
(* track stops the other: cancel_ alone does not tell.                     *)
(***************************************************************************)
Unpublished == {"open", "sink", "tracks", "finish", "seal", "publish"}
Busy == Unpublished \cup {"unwind", "report"}
Errors == {Mp4!NoError, Mp4!Cancelled, Mp4!Broken}

\* What a job has come to so far: working_ is its being on its way, nothing is
\* published before the last step, and afterwards it is when nothing failed.
Converting ==
    /\ {working, cancel, temp, asked, made} \subseteq BOOLEAN
    /\ {error, firstError} \subseteq Errors
    /\ working <=> worker \in Busy
    /\ worker \in Unpublished => ~made
    /\ worker \notin {"unwind", "report"} => error = Mp4!NoError
    /\ worker \in {"unwind", "report"} => (made <=> error = Mp4!NoError)
    /\ worker = "report" => ~temp

\* Who asked for the end of a job has set cancel_; and unless a track that
\* failed has, cancel_ and the exception it leads to are owed to him.
Cancelling ==
    /\ asked => cancel
    /\ cancel /\ worker \in Unpublished \ {"tracks"} => asked
    /\ cancel /\ worker = "tracks" /\ firstError = Mp4!NoError => asked
    /\ worker = "tracks" /\ firstError = Mp4!Cancelled => asked
    /\ error = Mp4!Cancelled => asked

ExportInv == Converting /\ Cancelling

-----------------------------------------------------------------------------
(***************************************************************************)
(* The folder.  Nobody locks it: what a snapshot rests on are the times    *)
(* and identities noted while it was scanned.  A directory whose time is   *)
(* still the noted one has had the same entries ever since (Steady); a     *)
(* file of the noted identity that has been written to since bears a time  *)
(* that was never noted (Kept).                                            *)
(***************************************************************************)
AllDirs == Dirs \cup {Root}
Places == AllDirs \cup Files
Record == [id : Nat, time : Nat, body : Nat]
NoteType == [id : Int, time : Nat]
StackFrame == [dir : AllDirs, todo : SUBSET Folder!Entries, done : SUBSET Folder!Entries]
Partial(D, R) == UNION {[S -> R] : S \in SUBSET D}
Contents == {c \in [Places -> Record \cup {Gone}] :
                \A d \in AllDirs : c[d] \in Record /\ c[d].id = 0}
Snapshots == [files : Partial(Files, Seq(Nat)), goal : Contents]

ScanSteps == {"open", "next", "identity"}
FileSteps == {"check", "copy", "rest", "again", "verify", "last"}
WriteSteps == {"enter", "entry"} \cup FileSteps

\* The clock of the folder is ahead of every time and identity in c.
Dated(c) == \A p \in Places : c[p] # Gone => c[p].id <= changes /\ c[p].time <= changes

SourceTyped ==
    /\ source \in Contents /\ Dated(source)
    /\ changes \in 0 .. MaxChanges /\ builds \in 0 .. MaxBuilds
WorkerTyped ==
    worker \in [pc : {"idle", "ended"} \cup ScanSteps \cup WriteSteps, ok : BOOLEAN, at : Places,
                stack : Seq(StackFrame), notes : Partial(Places, NoteType), data : Seq(Nat),
                copies : Partial(Files, Seq(Nat)), goal : Contents \cup {<<>>}]
ManagerTyped ==
    /\ manager \in [main : {"new", "startup", "run", "joining", "gone"}, thread : BOOLEAN,
                    done : BOOLEAN, candidate : Snapshots \cup {Gone},
                    state : {"unmounted", "building", "mounted", "error"}, mounted : BOOLEAN]
    /\ image \in Snapshots \cup {Gone}

Noted == DOMAIN worker.notes
Depth == Len(worker.stack)
Steady(d) == source[d].time = worker.notes[d].time

\* p waits for its identity.
Half(p) == worker.pc = "identity" /\ worker.at = p
OnStack(d) == \E i \in 1 .. Depth : worker.stack[i].dir = d

\* Everything noted has its directory noted, and no note is of the future.
Notes ==
    worker.pc \in ScanSteps \cup WriteSteps =>
        /\ Root \in Noted
        /\ \A p \in Noted \ {Root} : Parent[p] \in Noted
        /\ \A p \in Noted : worker.notes[p].time <= changes
        /\ worker.stack # <<>>
        /\ \A i \in 1 .. Depth : worker.stack[i].dir \in Noted

\* The directories being scanned, each once, with what has been noted in them.
Scanning ==
    worker.pc \in ScanSteps =>
        /\ worker.stack[1].dir = Root
        /\ \A i, j \in 1 .. Depth : worker.stack[i].dir = worker.stack[j].dir => i = j
        /\ \A i \in 1 .. Depth : worker.stack[i].done = Folder!Found(worker.stack[i].dir)
        /\ \A p \in Noted : Half(p) =>
              p # Root /\ ~OnStack(p) /\ Folder!Found(p) = {} /\ Parent[p] = Folder!Top.dir
        /\ worker.pc = "identity" => worker.at \in Noted
        /\ worker.copies = <<>>

\* What has been noted of a directory is what is in it, if it is steady.
Scanned ==
    worker.pc \in ScanSteps =>
        \A d \in AllDirs \cap Noted : Steady(d) =>
            /\ \A p \in Folder!Found(d) :
                  source[p] # Gone /\ (~Half(p) => worker.notes[p].id = source[p].id)
            /\ ~OnStack(d) /\ ~Half(d) => Folder!Children(d) \subseteq Folder!Found(d)
            /\ \A i \in 1 .. Depth :
                  worker.stack[i].dir = d /\ (worker.pc = "open" => i # Depth) =>
                      Folder!Children(d) \subseteq worker.stack[i].todo

\* The notes of d are the entries it had when the scan ended.
Facts(d) ==
    \A p \in Folder!Entries : Parent[p] = d =>
        /\ p \in Noted <=> worker.goal[p] # Gone
        /\ p \in Noted => worker.notes[p].id = worker.goal[p].id

\* f is as it was, or another, or of a time that was not noted.
Kept(f) ==
    source[f] # Gone /\ worker.goal[f] # Gone /\ source[f].id = worker.goal[f].id =>
        source[f] = worker.goal[f] \/ source[f].time > worker.notes[f].time

\* While files are copied: a steady directory was true when the scan ended,
\* and data that were compared are those of then if the file is.
Copying ==
    worker.pc \in WriteSteps =>
        /\ worker.goal \in Contents /\ Dated(worker.goal)
        /\ \A d \in AllDirs \cap Noted : Steady(d) => Facts(d)
        /\ \A f \in Files \cap Noted : Kept(f)
        /\ worker.pc = "last" /\ source[worker.at] = worker.goal[worker.at] =>
              Folder!Range(worker.data) = {worker.goal[worker.at].body}

\* p of a directory that was entered is written, is being written, or waits in
\* that directory's frame.
Handled(p, entered) ==
    \/ p \in Files /\ (p \in DOMAIN worker.copies \/ (worker.pc \in FileSteps /\ worker.at = p))
    \/ p \in Dirs /\ (p \in entered \/ (worker.pc = "enter" /\ Folder!Top.dir = p))
    \/ \E i \in 1 .. Depth : worker.stack[i].dir = Parent[p] /\ p \in worker.stack[i].todo

\* What is written so far, when the directories in entered have been begun.
Progress(entered) ==
    /\ \A d \in entered : Facts(d) /\ \A p \in Folder!Found(d) : Handled(p, entered)
    /\ Root \in entered \/ (worker.pc = "enter" /\ Depth = 1 /\ Folder!Top.dir = Root)
    /\ \A i \in 1 .. Depth : (worker.pc = "enter" => i # Depth) =>
          /\ worker.stack[i].dir \in entered
          /\ worker.stack[i].todo \subseteq Folder!Found(worker.stack[i].dir)
    /\ worker.pc \in FileSteps =>
          worker.at \in Files \cap Noted /\ Parent[worker.at] \in entered
    /\ \A f \in DOMAIN worker.copies :
          /\ f \in Noted /\ Parent[f] \in entered
          /\ Folder!Range(worker.copies[f]) = {worker.goal[f].body}
Written ==
    worker.pc \in WriteSteps => \E entered \in SUBSET (AllDirs \cap Noted) : Progress(entered)

\* A build that succeeds has a snapshot, and only snapshots are passed on.
Ended ==
    worker.pc = "ended" /\ worker.ok =>
        worker.goal \in Contents /\ Folder!IsSnapshot([files |-> worker.copies, goal |-> worker.goal])

WorkerInv == Notes /\ Scanning /\ Scanned /\ Copying /\ Written /\ Ended
FolderInv ==
    /\ SourceTyped /\ WorkerTyped /\ ManagerTyped
    /\ WorkerInv /\ Folder!Coherent /\ Folder!StatusTrue
\* Everything but the worker stays as it is.
Aside == UNCHANGED <<source, changes, builds, manager, image>>

-----------------------------------------------------------------------------

\* What a change by another program leaves, and what it may make: f is written
\* in place, or it is another file, or none, and then its directory has a new
\* time.
ChangeOf(f) ==
    /\ f \in Files /\ Parent[f] \in AllDirs /\ f \notin AllDirs
    /\ \A p \in Places : p # f /\ p # Parent[f] => source'[p] = source[p]
    /\ \/ /\ source[f] # Gone /\ source'[Parent[f]] = source[Parent[f]]
          /\ source'[f] = [id |-> source[f].id, time |-> changes + 1, body |-> changes + 1]
       \/ /\ source'[Parent[f]] = [id |-> 0, time |-> changes + 1, body |-> source[Parent[f]].body]
          /\ \/ source'[f] = Gone
             \/ \E time \in {0, changes + 1} :
                   source'[f] = [id |-> changes + 1, time |-> time, body |-> changes + 1]

-----------------------------------------------------------------------------

\* The worker's record, with the fields it has at another step.
WorkerAs(pc, at, stack, notes, data, copies, goal_) ==
    worker' = [pc |-> pc, ok |-> worker.ok, at |-> at, stack |-> stack, notes |-> notes,
               data |-> data, copies |-> copies, goal |-> goal_]

-----------------------------------------------------------------------------

\* A step of the writing leaves the notes and the goal as they are.
WriteStep ==
    /\ Aside /\ worker.pc \in WriteSteps /\ worker'.pc \in WriteSteps
    /\ worker'.notes = worker.notes /\ worker'.goal = worker.goal

-----------------------------------------------------------------------------

\* The manager's record, with the fields it has at another step.
ManagerAs(main, thread, done, candidate, status, mounted) ==
    manager' = [main |-> main, thread |-> thread, done |-> done, candidate |-> candidate,
                state |-> status, mounted |-> mounted]

-----------------------------------------------------------------------------
(***************************************************************************)
(* A recording.  First what is said of numbers and of sequences.           *)
(***************************************************************************)
\* The recursion of Flat, as far as its nth sequence.
Flattens(s, n, f) == f = [i \in 1..n |-> IF i = 1 THEN s[i] ELSE f[i - 1] \o s[i]]

-----------------------------------------------------------------------------
(***************************************************************************)
(* The types of a recording, and what its steps keep.                      *)
(***************************************************************************)
Instant == Nat \cup {Native!None}
Words == {"none", "error", "empty", "saved", "ended", "canceled"}
Cell == [epoch : Nat, begin : Int, end : Int, sample : Int, count : Int]
File == [index : Nat, cells : Seq(Cell)]
Fifo == [on : BOOLEAN, active : BOOLEAN, first : Nat, read : Nat, next : Nat]
TapState == [active : BOOLEAN, error : {"ok", "changed", "other"}, end : Nat, gen : Nat, fresh : BOOLEAN]
Session ==
    [on : BOOLEAN, displayed : BOOLEAN, auto : BOOLEAN, limit : Nat, gen : Nat,
     epoch : Nat, sound : BOOLEAN, ticks0 : Nat, sample0 : Int, staged : Instant,
     incoming : Instant, primed : BOOLEAN, next : Int, accepted : Nat, first : Nat,
     index : Nat, writing : BOOLEAN, failed : BOOLEAN, stop : BOOLEAN, manual : BOOLEAN,
     split : BOOLEAN, awaiting : BOOLEAN]
Machine ==
    [now : Nat, last : Nat, made : Nat, epoch : Nat, gen : Nat, fifo : Fifo, tap : TapState,
     shown : {"off", "on", "changed", "other"}, s : Session, file : File, saved : Seq(File),
     told : Words, took : Nat, short : BOOLEAN, ok : BOOLEAN]

\* All intervals, those of the file that is being written at the end.
Intervals(saved) == Native!Flat([i \in DOMAIN saved |-> saved[i].cells])
All(x) == Intervals(x.saved) \o x.file.cells

\* What RecordedExactly says of them.
Chained(cells) ==
    \A i \in 1 .. Len(cells) - 1 :
        cells[i].epoch = cells[i + 1].epoch =>
            /\ cells[i + 1].begin = cells[i].end
            /\ cells[i + 1].sample = cells[i].sample + cells[i].count
Proper(cells) == \A i \in DOMAIN cells : cells[i].begin < cells[i].end /\ cells[i].count > 0
Ordered(saved) ==
    \A i \in DOMAIN saved :
        saved[i].cells # <<>> /\ \A j \in 1 .. i - 1 : saved[j].index < saved[i].index

\* At every moment: clocks and samples are in order, the sound and the picture that
\* are held belong to the session, and what is stored is right.
Clocked(x) == x.last <= x.now /\ x.fifo.read <= x.fifo.next /\ x.fifo.next <= x.made
Owned(x) ==
    /\ x.fifo = Native!NoSound \/ x.s.sound
    /\ IF x.s.displayed THEN ~x.tap.active /\ ~x.s.awaiting /\ ~x.s.auto ELSE x.shown # "on"
Right(x) ==
    /\ Chained(All(x)) /\ Proper(All(x)) /\ Ordered(x.saved)
    /\ \A i \in DOMAIN All(x) : All(x)[i].epoch <= x.epoch
Base(x) == x \in Machine /\ Clocked(x) /\ Owned(x) /\ Right(x)

\* The last interval, if it is of the clock that runs now.
Late(x) == All(x) # <<>> /\ All(x)[Len(All(x))].epoch = x.epoch
LastOne(x) == All(x)[Len(All(x))]
Closed(x) == x.s.stop /\ ~x.s.writing

\* As long as a session goes on and has not failed: where the next interval begins.
Counts(x) ==
    /\ x.s.accepted = Len(All(x))
    /\ x.s.limit # 0 => x.s.accepted <= x.s.limit /\ (x.s.accepted = x.s.limit => x.s.stop)
Linked(x) ==
    Late(x) /\ ~Closed(x) =>
        /\ x.s.primed /\ LastOne(x).sample + LastOne(x).count = x.fifo.read
        /\ IF x.s.staged # Native!None THEN LastOne(x).end = x.s.staged
           ELSE x.s.incoming # Native!None /\ LastOne(x).end = x.s.incoming
\* What is being written is counted, and no file has the number of another.
Writable(x) ==
    /\ IF x.s.writing
         THEN /\ x.file.index = x.s.index /\ x.s.first + Len(x.file.cells) = x.s.accepted
              /\ \A i \in DOMAIN x.saved : x.saved[i].index < x.s.index
         ELSE x.file = Native!NoFile
    /\ \A i \in DOMAIN x.saved : x.saved[i].index <= x.s.index
    /\ x.s.primed => x.fifo.read = x.s.next
Writing(x) ==
    /\ Writable(x)
    /\ Closed(x) \/ \A i \in DOMAIN x.saved : x.saved[i].index < x.s.index
    /\ x.s.writing => x.s.primed /\ x.s.staged # Native!None
    /\ ~x.s.writing /\ ~x.s.stop => x.s.first = x.s.accepted
    /\ x.s.primed /\ x.s.staged # Native!None /\ ~x.s.stop => x.s.writing
    /\ x.s.stop /\ x.s.writing => x.s.incoming = Native!None
    /\ x.s.awaiting => /\ x.s.auto /\ ~x.s.primed /\ ~x.s.writing
                       /\ x.s.staged = Native!None /\ x.s.incoming = Native!None
Going(x) == ~x.s.failed /\ Counts(x) /\ Linked(x) /\ Writing(x)

\* In the middle of a step that has failed, or may go on.
On(x) == Base(x) /\ x.s.on /\ x.told = "none"
Live(x) == On(x) /\ Going(x) /\ (x.s.awaiting => x.fifo = Native!NoSound)

\* Between two steps.
Quiet(x) ==
    /\ x.s = Native!NoSession /\ x.fifo = Native!NoSound /\ ~x.tap.active /\ x.shown # "on"
    /\ x.file = Native!NoFile
    /\ x.told = "saved" => x.took > 0 /\ Len(Intervals(x.saved)) = x.took
Rest(x) == IF x.s.on THEN Live(x) /\ ~(x.s.stop /\ x.s.writing) ELSE Base(x) /\ Quiet(x)

\* The last interval lasts until now.
UntilNow(x) ==
    Late(x) /\ ~x.s.stop =>
        x.s.primed /\ LastOne(x).sample + LastOne(x).count = x.fifo.read /\ LastOne(x).end = x.now

\* A segment has just been closed.
Sealed(x) ==
    /\ On(x) /\ ~x.s.failed /\ ~x.s.awaiting /\ ~x.s.writing
    /\ Counts(x) /\ Writable(x) /\ UntilNow(x)

\* A displayed frame could not be stored.
Halted(x) ==
    /\ On(x) /\ x.s.displayed /\ x.shown = "other"
    /\ x.s.failed \/ ~x.s.stop

-----------------------------------------------------------------------------

Others(x) == <<x.now, x.epoch, x.gen, x.tap, x.shown, x.s, x.file, x.saved, x.told, x.took, x.short, x.ok>>

-----------------------------------------------------------------------------

\* What Going looks at.
Seen(x) == <<x.saved, x.file, x.epoch, x.s.staged, x.s.incoming, x.s.primed, x.s.next,
             x.s.accepted, x.s.limit, x.s.first, x.s.index, x.s.writing, x.s.failed, x.s.stop,
             x.s.awaiting, x.s.auto, x.fifo.read>>

\* What Start leaves alone of the session.
Plan(s) == <<s.on, s.displayed, s.auto, s.limit, s.staged, s.incoming, s.primed, s.next,
             s.accepted, s.first, s.index, s.writing, s.failed, s.stop, s.manual, s.split,
             s.awaiting>>

\* What is said of a machine does not depend on gen, short and ok.
Core(x) == <<x.now, x.last, x.made, x.epoch, x.fifo, x.tap, x.shown, x.s, x.file, x.saved,
             x.told, x.took>>

\* What of a session is neither moved on by an interval nor by its end.
Manner(x) == <<x.now, x.epoch, x.s.displayed, x.s.auto, x.s.manual, x.s.split, x.s.awaiting, x.s.limit>>

\* Where a segment has just been closed, the next begins with the frame of now.
FreshTap(now, gen) == [active |-> TRUE, error |-> "ok", end |-> now, gen |-> gen, fresh |-> TRUE]
Reopened(y) == [y EXCEPT
                !.s.index = @ + 1, !.s.gen = y.gen, !.s.first = y.s.accepted,
                !.s.staged = Native!None, !.s.incoming = Native!None, !.s.split = FALSE,
                !.tap = FreshTap(y.now, y.gen)]

\* What a frame makes of a session: it goes on, or has failed, which ends one that
\* the runtime splits.
Taken(x, y) == On(y) /\ y.now = x.now /\ (y.ok \/ ~x.s.auto => Live(y) /\ ~(y.s.stop /\ y.s.writing))

\* A frame is displayed.
Shown(x) == Live(x) /\ (x.s.displayed \/ ~(x.s.stop /\ x.s.writing))

\* The sound and the picture are given back.
Silent(y) == Native!ReleaseSound([y EXCEPT !.tap.active = FALSE])

\* A session that waits for the first frame after a reset.
Renewed(b) == [Silent(b) EXCEPT !.s.index = @ + 1, !.s.primed = FALSE,
                          !.s.staged = Native!None, !.s.incoming = Native!None,
                          !.s.first = b.s.accepted, !.s.split = FALSE, !.s.awaiting = TRUE]

\* What a step leaves behind.
Done(x) == Rest(x) /\ x.now <= MaxTime

\* Between two steps everything stands for what RecordedExactly says of it.
RecordingInv == Done(recorder) /\ recorded \in 0 .. MaxOps

-----------------------------------------------------------------------------
(***************************************************************************)
(* The keyboard.  What is done to each event of a list in turn is a        *)
(* recursive function; P[i] is what holds once the first i are done.       *)
(***************************************************************************)
Iterated(S, n, a, op) ==
    \E f \in [0..n -> S] : f[0] = a /\ \A i \in 1..n : f[i] = op[<<f[i - 1], i>>]

\* The types of the parts of the keyboard.
Matrices == [map : SUBSET Keys, held : SUBSET Keys, age : [Keys -> 0..Hold],
             queue : Seq(Events), forced : BOOLEAN]
Fifos    == [buffers : 0..FifoMax, full : BOOLEAN, event : BOOLEAN, overrun : BOOLEAN]

\* Which keys are down once the first n events of q have been applied to S.
Ends(S, q, n) ==
    {k \in Keys : \/ \E i \in 1..n : q[i] = Make(k) /\ \A j \in (i + 1)..n : q[j].key # k
                  \/ k \in S /\ \A i \in 1..n : q[i].key # k}

\* What is down is held; what has an age has had it, and has been down, since a; and
\* what is down no longer was old enough then.
Held(m)     == m.map \subseteq m.held
Aged(a, b)  == \A k \in Keys : b.age[k] > 0 => b.age[k] = a.age[k] /\ (k \in b.map => k \in a.map)
OldEnough(a, b) == \A k \in a.map \ b.map : a.age[k] >= Hold

\* Releases alone leave the ages, and nothing new is down.
Releases(q) == \A i \in 1..Len(q) : q[i].up

\* What is queued, and nothing else of m.
Queued(m, r, e) ==
    /\ r \in Matrices /\ r.map = m.map /\ r.held = m.held /\ r.age = m.age
    /\ r.forced = m.forced /\ r.queue = Append(m.queue, e)

\* An event that is sent adds itself to what the queue will come to, whatever of it
\* is done at once.
Sending(m, r, e) ==
    /\ r \in Matrices /\ Held(r)
    /\ e.up => Ends(r.map, r.queue, Len(r.queue)) = Ends(m.map, m.queue, Len(m.queue)) \ {e.key}
    /\ ~e.up => Ends(r.map, r.queue, Len(r.queue)) = Ends(m.map, m.queue, Len(m.queue)) \cup {e.key}
    /\ m.forced => r.forced
    /\ \A a \in Matrices : Aged(a, m) => Aged(a, r) /\ (OldEnough(a, m) => r.forced \/ OldEnough(a, r))

\* The keyboard with its table of held keys: nothing is down that is not held.
Boards == [ref : SUBSET Keys, matrix : {m \in Matrices : Held(m)}, fifo : Fifos]

\* What the queue will come to is what is held.
Coming(s)  == Ends(s.matrix.map, s.matrix.queue, Len(s.matrix.queue))
Settled(s) == Coming(s) = s.ref

\* What has become of the keys of a by s: those of an age are as they were, and none
\* has been released too early, but for a queue emptied at once.
Follows(a, s) == Aged(a, s.matrix) /\ (s.matrix.forced \/ OldEnough(a, s.matrix))

-----------------------------------------------------------------------------
(***************************************************************************)
(* The paste, and what is left of it.                                      *)
(***************************************************************************)
Chars  == [key : Keys \ {Shift}, shift : BOOLEAN]
Phases == {"shift_down", "key_down", "key_up", "shift_up"}
Pastes == [text : Texts, index : Nat, phase : Phases, frames : 0..FramesPerEvent,
           shiftDown : BOOLEAN, keyDown : BOOLEAN]
CharAt(p) == p.text[p.index]

Pasting(p) ==
    /\ p \in Pastes /\ p.index \in 1..Len(p.text)
    /\ p.keyDown <=> p.phase = "key_up"
    /\ p.shiftDown <=> CharAt(p).shift /\ p.phase # "shift_down"
    /\ CharAt(p).shift \/ p.phase \in {"key_down", "key_up"}

PasteIs(p) == p = NoPaste \/ Pasting(p)

\* The paste goes on to its next character, or has come to its end.
GoesOn(p, q) ==
    \/ q = NoPaste /\ p.index = Len(p.text)
    \/ /\ Pasting(q) /\ q.text = p.text /\ q.index = p.index + 1 /\ q.frames = 0
       /\ q.phase \in {"shift_down", "key_down"} /\ ~q.shiftDown /\ ~q.keyDown

\* What a step of the paste sends, and what it leaves.
Stays(p, q) == Pasting(q) /\ q.text = p.text /\ q.index = p.index

\* What holds of the keys whatever the user does: the matrix comes to what is held,
\* and a key of an age has been seen.
KnownAt(m, kn) == \A k \in m.map : m.age[k] > 0 => k \in kn
KeysKept == keys \in Boards /\ Settled(keys) /\ PasteIs(paste) /\ KnownAt(keys.matrix, known)

\* What a frame makes of the matrix.
Ticked(m, r) ==
    LET x == MatrixTick(m)
    IN  /\ r \in Matrices /\ Held(r) /\ r.map = x.map /\ r.age = x.age /\ r.queue = x.queue
        /\ Ends(r.map, r.queue, Len(r.queue)) = Ends(m.map, m.queue, Len(m.queue))
        /\ \A k \in m.map \ r.map : Older(m.age[k]) >= Hold

-----------------------------------------------------------------------------
(***************************************************************************)
(* A paste nobody disturbs.  What is held is what the paste holds; but for *)
(* the character just made, if no frame has been since, the guest has read *)
(* what was made so far.                                                   *)
(***************************************************************************)
DownIn(p) == {k \in Keys : (p.keyDown /\ k = CharAt(p).key) \/ (p.shiftDown /\ k = Shift)}

MadeIn(p, g) == IF p.text = <<>> THEN Len(g)
                ELSE IF p.phase \in {"key_up", "shift_up"} THEN p.index ELSE p.index - 1

Paced(m, p, sn, g) ==
    Pasting(p) =>
        /\ p.text = g
        /\ \A k \in Keys : m.age[k] + FramesPerEvent >= Hold + p.frames
        /\ p.frames = FramesPerEvent => m.queue = <<>>
        /\ p.frames > 0 => sn \ {Shift} \subseteq m.map
        /\ p.phase = "key_up" => m.queue = <<>>
        /\ p.phase = "key_down" /\ p.shiftDown => m.queue = <<>>
        /\ p.phase = "shift_up" => Len(m.queue) <= 1

AllRead(m, sn, ty, g, n) == ty = SubSeq(g, 1, n) /\ m.map \ {Shift} \subseteq sn

OneUnread(m, p, sn, ty, g, n) ==
    /\ n >= 1 /\ p.frames = 0
    /\ ty = SubSeq(g, 1, n - 1)
    /\ g[n].key \in m.map /\ g[n].key \notin sn
    /\ m.map \subseteq {Shift, g[n].key}
    /\ Shift \in m.map <=> g[n].shift
    /\ m.age[g[n].key] = 0
    /\ m.queue # <<>> => m.queue[1] = Break(g[n].key)

Undisturbed(s, p, sn, ty, g) ==
    /\ g \in Texts
    /\ Releases(s.matrix.queue)
    /\ s.ref = DownIn(p)
    /\ Paced(s.matrix, p, sn, g)
    /\ \/ AllRead(s.matrix, sn, ty, g, MadeIn(p, g))
       \/ OneUnread(s.matrix, p, sn, ty, g, MadeIn(p, g))

KeysInv == KeysKept /\ (goal # <<>> => Undisturbed(keys, paste, seen, typed, goal))

\* The keys that a frame shows for the first time.
Reads == [key : Keys, shift : BOOLEAN]

-----------------------------------------------------------------------------
(***************************************************************************)
(* The units side by side: each keeps to its own invariant.                *)
(***************************************************************************)
HostInv ==
    /\ unit = "exports" => ExportInv
    /\ unit = "folder" => FolderInv
    /\ unit = "recording" => RecordingInv
    /\ unit = "keys" => KeysInv

=============================================================================
