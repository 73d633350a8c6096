----------------------------- MODULE HostProofs -----------------------------
(***************************************************************************)
(* What of MCHost holds for every value of the constants: what an export   *)
(* reports and what cancels it, what may be trusted of a folder that is    *)
(* mounted as a drive, what is in the files of a recording, and what comes *)
(* of the keys that are pressed and pasted.                                *)
(***************************************************************************)
EXTENDS HostInvariants, TLAPS, NaturalsInduction, WellFoundedInduction

-----------------------------------------------------------------------------
\* The exports.  The thread converts, or not; it is asked to stop, or one
\* track stops the other: cancel_ alone does not tell.
LEMMA ExportInit == Mp4!Init => ExportInv
BY DEF Mp4!Init, ExportInv, Converting, Cancelling, Busy, Unpublished, Errors, Mp4!NoError,
       Mp4!Cancelled, Mp4!Broken

\* What the front end does: it only asks.
LEMMA ClientStep ==
    ASSUME ExportInv, \/ \E s \in Sources : Mp4!Enqueue(s) \/ Mp4!Foreign(s)
                      \/ Mp4!Get \/ Mp4!Cancel \/ Mp4!Shutdown \/ Mp4!Join \/ Mp4!Spurious
    PROVE  ExportInv'
<1> USE DEF ExportInv, Converting, Cancelling, Busy, Unpublished, Mp4!Notified, Mp4!jobVars,
            Mp4!convertVars
<1>1. ASSUME NEW s \in Sources, Mp4!Enqueue(s) PROVE ExportInv'
  BY <1>1 DEF Mp4!Enqueue
<1>2. ASSUME NEW s \in Sources, Mp4!Foreign(s) PROVE ExportInv'
  BY <1>2 DEF Mp4!Foreign
<1>3. CASE Mp4!Get  BY <1>3 DEF Mp4!Get
<1>4. CASE Mp4!Cancel  BY <1>4 DEF Mp4!Cancel
<1>5. CASE Mp4!Shutdown  BY <1>5 DEF Mp4!Shutdown
<1>6. CASE Mp4!Join  BY <1>6 DEF Mp4!Join
<1>7. CASE Mp4!Spurious  BY <1>7 DEF Mp4!Spurious
<1> HIDE DEF ExportInv, Converting, Cancelling, Busy, Unpublished, Mp4!Notified, Mp4!jobVars,
             Mp4!convertVars
<1> QED BY <1>1, <1>2, <1>3, <1>4, <1>5, <1>6, <1>7

\* What the thread does.
LEMMA RunStep ==
    ASSUME ExportInv, Mp4!Run
    PROVE  ExportInv'
<1> USE DEF ExportInv, Converting, Cancelling, Busy, Unpublished, Errors, Mp4!NoError,
            Mp4!Cancelled, Mp4!Broken, Mp4!jobVars, Mp4!convertVars, Mp4!outside, Mp4!GoesOn,
            Mp4!Throws
<1>1. CASE Mp4!Wait
  <2>1. CASE Mp4!Quit  BY <1>1, <2>1 DEF Mp4!Wait, Mp4!Quit
  <2>2. CASE Mp4!Start
    <3>1. asked' = FALSE /\ made' = FALSE /\ cancel' = FALSE /\ working' = TRUE /\ worker' = "open"
          /\ UNCHANGED <<error, firstError, temp>>
      BY <2>2 DEF Mp4!Start, Mp4!Fresh
    <3> QED BY <1>1, <3>1 DEF Mp4!Wait
  <2>3. CASE Mp4!Sleep  BY <1>1, <2>3 DEF Mp4!Wait, Mp4!Sleep
  <2> QED BY <1>1, <2>1, <2>2, <2>3 DEF Mp4!Wait
<1>2. CASE Mp4!Report  BY <1>2 DEF Mp4!Report
<1>3. CASE Mp4!Open  BY <1>3 DEF Mp4!Open
<1>4. CASE Mp4!OpenSink  BY <1>4 DEF Mp4!OpenSink
<1>5. CASE Mp4!JoinTracks  BY <1>5 DEF Mp4!JoinTracks
<1>6. CASE Mp4!Finish  BY <1>6 DEF Mp4!Finish
<1>7. CASE Mp4!Seal  BY <1>7 DEF Mp4!Seal, Mp4!Sealed
<1>8. CASE Mp4!Publish
  <2>1. /\ worker = "publish" /\ worker' = "unwind" /\ UNCHANGED <<cancel, temp, working, asked, firstError>>
        /\ \/ made' = TRUE /\ error' = error
           \/ made' = made /\ error' = Mp4!Broken
    BY <1>8 DEF Mp4!Publish
  <2>2. error = Mp4!NoError /\ made = FALSE  BY <2>1
  <2> QED BY <2>1, <2>2
<1>9. CASE Mp4!Unwind  BY <1>9 DEF Mp4!Unwind
<1>10. ASSUME NEW t \in Tracks, Mp4!TrackStep(t) PROVE ExportInv'
  <2>1. CASE Mp4!TrackEnds(t)  BY <2>1 DEF Mp4!TrackEnds
  <2>2. ASSUME NEW e \in {Mp4!Broken, Mp4!Cancelled}, Mp4!TrackThrows(t, e),
               e = Mp4!Cancelled => cancel
        PROVE  ExportInv'
    BY <2>2 DEF Mp4!TrackThrows, Mp4!Keep
  <2> QED BY <1>10, <2>1, <2>2 DEF Mp4!TrackStep
<1> QED BY <1>1, <1>2, <1>3, <1>4, <1>5, <1>6, <1>7, <1>8, <1>9, <1>10 DEF Mp4!Run, Mp4!Convert

LEMMA ExportNext ==
    ASSUME ExportInv, Mp4!Next
    PROVE  ExportInv'
BY ClientStep, RunStep DEF Mp4!Next, Mp4!Client

\* Only Report ends a job, and it tells what the job has come to.
LEMMA OutcomeIsHonest ==
    ASSUME ExportInv, Mp4!Next
    PROVE  Mp4!HonestOutcome
<1> SUFFICES ASSUME working, ~working'
             PROVE  (made <=> state' = "SUCCEEDED") /\ (state' = "CANCELLED" => asked)
                    /\ state' # "RUNNING" /\ ~temp
  BY DEF Mp4!HonestOutcome
<1>1. Mp4!Report
  BY DEF Mp4!Next, Mp4!Client, Mp4!Enqueue, Mp4!Foreign, Mp4!Get, Mp4!Cancel, Mp4!Shutdown,
         Mp4!Join, Mp4!Spurious, Mp4!Run, Mp4!Wait, Mp4!Quit, Mp4!Start, Mp4!Sleep, Mp4!Convert,
         Mp4!Open, Mp4!OpenSink, Mp4!JoinTracks, Mp4!Finish, Mp4!Seal, Mp4!Publish, Mp4!Unwind,
         Mp4!TrackStep, Mp4!TrackEnds, Mp4!TrackThrows, Mp4!outside
<1>2. worker = "report" /\ state' = Mp4!Outcome(error)  BY <1>1 DEF Mp4!Report
<1>3. ~temp /\ (made <=> error = Mp4!NoError) /\ (error = Mp4!Cancelled => asked)
      /\ error \in Errors
  BY <1>2 DEF ExportInv, Converting, Cancelling
<1> QED BY <1>2, <1>3 DEF Mp4!Outcome, Errors, Mp4!NoError, Mp4!Cancelled, Mp4!Broken

\* Only Seal goes on to the link, and it looks at cancel_.
LEMMA CancelIsTaken ==
    ASSUME ExportInv, Mp4!Next
    PROVE  Mp4!CancelTakes
<1> SUFFICES ASSUME worker # "publish", worker' = "publish"
             PROVE  ~asked
  BY DEF Mp4!CancelTakes
<1>1. Mp4!Seal
  BY DEF Mp4!Next, Mp4!Client, Mp4!Enqueue, Mp4!Foreign, Mp4!Get, Mp4!Cancel, Mp4!Shutdown,
         Mp4!Join, Mp4!Spurious, Mp4!Run, Mp4!Wait, Mp4!Quit, Mp4!Start, Mp4!Sleep, Mp4!Convert,
         Mp4!Open, Mp4!OpenSink, Mp4!JoinTracks, Mp4!Finish, Mp4!Publish, Mp4!Unwind,
         Mp4!TrackStep, Mp4!TrackEnds, Mp4!TrackThrows, Mp4!outside, Mp4!Report, Mp4!Notified,
         Mp4!GoesOn, Mp4!Throws
<1>2. ~cancel  BY <1>1 DEF Mp4!Seal, Mp4!Sealed, Mp4!Throws
<1> QED BY <1>2 DEF ExportInv, Cancelling
-----------------------------------------------------------------------------
\* The folder.  Nobody locks it: what a snapshot rests on are the times
\* and identities noted while it was scanned.  A directory whose time is
\* still the noted one has had the same entries ever since (Steady); a
\* file of the noted identity that has been written to since bears a time
\* that was never noted (Kept).
LEMMA PartialValues ==
    ASSUME NEW D, NEW R, NEW f \in Partial(D, R)
    PROVE  DOMAIN f \subseteq D /\ f \in [DOMAIN f -> R]
BY DEF Partial

LEMMA PartialEmpty ==
    ASSUME NEW D, NEW R
    PROVE  <<>> \in Partial(D, R) /\ DOMAIN <<>> = {}
<1>1. <<>> \in [{} -> R] /\ DOMAIN <<>> = {}  OBVIOUS
<1> QED BY <1>1 DEF Partial

LEMMA WithFacts ==
    ASSUME NEW f, NEW x, NEW r
    PROVE  /\ DOMAIN Folder!With(f, x, r) = DOMAIN f \cup {x}
           /\ Folder!With(f, x, r)[x] = r
           /\ \A y \in DOMAIN f : y # x => Folder!With(f, x, r)[y] = f[y]
BY DEF Folder!With

LEMMA PartialMore ==
    ASSUME NEW D, NEW R, NEW f \in Partial(D, R), NEW x \in D, NEW r \in R
    PROVE  Folder!With(f, x, r) \in Partial(D, R)
<1> DEFINE g == Folder!With(f, x, r)
<1>1. DOMAIN f \subseteq D /\ \A y \in DOMAIN f : f[y] \in R  BY PartialValues
<1>2. DOMAIN g = DOMAIN f \cup {x} /\ g[x] = r /\ \A y \in DOMAIN f : y # x => g[y] = f[y]
  BY DEF Folder!With
<1>3. g = [y \in DOMAIN f \cup {x} |-> g[y]]  BY DEF Folder!With
<1>4. g \in [DOMAIN f \cup {x} -> R]  BY <1>1, <1>2, <1>3
<1>5. DOMAIN f \cup {x} \in SUBSET D  BY <1>1
<1> QED BY <1>4, <1>5 DEF Partial

LEMMA TopFacts ==
    ASSUME worker.stack \in Seq(StackFrame), worker.stack # <<>>
    PROVE  /\ Depth \in Nat \ {0}
           /\ Folder!Top = worker.stack[Depth] /\ Folder!Top \in StackFrame
BY DEF Folder!Top, Depth

LEMMA WithTopFacts ==
    ASSUME worker.stack \in Seq(StackFrame), worker.stack # <<>>, NEW frame \in StackFrame
    PROVE  /\ Folder!WithTop(frame) \in Seq(StackFrame) /\ Len(Folder!WithTop(frame)) = Depth
           /\ Folder!WithTop(frame)[Depth] = frame
           /\ \A i \in 1 .. Depth - 1 : Folder!WithTop(frame)[i] = worker.stack[i]
BY DEF Folder!WithTop, Depth

LEMMA PushFacts ==
    ASSUME NEW s \in Seq(StackFrame), NEW frame \in StackFrame
    PROVE  /\ Append(s, frame) \in Seq(StackFrame) /\ Len(Append(s, frame)) = Len(s) + 1
           /\ Append(s, frame)[Len(s) + 1] = frame
           /\ \A i \in 1 .. Len(s) : Append(s, frame)[i] = s[i]
OBVIOUS

LEMMA PopFacts ==
    ASSUME NEW s \in Seq(StackFrame), s # <<>>
    PROVE  /\ SubSeq(s, 1, Len(s) - 1) \in Seq(StackFrame) /\ Len(SubSeq(s, 1, Len(s) - 1)) = Len(s) - 1
           /\ \A i \in 1 .. Len(s) - 1 : SubSeq(s, 1, Len(s) - 1)[i] = s[i]
<1>1. Len(s) \in Nat \ {0} /\ \A i \in 1 .. Len(s) : s[i] \in StackFrame
  OBVIOUS
<1>2. SubSeq(s, 1, Len(s) - 1) = [i \in 1 .. Len(s) - 1 |-> s[i]]  BY <1>1
<1>3. \A i \in 1 .. Len(s) - 1 : s[i] \in StackFrame  BY <1>1
<1> DEFINE t == SubSeq(s, 1, Len(s) - 1)
<1>4. PICK n \in Nat : n = Len(s) - 1  BY <1>1
<1>5. t = [i \in 1 .. n |-> s[i]] /\ \A i \in 1 .. n : s[i] \in StackFrame
  BY <1>2, <1>3, <1>4
<1> HIDE DEF t
<1>6. t \in Seq(StackFrame) /\ Len(t) = n /\ \A i \in 1 .. n : t[i] = s[i]
  BY <1>5
<1>7. t = SubSeq(s, 1, Len(s) - 1)  BY DEF t
<1> QED BY <1>4, <1>6, <1>7

\* A worker that does nothing, or starts.
LEMMA FreshWorker ==
    ASSUME SourceTyped, UNCHANGED <<source, changes>>,
           worker' \in {Folder!Idle, Folder!Build, [Folder!Idle EXCEPT !.pc = "ended", !.ok = FALSE]}
    PROVE  WorkerTyped' /\ WorkerInv'
<1>1. Folder!Idle = [pc |-> "idle", ok |-> TRUE, at |-> Root, stack |-> <<>>, notes |-> <<>>,
                     data |-> <<>>, copies |-> <<>>, goal |-> <<>>]
  BY DEF Folder!Idle
<1>2. /\ <<>> \in Seq(StackFrame) /\ <<>> \in Seq(Nat)
      /\ <<>> \in Partial(Places, NoteType) /\ <<>> \in Partial(Files, Seq(Nat))
      /\ Root \in Places
  BY PartialEmpty DEF Places, AllDirs
<1>3. CASE worker' = Folder!Idle \/ worker' = [Folder!Idle EXCEPT !.pc = "ended", !.ok = FALSE]
  <2>1. PICK pc \in {"idle", "ended"}, ok \in BOOLEAN :
            /\ pc = "ended" => ~ok
            /\ worker' = [pc |-> pc, ok |-> ok, at |-> Root, stack |-> <<>>, notes |-> <<>>,
                          data |-> <<>>, copies |-> <<>>, goal |-> <<>>]
    BY <1>1, <1>3
  <2>2. WorkerTyped'  BY <1>2, <2>1 DEF WorkerTyped
  <2>3. worker'.pc \notin ScanSteps \cup WriteSteps /\ (worker'.pc = "ended" => ~worker'.ok)
    BY <2>1 DEF ScanSteps, WriteSteps, FileSteps
  <2> QED BY <2>2, <2>3 DEF WorkerInv, Notes, Scanning, Scanned, Copying, Written, Ended
<1>4. CASE worker' = Folder!Build
  <2> DEFINE frame == [dir |-> Root, todo |-> {}, done |-> {}]
             notes == [p \in {Root} |-> [id |-> source[p].id, time |-> source[p].time]]
  <2>1. worker' = [pc |-> "open", ok |-> TRUE, at |-> Root, stack |-> <<frame>>, notes |-> notes,
                   data |-> <<>>, copies |-> <<>>, goal |-> <<>>]
    BY <1>1, <1>4 DEF Folder!Build, Folder!Note
  <2>2. source[Root] \in Record /\ source[Root].time <= changes
    <3>1. source[Root] \in Record  BY DEF SourceTyped, Contents, AllDirs
    <3>2. source[Root] # Gone
      BY <3>1, FolderAssumption DEF Record, FolderRecords
    <3> QED BY <3>1, <3>2, <1>2 DEF SourceTyped, Dated
  <2>3. frame \in StackFrame /\ <<frame>> \in Seq(StackFrame)
    BY DEF StackFrame, AllDirs
  <2>4. notes \in Partial(Places, NoteType)
    <3>1. notes \in [{Root} -> NoteType]  BY <2>2 DEF Record, NoteType
    <3> QED BY ZenonT(60), <3>1, <1>2 DEF Partial
  <2>5. WorkerTyped'  BY <1>2, <2>1, <2>3, <2>4 DEF WorkerTyped, ScanSteps
  <2>6. /\ worker'.pc = "open" /\ Noted' = {Root} /\ Depth' = 1 /\ worker'.stack[1] = frame
        /\ worker'.notes[Root] = [id |-> source[Root].id, time |-> source[Root].time]
        /\ worker'.copies = <<>> /\ worker'.stack # <<>>
    BY <2>1 DEF Noted, Depth
  <2>7. Folder!Found(Root)' = {}  BY <2>6 DEF Folder!Found, Noted
  <2>8. Notes'  BY <2>2, <2>6 DEF Notes
  <2>9. Scanning'
    <3>1. \A i \in 1 .. Depth' : i = 1  BY <2>6
    <3>2. \A i \in 1 .. Depth' : worker'.stack[i].done = {} /\ worker'.stack[i].dir = Root
      BY <2>6, <3>1
    <3>3. \A p : ~Half(p)'  BY <2>6 DEF Half
    <3>4. (\A i \in 1 .. Depth : worker.stack[i].done = Folder!Found(worker.stack[i].dir))'
      BY <2>7, <3>2
    <3>5. (\A i, j \in 1 .. Depth : worker.stack[i].dir = worker.stack[j].dir => i = j)'
      BY <3>1
    <3>6. (worker.stack[1].dir = Root)'  BY <2>6
    <3> QED BY <2>6, <3>3, <3>4, <3>5, <3>6 DEF Scanning
  <2>10. Scanned'  BY <2>6, <2>7 DEF Scanned, OnStack
  <2>11. Copying' /\ Written' /\ Ended'
    BY <2>6 DEF Copying, Written, Ended, WriteSteps, FileSteps
  <2> QED BY <2>5, <2>8, <2>9, <2>10, <2>11 DEF WorkerInv
<1> QED BY <1>3, <1>4

LEMMA AsideStays ==
    ASSUME FolderInv, Aside
    PROVE  SourceTyped' /\ ManagerTyped' /\ Folder!Coherent' /\ Folder!StatusTrue'
BY DEF FolderInv, Aside, SourceTyped, ManagerTyped, Dated, Folder!Coherent, Folder!IsSnapshot,
       Folder!StatusTrue

LEMMA WorkerStep ==
    ASSUME FolderInv, Aside, WorkerTyped', WorkerInv'
    PROVE  FolderInv'
BY AsideStays DEF FolderInv

LEMMA FailStep ==
    ASSUME FolderInv, Folder!Fail
    PROVE  FolderInv'
<1>1. Aside /\ worker' = [Folder!Idle EXCEPT !.pc = "ended", !.ok = FALSE]
  BY DEF Folder!Fail, Folder!Becomes, Aside
<1>2. SourceTyped /\ UNCHANGED <<source, changes>>
  BY <1>1 DEF Aside, FolderInv
<1> QED BY <1>1, <1>2, FreshWorker, WorkerStep

-----------------------------------------------------------------------------
LEMMA RecordsAreFiles ==
    ASSUME FolderInv
    PROVE  /\ Gone \notin Record
           /\ \A p \in Places : source[p] # Gone => source[p] \in Record
           /\ \A d \in AllDirs : source[d] \in Record /\ source[d] # Gone /\ source[d].id = 0
           /\ source = [p \in Places |-> source[p]] /\ changes \in Nat
<1>1. Gone \notin Record  BY FolderAssumption DEF Record, FolderRecords
<1> QED BY <1>1, FolderAssumption DEF FolderInv, SourceTyped, Contents

LEMMA ChangeFacts ==
    ASSUME FolderInv, Folder!Change
    PROVE  /\ \E f \in Files : ChangeOf(f)
           /\ changes' = changes + 1 /\ changes' \in 0 .. MaxChanges
           /\ source' = [p \in Places |-> source'[p]]
           /\ UNCHANGED <<builds, worker, manager, image>>
<1>1. PICK f \in Files :
          \/ /\ source[f] # Gone
             /\ source' = [source EXCEPT ![f].time = changes + 1, ![f].body = changes + 1]
          \/ source[f] # Gone /\ Folder!Put(f, Gone)
          \/ \E time \in {0, changes + 1} : Folder!Put(f, Folder!NewFile(time))
  BY DEF Folder!Change
<1>2. f \in Places /\ Parent[f] \in AllDirs /\ f \notin AllDirs /\ Parent[f] # f /\ Parent[f] \in Places
  BY FolderAssumption DEF Places, AllDirs
<1>3. changes' = changes + 1 /\ changes' \in 0 .. MaxChanges
  BY FolderAssumption DEF Folder!Change, Folder!Tick, FolderInv, SourceTyped
<1>4. UNCHANGED <<builds, worker, manager, image>>  BY DEF Folder!Change
<1>5. CASE /\ source[f] # Gone
           /\ source' = [source EXCEPT ![f].time = changes + 1, ![f].body = changes + 1]
  <2>1. source[f] \in Record  BY <1>2, <1>5, RecordsAreFiles
  <2>2. source'[f] = [id |-> source[f].id, time |-> changes + 1, body |-> changes + 1]
    BY <1>2, <1>5, <2>1, RecordsAreFiles DEF Record
  <2>3. \A p \in Places : p # f => source'[p] = source[p]
    BY <1>5, RecordsAreFiles
  <2>4. source' = [p \in Places |-> source'[p]]  BY <1>5, RecordsAreFiles
  <2> QED BY <1>2, <1>3, <1>4, <1>5, <2>2, <2>3, <2>4 DEF ChangeOf
<1>6. ASSUME NEW r, Folder!Put(f, r),
             \/ r = Gone
             \/ \E time \in {0, changes + 1} :
                   r = [id |-> changes + 1, time |-> time, body |-> changes + 1]
      PROVE  ChangeOf(f) /\ source' = [p \in Places |-> source'[p]]
  <2>1. source[Parent[f]] \in Record /\ source[Parent[f]].id = 0
    BY <1>2, RecordsAreFiles
  <2>2. source'[f] = r /\ source' = [p \in Places |-> source'[p]]
        /\ \A p \in Places : p # f /\ p # Parent[f] => source'[p] = source[p]
    BY <1>2, <1>6, RecordsAreFiles DEF Folder!Put
  <2>3. source'[Parent[f]] = [source[Parent[f]] EXCEPT !.time = changes + 1]
    BY <1>2, <1>6, RecordsAreFiles DEF Folder!Put
  <2>4. source'[Parent[f]] = [id |-> 0, time |-> changes + 1, body |-> source[Parent[f]].body]
    BY <2>1, <2>3 DEF Record
  <2> QED BY <1>2, <1>6, <2>2, <2>4 DEF ChangeOf
<1> QED BY <1>1, <1>3, <1>4, <1>5, <1>6 DEF Folder!NewFile

\* A directory that is steady after a change was so before, and its entries
\* are the same files.
LEMMA SteadyChange ==
    ASSUME FolderInv, Folder!Change, NEW d \in AllDirs, d \in Noted, Steady(d)',
           worker.pc \in ScanSteps \cup WriteSteps
    PROVE  /\ Steady(d)
           /\ \A p \in Folder!Entries : Parent[p] = d =>
                 /\ source'[p] = Gone <=> source[p] = Gone
                 /\ source[p] # Gone => source'[p].id = source[p].id
<1>1. PICK f \in Files : ChangeOf(f)  BY ChangeFacts
<1>2. worker' = worker /\ changes \in Nat /\ Gone \notin Record
  BY ChangeFacts, RecordsAreFiles
<1>3. worker.notes[d].time <= changes /\ worker.notes[d].time \in Nat
  <2>1. worker.notes \in Partial(Places, NoteType)
    BY DEF FolderInv, WorkerTyped
  <2>2. worker.notes[d] \in NoteType  BY <2>1, PartialValues DEF Noted
  <2> QED BY <2>2 DEF FolderInv, WorkerInv, Notes, NoteType
<1>4. source'[d].time # changes + 1  BY <1>2, <1>3 DEF Steady
<1>5. Parent[f] # d \/ source'[Parent[f]] = source[Parent[f]]
  BY <1>1, <1>4 DEF ChangeOf
<1>6. source'[d] = source[d]  BY <1>1, <1>5 DEF ChangeOf, Places
<1>7. ASSUME NEW p \in Folder!Entries, Parent[p] = d
      PROVE  /\ source'[p] = Gone <=> source[p] = Gone
             /\ source[p] # Gone => source'[p].id = source[p].id
  <2>1. p \in Places  BY DEF Folder!Entries, Places, AllDirs
  <2>2. CASE p = f
    <3>1. source[f] # Gone /\ source[f] \in Record
          /\ source'[f] = [id |-> source[f].id, time |-> changes + 1, body |-> changes + 1]
      BY <1>1, <1>4, <1>7, <2>1, <2>2, RecordsAreFiles DEF ChangeOf
    <3>2. source'[f] \in Record  BY <1>2, <3>1 DEF Record
    <3> QED BY <1>2, <2>2, <3>1, <3>2
  <2>3. CASE p = Parent[f]
    BY <1>1, <1>2, <2>1, <2>3, RecordsAreFiles, ChangeFacts DEF ChangeOf, Record
  <2>4. CASE p # f /\ p # Parent[f]  BY <1>1, <2>1, <2>4 DEF ChangeOf
  <2> QED BY <2>2, <2>3, <2>4
<1> QED BY <1>2, <1>6, <1>7 DEF Steady
\* A file that a change leaves as something else is not again what was noted.
LEMMA KeptChange ==
    ASSUME FolderInv, Folder!Change, worker.pc \in WriteSteps, NEW g \in Files, g \in Noted
    PROVE  /\ Kept(g)'
           /\ source'[g] = worker.goal[g] /\ worker.goal[g] # Gone => source[g] = worker.goal[g]
<1>1. PICK f \in Files : ChangeOf(f)  BY ChangeFacts
<1>2. worker' = worker /\ changes \in Nat /\ Gone \notin Record
  BY ChangeFacts, RecordsAreFiles
<1>3. g \in Places /\ g # Parent[f]
  BY <1>1, FolderAssumption DEF ChangeOf, Places, AllDirs
<1>4. Kept(g) /\ worker.goal \in Contents /\ Dated(worker.goal)
  BY DEF FolderInv, WorkerInv, Copying
<1>5. worker.notes[g].time <= changes /\ worker.notes[g].time \in Nat
  <2>1. worker.notes \in Partial(Places, NoteType)
    BY DEF FolderInv, WorkerTyped
  <2>2. worker.notes[g] \in NoteType  BY <2>1, PartialValues DEF Noted
  <2> QED BY <2>2 DEF FolderInv, WorkerInv, Notes, NoteType
<1>6. worker.goal[g] # Gone =>
          worker.goal[g] \in Record /\ worker.goal[g].id <= changes /\ worker.goal[g].time <= changes
  BY <1>3, <1>4 DEF Contents, Dated
<1>7. CASE g # f
  <2>1. source'[g] = source[g]  BY <1>1, <1>3, <1>7 DEF ChangeOf
  <2> QED BY <1>2, <1>4, <2>1 DEF Kept
<1>8. CASE g = f
  <2>1. CASE source'[f] = Gone  BY <1>2, <1>8, <2>1 DEF Kept
  <2>2. CASE \E time \in {0, changes + 1} :
                source'[f] = [id |-> changes + 1, time |-> time, body |-> changes + 1]
    <3>1. source'[g].id = changes + 1  BY <1>8, <2>2
    <3>2. worker.goal[g] # Gone => source'[g].id # worker.goal[g].id
      BY <1>2, <1>6, <3>1 DEF Record
    <3> QED BY <1>2, <3>2 DEF Kept
  <2>3. CASE source'[f] = [id |-> source[f].id, time |-> changes + 1, body |-> changes + 1]
    <3>1. source'[g].time = changes + 1  BY <1>8, <2>3
    <3>2. worker.goal[g] # Gone => source'[g] # worker.goal[g]
      BY <1>2, <1>6, <3>1 DEF Record
    <3>3. source'[g].time > worker.notes[g].time  BY <1>2, <1>5, <3>1
    <3> QED BY <1>2, <3>2, <3>3 DEF Kept
  <2> QED BY <1>1, <2>1, <2>2, <2>3 DEF ChangeOf
<1> QED BY <1>7, <1>8

\* The file that is being copied was there when the scan ended.
LEMMA FileIsFact ==
    ASSUME FolderInv, worker.pc \in FileSteps
    PROVE  /\ worker.at \in Files \cap Noted /\ worker.goal[worker.at] # Gone
           /\ worker.notes[worker.at].id = worker.goal[worker.at].id
<1>1. PICK entered \in SUBSET (AllDirs \cap Noted) : Progress(entered)
  BY DEF FolderInv, WorkerInv, Written, WriteSteps
<1>2. worker.at \in Files \cap Noted /\ Facts(Parent[worker.at])
  BY <1>1 DEF Progress
<1> QED BY <1>2 DEF Facts, Folder!Entries

LEMMA ChangeStep ==
    ASSUME FolderInv, Folder!Change
    PROVE  FolderInv'
<1>1. PICK f \in Files : ChangeOf(f)  BY ChangeFacts
<1>2. /\ UNCHANGED <<builds, worker, manager, image>> /\ changes' = changes + 1
      /\ changes' \in 0 .. MaxChanges /\ source' = [p \in Places |-> source'[p]]
      /\ changes \in Nat /\ Gone \notin Record
  BY ChangeFacts, RecordsAreFiles
<1>3. SourceTyped'
  <2>1. \A p \in Places : source'[p] \in Record \cup {Gone}
    <3>1. source[f] # Gone => source[f] \in Record
      BY <1>1, RecordsAreFiles DEF ChangeOf, Places
    <3>2. source'[f] \in Record \cup {Gone}
      BY <1>1, <1>2, <3>1 DEF ChangeOf, Record
    <3>3. source'[Parent[f]] \in Record
      BY <1>1, <1>2, RecordsAreFiles DEF ChangeOf, Record
    <3>4. \A p \in Places : p # f /\ p # Parent[f] => source'[p] \in Record \cup {Gone}
      BY <1>1, RecordsAreFiles DEF ChangeOf
    <3> QED BY <3>2, <3>3, <3>4
  <2>2. \A d \in AllDirs : source'[d] \in Record /\ source'[d].id = 0
    <3> TAKE d \in AllDirs
    <3>1. source[d] \in Record /\ source[d].id = 0 /\ d \in Places /\ d # f
      BY <1>1, RecordsAreFiles DEF Places, ChangeOf
    <3> QED BY <1>1, <1>2, <3>1 DEF ChangeOf, Record
  <2>3. Dated(source)'
    <3> SUFFICES ASSUME NEW p \in Places, source'[p] # Gone
                 PROVE  source'[p].id <= changes + 1 /\ source'[p].time <= changes + 1
      BY <1>2 DEF Dated
    <3>1. source[p] # Gone => source[p] \in Record /\ source[p].id <= changes /\ source[p].time <= changes
      BY RecordsAreFiles DEF FolderInv, SourceTyped, Dated
    <3>2. CASE p = f  BY <1>1, <1>2, <3>1, <3>2 DEF ChangeOf, Record
    <3>3. CASE p = Parent[f]
      BY <1>1, <1>2, <3>1, <3>3, RecordsAreFiles DEF ChangeOf, Record
    <3>4. CASE p # f /\ p # Parent[f]
      BY <1>1, <1>2, <3>1, <3>4 DEF ChangeOf, Record
    <3> QED BY <3>2, <3>3, <3>4
  <2>4. source' \in Contents
    <3>1. source' \in [Places -> Record \cup {Gone}]  BY <1>2, <2>1
    <3> QED BY <2>2, <3>1 DEF Contents
  <2> QED BY <1>2, <2>3, <2>4 DEF SourceTyped, FolderInv
<1>4. WorkerTyped' /\ ManagerTyped' /\ Folder!Coherent' /\ Folder!StatusTrue'
  <2>1. WorkerTyped' /\ ManagerTyped'
    BY <1>2 DEF FolderInv, WorkerTyped, ManagerTyped
  <2>2. Folder!Coherent'
    BY <1>2 DEF FolderInv, Folder!Coherent, Folder!IsSnapshot
  <2>3. Folder!StatusTrue'  BY <1>2 DEF FolderInv, Folder!StatusTrue
  <2> QED BY <2>1, <2>2, <2>3
<1>5. Notes'
  <2>1. worker.pc \in ScanSteps \cup WriteSteps =>
            \A p \in Noted : worker.notes[p].time \in Nat /\ worker.notes[p].time <= changes
    <3>1. worker.notes \in Partial(Places, NoteType)
      BY DEF FolderInv, WorkerTyped
    <3>2. \A p \in Noted : worker.notes[p] \in NoteType
      BY <3>1, PartialValues DEF Noted
    <3> QED BY <3>2 DEF FolderInv, WorkerInv, Notes, NoteType
  <2>2. worker.pc \in ScanSteps \cup WriteSteps => \A p \in Noted : worker.notes[p].time <= changes + 1
    BY <1>2, <2>1
  <2> QED BY <1>2, <2>2 DEF FolderInv, WorkerInv, Notes, Noted, Depth
<1>6. Scanning' /\ Written' /\ Ended'
  <2>1. Noted' = Noted /\ Depth' = Depth /\ worker' = worker
    BY <1>2 DEF Noted, Depth
  <2>2. Scanning'
    BY <2>1 DEF FolderInv, WorkerInv, Scanning, Half, OnStack, Folder!Found, Folder!Top
  <2>3. Ended'  BY <2>1 DEF FolderInv, WorkerInv, Ended, Folder!IsSnapshot
  <2>4. \A E : Progress(E) => Progress(E)'
    BY <2>1 DEF Progress, Facts, Handled, Folder!Found, Folder!Top
  <2>5. Written'  BY <2>1, <2>4 DEF FolderInv, WorkerInv, Written
  <2> QED BY <2>2, <2>3, <2>5
<1>7. Scanned'
  <2> SUFFICES ASSUME worker.pc \in ScanSteps, NEW d \in AllDirs \cap Noted, Steady(d)'
               PROVE  (/\ \A p \in Folder!Found(d) :
                             source[p] # Gone /\ (~Half(p) => worker.notes[p].id = source[p].id)
                       /\ ~OnStack(d) /\ ~Half(d) => Folder!Children(d) \subseteq Folder!Found(d)
                       /\ \A i \in 1 .. Depth :
                             worker.stack[i].dir = d /\ (worker.pc = "open" => i # Depth) =>
                                 Folder!Children(d) \subseteq worker.stack[i].todo)'
    BY <1>2 DEF Scanned, Noted
  <2>1. Steady(d) /\ \A p \in Folder!Entries : Parent[p] = d =>
            (source'[p] = Gone <=> source[p] = Gone) /\ (source[p] # Gone => source'[p].id = source[p].id)
    BY SteadyChange
  <2>2. Folder!Children(d)' = Folder!Children(d)  BY <2>1 DEF Folder!Children
  <2>3. Folder!Found(d)' = Folder!Found(d) /\ OnStack(d)' = OnStack(d) /\ Depth' = Depth
        /\ \A p : Half(p)' = Half(p)
    BY <1>2 DEF Folder!Found, OnStack, Depth, Half
  <2>4. /\ \A p \in Folder!Found(d) :
               source[p] # Gone /\ (~Half(p) => worker.notes[p].id = source[p].id)
        /\ ~OnStack(d) /\ ~Half(d) => Folder!Children(d) \subseteq Folder!Found(d)
        /\ \A i \in 1 .. Depth :
               worker.stack[i].dir = d /\ (worker.pc = "open" => i # Depth) =>
                   Folder!Children(d) \subseteq worker.stack[i].todo
    BY <2>1 DEF FolderInv, WorkerInv, Scanned
  <2>5. \A p \in Folder!Found(d) : p \in Folder!Entries /\ Parent[p] = d
    <3>1. Noted \subseteq Places
      BY PartialValues DEF FolderInv, WorkerTyped, Noted
    <3> QED BY <3>1 DEF Folder!Found, Noted, Places, AllDirs, Folder!Entries
  <2> QED BY <1>2, <2>1, <2>2, <2>3, <2>4, <2>5
<1>8. Copying'
  <2> SUFFICES ASSUME worker.pc \in WriteSteps
               PROVE  (/\ worker.goal \in Contents /\ Dated(worker.goal)
                       /\ \A d \in AllDirs \cap Noted : Steady(d) => Facts(d)
                       /\ \A f_1 \in Files \cap Noted : Kept(f_1)
                       /\ worker.pc = "last" /\ source[worker.at] = worker.goal[worker.at] =>
                             Folder!Range(worker.data) = {worker.goal[worker.at].body})'
    BY <1>2 DEF Copying
  <2>1. Copying  BY DEF FolderInv, WorkerInv
  <2>2. Dated(worker.goal)'
    BY <1>2, <2>1 DEF Copying, Dated, Contents, Record
  <2>3. (\A d \in AllDirs \cap Noted : Steady(d) => Facts(d))'
    <3>1. \A d : Facts(d)' = Facts(d)  BY <1>2 DEF Facts, Noted
    <3>2. ASSUME NEW d \in AllDirs \cap Noted, Steady(d)' PROVE Steady(d)
      BY <3>2, SteadyChange
    <3> QED BY <1>2, <2>1, <3>1, <3>2 DEF Copying, Noted
  <2>4. (\A g \in Files \cap Noted : Kept(g))'  BY <1>2, KeptChange DEF Noted
  <2>5. worker.pc = "last" /\ source'[worker.at] = worker.goal[worker.at] =>
            Folder!Range(worker.data) = {worker.goal[worker.at].body}
    <3> SUFFICES ASSUME worker.pc = "last", source'[worker.at] = worker.goal[worker.at]
                 PROVE  source[worker.at] = worker.goal[worker.at]
      BY <2>1 DEF Copying
    <3>1. worker.at \in Files \cap Noted /\ worker.goal[worker.at] # Gone
      BY FileIsFact DEF FileSteps
    <3> QED BY <3>1, KeptChange
  <2> QED BY <1>2, <2>1, <2>2, <2>3, <2>4, <2>5 DEF Copying
<1> QED BY <1>3, <1>4, <1>5, <1>6, <1>7, <1>8 DEF FolderInv, WorkerInv
-----------------------------------------------------------------------------
LEMMA WorkerFacts ==
    ASSUME FolderInv, worker.pc \in ScanSteps \cup WriteSteps
    PROVE  /\ worker.stack \in Seq(StackFrame) /\ worker.stack # <<>> /\ Depth \in Nat \ {0}
           /\ Folder!Top = worker.stack[Depth] /\ Folder!Top \in StackFrame
           /\ Folder!Top.dir \in AllDirs \cap Noted
           /\ \A i \in 1 .. Depth : worker.stack[i] \in StackFrame
           /\ \A i \in 1 .. Depth : worker.stack[i].dir \in AllDirs \cap Noted
           /\ worker.notes \in Partial(Places, NoteType) /\ Noted \subseteq Places
           /\ \A p \in Noted : worker.notes[p] \in NoteType /\ worker.notes[p].time <= changes
           /\ Root \in Noted /\ Root \notin Folder!Entries
           /\ \A d : Folder!Found(d) \subseteq Folder!Entries
<1>1. worker.stack \in Seq(StackFrame) /\ worker.notes \in Partial(Places, NoteType)
  BY DEF FolderInv, WorkerTyped
<1>2. Noted \subseteq Places /\ \A p \in Noted : worker.notes[p] \in NoteType
  BY <1>1, PartialValues DEF Noted
<1>3. /\ Root \in Noted /\ worker.stack # <<>>
      /\ \A i \in 1 .. Depth : worker.stack[i].dir \in Noted
      /\ \A p \in Noted : worker.notes[p].time <= changes
  BY DEF FolderInv, WorkerInv, Notes
<1>4. Depth \in Nat \ {0} /\ Folder!Top = worker.stack[Depth] /\ Folder!Top \in StackFrame
  BY <1>1, <1>3, TopFacts
<1>5. \A i \in 1 .. Depth : worker.stack[i] \in StackFrame  BY <1>1 DEF Depth
<1>6. \A i \in 1 .. Depth : worker.stack[i].dir \in AllDirs
  BY <1>5 DEF StackFrame
<1>7. Depth \in 1 .. Depth  BY <1>4
<1>8. Root \notin Folder!Entries  BY FolderAssumption DEF Folder!Entries
<1>9. \A d : Folder!Found(d) \subseteq Folder!Entries
  BY <1>2 DEF Folder!Found, Noted, Places, AllDirs, Folder!Entries
<1> QED BY <1>1, <1>2, <1>3, <1>4, <1>5, <1>6, <1>7, <1>8, <1>9

LEMMA OpenStep ==
    ASSUME FolderInv, Folder!Open
    PROVE  FolderInv'
<1> DEFINE top == Folder!Top
           frame == [dir |-> top.dir, todo |-> Folder!Children(top.dir), done |-> top.done]
<1>1. worker.pc = "open" /\ worker.pc \in ScanSteps /\ Aside
  BY DEF Folder!Open, Folder!At, Folder!Becomes, ScanSteps, Aside
<1>2. top \in StackFrame /\ [top EXCEPT !.todo = Folder!Children(top.dir)] = frame
      /\ frame \in StackFrame
  <2>1. top \in [dir : AllDirs, todo : SUBSET Folder!Entries, done : SUBSET Folder!Entries]
    BY <1>1, WorkerFacts DEF StackFrame
  <2>2. Folder!Children(top.dir) \in SUBSET Folder!Entries
    BY DEF Folder!Children
  <2> QED BY <2>1, <2>2 DEF StackFrame
<1>3. WorkerAs("next", worker.at, Folder!WithTop(frame), worker.notes, worker.data, worker.copies,
               worker.goal)
  BY <1>2 DEF Folder!Open, Folder!Becomes, WorkerAs, FolderInv, WorkerTyped
<1>4. /\ Folder!WithTop(frame) \in Seq(StackFrame) /\ Len(Folder!WithTop(frame)) = Depth
      /\ Folder!WithTop(frame)[Depth] = frame
      /\ \A i \in 1 .. Depth - 1 : Folder!WithTop(frame)[i] = worker.stack[i]
  <2>1. worker.stack \in Seq(StackFrame) /\ worker.stack # <<>> /\ frame \in StackFrame
    BY <1>1, <1>2, WorkerFacts
  <2> HIDE DEF frame
  <2> QED BY <2>1, WithTopFacts
<1>5. /\ worker'.pc = "next" /\ Noted' = Noted /\ Depth' = Depth /\ worker'.notes = worker.notes
      /\ worker'.stack[Depth] = frame /\ worker'.copies = worker.copies
      /\ \A i \in 1 .. Depth - 1 : worker'.stack[i] = worker.stack[i]
      /\ worker'.stack # <<>>
  BY <1>1, <1>3, <1>4, WorkerFacts DEF WorkerAs, Noted, Depth
<1>6. \A i \in 1 .. Depth :
          worker'.stack[i].dir = worker.stack[i].dir /\ worker'.stack[i].done = worker.stack[i].done
  BY <1>1, <1>5, WorkerFacts
<1>7. /\ \A d : Folder!Found(d)' = Folder!Found(d) /\ OnStack(d)' = OnStack(d)
      /\ \A d : Folder!Children(d)' = Folder!Children(d)
      /\ \A p : ~Half(p)' /\ ~Half(p) /\ (Steady(p)' <=> Steady(p))
  BY <1>1, <1>5, <1>6 DEF Folder!Found, OnStack, Folder!Children, Half, Steady, Aside, Noted
<1>8. WorkerTyped'
  BY <1>3, <1>4 DEF WorkerTyped, WorkerAs, FolderInv, ScanSteps
<1>9. Notes'  BY <1>1, <1>5, <1>6 DEF FolderInv, WorkerInv, Notes, Aside
<1>10. Scanning'
  <2>1. Scanning /\ 1 \in 1 .. Depth
    BY <1>1, WorkerFacts DEF FolderInv, WorkerInv
  <2> QED BY <1>1, <1>5, <1>6, <1>7, <2>1 DEF Scanning
<1>11. Scanned'
  <2> SUFFICES ASSUME NEW d \in AllDirs \cap Noted, Steady(d)
               PROVE  (/\ \A p \in Folder!Found(d) : source[p] # Gone /\ worker.notes[p].id = source[p].id
                       /\ ~OnStack(d) => Folder!Children(d) \subseteq Folder!Found(d)
                       /\ \A i \in 1 .. Depth : worker.stack[i].dir = d =>
                             Folder!Children(d) \subseteq worker.stack[i].todo)'
    BY <1>5, <1>7 DEF Scanned
  <2>1. /\ \A p \in Folder!Found(d) : source[p] # Gone /\ worker.notes[p].id = source[p].id
        /\ ~OnStack(d) => Folder!Children(d) \subseteq Folder!Found(d)
        /\ \A i \in 1 .. Depth : worker.stack[i].dir = d /\ i # Depth =>
              Folder!Children(d) \subseteq worker.stack[i].todo
    BY <1>1, <1>7 DEF FolderInv, WorkerInv, Scanned
  <2>2. \A i \in 1 .. Depth : worker.stack[i].dir = d => Folder!Children(d) \subseteq worker'.stack[i].todo
    BY <1>1, <1>5, <2>1, WorkerFacts
  <2> QED BY <1>1, <1>5, <1>6, <1>7, <2>1, <2>2 DEF Aside
<1>12. Copying' /\ Written' /\ Ended'
  BY <1>5 DEF Copying, Written, Ended, WriteSteps, FileSteps
<1> QED BY <1>1, <1>8, <1>9, <1>10, <1>11, <1>12, WorkerStep DEF WorkerInv

LEMMA CaptureTimeStep ==
    ASSUME FolderInv, Folder!CaptureTime
    PROVE  FolderInv'
<1> DEFINE top == Folder!Top
<1>1. worker.pc = "next" /\ worker.pc \in ScanSteps /\ Aside
  BY DEF Folder!CaptureTime, Folder!At, Folder!Becomes, ScanSteps, Aside
<1>2. PICK p \in Folder!Children(top.dir) \ top.done :
          worker' = [worker EXCEPT
              !.pc = "identity", !.at = p,
              !.notes = Folder!With(worker.notes, p, [id |-> -1, time |-> source[p].time]),
              !.stack = Folder!WithTop([top EXCEPT !.done = top.done \cup {p}])]
  BY DEF Folder!CaptureTime, Folder!Becomes
<1> DEFINE frame == [dir |-> top.dir, todo |-> top.todo, done |-> top.done \cup {p}]
           note == [id |-> -1, time |-> source[p].time]
<1>3. /\ p \in Folder!Entries /\ p \in Places /\ p # Root /\ Parent[p] = top.dir
      /\ source[p] # Gone /\ source[p] \in Record /\ source[p].time <= changes
  BY <1>2, RecordsAreFiles, FolderAssumption
     DEF Folder!Children, Folder!Entries, Places, AllDirs, FolderInv, SourceTyped, Dated
<1>4. Scanning /\ top.done = Folder!Found(top.dir)
  <2>1. Scanning /\ Depth \in 1 .. Depth /\ top = worker.stack[Depth]
    BY <1>1, WorkerFacts DEF FolderInv, WorkerInv
  <2> QED BY <1>1, <2>1 DEF Scanning
<1>5. p \notin Noted  BY <1>2, <1>3, <1>4 DEF Folder!Found, Noted
<1>6. [top EXCEPT !.done = top.done \cup {p}] = frame /\ frame \in StackFrame
  <2>1. top \in [dir : AllDirs, todo : SUBSET Folder!Entries, done : SUBSET Folder!Entries]
    BY <1>1, WorkerFacts DEF StackFrame
  <2> QED BY <1>3, <2>1 DEF StackFrame
<1>7. /\ Folder!WithTop(frame) \in Seq(StackFrame) /\ Len(Folder!WithTop(frame)) = Depth
      /\ Folder!WithTop(frame)[Depth] = frame
      /\ \A i \in 1 .. Depth - 1 : Folder!WithTop(frame)[i] = worker.stack[i]
  <2>1. worker.stack \in Seq(StackFrame) /\ worker.stack # <<>> /\ frame \in StackFrame
    BY <1>1, <1>6, WorkerFacts
  <2> HIDE DEF frame
  <2> QED BY <2>1, WithTopFacts
<1> DEFINE notes == Folder!With(worker.notes, p, note)
<1>8. /\ notes \in Partial(Places, NoteType) /\ DOMAIN notes = Noted \cup {p}
      /\ notes[p] = note /\ \A y \in Noted : notes[y] = worker.notes[y]
  <2>1. worker.notes \in Partial(Places, NoteType) /\ note \in NoteType /\ p \in Places
    BY <1>1, <1>3, WorkerFacts DEF NoteType, Record
  <2> HIDE DEF note
  <2>2. notes \in Partial(Places, NoteType)  BY <2>1, PartialMore
  <2>3. DOMAIN notes = Noted \cup {p}  BY WithFacts DEF Noted
  <2>4. notes[p] = note  BY DEF Folder!With
  <2>5. \A y \in Noted : notes[y] = worker.notes[y]
    BY <1>5 DEF Folder!With, Noted
  <2> QED BY <2>2, <2>3, <2>4, <2>5
<1>9. WorkerAs("identity", p, Folder!WithTop(frame), notes, worker.data,
               worker.copies, worker.goal)
  BY <1>2, <1>6 DEF WorkerAs, FolderInv, WorkerTyped
<1>10. /\ worker'.pc = "identity" /\ worker'.at = p /\ Noted' = Noted \cup {p} /\ Depth' = Depth
       /\ worker'.notes[p] = note /\ \A y \in Noted : worker'.notes[y] = worker.notes[y]
       /\ worker'.stack[Depth] = frame /\ worker'.copies = worker.copies
       /\ \A i \in 1 .. Depth - 1 : worker'.stack[i] = worker.stack[i]
       /\ worker'.stack # <<>>
  <2>1. Len(worker'.stack) # 0  BY <1>1, <1>7, <1>9, WorkerFacts DEF WorkerAs
  <2> HIDE DEF frame, note
  <2> QED BY <1>7, <1>8, <1>9, <2>1 DEF WorkerAs, Noted, Depth
<1>11. \A i \in 1 .. Depth :
          /\ worker'.stack[i].dir = worker.stack[i].dir /\ worker'.stack[i].todo = worker.stack[i].todo
          /\ worker'.stack[i].done = worker.stack[i].done \cup (IF i = Depth THEN {p} ELSE {})
  BY <1>1, <1>10, WorkerFacts
<1>12. /\ \A d : Folder!Found(d)' = Folder!Found(d) \cup (IF d = top.dir THEN {p} ELSE {})
       /\ \A d : OnStack(d)' = OnStack(d) /\ Folder!Children(d)' = Folder!Children(d)
       /\ \A q : (Half(q)' <=> q = p) /\ ~Half(q)
       /\ \A d \in Noted : Steady(d)' <=> Steady(d)
  <2>1. \A d : Folder!Found(d)' = Folder!Found(d) \cup (IF d = top.dir THEN {p} ELSE {})
    BY <1>3, <1>10 DEF Folder!Found, Noted
  <2>2. \A d : OnStack(d)' = OnStack(d)  BY <1>10, <1>11 DEF OnStack
  <2>3. \A d : Folder!Children(d)' = Folder!Children(d)
    BY <1>1 DEF Folder!Children, Aside
  <2>4. \A q : (Half(q)' <=> q = p) /\ ~Half(q)  BY <1>1, <1>10 DEF Half
  <2>5. \A d \in Noted : Steady(d)' <=> Steady(d)
    BY <1>1, <1>10 DEF Steady, Aside
  <2> QED BY <2>1, <2>2, <2>3, <2>4, <2>5
<1>13. WorkerTyped'
  <2> HIDE DEF frame, note
  <2> QED BY <1>3, <1>7, <1>8, <1>9 DEF WorkerTyped, WorkerAs, FolderInv, ScanSteps
<1>14. top.dir \in Noted /\ Parent[p] \in Noted /\ Notes
  BY <1>1, <1>3, WorkerFacts DEF FolderInv, WorkerInv
<1>15. Notes'
  <2>1. \A q \in Noted' : worker'.notes[q].time <= changes
    BY <1>1, <1>3, <1>10, <1>14 DEF Notes
  <2>2. \A q \in Noted' \ {Root} : Parent[q] \in Noted'
    BY <1>1, <1>10, <1>14 DEF Notes
  <2> QED BY <1>1, <1>10, <1>11, <1>14, <2>1, <2>2 DEF Notes, Aside
<1>16. Scanning'
  <2>1. 1 \in 1 .. Depth /\ Depth \in 1 .. Depth  BY <1>1, WorkerFacts
  <2>2. (worker.stack[1].dir = Root)' /\ (worker.copies = <<>>)'
    BY <1>1, <1>4, <1>10, <1>11, <2>1 DEF Scanning
  <2>3. (\A i, j \in 1 .. Depth : worker.stack[i].dir = worker.stack[j].dir => i = j)'
    BY <1>1, <1>4, <1>10, <1>11 DEF Scanning
  <2>4. (\A i \in 1 .. Depth : worker.stack[i].done = Folder!Found(worker.stack[i].dir))'
    <3> SUFFICES ASSUME NEW i \in 1 .. Depth
                 PROVE  worker'.stack[i].done = Folder!Found(worker.stack[i].dir)'
      BY <1>10
    <3>1. worker.stack[i].dir = top.dir <=> i = Depth
      BY <1>1, <1>4, <2>1, WorkerFacts DEF Scanning
    <3>2. worker.stack[i].done = Folder!Found(worker.stack[i].dir)
      BY <1>1, <1>4 DEF Scanning
    <3> QED BY <1>11, <1>12, <3>1, <3>2
  <2>5. p # Root /\ ~OnStack(p)' /\ Folder!Found(p)' = {} /\ Parent[p] = Folder!Top.dir'
    <3>1. ~OnStack(p)  BY <1>5, <1>14, <1>1 DEF OnStack, Notes
    <3>2. p # top.dir /\ Folder!Found(p) = {}
      BY <1>1, <1>5, <1>14 DEF Notes, Folder!Found, Noted
    <3>3. Folder!Top' = worker'.stack[Depth]  BY <1>10 DEF Folder!Top, Depth
    <3> QED BY <1>3, <1>10, <1>12, <3>1, <3>2, <3>3
  <2> QED BY <1>10, <1>12, <2>2, <2>3, <2>4, <2>5 DEF Scanning
<1>17. Scanned'
  <2> SUFFICES ASSUME NEW d \in AllDirs \cap (Noted \cup {p}), Steady(d)'
               PROVE  (/\ \A q \in Folder!Found(d) :
                             source[q] # Gone /\ (~Half(q) => worker.notes[q].id = source[q].id)
                       /\ ~OnStack(d) /\ ~Half(d) => Folder!Children(d) \subseteq Folder!Found(d)
                       /\ \A i \in 1 .. Depth : worker.stack[i].dir = d =>
                             Folder!Children(d) \subseteq worker.stack[i].todo)'
    BY <1>10 DEF Scanned
  <2>1. CASE d = p
    <3>1. Half(d)' /\ Folder!Found(d)' = {} /\ ~OnStack(d)'
      BY <1>10, <1>12, <1>16, <2>1 DEF Scanning, ScanSteps
    <3> QED BY <3>1 DEF OnStack
  <2>2. CASE d # p
    <3>1. d \in AllDirs \cap Noted /\ Steady(d)  BY <1>12, <2>2
    <3>2. /\ \A q \in Folder!Found(d) : source[q] # Gone /\ worker.notes[q].id = source[q].id
          /\ ~OnStack(d) => Folder!Children(d) \subseteq Folder!Found(d)
          /\ \A i \in 1 .. Depth : worker.stack[i].dir = d =>
                Folder!Children(d) \subseteq worker.stack[i].todo
      BY <1>1, <1>12, <3>1 DEF FolderInv, WorkerInv, Scanned
    <3>3. \A q \in Folder!Found(d)' :
              source'[q] # Gone /\ (~Half(q)' => worker'.notes[q].id = source'[q].id)
      BY <1>1, <1>3, <1>10, <1>12, <3>2 DEF Aside, Folder!Found, Noted
    <3>4. \A i \in 1 .. Depth' : worker'.stack[i].dir = d =>
              Folder!Children(d)' \subseteq worker'.stack[i].todo
      BY <1>10, <1>11, <1>12, <3>2
    <3> QED BY <1>12, <3>2, <3>3, <3>4
  <2> QED BY <2>1, <2>2
<1>18. Copying' /\ Written' /\ Ended'
  BY <1>10 DEF Copying, Written, Ended, WriteSteps, FileSteps
<1> QED BY <1>1, <1>13, <1>15, <1>16, <1>17, <1>18, WorkerStep DEF WorkerInv
LEMMA CaptureIdentityStep ==
    ASSUME FolderInv, Folder!CaptureIdentity
    PROVE  FolderInv'
<1> DEFINE p == worker.at
           note == [id |-> source[p].id, time |-> worker.notes[p].time]
           notes == [worker.notes EXCEPT ![p].id = source[p].id]
<1>1. worker.pc = "identity" /\ worker.pc \in ScanSteps
  BY DEF Folder!CaptureIdentity, Folder!At, ScanSteps
<1>2. CASE source[p] = Gone  BY <1>2, FailStep DEF Folder!CaptureIdentity
<1>3. CASE source[p] # Gone
  <2> DEFINE frame == [dir |-> p, todo |-> {}, done |-> {}]
  <2>1. /\ p \in Noted /\ p # Root /\ Half(p) /\ ~OnStack(p) /\ Folder!Found(p) = {}
        /\ p \in Folder!Entries /\ p \in Places
    <3>1. Scanning /\ p \in Noted /\ Half(p)
      BY <1>1 DEF FolderInv, WorkerInv, Scanning, Half
    <3>2. p # Root /\ ~OnStack(p) /\ Folder!Found(p) = {}
      BY <1>1, <3>1 DEF Scanning
    <3>3. p \in Places  BY <1>1, <3>1, WorkerFacts
    <3> QED BY <3>1, <3>2, <3>3 DEF Places, AllDirs, Folder!Entries
  <2>2. source[p] \in Record /\ worker.notes[p] \in NoteType /\ worker.notes[p].time <= changes
    BY <1>1, <1>3, <2>1, RecordsAreFiles, WorkerFacts
  <2>3. note \in NoteType /\ worker.notes \in [Noted -> NoteType]
    BY SMTT(40), <1>1, <2>2, WorkerFacts, PartialValues DEF NoteType, Record, Noted
  <2>4. notes = [y \in Noted |-> IF y = p THEN note ELSE worker.notes[y]]
    BY <2>1, <2>3 DEF NoteType
  <2>5. DOMAIN notes = Noted /\ notes[p] = note /\ \A y \in Noted : y # p => notes[y] = worker.notes[y]
    BY <2>1, <2>4
  <2>6. notes \in Partial(Places, NoteType)
    <3>1. Noted \in SUBSET Places  BY <1>1, WorkerFacts
    <3>2. notes \in [Noted -> NoteType]  BY <2>3, <2>4
    <3> QED BY <3>1, <3>2 DEF Partial
  <2>7. \/ p \in Dirs /\ WorkerAs("open", p, Folder!Down(p), notes, worker.data, worker.copies, worker.goal)
        \/ p \in Files /\ p \notin Dirs
             /\ WorkerAs("next", p, worker.stack, notes, worker.data, worker.copies, worker.goal)
    BY <1>3, <2>1 DEF Folder!CaptureIdentity, Folder!Becomes, WorkerAs, FolderInv, WorkerTyped, Folder!Entries
  <2>8. Aside  BY <1>3 DEF Folder!CaptureIdentity, Folder!Becomes, Aside
  <2>9. p \in Dirs => frame \in StackFrame  BY DEF StackFrame, AllDirs
  <2>10. p \in Dirs =>
           /\ Folder!Down(p) \in Seq(StackFrame) /\ Len(Folder!Down(p)) = Depth + 1
           /\ Folder!Down(p)[Depth + 1] = frame
           /\ \A i \in 1 .. Depth : Folder!Down(p)[i] = worker.stack[i]
    <3> HIDE DEF frame
    <3>1. p \in Dirs => frame \in StackFrame /\ worker.stack \in Seq(StackFrame)
      BY <1>1, <2>9, WorkerFacts
    <3>2. Folder!Down(p) = Append(worker.stack, frame)
      BY DEF Folder!Down, frame
    <3> QED BY <3>1, <3>2, PushFacts DEF Depth
  <2> HIDE DEF notes, frame
  <2>11. /\ worker'.notes = notes /\ Noted' = Noted /\ worker'.copies = worker.copies
         /\ worker'.stack # <<>> /\ Depth \in Nat \ {0}
         /\ \A i \in 1 .. Depth : worker'.stack[i] = worker.stack[i]
         /\ \A i \in 1 .. Depth' : i <= Depth \/ (p \in Dirs /\ i = Depth')
         /\ \/ p \in Dirs /\ worker'.pc = "open" /\ Depth' = Depth + 1 /\ worker'.stack[Depth + 1] = frame
            \/ p \notin Dirs /\ worker'.pc = "next" /\ Depth' = Depth
    <3>1. worker.stack # <<>> /\ Depth \in Nat \ {0}  BY <1>1, WorkerFacts
    <3>2. CASE p \in Dirs /\ WorkerAs("open", p, Folder!Down(p), notes, worker.data, worker.copies, worker.goal)
      <4>1. /\ worker'.stack = Folder!Down(p) /\ worker'.pc = "open"
            /\ worker'.notes = notes /\ worker'.copies = worker.copies
        BY <3>2 DEF WorkerAs
      <4>2. Depth' = Depth + 1 /\ worker'.stack # <<>>
        BY <2>10, <3>1, <3>2, <4>1 DEF Depth
      <4>3. worker'.stack[Depth + 1] = frame /\ \A i \in 1 .. Depth : worker'.stack[i] = worker.stack[i]
        BY <2>10, <3>2, <4>1
      <4>4. Noted' = Noted  BY <2>5, <4>1 DEF Noted
      <4>5. \A i \in 1 .. Depth' : i <= Depth \/ (p \in Dirs /\ i = Depth')
        BY <3>1, <3>2, <4>2
      <4> QED BY <3>1, <3>2, <4>1, <4>2, <4>3, <4>4, <4>5
    <3>3. CASE p \notin Dirs /\ WorkerAs("next", p, worker.stack, notes, worker.data, worker.copies, worker.goal)
      <4>1. /\ worker'.stack = worker.stack /\ worker'.pc = "next"
            /\ worker'.notes = notes /\ worker'.copies = worker.copies
        BY <3>3 DEF WorkerAs
      <4>2. Depth' = Depth  BY <4>1 DEF Depth
      <4>3. Noted' = Noted  BY <2>5, <4>1 DEF Noted
      <4>4. \A i \in 1 .. Depth' : i <= Depth  BY <3>1, <4>2
      <4> QED BY <3>1, <3>3, <4>1, <4>2, <4>3, <4>4
    <3> QED BY <2>7, <3>2, <3>3
  <2>12. /\ \A d : Folder!Found(d)' = Folder!Found(d) /\ Folder!Children(d)' = Folder!Children(d)
         /\ \A d : d # p => (OnStack(d)' <=> OnStack(d))
         /\ \A q : ~Half(q)' /\ (Half(q) <=> q = p)
         /\ \A d \in Noted : Steady(d)' <=> Steady(d)
    <3>1. \A d : Folder!Found(d)' = Folder!Found(d) /\ Folder!Children(d)' = Folder!Children(d)
      BY <2>8, <2>11 DEF Folder!Found, Folder!Children, Aside, Noted
    <3>2. ASSUME NEW d, d # p
          PROVE  OnStack(d)' <=> OnStack(d)
      <4>1. \A i \in 1 .. Depth' : i \notin 1 .. Depth => worker'.stack[i].dir = p
        BY <2>11 DEF frame
      <4>2. \A i \in 1 .. Depth : i \in 1 .. Depth'  BY <2>11
      <4> QED BY <2>11, <3>2, <4>1, <4>2 DEF OnStack
    <3>3. \A q : ~Half(q)' /\ (Half(q) <=> q = p)  BY <1>1, <2>11 DEF Half
    <3>4. \A d \in Noted : worker'.notes[d].time = worker.notes[d].time
      BY <2>5, <2>11
    <3>5. \A d \in Noted : Steady(d)' <=> Steady(d)
      BY <2>8, <3>4 DEF Steady, Aside
    <3> QED BY <3>1, <3>2, <3>3, <3>5
  <2>13. WorkerTyped'
    BY <2>6, <2>7, <2>10, <2>1 DEF WorkerTyped, WorkerAs, FolderInv, ScanSteps
  <2>14. Notes'
    <3>1. \A q \in Noted : worker'.notes[q].time <= changes'
      BY <1>1, <2>2, <2>5, <2>8, <2>11, WorkerFacts DEF Aside
    <3>2. \A i \in 1 .. Depth' : worker'.stack[i].dir \in Noted
      BY <1>1, <2>1, <2>11, WorkerFacts DEF frame
    <3>3. Root \in Noted /\ \A q \in Noted \ {Root} : Parent[q] \in Noted
      BY <1>1 DEF FolderInv, WorkerInv, Notes
    <3> QED BY <2>11, <3>1, <3>2, <3>3 DEF Notes
  <2>15. Scanning'
    <3>1. Scanning /\ 1 \in 1 .. Depth
      BY <1>1, <2>11 DEF FolderInv, WorkerInv
    <3>2. (worker.stack[1].dir = Root)' /\ (worker.copies = <<>>)'
      BY <1>1, <2>11, <3>1 DEF Scanning
    <3>3. \A i \in 1 .. Depth : worker.stack[i].dir # p  BY <2>1 DEF OnStack
    <3>4. (\A i, j \in 1 .. Depth : worker.stack[i].dir = worker.stack[j].dir => i = j)'
      <4>1. \A i, j \in 1 .. Depth : worker.stack[i].dir = worker.stack[j].dir => i = j
        BY <1>1, <3>1 DEF Scanning
      <4>2. \A i \in 1 .. Depth' : i \notin 1 .. Depth => worker'.stack[i].dir = p /\ i = Depth'
        BY <2>11 DEF frame
      <4> QED BY <2>11, <3>3, <4>1, <4>2
    <3>5. (\A i \in 1 .. Depth : worker.stack[i].done = Folder!Found(worker.stack[i].dir))'
      <4>1. \A i \in 1 .. Depth : worker.stack[i].done = Folder!Found(worker.stack[i].dir)
        BY <1>1, <3>1 DEF Scanning
      <4>2. \A i \in 1 .. Depth' : i \notin 1 .. Depth =>
                worker'.stack[i].dir = p /\ worker'.stack[i].done = {}
        BY <2>11 DEF frame
      <4>3. \A i \in 1 .. Depth' : i \in 1 .. Depth =>
                worker'.stack[i].done = Folder!Found(worker'.stack[i].dir)
        BY <2>11, <4>1
      <4> QED BY <2>1, <2>12, <4>2, <4>3
    <3> QED BY <2>11, <2>12, <3>2, <3>4, <3>5 DEF Scanning
  <2>16. Scanned'
    <3> SUFFICES ASSUME NEW d \in AllDirs \cap Noted, Steady(d)
                 PROVE  (/\ \A q \in Folder!Found(d) :
                               source[q] # Gone /\ worker.notes[q].id = source[q].id
                         /\ ~OnStack(d) => Folder!Children(d) \subseteq Folder!Found(d)
                         /\ \A i \in 1 .. Depth :
                               worker.stack[i].dir = d /\ (worker.pc = "open" => i # Depth) =>
                                   Folder!Children(d) \subseteq worker.stack[i].todo)'
      BY <2>11, <2>12 DEF Scanned
    <3>1. /\ \A q \in Folder!Found(d) :
                source[q] # Gone /\ (q # p => worker.notes[q].id = source[q].id)
          /\ ~OnStack(d) /\ d # p => Folder!Children(d) \subseteq Folder!Found(d)
          /\ \A i \in 1 .. Depth : worker.stack[i].dir = d =>
                Folder!Children(d) \subseteq worker.stack[i].todo
      BY <1>1, <2>12 DEF FolderInv, WorkerInv, Scanned
    <3>2. \A q \in Folder!Found(d)' : source'[q] # Gone /\ worker'.notes[q].id = source'[q].id
      <4>1. \A q \in Folder!Found(d) : q \in Noted  BY DEF Folder!Found, Noted
      <4> QED BY <2>5, <2>8, <2>11, <2>12, <3>1, <4>1 DEF Aside
    <3>3. ~OnStack(d)' => Folder!Children(d)' \subseteq Folder!Found(d)'
      <4>1. CASE d # p  BY <2>12, <3>1, <4>1
      <4>2. CASE d = p
        <5>1. p \in Dirs
          BY <2>1, <4>2, FolderAssumption DEF AllDirs, Folder!Entries
        <5>2. OnStack(d)'  BY <2>11, <4>2, <5>1 DEF OnStack, frame
        <5> QED BY <5>2
      <4> QED BY <4>1, <4>2
    <3>4. \A i \in 1 .. Depth' : worker'.stack[i].dir = d /\ (worker'.pc = "open" => i # Depth') =>
              Folder!Children(d)' \subseteq worker'.stack[i].todo
      <4>1. \A i \in 1 .. Depth' : (worker'.pc = "open" => i # Depth') => i \in 1 .. Depth
        BY <2>11
      <4> QED BY <2>11, <2>12, <3>1, <4>1
    <3> QED BY <3>2, <3>3, <3>4
  <2>17. Copying' /\ Written' /\ Ended'
    BY <2>11 DEF Copying, Written, Ended, WriteSteps, FileSteps
  <2> QED BY <2>8, <2>13, <2>14, <2>15, <2>16, <2>17, WorkerStep DEF WorkerInv
<1> QED BY <1>2, <1>3
LEMMA EndOfDirectory ==
    ASSUME FolderInv, Folder!Scanned
    PROVE  /\ worker.pc = "next" /\ worker.pc \in ScanSteps /\ Aside
           /\ \A p : ~Half(p)
           /\ \A i \in 1 .. Depth : worker.stack[i].dir = Folder!Top.dir => i = Depth
           /\ \A d \in AllDirs \cap Noted : Steady(d) =>
                 /\ \A p \in Folder!Found(d) : source[p] # Gone /\ worker.notes[p].id = source[p].id
                 /\ ~OnStack(d) \/ d = Folder!Top.dir => Folder!Children(d) \subseteq Folder!Found(d)
<1>1. worker.pc = "next" /\ worker.pc \in ScanSteps /\ Aside /\ \A p : ~Half(p)
  BY DEF Folder!Scanned, Folder!At, Folder!Becomes, ScanSteps, Aside, Half
<1>2. /\ Depth \in 1 .. Depth /\ Folder!Top = worker.stack[Depth]
      /\ Scanning /\ Scanned
  BY <1>1, WorkerFacts DEF FolderInv, WorkerInv
<1>3. \A i \in 1 .. Depth : worker.stack[i].dir = Folder!Top.dir => i = Depth
  BY <1>1, <1>2 DEF Scanning
<1>4. Folder!Top.done = Folder!Found(Folder!Top.dir)
  BY <1>1, <1>2 DEF Scanning
<1>5. ASSUME NEW d \in AllDirs \cap Noted, Steady(d)
      PROVE  /\ \A p \in Folder!Found(d) : source[p] # Gone /\ worker.notes[p].id = source[p].id
             /\ ~OnStack(d) \/ d = Folder!Top.dir => Folder!Children(d) \subseteq Folder!Found(d)
  <2>1. /\ \A p \in Folder!Found(d) : source[p] # Gone /\ worker.notes[p].id = source[p].id
        /\ ~OnStack(d) => Folder!Children(d) \subseteq Folder!Found(d)
        /\ \A i \in 1 .. Depth : worker.stack[i].dir = d =>
              Folder!Children(d) \subseteq worker.stack[i].todo
    BY <1>1, <1>2, <1>5 DEF Scanned
  <2>2. d = Folder!Top.dir => Folder!Children(d) \subseteq Folder!Found(d)
    BY <1>2, <1>4, <2>1 DEF Folder!Scanned
  <2> QED BY <2>1, <2>2
<1> QED BY <1>1, <1>3, <1>5

LEMMA ScannedBelow ==
    ASSUME FolderInv, Folder!Scanned, Len(worker.stack) > 1
    PROVE  FolderInv'
<1> DEFINE top == Folder!Top
           rest == SubSeq(worker.stack, 1, Len(worker.stack) - 1)
<1>1. worker.pc = "next" /\ worker.pc \in ScanSteps /\ Aside /\ \A p : ~Half(p)
  BY EndOfDirectory
<1>2. WorkerAs("next", worker.at, rest, worker.notes, worker.data, worker.copies, worker.goal)
  BY <1>1 DEF Folder!Scanned, Folder!Becomes, WorkerAs, FolderInv, WorkerTyped
<1>3. /\ rest \in Seq(StackFrame) /\ Len(rest) = Depth - 1
      /\ \A i \in 1 .. Depth - 1 : rest[i] = worker.stack[i]
  BY <1>1, WorkerFacts, PopFacts DEF Depth
<1> HIDE DEF rest
<1>4. /\ worker'.pc = "next" /\ worker'.notes = worker.notes /\ Noted' = Noted
      /\ worker'.copies = worker.copies /\ worker'.stack = rest
  BY <1>2 DEF WorkerAs, Noted
<1>5. /\ Depth \in Nat /\ Depth > 1 /\ Depth' = Depth - 1 /\ worker'.stack # <<>>
      /\ 1 .. Depth' \subseteq 1 .. Depth /\ Depth \notin 1 .. Depth' /\ 1 \in 1 .. Depth'
      /\ \A i \in 1 .. Depth : i # Depth => i \in 1 .. Depth'
      /\ \A i \in 1 .. Depth' : worker'.stack[i] = worker.stack[i]
  BY <1>1, <1>3, <1>4, WorkerFacts DEF Depth
<1>6. /\ \A d : Folder!Found(d)' = Folder!Found(d) /\ Folder!Children(d)' = Folder!Children(d)
      /\ \A d : OnStack(d) => OnStack(d)' \/ d = top.dir
      /\ \A q : ~Half(q)'
      /\ \A d : Steady(d)' <=> Steady(d)
  <2>1. \A d : OnStack(d) => OnStack(d)' \/ d = top.dir
    BY <1>1, <1>5, WorkerFacts DEF OnStack
  <2>2. \A q : ~Half(q)'  BY <1>4 DEF Half
  <2> QED BY <1>1, <1>4, <2>1, <2>2 DEF Folder!Found, Folder!Children, Aside, Noted, Steady
<1>7. WorkerTyped'
  BY <1>2, <1>3 DEF WorkerTyped, WorkerAs, FolderInv, ScanSteps
<1>8. Notes'  BY <1>1, <1>4, <1>5 DEF FolderInv, WorkerInv, Notes, Aside
<1>9. Scanning'
  <2>1. Scanning  BY DEF FolderInv, WorkerInv
  <2> QED BY <1>1, <1>4, <1>5, <1>6, <2>1 DEF Scanning
<1>10. Scanned'
  <2> SUFFICES ASSUME NEW d \in AllDirs \cap Noted, Steady(d)
               PROVE  (/\ \A q \in Folder!Found(d) : source[q] # Gone /\ worker.notes[q].id = source[q].id
                       /\ ~OnStack(d) => Folder!Children(d) \subseteq Folder!Found(d)
                       /\ \A i \in 1 .. Depth : worker.stack[i].dir = d =>
                             Folder!Children(d) \subseteq worker.stack[i].todo)'
    BY <1>4, <1>6 DEF Scanned
  <2>1. /\ \A q \in Folder!Found(d) : source[q] # Gone /\ worker.notes[q].id = source[q].id
        /\ ~OnStack(d) \/ d = top.dir => Folder!Children(d) \subseteq Folder!Found(d)
    BY EndOfDirectory
  <2>2. \A i \in 1 .. Depth : worker.stack[i].dir = d =>
            Folder!Children(d) \subseteq worker.stack[i].todo
    BY <1>1 DEF FolderInv, WorkerInv, Scanned
  <2> QED BY <1>1, <1>4, <1>5, <1>6, <2>1, <2>2 DEF Aside
<1>11. Copying' /\ Written' /\ Ended'
  BY <1>4 DEF Copying, Written, Ended, WriteSteps, FileSteps
<1> QED BY <1>1, <1>7, <1>8, <1>9, <1>10, <1>11, WorkerStep DEF WorkerInv

LEMMA ScannedRoot ==
    ASSUME FolderInv, Folder!Scanned, Len(worker.stack) = 1
    PROVE  FolderInv'
<1>1. /\ worker.pc = "next" /\ worker.pc \in ScanSteps /\ Aside /\ \A p : ~Half(p)
      /\ Scanning /\ Depth = 1 /\ Folder!Top = worker.stack[1]
  BY EndOfDirectory, WorkerFacts DEF FolderInv, WorkerInv, Depth
<1>2. WorkerAs("enter", worker.at, worker.stack, worker.notes, worker.data, worker.copies, source)
  <2>1. worker' = [worker EXCEPT !.pc = "enter", !.goal = source]
    BY <1>1 DEF Folder!Scanned, Folder!Becomes, Depth
  <2> QED BY <2>1 DEF WorkerAs, FolderInv, WorkerTyped
<1>3. /\ worker'.pc = "enter" /\ worker'.notes = worker.notes /\ Noted' = Noted
      /\ worker'.copies = <<>> /\ worker'.stack = worker.stack /\ worker'.goal = source
      /\ Depth' = 1 /\ worker'.stack[1].dir = Root /\ Folder!Top' = worker'.stack[1]
  BY <1>1, <1>2 DEF WorkerAs, Noted, Scanning, Depth, Folder!Top
<1>4. Folder!Top.dir = Root /\ \A d : OnStack(d) <=> d = Root
  BY <1>1 DEF OnStack, Scanning
<1>5. WorkerTyped'
  BY <1>2 DEF WorkerTyped, WorkerAs, FolderInv, SourceTyped, WriteSteps
<1>6. Notes'
  BY <1>1, <1>2 DEF FolderInv, WorkerInv, Notes, Aside, WorkerAs, Noted, Depth
<1>7. Scanning' /\ Scanned' /\ Ended'
  BY <1>3 DEF Scanning, Scanned, Ended, ScanSteps
<1>8. Copying'
  <2>1. ASSUME NEW d \in AllDirs \cap Noted, Steady(d)
        PROVE  Facts(d)'
    <3>1. /\ \A p \in Folder!Found(d) : source[p] # Gone /\ worker.notes[p].id = source[p].id
          /\ Folder!Children(d) \subseteq Folder!Found(d)
      BY <1>4, <2>1, EndOfDirectory
    <3>2. Root \notin Folder!Entries  BY FolderAssumption DEF Folder!Entries
    <3> QED BY <1>1, <1>3, <3>1, <3>2 DEF Facts, Folder!Found, Folder!Children, Noted, Aside
  <2>2. \A d : Steady(d)' <=> Steady(d)  BY <1>1, <1>3 DEF Steady, Aside
  <2>3. \A f : Kept(f)'  BY <1>1, <1>3 DEF Kept, Aside
  <2>4. worker'.goal \in Contents /\ Dated(worker.goal)'
    BY <1>1, <1>3 DEF FolderInv, SourceTyped, Dated, Aside
  <2> QED BY <1>3, <2>1, <2>2, <2>3, <2>4 DEF Copying
<1>9. Written'
  <2>1. Progress({})'
    <3>1. DOMAIN <<>> = {} /\ \A i \in 1 .. 1 : i = 1  OBVIOUS
    <3> QED BY <1>3, <3>1 DEF Progress, FileSteps
  <2>2. {} \in SUBSET (AllDirs \cap Noted')  OBVIOUS
  <2> QED BY <2>1, <2>2 DEF Written
<1> QED BY <1>1, <1>5, <1>6, <1>7, <1>8, <1>9, WorkerStep DEF WorkerInv

LEMMA ScannedStep ==
    ASSUME FolderInv, Folder!Scanned
    PROVE  FolderInv'
<1>1. worker.pc \in ScanSteps  BY EndOfDirectory
<1>2. Depth \in Nat \ {0}  BY <1>1, WorkerFacts
<1>3. Depth > 1 \/ Depth = 1  BY <1>2
<1> QED BY <1>3, ScannedBelow, ScannedRoot DEF Depth
-----------------------------------------------------------------------------
LEMMA WriteFacts ==
    ASSUME FolderInv, WriteStep
    PROVE  /\ Noted' = Noted /\ \A d : Folder!Found(d)' = Folder!Found(d)
           /\ \A d : Facts(d)' <=> Facts(d)
           /\ \A d : Steady(d)' <=> Steady(d)
           /\ Scanning' /\ Scanned' /\ Ended'
<1>1. Noted' = Noted /\ \A d : Folder!Found(d)' = Folder!Found(d)
  BY DEF WriteStep, Noted, Folder!Found
<1>2. \A d : Facts(d)' <=> Facts(d)  BY <1>1 DEF WriteStep, Facts
<1>3. \A d : Steady(d)' <=> Steady(d)  BY DEF WriteStep, Steady, Aside
<1>4. Scanning' /\ Scanned' /\ Ended'
  BY DEF WriteStep, WriteSteps, FileSteps, ScanSteps, Scanning, Scanned, Ended
<1> QED BY <1>1, <1>2, <1>3, <1>4

LEMMA CopyingStays ==
    ASSUME FolderInv, WriteStep,
           worker'.pc = "last" /\ source[worker'.at] = worker.goal[worker'.at] =>
               Folder!Range(worker'.data) = {worker.goal[worker'.at].body}
    PROVE  Copying'
<1>1. Copying /\ worker.pc \in WriteSteps /\ Aside
  BY DEF WriteStep, FolderInv, WorkerInv
<1>2. Noted' = Noted /\ \A d : (Facts(d)' <=> Facts(d)) /\ (Steady(d)' <=> Steady(d))
  BY WriteFacts
<1>3. \A f : Kept(f)' <=> Kept(f)  BY DEF Kept, WriteStep, Aside
<1>4. worker'.goal \in Contents /\ Dated(worker.goal)'
  BY <1>1 DEF Copying, WriteStep, Dated, Aside
<1>5. \A d \in AllDirs \cap Noted' : Steady(d)' => Facts(d)'
  BY <1>1, <1>2 DEF Copying
<1>6. \A f \in Files \cap Noted' : Kept(f)'  BY <1>1, <1>2, <1>3 DEF Copying
<1>7. worker'.pc = "last" /\ source'[worker'.at] = worker'.goal[worker'.at] =>
         Folder!Range(worker'.data) = {worker'.goal[worker'.at].body}
  BY DEF WriteStep, Aside
<1> QED BY <1>4, <1>5, <1>6, <1>7 DEF Copying

LEMMA NotesStay ==
    ASSUME FolderInv, WriteStep, worker'.stack # <<>>,
           \A i \in 1 .. Depth' : worker'.stack[i].dir \in Noted
    PROVE  Notes'
BY WriteFacts DEF Notes, WriteStep, Aside, FolderInv, WorkerInv

\* A directory, or a file, whose note is still true.
LEMMA UnchangedFacts ==
    ASSUME FolderInv, worker.pc \in WriteSteps, NEW p \in Places \cap Noted, Folder!Unchanged(p)
    PROVE  /\ source[p] # Gone /\ source[p].id = worker.notes[p].id
           /\ Steady(p) /\ (p \in AllDirs => Facts(p))
<1>1. Copying /\ worker.notes[p] \in NoteType
  BY WorkerFacts DEF FolderInv, WorkerInv
<1>2. /\ source[p] # Gone
      /\ [id |-> source[p].id, time |-> source[p].time] = worker.notes[p]
  BY DEF Folder!Unchanged, Folder!Note
<1>3. source[p].id = worker.notes[p].id /\ source[p].time = worker.notes[p].time
  BY <1>2
<1> QED BY <1>1, <1>2, <1>3 DEF Copying, Steady

\* What an entry of a step of the writing needs.
LEMMA WriteStepIs ==
    ASSUME FolderInv, NEW pc \in WriteSteps, NEW at, NEW stack, NEW data, NEW copies,
           worker.pc \in WriteSteps, Aside,
           WorkerAs(pc, at, stack, worker.notes, data, copies, worker.goal)
    PROVE  /\ WriteStep
           /\ worker'.pc = pc /\ worker'.at = at /\ worker'.stack = stack
           /\ worker'.data = data /\ worker'.copies = copies
           /\ at \in Places /\ stack \in Seq(StackFrame) /\ data \in Seq(Nat)
              /\ copies \in Partial(Files, Seq(Nat)) => WorkerTyped'
<1>1. /\ worker'.pc = pc /\ worker'.at = at /\ worker'.stack = stack
      /\ worker'.data = data /\ worker'.copies = copies
      /\ worker'.notes = worker.notes /\ worker'.goal = worker.goal
  BY DEF WorkerAs
<1>2. ASSUME at \in Places, stack \in Seq(StackFrame), data \in Seq(Nat),
             copies \in Partial(Files, Seq(Nat))
      PROVE  WorkerTyped'
  BY <1>2 DEF WorkerTyped, WorkerAs, FolderInv
<1> QED BY <1>1, <1>2 DEF WriteStep

LEMMA EnterStep ==
    ASSUME FolderInv, Folder!Enter
    PROVE  FolderInv'
<1> DEFINE top == Folder!Top
           frame == [dir |-> top.dir, todo |-> Folder!Found(top.dir), done |-> top.done]
<1>1. worker.pc = "enter" /\ worker.pc \in WriteSteps
  BY DEF Folder!Enter, Folder!At, WriteSteps
<1>2. CASE ~Folder!Unchanged(top.dir)  BY <1>2, FailStep DEF Folder!Enter
<1>3. CASE Folder!Unchanged(top.dir)
  <2>1. Aside /\ top \in StackFrame /\ top.dir \in AllDirs \cap Noted /\ top = worker.stack[Depth]
    BY <1>1, <1>3, WorkerFacts DEF Folder!Enter, Folder!Becomes, Aside
  <2>2. [top EXCEPT !.todo = Folder!Found(top.dir)] = frame /\ frame \in StackFrame
    <3>1. top \in [dir : AllDirs, todo : SUBSET Folder!Entries, done : SUBSET Folder!Entries]
      BY <2>1 DEF StackFrame
    <3>2. Folder!Found(top.dir) \in SUBSET Folder!Entries
      BY <1>1, WorkerFacts
    <3> QED BY <3>1, <3>2 DEF StackFrame
  <2>3. WorkerAs("entry", worker.at, Folder!WithTop(frame), worker.notes, worker.data,
                 worker.copies, worker.goal)
    BY ZenonT(60), <1>3, <2>2 DEF Folder!Enter, Folder!Becomes, WorkerAs, FolderInv, WorkerTyped
  <2>4. /\ Folder!WithTop(frame) \in Seq(StackFrame) /\ Len(Folder!WithTop(frame)) = Depth
        /\ Folder!WithTop(frame)[Depth] = frame
        /\ \A i \in 1 .. Depth - 1 : Folder!WithTop(frame)[i] = worker.stack[i]
    <3>1. worker.stack \in Seq(StackFrame) /\ worker.stack # <<>>
      BY <1>1, WorkerFacts
    <3> HIDE DEF frame
    <3> QED BY <2>2, <3>1, WithTopFacts
  <2>5. /\ WriteStep /\ worker'.pc = "entry" /\ worker'.stack = Folder!WithTop(frame)
        /\ worker'.copies = worker.copies /\ WorkerTyped'
    <3>1. "entry" \in WriteSteps /\ WorkerTyped  BY DEF WriteSteps, FolderInv
    <3>2. /\ worker.at \in Places /\ worker.data \in Seq(Nat)
          /\ worker.copies \in Partial(Files, Seq(Nat))
      BY <3>1 DEF WorkerTyped
    <3> HIDE DEF frame
    <3> QED BY <1>1, <2>1, <2>3, <2>4, <3>1, <3>2, WriteStepIs
  <2>6. /\ Depth \in Nat \ {0} /\ Depth' = Depth /\ worker'.stack # <<>> /\ worker'.stack[Depth] = frame
        /\ \A i \in 1 .. Depth : i # Depth => worker'.stack[i] = worker.stack[i]
        /\ \A i \in 1 .. Depth : worker'.stack[i].dir = worker.stack[i].dir
    <3>1. Depth \in Nat \ {0} /\ Depth' = Depth /\ worker'.stack[Depth] = frame
      BY <1>1, <2>4, <2>5, WorkerFacts DEF Depth
    <3>2. worker'.stack # <<>>  BY <2>4, <2>5, <3>1
    <3>3. \A i \in 1 .. Depth : i # Depth => worker'.stack[i] = worker.stack[i]
      BY <2>4, <2>5, <3>1
    <3> QED BY <2>1, <3>1, <3>2, <3>3
  <2>7. Notes'
    <3>1. \A i \in 1 .. Depth' : worker'.stack[i].dir \in Noted
      BY <1>1, <2>6, WorkerFacts
    <3> QED BY <2>5, <2>6, <3>1, NotesStay
  <2>8. Copying'  BY <2>5, CopyingStays
  <2>9. PICK entered \in SUBSET (AllDirs \cap Noted) : Progress(entered)
    BY <1>1 DEF FolderInv, WorkerInv, Written
  <2> PICK begun : begun = entered \cup {top.dir}  OBVIOUS
  <2>10. Progress(begun)'
    <3>1. Facts(top.dir)  BY <1>1, <1>3, <2>1, UnchangedFacts DEF Places
    <3>2. \A d \in begun : Facts(d)'
      BY <2>5, <2>9, <3>1, WriteFacts DEF Progress
    <3>3. ASSUME NEW d \in begun, NEW p \in Folder!Found(d)'
          PROVE  Handled(p, begun)'
      <4>1. p \in Folder!Found(d) /\ p \in Noted /\ p # Root /\ Parent[p] = d
        BY <2>5, WriteFacts DEF Folder!Found, Noted
      <4>2. CASE Parent[p] = top.dir
        <5>1. worker'.stack[Depth].dir = Parent[p] /\ p \in worker'.stack[Depth].todo
          BY <2>6, <4>1, <4>2
        <5> QED BY <2>6, <5>1 DEF Handled
      <4>3. CASE Parent[p] # top.dir
        <5>1. Handled(p, entered)  BY <2>9, <4>1, <4>3 DEF Progress
        <5>2. CASE p \in Files /\ p \in DOMAIN worker.copies
          BY <2>5, <5>2 DEF Handled
        <5>3. CASE p \in Dirs /\ (p \in entered \/ p = top.dir)
          BY <5>3 DEF Handled
        <5>4. CASE \E i \in 1 .. Depth : worker.stack[i].dir = Parent[p] /\ p \in worker.stack[i].todo
          <6>1. PICK i \in 1 .. Depth : worker.stack[i].dir = Parent[p] /\ p \in worker.stack[i].todo
            BY <5>4
          <6>2. i # Depth  BY <2>1, <4>3, <6>1
          <6> QED BY <2>6, <6>1, <6>2 DEF Handled
        <5> QED BY <1>1, <5>1, <5>2, <5>3, <5>4 DEF Handled, FileSteps
      <4> QED BY <4>2, <4>3
    <3>4. Root \in begun  BY <2>1, <2>9 DEF Progress
    <3>5. (\A i \in 1 .. Depth :
              /\ worker.stack[i].dir \in begun
              /\ worker.stack[i].todo \subseteq Folder!Found(worker.stack[i].dir))'
      <4>1. \A d : Folder!Found(d)' = Folder!Found(d)  BY <2>5, WriteFacts
      <4>2. \A i \in 1 .. Depth : i # Depth => worker.stack[i].dir \in entered /\
                worker.stack[i].todo \subseteq Folder!Found(worker.stack[i].dir)
        BY <1>1, <2>9 DEF Progress
      <4> QED BY <2>1, <2>6, <4>1, <4>2
    <3>6. (\A f \in DOMAIN worker.copies :
              /\ f \in Noted /\ Parent[f] \in begun
              /\ Folder!Range(worker.copies[f]) = {worker.goal[f].body})'
      BY <2>5, <2>9, WriteFacts DEF Progress, WriteStep
    <3>7. worker'.pc \notin FileSteps /\ worker'.pc # "enter"
      BY <2>5 DEF FileSteps
    <3> QED BY <3>2, <3>3, <3>4, <3>5, <3>6, <3>7 DEF Progress
  <2>11. Written'
    <3>1. begun \in SUBSET (AllDirs \cap Noted')  BY <2>1, <2>5, WriteFacts
    <3> QED BY <2>10, <3>1 DEF Written
  <2> QED BY <2>1, <2>5, <2>7, <2>8, <2>11, WriteFacts, WorkerStep DEF WorkerInv
<1> QED BY <1>2, <1>3
LEMMA EntryStep ==
    ASSUME FolderInv, Folder!Entry
    PROVE  FolderInv'
<1> DEFINE top == Folder!Top
<1>1. worker.pc = "entry" /\ worker.pc \in WriteSteps /\ top.todo # {}
  BY DEF Folder!Entry, Folder!At, WriteSteps
<1> DEFINE p == CHOOSE q \in top.todo : TRUE
           frame == [dir |-> top.dir, todo |-> top.todo \ {p}, done |-> top.done]
           below == [dir |-> p, todo |-> {}, done |-> {}]
           left == Folder!WithTop(frame)
<1>2. PICK entered \in SUBSET (AllDirs \cap Noted) : Progress(entered)
  BY <1>1 DEF FolderInv, WorkerInv, Written
<1>3. /\ top \in StackFrame /\ top.dir \in AllDirs \cap Noted /\ top = worker.stack[Depth]
      /\ Depth \in Nat \ {0} /\ worker.stack \in Seq(StackFrame) /\ worker.stack # <<>>
  BY <1>1, WorkerFacts
<1>4. /\ p \in top.todo /\ top.dir \in entered /\ top.todo \subseteq Folder!Found(top.dir)
      /\ Root \in entered
  <2>1. p \in top.todo  BY <1>1
  <2> QED BY <1>1, <1>2, <1>3, <2>1 DEF Progress
<1>5. p \in Folder!Entries /\ p \in Noted /\ Parent[p] = top.dir /\ p \in Places
  BY <1>1, <1>4, WorkerFacts DEF Folder!Found, Noted
<1>6. [top EXCEPT !.todo = top.todo \ {p}] = frame /\ frame \in StackFrame
  <2>1. top \in [dir : AllDirs, todo : SUBSET Folder!Entries, done : SUBSET Folder!Entries]
    BY <1>3 DEF StackFrame
  <2> QED BY <2>1 DEF StackFrame
<1>7. /\ left \in Seq(StackFrame) /\ Len(left) = Depth /\ left[Depth] = frame
      /\ \A i \in 1 .. Depth - 1 : left[i] = worker.stack[i]
  <2> HIDE DEF frame
  <2> QED BY <1>3, <1>6, WithTopFacts
<1>8. p \in Dirs => below \in StackFrame  BY DEF StackFrame, AllDirs
<1>9. /\ Aside
      /\ \/ p \in Dirs /\ WorkerAs("enter", worker.at, Append(left, below), worker.notes, worker.data,
                                   worker.copies, worker.goal)
         \/ p \notin Dirs /\ WorkerAs("check", p, left, worker.notes, worker.data,
                                      worker.copies, worker.goal)
  <2>1. \/ p \in Dirs /\ Folder!Becomes([worker EXCEPT !.pc = "enter", !.stack = Append(left, below)])
        \/ p \notin Dirs /\ Folder!Becomes([worker EXCEPT !.pc = "check", !.at = p, !.stack = left])
    BY <1>6 DEF Folder!Entry
  <2> HIDE DEF p, below, left
  <2> QED BY <2>1 DEF Folder!Becomes, WorkerAs, FolderInv, WorkerTyped, Aside
<1>10. /\ worker.at \in Places /\ worker.data \in Seq(Nat)
       /\ worker.copies \in Partial(Files, Seq(Nat))
       /\ {"enter", "check"} \subseteq WriteSteps
  <2>1. WorkerTyped  BY DEF FolderInv
  <2> QED BY <2>1 DEF WorkerTyped, WriteSteps, FileSteps
<1> PICK q : q = p  OBVIOUS
<1> HIDE DEF p
<1>11. ASSUME WriteStep, WorkerTyped', worker'.copies = worker.copies, worker'.stack # <<>>,
              \/ q \in Dirs /\ worker'.pc = "enter" /\ worker'.stack = Append(left, below)
              \/ q \notin Dirs /\ worker'.pc = "check" /\ worker'.at = q /\ worker'.stack = left,
              Depth' = Depth + (IF q \in Dirs THEN 1 ELSE 0),
              \A i \in 1 .. Depth : worker'.stack[i] = left[i],
              q \in Dirs => worker'.stack[Depth + 1] = below
       PROVE  FolderInv'
  <2>1. /\ \A i \in 1 .. Depth : i # Depth => worker'.stack[i] = worker.stack[i]
        /\ \A i \in 1 .. Depth : worker'.stack[i].dir = worker.stack[i].dir
        /\ \A i \in 1 .. Depth : worker'.stack[i].todo \subseteq worker.stack[i].todo
        /\ \A i \in 1 .. Depth : \A e \in worker.stack[i].todo : e \in worker'.stack[i].todo \/ e = q
        /\ \A i \in 1 .. Depth' : i \in 1 .. Depth \/ (q \in Dirs /\ i = Depth' /\ worker'.stack[i] = below)
        /\ \A i \in 1 .. Depth : i \in 1 .. Depth'
    <3> HIDE DEF left, below
    <3>1. \A i \in 1 .. Depth : i # Depth => worker'.stack[i] = worker.stack[i]
      BY <1>3, <1>7, <1>11
    <3>2. worker'.stack[Depth] = frame  BY <1>3, <1>7, <1>11
    <3>3. \A i \in 1 .. Depth : worker'.stack[i].dir = worker.stack[i].dir
      BY <1>3, <3>1, <3>2
    <3>4. \A i \in 1 .. Depth : worker'.stack[i].todo \subseteq worker.stack[i].todo
      BY <1>3, <3>1, <3>2
    <3>5. \A i \in 1 .. Depth : \A e \in worker.stack[i].todo : e \in worker'.stack[i].todo \/ e = q
      BY <1>3, <3>1, <3>2
    <3>6. \A i \in 1 .. Depth' : i \in 1 .. Depth \/ (q \in Dirs /\ i = Depth' /\ worker'.stack[i] = below)
      BY <1>3, <1>11
    <3>7. \A i \in 1 .. Depth : i \in 1 .. Depth'  BY <1>3, <1>11
    <3> QED BY <3>1, <3>3, <3>4, <3>5, <3>6, <3>7
  <2>2. Notes'
    <3>1. \A i \in 1 .. Depth' : worker'.stack[i].dir \in Noted
      BY <1>1, <1>5, <2>1, WorkerFacts
    <3> QED BY <1>11, <3>1, NotesStay
  <2>3. Copying'  BY <1>11, CopyingStays
  <2>4. Handled(q, entered)'
    <3>1. CASE q \in Dirs
      <4>1. worker'.pc = "enter" /\ Folder!Top'.dir = q
        BY <1>3, <1>11, <3>1 DEF Folder!Top, Depth
      <4> QED BY SMTT(40), <3>1, <4>1 DEF Handled
    <3>2. CASE q \notin Dirs
      BY <1>5, <1>11, <3>2 DEF Handled, FileSteps, Folder!Entries
    <3> QED BY <3>1, <3>2
  <2>5. ASSUME NEW e, Handled(e, entered)
        PROVE  Handled(e, entered)'
    <3>1. CASE e \in Files /\ e \in DOMAIN worker.copies
      BY <1>11, <3>1 DEF Handled
    <3>2. CASE e \in Dirs /\ e \in entered  BY <3>2 DEF Handled
    <3>3. CASE \E i \in 1 .. Depth : worker.stack[i].dir = Parent[e] /\ e \in worker.stack[i].todo
      <4>1. PICK i \in 1 .. Depth : worker.stack[i].dir = Parent[e] /\ e \in worker.stack[i].todo
        BY <3>3
      <4>2. i \in 1 .. Depth' /\ worker'.stack[i].dir = Parent[e]
        BY <2>1, <4>1
      <4>3. e \in worker'.stack[i].todo \/ e = q  BY <2>1, <4>1
      <4> QED BY <2>4, <4>2, <4>3 DEF Handled
    <3> QED BY <1>1, <2>5, <3>1, <3>2, <3>3 DEF Handled, FileSteps
  <2>6. Progress(entered)'
    <3>1. \A d \in entered : Facts(d)' /\ \A e \in Folder!Found(d)' : Handled(e, entered)'
      BY <1>2, <1>11, <2>5, WriteFacts DEF Progress
    <3>2. (\A i \in 1 .. Depth : (worker.pc = "enter" => i # Depth) =>
              /\ worker.stack[i].dir \in entered
              /\ worker.stack[i].todo \subseteq Folder!Found(worker.stack[i].dir))'
      <4>1. \A i \in 1 .. Depth' : (worker'.pc = "enter" => i # Depth') => i \in 1 .. Depth
        BY <1>11, <2>1
      <4>2. \A i \in 1 .. Depth : worker.stack[i].dir \in entered /\
                worker.stack[i].todo \subseteq Folder!Found(worker.stack[i].dir)
        BY <1>1, <1>2 DEF Progress
      <4>3. \A d : Folder!Found(d)' = Folder!Found(d)  BY <1>11, WriteFacts
      <4> QED BY <2>1, <4>1, <4>2, <4>3
    <3>3. worker'.pc \in FileSteps => (worker'.at \in Files \cap Noted' /\ Parent[worker'.at] \in entered)
      BY <1>4, <1>5, <1>11, WriteFacts DEF FileSteps, Folder!Entries
    <3>4. (\A f \in DOMAIN worker.copies :
              /\ f \in Noted /\ Parent[f] \in entered
              /\ Folder!Range(worker.copies[f]) = {worker.goal[f].body})'
      BY <1>2, <1>11, WriteFacts DEF Progress, WriteStep
    <3> QED BY <1>4, <3>1, <3>2, <3>3, <3>4 DEF Progress
  <2>7. Written'  BY <1>11, <2>6, WriteFacts DEF Written
  <2> QED BY <1>9, <1>11, <2>2, <2>3, <2>7, WriteFacts, WorkerStep DEF WorkerInv
<1> HIDE DEF left, below
<1>12. CASE p \in Dirs /\ WorkerAs("enter", worker.at, Append(left, below), worker.notes, worker.data,
                                   worker.copies, worker.goal)
  <2>1. /\ Append(left, below) \in Seq(StackFrame) /\ Len(Append(left, below)) = Depth + 1
        /\ Append(left, below)[Depth + 1] = below
        /\ \A i \in 1 .. Depth : Append(left, below)[i] = left[i]
    BY <1>7, <1>8, <1>12, PushFacts
  <2> DEFINE stack == Append(left, below)
  <2>2. /\ WriteStep /\ worker'.pc = "enter" /\ worker'.stack = stack
        /\ worker'.copies = worker.copies /\ WorkerTyped'
    <3>1. stack \in Seq(StackFrame)  BY <2>1
    <3>2. WorkerAs("enter", worker.at, stack, worker.notes, worker.data, worker.copies, worker.goal)
      BY <1>12
    <3> HIDE DEF stack
    <3> QED BY <1>1, <1>9, <1>10, <3>1, <3>2, WriteStepIs
  <2>3. Depth' = Depth + 1 /\ worker'.stack # <<>>
    BY <1>3, <2>1, <2>2 DEF Depth
  <2> QED BY <1>11, <1>12, <2>1, <2>2, <2>3
<1>13. CASE p \notin Dirs /\ WorkerAs("check", p, left, worker.notes, worker.data,
                                      worker.copies, worker.goal)
  <2>1. /\ WriteStep /\ worker'.pc = "check" /\ worker'.at = p /\ worker'.stack = left
        /\ worker'.copies = worker.copies /\ WorkerTyped'
    BY <1>1, <1>5, <1>7, <1>9, <1>10, <1>13, WriteStepIs
  <2>2. Depth' = Depth /\ worker'.stack # <<>>  BY <1>3, <1>7, <2>1 DEF Depth
  <2> QED BY <1>3, <1>11, <1>13, <2>1, <2>2
<1> QED BY <1>9, <1>12, <1>13
\* With the directories of the root's tree all written, so are their files.
LEMMA AllIsWritten ==
    ASSUME FolderInv, worker.pc = "entry", Depth = 1, Folder!Top.todo = {}
    PROVE  Folder!IsSnapshot([files |-> worker.copies, goal |-> worker.goal])
<1>1. PICK entered \in SUBSET (AllDirs \cap Noted) : Progress(entered)
  BY DEF FolderInv, WorkerInv, Written, WriteSteps
<1>2. worker.pc \in WriteSteps /\ Folder!Top = worker.stack[1] /\ Root \notin Folder!Entries
  BY WorkerFacts DEF WriteSteps
<1>3. worker.goal \in Contents  BY <1>2 DEF FolderInv, WorkerInv, Copying
<1>4. Gone \notin Record  BY RecordsAreFiles
<1>5. ASSUME NEW d \in entered, NEW p \in Folder!Found(d)
      PROVE  Handled(p, entered)
  BY <1>1, <1>5 DEF Progress
<1>6. ASSUME NEW d \in entered, NEW p \in Folder!Found(d)
      PROVE  (p \in Files /\ p \in DOMAIN worker.copies) \/ (p \in Dirs /\ p \in entered)
  <2>1. Handled(p, entered)  BY <1>6, <1>5
  <2>2. \A i \in 1 .. Depth : worker.stack[i].todo = {}  BY <1>2
  <2> QED BY <2>1, <2>2 DEF Handled, FileSteps
<1>7. \A d \in Dirs : worker.goal[d] # Gone /\ d \in Folder!Entries /\ Parent[d] \in AllDirs /\ d \notin Files
  BY <1>3, <1>4, FolderAssumption DEF Contents, AllDirs, Folder!Entries
<1>8. Root \in entered  BY <1>1 DEF Progress
<1>9. ASSUME NEW p \in Folder!Entries, Parent[p] \in entered, worker.goal[p] # Gone
      PROVE  p \in Folder!Found(Parent[p])
  <2>1. p \in Noted /\ p # Root  BY <1>1, <1>2, <1>9 DEF Progress, Facts
  <2> QED BY <2>1 DEF Folder!Found, Noted
<1>10. Dirs \subseteq entered
  <2>1. \A d \in Dirs : Parent[d] \in entered => d \in entered
    BY <1>6, <1>7, <1>9
  <2> QED BY <1>8, <2>1, FolderAssumption DEF AllDirs
<1>11. AllDirs \subseteq entered  BY <1>8, <1>10 DEF AllDirs
<1>12. \A f \in Files : Parent[f] \in AllDirs /\ f \in Folder!Entries /\ f \notin Dirs
  BY FolderAssumption DEF AllDirs, Folder!Entries
<1>13. ASSUME NEW f \in Files, worker.goal[f] # Gone
       PROVE  f \in DOMAIN worker.copies
  BY <1>6, <1>9, <1>11, <1>12, <1>13
<1>14. DOMAIN worker.copies \subseteq Files
  BY PartialValues DEF FolderInv, WorkerTyped
<1>15. ASSUME NEW f \in DOMAIN worker.copies
       PROVE  worker.goal[f] # Gone /\ Folder!Range(worker.copies[f]) = {worker.goal[f].body}
  <2>1. /\ f \in Noted /\ Parent[f] \in entered
        /\ Folder!Range(worker.copies[f]) = {worker.goal[f].body}
    BY <1>1, <1>15 DEF Progress
  <2> QED BY <1>1, <1>12, <1>14, <1>15, <2>1 DEF Progress, Facts
<1> DEFINE x == [files |-> worker.copies, goal |-> worker.goal]
<1>16. x.files = worker.copies /\ x.goal = worker.goal  OBVIOUS
<1>17. DOMAIN worker.copies = {f \in Files : worker.goal[f] # Gone}
  BY <1>13, <1>14, <1>15
<1> HIDE DEF x
<1>18. Folder!IsSnapshot(x)  BY <1>15, <1>16, <1>17 DEF Folder!IsSnapshot
<1> QED BY <1>18 DEF x

LEMMA LeaveStep ==
    ASSUME FolderInv, Folder!Leave
    PROVE  FolderInv'
<1> DEFINE top == Folder!Top
           rest == SubSeq(worker.stack, 1, Len(worker.stack) - 1)
<1>1. worker.pc = "entry" /\ worker.pc \in WriteSteps /\ top.todo = {}
  BY DEF Folder!Leave, Folder!At, WriteSteps
<1>2. /\ top = worker.stack[Depth] /\ Depth \in Nat \ {0}
      /\ worker.stack \in Seq(StackFrame) /\ worker.stack # <<>>
  BY <1>1, WorkerFacts
<1>3. CASE ~Folder!Unchanged(top.dir)  BY <1>3, FailStep DEF Folder!Leave
<1>4. CASE Folder!Unchanged(top.dir) /\ Len(worker.stack) > 1
  <2>1. /\ Aside
        /\ WorkerAs("entry", worker.at, rest, worker.notes, worker.data, worker.copies, worker.goal)
    BY <1>1, <1>4 DEF Folder!Leave, Folder!Becomes, WorkerAs, FolderInv, WorkerTyped, Aside
  <2>2. /\ rest \in Seq(StackFrame) /\ Len(rest) = Depth - 1
        /\ \A i \in 1 .. Depth - 1 : rest[i] = worker.stack[i]
    BY <1>2, PopFacts DEF Depth
  <2> HIDE DEF rest
  <2>3. /\ WriteStep /\ worker'.pc = "entry" /\ worker'.stack = rest
        /\ worker'.copies = worker.copies /\ WorkerTyped'
    <3>1. "entry" \in WriteSteps /\ WorkerTyped  BY DEF WriteSteps, FolderInv
    <3>2. /\ worker.at \in Places /\ worker.data \in Seq(Nat)
          /\ worker.copies \in Partial(Files, Seq(Nat))
      BY <3>1 DEF WorkerTyped
    <3> QED BY <1>1, <2>1, <2>2, <3>1, <3>2, WriteStepIs
  <2>4. Depth > 1  BY <1>4 DEF Depth
  <2>5. /\ Depth' = Depth - 1 /\ worker'.stack # <<>>
        /\ \A i \in 1 .. Depth' : i \in 1 .. Depth /\ worker'.stack[i] = worker.stack[i]
        /\ \A i \in 1 .. Depth : i \in 1 .. Depth' \/ worker.stack[i].todo = {}
    <3>1. Depth' = Depth - 1 /\ worker'.stack # <<>>
      BY <1>2, <2>2, <2>3, <2>4 DEF Depth
    <3>2. \A i \in 1 .. Depth' : i \in 1 .. Depth /\ worker'.stack[i] = worker.stack[i]
      BY <1>2, <2>2, <2>3, <3>1
    <3>3. ASSUME NEW i \in 1 .. Depth PROVE i \in 1 .. Depth' \/ worker.stack[i].todo = {}
      <4>1. i = Depth \/ i \in 1 .. Depth'  BY <1>2, <3>1
      <4> QED BY <1>1, <1>2, <4>1
    <3> QED BY <3>1, <3>2, <3>3
  <2>6. Notes'
    <3>1. \A i \in 1 .. Depth' : worker'.stack[i].dir \in Noted
      BY <1>1, <2>5, WorkerFacts
    <3> QED BY <2>3, <2>5, <3>1, NotesStay
  <2>7. Copying'  BY <2>3, CopyingStays
  <2>8. PICK entered \in SUBSET (AllDirs \cap Noted) : Progress(entered)
    BY <1>1 DEF FolderInv, WorkerInv, Written
  <2>9. ASSUME NEW e, Handled(e, entered)
        PROVE  Handled(e, entered)'
    <3>1. CASE e \in Files /\ e \in DOMAIN worker.copies
      BY <2>3, <3>1 DEF Handled
    <3>2. CASE e \in Dirs /\ e \in entered  BY <3>2 DEF Handled
    <3>3. CASE \E i \in 1 .. Depth : worker.stack[i].dir = Parent[e] /\ e \in worker.stack[i].todo
      BY <2>5, <3>3 DEF Handled
    <3> QED BY <1>1, <2>9, <3>1, <3>2, <3>3 DEF Handled, FileSteps
  <2>10. Progress(entered)'
    <3>1. \A d \in entered : Facts(d)' /\ \A e \in Folder!Found(d)' : Handled(e, entered)'
      BY <2>3, <2>8, <2>9, WriteFacts DEF Progress
    <3>2. (\A i \in 1 .. Depth :
              /\ worker.stack[i].dir \in entered
              /\ worker.stack[i].todo \subseteq Folder!Found(worker.stack[i].dir))'
      <4>1. \A i \in 1 .. Depth : worker.stack[i].dir \in entered /\
                worker.stack[i].todo \subseteq Folder!Found(worker.stack[i].dir)
        BY <1>1, <2>8 DEF Progress
      <4>2. \A d : Folder!Found(d)' = Folder!Found(d)  BY <2>3, WriteFacts
      <4> QED BY <2>5, <4>1, <4>2
    <3>3. worker'.pc \notin FileSteps /\ Root \in entered
      BY <1>1, <2>3, <2>8 DEF FileSteps, Progress
    <3>4. (\A f \in DOMAIN worker.copies :
              /\ f \in Noted /\ Parent[f] \in entered
              /\ Folder!Range(worker.copies[f]) = {worker.goal[f].body})'
      BY <2>3, <2>8, WriteFacts DEF Progress, WriteStep
    <3> QED BY <3>1, <3>2, <3>3, <3>4 DEF Progress
  <2>11. Written'  BY <2>3, <2>10, WriteFacts DEF Written
  <2> QED BY <2>1, <2>3, <2>6, <2>7, <2>11, WriteFacts, WorkerStep DEF WorkerInv
<1>5. CASE Folder!Unchanged(top.dir) /\ ~(Len(worker.stack) > 1)
  <2>1. Depth = 1
    <3>1. ~(Depth > 1)  BY <1>5 DEF Depth
    <3> QED BY <1>2, <3>1
  <2>2. Folder!IsSnapshot([files |-> worker.copies, goal |-> worker.goal])
    BY <1>1, <2>1, AllIsWritten
  <2>3. /\ Aside
        /\ WorkerAs("ended", worker.at, <<>>, worker.notes, worker.data, worker.copies, worker.goal)
    BY ZenonT(60), <1>1, <1>5 DEF Folder!Leave, Folder!Becomes, WorkerAs, FolderInv, WorkerTyped, Aside
  <2>4. /\ worker'.pc = "ended" /\ worker'.copies = worker.copies /\ worker'.goal = worker.goal
    BY <2>3 DEF WorkerAs
  <2>5. WorkerTyped'  BY <2>3 DEF WorkerTyped, WorkerAs, FolderInv
  <2>6. worker.goal \in Contents  BY <1>1 DEF FolderInv, WorkerInv, Copying
  <2>7. Ended'  BY <2>2, <2>4, <2>6 DEF Ended, Folder!IsSnapshot
  <2>8. Notes' /\ Scanning' /\ Scanned' /\ Copying' /\ Written'
    BY <2>4 DEF Notes, Scanning, Scanned, Copying, Written, ScanSteps, WriteSteps, FileSteps
  <2> QED BY <2>3, <2>5, <2>7, <2>8, WorkerStep DEF WorkerInv
<1> QED BY <1>3, <1>4, <1>5
\* A step of the copying of one file.
LEMMA FileMoves ==
    ASSUME FolderInv, worker.pc \in FileSteps, NEW pc \in FileSteps, NEW data \in Seq(Nat), Aside,
           WorkerAs(pc, worker.at, worker.stack, worker.notes, data, worker.copies, worker.goal),
           pc = "last" /\ source[worker.at] = worker.goal[worker.at] =>
               Folder!Range(data) = {worker.goal[worker.at].body}
    PROVE  FolderInv'
<1>1. /\ worker.at \in Places /\ worker.stack \in Seq(StackFrame)
      /\ worker.copies \in Partial(Files, Seq(Nat))
      /\ worker.pc \in WriteSteps /\ pc \in WriteSteps
  <2>1. WorkerTyped  BY DEF FolderInv
  <2> QED BY <2>1 DEF WorkerTyped, WriteSteps
<1>2. /\ WriteStep /\ worker'.pc = pc /\ worker'.at = worker.at /\ worker'.stack = worker.stack
      /\ worker'.data = data /\ worker'.copies = worker.copies /\ WorkerTyped'
  BY <1>1, WriteStepIs
<1>3. Depth' = Depth /\ worker'.stack # <<>> /\ \A i \in 1 .. Depth : worker.stack[i].dir \in Noted
  BY <1>1, <1>2, WorkerFacts DEF Depth
<1>4. Notes'  BY <1>2, <1>3, NotesStay
<1>5. Copying'  BY <1>2, CopyingStays
<1>6. PICK entered \in SUBSET (AllDirs \cap Noted) : Progress(entered)
  BY <1>1 DEF FolderInv, WorkerInv, Written
<1>7. ASSUME NEW e, Handled(e, entered)
      PROVE  Handled(e, entered)'
  BY <1>2, <1>3, <1>7 DEF Handled, FileSteps
<1>8. Progress(entered)'
  <2>1. \A d \in entered : Facts(d)' /\ \A e \in Folder!Found(d)' : Handled(e, entered)'
    BY <1>2, <1>6, <1>7, WriteFacts DEF Progress
  <2>2. (\A i \in 1 .. Depth :
            /\ worker.stack[i].dir \in entered
            /\ worker.stack[i].todo \subseteq Folder!Found(worker.stack[i].dir))'
    <3>1. \A i \in 1 .. Depth : worker.stack[i].dir \in entered /\
              worker.stack[i].todo \subseteq Folder!Found(worker.stack[i].dir)
      BY <1>1, <1>6 DEF Progress, FileSteps
    <3>2. \A d : Folder!Found(d)' = Folder!Found(d)  BY <1>2, WriteFacts
    <3> QED BY <1>2, <1>3, <3>1, <3>2
  <2>3. worker'.at \in Files \cap Noted' /\ Parent[worker'.at] \in entered
    BY <1>2, <1>6, WriteFacts DEF Progress
  <2>4. (\A f \in DOMAIN worker.copies :
            /\ f \in Noted /\ Parent[f] \in entered
            /\ Folder!Range(worker.copies[f]) = {worker.goal[f].body})'
    BY <1>2, <1>6, WriteFacts DEF Progress, WriteStep
  <2>5. Root \in entered  BY <1>1, <1>6 DEF Progress, FileSteps
  <2> QED BY <2>1, <2>2, <2>3, <2>4, <2>5 DEF Progress
<1>9. Written'  BY <1>2, <1>8, WriteFacts DEF Written
<1> QED BY <1>2, <1>4, <1>5, <1>9, WriteFacts, WorkerStep DEF WorkerInv

LEMMA CheckStep ==
    ASSUME FolderInv, NEW from \in FileSteps, NEW to \in FileSteps \ {"last"}, Folder!Check(from, to)
    PROVE  FolderInv'
<1>1. worker.pc \in FileSteps /\ WorkerTyped
  BY DEF Folder!Check, Folder!At, FolderInv
<1>2. CASE ~Folder!Unchanged(worker.at)  BY <1>2, FailStep DEF Folder!Check
<1>3. CASE Folder!Unchanged(worker.at)
  <2>1. /\ Aside
        /\ WorkerAs(to, worker.at, worker.stack, worker.notes, worker.data, worker.copies, worker.goal)
    BY <1>1, <1>3 DEF Folder!Check, Folder!Becomes, WorkerAs, WorkerTyped, Aside
  <2>2. worker.data \in Seq(Nat)  BY <1>1 DEF WorkerTyped
  <2> QED BY <1>1, <2>1, <2>2, FileMoves
<1> QED BY <1>2, <1>3

LEMMA ReadStep ==
    ASSUME FolderInv, NEW from \in FileSteps, NEW to \in FileSteps \ {"last"}, Folder!Read(from, to)
    PROVE  FolderInv'
<1>1. worker.pc \in FileSteps /\ WorkerTyped
  BY DEF Folder!Read, Folder!At, FolderInv
<1>2. CASE source[worker.at] = Gone  BY <1>2, FailStep DEF Folder!Read
<1>3. CASE source[worker.at] # Gone
  <2> DEFINE data == Append(worker.data, source[worker.at].body)
  <2>1. /\ Aside
        /\ WorkerAs(to, worker.at, worker.stack, worker.notes, data, worker.copies, worker.goal)
    BY <1>1, <1>3 DEF Folder!Read, Folder!Becomes, WorkerAs, WorkerTyped, Aside
  <2>2. source[worker.at].body \in Nat /\ worker.data \in Seq(Nat)
    BY <1>1, <1>3, RecordsAreFiles DEF WorkerTyped, Record
  <2>3. data \in Seq(Nat)  BY <2>2
  <2> HIDE DEF data
  <2> QED BY <1>1, <2>1, <2>3, FileMoves
<1> QED BY <1>2, <1>3

LEMMA VerifyStep ==
    ASSUME FolderInv, Folder!Verify
    PROVE  FolderInv'
<1>1. worker.pc \in FileSteps /\ WorkerTyped /\ "last" \in FileSteps
  BY DEF Folder!Verify, Folder!At, FolderInv, FileSteps
<1> DEFINE same == source[worker.at] # Gone /\ Folder!Range(worker.data) = {source[worker.at].body}
<1>2. CASE ~same  BY <1>2, FailStep DEF Folder!Verify
<1>3. CASE same
  <2>1. /\ Aside
        /\ WorkerAs("last", worker.at, worker.stack, worker.notes, worker.data, worker.copies, worker.goal)
    BY <1>1, <1>3 DEF Folder!Verify, Folder!Becomes, WorkerAs, WorkerTyped, Aside
  <2>2. worker.data \in Seq(Nat)  BY <1>1 DEF WorkerTyped
  <2> QED BY <1>1, <1>3, <2>1, <2>2, FileMoves
<1> QED BY <1>2, <1>3

LEMMA CopiedStep ==
    ASSUME FolderInv, Folder!Copied
    PROVE  FolderInv'
<1> DEFINE f == worker.at
           copies == Folder!With(worker.copies, f, worker.data)
<1>1. worker.pc = "last" /\ worker.pc \in FileSteps /\ worker.pc \in WriteSteps /\ WorkerTyped
  BY DEF Folder!Copied, Folder!At, FolderInv, FileSteps, WriteSteps
<1>2. CASE ~Folder!Unchanged(f)  BY <1>2, FailStep DEF Folder!Copied
<1>3. CASE Folder!Unchanged(f)
  <2>1. /\ Aside
        /\ WorkerAs("entry", f, worker.stack, worker.notes, <<>>, copies, worker.goal)
    BY ZenonT(60), <1>1, <1>3 DEF Folder!Copied, Folder!Becomes, WorkerAs, WorkerTyped, Aside
  <2>2. /\ f \in Files \cap Noted /\ f \in Places /\ worker.goal[f] # Gone
        /\ worker.notes[f].id = worker.goal[f].id
    BY <1>1, FileIsFact DEF Places
  <2>3. /\ worker.data \in Seq(Nat) /\ worker.copies \in Partial(Files, Seq(Nat))
        /\ worker.stack \in Seq(StackFrame) /\ <<>> \in Seq(Nat) /\ "entry" \in WriteSteps
    BY <1>1 DEF WorkerTyped, WriteSteps
  <2>4. copies \in Partial(Files, Seq(Nat))  BY <2>2, <2>3, PartialMore
  <2>5. Folder!Range(worker.data) = {worker.goal[f].body}
    <3>1. source[f] # Gone /\ source[f].id = worker.notes[f].id /\ Steady(f)
      BY <1>1, <1>3, <2>2, UnchangedFacts
    <3>2. source[f] \in Record /\ worker.notes[f] \in NoteType
      BY <1>1, <2>2, <3>1, RecordsAreFiles, WorkerFacts
    <3>3. ~(source[f].time > worker.notes[f].time)
      BY <3>1, <3>2 DEF Steady, Record, NoteType
    <3>4. Copying /\ Kept(f)  BY <1>1, <2>2 DEF FolderInv, WorkerInv, Copying
    <3>5. source[f] = worker.goal[f]  BY <2>2, <3>1, <3>3, <3>4 DEF Kept
    <3> QED BY <1>1, <3>4, <3>5 DEF Copying
  <2>6. /\ DOMAIN copies = DOMAIN worker.copies \cup {f} /\ copies[f] = worker.data
        /\ \A y \in DOMAIN worker.copies : y # f => copies[y] = worker.copies[y]
    BY DEF Folder!With
  <2> HIDE DEF copies
  <2>7. /\ WriteStep /\ worker'.pc = "entry" /\ worker'.stack = worker.stack
        /\ worker'.copies = copies /\ WorkerTyped'
    <3> DEFINE none == <<>>
    <3>1. WorkerAs("entry", f, worker.stack, worker.notes, none, copies, worker.goal) /\ none \in Seq(Nat)
      BY <2>1
    <3> HIDE DEF none
    <3> QED BY <1>1, <2>1, <2>2, <2>3, <2>4, <3>1, WriteStepIs
  <2>8. Depth' = Depth /\ worker'.stack # <<>> /\ \A i \in 1 .. Depth : worker.stack[i].dir \in Noted
    BY <1>1, <2>7, WorkerFacts DEF Depth
  <2>9. Notes'  BY <2>7, <2>8, NotesStay
  <2>10. Copying'  BY <2>7, CopyingStays
  <2>11. PICK entered \in SUBSET (AllDirs \cap Noted) : Progress(entered)
    BY <1>1 DEF FolderInv, WorkerInv, Written
  <2>12. ASSUME NEW e, Handled(e, entered)
         PROVE  Handled(e, entered)'
    <3>1. CASE e \in Files /\ (e \in DOMAIN worker.copies \/ e = f)
      BY <2>6, <2>7, <3>1 DEF Handled
    <3>2. CASE e \in Dirs /\ e \in entered  BY <3>2 DEF Handled
    <3>3. CASE \E i \in 1 .. Depth : worker.stack[i].dir = Parent[e] /\ e \in worker.stack[i].todo
      BY <2>7, <2>8, <3>3 DEF Handled
    <3> QED BY <1>1, <2>12, <3>1, <3>2, <3>3 DEF Handled
  <2>13. Progress(entered)'
    <3>1. \A d \in entered : Facts(d)' /\ \A e \in Folder!Found(d)' : Handled(e, entered)'
      BY <2>7, <2>11, <2>12, WriteFacts DEF Progress
    <3>2. (\A i \in 1 .. Depth :
              /\ worker.stack[i].dir \in entered
              /\ worker.stack[i].todo \subseteq Folder!Found(worker.stack[i].dir))'
      <4>1. \A i \in 1 .. Depth : worker.stack[i].dir \in entered /\
                worker.stack[i].todo \subseteq Folder!Found(worker.stack[i].dir)
        BY <1>1, <2>11 DEF Progress
      <4>2. \A d : Folder!Found(d)' = Folder!Found(d)  BY <2>7, WriteFacts
      <4> QED BY <2>7, <2>8, <4>1, <4>2
    <3>3. worker'.pc \notin FileSteps /\ Root \in entered
      BY <1>1, <2>7, <2>11 DEF FileSteps, Progress
    <3>4. Parent[f] \in entered  BY <1>1, <2>11 DEF Progress
    <3>5. \A g \in DOMAIN worker.copies :
              /\ g \in Noted /\ Parent[g] \in entered
              /\ Folder!Range(worker.copies[g]) = {worker.goal[g].body}
      BY <2>11 DEF Progress
    <3>6. (\A g \in DOMAIN worker.copies :
              /\ g \in Noted /\ Parent[g] \in entered
              /\ Folder!Range(worker.copies[g]) = {worker.goal[g].body})'
      BY <2>2, <2>5, <2>6, <2>7, <3>4, <3>5, WriteFacts DEF WriteStep
    <3> QED BY <3>1, <3>2, <3>3, <3>6 DEF Progress
  <2>14. Written'  BY <2>7, <2>13, WriteFacts DEF Written
  <2> QED BY <2>1, <2>7, <2>9, <2>10, <2>14, WriteFacts, WorkerStep DEF WorkerInv
<1> QED BY <1>2, <1>3

LEMMA WorkStep ==
    ASSUME FolderInv, Folder!Work
    PROVE  FolderInv'
<1>1. CASE Folder!Refuse  BY <1>1, FailStep DEF Folder!Refuse
<1>2. CASE Folder!WriteStableFile
  <2>1. {"check", "copy", "rest", "again", "verify"} \subseteq FileSteps \ {"last"}
    BY DEF FileSteps
  <2>2. CASE Folder!Check("check", "copy") \/ Folder!Check("again", "verify")
    BY <2>1, <2>2, CheckStep
  <2>3. CASE Folder!Read("copy", "rest") \/ Folder!Read("rest", "again")
    BY <2>1, <2>3, ReadStep
  <2> QED BY <1>2, <2>2, <2>3, VerifyStep, CopiedStep DEF Folder!WriteStableFile
<1> QED BY <1>1, <1>2, OpenStep, CaptureTimeStep, CaptureIdentityStep, ScannedStep, EnterStep,
           EntryStep, LeaveStep DEF Folder!Work
-----------------------------------------------------------------------------
LEMMA WorkerStays ==
    ASSUME WorkerTyped, WorkerInv, UNCHANGED <<source, changes, worker>>
    PROVE  WorkerTyped' /\ WorkerInv'
<1>1. WorkerTyped'  BY DEF WorkerTyped
<1>2. /\ Noted' = Noted /\ Depth' = Depth /\ Folder!Top' = Folder!Top
      /\ \A d : Folder!Found(d)' = Folder!Found(d) /\ Folder!Children(d)' = Folder!Children(d)
      /\ \A d : (OnStack(d)' <=> OnStack(d)) /\ (Half(d)' <=> Half(d)) /\ (Steady(d)' <=> Steady(d))
  BY DEF Noted, Depth, Folder!Top, Folder!Found, Folder!Children, OnStack, Half, Steady
<1>3. \A d : (Facts(d)' <=> Facts(d)) /\ (Kept(d)' <=> Kept(d))
  BY <1>2 DEF Facts, Kept
<1>4. Notes'  BY <1>2 DEF WorkerInv, Notes
<1>5. Scanning'  BY <1>2 DEF WorkerInv, Scanning
<1>6. Scanned'  BY <1>2 DEF WorkerInv, Scanned
<1>7. Copying'  BY <1>2, <1>3 DEF WorkerInv, Copying, Dated
<1>8. \A p, entered : Handled(p, entered)' <=> Handled(p, entered)
  BY <1>2 DEF Handled
<1>9. \A entered : Progress(entered)' <=> Progress(entered)
  BY <1>2, <1>3, <1>8 DEF Progress
<1>10. Written'  BY <1>2, <1>9 DEF WorkerInv, Written
<1>11. Ended'  BY DEF WorkerInv, Ended, Folder!IsSnapshot
<1> QED BY <1>1, <1>4, <1>5, <1>6, <1>7, <1>10, <1>11 DEF WorkerInv

LEMMA ManagerStep ==
    ASSUME FolderInv, UNCHANGED <<source, changes>>, builds' \in 0 .. MaxBuilds,
           worker' \in {worker, Folder!Idle, Folder!Build},
           ManagerTyped', Folder!Coherent', Folder!StatusTrue'
    PROVE  FolderInv'
<1>1. SourceTyped /\ WorkerTyped /\ WorkerInv  BY DEF FolderInv
<1>2. SourceTyped'  BY <1>1 DEF SourceTyped, Dated
<1>3. WorkerTyped' /\ WorkerInv'  BY <1>1, WorkerStays, FreshWorker
<1> QED BY <1>2, <1>3 DEF FolderInv

LEMMA CandidateFacts ==
    ASSUME FolderInv, worker.pc = "ended"
    PROVE  /\ Folder!Candidate \in Snapshots \cup {Gone}
           /\ Folder!Candidate # Gone => Folder!IsSnapshot(Folder!Candidate)
           /\ worker.ok => Folder!Candidate # Gone
<1>1. CASE worker.ok
  <2> DEFINE x == [files |-> worker.copies, goal |-> worker.goal]
  <2>1. Folder!Candidate = x  BY <1>1 DEF Folder!Candidate
  <2>2. worker.goal \in Contents /\ Folder!IsSnapshot(x) /\ worker.copies \in Partial(Files, Seq(Nat))
    BY <1>1 DEF FolderInv, WorkerInv, Ended, WorkerTyped
  <2>3. x \in Snapshots  BY <2>2 DEF Snapshots
  <2>4. x \in FolderImages
    <3>1. worker.goal \in [Dirs \cup {Root} \cup Files -> FolderRecords \cup {Gone}]
      BY <2>2 DEF Contents, Places, AllDirs, Record, FolderRecords
    <3>2. worker.copies \in UNION {[S -> Seq(Nat)] : S \in SUBSET Files}
      BY <2>2 DEF Partial
    <3> QED BY <3>1, <3>2 DEF FolderImages
  <2>5. x # Gone  BY <2>4, FolderAssumption
  <2> HIDE DEF x
  <2> QED BY <2>1, <2>2, <2>3, <2>5
<1>2. CASE ~worker.ok  BY <1>2 DEF Folder!Candidate
<1> QED BY <1>1, <1>2

LEMMA ManagerFacts ==
    ASSUME FolderInv
    PROVE  /\ ManagerAs(manager.main, manager.thread, manager.done, manager.candidate, manager.state,
                        manager.mounted) <=> manager' = manager
           /\ manager.main \in {"new", "startup", "run", "joining", "gone"}
           /\ manager.thread \in BOOLEAN /\ manager.done \in BOOLEAN /\ manager.mounted \in BOOLEAN
           /\ manager.candidate \in Snapshots \cup {Gone} /\ image \in Snapshots \cup {Gone}
           /\ manager.state \in {"unmounted", "building", "mounted", "error"}
           /\ builds \in 0 .. MaxBuilds
           /\ image # Gone => Folder!IsSnapshot(image)
           /\ manager.candidate # Gone => Folder!IsSnapshot(manager.candidate) /\ manager.thread
           /\ manager.mounted <=> image # Gone
           /\ manager.state = "building" <=> manager.thread
<1>1. ManagerTyped /\ SourceTyped /\ Folder!Coherent /\ Folder!StatusTrue
  BY DEF FolderInv
<1>2. /\ ManagerAs(manager.main, manager.thread, manager.done, manager.candidate, manager.state,
                   manager.mounted) <=> manager' = manager
  BY <1>1 DEF ManagerTyped, ManagerAs
<1>3. /\ manager.main \in {"new", "startup", "run", "joining", "gone"}
      /\ manager.thread \in BOOLEAN /\ manager.done \in BOOLEAN /\ manager.mounted \in BOOLEAN
      /\ manager.candidate \in Snapshots \cup {Gone} /\ image \in Snapshots \cup {Gone}
      /\ manager.state \in {"unmounted", "building", "mounted", "error"}
      /\ builds \in 0 .. MaxBuilds
  BY <1>1 DEF ManagerTyped, SourceTyped
<1>4. /\ image # Gone => Folder!IsSnapshot(image)
      /\ manager.candidate # Gone => Folder!IsSnapshot(manager.candidate)
  BY <1>1 DEF Folder!Coherent
<1>5. manager.candidate # Gone => manager.thread
  BY <1>1 DEF Folder!StatusTrue
<1>6. manager.mounted <=> image # Gone  BY <1>1 DEF Folder!StatusTrue
<1>7. manager.state = "building" <=> manager.thread
  BY <1>1 DEF Folder!StatusTrue
<1> QED BY <1>2, <1>3, <1>4, <1>5, <1>6, <1>7

\* A step of the manager that says what is true.
LEMMA ManagerMoves ==
    ASSUME FolderInv, UNCHANGED <<source, changes>>, builds' \in 0 .. MaxBuilds,
           worker' \in {worker, Folder!Idle, Folder!Build},
           NEW main \in {"new", "startup", "run", "joining", "gone"}, NEW thread \in BOOLEAN,
           NEW done \in BOOLEAN, NEW candidate \in Snapshots \cup {Gone},
           NEW status \in {"unmounted", "building", "mounted", "error"}, NEW mounted \in BOOLEAN,
           ManagerAs(main, thread, done, candidate, status, mounted),
           image' \in Snapshots \cup {Gone},
           image' # Gone => Folder!IsSnapshot(image'),
           candidate # Gone => Folder!IsSnapshot(candidate) /\ thread,
           mounted <=> image' # Gone,
           status = "building" <=> thread
    PROVE  FolderInv'
<1>1. /\ manager'.main = main /\ manager'.thread = thread /\ manager'.done = done
      /\ manager'.candidate = candidate /\ manager'.state = status /\ manager'.mounted = mounted
  BY DEF ManagerAs
<1>2. ManagerTyped'  BY DEF ManagerTyped, ManagerAs
<1>3. Folder!Coherent'
  <2>1. ASSUME NEW x, x = image' \/ x = candidate, x # Gone
        PROVE  Folder!IsSnapshot(x)
    BY <2>1
  <2> QED BY <1>1, <2>1 DEF Folder!Coherent
<1>4. Folder!StatusTrue'
  <2>1. manager'.mounted = (image' # Gone)  BY <1>1
  <2>2. (manager'.state = "building") = manager'.thread  BY <1>1
  <2> QED BY <1>1, <2>1, <2>2 DEF Folder!StatusTrue
<1> QED BY <1>2, <1>3, <1>4, ManagerStep

\* What the status says of the image, when that stays.
LEMMA ImageStays ==
    ASSUME FolderInv, image' = image
    PROVE  /\ image' \in Snapshots \cup {Gone} /\ (image' # Gone => Folder!IsSnapshot(image'))
           /\ manager.mounted <=> image' # Gone
<1>1. \E x : x = image  OBVIOUS
<1>2. PICK x : x = image  BY <1>1
<1>3. x \in Snapshots \cup {Gone} /\ (x # Gone => Folder!IsSnapshot(x)) /\ (manager.mounted <=> x # Gone)
  BY <1>2, ManagerFacts
<1> QED BY <1>2, <1>3
LEMMA StartupSteps ==
    ASSUME FolderInv, Folder!Startup \/ Folder!StartWithout
    PROVE  FolderInv'
<1>1. builds \in Nat /\ MaxBuilds \in Nat  BY FolderAssumption, ManagerFacts
<1>2. PICK main \in {"startup", "run"} :
          /\ manager' = [manager EXCEPT !.main = main]
          /\ UNCHANGED <<source, changes, image>>
          /\ (builds < MaxBuilds /\ builds' = builds + 1) \/ builds' = builds
          /\ worker' \in {worker, Folder!Build}
  BY DEF Folder!Startup, Folder!StartWithout, Folder!Begin
<1>3. builds' \in 0 .. MaxBuilds  BY <1>1, <1>2, ManagerFacts
<1>4. ManagerAs(main, manager.thread, manager.done, manager.candidate, manager.state, manager.mounted)
  BY <1>2 DEF ManagerAs, FolderInv, ManagerTyped
<1>5. image' = image  BY <1>2
<1>6. /\ manager.thread \in BOOLEAN /\ manager.done \in BOOLEAN /\ manager.mounted \in BOOLEAN
      /\ manager.candidate \in Snapshots \cup {Gone}
      /\ manager.state \in {"unmounted", "building", "mounted", "error"}
      /\ manager.candidate # Gone => Folder!IsSnapshot(manager.candidate) /\ manager.thread
      /\ manager.state = "building" <=> manager.thread
  BY ManagerFacts
<1>7. /\ main \in {"new", "startup", "run", "joining", "gone"} /\ UNCHANGED <<source, changes>>
      /\ worker' \in {worker, Folder!Idle, Folder!Build}
  BY <1>2
<1>8. /\ image' \in Snapshots \cup {Gone} /\ (image' # Gone => Folder!IsSnapshot(image'))
      /\ manager.mounted <=> image' # Gone
  BY <1>5, ImageStays
<1> QED BY <1>3, <1>4, <1>6, <1>7, <1>8, ManagerMoves

LEMMA MountsStep ==
    ASSUME FolderInv, UNCHANGED <<source, changes, builds>>, worker' \in {worker, Folder!Idle},
           NEW x \in Snapshots, x # Gone, Folder!IsSnapshot(x), Folder!Mounts(x)
    PROVE  FolderInv'
<1>1. ManagerAs("run", FALSE, FALSE, Gone, "mounted", TRUE) /\ image' = x
  BY DEF Folder!Mounts, ManagerAs, FolderInv, ManagerTyped
<1>2. builds' \in 0 .. MaxBuilds  BY ManagerFacts
<1> QED BY <1>1, <1>2, ManagerMoves

LEMMA StartedStep ==
    ASSUME FolderInv, Folder!Started
    PROVE  FolderInv'
<1>1. worker.pc = "ended" /\ worker' = Folder!Idle /\ UNCHANGED <<source, changes, builds>>
  BY DEF Folder!Started, Folder!At
<1>2. CASE worker.ok
  BY <1>1, <1>2, CandidateFacts, MountsStep DEF Folder!Started
<1>3. CASE ~worker.ok
  <2>1. PICK main \in {"run", "gone"} : manager' = [manager EXCEPT !.main = main] /\ UNCHANGED image
    BY <1>3 DEF Folder!Started
  <2>2. ManagerAs(main, manager.thread, manager.done, manager.candidate, manager.state, manager.mounted)
    BY <2>1 DEF ManagerAs, FolderInv, ManagerTyped
  <2>3. builds' \in 0 .. MaxBuilds  BY <1>1, ManagerFacts
  <2> QED BY <1>1, <2>1, <2>2, <2>3, ManagerFacts, ManagerMoves
<1> QED BY <1>2, <1>3

LEMMA RebuildStep ==
    ASSUME FolderInv, Folder!RebuildAsync
    PROVE  FolderInv'
<1>1. builds \in Nat /\ MaxBuilds \in Nat
  BY SMTT(40), FolderAssumption, ManagerFacts
<1>2. PICK thread \in BOOLEAN, status \in {"building", "error"} :
          /\ thread <=> status = "building"
          /\ manager' = [manager EXCEPT !.done = FALSE, !.state = status, !.mounted = (image # Gone),
                                        !.thread = thread]
          /\ UNCHANGED <<source, changes, image>>
          /\ (builds < MaxBuilds /\ builds' = builds + 1) \/ builds' = builds
          /\ worker' \in {worker, Folder!Build}
  <2>1. manager.thread = FALSE /\ manager = [manager EXCEPT !.thread = FALSE]
    BY ManagerFacts DEF Folder!RebuildAsync, FolderInv, ManagerTyped
  <2>2. CASE Folder!Begin /\ manager' = [manager EXCEPT !.done = FALSE, !.state = "building",
                                                        !.mounted = (image # Gone), !.thread = TRUE]
    BY <2>2 DEF Folder!RebuildAsync, Folder!Begin
  <2>3. CASE /\ manager' = [manager EXCEPT !.done = FALSE, !.state = "error", !.mounted = (image # Gone)]
             /\ UNCHANGED <<builds, worker>>
    <3>1. manager' = [manager EXCEPT !.done = FALSE, !.state = "error", !.mounted = (image # Gone),
                                     !.thread = FALSE]
      BY <2>1, <2>3 DEF FolderInv, ManagerTyped
    <3> QED BY <2>3, <3>1 DEF Folder!RebuildAsync
  <2> QED BY <2>2, <2>3 DEF Folder!RebuildAsync, FolderInv, ManagerTyped
<1>3. builds' \in 0 .. MaxBuilds  BY <1>1, <1>2, ManagerFacts
<1>4. PICK mounted \in BOOLEAN : mounted = (image # Gone)  OBVIOUS
<1>5. ManagerAs(manager.main, thread, FALSE, manager.candidate, status, mounted)
  BY <1>2, <1>4 DEF ManagerAs, FolderInv, ManagerTyped
<1>6. manager.candidate = Gone  BY ManagerFacts DEF Folder!RebuildAsync
<1>7. manager.main \in {"new", "startup", "run", "joining", "gone"} /\ image' = image
  BY <1>2, ManagerFacts
<1>8. mounted <=> image' # Gone  BY <1>4, <1>7
<1>9. image' \in Snapshots \cup {Gone} /\ (image' # Gone => Folder!IsSnapshot(image'))
  BY <1>7, ImageStays
<1>10. /\ UNCHANGED <<source, changes>> /\ worker' \in {worker, Folder!Idle, Folder!Build}
       /\ status \in {"unmounted", "building", "mounted", "error"} /\ (status = "building" <=> thread)
  BY <1>2
<1>11. ManagerAs(manager.main, thread, FALSE, Gone, status, mounted)
  BY <1>5, <1>6
<1>12. manager.main \in {"new", "startup", "run", "joining", "gone"} /\ Gone \in Snapshots \cup {Gone}
       /\ FALSE \in BOOLEAN
  BY <1>7
<1> QED BY ZenonT(60), <1>3, <1>8, <1>9, <1>10, <1>11, <1>12, ManagerMoves

LEMMA DoneStep ==
    ASSUME FolderInv, Folder!WorkerDone
    PROVE  FolderInv'
<1>1. /\ worker.pc = "ended" /\ worker' = Folder!Idle /\ UNCHANGED <<source, changes, builds, image>>
      /\ manager.thread /\ manager' = [manager EXCEPT !.candidate = Folder!Candidate, !.done = TRUE]
  BY DEF Folder!WorkerDone, Folder!At
<1>2. ManagerAs(manager.main, manager.thread, TRUE, Folder!Candidate, manager.state, manager.mounted)
  BY <1>1 DEF ManagerAs, FolderInv, ManagerTyped
<1>3. builds' \in 0 .. MaxBuilds  BY <1>1, ManagerFacts
<1>4. /\ manager.main \in {"new", "startup", "run", "joining", "gone"}
      /\ manager.thread \in BOOLEAN /\ manager.mounted \in BOOLEAN
      /\ manager.state \in {"unmounted", "building", "mounted", "error"}
      /\ manager.state = "building" <=> manager.thread
  BY ManagerFacts
<1>5. /\ Folder!Candidate \in Snapshots \cup {Gone}
      /\ Folder!Candidate # Gone => Folder!IsSnapshot(Folder!Candidate) /\ manager.thread
  BY <1>1, CandidateFacts
<1>6. image' = image  BY <1>1
<1> PICK x : x = Folder!Candidate  OBVIOUS
<1> QED BY ZenonT(60), <1>1, <1>2, <1>3, <1>4, <1>5, <1>6, ImageStays, ManagerMoves

LEMMA PollStep ==
    ASSUME FolderInv, Folder!Poll
    PROVE  FolderInv'
<1>1. UNCHANGED <<source, changes, builds, worker>> /\ builds' \in 0 .. MaxBuilds
  BY ManagerFacts DEF Folder!Poll
<1>2. CASE manager.candidate # Gone
  BY <1>1, <1>2, ManagerFacts, MountsStep DEF Folder!Poll
<1>3. CASE manager.candidate = Gone
  <2>1. PICK mounted \in BOOLEAN : mounted = (image # Gone)  OBVIOUS
  <2>2. image' = image /\ ManagerAs(manager.main, FALSE, FALSE, Gone, "error", mounted)
    BY ZenonT(60), <1>3, <2>1 DEF Folder!Poll, ManagerAs, FolderInv, ManagerTyped
  <2> QED BY <1>1, <2>1, <2>2, ManagerFacts, ManagerMoves
<1> QED BY <1>2, <1>3

LEMMA UnmountSteps ==
    ASSUME FolderInv, Folder!Unmount \/ Folder!Shutdown
    PROVE  FolderInv'
<1>1. UNCHANGED <<source, changes, builds, worker>> /\ builds' \in 0 .. MaxBuilds
  BY ManagerFacts DEF Folder!Unmount, Folder!Shutdown
<1>2. CASE Folder!Unmount
  <2>1. /\ image' = Gone /\ ~manager.thread
        /\ ManagerAs(manager.main, manager.thread, manager.done, manager.candidate, "unmounted", FALSE)
    BY <1>2 DEF Folder!Unmount, ManagerAs, FolderInv, ManagerTyped
  <2>2. /\ manager.main \in {"new", "startup", "run", "joining", "gone"}
        /\ manager.thread \in BOOLEAN /\ manager.done \in BOOLEAN
        /\ manager.candidate \in Snapshots \cup {Gone}
        /\ manager.candidate # Gone => Folder!IsSnapshot(manager.candidate) /\ manager.thread
    BY ManagerFacts
  <2> QED BY ZenonT(60), <1>1, <2>1, <2>2, ManagerMoves
<1>3. CASE /\ image' = image /\ manager' = [manager EXCEPT !.main = "joining"]
  <2>1. ManagerAs("joining", manager.thread, manager.done, manager.candidate, manager.state,
                  manager.mounted)
    BY <1>3 DEF ManagerAs, FolderInv, ManagerTyped
  <2> QED BY <1>1, <1>3, <2>1, ManagerFacts, ManagerMoves
<1>4. CASE /\ image' = Gone
           /\ manager' = [manager EXCEPT !.main = "gone", !.thread = FALSE, !.done = FALSE,
                              !.candidate = Gone, !.state = "unmounted", !.mounted = FALSE]
  <2>1. ManagerAs("gone", FALSE, FALSE, Gone, "unmounted", FALSE)
    BY <1>4 DEF ManagerAs, FolderInv, ManagerTyped
  <2> QED BY <1>1, <1>4, <2>1, ManagerMoves
<1> QED BY <1>2, <1>3, <1>4 DEF Folder!Shutdown

LEMMA FolderInit == Folder!Init => FolderInv
<1> SUFFICES ASSUME Folder!Init PROVE FolderInv  OBVIOUS
<1>1. /\ source = [p \in Places |-> [id |-> 0, time |-> 0, body |-> 0]]
      /\ changes = 0 /\ builds = 0 /\ worker = Folder!Idle /\ image = Gone
      /\ manager = [main |-> "new", thread |-> FALSE, done |-> FALSE, candidate |-> Gone,
                    state |-> "unmounted", mounted |-> FALSE]
  <2>1. Folder!Entries \cup {Root} = Places
    BY DEF Folder!Entries, Places, AllDirs
  <2> QED BY <2>1 DEF Folder!Init
<1>2. SourceTyped
  BY <1>1, FolderAssumption DEF SourceTyped, Dated, Contents, Record, Places
<1>3. ManagerTyped /\ Folder!Coherent /\ Folder!StatusTrue
  BY <1>1 DEF ManagerTyped, Folder!Coherent, Folder!StatusTrue
<1>4. worker = [pc |-> "idle", ok |-> TRUE, at |-> Root, stack |-> <<>>, notes |-> <<>>,
                data |-> <<>>, copies |-> <<>>, goal |-> <<>>]
  BY <1>1 DEF Folder!Idle
<1>5. /\ <<>> \in Seq(StackFrame) /\ <<>> \in Seq(Nat)
      /\ <<>> \in Partial(Places, NoteType) /\ <<>> \in Partial(Files, Seq(Nat))
      /\ Root \in Places
  BY PartialEmpty DEF Places, AllDirs
<1>6. WorkerTyped  BY <1>4, <1>5 DEF WorkerTyped
<1>7. WorkerInv
  BY <1>4 DEF WorkerInv, Notes, Scanning, Scanned, Copying, Written, Ended, ScanSteps, WriteSteps,
              FileSteps
<1> QED BY <1>2, <1>3, <1>6, <1>7 DEF FolderInv

LEMMA FolderNext ==
    ASSUME FolderInv, Folder!Next
    PROVE  FolderInv'
BY ChangeStep, WorkStep, StartupSteps, StartedStep, RebuildStep, DoneStep, PollStep, UnmountSteps
   DEF Folder!Next

\* With that, what is mounted is a snapshot, and a build leaves the drive alone.
LEMMA FolderIsTrue ==
    ASSUME FolderInv
    PROVE  Folder!TypeOK /\ Folder!Coherent /\ Folder!StatusTrue
<1>1. worker.pc \in {"idle", "ended", "open", "next", "identity", "enter", "entry", "check",
                     "copy", "rest", "again", "verify", "last"}
  BY DEF FolderInv, WorkerTyped, ScanSteps, WriteSteps, FileSteps
<1>2. \A p \in Folder!Entries : source[p] = Gone \/ source[p].time <= changes
  BY DEF FolderInv, SourceTyped, Dated, Folder!Entries, Places, AllDirs
<1> QED BY <1>1, <1>2 DEF FolderInv, SourceTyped, ManagerTyped, Folder!TypeOK

LEMMA DriveIsKept ==
    ASSUME FolderInv, Folder!Next
    PROVE  Folder!KeepsDrive
<1> SUFFICES ASSUME manager.thread, manager.main = "run", manager'.main = "run", image # Gone
             PROVE  image' # Gone
  BY DEF Folder!KeepsDrive
<1>1. ManagerTyped  BY DEF FolderInv
<1>2. CASE Folder!Poll  BY <1>2 DEF Folder!Poll, Folder!Mounts
<1>3. CASE Folder!Shutdown
  <2>1. manager'.main \in {"joining", "gone"}
    BY ZenonT(60), <1>1, <1>3 DEF Folder!Shutdown, ManagerTyped
  <2> QED BY <2>1
<1>4. CASE ~Folder!Poll /\ ~Folder!Shutdown
  <2>1. CASE Folder!Work
    BY <2>1 DEF Folder!Work, Folder!Refuse, Folder!Open, Folder!CaptureTime, Folder!CaptureIdentity,
                Folder!Scanned, Folder!Enter, Folder!Entry, Folder!Leave, Folder!WriteStableFile,
                Folder!Check, Folder!Read, Folder!Verify, Folder!Copied, Folder!Fail, Folder!Becomes
  <2> QED BY <1>4, <2>1 DEF Folder!Next, Folder!Change, Folder!Startup, Folder!StartWithout,
                            Folder!Started, Folder!RebuildAsync, Folder!WorkerDone, Folder!Unmount
<1> QED BY <1>2, <1>3, <1>4
-----------------------------------------------------------------------------
\* A recording.  First what is said of numbers and of sequences.
LessThan == OpToRel(<, Nat)

LEMMA LessThanIsLess ==
    \A k \in Nat, n \in Nat : <<k, n>> \in LessThan <=> k < n
BY DEF LessThan, OpToRel

LEMMA LessThanIsWellFounded == IsWellFoundedOn(LessThan, Nat)
BY NatLessThanWellFounded DEF LessThan

\* Induction, for a set of numbers.
LEMMA SetInduction ==
    ASSUME NEW S, 0 \in S, \A n \in Nat : n \in S => n + 1 \in S
    PROVE  Nat \subseteq S
<1> DEFINE T == Nat \ S
<1> SUFFICES ASSUME T # {} PROVE FALSE  OBVIOUS
<1>1. PICK n \in T : \A k \in T : ~(<<k, n>> \in LessThan)
  <2>1. T \in SUBSET Nat  OBVIOUS
  <2> HIDE DEF T
  <2> QED BY <2>1, LessThanIsWellFounded, WFMin
<1>2. n # 0 /\ n \in Nat  OBVIOUS
<1>3. n - 1 \in Nat /\ n - 1 < n  BY <1>2
<1>4. n - 1 \notin T  BY <1>1, <1>2, <1>3, LessThanIsLess
<1> QED BY <1>2, <1>3, <1>4

LEMMA FlattensOnce ==
    ASSUME NEW s, NEW n \in Nat, NEW m \in Nat, n <= m, NEW f, Flattens(s, n, f),
           NEW g, Flattens(s, m, g)
    PROVE  \A i \in 1..n : f[i] = g[i]
<1> DEFINE S == {i \in Nat : i \in 1..n => f[i] = g[i]}
<1>1. 0 \in S  OBVIOUS
<1>2. ASSUME NEW i \in Nat, i \in S PROVE i + 1 \in S
  <2> SUFFICES ASSUME i + 1 \in 1..n PROVE f[i + 1] = g[i + 1]  OBVIOUS
  <2>1. i + 1 \in 1..m /\ (i + 1) - 1 = i /\ (i + 1 # 1 => i \in 1..n)
    OBVIOUS
  <2>2. f[i + 1] = IF i + 1 = 1 THEN s[i + 1] ELSE f[i] \o s[i + 1]
    BY ZenonT(60), <2>1 DEF Flattens
  <2>3. g[i + 1] = IF i + 1 = 1 THEN s[i + 1] ELSE g[i] \o s[i + 1]
    BY <2>1 DEF Flattens
  <2> QED BY <1>2, <2>1, <2>2, <2>3
<1>3. Nat \subseteq S
  <2> HIDE DEF S
  <2> QED BY <1>1, <1>2, SetInduction
<1> QED BY <1>3

LEMMA Flattened ==
    ASSUME NEW s, NEW n \in Nat
    PROVE  \E f : Flattens(s, n, f)
<1> DEFINE S == {k \in Nat : \E f : Flattens(s, k, f)}
<1>1. 0 \in S
  <2> DEFINE f == [i \in 1..0 |-> IF i = 1 THEN s[i] ELSE <<>>]
  <2>1. Flattens(s, 0, f)  BY DEF Flattens
  <2> QED BY <2>1
<1>2. ASSUME NEW k \in Nat, k \in S PROVE k + 1 \in S
  <2>1. PICK f : Flattens(s, k, f)  BY <1>2
  <2> DEFINE g == [i \in 1..(k + 1) |-> IF i <= k THEN f[i] ELSE IF i = 1 THEN s[i] ELSE f[k] \o s[i]]
  <2>2. ASSUME NEW i \in 1..(k + 1) PROVE g[i] = IF i = 1 THEN s[i] ELSE g[i - 1] \o s[i]
    <3>1. CASE i <= k
      <4>0. i \in 1..k  BY <3>1
      <4>1. f[i] = IF i = 1 THEN s[i] ELSE f[i - 1] \o s[i]
        BY <2>1, <4>0 DEF Flattens
      <4>2. i # 1 => g[i - 1] = f[i - 1]  BY <3>1
      <4> QED BY <3>1, <4>1, <4>2
    <3>2. CASE i = k + 1
      <4>1. i # 1 => g[i - 1] = f[k]  BY <3>2
      <4> QED BY <3>2, <4>1
    <3> QED BY <3>1, <3>2
  <2>3. Flattens(s, k + 1, g)
    <3>1. [i \in 1..(k + 1) |-> g[i]] = [i \in 1..(k + 1) |-> IF i = 1 THEN s[i] ELSE g[i - 1] \o s[i]]
      BY <2>2
    <3> QED BY <3>1 DEF Flattens
  <2> HIDE DEF g
  <2> QED BY <2>3
<1>3. Nat \subseteq S
  <2> HIDE DEF S
  <2> QED BY <1>1, <1>2, SetInduction
<1> QED BY <1>3

\* One more sequence is put behind the others.
LEMMA FlattenIs ==
    ASSUME NEW C, NEW s \in Seq(Seq(C)), s # <<>>
    PROVE  \E f : Flattens(s, Len(s), f) /\ Native!Flat(s) = f[Len(s)]
<1>1. PICK n \in Nat : Len(s) = n /\ n # 0  OBVIOUS
<1>2. Native!Flat(s) = (CHOOSE f : Flattens(s, n, f))[n]
  BY <1>1 DEF Native!Flat, Flattens
<1> QED BY <1>1, <1>2, Flattened

LEMMA FlattenAppend ==
    ASSUME NEW C, NEW s \in Seq(Seq(C)), NEW e \in Seq(C)
    PROVE  Native!Flat(Append(s, e)) = Native!Flat(s) \o e
<1> DEFINE t == Append(s, e)
<1>1. PICK n \in Nat : Len(s) = n /\ Len(t) = n + 1 /\ t[n + 1] = e /\ \A i \in 1..n : t[i] = s[i]
  OBVIOUS
<1>2. t \in Seq(Seq(C)) /\ t # <<>>
  <2>1. t \in Seq(Seq(C))  OBVIOUS
  <2>2. Len(t) # 0  BY <1>1
  <2> HIDE DEF t
  <2> QED BY <2>1, <2>2
<1> HIDE DEF t
<1>3. PICK g : Flattens(t, n + 1, g) /\ Native!Flat(t) = g[n + 1]
  BY <1>1, <1>2, FlattenIs
<1>4. g[n + 1] = IF n = 0 THEN e ELSE g[n] \o e
  <2>1. n + 1 \in 1..(n + 1) /\ (n + 1) - 1 = n  OBVIOUS
  <2>2. g[n + 1] = IF n + 1 = 1 THEN t[n + 1] ELSE g[n] \o t[n + 1]
    BY <1>3, <2>1 DEF Flattens
  <2> QED BY <1>1, <2>2
<1>5. CASE n = 0
  <2>1. s = <<>> /\ Native!Flat(s) = <<>>  BY <1>1, <1>5 DEF Native!Flat
  <2> QED BY <1>3, <1>4, <1>5, <2>1 DEF t
<1>6. CASE n # 0
  <2>1. s # <<>>  BY <1>1, <1>6
  <2>2. PICK f : Flattens(s, n, f) /\ Native!Flat(s) = f[n]
    BY <1>1, <2>1, FlattenIs
  <2>3. Flattens(t, n, f)  BY <1>1, <2>2 DEF Flattens
  <2>4. f[n] = g[n]  BY <1>3, <1>6, <2>3, FlattensOnce
  <2> QED BY <1>3, <1>4, <1>6, <2>2, <2>4 DEF t
<1> QED BY <1>5, <1>6

\* What is flattened is a sequence again.
LEMMA FlattenTyped ==
    ASSUME NEW C, NEW s \in Seq(Seq(C))
    PROVE  Native!Flat(s) \in Seq(C)
<1>1. PICK n \in Nat : Len(s) = n /\ DOMAIN s = 1..n  OBVIOUS
<1>2. CASE n = 0  BY <1>1, <1>2 DEF Native!Flat
<1>3. CASE n # 0
  <2>1. Native!Flat(s) = (CHOOSE f : Flattens(s, n, f))[n]
    BY <1>1, <1>3 DEF Native!Flat, Flattens
  <2>2. PICK f : Flattens(s, n, f) /\ Native!Flat(s) = f[n]
    BY <2>1, Flattened
  <2> DEFINE S == {i \in Nat : i \in 1..n => f[i] \in Seq(C)}
  <2>3. 0 \in S  OBVIOUS
  <2>4. ASSUME NEW i \in Nat, i \in S PROVE i + 1 \in S
    <3> SUFFICES ASSUME i + 1 \in 1..n PROVE f[i + 1] \in Seq(C)  OBVIOUS
    <3>1. (i + 1) - 1 = i /\ (i + 1 # 1 => i \in 1..n) /\ s[i + 1] \in Seq(C)
      BY <1>1
    <3>2. f[i + 1] = IF i + 1 = 1 THEN s[i + 1] ELSE f[i] \o s[i + 1]
      BY <2>2, <3>1 DEF Flattens
    <3>3. CASE i + 1 = 1  BY <3>1, <3>2, <3>3
    <3>4. CASE i + 1 # 1
      <4>1. f[i] \in Seq(C)  BY <2>4, <3>1, <3>4
      <4>2. f[i + 1] = f[i] \o s[i + 1]  BY <3>2, <3>4
      <4> QED BY <3>1, <4>1, <4>2
    <3> QED BY <3>3, <3>4
  <2>5. Nat \subseteq S
    <3> HIDE DEF S
    <3> QED BY <2>3, <2>4, SetInduction
  <2> QED BY <1>3, <2>2, <2>5
<1> QED BY <1>2, <1>3

-----------------------------------------------------------------------------
LEMMA OneMore ==
    ASSUME NEW C, NEW s \in Seq(C), NEW e \in C
    PROVE  Append(s, e) \in Seq(C) /\ Len(s) \in Nat /\ Len(Append(s, e)) = Len(s) + 1
OBVIOUS

LEMMA NoMore ==
    ASSUME NEW C, NEW s \in Seq(C)
    PROVE  s \o <<>> = s /\ (Len(s) = 0 => s = <<>>)
OBVIOUS

\* What has been said of division.
LEMMA DivisionIs ==
    ASSUME NEW a \in Int, NEW c \in Nat \ {0}
    PROVE  /\ a \div c \in Int /\ a = c * (a \div c) + (a % c)
           /\ a % c \in Nat /\ a % c < c
OBVIOUS

LEMMA ProductMonotonic ==
    ASSUME NEW a \in Int, NEW b \in Int, NEW c \in Nat, a <= b
    PROVE  a * c <= b * c
OBVIOUS

LEMMA ProductTyped ==
    ASSUME NEW a \in Int, NEW b \in Int
    PROVE  a * b \in Int /\ (a \in Nat /\ b \in Nat => a * b \in Nat) /\ a * b = b * a
OBVIOUS

LEMMA DivisionMonotonic ==
    ASSUME NEW a \in Int, NEW b \in Int, NEW c \in Nat \ {0}, a <= b
    PROVE  a \div c <= b \div c
<1>1. PICK p \in Int, q \in Int, r \in Nat, t \in Nat :
          /\ p = a \div c /\ q = b \div c /\ r = a % c /\ t = b % c
          /\ a = c * p + r /\ b = c * q + t /\ r < c /\ t < c
  BY DivisionIs
<1>2. ASSUME q < p PROVE FALSE
  <2>1. (q + 1) * c <= p * c  BY <1>2, ProductMonotonic
  <2>2. (q + 1) * c = c * q + c /\ p * c = c * p  OBVIOUS
  <2>3. PICK cp \in Int, cq \in Int : cp = c * p /\ cq = c * q
    BY ProductTyped
  <2> QED BY <1>1, <2>1, <2>2, <2>3
<1> QED BY <1>1, <1>2

\* What is divided after it was multiplied is not more than it was, though it was
\* rounded in between.
LEMMA ThereAndBack ==
    ASSUME NEW a \in Nat, NEW r \in Nat \ {0}, NEW c \in Nat \ {0}
    PROVE  /\ (a * r) \div c \in Nat
           /\ (((a * r) \div c) * c) \div r \in Nat
           /\ (((a * r) \div c) * c) \div r <= a
<1>1. PICK ar \in Nat : ar = a * r  BY ProductTyped
<1>2. PICK q \in Int, t \in Nat : q = ar \div c /\ ar = c * q + t /\ t < c
  BY <1>1, DivisionIs
<1>3. q \in Nat  BY <1>1, <1>2, DivisionMonotonic, 0 <= ar, 0 \div c = 0
<1>4. PICK qc \in Nat : qc = q * c /\ qc <= ar  BY <1>2, <1>3, ProductTyped
<1>5. qc \div r <= ar \div r /\ 0 \div r <= qc \div r
  BY <1>4, <1>1, DivisionMonotonic
<1>6. ar \div r = a
  <2>1. PICK p \in Int, u \in Nat : p = ar \div r /\ ar = r * p + u /\ u < r
    BY <1>1, DivisionIs
  <2>2. CASE p < a
    <3>1. (p + 1) * r <= a * r  BY <2>2, ProductMonotonic
    <3>2. PICK pr \in Int : pr = r * p /\ (p + 1) * r = pr + r
      BY ProductTyped
    <3> QED BY <1>1, <2>1, <3>1, <3>2
  <2>3. CASE a < p
    <3>1. (a + 1) * r <= p * r  BY <2>3, ProductMonotonic
    <3>2. PICK pr \in Int : pr = r * p /\ p * r = pr  BY ProductTyped
    <3>3. (a + 1) * r = a * r + r  OBVIOUS
    <3> QED BY <1>1, <2>1, <3>1, <3>2, <3>3
  <2> QED BY <2>1, <2>2, <2>3
<1>7. qc \div r \in Int /\ 0 \div r = 0  BY <1>4, DivisionIs
<1> QED BY <1>1, <1>2, <1>3, <1>4, <1>5, <1>6, <1>7

-----------------------------------------------------------------------------
\* The types of a recording, and what its steps keep.
LEMMA NoneIs == Native!None = -1 /\ Native!None \notin Nat
BY DEF Native!None

LEMMA RatesAre == Rate \in Nat \ {0} /\ ClockRate \in Nat \ {0} /\ Capacity \in Nat
BY RecordingAssumption

LEMMA CellsOf ==
    ASSUME NEW saved \in Seq(File)
    PROVE  /\ [i \in DOMAIN saved |-> saved[i].cells] \in Seq(Seq(Cell))
           /\ Len([i \in DOMAIN saved |-> saved[i].cells]) = Len(saved)
<1>1. PICK n \in Nat : n = Len(saved) /\ DOMAIN saved = 1..n  OBVIOUS
<1>2. ASSUME NEW i \in 1..n PROVE saved[i].cells \in Seq(Cell)
  <2>1. saved[i] \in File  BY <1>1
  <2> QED BY <2>1 DEF File
<1>3. [i \in 1..n |-> saved[i].cells] \in [1..n -> Seq(Cell)]  BY <1>2
<1>4. [i \in 1..n |-> saved[i].cells] \in Seq(Seq(Cell)) /\ Len([i \in 1..n |-> saved[i].cells]) = n
  BY <1>3
<1> QED BY <1>1, <1>4

LEMMA AllTyped ==
    ASSUME NEW x \in Machine
    PROVE  Intervals(x.saved) \in Seq(Cell) /\ x.file.cells \in Seq(Cell) /\ All(x) \in Seq(Cell)
<1>1. x.saved \in Seq(File) /\ x.file \in File  BY DEF Machine
<1>2. [i \in DOMAIN x.saved |-> x.saved[i].cells] \in Seq(Seq(Cell))
  BY <1>1, CellsOf
<1>3. Intervals(x.saved) \in Seq(Cell)  BY <1>2, FlattenTyped DEF Intervals
<1> QED BY <1>1, <1>3 DEF All, File

\* One more file.
LEMMA KeptAppend ==
    ASSUME NEW saved \in Seq(File), NEW f \in File
    PROVE  Intervals(Append(saved, f)) = Intervals(saved) \o f.cells
<1> DEFINE s == [i \in DOMAIN saved |-> saved[i].cells]
           t == [i \in DOMAIN Append(saved, f) |-> Append(saved, f)[i].cells]
<1>1. s \in Seq(Seq(Cell)) /\ f.cells \in Seq(Cell) /\ Len(s) = Len(saved)
  BY CellsOf DEF File
<1>2. t = Append(s, f.cells)
  <2>1. PICK n \in Nat : n = Len(saved) /\ DOMAIN saved = 1..n  OBVIOUS
  <2>2. /\ Append(saved, f) \in Seq(File) /\ DOMAIN Append(saved, f) = 1..(n + 1)
        /\ \A i \in 1..n : Append(saved, f)[i] = saved[i]
        /\ Append(saved, f)[n + 1] = f /\ Len(Append(saved, f)) = n + 1
    BY <2>1
  <2>3. t \in Seq(Seq(Cell)) /\ Len(t) = n + 1  BY <2>2, CellsOf
  <2>4. \A i \in 1..(n + 1) : t[i] = IF i = n + 1 THEN f.cells ELSE s[i]
    BY <2>1, <2>2
  <2>5. Len(s) = n  BY <1>1, <2>1
  <2> HIDE DEF s, t
  <2> QED BY <1>1, <2>3, <2>4, <2>5
<1> HIDE DEF s
<1>3. Intervals(Append(saved, f)) = Native!Flat(Append(s, f.cells))
  BY <1>2 DEF Intervals
<1> QED BY <1>1, <1>3, FlattenAppend DEF Intervals, s

\* An interval that follows the last one.
LEMMA ChainAppend ==
    ASSUME NEW cells \in Seq(Cell), NEW c \in Cell, Chained(cells), Proper(cells),
           c.begin < c.end, c.count > 0,
           cells # <<>> /\ cells[Len(cells)].epoch = c.epoch =>
               /\ c.begin = cells[Len(cells)].end
               /\ c.sample = cells[Len(cells)].sample + cells[Len(cells)].count
    PROVE  Chained(Append(cells, c)) /\ Proper(Append(cells, c))
<1>1. PICK n \in Nat : n = Len(cells) /\ DOMAIN cells = 1..n /\ Len(Append(cells, c)) = n + 1
  OBVIOUS
<1>2. /\ DOMAIN Append(cells, c) = 1..(n + 1) /\ Append(cells, c)[n + 1] = c
      /\ \A i \in 1..n : Append(cells, c)[i] = cells[i]
  BY <1>1
<1> DEFINE t == Append(cells, c)
<1> HIDE DEF t
<1>3. ASSUME NEW i \in 1 .. ((n + 1) - 1), t[i].epoch = t[i + 1].epoch
      PROVE  t[i + 1].begin = t[i].end /\ t[i + 1].sample = t[i].sample + t[i].count
  <2>1. CASE i = n  BY <1>1, <1>2, <1>3, <2>1 DEF t
  <2>2. CASE i # n
    <3>1. i \in 1..(n - 1) /\ i + 1 \in 1..n /\ i \in 1..n  BY <2>2
    <3> QED BY <1>1, <1>2, <1>3, <3>1 DEF t, Chained
  <2> QED BY <2>1, <2>2
<1>4. Chained(t)  BY <1>1, <1>2, <1>3 DEF Chained, t
<1>5. Proper(t)  BY <1>1, <1>2 DEF Proper, t
<1> QED BY <1>4, <1>5 DEF t

\* What stands before the last file.
LEMMA ChainFront ==
    ASSUME NEW a \in Seq(Cell), NEW b \in Seq(Cell), Chained(a \o b), Proper(a \o b)
    PROVE  Chained(a) /\ Proper(a)
<1>1. PICK n \in Nat, k \in Nat : n = Len(a) /\ k = Len(b)  OBVIOUS
<1>2. Len(a \o b) = n + k /\ \A i \in 1..n : (a \o b)[i] = a[i]  BY <1>1
<1>3. DOMAIN (a \o b) = 1..(n + k)  BY <1>2
<1> DEFINE t == a \o b
<1> HIDE DEF t
<1>4. Chained(a)
  <2>1. \A i \in 1..(n - 1) : i \in 1..n /\ i + 1 \in 1..n /\ i \in 1..((n + k) - 1)
    OBVIOUS
  <2> QED BY <1>1, <1>2, <2>1 DEF Chained, t
<1>5. Proper(a)  BY <1>1, <1>2, <1>3 DEF Proper, t
<1> QED BY <1>4, <1>5

-----------------------------------------------------------------------------
\* sound_sync
LEMMA SyncKeeps ==
    ASSUME NEW x, Base(x)
    PROVE  /\ Native!Sync(x) \in Machine
           /\ Others(Native!Sync(x)) = Others(x)
           /\ Native!Sync(x).last <= x.now /\ x.made <= Native!Sync(x).made
           /\ Native!Sync(x).fifo.read = x.fifo.read
           /\ x.fifo.next <= Native!Sync(x).fifo.next
           /\ Native!Sync(x).fifo.next <= Native!Sync(x).made
           /\ x.fifo = Native!NoSound => Native!Sync(x).fifo = Native!NoSound
<1> DEFINE y == Native!Sync(x)
           passed == x.now - x.last
           n == (passed * Rate) \div ClockRate
           back == (n * ClockRate) \div Rate
           fits == x.fifo.next + n - x.fifo.read <= Capacity
<1>1. x \in Machine /\ x.last <= x.now /\ x.fifo \in Fifo /\ {x.now, x.last, x.made} \subseteq Nat
      /\ x.fifo.next <= x.made
  BY DEF Base, Clocked, Machine
<1>2. passed \in Nat  BY <1>1
<1>3. n \in Nat /\ back \in Nat /\ back <= passed
  BY <1>2, RatesAre, ThereAndBack
<1>4. y = IF passed < Native!MinClock \/ n = 0 THEN x
          ELSE [x EXCEPT !.made = @ + n, !.last = @ + back,
                         !.fifo.active = @ /\ fits,
                         !.fifo.next = IF x.fifo.active /\ fits THEN @ + n ELSE @]
  BY DEF Native!Sync
<1> HIDE DEF y, n, back, fits
<1>5. CASE passed < Native!MinClock \/ n = 0
  <2>1. y = x  BY <1>4, <1>5
  <2>2. x.fifo.read <= x.fifo.next /\ x.fifo.next \in Nat /\ x.fifo.next <= x.fifo.next
    BY <1>1 DEF Base, Clocked, Fifo
  <2>3. x.made <= x.made  BY <1>1
  <2> QED BY <1>1, <2>1, <2>2, <2>3 DEF y
<1>6. CASE ~(passed < Native!MinClock \/ n = 0)
  <2>0. PICK count \in Nat, last \in Nat, next \in Nat, going \in BOOLEAN :
            /\ count = x.made + n /\ last = x.last + back /\ last <= x.now
            /\ going = (x.fifo.active /\ fits)
            /\ next = IF x.fifo.active /\ fits THEN x.fifo.next + n ELSE x.fifo.next
    <3>1. x.made + n \in Nat /\ x.last + back \in Nat /\ x.last + back <= x.now
      BY <1>1, <1>3
    <3>2. x.fifo.next + n \in Nat /\ x.fifo.next \in Nat
      BY <1>1, <1>3 DEF Fifo
    <3>3. (x.fifo.active /\ fits) \in BOOLEAN  OBVIOUS
    <3> QED BY <3>1, <3>2, <3>3
  <2>1. y = [x EXCEPT !.made = count, !.last = last, !.fifo.active = going, !.fifo.next = next]
    BY <1>4, <1>6, <2>0, Zenon
  <2> DEFINE fifo == [x.fifo EXCEPT !.active = going, !.next = next]
  <2>2. fifo \in Fifo /\ fifo.read = x.fifo.read /\ fifo.next = next /\ fifo.active = going
        /\ fifo.on = x.fifo.on /\ fifo.first = x.fifo.first
    BY <1>1, <2>0 DEF Fifo
  <2>3. y = [x EXCEPT !.made = count, !.last = last, !.fifo = fifo]
    BY <1>1, <2>1 DEF Machine
  <2> HIDE DEF fifo
  <2>4. y \in Machine /\ y.fifo = fifo /\ y.made = count /\ y.last = last
        /\ Others(y) = Others(x)
    BY <2>0, <2>2, <2>3, <1>1 DEF Machine, Others
  <2>5. x.fifo.next <= next /\ next <= count /\ x.made <= count
    BY <1>1, <1>3, <2>0 DEF Fifo
  <2>6. x.fifo = Native!NoSound => fifo = Native!NoSound
    <3>1. fifo = [on |-> x.fifo.on, active |-> going, first |-> x.fifo.first,
                  read |-> x.fifo.read, next |-> next]
      BY <2>2 DEF Fifo
    <3>2. ASSUME x.fifo = Native!NoSound
          PROVE  /\ ~x.fifo.on /\ ~x.fifo.active /\ x.fifo.first = 0 /\ x.fifo.read = 0
                 /\ x.fifo.next = 0
      BY <3>2 DEF Native!NoSound
    <3> QED BY <2>0, <3>1, <3>2, <1>1 DEF Native!NoSound, Fifo
  <2> QED BY <2>0, <2>2, <2>4, <2>5, <2>6 DEF y
<1> QED BY <1>5, <1>6 DEF y

-----------------------------------------------------------------------------
\* What is stored stays right when it is left alone, and when the file that is being
\* written is dropped.
LEMMA RightSame ==
    ASSUME NEW x, NEW y, x \in Machine, y \in Machine, Right(x), y.saved = x.saved, y.file = x.file,
           x.epoch <= y.epoch
    PROVE  Right(y)
<1>1. All(y) = All(x)  BY DEF All
<1>2. x.epoch \in Nat /\ y.epoch \in Nat /\ \A i \in DOMAIN All(x) : All(x)[i].epoch \in Nat
  <2>1. All(x) \in Seq(Cell)  BY AllTyped
  <2>2. ASSUME NEW i \in DOMAIN All(x) PROVE All(x)[i].epoch \in Nat
    <3>1. All(x)[i] \in Cell  BY <2>1
    <3> QED BY <3>1 DEF Cell
  <2> QED BY <2>2 DEF Machine
<1> QED BY <1>1, <1>2 DEF Right

LEMMA RightFront ==
    ASSUME NEW x, NEW y, x \in Machine, y \in Machine, Right(x), y.saved = x.saved,
           y.file.cells = <<>>, y.epoch = x.epoch
    PROVE  Right(y) /\ All(y) = Intervals(x.saved)
<1>1. Intervals(x.saved) \in Seq(Cell) /\ x.file.cells \in Seq(Cell)
  BY AllTyped
<1>2. All(y) = Intervals(x.saved)  BY <1>1 DEF All
<1>3. Chained(All(y)) /\ Proper(All(y))
  BY <1>1, <1>2, ChainFront DEF Right, All
<1>4. \A i \in DOMAIN All(y) : All(y)[i].epoch <= x.epoch
  <2>1. PICK n \in Nat, k \in Nat : n = Len(Intervals(x.saved)) /\ k = Len(x.file.cells)
    BY <1>1
  <2>2. \A i \in 1..n : i \in 1..(n + k) /\ All(x)[i] = Intervals(x.saved)[i]
    <3> DEFINE a == Intervals(x.saved)
               b == x.file.cells
    <3>1. a \in Seq(Cell) /\ b \in Seq(Cell) /\ Len(a) = n /\ Len(b) = k /\ All(x) = a \o b
      BY <1>1, <2>1 DEF All
    <3> HIDE DEF a, b
    <3>2. \A i \in 1..n : i \in 1..(n + k) /\ (a \o b)[i] = a[i]  BY <3>1
    <3> QED BY <3>1, <3>2 DEF a
  <2>3. DOMAIN All(x) = 1..(n + k) /\ DOMAIN All(y) = 1..n
    BY <1>1, <1>2, <2>1 DEF All
  <2> QED BY <1>2, <2>2, <2>3 DEF Right
<1> QED BY <1>2, <1>3, <1>4 DEF Right

LEMMA GoingSame ==
    ASSUME NEW x, NEW y, Going(x), Seen(y) = Seen(x)
    PROVE  Going(y)
<1>1. /\ y.saved = x.saved /\ y.file = x.file /\ y.epoch = x.epoch
      /\ y.s.staged = x.s.staged /\ y.s.incoming = x.s.incoming /\ y.s.primed = x.s.primed
      /\ y.s.next = x.s.next /\ y.s.accepted = x.s.accepted /\ y.s.limit = x.s.limit
      /\ y.s.first = x.s.first /\ y.s.index = x.s.index /\ y.s.writing = x.s.writing
      /\ y.s.failed = x.s.failed /\ y.s.stop = x.s.stop /\ y.s.awaiting = x.s.awaiting
      /\ y.s.auto = x.s.auto /\ y.fifo.read = x.fifo.read
  BY DEF Seen
<1>2. All(y) = All(x)  BY <1>1 DEF All
<1>3. Counts(y) /\ ~y.s.failed  BY <1>1, <1>2 DEF Going, Counts
<1>4. Linked(y)  BY <1>1, <1>2 DEF Going, Linked, Late, LastOne, Closed
<1>5. Writing(y)  BY <1>1 DEF Going, Writing, Writable, Closed
<1> QED BY <1>3, <1>4, <1>5 DEF Going

LEMMA SyncLives ==
    ASSUME NEW x, NEW y, y = Native!Sync(x)
    PROVE  /\ Base(x) => Base(y) /\ Others(y) = Others(x) /\ x.made <= y.made
           /\ Live(x) => Live(y)
           /\ Rest(x) => Rest(y)
<1>1. ASSUME Base(x)
      PROVE  /\ Base(y) /\ Others(y) = Others(x) /\ y.fifo.read = x.fifo.read
             /\ x.made <= y.made
             /\ x.fifo = Native!NoSound => y.fifo = Native!NoSound
  <2>1. /\ y \in Machine /\ Others(y) = Others(x) /\ y.last <= x.now /\ x.made <= y.made
        /\ y.fifo.read = x.fifo.read /\ x.fifo.next <= y.fifo.next /\ y.fifo.next <= y.made
        /\ x.fifo = Native!NoSound => y.fifo = Native!NoSound
    BY <1>1, SyncKeeps
  <2>2. x \in Machine /\ x.fifo \in Fifo /\ y.fifo \in Fifo /\ x.epoch \in Nat
    BY <1>1, <2>1 DEF Base, Machine
  <2>3. /\ y.now = x.now /\ y.s = x.s /\ y.tap = x.tap /\ y.shown = x.shown
        /\ y.saved = x.saved /\ y.file = x.file /\ y.epoch = x.epoch
    BY <2>1 DEF Others
  <2>4. Clocked(y)  BY <1>1, <2>1, <2>2, <2>3 DEF Base, Clocked, Fifo
  <2>5. Owned(y)  BY <1>1, <2>1, <2>3 DEF Base, Owned
  <2>6. Right(y)  BY <1>1, <2>1, <2>2, <2>3, RightSame DEF Base
  <2> QED BY <2>1, <2>4, <2>5, <2>6 DEF Base
<1>2. ASSUME Live(x) PROVE Live(y)
  <2>1. /\ Base(y) /\ Others(y) = Others(x) /\ y.fifo.read = x.fifo.read
        /\ x.fifo = Native!NoSound => y.fifo = Native!NoSound
    BY <1>1, <1>2 DEF Live, On
  <2>2. Seen(y) = Seen(x) /\ y.s = x.s /\ y.told = x.told
    BY <2>1 DEF Others, Seen
  <2>3. Going(y)  BY <1>2, <2>2, GoingSame DEF Live
  <2> QED BY <1>2, <2>1, <2>2, <2>3 DEF Live, On
<1>3. ASSUME Rest(x) PROVE Rest(y)
  <2>1. Base(x)  BY <1>3 DEF Rest, Live, On
  <2>2. /\ Base(y) /\ y.s = x.s /\ y.tap = x.tap /\ y.shown = x.shown /\ y.file = x.file
        /\ y.saved = x.saved /\ y.told = x.told /\ y.took = x.took
        /\ x.fifo = Native!NoSound => y.fifo = Native!NoSound
    BY <1>1, <2>1 DEF Others
  <2>3. CASE x.s.on  BY <1>2, <1>3, <2>2, <2>3 DEF Rest
  <2>4. CASE ~x.s.on  BY <1>3, <2>2, <2>4 DEF Rest, Quiet
  <2> QED BY <2>3, <2>4
<1> QED BY <1>1, <1>2, <1>3

\* The end of a session, whatever it comes from.
LEMMA AbortIs ==
    ASSUME NEW x, Base(x)
    PROVE  /\ Native!Abort(x) \in Machine
           /\ <<Native!Abort(x).now, Native!Abort(x).last, Native!Abort(x).made,
                Native!Abort(x).epoch, Native!Abort(x).saved, Native!Abort(x).told>>
                = <<x.now, x.last, x.made, x.epoch, x.saved, x.told>>
           /\ Native!Abort(x).fifo = Native!NoSound /\ ~Native!Abort(x).tap.active
           /\ Native!Abort(x).shown # "on" /\ Native!Abort(x).file = Native!NoFile
           /\ Native!Abort(x).s = [x.s EXCEPT !.sound = FALSE, !.writing = FALSE, !.failed = TRUE]
<1> DEFINE y == Native!StopVideo(x)
           z == Native!ReleaseSound(y)
<1>1. x \in Machine /\ x.s \in Session /\ x.fifo \in Fifo /\ x.tap \in TapState
  BY DEF Base, Machine
<1>2. /\ y \in Machine /\ ~y.tap.active /\ y.shown # "on"
      /\ <<y.now, y.last, y.made, y.epoch, y.saved, y.told, y.fifo, y.s, y.file>>
          = <<x.now, x.last, x.made, x.epoch, x.saved, x.told, x.fifo, x.s, x.file>>
  <2>1. CASE x.s.displayed
    <3>1. y = [x EXCEPT !.shown = "off"]  BY <2>1 DEF Native!StopVideo
    <3> QED BY <1>1, <2>1, <3>1 DEF Machine, Base, Owned
  <2>2. CASE ~x.s.displayed
    <3>1. PICK tap \in TapState : tap = [x.tap EXCEPT !.active = FALSE]
      BY <1>1 DEF TapState
    <3>2. y = [x EXCEPT !.tap = tap]
      BY <1>1, <2>2, <3>1 DEF Native!StopVideo, Machine
    <3>3. ~tap.active  BY <1>1, <3>1 DEF TapState
    <3> QED BY <1>1, <2>2, <3>2, <3>3 DEF Machine, Base, Owned
  <2> QED BY <2>1, <2>2
<1> HIDE DEF y
<1>3. /\ z \in Machine /\ z.fifo = Native!NoSound
      /\ <<z.now, z.last, z.made, z.epoch, z.saved, z.told, z.tap, z.shown, z.file>>
          = <<y.now, y.last, y.made, y.epoch, y.saved, y.told, y.tap, y.shown, y.file>>
      /\ z.s = [x.s EXCEPT !.sound = FALSE]
  <2>1. CASE x.s.sound
    <3>1. PICK s \in Session : s = [x.s EXCEPT !.sound = FALSE]
      BY <1>1 DEF Session
    <3>2. z = [y EXCEPT !.fifo = Native!NoSound, !.s = s]
      BY <1>1, <1>2, <2>1, <3>1 DEF Native!ReleaseSound, Machine
    <3>3. Native!NoSound \in Fifo  BY DEF Native!NoSound, Fifo
    <3> QED BY ZenonT(60), <1>2, <3>1, <3>2, <3>3 DEF Machine
  <2>2. CASE ~x.s.sound
    <3>1. z = y /\ x.fifo = Native!NoSound
      BY <1>2, <2>2 DEF Native!ReleaseSound, Base, Owned
    <3>2. x.s = [x.s EXCEPT !.sound = FALSE]  BY <1>1, <2>2 DEF Session
    <3> QED BY <1>2, <3>1, <3>2
  <2> QED BY <2>1, <2>2
<1>4. Native!Abort(x) = [z EXCEPT !.file = Native!NoFile, !.s.writing = FALSE, !.s.failed = TRUE]
  BY DEF Native!Abort, y
<1> HIDE DEF z
<1>5. PICK s \in Session : s = [x.s EXCEPT !.sound = FALSE, !.writing = FALSE, !.failed = TRUE]
  BY ZenonT(60), <1>1 DEF Session
<1>6. Native!NoFile \in File  BY DEF Native!NoFile, File
<1>7. Native!Abort(x) = [z EXCEPT !.file = Native!NoFile, !.s = s]
  BY ZenonT(60), <1>1, <1>3, <1>4, <1>5 DEF Machine
<1> QED BY ZenonT(60), <1>2, <1>3, <1>5, <1>6, <1>7 DEF Machine

LEMMA EndsIs ==
    ASSUME NEW x, Base(x), NEW word \in Words,
           word = "saved" => x.s.accepted > 0 /\ Len(Intervals(x.saved)) = x.s.accepted
    PROVE  Rest(Native!Ends(x, word)) /\ ~Native!Ends(x, word).s.on /\ Native!Ends(x, word).now = x.now
<1> DEFINE y == Native!Abort(x)
           z == Native!Ends(x, word)
<1>1. /\ y \in Machine /\ y.now = x.now /\ y.last = x.last /\ y.made = x.made
      /\ y.epoch = x.epoch /\ y.saved = x.saved
      /\ y.fifo = Native!NoSound /\ ~y.tap.active /\ y.shown # "on" /\ y.file = Native!NoFile
  BY AbortIs
<1>2. x \in Machine /\ x.s \in Session /\ x.s.accepted \in Nat
  BY DEF Base, Machine, Session
<1>3. Native!NoSession \in Session /\ ~Native!NoSession.on /\ ~Native!NoSession.displayed
  BY NoneIs DEF Native!NoSession, Session, Instant
<1> HIDE DEF y
<1>4. z = [y EXCEPT !.s = Native!NoSession, !.told = word, !.took = x.s.accepted]
  BY DEF Native!Ends, y
<1>5. /\ z \in Machine /\ z.s = Native!NoSession /\ z.told = word /\ z.took = x.s.accepted
      /\ z.now = x.now /\ z.last = x.last /\ z.made = x.made /\ z.epoch = x.epoch
      /\ z.saved = x.saved /\ z.fifo = Native!NoSound /\ ~z.tap.active /\ z.shown # "on"
      /\ z.file = Native!NoFile
  BY ZenonT(60), <1>1, <1>2, <1>3, <1>4 DEF Machine
<1> HIDE DEF z
<1>6. Clocked(z)
  <2>1. x.last <= x.now /\ x.made \in Nat  BY <1>2 DEF Base, Clocked, Machine
  <2> QED BY <1>5, <2>1 DEF Clocked, Native!NoSound
<1>7. Owned(z)  BY <1>3, <1>5 DEF Owned
<1>8. Right(z)  BY <1>2, <1>5, RightFront DEF Base, Native!NoFile
<1> QED BY <1>3, <1>5, <1>6, <1>7, <1>8 DEF Base, Rest, Quiet, z

LEMMA StartIs ==
    ASSUME NEW x, Base(x), NEW pending \in Nat, pending <= x.made, NEW fault,
           NEW y, y = Native!Start(x, pending, fault)
    PROVE  /\ Base(y) /\ Plan(y.s) = Plan(x.s)
           /\ <<y.now, y.epoch, y.gen, y.file, y.saved, y.told, y.took>>
               = <<x.now, x.epoch, x.gen, x.file, x.saved, x.told, x.took>>
<1> DEFINE fifo == [on |-> TRUE, active |-> TRUE, first |-> x.made - pending,
                    read |-> x.made - pending, next |-> x.made]
           s == [x.s EXCEPT !.sound = TRUE, !.epoch = x.epoch, !.gen = x.gen,
                            !.ticks0 = x.last, !.sample0 = x.made - 1]
           armed == [x EXCEPT !.fifo = fifo, !.s = s]
           tap == [active |-> TRUE, error |-> "ok", end |-> x.now, gen |-> x.gen, fresh |-> TRUE]
<1>1. /\ x \in Machine /\ x.s \in Session
      /\ x.made \in Nat /\ x.epoch \in Nat /\ x.gen \in Nat /\ x.last \in Nat /\ x.now \in Nat
  BY DEF Base, Machine
<1>2. fifo \in Fifo /\ fifo.read <= fifo.next /\ fifo.next = x.made
  BY <1>1 DEF Fifo
<1>3. x.made - 1 \in Int  BY <1>1
<1>4. s \in Session /\ s.sound /\ Plan(s) = Plan(x.s)
  BY <1>1, <1>3 DEF Session, Plan
<1>5. tap \in TapState  BY <1>1 DEF TapState
<1>6. \/ y = [x EXCEPT !.ok = FALSE]
      \/ y = [armed EXCEPT !.ok = FALSE]
      \/ x.s.displayed /\ y = [armed EXCEPT !.shown = "on", !.ok = TRUE]
      \/ ~x.s.displayed /\ y = [armed EXCEPT !.tap = tap, !.ok = TRUE]
  <2> DEFINE full == [x EXCEPT !.fifo = fifo, !.s.sound = TRUE, !.s.epoch = x.epoch, !.s.gen = x.gen,
                               !.s.ticks0 = x.last, !.s.sample0 = x.made - 1]
  <2>0. y = IF fault = "start" THEN Native!Bad(x)
            ELSE IF fault = "late" THEN Native!Bad(full)
            ELSE IF x.s.displayed THEN Native!Good([full EXCEPT !.shown = "on"])
            ELSE Native!Good([full EXCEPT !.tap = tap])
    BY DEF Native!Start
  <2>1. full = armed  BY ZenonT(60), <1>1 DEF Machine
  <2> HIDE DEF armed, full, tap
  <2>2. y = IF fault = "start" THEN Native!Bad(x)
            ELSE IF fault = "late" THEN Native!Bad(armed)
            ELSE IF x.s.displayed THEN Native!Good([armed EXCEPT !.shown = "on"])
            ELSE Native!Good([armed EXCEPT !.tap = tap])
    BY <2>0, <2>1
  <2>3. armed \in Machine  BY <1>1, <1>2, <1>4 DEF Machine, armed
  <2>4. /\ Native!Good([armed EXCEPT !.shown = "on"]) = [armed EXCEPT !.shown = "on", !.ok = TRUE]
        /\ Native!Good([armed EXCEPT !.tap = tap]) = [armed EXCEPT !.tap = tap, !.ok = TRUE]
    BY <2>3 DEF Native!Good, Machine
  <2> QED BY <2>2, <2>4 DEF Native!Bad
<1> HIDE DEF fifo, s, tap
<1>7. /\ y \in Machine
      /\ <<y.now, y.last, y.made, y.epoch, y.gen, y.file, y.saved, y.told, y.took>>
          = <<x.now, x.last, x.made, x.epoch, x.gen, x.file, x.saved, x.told, x.took>>
      /\ \/ y.fifo = x.fifo /\ y.s = x.s
         \/ y.fifo = fifo /\ y.s = s
      /\ IF x.s.displayed THEN y.tap = x.tap ELSE y.shown = x.shown
  <2>1. /\ armed \in Machine /\ armed.fifo = fifo /\ armed.s = s /\ armed.tap = x.tap
        /\ armed.shown = x.shown
        /\ <<armed.now, armed.last, armed.made, armed.epoch, armed.gen, armed.file, armed.saved,
             armed.told, armed.took>>
           = <<x.now, x.last, x.made, x.epoch, x.gen, x.file, x.saved, x.told, x.took>>
    BY <1>1, <1>2, <1>4 DEF Machine
  <2> HIDE DEF armed
  <2>2. CASE y = [x EXCEPT !.ok = FALSE]
    BY ZenonT(60), <1>1, <2>2 DEF Machine
  <2>3. CASE y = [armed EXCEPT !.ok = FALSE]
    BY ZenonT(60), <2>1, <2>3 DEF Machine
  <2>4. CASE x.s.displayed /\ y = [armed EXCEPT !.shown = "on", !.ok = TRUE]
    <3>1. y \in Machine  BY ZenonT(60), <2>1, <2>4 DEF Machine
    <3>2. /\ y.fifo = armed.fifo /\ y.s = armed.s /\ y.tap = armed.tap
          /\ <<y.now, y.last, y.made, y.epoch, y.gen, y.file, y.saved, y.told, y.took>>
              = <<armed.now, armed.last, armed.made, armed.epoch, armed.gen, armed.file,
                  armed.saved, armed.told, armed.took>>
      BY <2>1, <2>4 DEF Machine
    <3> QED BY <2>1, <2>4, <3>1, <3>2
  <2>5. CASE ~x.s.displayed /\ y = [armed EXCEPT !.tap = tap, !.ok = TRUE]
    BY ZenonT(60), <1>5, <2>1, <2>5 DEF Machine
  <2> QED BY <1>6, <2>2, <2>3, <2>4, <2>5
<1>8. Clocked(y)  BY <1>1, <1>2, <1>7 DEF Base, Clocked
<1>9. y.s.displayed = x.s.displayed /\ y.s.awaiting = x.s.awaiting /\ y.s.auto = x.s.auto
      /\ Plan(y.s) = Plan(x.s)
  BY <1>4, <1>7 DEF Plan
<1>10. Owned(y)  BY <1>4, <1>7, <1>9 DEF Base, Owned
<1>11. Right(y)  BY <1>1, <1>7, RightSame DEF Base
<1> QED BY <1>7, <1>8, <1>9, <1>10, <1>11 DEF Base

LEMMA LiveSame ==
    ASSUME NEW x, NEW y, Live(x), y \in Machine, Clocked(y), Owned(y), Seen(y) = Seen(x),
           y.s.on, y.told = "none", y.s.awaiting => y.fifo = Native!NoSound
    PROVE  Live(y)
<1>1. y.saved = x.saved /\ y.file = x.file /\ y.epoch = x.epoch  BY DEF Seen
<1>2. x \in Machine /\ Right(x) /\ Going(x) /\ x.epoch \in Nat
  BY DEF Live, On, Base, Machine
<1>3. Right(y)  BY <1>1, <1>2, RightSame
<1>4. Going(y)  BY <1>2, GoingSame
<1> QED BY <1>3, <1>4 DEF Live, On, Base

LEMMA CoreSame ==
    ASSUME NEW x, NEW y, y \in Machine, Core(y) = Core(x)
    PROVE  /\ Base(x) => Base(y)
           /\ On(x) => On(y)
           /\ Live(x) => Live(y)
           /\ Sealed(x) => Sealed(y)
           /\ Halted(x) => Halted(y)
           /\ Rest(x) => Rest(y)
<1>1. /\ y.now = x.now /\ y.last = x.last /\ y.made = x.made /\ y.epoch = x.epoch
      /\ y.fifo = x.fifo /\ y.tap = x.tap /\ y.shown = x.shown /\ y.s = x.s /\ y.file = x.file
      /\ y.saved = x.saved /\ y.told = x.told /\ y.took = x.took
  BY DEF Core
<1>2. All(y) = All(x)  BY <1>1 DEF All
<1>3. Base(x) => Base(y)  BY <1>1, <1>2 DEF Base, Clocked, Owned, Right
<1>4. On(x) => On(y)  BY <1>1, <1>3 DEF On
<1>5. Seen(y) = Seen(x)  BY <1>1 DEF Seen
<1>6. Live(x) => Live(y)  BY <1>1, <1>4, <1>5, GoingSame DEF Live
<1>7. Sealed(x) => Sealed(y)
  BY <1>1, <1>2, <1>4 DEF Sealed, Counts, Writable, UntilNow, Late, LastOne
<1>8. Halted(x) => Halted(y)  BY <1>1, <1>4 DEF Halted
<1>9. Rest(x) => Rest(y)  BY <1>1, <1>3, <1>6 DEF Rest, Quiet
<1> QED BY <1>3, <1>4, <1>6, <1>7, <1>8, <1>9

LEMMA OkIs ==
    ASSUME NEW x, x \in Machine, NEW b \in BOOLEAN, NEW y, y = [x EXCEPT !.ok = b]
    PROVE  /\ y \in Machine /\ y.ok = b /\ Core(y) = Core(x)
           /\ y.gen = x.gen /\ y.now = x.now /\ y.s = x.s /\ y.shown = x.shown
BY DEF Machine, Core

LEMMA AbortOn ==
    ASSUME NEW x, On(x), NEW y, y = Native!Abort(x)
    PROVE  On(y) /\ y.s.failed /\ y.now = x.now
           /\ y.s = [x.s EXCEPT !.sound = FALSE, !.writing = FALSE, !.failed = TRUE]
<1>1. /\ y \in Machine /\ y.now = x.now /\ y.last = x.last /\ y.made = x.made
      /\ y.epoch = x.epoch /\ y.saved = x.saved /\ y.told = x.told
      /\ y.fifo = Native!NoSound /\ ~y.tap.active /\ y.shown # "on" /\ y.file = Native!NoFile
      /\ y.s = [x.s EXCEPT !.sound = FALSE, !.writing = FALSE, !.failed = TRUE]
  BY AbortIs DEF On
<1>2. x \in Machine /\ x.s \in Session /\ x.made \in Nat
  BY DEF On, Base, Machine
<1>3. /\ y.s.on = x.s.on /\ y.s.failed /\ y.s.displayed = x.s.displayed
      /\ y.s.awaiting = x.s.awaiting /\ y.s.auto = x.s.auto
  BY <1>1, <1>2 DEF Session
<1>4. Right(y)  BY <1>1, <1>2, RightFront DEF On, Base, Native!NoFile
<1>5. Clocked(y)  BY <1>1, <1>2 DEF On, Base, Clocked, Native!NoSound
<1>6. Owned(y)  BY <1>1, <1>3 DEF On, Base, Owned
<1> QED BY <1>1, <1>3, <1>4, <1>5, <1>6 DEF On, Base

LEMMA BoundaryIs ==
    ASSUME NEW x, x \in Machine, NEW a \in Nat, NEW b \in Nat
    PROVE  /\ Native!Boundary(x, a) \in Int
           /\ a <= b => Native!Boundary(x, a) <= Native!Boundary(x, b)
<1>1. x.s.sample0 \in Int /\ x.s.ticks0 \in Nat  BY DEF Machine, Session
<1> DEFINE p == (a - x.s.ticks0) * Rate
           q == (b - x.s.ticks0) * Rate
<1>2. p \in Int /\ q \in Int /\ (a <= b => p <= q)
  <2>1. PICK c \in Int, e \in Int : c = a - x.s.ticks0 /\ e = b - x.s.ticks0 /\ (a <= b => c <= e)
    BY <1>1
  <2>2. c * Rate \in Int /\ e * Rate \in Int  BY RatesAre, ProductTyped
  <2>3. c <= e => c * Rate <= e * Rate  BY RatesAre, ProductMonotonic
  <2> QED BY <2>1, <2>2, <2>3
<1> HIDE DEF p, q
<1>3. /\ (p + ClockRate - 1) \div ClockRate \in Int /\ (q + ClockRate - 1) \div ClockRate \in Int
      /\ a <= b => (p + ClockRate - 1) \div ClockRate <= (q + ClockRate - 1) \div ClockRate
  <2>1. p + ClockRate - 1 \in Int /\ q + ClockRate - 1 \in Int
    BY <1>2, RatesAre
  <2>2. a <= b => p + ClockRate - 1 <= q + ClockRate - 1  BY <1>2, RatesAre
  <2> QED BY <2>1, <2>2, RatesAre, DivisionIs, DivisionMonotonic
<1>4. /\ Native!Boundary(x, a) = x.s.sample0 + ((p + ClockRate - 1) \div ClockRate)
      /\ Native!Boundary(x, b) = x.s.sample0 + ((q + ClockRate - 1) \div ClockRate)
  BY DEF Native!Boundary, Native!CeilDiv, p, q
<1>5. PICK r \in Int, t \in Int :
          /\ r = (p + ClockRate - 1) \div ClockRate /\ t = (q + ClockRate - 1) \div ClockRate
          /\ a <= b => r <= t
  BY <1>3
<1> QED BY <1>1, <1>4, <1>5

LEMMA AdvanceIs ==
    ASSUME NEW x, On(x), NEW y, y = Native!Advance(x)
    PROVE  /\ On(y) /\ Core([y EXCEPT !.s = x.s]) = Core(x) /\ y.ok = x.ok
           /\ y.s = [x.s EXCEPT !.staged = x.s.incoming, !.incoming = Native!None]
<1>1. x \in Machine /\ x.s \in Session  BY DEF On, Base, Machine
<1>2. PICK s \in Session : s = [x.s EXCEPT !.staged = x.s.incoming, !.incoming = Native!None]
  BY ZenonT(60), <1>1, NoneIs DEF Session, Instant
<1>3. y = [x EXCEPT !.s = s]  BY <1>1, <1>2 DEF Native!Advance, Machine
<1>4. /\ y \in Machine /\ y.s = s /\ Core([y EXCEPT !.s = x.s]) = Core(x) /\ y.ok = x.ok
      /\ y.now = x.now /\ y.last = x.last /\ y.made = x.made /\ y.epoch = x.epoch
      /\ y.fifo = x.fifo /\ y.tap = x.tap /\ y.shown = x.shown /\ y.file = x.file
      /\ y.saved = x.saved /\ y.told = x.told
  BY SMTT(40), <1>1, <1>3 DEF Machine, Core
<1>5. /\ s.on = x.s.on /\ s.sound = x.s.sound /\ s.displayed = x.s.displayed
      /\ s.awaiting = x.s.awaiting /\ s.auto = x.s.auto
  BY <1>1, <1>2 DEF Session
<1>6. Right(y)  BY <1>1, <1>4, RightSame DEF On, Base, Machine
<1> QED BY <1>2, <1>4, <1>5, <1>6 DEF On, Base, Clocked, Owned

\* Prime, with the frame that came first already staged.
LEMMA PrimeIs ==
    ASSUME NEW v, Live(v), ~v.s.awaiting, ~v.s.stop, v.s.staged = Native!None,
           v.s.incoming # Native!None, NEW x, x = Native!Advance(v), NEW fault,
           NEW y, y = Native!Prime(x, fault)
    PROVE  /\ On(y) /\ Manner(y) = Manner(v) /\ ~y.s.stop
           /\ y.ok => Live(y) /\ y.s.incoming = Native!None
<1>1. /\ On(x) /\ x.s = [v.s EXCEPT !.staged = v.s.incoming, !.incoming = Native!None]
      /\ x.now = v.now /\ x.last = v.last /\ x.made = v.made /\ x.epoch = v.epoch
      /\ x.fifo = v.fifo /\ x.file = v.file /\ x.saved = v.saved /\ x.told = v.told
      /\ x.tap = v.tap /\ x.shown = v.shown
  <2>1. On(v) /\ v \in Machine  BY DEF Live, On, Base
  <2>2. On(x) /\ Core([x EXCEPT !.s = v.s]) = Core(v)
        /\ x.s = [v.s EXCEPT !.staged = v.s.incoming, !.incoming = Native!None]
    BY <2>1, AdvanceIs
  <2>3. x \in Machine  BY <2>2 DEF On, Base
  <2> QED BY <2>1, <2>2, <2>3 DEF Core, Machine
<1>2. v \in Machine /\ v.s \in Session /\ x \in Machine /\ x.s \in Session /\ x.fifo \in Fifo
      /\ x.saved \in Seq(File) /\ x.epoch \in Nat
  BY <1>1 DEF Live, On, Base, Machine
<1>3. x.s.staged \in Nat /\ x.s.staged = v.s.incoming /\ x.s.incoming = Native!None
      /\ x.s.primed = v.s.primed /\ x.s.next = v.s.next /\ x.s.stop = v.s.stop
      /\ x.s.accepted = v.s.accepted /\ x.s.limit = v.s.limit /\ x.s.first = v.s.first
      /\ x.s.index = v.s.index /\ x.s.writing = v.s.writing /\ x.s.failed = v.s.failed
      /\ x.s.awaiting = v.s.awaiting /\ x.s.auto = v.s.auto /\ x.s.displayed = v.s.displayed
      /\ x.s.on = v.s.on /\ x.s.manual = v.s.manual /\ x.s.split = v.s.split
      /\ x.s.sound = v.s.sound
  BY <1>1, <1>2 DEF Session, Instant
<1>4. /\ ~v.s.failed /\ ~v.s.writing /\ v.file = Native!NoFile /\ v.s.first = v.s.accepted
      /\ v.s.primed => v.fifo.read = v.s.next
      /\ \A i \in DOMAIN v.saved : v.saved[i].index < v.s.index
  BY DEF Live, Going, Writing, Writable, Closed
<1> DEFINE first == Native!Boundary(x, x.s.staged)
           found == IF x.s.primed THEN first = x.s.next
                    ELSE x.fifo.first <= first /\ Native!Holds(x, x.fifo.first, first)
<1>5. first \in Int  BY <1>2, <1>3, BoundaryIs
<1>6. found => first \in Nat /\ first <= x.fifo.next
  BY <1>1, <1>2, <1>3, <1>4, <1>5 DEF Native!Holds, Fifo, On, Base, Clocked
<1>7. y = IF ~found THEN Native!Bad([x EXCEPT !.short = @ \/ first > x.fifo.next])
          ELSE IF fault = "writer" THEN Native!Bad([x EXCEPT !.fifo.read = first])
          ELSE Native!Good([x EXCEPT !.fifo.read = first, !.s.next = first, !.s.primed = TRUE,
                              !.s.writing = TRUE, !.file = [index |-> x.s.index, cells |-> <<>>]])
  BY Zenon DEF Native!Prime
<1> HIDE DEF first, found
<1>8. CASE ~found
  <2>1. PICK short \in BOOLEAN : short = (x.short \/ first > x.fifo.next)
    OBVIOUS
  <2>2. y = [x EXCEPT !.short = short, !.ok = FALSE]
    BY <1>2, <1>7, <1>8, <2>1 DEF Native!Bad, Machine
  <2>3. y \in Machine /\ Core(y) = Core(x) /\ ~y.ok /\ y.s = x.s /\ y.now = x.now /\ y.epoch = x.epoch
    BY ZenonT(60), <1>2, <2>2 DEF Machine, Core
  <2> QED BY <1>1, <1>3, <2>3, CoreSame DEF Manner
<1>9. ASSUME found
      PROVE  \E fifo \in Fifo :
                /\ fifo.read = first /\ fifo.next = x.fifo.next /\ fifo.on = x.fifo.on
                /\ fifo = [x.fifo EXCEPT !.read = first] /\ first \in Nat /\ first <= x.fifo.next
                /\ fifo = Native!NoSound \/ x.s.sound
  <2>1. [x.fifo EXCEPT !.read = first] \in Fifo  BY <1>2, <1>6, <1>9 DEF Fifo
  <2>2. x.fifo = Native!NoSound => [x.fifo EXCEPT !.read = first] = Native!NoSound
    <3> SUFFICES ASSUME x.fifo = Native!NoSound PROVE [x.fifo EXCEPT !.read = first] = Native!NoSound
      OBVIOUS
    <3>1. x.fifo.next = 0 /\ x.fifo.read = 0  BY DEF Native!NoSound
    <3>2. first = 0  BY <1>5, <1>6, <1>9, <3>1
    <3> QED BY <1>2, <3>1, <3>2 DEF Fifo
  <2>3. x.fifo = Native!NoSound \/ x.s.sound  BY <1>1 DEF On, Base, Owned
  <2> QED BY <1>2, <1>6, <1>9, <2>1, <2>2, <2>3 DEF Fifo
<1>10. CASE found /\ fault = "writer"
  <2>1. PICK fifo \in Fifo :
                /\ fifo.read = first /\ fifo.next = x.fifo.next
                /\ fifo = [x.fifo EXCEPT !.read = first] /\ first \in Nat /\ first <= x.fifo.next
                /\ fifo = Native!NoSound \/ x.s.sound
    BY <1>9, <1>10
  <2>2. y = [x EXCEPT !.fifo = fifo, !.ok = FALSE]
    BY <1>2, <1>7, <1>10, <2>1 DEF Native!Bad, Machine
  <2>3. /\ y \in Machine /\ ~y.ok /\ y.s = x.s /\ y.fifo = fifo /\ y.now = x.now /\ y.last = x.last
        /\ y.made = x.made /\ y.epoch = x.epoch /\ y.tap = x.tap /\ y.shown = x.shown
        /\ y.saved = x.saved /\ y.file = x.file /\ y.told = x.told
    BY ZenonT(60), <1>2, <2>2 DEF Machine
  <2>4. Right(y)  BY <1>1, <1>2, <2>3, RightSame DEF On, Base
  <2>5. Clocked(y)  BY <1>1, <2>1, <2>3 DEF On, Base, Clocked
  <2>6. Owned(y)  BY <1>1, <2>1, <2>3 DEF On, Base, Owned
  <2> QED BY <1>1, <1>3, <2>3, <2>4, <2>5, <2>6 DEF On, Base, Manner
<1>11. CASE found /\ fault # "writer"
  <2>1. PICK fifo \in Fifo :
                /\ fifo.read = first /\ fifo.next = x.fifo.next
                /\ fifo = [x.fifo EXCEPT !.read = first] /\ first \in Nat /\ first <= x.fifo.next
                /\ fifo = Native!NoSound \/ x.s.sound
    BY <1>9, <1>11
  <2>2. PICK s \in Session : s = [x.s EXCEPT !.next = first, !.primed = TRUE, !.writing = TRUE]
    BY ZenonT(60), <1>2, <1>5 DEF Session
  <2>3. PICK file \in File : file = [index |-> x.s.index, cells |-> <<>>]
    <3>1. x.s.index \in Nat /\ <<>> \in Seq(Cell)  BY <1>2 DEF Session
    <3> QED BY <3>1 DEF File
  <2>4. y = [x EXCEPT !.fifo = fifo, !.s = s, !.file = file, !.ok = TRUE]
    <3>1. y = Native!Good([x EXCEPT !.fifo.read = first, !.s.next = first, !.s.primed = TRUE,
                              !.s.writing = TRUE, !.file = file])
      BY <1>7, <1>11, <2>3
    <3>2. [x EXCEPT !.fifo.read = first, !.s.next = first, !.s.primed = TRUE,
                    !.s.writing = TRUE, !.file = file]
          = [x EXCEPT !.fifo = fifo, !.s = s, !.file = file]
      BY ZenonT(60), <1>2, <2>1, <2>2 DEF Machine
    <3> QED BY <1>2, <3>1, <3>2 DEF Native!Good, Machine
  <2>5. /\ y \in Machine /\ y.ok /\ y.s = s /\ y.fifo = fifo /\ y.now = x.now /\ y.last = x.last
        /\ y.made = x.made /\ y.epoch = x.epoch /\ y.tap = x.tap /\ y.shown = x.shown
        /\ y.saved = x.saved /\ y.file = file /\ y.told = x.told
    BY ZenonT(60), <1>2, <2>4 DEF Machine
  <2>6. /\ s.staged = v.s.incoming /\ s.incoming = Native!None /\ s.primed /\ s.next = first
        /\ s.writing /\ s.stop = v.s.stop /\ s.accepted = v.s.accepted /\ s.limit = v.s.limit
        /\ s.first = v.s.first /\ s.index = v.s.index /\ s.failed = v.s.failed
        /\ s.awaiting = v.s.awaiting /\ s.auto = v.s.auto /\ s.displayed = v.s.displayed
        /\ s.on = v.s.on /\ s.manual = v.s.manual /\ s.split = v.s.split /\ s.sound = v.s.sound
    BY <1>2, <1>3, <2>2 DEF Session
  <2>7. file.index = v.s.index /\ file.cells = <<>> /\ Len(file.cells) = 0
    BY <1>3, <2>3
  <2>8. Right(y) /\ All(y) = Intervals(x.saved)
    <3>1. Right(x) /\ x \in Machine /\ y \in Machine
      BY <1>1, <2>5 DEF On, Base
    <3>2. y.saved = x.saved /\ y.file.cells = <<>> /\ y.epoch = x.epoch
      BY <2>5, <2>7
    <3> QED BY <3>1, <3>2, RightFront
  <2>9. All(v) = Intervals(v.saved)
    BY <1>2, <1>4, RightFront DEF Native!NoFile, Live, On, Base
  <2>10. All(y) = All(v)  BY <1>1, <2>8, <2>9
  <2>11. Clocked(y)  BY <1>1, <2>1, <2>5 DEF On, Base, Clocked
  <2>12. Owned(y)  BY <1>1, <1>3, <2>1, <2>5, <2>6 DEF On, Base, Owned
  <2>13. On(y)  BY <1>1, <1>3, <2>5, <2>6, <2>8, <2>11, <2>12 DEF On, Base
  <2>14. Counts(y)  BY <2>5, <2>6, <2>10 DEF Live, Going, Counts
  <2>15. Linked(y)
    <3>1. v.s.primed => first = v.fifo.read  BY <1>3, <1>4, <1>11 DEF found
    <3>2. Late(v) => v.s.primed /\ LastOne(v).sample + LastOne(v).count = v.fifo.read
                     /\ LastOne(v).end = v.s.incoming
      BY DEF Live, Going, Linked, Closed
    <3> QED BY <1>1, <2>1, <2>5, <2>6, <2>10, <3>1, <3>2 DEF Linked, Late, LastOne
  <2>16. Writing(y)
    <3>1. v.s.accepted \in Nat  BY <1>2 DEF Session
    <3>2. \A i \in DOMAIN y.saved : y.saved[i].index < y.s.index
      BY <1>1, <1>4, <2>5, <2>6
    <3>3. \A i \in DOMAIN y.saved : y.saved[i].index <= y.s.index
      <4>1. ASSUME NEW i \in DOMAIN y.saved PROVE y.saved[i].index \in Nat
        <5>1. y.saved \in Seq(File)  BY <2>5 DEF Machine
        <5>2. y.saved[i] \in File  BY <5>1
        <5> QED BY <5>2 DEF File
      <4> QED BY <3>2, <4>1, <2>5 DEF Session
    <3>4. y.s.first + Len(y.file.cells) = y.s.accepted
      BY <1>4, <2>5, <2>6, <2>7, <3>1
    <3> QED BY <1>3, <1>4, <2>1, <2>5, <2>6, <2>7, <3>2, <3>3, <3>4, NoneIs DEF Writing, Writable
  <2> QED BY <1>1, <1>4, <2>5, <2>6, <2>13, <2>14, <2>15, <2>16 DEF Live, Going, Manner
<1> QED BY <1>8, <1>10, <1>11

\* A state whose staged frame ends at end: Commit.  What follows it is up to the caller.
LEMMA CommitIs ==
    ASSUME NEW x, Live(x), ~x.s.stop, x.s.staged # Native!None, NEW end \in Nat, NEW fault,
           NEW y, y = Native!Commit(x, end, fault)
    PROVE  /\ On(y) /\ Manner(y) = Manner(x)
           /\ y.ok =>
                /\ ~y.s.failed /\ Counts(y) /\ Writable(y)
                /\ y.s.primed /\ y.s.writing /\ y.s.staged = x.s.staged /\ y.s.incoming = x.s.incoming
                /\ All(y) # <<>> /\ LastOne(y).end = end
                /\ LastOne(y).sample + LastOne(y).count = y.fifo.read
<1>1. /\ x \in Machine /\ x.s \in Session /\ x.fifo \in Fifo /\ x.file \in File
      /\ x.saved \in Seq(File) /\ x.epoch \in Nat
      /\ x.s.staged \in Nat /\ x.s.accepted \in Nat /\ x.s.limit \in Nat /\ x.s.first \in Nat
      /\ x.s.next \in Int
  BY NoneIs DEF Live, On, Base, Machine, Session, Instant
<1>2. ~x.s.failed /\ Counts(x) /\ Linked(x) /\ Writing(x) /\ On(x) /\ Base(x)
  BY DEF Live, Going, On
<1> DEFINE from == Native!Boundary(x, x.s.staged)
           to == Native!Boundary(x, end)
           cell == [epoch |-> x.epoch, begin |-> x.s.staged, end |-> end,
                    sample |-> x.fifo.read, count |-> to - from]
           refused == \/ ~x.s.primed \/ end <= x.s.staged \/ from # x.s.next \/ to = from
                      \/ ~Native!Holds(x, from, to)
<1>3. y = IF refused THEN Native!Bad([x EXCEPT !.short = @ \/ to > x.fifo.next])
          ELSE IF fault = "submit" THEN Native!Bad([x EXCEPT !.fifo.read = to])
          ELSE Native!Good([x EXCEPT !.fifo.read = to, !.s.next = to, !.s.accepted = @ + 1,
                    !.s.stop = @ \/ (x.s.limit # 0 /\ x.s.accepted + 1 >= x.s.limit),
                    !.file.cells = Append(@, cell)])
  BY Zenon DEF Native!Commit
<1>4. from \in Int /\ to \in Int /\ (x.s.staged <= end => from <= to)
  BY <1>1, BoundaryIs
<1>5. ~refused => /\ x.s.primed /\ x.s.staged < end /\ from = x.fifo.read /\ from < to
                  /\ to \in Nat /\ to <= x.fifo.next
  BY SMTT(40), <1>1, <1>4 DEF Native!Holds, Fifo
<1> HIDE DEF from, to
<1>6. ~refused => cell \in Cell /\ cell.begin < cell.end /\ cell.count > 0 /\ cell.sample + cell.count = to
  <2> SUFFICES ASSUME ~refused
               PROVE  cell \in Cell /\ cell.begin < cell.end /\ cell.count > 0 /\ cell.sample + cell.count = to
    OBVIOUS
  <2>1. /\ x.s.staged \in Int /\ end \in Int /\ x.fifo.read \in Int /\ x.s.staged < end
        /\ from = x.fifo.read /\ from < to /\ to \in Int
    BY <1>1, <1>5 DEF Fifo
  <2>2. PICK count \in Int : count = to - from /\ count > 0 /\ x.fifo.read + count = to
    <3>1. PICK f \in Int, t \in Int : f = from /\ t = to /\ f < t /\ f = x.fifo.read
      BY <2>1
    <3>2. t - f \in Int /\ t - f > 0 /\ f + (t - f) = t  BY <3>1
    <3> QED BY <3>1, <3>2
  <2>3. cell = [epoch |-> x.epoch, begin |-> x.s.staged, end |-> end, sample |-> x.fifo.read, count |-> count]
    BY <2>2
  <2> HIDE DEF cell
  <2> QED BY <1>1, <2>1, <2>2, <2>3 DEF Cell
<1>7. cell.epoch = x.epoch /\ cell.begin = x.s.staged /\ cell.end = end /\ cell.sample = x.fifo.read
  OBVIOUS
<1> HIDE DEF cell, refused
<1>8. CASE refused
  <2>1. PICK short \in BOOLEAN : short = (x.short \/ to > x.fifo.next)
    OBVIOUS
  <2>2. y = [x EXCEPT !.short = short, !.ok = FALSE]
    BY <1>1, <1>3, <1>8, <2>1 DEF Native!Bad, Machine
  <2>3. y \in Machine /\ Core(y) = Core(x) /\ ~y.ok /\ y.s = x.s /\ y.now = x.now /\ y.epoch = x.epoch
    BY ZenonT(60), <1>1, <2>2 DEF Machine, Core
  <2> QED BY <1>2, <2>3, CoreSame DEF Manner
<1>9. ASSUME ~refused
      PROVE  \E fifo \in Fifo :
                /\ fifo = [x.fifo EXCEPT !.read = to] /\ fifo.read = to /\ fifo.next = x.fifo.next
                /\ fifo.read <= fifo.next /\ x.s.sound
  <2>1. [x.fifo EXCEPT !.read = to] \in Fifo  BY <1>1, <1>5, <1>9 DEF Fifo
  <2>2. x.fifo # Native!NoSound
    <3> SUFFICES ASSUME x.fifo = Native!NoSound PROVE FALSE  OBVIOUS
    <3>1. x.fifo.next = 0 /\ x.fifo.read = 0  BY DEF Native!NoSound
    <3> QED BY <1>4, <1>5, <1>9, <3>1
  <2>3. x.s.sound  BY <1>2, <2>2 DEF Base, Owned
  <2> QED BY <1>1, <1>5, <1>9, <2>1, <2>3 DEF Fifo
<1>10. CASE ~refused /\ fault = "submit"
  <2>1. PICK fifo \in Fifo :
                /\ fifo = [x.fifo EXCEPT !.read = to] /\ fifo.read = to /\ fifo.next = x.fifo.next
                /\ fifo.read <= fifo.next /\ x.s.sound
    BY <1>9, <1>10
  <2>2. y = [x EXCEPT !.fifo = fifo, !.ok = FALSE]
    BY <1>1, <1>3, <1>10, <2>1 DEF Native!Bad, Machine
  <2>3. /\ y \in Machine /\ ~y.ok /\ y.s = x.s /\ y.fifo = fifo /\ y.now = x.now /\ y.last = x.last
        /\ y.made = x.made /\ y.epoch = x.epoch /\ y.tap = x.tap /\ y.shown = x.shown
        /\ y.saved = x.saved /\ y.file = x.file /\ y.told = x.told
    BY ZenonT(60), <1>1, <2>2 DEF Machine
  <2>4. Right(y)  BY <1>1, <1>2, <2>3, RightSame DEF Base
  <2>5. Clocked(y)  BY <1>2, <2>1, <2>3 DEF Base, Clocked
  <2>6. Owned(y)  BY <1>2, <2>1, <2>3 DEF Base, Owned
  <2> QED BY <1>2, <2>3, <2>4, <2>5, <2>6 DEF On, Base, Manner
<1>11. CASE ~refused /\ fault # "submit"
  <2>1. PICK fifo \in Fifo :
                /\ fifo = [x.fifo EXCEPT !.read = to] /\ fifo.read = to /\ fifo.next = x.fifo.next
                /\ fifo.read <= fifo.next /\ x.s.sound
    BY <1>9, <1>11
  <2>2. PICK stop \in BOOLEAN : stop = (x.s.stop \/ (x.s.limit # 0 /\ x.s.accepted + 1 >= x.s.limit))
    OBVIOUS
  <2>3. PICK s \in Session : s = [x.s EXCEPT !.next = to, !.accepted = @ + 1, !.stop = stop]
    <3>1. x.s.accepted + 1 \in Nat  BY <1>1
    <3> QED BY ZenonT(60), <1>1, <1>4, <2>2, <3>1 DEF Session
  <2>4. PICK file \in File : file = [x.file EXCEPT !.cells = Append(@, cell)]
                             /\ file.cells = Append(x.file.cells, cell) /\ file.index = x.file.index
    <3>1. Append(x.file.cells, cell) \in Seq(Cell)
      BY <1>1, <1>6, <1>11 DEF File
    <3>2. PICK cells \in Seq(Cell) : cells = Append(x.file.cells, cell)
      BY <3>1
    <3>3. [x.file EXCEPT !.cells = cells] \in File /\ [x.file EXCEPT !.cells = cells].cells = cells
          /\ [x.file EXCEPT !.cells = cells].index = x.file.index
      BY <1>1 DEF File
    <3> QED BY <3>2, <3>3
  <2>5. y = [x EXCEPT !.fifo = fifo, !.s = s, !.file = file, !.ok = TRUE]
    BY ZenonT(60), <1>1, <1>3, <1>11, <2>1, <2>2, <2>3, <2>4 DEF Native!Good, Machine
  <2>6. /\ y \in Machine /\ y.ok /\ y.s = s /\ y.fifo = fifo /\ y.now = x.now /\ y.last = x.last
        /\ y.made = x.made /\ y.epoch = x.epoch /\ y.tap = x.tap /\ y.shown = x.shown
        /\ y.saved = x.saved /\ y.file = file /\ y.told = x.told
    BY ZenonT(60), <1>1, <2>5 DEF Machine
  <2>7. /\ s.staged = x.s.staged /\ s.incoming = x.s.incoming /\ s.primed = x.s.primed /\ s.next = to
        /\ s.writing = x.s.writing /\ s.stop = stop /\ s.accepted = x.s.accepted + 1
        /\ s.limit = x.s.limit /\ s.first = x.s.first /\ s.index = x.s.index /\ s.failed = x.s.failed
        /\ s.awaiting = x.s.awaiting /\ s.auto = x.s.auto /\ s.displayed = x.s.displayed
        /\ s.on = x.s.on /\ s.manual = x.s.manual /\ s.split = x.s.split /\ s.sound = x.s.sound
    BY <1>1, <2>3 DEF Session
  <2>8. Intervals(x.saved) \in Seq(Cell) /\ x.file.cells \in Seq(Cell) /\ All(x) \in Seq(Cell)
    BY <1>1, AllTyped
  <2>9. All(y) = Append(All(x), cell)
    <3> DEFINE a == Intervals(x.saved)
               b == x.file.cells
    <3>1. a \in Seq(Cell) /\ b \in Seq(Cell) /\ All(x) = a \o b /\ All(y) = a \o Append(b, cell)
      BY <2>4, <2>6, <2>8 DEF All
    <3> HIDE DEF a, b
    <3>2. cell \in Cell  BY <1>6, <1>11
    <3>3. PICK n \in Nat, k \in Nat : n = Len(a) /\ k = Len(b)  BY <3>1
    <3>4. a \o Append(b, cell) = Append(a \o b, cell)
      BY SMTT(40), <3>1, <3>2, <3>3
    <3> QED BY <3>1, <3>4
  <2>10. PICK n \in Nat : n = Len(All(x)) /\ Len(All(y)) = n + 1 /\ All(y)[n + 1] = cell
                           /\ DOMAIN All(y) = 1..(n + 1) /\ DOMAIN All(x) = 1..n
                           /\ \A i \in 1..n : All(y)[i] = All(x)[i]
    <3> DEFINE t == All(x)
    <3>1. t \in Seq(Cell) /\ cell \in Cell /\ All(y) = Append(t, cell)
      BY <1>6, <1>11, <2>8, <2>9
    <3> HIDE DEF t
    <3> QED BY <3>1 DEF t
  <2>11. LastOne(y) = cell /\ All(y) # <<>>  BY <2>10 DEF LastOne
  <2>12. Right(y)
    <3>1. x.s.writing /\ ~Closed(x)  BY <1>2, <1>5, <1>11 DEF Writing, Closed
    <3>2. All(x) # <<>> /\ All(x)[Len(All(x))].epoch = cell.epoch =>
              /\ cell.begin = All(x)[Len(All(x))].end
              /\ cell.sample = All(x)[Len(All(x))].sample + All(x)[Len(All(x))].count
      BY <1>2, <1>7, <3>1 DEF Linked, Late, LastOne
    <3>3. Chained(All(x)) /\ Proper(All(x)) /\ Ordered(x.saved)
      BY <1>2 DEF Base, Right
    <3>4. cell \in Cell /\ cell.begin < cell.end /\ cell.count > 0
      BY <1>6, <1>11
    <3>5. Chained(All(y)) /\ Proper(All(y))
      BY <2>8, <2>9, <3>2, <3>3, <3>4, ChainAppend
    <3>6. \A i \in DOMAIN All(y) : All(y)[i].epoch <= x.epoch
      <4>1. \A i \in 1..n : All(y)[i].epoch <= x.epoch
        BY <1>2, <2>10 DEF Base, Right
      <4>2. All(y)[n + 1].epoch <= x.epoch  BY <1>1, <1>7, <2>10
      <4> QED BY <2>10, <4>1, <4>2
    <3> QED BY <2>6, <3>3, <3>5, <3>6 DEF Right
  <2>13. Clocked(y)  BY <1>2, <2>1, <2>6 DEF Base, Clocked
  <2>14. Owned(y)  BY <1>2, <2>1, <2>6, <2>7 DEF Base, Owned
  <2>15. On(y)  BY <1>2, <2>6, <2>7, <2>12, <2>13, <2>14 DEF On, Base
  <2>16. Counts(y)
    <3>1. x.s.accepted = n /\ (x.s.limit # 0 => x.s.accepted < x.s.limit)
      BY <1>1, <1>2, <2>10 DEF Counts
    <3>2. y.s.accepted = n + 1 /\ y.s.limit = x.s.limit /\ y.s.stop = stop
      BY <2>6, <2>7, <3>1
    <3>3. PICK limit \in Nat : limit = x.s.limit  BY <1>1
    <3>4. limit # 0 => n < limit /\ (n + 1 >= limit => stop)
      BY <2>2, <3>1, <3>3
    <3>5. limit # 0 => n + 1 <= limit /\ (n + 1 = limit => stop)  BY <3>4
    <3> QED BY <2>10, <3>2, <3>3, <3>5 DEF Counts
  <2>17. Writable(y)
    <3>1. x.s.writing  BY <1>2, <1>5, <1>11 DEF Writing
    <3>2. x.file.index = x.s.index /\ x.s.first + Len(x.file.cells) = x.s.accepted
          /\ (\A i \in DOMAIN x.saved : x.saved[i].index < x.s.index)
          /\ (\A i \in DOMAIN x.saved : x.saved[i].index <= x.s.index)
      BY <1>2, <3>1 DEF Writing, Writable
    <3>3. PICK k \in Nat : k = Len(x.file.cells) /\ Len(file.cells) = k + 1
      <4>1. cell \in Cell  BY <1>6, <1>11
      <4>2. /\ Len(x.file.cells) \in Nat
            /\ Len(Append(x.file.cells, cell)) = Len(x.file.cells) + 1
        BY <2>8, <4>1, OneMore
      <4> QED BY <2>4, <4>2
    <3>4. y.s.first + Len(y.file.cells) = y.s.accepted
      <4>1. y.s.first = x.s.first /\ Len(y.file.cells) = k + 1 /\ y.s.accepted = x.s.accepted + 1
        BY <2>6, <2>7, <3>3
      <4>2. x.s.first + k = x.s.accepted  BY <3>2, <3>3
      <4>3. x.s.first + (k + 1) = x.s.accepted + 1
        <5>1. PICK a \in Nat : a = x.s.first /\ a + k = x.s.accepted
          BY <1>1, <4>2
        <5> QED BY <5>1
      <4> QED BY <4>1, <4>3
    <3> QED BY <2>1, <2>4, <2>6, <2>7, <3>1, <3>2, <3>4 DEF Writable
  <2> QED BY <1>2, <1>5, <1>6, <1>7, <1>11, <2>1, <2>6, <2>7, <2>11, <2>15, <2>16, <2>17
          DEF Manner, Writing
<1> QED BY <1>8, <1>10, <1>11

\* after_guest_exec
LEMMA AfterExecIs ==
    ASSUME NEW x, Live(x), NEW fault, NEW y, y = Native!AfterGuestExec(x, fault)
    PROVE  /\ On(y) /\ Manner(y) = Manner(x)
           /\ y.ok => Live(y) /\ (y.s.awaiting \/ Closed(y) \/ y.s.incoming = Native!None)
           /\ ~y.ok => y.s.failed \/ ~y.s.stop
<1>1. /\ On(x) /\ x \in Machine /\ x.s \in Session /\ ~x.s.failed /\ Writing(x)
  BY DEF Live, Going, On, Base, Machine
<1> DEFINE active == IF x.s.displayed THEN x.shown = "on" ELSE x.tap.active
           c == Native!Commit(x, x.s.incoming, fault)
<1>2. y = IF x.s.awaiting \/ Closed(x) THEN Native!Good(x)
          ELSE IF ~active THEN Native!Bad(Native!Abort(x))
          ELSE IF x.s.incoming = Native!None THEN Native!Good(x)
          ELSE IF x.s.staged = Native!None THEN Native!Prime(Native!Advance(x), fault)
          ELSE IF c.ok THEN Native!Advance(c) ELSE Native!Bad(Native!Abort(c))
  BY <1>1 DEF Native!AfterGuestExec, Closed
<1>3. \A b \in BOOLEAN : LET z == [x EXCEPT !.ok = b] IN
         Live(z) /\ z.ok = b /\ z.s = x.s /\ Manner(z) = Manner(x)
  <2> TAKE b \in BOOLEAN
  <2> DEFINE z == [x EXCEPT !.ok = b]
  <2>1. /\ z \in Machine /\ z.ok = b /\ Core(z) = Core(x) /\ z.s = x.s
    BY <1>1, OkIs
  <2>2. Live(z)  BY <2>1, CoreSame
  <2>3. Manner(z) = Manner(x)  BY <2>1 DEF Manner, Core
  <2> QED BY <2>1, <2>2, <2>3
<1>4. ASSUME NEW v, On(v), Manner(v) = Manner(x), NEW z, z = Native!Bad(Native!Abort(v))
      PROVE  On(z) /\ Manner(z) = Manner(x) /\ ~z.ok /\ z.s.failed
  <2>1. v \in Machine /\ v.s \in Session
    BY SMTT(40), <1>4 DEF On, Base, Machine
  <2> DEFINE a == Native!Abort(v)
  <2>2. /\ On(a) /\ a.s.failed /\ a.now = v.now /\ a.epoch = v.epoch /\ a \in Machine
        /\ a.s = [v.s EXCEPT !.sound = FALSE, !.writing = FALSE, !.failed = TRUE]
    BY <1>4, AbortOn, AbortIs DEF On
  <2>3. Manner(a) = Manner(v)  BY <2>1, <2>2 DEF Manner, Session
  <2> HIDE DEF a
  <2>4. z = [a EXCEPT !.ok = FALSE]  BY <1>4 DEF Native!Bad, a
  <2>5. z \in Machine /\ ~z.ok /\ Core(z) = Core(a) /\ z.s = a.s
    BY ZenonT(60), <2>2, <2>4, OkIs
  <2>6. Manner(z) = Manner(a)  BY <2>5 DEF Manner, Core
  <2> QED BY <1>4, <2>2, <2>3, <2>5, <2>6, CoreSame
<1> HIDE DEF active, c
<1>5. CASE x.s.awaiting \/ Closed(x)
  <2>1. y = [x EXCEPT !.ok = TRUE]  BY <1>2, <1>5 DEF Native!Good
  <2> QED BY <1>3, <1>5, <2>1 DEF Live, Closed
<1>6. CASE ~(x.s.awaiting \/ Closed(x)) /\ ~active
  <2>1. y = Native!Bad(Native!Abort(x))  BY <1>2, <1>6
  <2> QED BY <1>1, <1>4, <2>1
<1>7. CASE ~(x.s.awaiting \/ Closed(x)) /\ active /\ x.s.incoming = Native!None
  <2>1. y = [x EXCEPT !.ok = TRUE]  BY <1>2, <1>7 DEF Native!Good
  <2> QED BY <1>3, <1>7, <2>1 DEF Live
<1>8. ASSUME ~(x.s.awaiting \/ Closed(x)), x.s.incoming # Native!None
      PROVE  ~x.s.awaiting /\ ~x.s.stop
  BY <1>1, <1>8 DEF Writing, Closed
<1>9. CASE ~(x.s.awaiting \/ Closed(x)) /\ active /\ x.s.incoming # Native!None /\ x.s.staged = Native!None
  <2>1. y = Native!Prime(Native!Advance(x), fault)  BY <1>2, <1>9
  <2> QED BY <1>8, <1>9, <2>1, PrimeIs
<1>10. CASE ~(x.s.awaiting \/ Closed(x)) /\ active /\ x.s.incoming # Native!None /\ x.s.staged # Native!None
  <2>1. x.s.incoming \in Nat /\ ~x.s.stop /\ ~x.s.awaiting
    BY <1>1, <1>8, <1>10 DEF Session, Instant
  <2>2. /\ On(c) /\ Manner(c) = Manner(x)
        /\ c.ok => /\ ~c.s.failed /\ Counts(c) /\ Writable(c)
                   /\ c.s.primed /\ c.s.writing /\ c.s.incoming = x.s.incoming
                   /\ All(c) # <<>> /\ LastOne(c).end = x.s.incoming
                   /\ LastOne(c).sample + LastOne(c).count = c.fifo.read
    BY <1>10, <2>1, CommitIs DEF c
  <2>3. CASE ~c.ok  BY <1>2, <1>4, <1>10, <2>2, <2>3
  <2>4. CASE c.ok
    <3>1. y = Native!Advance(c)  BY <1>2, <1>10, <2>4
    <3>2. c \in Machine /\ c.s \in Session  BY <2>2 DEF On, Base, Machine
    <3>3. /\ On(y) /\ Core([y EXCEPT !.s = c.s]) = Core(c) /\ y.ok
          /\ y.s = [c.s EXCEPT !.staged = c.s.incoming, !.incoming = Native!None]
      BY <2>2, <2>4, <3>1, AdvanceIs
    <3>4. /\ y.now = c.now /\ y.epoch = c.epoch /\ y.fifo = c.fifo /\ y.file = c.file
          /\ y.saved = c.saved
      <4>1. y \in Machine  BY <3>3 DEF On, Base
      <4> QED BY <3>3, <4>1 DEF Core, Machine
    <3>5. /\ y.s.staged = x.s.incoming /\ y.s.incoming = Native!None
          /\ y.s.primed /\ y.s.writing /\ y.s.next = c.s.next /\ y.s.stop = c.s.stop
          /\ y.s.accepted = c.s.accepted /\ y.s.limit = c.s.limit /\ y.s.first = c.s.first
          /\ y.s.index = c.s.index /\ ~y.s.failed /\ y.s.awaiting = c.s.awaiting
          /\ y.s.auto = c.s.auto /\ y.s.displayed = c.s.displayed /\ y.s.manual = c.s.manual
          /\ y.s.split = c.s.split
      BY <2>2, <2>4, <3>2, <3>3 DEF Session
    <3>6. All(y) = All(c) /\ ~y.s.awaiting
      BY <2>1, <2>2, <3>4, <3>5 DEF All, Manner
    <3>7. Counts(y)  BY <2>2, <2>4, <3>5, <3>6 DEF Counts
    <3>8. Linked(y)
      BY <1>10, <2>2, <2>4, <3>4, <3>5, <3>6 DEF Linked, LastOne
    <3>9. Writing(y)
      BY <1>10, <2>2, <2>4, <3>4, <3>5, <3>6 DEF Writing, Writable
    <3>10. Manner(y) = Manner(c)  BY <3>4, <3>5 DEF Manner
    <3> QED BY <2>2, <3>3, <3>5, <3>6, <3>7, <3>8, <3>9, <3>10 DEF Live, Going
  <2> QED BY <2>3, <2>4
<1> QED BY <1>5, <1>6, <1>7, <1>9, <1>10

\* finish_segment: the file is kept, unless nothing is in it.
LEMMA FinishIs ==
    ASSUME NEW x, On(x), ~x.s.failed, Counts(x), Writable(x), x.ok, NEW fault,
           NEW y, y = Native!FinishSegment(x, fault)
    PROVE  /\ On(y) /\ Manner(y) = Manner(x)
           /\ y.ok => /\ y.s = [x.s EXCEPT !.writing = FALSE]
                      /\ Counts(y) /\ Writable(y) /\ y.file = Native!NoFile /\ ~y.s.failed
                      /\ All(y) = All(x) /\ y.fifo = x.fifo
<1>1. /\ x \in Machine /\ x.s \in Session /\ x.file \in File /\ x.saved \in Seq(File)
      /\ x.s.accepted \in Nat /\ x.s.first \in Nat /\ x.s.index \in Nat /\ x.epoch \in Nat
  BY DEF On, Base, Machine, Session
<1>2. CASE ~x.s.writing
  <2>1. y = x  BY <1>2 DEF Native!FinishSegment
  <2>2. x.s = [x.s EXCEPT !.writing = FALSE]  BY <1>1, <1>2 DEF Session
  <2> QED BY <1>2, <2>1, <2>2 DEF Writable
<1>3. CASE x.s.writing /\ fault = "finish"
  <2>1. PICK s \in Session : s = [x.s EXCEPT !.failed = TRUE]
    BY <1>1 DEF Session
  <2>2. y = [x EXCEPT !.s = s, !.ok = FALSE]
    BY <1>1, <1>3, <2>1 DEF Native!FinishSegment, Native!Bad, Machine
  <2>3. /\ y \in Machine /\ ~y.ok /\ y.s = s /\ y.fifo = x.fifo /\ y.now = x.now /\ y.last = x.last
        /\ y.made = x.made /\ y.epoch = x.epoch /\ y.tap = x.tap /\ y.shown = x.shown
        /\ y.saved = x.saved /\ y.file = x.file /\ y.told = x.told
    BY ZenonT(60), <1>1, <2>2 DEF Machine
  <2>4. /\ s.on = x.s.on /\ s.sound = x.s.sound /\ s.displayed = x.s.displayed /\ s.auto = x.s.auto
        /\ s.awaiting = x.s.awaiting /\ s.manual = x.s.manual /\ s.split = x.s.split
        /\ s.limit = x.s.limit
    BY <1>1, <2>1 DEF Session
  <2>5. Right(y)  BY <1>1, <2>3, RightSame DEF On, Base
  <2> QED BY <2>3, <2>4, <2>5 DEF On, Base, Clocked, Owned, Manner
<1>4. CASE x.s.writing /\ fault # "finish"
  <2> DEFINE saved == IF x.s.accepted = x.s.first THEN x.saved ELSE Append(x.saved, x.file)
  <2>1. PICK s \in Session : s = [x.s EXCEPT !.writing = FALSE]
    BY <1>1 DEF Session
  <2>2. saved \in Seq(File)  BY <1>1
  <2>3. y = [x EXCEPT !.s = s, !.file = Native!NoFile, !.saved = saved, !.ok = TRUE]
    <3> HIDE DEF saved
    <3>1. y = Native!Good([x EXCEPT !.s.writing = FALSE, !.file = Native!NoFile, !.saved = saved])
      BY <1>4, Zenon DEF Native!FinishSegment, saved
    <3> QED BY <1>1, <2>1, <2>2, <3>1 DEF Native!Good, Machine
  <2>4. Native!NoFile \in File  BY DEF Native!NoFile, File
  <2>5. PICK k \in Nat : k = Len(x.file.cells) /\ x.s.first + k = x.s.accepted
    BY <1>1, <1>4 DEF Writable, File
  <2>6. x.file.index = x.s.index /\ \A i \in DOMAIN x.saved : x.saved[i].index < x.s.index
    BY <1>4 DEF Writable
  <2>7. Intervals(saved) = All(x)
    <3>1. CASE k = 0
      <4>1. saved = x.saved /\ x.file.cells = <<>> /\ Intervals(x.saved) \in Seq(Cell)
        <5>1. x.file.cells \in Seq(Cell)  BY <1>1 DEF File
        <5>2. x.file.cells = <<>>  BY <2>5, <3>1, <5>1, NoMore
        <5>3. x.s.accepted = x.s.first  BY <1>1, <2>5, <3>1
        <5>4. Intervals(x.saved) \in Seq(Cell)  BY <1>1, AllTyped
        <5> QED BY <5>2, <5>3, <5>4
      <4> QED BY <4>1 DEF All
    <3>2. CASE k # 0
      <4>1. saved = Append(x.saved, x.file)  BY SMTT(40), <1>1, <2>5, <3>2
      <4> QED BY <1>1, <4>1, KeptAppend DEF All
    <3> QED BY <3>1, <3>2
  <2>8. Ordered(saved) /\ \A i \in DOMAIN saved : saved[i].index <= x.s.index
    <3>1. PICK n \in Nat : n = Len(x.saved) /\ DOMAIN x.saved = 1..n  BY <1>1
    <3>2. \A i \in 1..n : x.saved[i].index \in Nat
      <4>1. \A i \in 1..n : x.saved[i] \in File  BY <1>1, <3>1
      <4> QED BY <4>1 DEF File
    <3>3. Ordered(x.saved)  BY DEF On, Base, Right
    <3>4. CASE k = 0  BY SMTT(40), <1>1, <2>5, <2>6, <3>1, <3>2, <3>3, <3>4
    <3>5. CASE k # 0
      <4>1. saved = Append(x.saved, x.file) /\ x.file.cells # <<>>
        BY SMTT(40), <1>1, <2>5, <3>5
      <4>2. DOMAIN saved = 1..(n + 1) /\ saved[n + 1] = x.file /\ \A i \in 1..n : saved[i] = x.saved[i]
        BY <1>1, <3>1, <4>1
      <4> HIDE DEF saved
      <4>3. ASSUME NEW i \in 1..(n + 1)
            PROVE  /\ saved[i].cells # <<>> /\ \A j \in 1..(i - 1) : saved[j].index < saved[i].index
                   /\ saved[i].index <= x.s.index
        <5>1. CASE i = n + 1  BY <1>1, <2>6, <3>1, <4>1, <4>2, <5>1
        <5>2. CASE i # n + 1
          <6>1. i \in 1..n /\ \A j \in 1..(i - 1) : j \in 1..n  BY <5>2
          <6>2. saved[i].index <= x.s.index
            BY SMTT(40), <1>1, <2>6, <3>1, <3>2, <4>2, <6>1
          <6> QED BY <3>1, <3>3, <4>2, <6>1, <6>2 DEF Ordered
        <5> QED BY <5>1, <5>2
      <4> QED BY <4>2, <4>3 DEF Ordered
    <3> QED BY <3>4, <3>5
  <2> HIDE DEF saved
  <2>9. /\ y \in Machine /\ y.ok /\ y.s = s /\ y.fifo = x.fifo /\ y.now = x.now /\ y.last = x.last
        /\ y.made = x.made /\ y.epoch = x.epoch /\ y.tap = x.tap /\ y.shown = x.shown
        /\ y.saved = saved /\ y.file = Native!NoFile /\ y.told = x.told
    BY ZenonT(60), <1>1, <2>2, <2>3, <2>4 DEF Machine
  <2>10. /\ s.on = x.s.on /\ s.sound = x.s.sound /\ s.displayed = x.s.displayed /\ s.auto = x.s.auto
         /\ s.awaiting = x.s.awaiting /\ s.manual = x.s.manual /\ s.split = x.s.split
         /\ s.limit = x.s.limit /\ s.accepted = x.s.accepted /\ s.stop = x.s.stop /\ ~s.writing
         /\ s.failed = x.s.failed /\ s.index = x.s.index /\ s.primed = x.s.primed /\ s.next = x.s.next
    BY <1>1, <2>1 DEF Session
  <2>11. All(y) = All(x)
    <3>1. Intervals(saved) \in Seq(Cell) /\ Native!NoFile.cells = <<>>
      BY <1>1, <2>7, AllTyped DEF Native!NoFile
    <3>2. All(y) = Intervals(saved) \o <<>>  BY <2>9, <3>1 DEF All
    <3> QED BY <2>7, <3>1, <3>2, NoMore
  <2>12. Right(y)  BY <2>8, <2>9, <2>11 DEF On, Base, Right
  <2>13. On(y)  BY <2>9, <2>10, <2>12 DEF On, Base, Clocked, Owned
  <2>14. Counts(y)  BY <2>9, <2>10, <2>11 DEF Counts
  <2>15. Writable(y)  BY <2>8, <2>9, <2>10 DEF Writable
  <2> QED BY <2>1, <2>9, <2>10, <2>11, <2>13, <2>14, <2>15 DEF Manner
<1> QED BY <1>2, <1>3, <1>4

LEMMA OnSame ==
    ASSUME NEW x, On(x), NEW y, y \in Machine, Clocked(y), Owned(y), y.s.on, y.told = "none",
           y.saved = x.saved, y.file = x.file, y.epoch = x.epoch
    PROVE  On(y)
<1>1. x \in Machine /\ Right(x) /\ x.epoch \in Nat  BY DEF On, Base, Machine
<1>2. Right(y)  BY <1>1, RightSame
<1> QED BY <1>2 DEF On, Base

LEMMA StopVideoIs ==
    ASSUME NEW x, On(x), NEW y, y = Native!StopVideo(x)
    PROVE  /\ On(y) /\ y.s = x.s /\ y.ok = x.ok /\ y.now = x.now /\ y.epoch = x.epoch
           /\ y.saved = x.saved /\ y.file = x.file /\ y.fifo = x.fifo
<1>1. x \in Machine /\ x.s \in Session /\ x.tap \in TapState /\ Clocked(x) /\ Owned(x)
  BY DEF On, Base, Machine
<1>2. /\ y \in Machine /\ y.s = x.s /\ y.ok = x.ok /\ y.now = x.now /\ y.epoch = x.epoch
      /\ y.last = x.last /\ y.made = x.made /\ y.told = x.told
      /\ y.saved = x.saved /\ y.file = x.file /\ y.fifo = x.fifo
      /\ IF x.s.displayed THEN y.tap = x.tap ELSE y.shown = x.shown
  <2>1. CASE x.s.displayed
    <3>1. y = [x EXCEPT !.shown = "off"]  BY <2>1 DEF Native!StopVideo
    <3> QED BY <1>1, <2>1, <3>1 DEF Machine
  <2>2. CASE ~x.s.displayed
    <3>1. PICK tap \in TapState : tap = [x.tap EXCEPT !.active = FALSE]
      BY <1>1 DEF TapState
    <3>2. y = [x EXCEPT !.tap = tap]
      BY <1>1, <2>2, <3>1 DEF Native!StopVideo, Machine
    <3> QED BY <1>1, <2>2, <3>2 DEF Machine
  <2> QED BY <2>1, <2>2
<1>3. Clocked(y) /\ Owned(y)  BY <1>1, <1>2 DEF Clocked, Owned
<1>4. y.s.on /\ y.told = "none"  BY <1>2 DEF On
<1> QED BY <1>2, <1>3, <1>4, OnSame

\* What may follow the feeding of the last frame: the last interval, up to now.
LEMMA LastCellIs ==
    ASSUME NEW x, On(x), x.ok => Live(x) /\ ~x.s.awaiting /\ (Closed(x) \/ x.s.incoming = Native!None),
           NEW fault, NEW y, y = Native!LastCell(x, fault)
    PROVE  /\ On(y) /\ Manner(y) = Manner(x)
           /\ y.ok => ~y.s.failed /\ Counts(y) /\ Writable(y) /\ UntilNow(y)
<1>1. x \in Machine /\ x.s \in Session /\ x.now \in Nat
  BY DEF On, Base, Machine
<1>2. CASE ~x.ok  BY <1>2 DEF Native!LastCell
<1>3. CASE x.ok /\ (x.s.staged = Native!None \/ x.s.stop \/ x.now = x.s.staged)
  <2>1. y = x  BY <1>3 DEF Native!LastCell
  <2>2. ~x.s.failed /\ Counts(x) /\ Writable(x) /\ Linked(x)
    BY <1>3 DEF Live, Going, Writing
  <2>3. UntilNow(x)  BY <1>1, <1>3, <2>2, NoneIs DEF UntilNow, Linked, Closed
  <2> QED BY <2>1, <2>2, <2>3
<1>4. CASE x.ok /\ ~(x.s.staged = Native!None \/ x.s.stop \/ x.now = x.s.staged)
  <2>1. y = Native!Commit(x, x.now, fault)  BY <1>4 DEF Native!LastCell
  <2>2. Live(x) /\ ~x.s.stop /\ x.s.staged # Native!None  BY <1>4
  <2>3. /\ On(y) /\ Manner(y) = Manner(x)
        /\ y.ok => /\ ~y.s.failed /\ Counts(y) /\ Writable(y)
                   /\ y.s.primed /\ LastOne(y).end = x.now
                   /\ LastOne(y).sample + LastOne(y).count = y.fifo.read
    BY <1>1, <2>1, <2>2, CommitIs
  <2>4. y.now = x.now  BY <2>3 DEF Manner
  <2> QED BY <2>3, <2>4 DEF UntilNow
<1> QED BY <1>2, <1>3, <1>4

\* complete_boundary
LEMMA CompleteIs ==
    ASSUME NEW x, Live(x), ~x.s.awaiting, NEW fault, NEW y, y = Native!CompleteBoundary(x, fault)
    PROVE  On(y) /\ Manner(y) = Manner(x) /\ (y.ok => Sealed(y))
<1> DEFINE u == Native!Sync(x)
           v == IF ~(u.s.displayed /\ u.shown = "changed") THEN Native!AfterGuestExec(u, fault)
                ELSE IF u.s.failed \/ u.s.incoming # Native!None THEN Native!Bad(u) ELSE Native!Good(u)
           w == Native!LastCell(v, fault)
<1>1. y = Native!FinishSegment(w, fault)  BY DEF Native!CompleteBoundary
<1>2. Live(u) /\ Manner(u) = Manner(x) /\ ~u.s.awaiting
  <2>1. Base(x)  BY DEF Live, On
  <2>2. Others(u) = Others(x) /\ Live(u)  BY <2>1, SyncLives
  <2> QED BY <2>2 DEF Others, Manner
<1> HIDE DEF u
<1>3. /\ On(v) /\ Manner(v) = Manner(x)
      /\ v.ok => Live(v) /\ ~v.s.awaiting /\ (Closed(v) \/ v.s.incoming = Native!None)
  <2>1. CASE ~(u.s.displayed /\ u.shown = "changed")
    <3>1. v = Native!AfterGuestExec(u, fault)  BY <2>1
    <3>2. /\ On(v) /\ Manner(v) = Manner(u)
          /\ v.ok => Live(v) /\ (v.s.awaiting \/ Closed(v) \/ v.s.incoming = Native!None)
      BY <1>2, <3>1, AfterExecIs
    <3>3. v.s.awaiting = u.s.awaiting  BY <3>2 DEF Manner
    <3> QED BY <1>2, <3>2, <3>3
  <2>2. CASE u.s.displayed /\ u.shown = "changed"
    <3>1. u \in Machine /\ ~u.s.failed /\ On(u)
      BY <1>2 DEF Live, Going, On, Base
    <3>2. PICK b \in BOOLEAN : v = [u EXCEPT !.ok = b] /\ (b => u.s.incoming = Native!None)
      BY <2>2, <3>1 DEF Native!Good, Native!Bad
    <3>3. v \in Machine /\ v.ok = b /\ Core(v) = Core(u) /\ v.s = u.s
      BY <3>1, <3>2, OkIs
    <3>4. Live(v) /\ On(v)  BY <1>2, <3>1, <3>3, CoreSame
    <3>5. Manner(v) = Manner(u)  BY <3>3 DEF Core, Manner
    <3> QED BY <1>2, <3>2, <3>3, <3>4, <3>5
  <2> QED BY <2>1, <2>2
<1> HIDE DEF v
<1>4. /\ On(w) /\ Manner(w) = Manner(v)
      /\ w.ok => ~w.s.failed /\ Counts(w) /\ Writable(w) /\ UntilNow(w)
  BY <1>3, LastCellIs
<1> HIDE DEF w
<1>5. CASE ~w.ok  BY <1>1, <1>3, <1>4, <1>5 DEF Native!FinishSegment
<1>6. CASE w.ok
  <2>1. /\ On(y) /\ Manner(y) = Manner(w)
        /\ y.ok => /\ y.s = [w.s EXCEPT !.writing = FALSE]
                   /\ Counts(y) /\ Writable(y) /\ ~y.s.failed
                   /\ All(y) = All(w) /\ y.fifo = w.fifo
    BY <1>1, <1>4, <1>6, FinishIs
  <2>2. ASSUME y.ok PROVE Sealed(y)
    <3>1. w \in Machine /\ w.s \in Session  BY <1>4 DEF On, Base, Machine
    <3>2. y.s.primed = w.s.primed /\ y.s.stop = w.s.stop /\ ~y.s.writing
      BY <2>1, <2>2, <3>1 DEF Session
    <3>3. y.now = w.now /\ y.epoch = w.epoch  BY <2>1 DEF Manner
    <3>4. UntilNow(y)
      BY <1>4, <1>6, <2>1, <2>2, <3>2, <3>3 DEF UntilNow, Late, LastOne
    <3>5. ~y.s.awaiting  BY <1>3, <1>4, <2>1 DEF Manner
    <3> QED BY <2>1, <2>2, <3>2, <3>4, <3>5 DEF Sealed
  <2> QED BY <1>3, <1>4, <2>1, <2>2
<1> QED BY <1>5, <1>6

\* stop(): whatever comes of it, the session is over.
LEMMA StopIs ==
    ASSUME NEW x, Live(x), NEW fault, NEW y, y = Native!Stop(x, fault)
    PROVE  Rest(y) /\ ~y.s.on /\ y.now = x.now
<1> DEFINE held == x.s.displayed /\ x.shown \in {"on", "changed"}
           b == IF held THEN Native!CompleteBoundary(x, fault) ELSE Native!Good(x)
           v == Native!StopVideo(b)
           f == Native!FinishSegment(v, fault)
           word == IF ~f.ok THEN "error" ELSE IF f.s.accepted = 0 THEN "empty" ELSE "saved"
<1>1. /\ x \in Machine /\ ~x.s.failed /\ On(x) /\ Counts(x) /\ Writable(x)
      /\ x.s.displayed => ~x.s.awaiting
  BY DEF Live, Going, On, Base, Writing, Owned
<1>2. y = IF ~b.ok THEN Native!Ends(b, "error") ELSE Native!Ends(f, word)
  BY <1>1, Zenon DEF Native!Stop
<1>21. b = IF held THEN Native!CompleteBoundary(x, fault) ELSE Native!Good(x)
  OBVIOUS
<1> HIDE DEF b
<1>3. On(b) /\ b.now = x.now /\ (b.ok => ~b.s.failed /\ Counts(b) /\ Writable(b))
  <2>1. CASE held
    <3>1. b = Native!CompleteBoundary(x, fault)  BY <1>21, <2>1
    <3>2. ~x.s.awaiting  BY <1>1, <2>1
    <3>3. On(b) /\ Manner(b) = Manner(x) /\ (b.ok => Sealed(b))
      BY <3>1, <3>2, CompleteIs
    <3> QED BY <3>3 DEF Sealed, Manner
  <2>2. CASE ~held
    <3>1. b = [x EXCEPT !.ok = TRUE]  BY <1>21, <2>2 DEF Native!Good
    <3>2. b \in Machine /\ Core(b) = Core(x) /\ b.s = x.s /\ b.now = x.now
      BY ZenonT(60), <1>1, <3>1, OkIs
    <3>3. Live(b)  BY <3>2, CoreSame
    <3> QED BY <3>2, <3>3 DEF Live, Going, Writing
  <2> QED BY <2>1, <2>2
<1>4. CASE ~b.ok  BY <1>2, <1>3, <1>4, EndsIs DEF On, Words
<1>5. CASE b.ok
  <2>1. /\ On(v) /\ v.s = b.s /\ v.ok = b.ok /\ v.now = b.now
        /\ v.saved = b.saved /\ v.file = b.file /\ v.fifo = b.fifo
    BY <1>3, StopVideoIs
  <2>2. Counts(v) /\ Writable(v) /\ ~v.s.failed /\ v.ok
    BY <1>3, <1>5, <2>1 DEF Counts, Writable, All
  <2>21. f = Native!FinishSegment(v, fault)  OBVIOUS
  <2> HIDE DEF v, f
  <2>22. /\ On(f) /\ Manner(f) = Manner(v)
         /\ f.ok => /\ f.s = [v.s EXCEPT !.writing = FALSE]
                    /\ Counts(f) /\ Writable(f) /\ f.file = Native!NoFile /\ ~f.s.failed
                    /\ All(f) = All(v) /\ f.fifo = v.fifo
    BY <2>1, <2>2, <2>21, FinishIs
  <2>3. /\ On(f) /\ Manner(f) = Manner(v)
        /\ f.ok => Counts(f) /\ f.file = Native!NoFile
    BY <2>22
  <2>4. f \in Machine /\ f.s.accepted \in Nat
    BY <2>3 DEF On, Base, Machine, Session
  <2>5. word \in Words  BY DEF Words
  <2>6. word = "saved" => f.s.accepted > 0 /\ Len(Intervals(f.saved)) = f.s.accepted
    <3> SUFFICES ASSUME f.ok, f.s.accepted # 0
                 PROVE  f.s.accepted > 0 /\ Len(Intervals(f.saved)) = f.s.accepted
      OBVIOUS
    <3>1. Intervals(f.saved) \in Seq(Cell) /\ f.file.cells = <<>>
      BY <2>3, <2>4, AllTyped DEF Native!NoFile
    <3>2. All(f) = Intervals(f.saved)  BY <3>1 DEF All
    <3> QED BY <2>3, <2>4, <3>2 DEF Counts
  <2>7. Base(f) /\ f.now = x.now  BY <1>3, <2>1, <2>3 DEF On, Manner
  <2>8. y = Native!Ends(f, word)  BY <1>2, <1>5
  <2> HIDE DEF word
  <2> QED BY <2>5, <2>6, <2>7, <2>8, EndsIs
<1> QED BY <1>4, <1>5

\* A frame that has been taken: nothing was waiting, and now it does.
LEMMA TakenIs ==
    ASSUME NEW x, Live(x), ~x.s.stop, ~x.s.awaiting, x.s.incoming = Native!None,
           NEW y, y \in Machine, Clocked(y), Owned(y), y.fifo = x.fifo, y.epoch = x.epoch,
           y.saved = x.saved, y.file = x.file, y.told = x.told,
           y.s = [x.s EXCEPT !.incoming = x.now]
    PROVE  Live(y) /\ ~y.s.stop /\ ~y.s.awaiting
<1>1. x \in Machine /\ x.s \in Session /\ x.now \in Nat /\ Going(x) /\ On(x)
  BY DEF Live, On, Base, Machine
<1>2. /\ y.s.on = x.s.on /\ y.s.staged = x.s.staged /\ y.s.incoming = x.now /\ y.s.primed = x.s.primed
      /\ y.s.next = x.s.next /\ y.s.accepted = x.s.accepted /\ y.s.limit = x.s.limit
      /\ y.s.first = x.s.first /\ y.s.index = x.s.index /\ y.s.writing = x.s.writing
      /\ y.s.failed = x.s.failed /\ y.s.stop = x.s.stop /\ y.s.awaiting = x.s.awaiting
      /\ y.s.auto = x.s.auto
  BY <1>1 DEF Session
<1>3. y.s.on /\ y.told = "none"  BY <1>1, <1>2 DEF On
<1>4. On(y)  BY <1>1, <1>3, OnSame
<1>5. All(y) = All(x)  BY DEF All
<1>6. Counts(y)  BY <1>1, <1>2, <1>5 DEF Going, Counts
<1>7. Linked(y)
  <2>1. Late(x) => /\ x.s.primed /\ LastOne(x).sample + LastOne(x).count = x.fifo.read
                   /\ x.s.staged # Native!None /\ LastOne(x).end = x.s.staged
    BY <1>1 DEF Going, Linked, Closed
  <2> QED BY <1>2, <1>5, <2>1 DEF Linked, Late, LastOne
<1>8. Writing(y)  BY <1>1, <1>2 DEF Going, Writing, Writable, Closed
<1> QED BY <1>1, <1>2, <1>4, <1>6, <1>7, <1>8 DEF Live, Going

\* The tap and accept_capture: a frame is taken, or the session is as it was.
LEMMA TapSubmitIs ==
    ASSUME NEW x, Live(x), ~x.s.stop, ~x.s.awaiting, ~x.s.displayed, NEW initial \in BOOLEAN,
           NEW y, y = Native!TapSubmit(x, initial)
    PROVE  /\ Live(y) /\ ~y.s.stop /\ y.now = x.now
<1>1. /\ x \in Machine /\ x.s \in Session /\ x.tap \in TapState /\ x.now \in Nat /\ On(x)
      /\ Clocked(x) /\ Owned(x)
  BY DEF Live, On, Base, Machine
<1>2. \/ y = [x EXCEPT !.ok = FALSE]
      \/ \E kind \in {"changed", "other"} :
            y = Native!Bad([x EXCEPT !.tap.active = FALSE, !.tap.error = kind])
      \/ /\ x.s.incoming = Native!None
         /\ y = Native!Good([x EXCEPT !.s.incoming = x.now, !.tap.end = x.now, !.tap.fresh = FALSE])
  BY Zenon DEF Native!TapSubmit, Native!Bad
<1>3. CASE y = [x EXCEPT !.ok = FALSE]
  <2>1. y \in Machine /\ Core(y) = Core(x) /\ y.s = x.s /\ y.now = x.now
    BY ZenonT(60), <1>1, <1>3, OkIs
  <2> QED BY <2>1, CoreSame
<1>4. ASSUME NEW kind \in {"changed", "other"},
             y = Native!Bad([x EXCEPT !.tap.active = FALSE, !.tap.error = kind])
      PROVE  Live(y) /\ ~y.s.stop /\ y.now = x.now
  <2>1. PICK tap \in TapState : tap = [x.tap EXCEPT !.active = FALSE, !.error = kind]
    BY <1>1 DEF TapState
  <2>2. y = [x EXCEPT !.tap = tap, !.ok = FALSE]
    BY <1>1, <1>4, <2>1 DEF Native!Bad, Machine
  <2>3. /\ y \in Machine /\ y.s = x.s /\ y.fifo = x.fifo /\ y.now = x.now /\ y.last = x.last
        /\ y.made = x.made /\ y.epoch = x.epoch /\ y.shown = x.shown
        /\ y.saved = x.saved /\ y.file = x.file /\ y.told = x.told
    BY ZenonT(60), <1>1, <2>2 DEF Machine
  <2>4. Seen(y) = Seen(x)  BY <2>3 DEF Seen
  <2>5. Clocked(y) /\ Owned(y) /\ y.s.on /\ y.told = "none" /\ ~y.s.awaiting
    BY <1>1, <2>3 DEF Clocked, Owned, On
  <2> QED BY <2>3, <2>4, <2>5, LiveSame
<1>5. CASE /\ x.s.incoming = Native!None
           /\ y = Native!Good([x EXCEPT !.s.incoming = x.now, !.tap.end = x.now, !.tap.fresh = FALSE])
  <2>1. PICK tap \in TapState : tap = [x.tap EXCEPT !.end = x.now, !.fresh = FALSE]
    BY <1>1 DEF TapState
  <2>2. PICK s \in Session : s = [x.s EXCEPT !.incoming = x.now]
    BY ZenonT(60), <1>1 DEF Session, Instant
  <2>3. y = [x EXCEPT !.s = s, !.tap = tap, !.ok = TRUE]
    BY <1>1, <1>5, <2>1, <2>2 DEF Native!Good, Machine
  <2>4. /\ y \in Machine /\ y.s = s /\ y.fifo = x.fifo /\ y.now = x.now /\ y.last = x.last
        /\ y.made = x.made /\ y.epoch = x.epoch /\ y.shown = x.shown
        /\ y.saved = x.saved /\ y.file = x.file /\ y.told = x.told
    BY ZenonT(60), <1>1, <2>3 DEF Machine
  <2>5. s.displayed = x.s.displayed /\ s.sound = x.s.sound /\ s.auto = x.s.auto
        /\ s.awaiting = x.s.awaiting
    BY <1>1, <2>2 DEF Session
  <2>6. Clocked(y) /\ Owned(y)  BY <1>1, <2>4, <2>5 DEF Clocked, Owned
  <2> QED BY <1>5, <2>2, <2>4, <2>6, TakenIs
<1> QED BY <1>2, <1>3, <1>4, <1>5

LEMMA FreshTapIs ==
    ASSUME NEW now \in Nat, NEW gen \in Nat, NEW tap, tap = FreshTap(now, gen)
    PROVE  /\ tap \in TapState
           /\ tap.active /\ tap.error = "ok" /\ tap.end = now /\ tap.gen = gen /\ tap.fresh
  BY DEF FreshTap, TapState

LEMMA ReopenedIs ==
    ASSUME NEW y, Sealed(y), ~y.s.stop, ~y.s.displayed,
           NEW z, z = Reopened(y),
           NEW w, w = Native!TapSubmit(z, TRUE)
    PROVE  Live(w) /\ ~w.s.stop /\ w.now = y.now
<1>1. /\ y \in Machine /\ y.s \in Session /\ y.now \in Nat /\ y.gen \in Nat /\ On(y)
      /\ y.s.index \in Nat /\ y.s.accepted \in Nat /\ Clocked(y) /\ Owned(y)
      /\ y.saved \in Seq(File)
  BY DEF Sealed, On, Base, Machine, Session
<1>2. /\ ~y.s.failed /\ ~y.s.awaiting /\ ~y.s.writing /\ Counts(y) /\ Writable(y) /\ UntilNow(y)
  BY DEF Sealed
<1>3. PICK tap \in TapState : /\ tap = FreshTap(y.now, y.gen)
                             /\ tap.active /\ tap.error = "ok" /\ tap.end = y.now
                             /\ tap.gen = y.gen /\ tap.fresh
  BY <1>1, FreshTapIs
<1>31. PICK after \in TapState : after = [tap EXCEPT !.end = y.now, !.fresh = FALSE]
  <2>1. tap \in TapState /\ y.now \in Nat  BY <1>1
  <2> QED BY <2>1 DEF TapState
<1>4. PICK s \in Session : s = [y.s EXCEPT !.index = @ + 1, !.gen = y.gen, !.first = y.s.accepted,
                                  !.staged = Native!None, !.incoming = Native!None, !.split = FALSE]
  <2>1. y.s.index + 1 \in Nat /\ y.gen \in Nat /\ y.s.accepted \in Nat /\ Native!None \in Instant
    BY <1>1 DEF Instant
  <2>2. y.s \in Session  BY <1>1
  <2> QED BY ZenonT(60), <2>1, <2>2 DEF Session
<1>5. z = [y EXCEPT !.s = s, !.tap = tap]
  <2>1. y \in Machine  BY <1>1
  <2>2. tap = FreshTap(y.now, y.gen)  BY <1>3
  <2> QED BY ZenonT(60), <2>1, <2>2, <1>4 DEF Machine, Reopened
<1>6. /\ z \in Machine /\ z.s = s /\ z.tap = tap /\ z.fifo = y.fifo /\ z.now = y.now /\ z.last = y.last
      /\ z.made = y.made /\ z.epoch = y.epoch /\ z.shown = y.shown /\ z.gen = y.gen
      /\ z.saved = y.saved /\ z.file = y.file /\ z.told = y.told
  <2>1. y \in Machine /\ tap \in TapState /\ s \in Session  BY <1>1
  <2> QED BY ZenonT(60), <1>5, <2>1 DEF Machine
<1>7. /\ s.index = y.s.index + 1 /\ s.gen = y.gen /\ s.first = y.s.accepted
      /\ s.staged = Native!None /\ s.incoming = Native!None
      /\ s.on = y.s.on /\ s.displayed = y.s.displayed /\ s.auto = y.s.auto /\ s.limit = y.s.limit
      /\ s.sound = y.s.sound /\ s.primed = y.s.primed /\ s.next = y.s.next
      /\ s.accepted = y.s.accepted /\ s.writing = y.s.writing /\ s.failed = y.s.failed
      /\ s.stop = y.s.stop /\ s.awaiting = y.s.awaiting
  BY <1>1, <1>4 DEF Session
<1>8. PICK t \in Session : t = [s EXCEPT !.incoming = y.now]
  BY ZenonT(60), <1>1 DEF Session, Instant
<1>9. w = [z EXCEPT !.s = t, !.tap = after, !.ok = TRUE]
  <2>1. z.tap.active /\ z.gen = z.tap.gen /\ z.tap.fresh /\ z.now = z.tap.end
        /\ z.s.incoming = Native!None /\ z.gen = z.s.gen
    <3>1. z.tap = tap /\ z.gen = y.gen /\ z.now = y.now /\ z.s = s  BY <1>6
    <3> QED BY <1>3, <1>7, <3>1
  <2>2. w = Native!Good([z EXCEPT !.s.incoming = z.now, !.tap.end = z.now, !.tap.fresh = FALSE])
    BY <2>1, Zenon DEF Native!TapSubmit
  <2>3. [z.tap EXCEPT !.end = z.now, !.fresh = FALSE] = after
    <3>1. z.tap = tap /\ z.now = y.now  BY <1>6
    <3> QED BY <1>31, <3>1
  <2>4. z \in Machine /\ z.tap \in TapState /\ z.s \in Session /\ z.s = s /\ z.now = y.now
    BY <1>6
  <2>5. [z EXCEPT !.s.incoming = z.now, !.tap.end = z.now, !.tap.fresh = FALSE]
        = [z EXCEPT !.s = t, !.tap = after]
    <3>1. [z.s EXCEPT !.incoming = z.now] = t  BY <1>8, <2>4
    <3> QED BY <2>3, <2>4, <3>1 DEF Machine
  <2>6. w = [[z EXCEPT !.s = t, !.tap = after] EXCEPT !.ok = TRUE]
    BY <2>2, <2>5 DEF Native!Good
  <2>7. z \in Machine  BY <1>6
  <2> QED BY <2>6, <2>7 DEF Machine
<1>10. /\ w \in Machine /\ w.s = t /\ w.fifo = y.fifo /\ w.now = y.now /\ w.last = y.last
       /\ w.made = y.made /\ w.epoch = y.epoch /\ w.shown = y.shown
       /\ w.saved = y.saved /\ w.file = y.file /\ w.told = y.told
  <2>1. /\ w \in Machine /\ w.s = t /\ w.fifo = z.fifo /\ w.now = z.now /\ w.last = z.last
        /\ w.made = z.made /\ w.epoch = z.epoch /\ w.shown = z.shown
        /\ w.saved = z.saved /\ w.file = z.file /\ w.told = z.told
    <3>1. z \in Machine /\ after \in TapState /\ t \in Session  BY <1>6
    <3> QED BY ZenonT(60), <1>9, <3>1 DEF Machine
  <2> QED BY <1>6, <2>1
<1>11. /\ t.index = y.s.index + 1 /\ t.first = y.s.accepted
       /\ t.staged = Native!None /\ t.incoming = y.now
       /\ t.on = y.s.on /\ ~t.displayed /\ t.auto = y.s.auto /\ t.limit = y.s.limit
       /\ t.sound = y.s.sound /\ t.primed = y.s.primed /\ t.next = y.s.next
       /\ t.accepted = y.s.accepted /\ ~t.writing /\ ~t.failed /\ ~t.stop /\ ~t.awaiting
  BY <1>2, <1>7, <1>8 DEF Session
<1>12. On(w)
  <2>1. Clocked(w) /\ Owned(w) /\ w.s.on /\ w.told = "none"
    BY ZenonT(60), <1>1, <1>10, <1>11 DEF On, Clocked, Owned
  <2> QED BY <1>1, <1>10, <2>1, OnSame
<1>13. All(w) = All(y)  BY <1>10 DEF All
<1>14. Counts(w)  BY <1>2, <1>10, <1>11, <1>13 DEF Counts
<1>15. Linked(w)
  BY ZenonT(60), <1>1, <1>2, <1>10, <1>11, <1>13, NoneIs DEF Linked, UntilNow, Late, LastOne
<1>16. Writing(w)
  <2>1. ASSUME NEW i \in DOMAIN y.saved PROVE y.saved[i].index < y.s.index + 1
    <3>1. y.saved[i] \in File  BY <1>1
    <3>2. y.saved[i].index \in Nat /\ y.saved[i].index <= y.s.index
      BY <1>2, <3>1 DEF File, Writable
    <3> QED BY <1>1, <3>2
  <2>2. \A i \in DOMAIN y.saved : y.saved[i].index <= y.s.index + 1
    <3>1. \A i \in DOMAIN y.saved : y.saved[i] \in File  BY <1>1
    <3> QED BY SMTT(40), <1>1, <2>1, <3>1 DEF File
  <2> QED BY <1>2, <1>10, <1>11, <2>1, <2>2 DEF Writing, Writable, Closed
<1> QED BY <1>10, <1>11, <1>12, <1>14, <1>15, <1>16 DEF Live, Going

LEMMA SplitIs ==
    ASSUME NEW x, Live(x), ~x.s.awaiting, ~x.s.displayed, x.s.auto, NEW fault,
           NEW y, y = Native!Split(x, fault)
    PROVE  Taken(x, y)
<1> DEFINE b == Native!CompleteBoundary(x, fault)
<1>1. On(b) /\ Manner(b) = Manner(x) /\ (b.ok => Sealed(b))  BY CompleteIs
<1>2. y = IF ~b.ok THEN b
          ELSE IF b.s.stop \/ b.s.manual THEN [b EXCEPT !.tap.active = FALSE, !.s.stop = TRUE]
          ELSE Native!TapSubmit([b EXCEPT
                !.s.index = @ + 1, !.s.gen = b.gen, !.s.first = b.s.accepted,
                !.s.staged = Native!None, !.s.incoming = Native!None, !.s.split = FALSE,
                !.tap = [active |-> TRUE, error |-> "ok", end |-> b.now, gen |-> b.gen,
                         fresh |-> TRUE]], TRUE)
  BY DEF Native!Split
<1>21. b.ok /\ ~b.s.stop /\ ~b.s.manual => y = Native!TapSubmit(Reopened(b), TRUE)
  BY <1>2 DEF Reopened, FreshTap
<1> HIDE DEF b
<1>3. /\ b \in Machine /\ b.s \in Session /\ b.tap \in TapState /\ b.now = x.now /\ ~b.s.displayed
      /\ ~b.s.awaiting /\ Clocked(b) /\ Owned(b)
  BY <1>1 DEF Manner, On, Base, Machine
<1>4. CASE ~b.ok  BY <1>1, <1>2, <1>3, <1>4 DEF Taken
<1>5. CASE b.ok /\ (b.s.stop \/ b.s.manual)
  <2>1. PICK s \in Session : s = [b.s EXCEPT !.stop = TRUE]
    BY <1>3 DEF Session
  <2>2. PICK tap \in TapState : tap = [b.tap EXCEPT !.active = FALSE]
    BY <1>3 DEF TapState
  <2>3. y = [b EXCEPT !.tap = tap, !.s = s]
    BY <1>2, <1>3, <1>5, <2>1, <2>2 DEF Machine
  <2>4. /\ y \in Machine /\ y.s = s /\ y.fifo = b.fifo /\ y.now = b.now /\ y.last = b.last
        /\ y.made = b.made /\ y.epoch = b.epoch /\ y.shown = b.shown
        /\ y.saved = b.saved /\ y.file = b.file /\ y.told = b.told
    BY ZenonT(60), <1>3, <2>3 DEF Machine
  <2>5. /\ s.on = b.s.on /\ s.displayed = b.s.displayed /\ s.auto = b.s.auto /\ s.limit = b.s.limit
        /\ s.sound = b.s.sound /\ s.primed = b.s.primed /\ s.next = b.s.next /\ s.first = b.s.first
        /\ s.index = b.s.index /\ s.staged = b.s.staged
        /\ s.accepted = b.s.accepted /\ s.writing = b.s.writing /\ s.failed = b.s.failed
        /\ s.stop /\ s.awaiting = b.s.awaiting
    BY <1>3, <2>1 DEF Session
  <2>6. On(y)
    <3>1. Clocked(y) /\ Owned(y) /\ y.s.on /\ y.told = "none"
      BY <1>1, <1>3, <2>4, <2>5 DEF On, Clocked, Owned
    <3> QED BY <1>1, <2>4, <3>1, OnSame
  <2>7. All(y) = All(b)  BY <2>4 DEF All
  <2>8. /\ Counts(b) /\ Writable(b) /\ ~b.s.failed /\ ~b.s.writing
    BY <1>1, <1>5 DEF Sealed
  <2>9. Counts(y)  BY <2>4, <2>5, <2>7, <2>8 DEF Counts
  <2>10. Closed(y)  BY <2>4, <2>5, <2>8 DEF Closed
  <2>11. Linked(y)  BY <2>10 DEF Linked
  <2>12. Writing(y)  BY <1>3, <2>4, <2>5, <2>8, <2>10 DEF Writing, Writable
  <2> QED BY <1>3, <2>4, <2>5, <2>6, <2>8, <2>9, <2>11, <2>12 DEF Taken, Live, Going
<1>6. CASE b.ok /\ ~b.s.stop /\ ~b.s.manual
  <2>1. Live(y) /\ ~y.s.stop /\ y.now = b.now
    BY <1>1, <1>21, <1>3, <1>6, ReopenedIs
  <2> QED BY <1>3, <2>1 DEF Taken, Live
<1> QED BY <1>4, <1>5, <1>6

\* The first frame after a reset.
LEMMA RearmIs ==
    ASSUME NEW x, Live(x), x.s.awaiting, ~x.s.stop, ~x.s.displayed,
           NEW pending \in Nat, pending <= x.made, NEW fault,
           NEW y, y = Native!Rearm(x, pending, fault)
    PROVE  Taken(x, y)
<1>1. /\ x \in Machine /\ x.s \in Session /\ Going(x) /\ On(x) /\ Clocked(x) /\ Owned(x) /\ Base(x)
      /\ x.fifo = Native!NoSound /\ x.s.auto
  BY DEF Live, Going, Writing, On, Base, Machine
<1>2. ~Late(x)  BY <1>1 DEF Going, Linked, Writing, Closed
<1>3. CASE x.s.manual
  <2>1. PICK s \in Session : s = [x.s EXCEPT !.stop = TRUE]
    BY <1>1 DEF Session
  <2>2. y = [x EXCEPT !.s = s, !.ok = TRUE]
    BY <1>1, <1>3, <2>1 DEF Native!Rearm, Native!Good, Machine
  <2>3. /\ y \in Machine /\ y.s = s /\ y.fifo = x.fifo /\ y.now = x.now /\ y.last = x.last
        /\ y.made = x.made /\ y.epoch = x.epoch /\ y.shown = x.shown /\ y.tap = x.tap
        /\ y.saved = x.saved /\ y.file = x.file /\ y.told = x.told
    BY ZenonT(60), <1>1, <2>2 DEF Machine
  <2>4. /\ s.on = x.s.on /\ s.displayed = x.s.displayed /\ s.auto = x.s.auto /\ s.limit = x.s.limit
        /\ s.sound = x.s.sound /\ s.primed = x.s.primed /\ s.next = x.s.next /\ s.first = x.s.first
        /\ s.index = x.s.index /\ s.staged = x.s.staged /\ s.incoming = x.s.incoming
        /\ s.accepted = x.s.accepted /\ s.writing = x.s.writing /\ s.failed = x.s.failed
        /\ s.stop /\ s.awaiting = x.s.awaiting
    BY ZenonT(60), <1>1, <2>1 DEF Session
  <2>5. On(y)
    <3>1. Clocked(y) /\ Owned(y) /\ y.s.on /\ y.told = "none"
      BY <1>1, <2>3, <2>4 DEF On, Clocked, Owned
    <3> QED BY <1>1, <2>3, <3>1, OnSame
  <2>6. All(y) = All(x)  BY <2>3 DEF All
  <2>7. Counts(y) /\ ~y.s.failed  BY <1>1, <2>3, <2>4, <2>6 DEF Going, Counts
  <2>8. Linked(y)  BY <1>2, <2>3, <2>6 DEF Linked, Late
  <2>9. Writing(y) /\ ~y.s.writing
    BY <1>1, <2>3, <2>4 DEF Going, Writing, Writable, Closed
  <2> QED BY <1>1, <2>3, <2>4, <2>5, <2>7, <2>8, <2>9 DEF Taken, Live, Going
<1>4. CASE ~x.s.manual
  <2> DEFINE b == Native!Start(x, pending, fault)
             z == [b EXCEPT !.s.awaiting = FALSE, !.s.split = FALSE]
  <2>1. y = IF ~b.ok THEN b ELSE Native!TapSubmit(z, TRUE)
    BY <1>4 DEF Native!Rearm
  <2>2. /\ Base(b) /\ Plan(b.s) = Plan(x.s) /\ b.now = x.now /\ b.epoch = x.epoch
        /\ b.file = x.file /\ b.saved = x.saved /\ b.told = x.told
    BY <1>1, StartIs
  <2>3. On(b)  BY <1>1, <2>2 DEF On, Plan
  <2> HIDE DEF b
  <2>4. CASE ~b.ok  BY <1>1, <2>1, <2>2, <2>3, <2>4 DEF Taken
  <2>5. CASE b.ok
    <3>1. b \in Machine /\ b.s \in Session /\ Clocked(b) /\ Owned(b)
      BY <2>2 DEF Base, Machine
    <3>2. PICK s \in Session : s = [b.s EXCEPT !.awaiting = FALSE, !.split = FALSE]
      BY ZenonT(60), <3>1 DEF Session
    <3>3. z = [b EXCEPT !.s = s]  BY <3>1, <3>2 DEF Machine
    <3>4. /\ z \in Machine /\ z.s = s /\ z.fifo = b.fifo /\ z.now = b.now /\ z.last = b.last
          /\ z.made = b.made /\ z.epoch = b.epoch /\ z.shown = b.shown /\ z.tap = b.tap
          /\ z.saved = b.saved /\ z.file = b.file /\ z.told = b.told
      BY ZenonT(60), <3>1, <3>3 DEF Machine
    <3> HIDE DEF z
    <3>5. /\ s.on = x.s.on /\ s.displayed = x.s.displayed /\ s.auto = x.s.auto /\ s.limit = x.s.limit
          /\ s.sound = b.s.sound /\ s.primed = x.s.primed /\ s.next = x.s.next /\ s.first = x.s.first
          /\ s.index = x.s.index /\ s.staged = x.s.staged /\ s.incoming = x.s.incoming
          /\ s.accepted = x.s.accepted /\ s.writing = x.s.writing /\ s.failed = x.s.failed
          /\ s.stop = x.s.stop /\ ~s.awaiting
      BY <2>2, <3>1, <3>2 DEF Session, Plan
    <3>6. On(z)
      <4>1. b.s.displayed = x.s.displayed /\ b.s.auto = x.s.auto
        BY <2>2 DEF Plan
      <4>2. Clocked(z) /\ Owned(z) /\ z.s.on /\ z.told = "none"
        BY <1>1, <2>3, <3>1, <3>4, <3>5, <4>1 DEF On, Clocked, Owned
      <4> QED BY <2>3, <3>4, <4>2, OnSame
    <3>7. All(z) = All(x)  BY <2>2, <3>4 DEF All
    <3>8. Counts(z) /\ ~z.s.failed
      BY <1>1, <3>4, <3>5, <3>7 DEF Going, Counts
    <3>9. Linked(z)  BY <1>2, <2>2, <3>4, <3>7 DEF Linked, Late
    <3>10. Writing(z)
      <4>1. ~x.s.primed /\ ~x.s.writing /\ x.s.first = x.s.accepted
            /\ x.s.incoming = Native!None
            /\ x.file = Native!NoFile /\ (\A i \in DOMAIN x.saved : x.saved[i].index < x.s.index)
            /\ (\A i \in DOMAIN x.saved : x.saved[i].index <= x.s.index)
        BY <1>1 DEF Going, Writing, Writable, Closed
      <4> QED BY <2>2, <3>4, <3>5, <4>1 DEF Writing, Writable
    <3>11. Live(z) /\ ~z.s.stop /\ ~z.s.awaiting /\ ~z.s.displayed
      BY <3>4, <3>5, <3>6, <3>8, <3>9, <3>10 DEF Live, Going
    <3>12. y = Native!TapSubmit(z, TRUE)  BY <2>1, <2>5
    <3>13. Live(y) /\ ~y.s.stop /\ y.now = z.now  BY <3>11, <3>12, TapSubmitIs
    <3> QED BY <2>2, <3>4, <3>13 DEF Taken, Live
  <2> QED BY <2>4, <2>5
<1> QED BY <1>3, <1>4

\* A guest frame is composed.
LEMMA SubmitFrameIs ==
    ASSUME NEW x, Rest(x), NEW pending \in Nat, pending <= x.made, NEW fault,
           NEW y, y = Native!SubmitFrame(x, pending, fault)
    PROVE  Rest(y) /\ y.now = x.now
<1>1. CASE ~x.s.on \/ x.s.displayed
  <2>1. y = x  BY <1>1 DEF Native!SubmitFrame
  <2> QED BY <2>1
<1>2. CASE x.s.on /\ ~x.s.displayed
  <2>1. Live(x) /\ ~(x.s.stop /\ x.s.writing)  BY <1>2 DEF Rest
  <2>2. /\ On(x) /\ x \in Machine /\ x.s \in Session /\ x.tap \in TapState /\ Clocked(x) /\ Owned(x)
        /\ Writing(x)
    BY <2>1 DEF Live, Going, On, Base, Machine
  <2> DEFINE kind == IF x.tap.active THEN "other" ELSE x.tap.error
             a == Native!Good([x EXCEPT !.tap.active = FALSE, !.tap.error = kind])
             b == IF fault = "capture" THEN a
                  ELSE IF x.s.stop /\ ~x.s.writing THEN Native!Good(x)
                  ELSE IF x.s.awaiting THEN Native!Rearm(x, pending, fault)
                  ELSE IF x.s.auto /\ (x.s.split \/ x.gen # x.s.gen) THEN Native!Split(x, fault)
                  ELSE Native!TapSubmit(x, FALSE)
  <2>3. y = IF ~b.ok /\ x.s.auto THEN Native!Ends(b, "error") ELSE b
    <3>1. [x EXCEPT !.tap.active = FALSE, !.tap.error = IF x.tap.active THEN "other" ELSE @]
          = [x EXCEPT !.tap.active = FALSE, !.tap.error = kind]
      BY <2>2 DEF Machine, TapState
    <3> QED BY <1>2, <3>1 DEF Native!SubmitFrame
  <2>4. Taken(x, a)
    <3>1. kind \in {"ok", "changed", "other"}  BY <2>2 DEF TapState
    <3> HIDE DEF kind
    <3>2. PICK tap \in TapState : tap = [x.tap EXCEPT !.active = FALSE, !.error = kind]
      BY <2>2, <3>1 DEF TapState
    <3>3. a = [x EXCEPT !.tap = tap, !.ok = TRUE]
      BY <2>2, <3>2 DEF Native!Good, Machine
    <3>4. /\ a \in Machine /\ a.s = x.s /\ a.fifo = x.fifo /\ a.now = x.now /\ a.last = x.last
          /\ a.made = x.made /\ a.epoch = x.epoch /\ a.shown = x.shown
          /\ a.saved = x.saved /\ a.file = x.file /\ a.told = x.told
      BY ZenonT(60), <2>2, <3>3 DEF Machine
    <3> HIDE DEF a
    <3>5. Seen(a) = Seen(x)  BY <3>4 DEF Seen
    <3>6. Clocked(a) /\ Owned(a) /\ a.s.on /\ a.told = "none"
          /\ (a.s.awaiting => a.fifo = Native!NoSound)
      BY <1>2, <2>1, <2>2, <3>4 DEF Clocked, Owned, On, Live
    <3>7. Live(a)  BY <2>1, <3>4, <3>5, <3>6, LiveSame
    <3> QED BY <2>1, <3>4, <3>7 DEF Taken, Live
  <2> HIDE DEF a
  <2>41. b = IF fault = "capture" THEN a
             ELSE IF x.s.stop /\ ~x.s.writing THEN Native!Good(x)
             ELSE IF x.s.awaiting THEN Native!Rearm(x, pending, fault)
             ELSE IF x.s.auto /\ (x.s.split \/ x.gen # x.s.gen) THEN Native!Split(x, fault)
             ELSE Native!TapSubmit(x, FALSE)
    OBVIOUS
  <2> HIDE DEF b
  <2>5. Taken(x, b)
    <3>1. CASE fault = "capture"  BY <2>4, <2>41, <3>1
    <3>2. CASE fault # "capture" /\ (x.s.stop /\ ~x.s.writing)
      <4>1. b = [x EXCEPT !.ok = TRUE]  BY <2>41, <3>2 DEF Native!Good
      <4>2. b \in Machine /\ Core(b) = Core(x) /\ b.s = x.s /\ b.now = x.now
        BY ZenonT(60), <2>2, <4>1, OkIs
      <4>3. Live(b)  BY <2>1, <4>2, CoreSame
      <4> QED BY <2>1, <4>2, <4>3 DEF Taken, Live
    <3>3. CASE fault # "capture" /\ ~(x.s.stop /\ ~x.s.writing) /\ x.s.awaiting
      <4>1. b = Native!Rearm(x, pending, fault)  BY <2>41, <3>3
      <4> QED BY <1>2, <2>1, <3>3, <4>1, RearmIs
    <3>4. CASE /\ fault # "capture" /\ ~(x.s.stop /\ ~x.s.writing) /\ ~x.s.awaiting
               /\ x.s.auto /\ (x.s.split \/ x.gen # x.s.gen)
      <4>1. b = Native!Split(x, fault)  BY <2>41, <3>4
      <4> QED BY <1>2, <2>1, <3>4, <4>1, SplitIs
    <3>5. CASE /\ fault # "capture" /\ ~(x.s.stop /\ ~x.s.writing) /\ ~x.s.awaiting
               /\ ~(x.s.auto /\ (x.s.split \/ x.gen # x.s.gen))
      <4>1. b = Native!TapSubmit(x, FALSE)  BY <2>41, <3>5
      <4>2. Live(b) /\ ~b.s.stop /\ b.now = x.now
        BY <1>2, <2>1, <3>5, <4>1, TapSubmitIs
      <4> QED BY <4>2 DEF Taken, Live
    <3> QED BY <3>1, <3>2, <3>3, <3>4, <3>5
  <2>6. CASE ~b.ok /\ x.s.auto
    BY <2>3, <2>5, <2>6, EndsIs DEF Taken, On, Words
  <2>7. CASE ~(~b.ok /\ x.s.auto)
    BY <2>3, <2>5, <2>7 DEF Taken, Rest, Live, On
  <2> QED BY <2>6, <2>7
<1> QED BY <1>1, <1>2

LEMMA AcceptDisplayedIs ==
    ASSUME NEW x, Rest(x), NEW fault, NEW y, y = Native!AcceptDisplayed(x, fault)
    PROVE  ((Rest(y) /\ ~y.s.on) \/ Shown(y) \/ Halted(y)) /\ y.now = x.now
<1>1. CASE ~x.s.on  BY <1>1 DEF Native!AcceptDisplayed
<1>2. CASE x.s.on /\ x.shown # "on"
  BY <1>2 DEF Native!AcceptDisplayed, Rest, Shown
<1>3. CASE x.s.on /\ x.shown = "on"
  <2>1. /\ Live(x) /\ ~(x.s.stop /\ x.s.writing) /\ On(x) /\ x \in Machine /\ x.s \in Session
        /\ x.now \in Nat /\ Clocked(x) /\ Owned(x) /\ ~x.s.failed
    BY <1>3 DEF Rest, Live, Going, On, Base, Machine
  <2>2. x.s.displayed /\ ~x.s.awaiting /\ ~x.tap.active /\ ~x.s.auto
    BY <1>3, <2>1 DEF Owned
  <2> DEFINE taken == [x EXCEPT !.s.incoming = x.now]
             b == Native!AfterGuestExec(taken, fault)
  <2>3. \/ y = x
        \/ y = [x EXCEPT !.shown = "other"]
        \/ y = [x EXCEPT !.shown = "changed"]
        \/ ~x.s.stop /\ y = [x EXCEPT !.shown = "other", !.s.failed = TRUE]
        \/ ~x.s.stop /\ x.s.incoming = Native!None /\ y = (IF b.ok THEN b ELSE [b EXCEPT !.shown = "other"])
    BY <1>3, <2>1, Zenon DEF Native!AcceptDisplayed
  <2> HIDE DEF b
  <2>4. CASE y = x  BY <2>1, <2>2, <2>4 DEF Shown
  <2>5. ASSUME NEW word \in {"other", "changed"}, y = [x EXCEPT !.shown = word]
        PROVE  Live(y) /\ y.s = x.s /\ y.now = x.now /\ y.shown = word
    <3>1. /\ y \in Machine /\ y.s = x.s /\ y.fifo = x.fifo /\ y.now = x.now /\ y.last = x.last
          /\ y.made = x.made /\ y.epoch = x.epoch /\ y.tap = x.tap /\ y.shown = word
          /\ y.saved = x.saved /\ y.file = x.file /\ y.told = x.told
      BY SMTT(40), <2>1, <2>5 DEF Machine
    <3>2. Seen(y) = Seen(x)  BY <3>1 DEF Seen
    <3>3. Clocked(y) /\ Owned(y) /\ y.s.on /\ y.told = "none" /\ ~y.s.awaiting
      BY <2>1, <2>2, <3>1 DEF Clocked, Owned, On
    <3> QED BY <2>1, <3>1, <3>2, <3>3, LiveSame
  <2>6. CASE y = [x EXCEPT !.shown = "other"]
    <3>1. Live(y) /\ y.s = x.s /\ y.now = x.now  BY <2>5, <2>6
    <3> QED BY <2>2, <3>1 DEF Shown
  <2>7. CASE y = [x EXCEPT !.shown = "changed"]
    <3>1. Live(y) /\ y.s = x.s /\ y.now = x.now  BY <2>5, <2>7
    <3> QED BY <2>2, <3>1 DEF Shown
  <2>8. CASE ~x.s.stop /\ y = [x EXCEPT !.shown = "other", !.s.failed = TRUE]
    <3>1. PICK s \in Session : s = [x.s EXCEPT !.failed = TRUE]
      BY <2>1 DEF Session
    <3>2. y = [x EXCEPT !.shown = "other", !.s = s]
      BY <2>1, <2>8, <3>1 DEF Machine
    <3>3. /\ y \in Machine /\ y.s = s /\ y.fifo = x.fifo /\ y.now = x.now /\ y.last = x.last
          /\ y.made = x.made /\ y.epoch = x.epoch /\ y.tap = x.tap /\ y.shown = "other"
          /\ y.saved = x.saved /\ y.file = x.file /\ y.told = x.told
      BY ZenonT(60), <2>1, <3>2 DEF Machine
    <3>4. /\ s.on = x.s.on /\ s.displayed = x.s.displayed /\ s.awaiting = x.s.awaiting
          /\ s.auto = x.s.auto /\ s.sound = x.s.sound /\ s.failed
      BY <2>1, <3>1 DEF Session
    <3>5. Clocked(y) /\ Owned(y) /\ y.s.on /\ y.told = "none"
      BY <2>1, <2>2, <3>3, <3>4 DEF Clocked, Owned, On
    <3>6. On(y)  BY <2>1, <3>3, <3>5, OnSame
    <3> QED BY <2>2, <3>3, <3>4, <3>6 DEF Halted
  <2>9. CASE ~x.s.stop /\ x.s.incoming = Native!None /\ y = (IF b.ok THEN b ELSE [b EXCEPT !.shown = "other"])
    <3>1. PICK s \in Session : s = [x.s EXCEPT !.incoming = x.now]
      BY <2>1 DEF Session, Instant
    <3>2. taken = [x EXCEPT !.s = s]  BY <2>1, <3>1 DEF Machine
    <3>3. /\ taken \in Machine /\ taken.s = s /\ taken.fifo = x.fifo /\ taken.now = x.now /\ taken.last = x.last
          /\ taken.made = x.made /\ taken.epoch = x.epoch /\ taken.tap = x.tap /\ taken.shown = x.shown
          /\ taken.saved = x.saved /\ taken.file = x.file /\ taken.told = x.told
      BY <2>1, <3>2 DEF Machine
    <3> HIDE DEF taken
    <3>4. s.displayed /\ s.sound = x.s.sound /\ s.auto = x.s.auto /\ s.awaiting = x.s.awaiting
      BY <2>1, <2>2, <3>1 DEF Session
    <3>5. Clocked(taken) /\ Owned(taken)
      BY <2>1, <2>2, <3>3, <3>4 DEF Clocked, Owned
    <3>6. Live(taken)  BY <2>1, <2>2, <2>9, <3>1, <3>3, <3>5, TakenIs
    <3>7. /\ On(b) /\ Manner(b) = Manner(taken) /\ (b.ok => Live(b))
          /\ ~b.ok => b.s.failed \/ ~b.s.stop
      BY <3>6, AfterExecIs DEF b
    <3>8. b.s.displayed /\ b.now = x.now  BY <3>3, <3>4, <3>7 DEF Manner
    <3>9. CASE b.ok  BY <2>9, <3>7, <3>8, <3>9 DEF Shown
    <3>10. CASE ~b.ok
      <4>1. y = [b EXCEPT !.shown = "other"] /\ b \in Machine /\ Clocked(b) /\ Owned(b)
        BY <2>9, <3>7, <3>10 DEF On, Base
      <4>2. /\ y \in Machine /\ y.s = b.s /\ y.fifo = b.fifo /\ y.now = b.now /\ y.last = b.last
            /\ y.made = b.made /\ y.epoch = b.epoch /\ y.tap = b.tap /\ y.shown = "other"
            /\ y.saved = b.saved /\ y.file = b.file /\ y.told = b.told
        BY <4>1 DEF Machine
      <4>3. Clocked(y) /\ Owned(y) /\ y.s.on /\ y.told = "none"
        BY <3>7, <3>8, <4>1, <4>2 DEF Clocked, Owned, On
      <4>4. On(y)  BY <3>7, <4>2, <4>3, OnSame
      <4> QED BY <3>7, <3>8, <3>10, <4>2, <4>4 DEF Halted
    <3> QED BY <3>9, <3>10
  <2> QED BY <2>3, <2>4, <2>6, <2>7, <2>8, <2>9
<1> QED BY <1>1, <1>2, <1>3

\* The picture has changed its form.
LEMMA ScreenChangedIs ==
    ASSUME NEW x, (Rest(x) /\ ~x.s.on) \/ Shown(x), NEW fault, NEW y, y = Native!ScreenChanged(x, fault)
    PROVE  Rest(y) /\ y.now = x.now
<1>1. CASE ~x.s.on
  <2>1. y = x  BY <1>1 DEF Native!ScreenChanged
  <2> QED BY <1>1, <2>1 DEF Shown, Live, On
<1>2. CASE x.s.on /\ ~x.s.auto
  <2>1. y = Native!Stop(x, fault)  BY <1>2 DEF Native!ScreenChanged
  <2> QED BY <1>2, <2>1, StopIs DEF Shown
<1>3. CASE x.s.on /\ x.s.auto
  <2>1. /\ Live(x) /\ On(x) /\ x \in Machine /\ x.s \in Session /\ Clocked(x) /\ Owned(x)
        /\ ~(x.s.stop /\ x.s.writing)
    BY <1>3 DEF Shown, Live, On, Base, Machine, Owned
  <2>2. PICK s \in Session : s = [x.s EXCEPT !.split = TRUE]
    BY <2>1 DEF Session
  <2>3. y = [x EXCEPT !.s = s]
    BY <1>3, <2>1, <2>2 DEF Native!ScreenChanged, Machine
  <2>4. /\ y \in Machine /\ y.s = s /\ y.fifo = x.fifo /\ y.now = x.now /\ y.last = x.last
        /\ y.made = x.made /\ y.epoch = x.epoch /\ y.tap = x.tap /\ y.shown = x.shown
        /\ y.saved = x.saved /\ y.file = x.file /\ y.told = x.told
    BY SMTT(40), <2>1, <2>3 DEF Machine
  <2>5. /\ s.on = x.s.on /\ s.displayed = x.s.displayed /\ s.sound = x.s.sound
        /\ s.staged = x.s.staged /\ s.incoming = x.s.incoming /\ s.primed = x.s.primed
        /\ s.next = x.s.next /\ s.accepted = x.s.accepted /\ s.limit = x.s.limit
        /\ s.first = x.s.first /\ s.index = x.s.index /\ s.writing = x.s.writing
        /\ s.failed = x.s.failed /\ s.stop = x.s.stop /\ s.awaiting = x.s.awaiting
        /\ s.auto = x.s.auto
    BY <2>1, <2>2 DEF Session
  <2>6. Seen(y) = Seen(x)  BY <2>4, <2>5 DEF Seen
  <2>7. Clocked(y) /\ Owned(y) /\ y.s.on /\ y.told = "none"
        /\ (y.s.awaiting => y.fifo = Native!NoSound)
    BY <2>1, <2>4, <2>5 DEF Clocked, Owned, On, Live
  <2>8. Live(y)  BY <2>1, <2>4, <2>6, <2>7, LiveSame
  <2>9. y.s.on /\ ~(y.s.stop /\ y.s.writing)  BY <2>1, <2>4, <2>5, <2>7
  <2> QED BY <2>4, <2>8, <2>9 DEF Rest
<1> QED BY <1>1, <1>2, <1>3

\* vaeg_recording_runtime_step
LEMMA RuntimeStepIs ==
    ASSUME NEW x, (Rest(x) /\ ~x.s.on) \/ Shown(x) \/ Halted(x), NEW fault,
           NEW y, y = Native!RuntimeStep(x, fault)
    PROVE  Rest(y) /\ y.now = x.now
<1> DEFINE changed == IF x.s.displayed THEN x.shown = "changed"
                      ELSE ~x.tap.active /\ x.tap.error = "changed"
           b == Native!AfterGuestExec(x, fault)
<1>1. y = IF ~x.s.on THEN x
          ELSE IF changed THEN Native!ScreenChanged(x, fault)
          ELSE IF ~b.ok THEN Native!Ends(b, "error")
          ELSE IF b.s.stop THEN Native!Stop(b, fault) ELSE b
  BY DEF Native!RuntimeStep
<1>2. CASE ~x.s.on  BY <1>1, <1>2 DEF Shown, Halted, Live, On
<1>3. CASE x.s.on /\ changed
  <2>1. ~Halted(x)  BY <1>3 DEF Halted
  <2>2. y = Native!ScreenChanged(x, fault)  BY <1>1, <1>3
  <2>3. (Rest(x) /\ ~x.s.on) \/ Shown(x)  BY <2>1
  <2> QED BY <2>2, <2>3, ScreenChangedIs
<1>4. CASE x.s.on /\ ~changed /\ Shown(x)
  <2>1. /\ On(b) /\ Manner(b) = Manner(x)
        /\ b.ok => Live(b)
    BY <1>4, AfterExecIs DEF Shown
  <2>2. b.now = x.now  BY <2>1 DEF Manner
  <2> HIDE DEF b
  <2>3. CASE ~b.ok  BY <1>1, <1>4, <2>1, <2>2, <2>3, EndsIs DEF On, Words
  <2>4. CASE b.ok /\ b.s.stop  BY <1>1, <1>4, <2>1, <2>2, <2>4, StopIs
  <2>5. CASE b.ok /\ ~b.s.stop  BY <1>1, <1>4, <2>1, <2>2, <2>5 DEF Rest, On
  <2> QED BY <2>3, <2>4, <2>5
<1>5. CASE x.s.on /\ ~changed /\ Halted(x)
  <2>1. On(x) /\ x \in Machine /\ x.s \in Session /\ Base(x) /\ ~x.s.awaiting
    BY <1>5 DEF Halted, On, Base, Machine, Owned
  <2>2. b = Native!Bad(x) \/ b = Native!Bad(Native!Abort(x))
    BY <1>5, <2>1 DEF Native!AfterGuestExec, Halted
  <2>3. On(b) /\ ~b.ok /\ b.now = x.now
    <3>1. CASE b = Native!Bad(x)
      <4>1. b = [x EXCEPT !.ok = FALSE]  BY <3>1 DEF Native!Bad
      <4>2. b \in Machine /\ ~b.ok /\ Core(b) = Core(x) /\ b.now = x.now
        BY <2>1, <4>1, OkIs
      <4> QED BY <2>1, <4>2, CoreSame
    <3>2. CASE b = Native!Bad(Native!Abort(x))
      <4> DEFINE a == Native!Abort(x)
      <4>1. On(a) /\ a.now = x.now  BY <2>1, AbortOn
      <4> HIDE DEF a
      <4>2. b = [a EXCEPT !.ok = FALSE] /\ a \in Machine
        BY <3>2, <4>1 DEF Native!Bad, a, On, Base
      <4>3. b \in Machine /\ ~b.ok /\ Core(b) = Core(a) /\ b.now = a.now
        BY <4>2, OkIs
      <4> QED BY <4>1, <4>3, CoreSame
    <3> QED BY <2>2, <3>1, <3>2
  <2> HIDE DEF b
  <2>4. y = Native!Ends(b, "error")  BY <1>1, <1>5, <2>3
  <2> QED BY <2>3, <2>4, EndsIs DEF On, Words
<1> QED BY <1>2, <1>3, <1>4, <1>5

LEMMA RestartIs ==
    ASSUME NEW x, x \in Machine, NEW y, y = Native!Restarted(x)
    PROVE  /\ y \in Machine /\ y.now = 0 /\ y.last = 0 /\ y.made = 0 /\ y.epoch = x.epoch + 1
           /\ y.s = x.s /\ y.fifo = x.fifo /\ y.tap = x.tap /\ y.shown = x.shown
           /\ y.saved = x.saved /\ y.file = x.file /\ y.told = x.told /\ y.took = x.took
<1>1. PICK n \in Nat : n = x.epoch + 1  BY DEF Machine
<1>2. y = [x EXCEPT !.now = 0, !.last = 0, !.made = 0, !.epoch = n]
  BY <1>1 DEF Native!Restarted
<1>3. /\ y \in Machine /\ y.now = 0 /\ y.last = 0 /\ y.made = 0 /\ y.epoch = n
      /\ y.s = x.s /\ y.fifo = x.fifo /\ y.tap = x.tap /\ y.shown = x.shown
      /\ y.saved = x.saved /\ y.file = x.file /\ y.told = x.told /\ y.took = x.took
  <2>1. PICK u : u = [x EXCEPT !.now = 0, !.last = 0]  OBVIOUS
  <2>2. u \in Machine /\ u.now = 0 /\ u.last = 0 /\ u.made = x.made /\ u.epoch = x.epoch
        /\ u.s = x.s /\ u.fifo = x.fifo /\ u.tap = x.tap /\ u.shown = x.shown
        /\ u.saved = x.saved /\ u.file = x.file /\ u.told = x.told /\ u.took = x.took
    BY <2>1 DEF Machine
  <2>3. y = [u EXCEPT !.made = 0, !.epoch = n]  BY <1>2, <2>1
  <2>4. y \in Machine /\ y.now = u.now /\ y.last = u.last /\ y.made = 0 /\ y.epoch = n
        /\ y.s = u.s /\ y.fifo = u.fifo /\ y.tap = u.tap /\ y.shown = u.shown
        /\ y.saved = u.saved /\ y.file = u.file /\ y.told = u.told /\ y.took = u.took
    BY ZenonT(60), <2>2, <2>3 DEF Machine
  <2> QED BY <2>2, <2>4
<1> QED BY <1>1, <1>3

\* A reset or a load begins the clock and the sound again.
LEMMA RestartedOff ==
    ASSUME NEW x, Rest(x), ~x.s.on, NEW y, y = Native!Restarted(x)
    PROVE  Rest(y) /\ y.now = 0
<1>1. x \in Machine /\ x.epoch \in Nat /\ Base(x) /\ Quiet(x)
  BY DEF Rest, Base, Machine
<1>3. /\ y \in Machine /\ y.now = 0 /\ y.last = 0 /\ y.made = 0 /\ y.epoch = x.epoch + 1
      /\ y.s = x.s /\ y.fifo = x.fifo /\ y.tap = x.tap /\ y.shown = x.shown
      /\ y.saved = x.saved /\ y.file = x.file /\ y.told = x.told /\ y.took = x.took
  BY <1>1, RestartIs
<1>4. Right(y)
  <2>1. x.epoch <= y.epoch  BY <1>1, <1>3
  <2> QED BY <1>1, <1>3, <2>1, RightSame DEF Base
<1>5. Clocked(y) /\ Owned(y)
  BY <1>1, <1>3 DEF Base, Quiet, Clocked, Owned, Native!NoSound
<1>6. Quiet(y) /\ ~y.s.on  BY <1>1, <1>3 DEF Quiet
<1> QED BY <1>3, <1>4, <1>5, <1>6 DEF Rest, Base

\* What is stored is of the clocks before.
LEMMA NotLate ==
    ASSUME NEW x, x \in Machine, Right(x), NEW y, All(y) = All(x), y.epoch = x.epoch + 1
    PROVE  ~Late(y)
<1>1. All(x) \in Seq(Cell) /\ x.epoch \in Nat  BY AllTyped DEF Machine
<1>2. ASSUME All(x) # <<>> PROVE All(x)[Len(All(x))].epoch # x.epoch + 1
  <2>1. Len(All(x)) \in DOMAIN All(x) /\ All(x)[Len(All(x))] \in Cell
    <3> DEFINE t == All(x)
    <3>1. t \in Seq(Cell) /\ t # <<>>  BY <1>1, <1>2
    <3> HIDE DEF t
    <3>2. Len(t) \in DOMAIN t /\ t[Len(t)] \in Cell  BY <3>1
    <3> QED BY <3>2 DEF t
  <2>2. All(x)[Len(All(x))].epoch <= x.epoch /\ All(x)[Len(All(x))].epoch \in Nat
    BY <2>1 DEF Right, Cell
  <2> QED BY <1>1, <2>2
<1> QED BY <1>2 DEF Late

LEMMA RestartedAwaiting ==
    ASSUME NEW x, Live(x), x.s.awaiting, ~(x.s.stop /\ x.s.writing), NEW y, y = Native!Restarted(x)
    PROVE  Rest(y) /\ y.now = 0
<1>1. /\ x \in Machine /\ x.epoch \in Nat /\ On(x) /\ Base(x) /\ Right(x) /\ Going(x) /\ Owned(x)
      /\ x.fifo = Native!NoSound
  BY DEF Live, On, Base, Machine
<1>3. /\ y \in Machine /\ y.now = 0 /\ y.last = 0 /\ y.made = 0 /\ y.epoch = x.epoch + 1
      /\ y.s = x.s /\ y.fifo = x.fifo /\ y.tap = x.tap /\ y.shown = x.shown
      /\ y.saved = x.saved /\ y.file = x.file /\ y.told = x.told
  BY <1>1, RestartIs
<1>4. Right(y)
  <2>1. x.epoch <= y.epoch  BY <1>1, <1>3
  <2> QED BY <1>1, <1>3, <2>1, RightSame
<1>5. Clocked(y) /\ Owned(y)  BY <1>1, <1>3 DEF Clocked, Owned, Native!NoSound
<1>6. All(y) = All(x)  BY <1>3 DEF All
<1>7. ~Late(y)  BY <1>1, <1>3, <1>6, NotLate
<1>8. Going(y)
  BY <1>1, <1>3, <1>6, <1>7 DEF Going, Counts, Linked, Writing, Writable, Closed
<1> QED BY <1>1, <1>3, <1>4, <1>5, <1>8 DEF Rest, Live, On, Base

LEMMA SilentIs ==
    ASSUME NEW x, On(x), ~x.s.displayed, NEW y, y = Silent(x)
    PROVE  /\ On(y) /\ y.fifo = Native!NoSound /\ ~y.tap.active
           /\ y.s = [x.s EXCEPT !.sound = FALSE]
           /\ y.now = x.now /\ y.epoch = x.epoch /\ y.saved = x.saved /\ y.file = x.file
           /\ y.shown = x.shown
<1>1. /\ x \in Machine /\ x.s \in Session /\ x.tap \in TapState /\ Clocked(x) /\ Owned(x)
      /\ x.made \in Nat
  BY DEF On, Base, Machine
<1>2. PICK tap \in TapState : tap = [x.tap EXCEPT !.active = FALSE] /\ ~tap.active
  <2>1. PICK tap \in TapState : tap = [x.tap EXCEPT !.active = FALSE]
    BY <1>1 DEF TapState
  <2>2. ~tap.active  BY <1>1, <2>1 DEF TapState
  <2> QED BY <2>1, <2>2
<1>3. PICK s \in Session : s = [x.s EXCEPT !.sound = FALSE]
  BY <1>1 DEF Session
<1>4. Native!NoSound \in Fifo  BY DEF Native!NoSound, Fifo
<1>5. y = [x EXCEPT !.tap = tap, !.fifo = Native!NoSound, !.s = s]
  <2> DEFINE u == [x EXCEPT !.tap.active = FALSE]
  <2>1. u = [x EXCEPT !.tap = tap] /\ y = Native!ReleaseSound(u)
    BY <1>1, <1>2 DEF Silent, Machine
  <2> HIDE DEF u
  <2>2. /\ u.s = x.s /\ u \in Machine /\ u.fifo = x.fifo
    BY <1>1, <2>1 DEF Machine
  <2>3. CASE x.s.sound
    <3>1. y = [u EXCEPT !.fifo = Native!NoSound, !.s.sound = FALSE]
      BY <2>1, <2>2, <2>3 DEF Native!ReleaseSound
    <3>2. y = [u EXCEPT !.fifo = Native!NoSound, !.s = s]
      BY <1>3, <2>2, <3>1 DEF Machine
    <3> QED BY <1>1, <2>1, <3>2 DEF Machine
  <2>4. CASE ~x.s.sound
    <3>1. y = u /\ x.fifo = Native!NoSound
      BY <1>1, <2>1, <2>2, <2>4 DEF Native!ReleaseSound, Owned
    <3>2. x.s = s  BY <1>1, <1>3, <2>4 DEF Session
    <3> QED BY ZenonT(60), <1>1, <2>1, <3>1, <3>2 DEF Machine
  <2> QED BY <2>3, <2>4
<1>6. /\ y \in Machine /\ y.s = s /\ y.fifo = Native!NoSound /\ y.tap = tap /\ y.now = x.now
      /\ y.last = x.last /\ y.made = x.made /\ y.epoch = x.epoch /\ y.shown = x.shown
      /\ y.saved = x.saved /\ y.file = x.file /\ y.told = x.told
  BY ZenonT(60), <1>1, <1>4, <1>5 DEF Machine
<1>7. s.on = x.s.on /\ s.displayed = x.s.displayed /\ s.auto = x.s.auto /\ s.awaiting = x.s.awaiting
  BY <1>1, <1>3 DEF Session
<1>8. Clocked(y) /\ Owned(y) /\ y.s.on /\ y.told = "none"
  BY <1>1, <1>6, <1>7 DEF Clocked, Owned, On, Native!NoSound
<1>9. On(y)  BY <1>6, <1>8, OnSame
<1> QED BY <1>2, <1>3, <1>6, <1>9

LEMMA SplitIsTyped ==
    ASSUME NEW s \in Session, NEW c \in Nat
    PROVE  /\ [s EXCEPT !.first = c, !.split = FALSE] \in Session
           /\ [s EXCEPT !.awaiting = TRUE] \in Session
<1>1. [s EXCEPT !.first = c, !.split = FALSE] \in Session
  BY ZenonT(60) DEF Session
<1>2. [s EXCEPT !.awaiting = TRUE] \in Session  BY DEF Session
<1> QED BY <1>1, <1>2

LEMMA RenewedIs ==
    ASSUME NEW b, Sealed(b), ~b.s.stop, ~b.s.displayed, b.s.auto,
           NEW z, z = Renewed(b),
           NEW y, y = Native!Restarted(z)
    PROVE  Rest(y) /\ y.now = 0
<1> DEFINE v == Silent(b)
<1>1. /\ On(b) /\ ~b.s.failed /\ ~b.s.writing /\ Counts(b) /\ Writable(b)
      /\ b.s \in Session /\ b.saved \in Seq(File) /\ b.s.index \in Nat /\ b.s.accepted \in Nat
      /\ b.epoch \in Nat
  BY DEF Sealed, On, Base, Machine, Session
<1>2. /\ On(v) /\ v.fifo = Native!NoSound /\ ~v.tap.active
      /\ v.s = [b.s EXCEPT !.sound = FALSE]
      /\ v.epoch = b.epoch /\ v.saved = b.saved /\ v.file = b.file /\ v.shown = b.shown
  BY <1>1, SilentIs
<1> HIDE DEF v
<1>3. v \in Machine /\ v.s \in Session /\ Right(v) /\ Owned(v) /\ v.told = "none" /\ v.epoch \in Nat
  BY <1>2 DEF On, Base, Machine
<1>31. PICK n \in Nat : n = v.s.index + 1  BY <1>3 DEF Session
<1>4. PICK s \in Session : s = [v.s EXCEPT !.index = n, !.primed = FALSE,
                          !.staged = Native!None, !.incoming = Native!None,
                          !.first = b.s.accepted, !.split = FALSE, !.awaiting = TRUE]
  <2>1. v.s \in Session /\ b.s.accepted \in Nat /\ n \in Nat  BY <1>1, <1>3
  <2>2. PICK r \in Session : r = [v.s EXCEPT !.index = n, !.primed = FALSE,
                          !.staged = Native!None, !.incoming = Native!None]
    BY ZenonT(60), <2>1 DEF Session, Instant
  <2>3. PICK c \in Nat : c = b.s.accepted  BY <2>1
  <2>4. PICK t \in Session : t = [r EXCEPT !.first = c, !.split = FALSE]
    BY SplitIsTyped
  <2>5. PICK u \in Session : u = [t EXCEPT !.awaiting = TRUE]  BY SplitIsTyped
  <2>6. u = [v.s EXCEPT !.index = n, !.primed = FALSE,
                          !.staged = Native!None, !.incoming = Native!None,
                          !.first = b.s.accepted, !.split = FALSE, !.awaiting = TRUE]
    BY <2>2, <2>3, <2>4, <2>5
  <2> QED BY <2>6
<1>5. z = [v EXCEPT !.s = s]
  <2>1. z = [v EXCEPT !.s.index = n, !.s.primed = FALSE,
                          !.s.staged = Native!None, !.s.incoming = Native!None,
                          !.s.first = b.s.accepted, !.s.split = FALSE, !.s.awaiting = TRUE]
    BY <1>31 DEF Renewed, v
  <2>2. v \in Machine  BY <1>3
  <2> QED BY ZenonT(60), <1>4, <2>1, <2>2 DEF Machine
<1>6. /\ z \in Machine /\ z.s = s /\ z.epoch = v.epoch /\ z.fifo = v.fifo /\ z.tap = v.tap
      /\ z.shown = v.shown /\ z.saved = v.saved /\ z.file = v.file /\ z.told = v.told
  <2>1. v \in Machine /\ s \in Session  BY <1>3
  <2> QED BY SMTT(40), <1>5, <2>1 DEF Machine
<1>61. /\ y \in Machine /\ y.now = 0 /\ y.last = 0 /\ y.made = 0 /\ y.epoch = z.epoch + 1
       /\ y.s = z.s /\ y.fifo = z.fifo /\ y.tap = z.tap /\ y.shown = z.shown
       /\ y.saved = z.saved /\ y.file = z.file /\ y.told = z.told
  BY <1>6, RestartIs
<1>7. /\ y \in Machine /\ y.now = 0 /\ y.last = 0 /\ y.made = 0 /\ y.epoch = v.epoch + 1
      /\ y.s = s /\ y.fifo = Native!NoSound /\ y.tap = v.tap /\ y.shown = b.shown
      /\ y.saved = b.saved /\ y.file = b.file /\ y.told = "none"
  BY <1>2, <1>3, <1>6, <1>61
<1>8. /\ s.on = b.s.on /\ s.displayed = b.s.displayed /\ s.auto = b.s.auto /\ s.limit = b.s.limit
      /\ s.index = b.s.index + 1 /\ ~s.primed /\ s.staged = Native!None /\ s.incoming = Native!None
      /\ s.first = b.s.accepted /\ s.awaiting /\ s.accepted = b.s.accepted
      /\ s.writing = b.s.writing /\ s.failed = b.s.failed /\ s.stop = b.s.stop
  <2>1. /\ s.on = v.s.on /\ s.displayed = v.s.displayed /\ s.auto = v.s.auto /\ s.limit = v.s.limit
        /\ s.index = n /\ ~s.primed /\ s.staged = Native!None /\ s.incoming = Native!None
        /\ s.first = b.s.accepted /\ s.awaiting /\ s.accepted = v.s.accepted
        /\ s.writing = v.s.writing /\ s.failed = v.s.failed /\ s.stop = v.s.stop
    <3>1. v.s \in Session  BY <1>3
    <3> QED BY <1>4, <3>1 DEF Session
  <2>2. /\ v.s.on = b.s.on /\ v.s.displayed = b.s.displayed /\ v.s.auto = b.s.auto
        /\ v.s.limit = b.s.limit /\ v.s.index = b.s.index /\ v.s.accepted = b.s.accepted
        /\ v.s.writing = b.s.writing /\ v.s.failed = b.s.failed /\ v.s.stop = b.s.stop
    BY ZenonT(60), <1>1, <1>2 DEF Session
  <2> QED BY <1>31, <2>1, <2>2
<1>9. Right(y)
  <2>1. v.epoch <= y.epoch /\ y.saved = v.saved /\ y.file = v.file
    <3>1. v.epoch \in Nat /\ y.epoch = v.epoch + 1  BY <1>3, <1>7
    <3>2. v.epoch <= y.epoch  BY <3>1
    <3> QED BY <1>2, <1>7, <3>2
  <2> QED BY <1>3, <1>7, <2>1, RightSame
<1>10. Clocked(y)
  <2>1. y.now = 0 /\ y.last = 0 /\ y.made = 0 /\ y.fifo = Native!NoSound
    BY <1>7
  <2> QED BY <2>1 DEF Clocked, Native!NoSound
<1>11. Owned(y)
  <2>1. /\ y.s = s /\ y.fifo = Native!NoSound /\ y.tap = v.tap /\ y.shown = v.shown
        /\ s.displayed = v.s.displayed /\ s.auto /\ ~s.displayed /\ ~v.tap.active
    BY <1>2, <1>7, <1>8
  <2>2. Owned(v)  BY <1>3
  <2> QED BY <2>1, <2>2 DEF Owned, Native!NoSound
<1>12. On(y)  BY <1>1, <1>7, <1>8, <1>9, <1>10, <1>11 DEF On, Base
<1>13. All(y) = All(b) /\ All(y) = All(v)  BY <1>2, <1>7 DEF All
<1>14. ~Late(y)  BY <1>3, <1>7, <1>13, NotLate
<1>15. Counts(y)  BY <1>1, <1>7, <1>8, <1>13 DEF Counts
<1>16. Writing(y)
  <2>1. ASSUME NEW i \in DOMAIN b.saved
        PROVE  b.saved[i].index < b.s.index + 1 /\ b.saved[i].index <= b.s.index + 1
    <3>1. b.saved[i] \in File  BY <1>1
    <3>2. b.saved[i].index \in Nat /\ b.saved[i].index <= b.s.index
      BY <1>1, <3>1 DEF File, Writable
    <3> QED BY <1>1, <3>2
  <2>2. /\ y.saved = b.saved /\ y.file = b.file /\ y.s.index = b.s.index + 1 /\ ~y.s.writing
        /\ y.s.first = b.s.accepted /\ y.s.accepted = b.s.accepted
    BY <1>1, <1>7, <1>8
  <2>3. y.s.primed = FALSE /\ y.s.staged = Native!None /\ y.s.incoming = Native!None /\ y.s.auto
    BY <1>7, <1>8
  <2>4. \A i \in DOMAIN y.saved : y.saved[i].index < y.s.index /\ y.saved[i].index <= y.s.index
    BY <2>1, <2>2
  <2>5. Writable(y)  BY <1>1, <2>2, <2>3, <2>4 DEF Writable
  <2> QED BY <2>2, <2>3, <2>4, <2>5 DEF Writing
<1>17. Linked(y)  BY <1>14 DEF Linked
<1>18. y.s.on /\ ~y.s.stop /\ ~y.s.failed /\ y.fifo = Native!NoSound /\ y.now = 0
  BY <1>1, <1>7, <1>8 DEF On
<1> QED BY <1>12, <1>15, <1>16, <1>17, <1>18 DEF Rest, Live, Going

\* A reset, with the end of what was before it.
LEMMA ResetIs ==
    ASSUME NEW x, Rest(x), NEW fault, NEW y, y = Native!Restarted(Native!BeforeReset(x, fault))
    PROVE  Rest(y) /\ y.now = 0
<1> DEFINE e == Native!ChangeEpoch(x, fault)
<1>1. Native!BeforeReset(x, fault) =
          IF ~x.s.on THEN x
          ELSE IF x.s.displayed THEN Native!Stop(x, fault)
          ELSE IF ~x.s.auto THEN Native!Ends(x, "ended")
          ELSE IF e.ok THEN e ELSE Native!Ends(e, "ended")
  BY DEF Native!BeforeReset
<1> HIDE DEF e
<1>2. CASE ~x.s.on
  <2>1. y = Native!Restarted(x)  BY <1>1, <1>2
  <2> QED BY <1>2, <2>1, RestartedOff
<1>3. ASSUME x.s.on PROVE Live(x) /\ ~(x.s.stop /\ x.s.writing) /\ Base(x) /\ x \in Machine
  BY <1>3 DEF Rest, Live, On, Base
<1>4. CASE x.s.on /\ x.s.displayed
  <2>1. PICK z : z = Native!Stop(x, fault)  OBVIOUS
  <2>2. Rest(z) /\ ~z.s.on  BY <1>3, <1>4, <2>1, StopIs
  <2>3. y = Native!Restarted(z)  BY <1>1, <1>4, <2>1
  <2> QED BY <2>2, <2>3, RestartedOff
<1>5. ASSUME NEW v, Base(v), y = Native!Restarted(Native!Ends(v, "ended"))
      PROVE  Rest(y) /\ y.now = 0
  <2>1. PICK z : z = Native!Ends(v, "ended")  OBVIOUS
  <2>2. Rest(z) /\ ~z.s.on  BY <1>5, <2>1, EndsIs DEF Words
  <2>3. y = Native!Restarted(z)  BY <1>5, <2>1
  <2> QED BY <2>2, <2>3, RestartedOff
<1>6. CASE x.s.on /\ ~x.s.displayed /\ ~x.s.auto  BY <1>1, <1>3, <1>5, <1>6
<1>7. CASE x.s.on /\ ~x.s.displayed /\ x.s.auto
  <2> DEFINE b == Native!CompleteBoundary(x, fault)
             z == Renewed(b)
  <2>1. e = IF x.s.awaiting THEN Native!Good(x)
            ELSE IF ~b.ok \/ b.s.stop \/ b.s.manual THEN Native!Bad(Silent(b)) ELSE z
    BY DEF e, Native!ChangeEpoch, Silent, Renewed
  <2>2. ASSUME ~x.s.awaiting PROVE On(b) /\ Manner(b) = Manner(x) /\ (b.ok => Sealed(b))
    BY <1>3, <1>7, <2>2, CompleteIs
  <2> HIDE DEF b, z
  <2>3. CASE x.s.awaiting
    <3>1. e = [x EXCEPT !.ok = TRUE]  BY <2>1, <2>3 DEF Native!Good
    <3>2. e \in Machine /\ e.ok /\ Core(e) = Core(x) /\ e.s = x.s
      BY ZenonT(60), <1>3, <1>7, <3>1, OkIs
    <3>3. Live(e)  BY <1>3, <1>7, <3>2, CoreSame
    <3>4. y = Native!Restarted(e)  BY <1>1, <1>7, <3>2
    <3> QED BY <1>3, <1>7, <2>3, <3>2, <3>3, <3>4, RestartedAwaiting
  <2>4. CASE ~x.s.awaiting /\ (~b.ok \/ b.s.stop \/ b.s.manual)
    <3>1. ~b.s.displayed  BY <1>7, <2>2, <2>4 DEF Manner
    <3>2. PICK v : v = Silent(b)  OBVIOUS
    <3>3. On(v)  BY <2>2, <2>4, <3>1, <3>2, SilentIs
    <3>4. e = [v EXCEPT !.ok = FALSE] /\ v \in Machine
      BY <2>1, <2>4, <3>2, <3>3 DEF Native!Bad, On, Base
    <3>5. e \in Machine /\ ~e.ok /\ Core(e) = Core(v)  BY <3>4, OkIs
    <3>6. Base(e)  BY <3>3, <3>5, CoreSame DEF On
    <3> QED BY <1>1, <1>5, <1>7, <3>5, <3>6
  <2>5. CASE ~x.s.awaiting /\ b.ok /\ ~b.s.stop /\ ~b.s.manual
    <3>1. ~b.s.displayed /\ b.s.auto /\ Sealed(b)
      BY <1>7, <2>2, <2>5 DEF Manner
    <3>2. e = z  BY <2>1, <2>5
    <3>3. e.ok
      <4>1. PICK v : v = Silent(b)  OBVIOUS
      <4>2. v.ok = b.ok /\ v \in Machine
        <5>1. On(v)  BY <2>2, <2>5, <3>1, <4>1, SilentIs
        <5>2. b \in Machine  BY <2>2, <2>5 DEF On, Base
        <5> QED BY <4>1, <5>1, <5>2 DEF Silent, Native!ReleaseSound, On, Base, Machine
      <4>3. z = [v EXCEPT !.s = z.s]
        BY ZenonT(60), <4>1, <4>2 DEF z, Renewed, Machine
      <4>4. z.ok = v.ok  BY <4>2, <4>3 DEF Machine
      <4> QED BY <2>5, <3>2, <4>2, <4>4
    <3>4. y = Native!Restarted(z)  BY <1>1, <1>7, <3>2, <3>3
    <3> QED BY <2>5, <3>1, <3>4, RenewedIs DEF z
  <2> QED BY <2>3, <2>4, <2>5
<1> QED BY <1>2, <1>4, <1>6, <1>7

\* Time goes on.
LEMMA LaterIs ==
    ASSUME NEW x, Rest(x), NEW n \in Nat, x.now <= n, NEW y, y = [x EXCEPT !.now = n]
    PROVE  Rest(y) /\ y.now = n /\ y.made = x.made /\ y.s = x.s
<1>1. Base(x) /\ x \in Machine /\ x.last \in Nat /\ x.now \in Nat /\ x.epoch \in Nat
  BY DEF Rest, Live, On, Base, Machine
<1>2. /\ y \in Machine /\ y.s = x.s /\ y.fifo = x.fifo /\ y.now = n /\ y.last = x.last
      /\ y.made = x.made /\ y.epoch = x.epoch /\ y.tap = x.tap /\ y.shown = x.shown
      /\ y.saved = x.saved /\ y.file = x.file /\ y.told = x.told /\ y.took = x.took
  BY <1>1 DEF Machine
<1>3. Clocked(y) /\ Owned(y)  BY <1>1, <1>2 DEF Base, Clocked, Owned
<1>4. CASE x.s.on
  <2>1. Live(x) /\ On(x) /\ ~(x.s.stop /\ x.s.writing) /\ (x.s.awaiting => x.fifo = Native!NoSound)
    BY <1>4 DEF Rest, Live
  <2>2. Seen(y) = Seen(x) /\ y.s.on /\ y.told = "none"
    BY <1>2, <2>1 DEF Seen, On
  <2>3. Live(y)  BY <1>2, <1>3, <2>1, <2>2, LiveSame
  <2> QED BY <1>2, <2>1, <2>3, <1>4 DEF Rest
<1>5. CASE ~x.s.on
  <2>1. Base(x) /\ Right(x) /\ Quiet(x) /\ x \in Machine
    BY <1>5 DEF Rest, Base
  <2>2. x.epoch \in Nat /\ y.epoch = x.epoch  BY <1>2, <2>1 DEF Machine
  <2>3. x.epoch <= y.epoch  BY <2>2
  <2>4. y.saved = x.saved /\ y.file = x.file /\ y \in Machine  BY <1>2
  <2>5. Right(y)  BY <2>1, <2>3, <2>4, RightSame
  <2> QED BY <1>2, <1>3, <1>5, <2>1, <2>5 DEF Rest, Base, Quiet
<1> QED BY <1>2, <1>4, <1>5

LEMMA SyncRests ==
    ASSUME NEW x, Rest(x), NEW y, y = Native!Sync(x)
    PROVE  Rest(y) /\ y.now = x.now /\ x.made <= y.made /\ y.s = x.s
<1>1. Base(x)  BY DEF Rest, Live, On
<1> QED BY <1>1, SyncLives DEF Others

LEMMA DoesIs ==
    ASSUME NEW x, Done(x), Native!Does(x)
    PROVE  Done(recorder')
<1>1. x \in Machine  BY DEF Done, Rest, Live, On, Base
<1>2. PICK y : y = [x EXCEPT !.ok = TRUE] /\ recorder' = y  BY DEF Native!Does
<1>3. y \in Machine /\ Core(y) = Core(x) /\ y.now = x.now
  BY ZenonT(60), <1>1, <1>2, OkIs
<1>4. Rest(y)  BY <1>3, CoreSame DEF Done
<1> QED BY <1>2, <1>3, <1>4 DEF Done

\* Where a step begins.
LEMMA AtRestIs ==
    ASSUME Done(recorder)
    PROVE  /\ recorder \in Machine /\ recorder.now \in Nat /\ Base(recorder) /\ recorder.now <= MaxTime
           /\ recorder.s \in Session /\ recorder.made \in Nat /\ Rest(recorder) /\ MaxTime \in Nat
           /\ recorder.s.on => On(recorder) /\ Live(recorder) /\ ~(recorder.s.stop /\ recorder.s.writing)
BY RecordingAssumption DEF Done, Rest, Live, On, Base, Machine

\* A pass of the main loop.
LEMMA RecordingFrame ==
    ASSUME Done(recorder), Native!Frame
    PROVE  Done(recorder')
<1>1. /\ recorder \in Machine /\ recorder.now \in Nat /\ recorder.made \in Nat /\ Rest(recorder)
  BY AtRestIs
<1>2. PICK d \in Frames, fault \in Native!Faults,
           pending \in (IF recorder.s.awaiting THEN Native!Pending(recorder) ELSE {0}), k \in Writes :
        LET Drawn(y) == Native!SubmitFrame([y EXCEPT !.now = recorder.now + d], pending, fault)
            Presented(y) == IF y.s.on /\ y.s.displayed
                              THEN Native!RuntimeStep(Native!AcceptDisplayed(y, fault), fault) ELSE y
            played == IF k = 0 THEN recorder ELSE Native!Sync([recorder EXCEPT !.now = recorder.now + k])
        IN /\ recorder.now + d <= MaxTime /\ k < d
           /\ Native!Does(Presented(Native!RuntimeStep(Native!Sync(Drawn(played)), fault)))
  BY DEF Native!Frame
<1>3. d \in Nat /\ k \in Nat /\ pending \in Nat /\ pending <= recorder.made
  BY <1>1, RecordingAssumption DEF Native!Pending
<1>4. PICK p : p = (IF k = 0 THEN recorder ELSE Native!Sync([recorder EXCEPT !.now = recorder.now + k]))
  OBVIOUS
<1>5. Rest(p) /\ p.now <= recorder.now + d /\ recorder.made <= p.made /\ p \in Machine
  <2>1. CASE k = 0  BY <1>1, <1>3, <1>4, <2>1
  <2>2. CASE k # 0
    <3>1. PICK q : q = [recorder EXCEPT !.now = recorder.now + k]  OBVIOUS
    <3>2. recorder.now + k \in Nat /\ recorder.now <= recorder.now + k
      BY <1>1, <1>3
    <3>3. Rest(q) /\ q.now = recorder.now + k /\ q.made = recorder.made
      BY <1>1, <3>1, <3>2, LaterIs
    <3>4. p = Native!Sync(q)  BY <1>4, <2>2, <3>1
    <3>5. Rest(p) /\ p.now = q.now /\ q.made <= p.made
      BY <3>3, <3>4, SyncRests
    <3>6. p \in Machine  BY <3>5 DEF Rest, Live, On, Base
    <3> QED BY <1>1, <1>2, <1>3, <3>3, <3>5, <3>6
  <2> QED BY <2>1, <2>2
<1>6. PICK q : q = [p EXCEPT !.now = recorder.now + d]  OBVIOUS
<1>7. Rest(q) /\ q.now = recorder.now + d /\ q.made = p.made
  <2>1. recorder.now + d \in Nat  BY <1>1, <1>3
  <2> QED BY <1>5, <1>6, <2>1, LaterIs
<1>8. PICK r : r = Native!SubmitFrame(q, pending, fault)  OBVIOUS
<1>9. Rest(r) /\ r.now = q.now
  <2>1. pending <= q.made  BY SMTT(40), <1>1, <1>3, <1>5, <1>7 DEF Machine
  <2> QED BY <1>3, <1>7, <1>8, <2>1, SubmitFrameIs
<1>10. PICK t : t = Native!Sync(r)  OBVIOUS
<1>11. Rest(t) /\ t.now = r.now  BY <1>9, <1>10, SyncRests
<1>12. PICK u : u = Native!RuntimeStep(t, fault)  OBVIOUS
<1>13. Rest(u) /\ u.now = t.now
  <2>1. (Rest(t) /\ ~t.s.on) \/ Shown(t) \/ Halted(t)
    BY <1>11 DEF Rest, Shown
  <2> QED BY <1>12, <2>1, RuntimeStepIs
<1>14. PICK v : v = Native!AcceptDisplayed(u, fault)  OBVIOUS
<1>15. PICK w : w = Native!RuntimeStep(v, fault)  OBVIOUS
<1>16. Rest(w) /\ w.now = u.now
  <2>1. ((Rest(v) /\ ~v.s.on) \/ Shown(v) \/ Halted(v)) /\ v.now = u.now
    BY <1>13, <1>14, AcceptDisplayedIs
  <2> QED BY <1>15, <2>1, RuntimeStepIs
<1>17. recorder.now + d <= MaxTime
       /\ Native!Does(IF u.s.on /\ u.s.displayed THEN w ELSE u)
  BY <1>2, <1>4, <1>6, <1>8, <1>10, <1>12, <1>14, <1>15
<1>18. Done(u) /\ Done(w)  BY <1>7, <1>9, <1>11, <1>13, <1>16, <1>17 DEF Done
<1> QED BY <1>17, <1>18, DoesIs

\* A session begins.
LEMMA RecordingStart ==
    ASSUME Done(recorder), Native!StartSession
    PROVE  Done(recorder')
<1>1. /\ recorder \in Machine /\ recorder.now \in Nat /\ recorder.made \in Nat /\ Rest(recorder)
      /\ recorder.now <= MaxTime
  BY AtRestIs
<1>2. PICK displayed \in BOOLEAN, auto \in BOOLEAN, limit \in Limits,
           pending \in Native!Pending(recorder), fault \in {"none", "start", "late"} :
        /\ ~recorder.s.on /\ ~(displayed /\ auto)
        /\ Native!Does(Native!Started(Native!Start(Native!Blank(recorder, displayed, limit), pending, fault), auto))
  BY Zenon DEF Native!StartSession
<1>3. limit \in Nat /\ pending \in Nat /\ pending <= recorder.made
  BY <1>1, RecordingAssumption DEF Native!Pending
<1>4. Quiet(recorder) /\ Base(recorder) /\ ~recorder.s.on
  BY <1>1, <1>2 DEF Rest
<1>5. PICK s \in Session : s = [Native!NoSession EXCEPT !.displayed = displayed, !.limit = limit]
  <2>1. Native!NoSession \in Session
    BY NoneIs DEF Native!NoSession, Session, Instant
  <2> QED BY ZenonT(60), <1>3, <2>1 DEF Session
<1>6. /\ ~s.on /\ s.displayed = displayed /\ s.auto = FALSE /\ s.limit = limit
      /\ s.staged = Native!None /\ s.incoming = Native!None /\ ~s.primed
      /\ s.accepted = 0 /\ s.first = 0 /\ s.index = 1 /\ ~s.writing /\ ~s.failed /\ ~s.stop
      /\ ~s.awaiting
  BY <1>5 DEF Native!NoSession
<1>7. PICK c : c = [recorder EXCEPT !.saved = <<>>, !.told = "none", !.took = 0, !.short = FALSE, !.s = s]
  OBVIOUS
<1>71. c = Native!Blank(recorder, displayed, limit)
  BY <1>5, <1>7 DEF Native!Blank
<1>8. /\ c \in Machine /\ c.s = s /\ c.fifo = recorder.fifo /\ c.now = recorder.now
      /\ c.last = recorder.last /\ c.made = recorder.made /\ c.epoch = recorder.epoch
      /\ c.tap = recorder.tap /\ c.shown = recorder.shown /\ c.saved = <<>>
      /\ c.file = recorder.file /\ c.told = "none"
  <2>1. recorder \in Machine /\ s \in Session /\ <<>> \in Seq(File) /\ "none" \in Words
    BY <1>1 DEF Words
  <2> QED BY <1>7, <2>1 DEF Machine
<1>9. All(c) = <<>>
  <2>1. Intervals(c.saved) = <<>>  BY <1>8 DEF Intervals, Native!Flat
  <2>2. c.file.cells = <<>>  BY <1>4, <1>8 DEF Quiet, Native!NoFile
  <2> QED BY <2>1, <2>2 DEF All
<1>10. Base(c)
  <2>1. Right(c)  BY <1>8, <1>9 DEF Right, Chained, Proper, Ordered
  <2>2. Clocked(c) /\ Owned(c)
    BY <1>4, <1>6, <1>8 DEF Base, Quiet, Clocked, Owned
  <2> QED BY <1>8, <2>1, <2>2 DEF Base
<1>11. PICK b : b = Native!Start(c, pending, fault)  OBVIOUS
<1>12. /\ Base(b) /\ Plan(b.s) = Plan(s) /\ b.now = recorder.now /\ b.file = recorder.file
       /\ b.saved = <<>> /\ b.told = "none" /\ b.epoch = c.epoch
  BY <1>3, <1>8, <1>10, <1>11, StartIs
<1>13. CASE ~b.ok
  <2>1. PICK y : y = Native!Ends(b, "error")  OBVIOUS
  <2>2. Rest(y) /\ y.now = b.now  BY <1>12, <2>1, EndsIs DEF Words
  <2>3. Native!Does(y)  BY <1>2, <1>71, <1>11, <1>13, <2>1 DEF Native!Started
  <2> QED BY <1>1, <1>12, <2>2, <2>3, DoesIs DEF Done
<1>14. CASE b.ok
  <2>1. b \in Machine /\ b.s \in Session /\ Clocked(b) /\ Owned(b) /\ Right(b)
    BY <1>12 DEF Base, Machine
  <2>2. PICK t \in Session : t = [b.s EXCEPT !.on = TRUE, !.auto = auto]
    BY ZenonT(60), <2>1 DEF Session
  <2>3. PICK y : y = [b EXCEPT !.s = t]  OBVIOUS
  <2>4. Native!Does(y)
    <3>1. y = [b EXCEPT !.s.on = TRUE, !.s.auto = auto]
      BY <2>1, <2>2, <2>3 DEF Machine
    <3> QED BY <1>2, <1>71, <1>11, <1>14, <3>1 DEF Native!Started
  <2>5. /\ t.on /\ t.auto = auto /\ t.displayed = displayed /\ t.limit = limit
        /\ t.staged = Native!None /\ t.incoming = Native!None /\ ~t.primed
        /\ t.accepted = 0 /\ t.first = 0 /\ t.index = 1 /\ ~t.writing /\ ~t.failed /\ ~t.stop
        /\ ~t.awaiting /\ t.sound = b.s.sound
    BY SMTT(40), <1>6, <1>12, <2>1, <2>2 DEF Plan, Session
  <2>6. /\ y \in Machine /\ y.s = t /\ y.fifo = b.fifo /\ y.now = b.now /\ y.last = b.last
        /\ y.made = b.made /\ y.epoch = b.epoch /\ y.tap = b.tap /\ y.shown = b.shown
        /\ y.saved = b.saved /\ y.file = b.file /\ y.told = b.told
    BY <2>1, <2>3 DEF Machine
  <2>7. b.s.displayed = displayed  BY <1>6, <1>12 DEF Plan
  <2>8. Right(y)  BY <2>1, <2>6, RightSame DEF Machine
  <2>9. Clocked(y) /\ Owned(y)
    BY <1>2, <2>1, <2>5, <2>6, <2>7 DEF Clocked, Owned
  <2>10. On(y)  BY <1>12, <2>5, <2>6, <2>8, <2>9 DEF On, Base
  <2>11. All(y) = <<>>  BY <1>8, <1>9, <1>12, <2>6 DEF All
  <2>12. Counts(y) /\ Linked(y)
    BY <1>3, <2>5, <2>6, <2>11 DEF Counts, Linked, Late
  <2>13. Writing(y)
    BY <1>4, <1>12, <2>5, <2>6 DEF Quiet, Writing, Writable, Closed
  <2>14. Rest(y)  BY <2>5, <2>6, <2>10, <2>12, <2>13 DEF Rest, Live, Going
  <2> QED BY <1>1, <1>12, <2>4, <2>6, <2>14, DoesIs DEF Done
<1> QED BY <1>13, <1>14

\* Everything else that can be done to one.
LEMMA RecordingStep ==
    ASSUME Done(recorder), Native!Next
    PROVE  Done(recorder')
<1>1. /\ recorder \in Machine /\ recorder.now \in Nat /\ Base(recorder) /\ recorder.now <= MaxTime
      /\ recorder.s \in Session /\ Rest(recorder) /\ MaxTime \in Nat
      /\ recorder.s.on => On(recorder) /\ Live(recorder) /\ ~(recorder.s.stop /\ recorder.s.writing)
  BY AtRestIs
<1>2. CASE Native!Frame  BY <1>2, RecordingFrame
<1>3. CASE Native!StartSession  BY <1>3, RecordingStart
<1>4. ASSUME recorder.s.on, NEW y, y \in Machine, Seen(y) = Seen(recorder), Clocked(y), Owned(y),
             y.s.on, y.told = "none", y.fifo = recorder.fifo, y.now = recorder.now, Native!Does(y)
      PROVE  Done(recorder')
  <2>1. y.s.awaiting = recorder.s.awaiting /\ y.s.stop = recorder.s.stop
        /\ y.s.writing = recorder.s.writing
    BY <1>4 DEF Seen
  <2>2. Live(y)  BY <1>1, <1>4, <2>1, LiveSame DEF Live
  <2>3. Rest(y)  BY <1>1, <1>4, <2>1, <2>2 DEF Rest
  <2> QED BY <1>1, <1>4, <2>3, DoesIs DEF Done
<1>5. CASE Native!RequestStop
  <2>1. PICK s \in Session : s = [recorder.s EXCEPT !.manual = TRUE]
    BY <1>1 DEF Session
  <2>2. PICK y : y = [recorder EXCEPT !.s = s]  OBVIOUS
  <2>3. y = [recorder EXCEPT !.s.manual = TRUE]
    BY <1>1, <2>1, <2>2 DEF Machine
  <2>4. recorder.s.on /\ Native!Does(y)  BY <1>5, <2>3 DEF Native!RequestStop
  <2>5. /\ y \in Machine /\ y.s = s /\ y.fifo = recorder.fifo /\ y.now = recorder.now
        /\ y.last = recorder.last /\ y.made = recorder.made /\ y.epoch = recorder.epoch
        /\ y.tap = recorder.tap /\ y.shown = recorder.shown
        /\ y.saved = recorder.saved /\ y.file = recorder.file /\ y.told = recorder.told
    BY <1>1, <2>2 DEF Machine
  <2>6. /\ s.on = recorder.s.on /\ s.displayed = recorder.s.displayed /\ s.sound = recorder.s.sound
        /\ s.staged = recorder.s.staged /\ s.incoming = recorder.s.incoming
        /\ s.primed = recorder.s.primed /\ s.next = recorder.s.next
        /\ s.accepted = recorder.s.accepted /\ s.limit = recorder.s.limit
        /\ s.first = recorder.s.first /\ s.index = recorder.s.index
        /\ s.writing = recorder.s.writing /\ s.failed = recorder.s.failed
        /\ s.stop = recorder.s.stop /\ s.awaiting = recorder.s.awaiting /\ s.auto = recorder.s.auto
    BY <1>1, <2>1 DEF Session
  <2>7. Seen(y) = Seen(recorder)  BY <2>5, <2>6 DEF Seen
  <2>8. Clocked(y) /\ Owned(y) /\ y.s.on /\ y.told = "none"
    BY <1>1, <2>4, <2>5, <2>6 DEF Base, Clocked, Owned, On
  <2> QED BY <1>4, <2>4, <2>5, <2>7, <2>8
<1>6. CASE Native!NewGeometry
  <2>1. PICK y : y = [recorder EXCEPT !.gen = recorder.gen + 1]  OBVIOUS
  <2>2. recorder.s.on /\ Native!Does(y) /\ recorder.gen \in Nat
    BY <1>1, <1>6, <2>1 DEF Native!NewGeometry, Machine
  <2>3. /\ y \in Machine /\ y.s = recorder.s /\ y.fifo = recorder.fifo /\ y.now = recorder.now
        /\ y.last = recorder.last /\ y.made = recorder.made /\ y.epoch = recorder.epoch
        /\ y.tap = recorder.tap /\ y.shown = recorder.shown
        /\ y.saved = recorder.saved /\ y.file = recorder.file /\ y.told = recorder.told
    BY SMTT(40), <1>1, <2>1, <2>2 DEF Machine
  <2>4. Seen(y) = Seen(recorder)  BY <2>3 DEF Seen
  <2>5. Clocked(y) /\ Owned(y) /\ y.s.on /\ y.told = "none"
    BY <1>1, <2>2, <2>3 DEF Base, Clocked, Owned, On
  <2> QED BY <1>4, <2>2, <2>3, <2>4, <2>5
<1>7. CASE Native!PollStop \/ Native!StopSession
  <2>1. recorder.s.on /\ \E fault \in Native!Faults : Native!Does(Native!Stop(recorder, fault))
    BY <1>7 DEF Native!PollStop, Native!StopSession
  <2>2. PICK fault \in Native!Faults : Native!Does(Native!Stop(recorder, fault))
    BY <2>1
  <2>3. PICK y : y = Native!Stop(recorder, fault)  OBVIOUS
  <2>4. Rest(y) /\ y.now = recorder.now  BY <1>1, <2>1, <2>3, StopIs
  <2> QED BY <1>1, <2>2, <2>3, <2>4, DoesIs DEF Done
<1>8. CASE Native!CancelSession
  <2>1. PICK y : y = Native!Ends(recorder, "canceled")  OBVIOUS
  <2>2. Rest(y) /\ y.now = recorder.now  BY <1>1, <2>1, EndsIs DEF Words
  <2>3. Native!Does(y)  BY <1>8, <2>1 DEF Native!CancelSession
  <2> QED BY <1>1, <2>2, <2>3, DoesIs DEF Done
<1>9. CASE Native!ChangeScreen
  <2>1. recorder.s.on /\ \E fault \in Native!Faults : Native!Does(Native!ScreenChanged(recorder, fault))
    BY <1>9 DEF Native!ChangeScreen
  <2>2. PICK fault \in Native!Faults : Native!Does(Native!ScreenChanged(recorder, fault))
    BY <2>1
  <2>3. PICK y : y = Native!ScreenChanged(recorder, fault)  OBVIOUS
  <2>4. Rest(y) /\ y.now = recorder.now
    BY <1>1, <2>1, <2>3, ScreenChangedIs DEF Shown
  <2> QED BY <1>1, <2>2, <2>3, <2>4, DoesIs DEF Done
<1>10. CASE Native!Reset
  <2>1. PICK fault \in Native!Faults :
            Native!Does(Native!Restarted(Native!BeforeReset(recorder, fault)))
    BY <1>10 DEF Native!Reset
  <2>2. PICK y : y = Native!Restarted(Native!BeforeReset(recorder, fault))
    OBVIOUS
  <2>3. Rest(y) /\ y.now = 0  BY <1>1, <2>2, ResetIs
  <2> QED BY <1>1, <2>1, <2>2, <2>3, DoesIs DEF Done
<1>11. CASE Native!LoadState
  <2>1. PICK z : z = Native!Ends(recorder, "ended")  OBVIOUS
  <2>2. Rest(z) /\ ~z.s.on  BY <1>1, <2>1, EndsIs DEF Words
  <2>3. PICK y : y = Native!Restarted(z)  OBVIOUS
  <2>4. Rest(y) /\ y.now = 0  BY <2>2, <2>3, RestartedOff
  <2>5. Native!Does(y)  BY <1>11, <2>1, <2>3 DEF Native!LoadState
  <2> QED BY <1>1, <2>4, <2>5, DoesIs DEF Done
<1> QED BY <1>2, <1>3, <1>5, <1>6, <1>7, <1>8, <1>9, <1>10, <1>11 DEF Native!Next

LEMMA RecordingInit == Native!Init => RecordingInv
<1> SUFFICES ASSUME Native!Init PROVE RecordingInv  OBVIOUS
<1>1. recorded = 0 /\ MaxOps \in Nat /\ MaxTime \in Nat
  BY RecordingAssumption DEF Native!Init
<1>2. /\ recorder.now = 0 /\ recorder.last = 0 /\ recorder.made = 0 /\ recorder.epoch = 0
      /\ recorder.fifo = Native!NoSound /\ recorder.tap = Native!NoTap /\ recorder.shown = "off"
      /\ recorder.s = Native!NoSession /\ recorder.file = Native!NoFile /\ recorder.saved = <<>>
      /\ recorder.told = "none"
  BY DEF Native!Init
<1>3. recorder \in Machine
  <2>1. Native!NoSound \in Fifo /\ Native!NoTap \in TapState /\ Native!NoFile \in File
    BY DEF Native!NoSound, Fifo, Native!NoTap, TapState, Native!NoFile, File
  <2>2. Native!NoSession \in Session
    BY NoneIs DEF Native!NoSession, Session, Instant
  <2> QED BY <2>1, <2>2 DEF Native!Init, Machine, Words
<1>4. All(recorder) = <<>>
  <2>1. Intervals(recorder.saved) = <<>> /\ recorder.file.cells = <<>>
    BY <1>2 DEF Intervals, Native!Flat, Native!NoFile
  <2> QED BY <2>1 DEF All
<1>5. Right(recorder)  BY <1>2, <1>4 DEF Right, Chained, Proper, Ordered
<1>6. Clocked(recorder) /\ Owned(recorder) /\ Quiet(recorder) /\ ~recorder.s.on
  BY <1>2 DEF Clocked, Owned, Quiet, Native!NoSound, Native!NoTap, Native!NoSession
<1> QED BY <1>1, <1>2, <1>3, <1>5, <1>6 DEF RecordingInv, Done, Rest, Base

LEMMA RecordingNext ==
    ASSUME RecordingInv, Native!Next
    PROVE  RecordingInv'
<1>1. Done(recorder')  BY RecordingStep DEF RecordingInv
<1>2. recorded' = recorded \/ (recorded < MaxOps /\ recorded' = recorded + 1)
  <2>1. CASE Native!Frame
    <3>1. PICK fault \in Native!Faults : IF fault = "none" THEN recorded' = recorded ELSE Native!Counted
      BY ZenonT(60), <2>1 DEF Native!Frame
    <3> QED BY <3>1 DEF Native!Counted
  <2>2. CASE Native!PollStop  BY <2>2, Zenon DEF Native!PollStop
  <2>3. CASE Native!Next /\ ~Native!Frame /\ ~Native!PollStop
    <3>1. Native!Counted
      BY <2>3, Zenon
         DEF Native!Next, Native!StartSession, Native!RequestStop, Native!StopSession,
             Native!CancelSession, Native!ChangeScreen, Native!NewGeometry, Native!Reset,
             Native!LoadState
    <3> QED BY <3>1 DEF Native!Counted
  <2> QED BY <2>1, <2>2, <2>3
<1>3. recorded' \in 0 .. MaxOps  BY <1>2, RecordingAssumption DEF RecordingInv
<1> QED BY <1>1, <1>3 DEF RecordingInv

LEMMA RecordingIsExact ==
    ASSUME RecordingInv
    PROVE  Native!TypeOK /\ Native!RecordedExactly /\ Native!SavedIsWhole /\ Native!Released
<1>1. /\ recorder \in Machine /\ Base(recorder) /\ recorder.now <= MaxTime
      /\ Clocked(recorder) /\ Right(recorder) /\ Rest(recorder)
      /\ recorder.s.on => On(recorder) /\ Live(recorder)
  BY AtRestIs DEF RecordingInv, Base
<1>2. Native!TypeOK
  BY <1>1 DEF RecordingInv, Native!TypeOK, Machine, Clocked, TapState, Words
<1>3. Native!Joined(recorder.saved) = Intervals(recorder.saved) /\ Native!Stored = All(recorder)
  <2>1. Native!Joined(recorder.saved) = Intervals(recorder.saved)
    BY Zenon DEF Native!Joined, Intervals
  <2> QED BY <2>1, Zenon DEF Native!Stored, All
<1>4. Native!RecordedExactly
  BY <1>1, <1>3 DEF Native!RecordedExactly, Right, Chained, Proper, Ordered
<1>5. Native!SavedIsWhole
  BY <1>1, <1>3 DEF Native!SavedIsWhole, Rest, Live, Going, Counts, On, Quiet
<1>6. Native!Released
  BY <1>1 DEF Native!Released, Rest, Quiet, Native!NoSound
<1> QED BY <1>2, <1>4, <1>5, <1>6

-----------------------------------------------------------------------------
\* The keyboard.  What is done to each event of a list in turn is a
\* recursive function; P[i] is what holds once the first i are done.
LEMMA Iterates ==
    ASSUME NEW S, NEW n \in Nat, NEW a \in S, NEW op \in [S \X (1..n) -> S]
    PROVE  Iterated(S, n, a, op)
<1> DEFINE Upto(k) == \E f \in [0..k -> S] : f[0] = a /\ \A i \in 1..k : f[i] = op[<<f[i - 1], i>>]
           T == {k \in Nat : k <= n => Upto(k)}
<1>1. 0 \in T
  <2> DEFINE f == [i \in 0..0 |-> a]
  <2>1. f \in [0..0 -> S] /\ f[0] = a /\ \A i \in 1..0 : f[i] = op[<<f[i - 1], i>>]
    OBVIOUS
  <2> QED BY <2>1
<1>2. ASSUME NEW k \in Nat, k \in T PROVE k + 1 \in T
  <2> SUFFICES ASSUME k + 1 <= n PROVE Upto(k + 1)  OBVIOUS
  <2>1. PICK f \in [0..k -> S] : f[0] = a /\ \A i \in 1..k : f[i] = op[<<f[i - 1], i>>]
    BY <1>2
  <2> DEFINE g == [i \in 0..(k + 1) |-> IF i <= k THEN f[i] ELSE op[<<f[k], k + 1>>]]
  <2>2. f[k] \in S /\ k + 1 \in 1..n  BY <2>1
  <2>3. op[<<f[k], k + 1>>] \in S  BY <2>2
  <2>4. g \in [0..(k + 1) -> S]  BY <2>1, <2>3
  <2>5. g[0] = a  BY <2>1
  <2>6. ASSUME NEW i \in 1..(k + 1) PROVE g[i] = op[<<g[i - 1], i>>]
    <3>1. CASE i <= k
      <4>1. i \in 1..k /\ i - 1 \in 0..k /\ i - 1 <= k  BY <3>1
      <4> QED BY <4>1, <2>1
    <3>2. CASE i = k + 1
      <4>1. i - 1 = k /\ k \in 0..(k + 1) /\ ~(k + 1 <= k)  BY <3>2
      <4> QED BY <4>1, <3>2
    <3> QED BY <3>1, <3>2
  <2> HIDE DEF g
  <2> QED BY <2>4, <2>5, <2>6
<1> HIDE DEF T
<1>3. Nat \subseteq T  BY <1>1, <1>2, SetInduction
<1>4. n \in T  BY <1>3
<1> QED BY <1>4 DEF T, Iterated

LEMMA KeyNumbers ==
    /\ Hold \in Nat /\ Hold >= 2 /\ QueueMax \in Nat /\ QueueMax >= 2 /\ FifoMax \in Nat
    /\ FramesPerEvent \in Nat /\ Hold <= FramesPerEvent /\ FifoMax >= 1
    /\ Shift \in Keys /\ KeyOrder \in Seq(Keys)
BY KeyboardAssumption

LEMMA EventIs ==
    /\ \A e \in Events : e.key \in Keys /\ e.up \in BOOLEAN /\ (e.up => e = Break(e.key))
                         /\ (~e.up => e = Make(e.key))
    /\ \A k \in Keys : /\ Make(k) \in Events /\ Make(k).key = k /\ ~Make(k).up
                       /\ Break(k) \in Events /\ Break(k).key = k /\ Break(k).up
BY DEF Events, Make, Break

LEMMA ApplyIs ==
    ASSUME NEW m \in Matrices, NEW e \in Events
    PROVE  /\ Apply(m, e) \in Matrices
           /\ Apply(m, e).queue = m.queue /\ Apply(m, e).forced = m.forced
           /\ e.up => /\ Apply(m, e).map = m.map \ {e.key}
                      /\ Apply(m, e).held = m.held \ {e.key}
                      /\ Apply(m, e).age = m.age
           /\ ~e.up => /\ Apply(m, e).map = m.map \cup {e.key}
                       /\ Apply(m, e).held = m.held \cup {e.key}
                       /\ Apply(m, e).age = [m.age EXCEPT ![e.key] = 0]
<1>1. PICK k \in Keys : k = e.key  BY EventIs
<1>2. /\ m.map \in SUBSET Keys /\ m.held \in SUBSET Keys /\ m.age \in [Keys -> 0..Hold]
      /\ m.queue \in Seq(Events) /\ m.forced \in BOOLEAN
      /\ m = [map |-> m.map, held |-> m.held, age |-> m.age, queue |-> m.queue, forced |-> m.forced]
  BY DEF Matrices
<1>3. CASE e.up
  <2>1. Apply(m, e) = [map |-> m.map \ {k}, held |-> m.held \ {k}, age |-> m.age,
                       queue |-> m.queue, forced |-> m.forced]
    BY <1>1, <1>2, <1>3 DEF Apply
  <2> QED BY <1>1, <1>2, <1>3, <2>1 DEF Matrices
<1>4. CASE ~e.up
  <2>0. 0 \in 0..Hold  BY KeyNumbers
  <2>1. [m.age EXCEPT ![k] = 0] \in [Keys -> 0..Hold]  BY <1>2, <2>0
  <2>2. Apply(m, e) = [map |-> m.map \cup {k}, held |-> m.held \cup {k},
                       age |-> [m.age EXCEPT ![k] = 0],
                       queue |-> m.queue, forced |-> m.forced]
    BY <1>1, <1>2, <1>4 DEF Apply
  <2> QED BY <1>1, <1>2, <1>4, <2>1, <2>2 DEF Matrices
<1> QED BY <1>3, <1>4

LEMMA AppliedThrough ==
    ASSUME NEW m \in Matrices, NEW es \in Seq(Events), NEW n \in Nat, n = Len(es),
           NEW P \in [0..n -> SUBSET Matrices], m \in P[0],
           \A i \in 1..n : \A x \in P[i - 1] : Apply(x, es[i]) \in P[i]
    PROVE  Applied(m, es) \in P[n]
<1> DEFINE op == [y \in Matrices \X (1..n) |-> Apply(y[1], es[y[2]])]
<1>1. \A i \in 1..n : es[i] \in Events  OBVIOUS
<1>2. op \in [Matrices \X (1..n) -> Matrices]
  <2>1. ASSUME NEW y \in Matrices \X (1..n) PROVE Apply(y[1], es[y[2]]) \in Matrices
    <3>1. y[1] \in Matrices /\ es[y[2]] \in Events  BY <1>1
    <3> QED BY <3>1, ApplyIs
  <2> QED BY <2>1
<1>3. \A x \in Matrices, i \in 1..n : op[<<x, i>>] = Apply(x, es[i])  OBVIOUS
<1> HIDE DEF op
<1>4. PICK f \in [0..n -> Matrices] : f[0] = m /\ \A i \in 1..n : f[i] = op[<<f[i - 1], i>>]
  <2>1. Iterated(Matrices, n, m, op)  BY <1>2, Iterates
  <2> QED BY <2>1 DEF Iterated
<1> DEFINE Eq(h) == h = [i \in 0..n |-> IF i = 0 THEN m ELSE Apply(h[i - 1], es[i])]
           g == CHOOSE h : Eq(h)
           T == {i \in Nat : i <= n => g[i] \in P[i]}
<1>5. Eq(f)
  <2>1. ASSUME NEW i \in 0..n, i # 0 PROVE f[i] = Apply(f[i - 1], es[i])
    <3>1. i \in 1..n /\ i - 1 \in 0..n  BY <2>1
    <3>2. f[i - 1] \in Matrices  BY <3>1
    <3> QED BY <1>3, <1>4, <3>1, <3>2
  <2>2. f = [i \in 0..n |-> f[i]]  OBVIOUS
  <2> QED BY <1>4, <2>1, <2>2
<1>6. Eq(g)  BY <1>5
<1> HIDE DEF g
<1>7. 0 \in T  BY <1>6
<1>8. ASSUME NEW i \in Nat, i \in T PROVE i + 1 \in T
  <2> SUFFICES ASSUME i + 1 <= n PROVE g[i + 1] \in P[i + 1]  OBVIOUS
  <2>1. i + 1 \in 0..n /\ i + 1 \in 1..n /\ i + 1 # 0 /\ (i + 1) - 1 = i /\ i <= n
    OBVIOUS
  <2>2. g[i + 1] = Apply(g[i], es[i + 1]) /\ g[i] \in P[i]
    BY <1>6, <1>8, <2>1
  <2> QED BY <2>1, <2>2
<1> HIDE DEF T
<1>9. Nat \subseteq T  BY <1>7, <1>8, SetInduction
<1>10. g[n] \in P[n]  BY <1>9 DEF T
<1> QED BY <1>10 DEF Applied, g

LEMMA EndsNone ==
    ASSUME NEW S \in SUBSET Keys, NEW q
    PROVE  Ends(S, q, 0) = S
BY DEF Ends

LEMMA EndsStep ==
    ASSUME NEW S, NEW q, NEW n \in Nat, NEW e \in Events, q[n + 1] = e
    PROVE  /\ e.up => Ends(S, q, n + 1) = Ends(S, q, n) \ {e.key}
           /\ ~e.up => Ends(S, q, n + 1) = Ends(S, q, n) \cup {e.key}
<1>1. \A i \in 1..(n + 1) : i \in 1..n \/ i = n + 1  OBVIOUS
<1>2. \A i \in 1..n : i \in 1..(n + 1)  OBVIOUS
<1>3. n + 1 \in 1..(n + 1) /\ ((n + 1) + 1)..(n + 1) = {}  OBVIOUS
<1>4. \A i \in 1..n : \A j \in (i + 1)..(n + 1) : j \in (i + 1)..n \/ j = n + 1
  OBVIOUS
<1>5. \A i \in 1..n : n + 1 \in (i + 1)..(n + 1) /\ \A j \in (i + 1)..n : j \in (i + 1)..(n + 1)
  OBVIOUS
<1>6. e.key \in Keys  BY EventIs
<1>7. ASSUME NEW k \in Keys, k # e.key
      PROVE  k \in Ends(S, q, n + 1) <=> k \in Ends(S, q, n)
  <2>1. ASSUME NEW i \in 1..(n + 1), q[i] = Make(k), \A j \in (i + 1)..(n + 1) : q[j].key # k
        PROVE  k \in Ends(S, q, n)
    <3>1. i # n + 1  BY <1>7, <2>1, EventIs
    <3>2. i \in 1..n /\ \A j \in (i + 1)..n : q[j].key # k
      BY <1>1, <1>5, <2>1, <3>1
    <3> QED BY <2>1, <3>2 DEF Ends
  <2>2. ASSUME NEW i \in 1..n, q[i] = Make(k), \A j \in (i + 1)..n : q[j].key # k
        PROVE  k \in Ends(S, q, n + 1)
    <3>1. i \in 1..(n + 1) /\ \A j \in (i + 1)..(n + 1) : q[j].key # k
      BY <1>2, <1>4, <1>7, <2>2
    <3> QED BY <2>2, <3>1 DEF Ends
  <2>3. (\A i \in 1..(n + 1) : q[i].key # k) <=> (\A i \in 1..n : q[i].key # k)
    BY <1>1, <1>2, <1>7
  <2> QED BY <2>1, <2>2, <2>3 DEF Ends
<1>8. e.key \in Ends(S, q, n + 1) <=> ~e.up
  <2>1. ASSUME NEW i \in 1..(n + 1), q[i] = Make(e.key), \A j \in (i + 1)..(n + 1) : q[j].key # e.key
        PROVE  ~e.up
    <3>1. i = n + 1  BY <1>1, <1>5, <2>1
    <3> QED BY <2>1, <3>1, <1>6, EventIs
  <2>2. ~e.up => q[n + 1] = Make(e.key) /\ \A j \in ((n + 1) + 1)..(n + 1) : q[j].key # e.key
    BY <1>3, EventIs
  <2>3. ~(\A i \in 1..(n + 1) : q[i].key # e.key)  BY <1>3
  <2> QED BY <1>3, <1>6, <2>1, <2>2, <2>3 DEF Ends
<1>9. Ends(S, q, n) \subseteq Keys /\ Ends(S, q, n + 1) \subseteq Keys
  BY DEF Ends
<1> QED BY <1>6, <1>7, <1>8, <1>9

LEMMA EndsSame ==
    ASSUME NEW S, NEW q, NEW r, NEW n \in Nat, \A i \in 1..n : q[i] = r[i]
    PROVE  Ends(S, q, n) = Ends(S, r, n)
<1>1. \A i \in 1..n : \A j \in (i + 1)..n : j \in 1..n  OBVIOUS
<1>2. ASSUME NEW k \in Keys PROVE k \in Ends(S, q, n) <=> k \in Ends(S, r, n)
  BY <1>1 DEF Ends
<1>3. Ends(S, q, n) \subseteq Keys /\ Ends(S, r, n) \subseteq Keys
  BY DEF Ends
<1> QED BY <1>2, <1>3

LEMMA MatrixIs ==
    ASSUME NEW m \in Matrices
    PROVE  /\ m.map \in SUBSET Keys /\ m.held \in SUBSET Keys /\ m.age \in [Keys -> 0..Hold]
           /\ m.queue \in Seq(Events) /\ m.forced \in BOOLEAN
           /\ \A k \in Keys : m.age[k] \in 0..Hold
BY DEF Matrices

LEMMA ApplySince ==
    ASSUME NEW a \in Matrices, NEW x \in Matrices, Held(x), Aged(a, x), NEW e \in Events
    PROVE  /\ Held(Apply(x, e)) /\ Aged(a, Apply(x, e))
           /\ OldEnough(a, x) /\ ~Waits(x, e) => OldEnough(a, Apply(x, e))
<1>1. PICK k \in Keys : k = e.key  BY EventIs
<1>2. PICK y \in Matrices : y = Apply(x, e)  BY ApplyIs
<1>3. /\ e.up => y.map = x.map \ {k} /\ y.held = x.held \ {k} /\ y.age = x.age
      /\ ~e.up => y.map = x.map \cup {k} /\ y.held = x.held \cup {k} /\ y.age = [x.age EXCEPT ![k] = 0]
  BY <1>1, <1>2, ApplyIs
<1>4. x.age \in [Keys -> 0..Hold] /\ a.age \in [Keys -> 0..Hold] /\ Hold \in Nat /\ Hold >= 2
      /\ a.map \subseteq Keys /\ x.map \subseteq Keys
  BY MatrixIs, KeyNumbers
<1>5. Held(y)  BY <1>3 DEF Held
<1>6. Aged(a, y)
  <2> SUFFICES ASSUME NEW j \in Keys, y.age[j] > 0
               PROVE  y.age[j] = a.age[j] /\ (j \in y.map => j \in a.map)
    BY DEF Aged
  <2>1. CASE e.up  BY <1>3, <2>1 DEF Aged
  <2>2. CASE ~e.up
    <3>1. j # k /\ y.age[j] = x.age[j] /\ (j \in y.map => j \in x.map)
      BY <1>3, <1>4, <2>2
    <3> QED BY <3>1 DEF Aged
  <2> QED BY <2>1, <2>2
<1>7. ASSUME OldEnough(a, x), ~Waits(x, e) PROVE OldEnough(a, y)
  <2> SUFFICES ASSUME NEW j \in a.map \ y.map PROVE a.age[j] >= Hold
    BY DEF OldEnough
  <2>1. CASE j \notin x.map  BY <1>7, <2>1 DEF OldEnough
  <2>2. CASE j \in x.map
    <3>1. e.up /\ j = k /\ k \in x.held  BY <1>3, <2>2 DEF Held
    <3>2. ~(x.age[k] < Hold)  BY <1>1, <1>7, <3>1 DEF Waits
    <3>3. x.age[k] >= Hold /\ x.age[k] > 0  BY <1>4, <3>2
    <3> QED BY <3>1, <3>3 DEF Aged
  <2> QED BY <2>1, <2>2
<1> QED BY <1>2, <1>5, <1>6, <1>7

LEMMA AppliedEnds ==
    ASSUME NEW m \in Matrices, NEW es \in Seq(Events)
    PROVE  /\ Applied(m, es) \in Matrices
           /\ Applied(m, es).queue = m.queue /\ Applied(m, es).forced = m.forced
           /\ Applied(m, es).map = Ends(m.map, es, Len(es))
<1> DEFINE Q(i) == {x \in Matrices : x.queue = m.queue /\ x.forced = m.forced
                                     /\ x.map = Ends(m.map, es, i)}
<1>1. PICK n \in Nat : n = Len(es)  OBVIOUS
<1> DEFINE P == [i \in 0..n |-> Q(i)]
<1>2. P \in [0..n -> SUBSET Matrices]  OBVIOUS
<1>3. m \in Q(0)  BY EndsNone, MatrixIs
<1>4. ASSUME NEW i \in 1..n, NEW x \in Q(i - 1) PROVE Apply(x, es[i]) \in Q(i)
  <2>1. PICK e \in Events : e = es[i]  BY <1>1
  <2>2. PICK j \in Nat : j = i - 1 /\ j + 1 = i  OBVIOUS
  <2>3. x \in Matrices /\ x.map = Ends(m.map, es, j) /\ x.queue = m.queue /\ x.forced = m.forced
    BY <1>4, <2>2
  <2>4. /\ e.up => Ends(m.map, es, i) = Ends(m.map, es, j) \ {e.key}
        /\ ~e.up => Ends(m.map, es, i) = Ends(m.map, es, j) \cup {e.key}
    BY <2>1, <2>2, EndsStep
  <2>5. Apply(x, e) \in Matrices /\ Apply(x, e).map = Ends(m.map, es, i)
        /\ Apply(x, e).queue = m.queue /\ Apply(x, e).forced = m.forced
    BY <2>3, <2>4, ApplyIs
  <2> QED BY <2>1, <2>5
<1>5. m \in P[0] /\ \A i \in 1..n : \A x \in P[i - 1] : Apply(x, es[i]) \in P[i]
  <2>1. 0 \in 0..n /\ \A i \in 1..n : i \in 0..n /\ i - 1 \in 0..n  OBVIOUS
  <2> HIDE DEF Q
  <2> QED BY <1>3, <1>4, <2>1
<1> HIDE DEF P
<1>6. Applied(m, es) \in P[n]  BY <1>1, <1>2, <1>5, AppliedThrough
<1>7. Applied(m, es) \in Q(n)  BY <1>6 DEF P
<1> QED BY <1>1, <1>7

LEMMA AppliedSince ==
    ASSUME NEW a \in Matrices, NEW m \in Matrices, NEW es \in Seq(Events), Held(m), Aged(a, m)
    PROVE  Held(Applied(m, es)) /\ Aged(a, Applied(m, es))
<1> DEFINE Q == {x \in Matrices : Held(x) /\ Aged(a, x)}
<1>1. PICK n \in Nat : n = Len(es)  OBVIOUS
<1> DEFINE P == [i \in 0..n |-> Q]
<1>2. P \in [0..n -> SUBSET Matrices]  OBVIOUS
<1>3. ASSUME NEW i \in 1..n, NEW x \in Q PROVE Apply(x, es[i]) \in Q
  <2>1. es[i] \in Events /\ x \in Matrices /\ Held(x) /\ Aged(a, x)
    BY <1>1, <1>3
  <2>2. Apply(x, es[i]) \in Matrices  BY <2>1, ApplyIs
  <2>3. Held(Apply(x, es[i])) /\ Aged(a, Apply(x, es[i]))  BY <2>1, ApplySince
  <2> QED BY <2>2, <2>3
<1>4. m \in Q  OBVIOUS
<1>5. m \in P[0] /\ \A i \in 1..n : \A x \in P[i - 1] : Apply(x, es[i]) \in P[i]
  <2>1. 0 \in 0..n /\ \A i \in 1..n : i \in 0..n /\ i - 1 \in 0..n  OBVIOUS
  <2> HIDE DEF Q
  <2> QED BY <1>3, <1>4, <2>1
<1> HIDE DEF P
<1>6. Applied(m, es) \in P[n]  BY <1>1, <1>2, <1>5, AppliedThrough
<1>7. Applied(m, es) \in Q  BY <1>6 DEF P
<1> QED BY <1>7

LEMMA AppliedReleases ==
    ASSUME NEW m \in Matrices, NEW es \in Seq(Events), Releases(es)
    PROVE  Applied(m, es).age = m.age /\ Applied(m, es).map \subseteq m.map
<1> DEFINE Q == {x \in Matrices : x.age = m.age /\ x.map \subseteq m.map}
<1>1. PICK n \in Nat : n = Len(es)  OBVIOUS
<1> DEFINE P == [i \in 0..n |-> Q]
<1>2. P \in [0..n -> SUBSET Matrices]  OBVIOUS
<1>3. ASSUME NEW i \in 1..n, NEW x \in Q PROVE Apply(x, es[i]) \in Q
  <2>1. PICK e \in Events : e = es[i] /\ e.up  BY <1>1 DEF Releases
  <2>2. /\ Apply(x, e) \in Matrices /\ Apply(x, e).age = x.age
        /\ Apply(x, e).map = x.map \ {e.key}
    BY <1>3, <2>1, ApplyIs
  <2> QED BY <1>3, <2>1, <2>2
<1>4. m \in Q  OBVIOUS
<1>5. m \in P[0] /\ \A i \in 1..n : \A x \in P[i - 1] : Apply(x, es[i]) \in P[i]
  <2>1. 0 \in 0..n /\ \A i \in 1..n : i \in 0..n /\ i - 1 \in 0..n  OBVIOUS
  <2> HIDE DEF Q
  <2> QED BY <1>3, <1>4, <2>1
<1> HIDE DEF P
<1>6. Applied(m, es) \in P[n]  BY <1>1, <1>2, <1>5, AppliedThrough
<1>7. Applied(m, es) \in Q  BY <1>6 DEF P
<1> QED BY <1>7

LEMMA AppendIs ==
    ASSUME NEW S, NEW q \in Seq(S), NEW e \in S, NEW n \in Nat, n = Len(q)
    PROVE  /\ Append(q, e) \in Seq(S) /\ Len(Append(q, e)) = n + 1 /\ Append(q, e)[n + 1] = e
           /\ \A i \in 1..n : Append(q, e)[i] = q[i] /\ q[i] \in S
           /\ Append(q, e) # <<>>
OBVIOUS

LEMMA AppendSeq ==
    ASSUME NEW S, NEW q \in Seq(S), NEW e \in S
    PROVE  Append(q, e) \in Seq(S)
OBVIOUS

LEMMA EndsAppend ==
    ASSUME NEW S, NEW q \in Seq(Events), NEW e \in Events
    PROVE  /\ e.up => Ends(S, Append(q, e), Len(Append(q, e))) = Ends(S, q, Len(q)) \ {e.key}
           /\ ~e.up => Ends(S, Append(q, e), Len(Append(q, e))) = Ends(S, q, Len(q)) \cup {e.key}
<1>1. PICK n \in Nat : n = Len(q)  OBVIOUS
<1>2. PICK r : r = Append(q, e)  OBVIOUS
<1>3. Len(r) = n + 1 /\ r[n + 1] = e /\ \A i \in 1..n : r[i] = q[i]
  BY <1>1, <1>2, AppendIs
<1>4. Ends(S, r, n) = Ends(S, q, n)  BY <1>3, EndsSame
<1>5. /\ e.up => Ends(S, r, n + 1) = Ends(S, r, n) \ {e.key}
      /\ ~e.up => Ends(S, r, n + 1) = Ends(S, r, n) \cup {e.key}
  BY <1>3, EndsStep
<1> QED BY <1>1, <1>2, <1>3, <1>4, <1>5

LEMMA QueuedIs ==
    ASSUME NEW m \in Matrices, NEW e \in Events
    PROVE  Queued(m, [m EXCEPT !.queue = Append(@, e)], e)
<1>1. PICK q \in Seq(Events) : q = Append(m.queue, e)
  <2>1. m.queue \in Seq(Events)  BY MatrixIs
  <2> QED BY <2>1, AppendSeq
<1>2. [m EXCEPT !.queue = Append(@, e)] = [m EXCEPT !.queue = q]
  BY <1>1 DEF Matrices
<1> QED BY <1>1, <1>2 DEF Queued, Matrices

LEMMA QueuedSince ==
    ASSUME NEW a, NEW m, NEW r, NEW e, Queued(m, r, e)
    PROVE  /\ Held(m) => Held(r)
           /\ Aged(a, m) => Aged(a, r)
           /\ OldEnough(a, m) => OldEnough(a, r)
BY DEF Queued, Held, Aged, OldEnough

LEMMA ApplyDueIs ==
    ASSUME NEW m \in Matrices, NEW e \in Events
    PROVE  /\ ApplyDue(m, e) \in Matrices
           /\ m.queue = <<>> /\ ~Waits(m, e) => ApplyDue(m, e) = Apply(m, e)
           /\ m.queue # <<>> \/ Waits(m, e) => Queued(m, ApplyDue(m, e), e)
<1>1. Queued(m, [m EXCEPT !.queue = Append(@, e)], e)  BY QueuedIs
<1>2. Apply(m, e) \in Matrices  BY ApplyIs
<1> QED BY <1>1, <1>2 DEF ApplyDue, Queued

LEMMA AppliedDueThrough ==
    ASSUME NEW m \in Matrices, NEW es \in Seq(Events), NEW n \in Nat, n = Len(es),
           NEW P \in [0..n -> SUBSET Matrices], m \in P[0],
           \A i \in 1..n : \A x \in P[i - 1] : ApplyDue(x, es[i]) \in P[i]
    PROVE  AppliedDue(m, es) \in P[n]
<1> DEFINE op == [y \in Matrices \X (1..n) |-> ApplyDue(y[1], es[y[2]])]
<1>1. \A i \in 1..n : es[i] \in Events  OBVIOUS
<1>2. op \in [Matrices \X (1..n) -> Matrices]
  <2>1. ASSUME NEW y \in Matrices \X (1..n) PROVE ApplyDue(y[1], es[y[2]]) \in Matrices
    <3>1. y[1] \in Matrices /\ es[y[2]] \in Events  BY <1>1
    <3> QED BY <3>1, ApplyDueIs
  <2> QED BY <2>1
<1>3. \A x \in Matrices, i \in 1..n : op[<<x, i>>] = ApplyDue(x, es[i])
  OBVIOUS
<1> HIDE DEF op
<1>4. PICK f \in [0..n -> Matrices] : f[0] = m /\ \A i \in 1..n : f[i] = op[<<f[i - 1], i>>]
  <2>1. Iterated(Matrices, n, m, op)  BY <1>2, Iterates
  <2> QED BY <2>1 DEF Iterated
<1> DEFINE Eq(h) == h = [i \in 0..n |-> IF i = 0 THEN m ELSE ApplyDue(h[i - 1], es[i])]
           g == CHOOSE h : Eq(h)
           T == {i \in Nat : i <= n => g[i] \in P[i]}
<1>5. Eq(f)
  <2>1. ASSUME NEW i \in 0..n, i # 0 PROVE f[i] = ApplyDue(f[i - 1], es[i])
    <3>1. i \in 1..n /\ i - 1 \in 0..n  BY <2>1
    <3>2. f[i - 1] \in Matrices  BY <3>1
    <3> QED BY <1>3, <1>4, <3>1, <3>2
  <2>2. f = [i \in 0..n |-> f[i]]  OBVIOUS
  <2> QED BY <1>4, <2>1, <2>2
<1>6. Eq(g)  BY <1>5
<1> HIDE DEF g
<1>7. 0 \in T  BY <1>6
<1>8. ASSUME NEW i \in Nat, i \in T PROVE i + 1 \in T
  <2> SUFFICES ASSUME i + 1 <= n PROVE g[i + 1] \in P[i + 1]  OBVIOUS
  <2>1. i + 1 \in 0..n /\ i + 1 \in 1..n /\ i + 1 # 0 /\ (i + 1) - 1 = i /\ i <= n
    OBVIOUS
  <2>2. g[i + 1] = ApplyDue(g[i], es[i + 1]) /\ g[i] \in P[i]
    BY <1>6, <1>8, <2>1
  <2> QED BY <2>1, <2>2
<1> HIDE DEF T
<1>9. Nat \subseteq T  BY <1>7, <1>8, SetInduction
<1>10. g[n] \in P[n]  BY <1>9 DEF T
<1> QED BY <1>10 DEF AppliedDue, g

\* A tick keeps what the queue will come to, in its order, and releases only what
\* is old enough.
LEMMA TickKeeps ==
    ASSUME NEW m \in Matrices, NEW es \in Seq(Events), m.queue = <<>>, Held(m)
    PROVE  LET r == AppliedDue(m, es)
           IN  /\ r \in Matrices /\ r.forced = m.forced /\ Held(r) /\ Aged(m, r) /\ OldEnough(m, r)
               /\ Ends(r.map, r.queue, Len(r.queue)) = Ends(m.map, es, Len(es))
<1> DEFINE Q(i) == {x \in Matrices :
                      /\ x.forced = m.forced /\ Held(x) /\ Aged(m, x) /\ OldEnough(m, x)
                      /\ Ends(x.map, x.queue, Len(x.queue)) = Ends(m.map, es, i)}
<1>1. PICK n \in Nat : n = Len(es)  OBVIOUS
<1> DEFINE P == [i \in 0..n |-> Q(i)]
<1>2. P \in [0..n -> SUBSET Matrices]  OBVIOUS
<1>3. m \in Q(0)
  <2>1. Len(m.queue) = 0  OBVIOUS
  <2>2. Ends(m.map, m.queue, 0) = m.map /\ Ends(m.map, es, 0) = m.map
    BY EndsNone, MatrixIs
  <2>3. Aged(m, m) /\ OldEnough(m, m)  BY DEF Aged, OldEnough
  <2> QED BY <2>1, <2>2, <2>3
<1>4. ASSUME NEW i \in 1..n, NEW x \in Q(i - 1) PROVE ApplyDue(x, es[i]) \in Q(i)
  <2>1. PICK e \in Events : e = es[i]  BY <1>1
  <2>2. PICK j \in Nat : j = i - 1 /\ j + 1 = i  OBVIOUS
  <2>3. /\ x \in Matrices /\ x.forced = m.forced /\ Held(x) /\ Aged(m, x) /\ OldEnough(m, x)
        /\ Ends(x.map, x.queue, Len(x.queue)) = Ends(m.map, es, j)
    BY <1>4, <2>2
  <2>4. /\ e.up => Ends(m.map, es, i) = Ends(m.map, es, j) \ {e.key}
        /\ ~e.up => Ends(m.map, es, i) = Ends(m.map, es, j) \cup {e.key}
    BY <2>1, <2>2, EndsStep
  <2>5. PICK y \in Matrices : y = ApplyDue(x, e)  BY <2>3, ApplyDueIs
  <2> HIDE DEF Q, P
  <2>6. CASE x.queue = <<>> /\ ~Waits(x, e)
    <3>1. y = Apply(x, e)  BY <2>3, <2>5, <2>6, ApplyDueIs
    <3>2. Held(y) /\ Aged(m, y) /\ OldEnough(m, y)
      BY <3>1, <2>3, <2>6, ApplySince
    <3>3. y.queue = <<>> /\ y.forced = m.forced /\ y.map \in SUBSET Keys
          /\ (e.up => y.map = x.map \ {e.key}) /\ (~e.up => y.map = x.map \cup {e.key})
      <4>1. y.map \in SUBSET Keys  BY <2>5, MatrixIs
      <4>2. /\ Apply(x, e).queue = x.queue /\ Apply(x, e).forced = x.forced
            /\ e.up => Apply(x, e).map = x.map \ {e.key}
            /\ ~e.up => Apply(x, e).map = x.map \cup {e.key}
        <5>1. x \in Matrices  BY <2>3
        <5>2. e \in Events  BY <2>1
        <5> QED BY ONLY <5>1, <5>2, ApplyIs
      <4> QED BY <3>1, <2>3, <2>6, <4>1, <4>2
    <3>4. Ends(x.map, x.queue, Len(x.queue)) = x.map
      <4>1. Len(x.queue) = 0  BY <2>6
      <4> QED BY <4>1, <2>3, EndsNone, MatrixIs
    <3>5. Ends(y.map, y.queue, Len(y.queue)) = y.map
      <4>1. Len(y.queue) = 0  BY <3>3
      <4> QED BY <4>1, <3>3, EndsNone
    <3>6. y.map = Ends(m.map, es, i)
      BY ZenonT(60), <2>3, <2>4, <3>3, <3>4, EventIs
    <3> QED BY <2>1, <2>5, <3>2, <3>3, <3>5, <3>6 DEF Q
  <2>7. CASE x.queue # <<>> \/ Waits(x, e)
    <3>1. Queued(x, y, e)  BY <2>3, <2>5, <2>7, ApplyDueIs
    <3>2. Held(y) /\ Aged(m, y) /\ OldEnough(m, y) /\ y.forced = m.forced
      BY <3>1, <2>3, QueuedSince DEF Queued
    <3>3. x.queue \in Seq(Events) /\ y.queue = Append(x.queue, e) /\ y.map = x.map
      BY <3>1, <2>3, MatrixIs DEF Queued
    <3>4. /\ e.up => Ends(y.map, y.queue, Len(y.queue)) = Ends(m.map, es, j) \ {e.key}
          /\ ~e.up => Ends(y.map, y.queue, Len(y.queue)) = Ends(m.map, es, j) \cup {e.key}
      <4>1. PICK q \in Seq(Events) : q = x.queue  BY <3>3
      <4>2. /\ e.up => Ends(x.map, Append(q, e), Len(Append(q, e))) = Ends(x.map, q, Len(q)) \ {e.key}
            /\ ~e.up => Ends(x.map, Append(q, e), Len(Append(q, e))) = Ends(x.map, q, Len(q)) \cup {e.key}
        BY EndsAppend
      <4> QED BY <3>3, <2>3, <4>1, <4>2
    <3>5. Ends(y.map, y.queue, Len(y.queue)) = Ends(m.map, es, i)
      BY <2>4, <3>4, EventIs
    <3> QED BY <2>1, <2>5, <3>2, <3>5 DEF Q
  <2> QED BY <2>6, <2>7
<1>5. m \in P[0] /\ \A i \in 1..n : \A x \in P[i - 1] : ApplyDue(x, es[i]) \in P[i]
  <2>1. 0 \in 0..n /\ \A i \in 1..n : i \in 0..n /\ i - 1 \in 0..n  OBVIOUS
  <2> HIDE DEF Q
  <2> QED BY <1>3, <1>4, <2>1
<1> HIDE DEF P
<1>6. AppliedDue(m, es) \in P[n]  BY <1>1, <1>2, <1>5, AppliedDueThrough
<1>7. AppliedDue(m, es) \in Q(n)  BY <1>6 DEF P
<1> QED BY <1>1, <1>7

\* Of releases alone, all are done when every key is old enough, and none as long as
\* the first has to wait.
LEMMA TickReleases ==
    ASSUME NEW m \in Matrices, NEW es \in Seq(Events), m.queue = <<>>, Releases(es)
    PROVE  LET r == AppliedDue(m, es)
           IN  /\ r.age = m.age /\ r.map \subseteq m.map
               /\ Releases(r.queue) /\ Len(r.queue) <= Len(es)
               /\ (\A k \in Keys : m.age[k] >= Hold) => r.queue = <<>>
               /\ es # <<>> /\ Waits(m, es[1]) =>
                     r.map = m.map /\ r.queue # <<>> /\ r.queue[1] = es[1]
<1> DEFINE Old == \A k \in Keys : m.age[k] >= Hold
           Stuck == es # <<>> /\ Waits(m, es[1])
           Q(i) == {x \in Matrices :
                      /\ x.age = m.age /\ x.map \subseteq m.map
                      /\ Releases(x.queue) /\ Len(x.queue) <= i
                      /\ Old => x.queue = <<>>
                      /\ Stuck => /\ x.map = m.map /\ x.held = m.held
                                  /\ i > 0 => x.queue # <<>> /\ x.queue[1] = es[1]}
<1>1. PICK n \in Nat : n = Len(es)  OBVIOUS
<1> DEFINE P == [i \in 0..n |-> Q(i)]
<1>2. P \in [0..n -> SUBSET Matrices]  OBVIOUS
<1>3. m \in Q(0)
  <2>1. Len(m.queue) = 0 /\ Releases(m.queue)  BY DEF Releases
  <2> QED BY <2>1
<1>4. ASSUME NEW i \in 1..n, NEW x \in Q(i - 1) PROVE ApplyDue(x, es[i]) \in Q(i)
  <2>1. PICK e \in Events : e = es[i] /\ e.up /\ e.key \in Keys
    BY <1>1, EventIs DEF Releases
  <2>2. PICK j \in Nat : j = i - 1 /\ j + 1 = i  OBVIOUS
  <2>3. /\ x \in Matrices /\ x.age = m.age /\ x.map \subseteq m.map
        /\ Releases(x.queue) /\ Len(x.queue) <= j
        /\ Old => x.queue = <<>>
        /\ Stuck => /\ x.map = m.map /\ x.held = m.held
                    /\ j > 0 => x.queue # <<>> /\ x.queue[1] = es[1]
    BY <1>4, <2>2
  <2>4. PICK y \in Matrices : y = ApplyDue(x, e)  BY <2>3, ApplyDueIs
  <2>5. PICK q \in Seq(Events) : q = x.queue  BY <2>3, MatrixIs
  <2>6. PICK len \in Nat : len = Len(q) /\ len <= j  BY <2>3, <2>5
  <2>7. Stuck /\ j = 0 => Waits(x, e)  BY <2>1, <2>2, <2>3 DEF Waits
  <2>8. Old => ~Waits(x, e)
    <3>1. m.age[e.key] \in Nat /\ Hold \in Nat  BY <2>1, MatrixIs, KeyNumbers
    <3> QED BY <3>1, <2>1, <2>3 DEF Waits
  <2> HIDE DEF Q, P, Old, Stuck
  <2>9. CASE x.queue = <<>> /\ ~Waits(x, e)
    <3>1. y = Apply(x, e)  BY <2>3, <2>4, <2>9, ApplyDueIs
    <3>2. y.age = m.age /\ y.map \subseteq m.map /\ y.queue = <<>>
      <4>1. /\ Apply(x, e).queue = x.queue /\ Apply(x, e).age = x.age
            /\ Apply(x, e).map = x.map \ {e.key}
        BY ZenonT(60), <2>1, <2>3, ApplyIs
      <4> QED BY <3>1, <2>3, <2>9, <4>1
    <3>3. ~Stuck  BY <2>2, <2>3, <2>7, <2>9
    <3>4. Releases(y.queue) /\ Len(y.queue) = 0  BY <3>2 DEF Releases
    <3>5. y \in Q(i)  BY <2>2, <3>2, <3>3, <3>4 DEF Q
    <3> QED BY <2>1, <2>4, <3>5
  <2>10. CASE x.queue # <<>> \/ Waits(x, e)
    <3>1. Queued(x, y, e)  BY <2>3, <2>4, <2>10, ApplyDueIs
    <3>2. y.age = m.age /\ y.map = x.map /\ y.held = x.held /\ y.queue = Append(q, e)
      BY <3>1, <2>3, <2>5 DEF Queued
    <3>3. /\ Len(y.queue) = len + 1 /\ y.queue[len + 1] = e /\ y.queue # <<>>
          /\ \A u \in 1..len : y.queue[u] = q[u]
      BY <3>2, <2>6, AppendIs
    <3>4. Releases(y.queue)
      <4>1. \A u \in 1..(len + 1) : u \in 1..len \/ u = len + 1  OBVIOUS
      <4>2. \A u \in 1..len : q[u].up  BY <2>3, <2>5, <2>6 DEF Releases
      <4> QED BY <2>1, <3>3, <4>1, <4>2 DEF Releases
    <3>5. ~Old  BY <2>3, <2>8, <2>10
    <3>6. Stuck => y.queue[1] = es[1]
      <4>1. CASE q = <<>>
        <5>1. len = 0  BY <2>6, <4>1
        <5>2. Stuck => j = 0  BY <2>2, <2>3, <2>5, <4>1
        <5> QED BY <2>1, <2>2, <3>3, <5>1, <5>2
      <4>2. CASE q # <<>>
        <5>1. 1 \in 1..len  BY <2>6, <4>2
        <5>2. j > 0  BY <2>6, <5>1
        <5> QED BY <2>3, <2>5, <3>3, <5>1, <5>2
      <4> QED BY <4>1, <4>2
    <3>7. len + 1 <= i  BY <2>2, <2>6
    <3>8. y \in Q(i)  BY <2>3, <3>2, <3>3, <3>4, <3>5, <3>6, <3>7 DEF Q
    <3> QED BY <2>1, <2>4, <3>8
  <2> QED BY <2>9, <2>10
<1>5. m \in P[0] /\ \A i \in 1..n : \A x \in P[i - 1] : ApplyDue(x, es[i]) \in P[i]
  <2>1. 0 \in 0..n /\ \A i \in 1..n : i \in 0..n /\ i - 1 \in 0..n  OBVIOUS
  <2> HIDE DEF Q
  <2> QED BY <1>3, <1>4, <2>1
<1> HIDE DEF P
<1>6. AppliedDue(m, es) \in P[n]  BY <1>1, <1>2, <1>5, AppliedDueThrough
<1>7. AppliedDue(m, es) \in Q(n)  BY <1>6 DEF P
<1>8. Stuck => n > 0  BY <1>1
<1> QED BY <1>1, <1>7, <1>8

\* The whole of a tick, and what it leaves of a queue of releases.
LEMMA TickIs ==
    ASSUME NEW m \in Matrices, Held(m)
    PROVE  LET r == MatrixTick(m)
           IN  /\ r \in Matrices /\ r.forced = m.forced /\ Held(r)
               /\ Ends(r.map, r.queue, Len(r.queue)) = Ends(m.map, m.queue, Len(m.queue))
               /\ \A k \in m.map \ r.map : Older(m.age[k]) >= Hold
               /\ Releases(m.queue) =>
                     /\ \A k \in Keys : r.age[k] = Older(m.age[k])
                     /\ r.map \subseteq m.map
                     /\ Releases(r.queue) /\ Len(r.queue) <= Len(m.queue)
                     /\ (\A k \in Keys : Older(m.age[k]) >= Hold) => r.queue = <<>>
                     /\ \A e \in Events :
                          m.queue # <<>> /\ m.queue[1] = e /\ e.key \in m.held /\ Older(m.age[e.key]) < Hold =>
                             r.map = m.map /\ r.queue # <<>> /\ r.queue[1] = e
<1> DEFINE ages == [k \in Keys |-> Older(m.age[k])]
           a == [m EXCEPT !.queue = <<>>, !.age = ages]
<1>1. ages \in [Keys -> 0..Hold]
  <2>1. ASSUME NEW k \in Keys PROVE Older(m.age[k]) \in 0..Hold
    <3>1. m.age[k] \in 0..Hold /\ Hold \in Nat  BY MatrixIs, KeyNumbers
    <3> QED BY <3>1 DEF Older
  <2> QED BY <2>1
<1>2. \A k \in Keys : ages[k] = Older(m.age[k])  OBVIOUS
<1>3. <<>> \in Seq(Events)  OBVIOUS
<1> HIDE DEF ages
<1>4. /\ a \in Matrices /\ a.queue = <<>> /\ a.age = ages
      /\ a.map = m.map /\ a.held = m.held /\ a.forced = m.forced
  BY <1>1, <1>3 DEF Matrices
<1>5. MatrixTick(m) = AppliedDue(a, m.queue)  BY DEF MatrixTick, ages
<1> HIDE DEF a
<1>6. Held(a) /\ m.queue \in Seq(Events)  BY <1>4, MatrixIs DEF Held
<1>7. PICK r : r = AppliedDue(a, m.queue)  OBVIOUS
<1>8. /\ r \in Matrices /\ r.forced = a.forced /\ Held(r) /\ OldEnough(a, r)
      /\ Ends(r.map, r.queue, Len(r.queue)) = Ends(a.map, m.queue, Len(m.queue))
  BY <1>4, <1>6, <1>7, TickKeeps
<1>9. \A k \in m.map \ r.map : Older(m.age[k]) >= Hold
  <2>1. m.map \subseteq Keys  BY MatrixIs
  <2> QED BY <1>2, <1>4, <1>8, <2>1 DEF OldEnough
<1>10. ASSUME Releases(m.queue)
       PROVE  /\ \A k \in Keys : r.age[k] = Older(m.age[k])
              /\ r.map \subseteq m.map
              /\ Releases(r.queue) /\ Len(r.queue) <= Len(m.queue)
              /\ (\A k \in Keys : Older(m.age[k]) >= Hold) => r.queue = <<>>
              /\ \A e \in Events :
                   m.queue # <<>> /\ m.queue[1] = e /\ e.key \in m.held /\ Older(m.age[e.key]) < Hold =>
                      r.map = m.map /\ r.queue # <<>> /\ r.queue[1] = e
  <2>1. /\ r.age = a.age /\ r.map \subseteq a.map
        /\ Releases(r.queue) /\ Len(r.queue) <= Len(m.queue)
        /\ (\A k \in Keys : a.age[k] >= Hold) => r.queue = <<>>
        /\ m.queue # <<>> /\ Waits(a, m.queue[1]) =>
              r.map = a.map /\ r.queue # <<>> /\ r.queue[1] = m.queue[1]
    BY <1>4, <1>6, <1>7, <1>10, TickReleases
  <2>2. ASSUME NEW e \in Events, m.queue # <<>>, m.queue[1] = e, e.key \in m.held,
               Older(m.age[e.key]) < Hold
        PROVE  Waits(a, m.queue[1])
    <3>1. 1 \in 1..Len(m.queue) /\ e.key \in Keys  BY <1>6, <2>2, EventIs
    <3>2. e.up  BY <1>10, <2>2, <3>1 DEF Releases
    <3> QED BY <1>2, <1>4, <2>2, <3>1, <3>2 DEF Waits
  <2> QED BY <1>2, <1>4, <2>1, <2>2
<1> QED BY <1>4, <1>5, <1>7, <1>8, <1>9, <1>10

\* Emptying the queue without pacing.
LEMMA FlushIs ==
    ASSUME NEW m \in Matrices
    PROVE  LET r == FlushMatrix(m)
           IN  /\ r \in Matrices /\ r.queue = <<>> /\ r.forced = (m.forced \/ m.queue # <<>>)
               /\ r.map = Ends(m.map, m.queue, Len(m.queue))
               /\ \A a \in Matrices : Held(m) /\ Aged(a, m) => Held(r) /\ Aged(a, r)
               /\ Releases(m.queue) => r.age = m.age /\ r.map \subseteq m.map
<1>1. m.queue \in Seq(Events) /\ m.forced \in BOOLEAN  BY MatrixIs
<1>2. PICK x : x = Applied(m, m.queue)  OBVIOUS
<1>3. x \in Matrices /\ x.forced = m.forced /\ x.map = Ends(m.map, m.queue, Len(m.queue))
  BY <1>1, <1>2, AppliedEnds
<1>4. PICK b \in BOOLEAN : b = (m.forced \/ m.queue # <<>>)  OBVIOUS
<1>5. FlushMatrix(m) = [x EXCEPT !.queue = <<>>, !.forced = b]
  BY <1>2, <1>3, <1>4 DEF FlushMatrix, Matrices
<1>6. PICK r : r = [x EXCEPT !.queue = <<>>, !.forced = b]  OBVIOUS
<1>7. /\ r \in Matrices /\ r.queue = <<>> /\ r.forced = b
      /\ r.map = x.map /\ r.held = x.held /\ r.age = x.age
  <2>1. <<>> \in Seq(Events)  OBVIOUS
  <2> QED BY <1>3, <1>4, <1>6, <2>1 DEF Matrices
<1>8. ASSUME NEW a \in Matrices, Held(m), Aged(a, m) PROVE Held(r) /\ Aged(a, r)
  <2>1. Held(x) /\ Aged(a, x)  BY <1>1, <1>2, <1>8, AppliedSince
  <2> QED BY <1>7, <2>1 DEF Held, Aged
<1>9. Releases(m.queue) => x.age = m.age /\ x.map \subseteq m.map
  BY <1>1, <1>2, AppliedReleases
<1> QED BY <1>3, <1>4, <1>5, <1>6, <1>7, <1>8, <1>9

LEMMA MatrixSendIs ==
    ASSUME NEW m \in Matrices, Held(m), NEW e \in Events
    PROVE  Sending(m, MatrixSend(m, e), e)
<1> DEFINE n == Len(m.queue)
<1>1. Held(m) /\ m.map \in SUBSET Keys /\ m.queue \in Seq(Events) /\ e.key \in Keys /\ e.up \in BOOLEAN
  BY MatrixIs, EventIs
<1>2. CASE m.queue = <<>> /\ ~Waits(m, e)
  <2>1. PICK r \in Matrices : r = Apply(m, e)  BY ApplyIs
  <2>2. MatrixSend(m, e) = r  BY <1>2, <2>1 DEF MatrixSend
  <2>3. /\ r.queue = <<>> /\ r.forced = m.forced
        /\ e.up => r.map = m.map \ {e.key}
        /\ ~e.up => r.map = m.map \cup {e.key}
    BY ZenonT(60), <1>2, <2>1, ApplyIs
  <2>4. Len(r.queue) = 0 /\ Len(m.queue) = 0  BY <1>2, <2>3
  <2>5. Ends(r.map, r.queue, 0) = r.map /\ Ends(m.map, m.queue, 0) = m.map
    BY EndsNone, MatrixIs
  <2>6. Held(r)
    <3>1. Aged(m, m)  BY DEF Aged
    <3> QED BY <2>1, <3>1, ApplySince
  <2>7. ASSUME NEW a \in Matrices, Aged(a, m)
        PROVE  Aged(a, r) /\ (OldEnough(a, m) => OldEnough(a, r))
    BY <1>2, <2>1, <2>7, ApplySince
  <2> QED BY <2>2, <2>3, <2>4, <2>5, <2>6, <2>7 DEF Sending
<1>3. CASE (m.queue # <<>> \/ Waits(m, e)) /\ n >= QueueMax
  <2>1. PICK x \in Matrices : x = FlushMatrix(m)  BY FlushIs
  <2>2. PICK r \in Matrices : r = Apply(x, e)  BY ApplyIs
  <2>3. MatrixSend(m, e) = r  BY <1>3, <2>1, <2>2 DEF MatrixSend
  <2>4. m.queue # <<>>
    <3>1. QueueMax \in Nat /\ QueueMax >= 2 /\ n \in Nat  BY <1>1, KeyNumbers
    <3> QED BY <1>3, <3>1
  <2>5. /\ x.queue = <<>> /\ x.forced /\ x.map = Ends(m.map, m.queue, Len(m.queue))
        /\ \A a \in Matrices : Held(m) /\ Aged(a, m) => Held(x) /\ Aged(a, x)
    BY <2>1, <2>4, FlushIs
  <2>6. /\ r.queue = x.queue /\ r.forced = x.forced
        /\ e.up => r.map = x.map \ {e.key}
        /\ ~e.up => r.map = x.map \cup {e.key}
    BY ZenonT(60), <2>2, ApplyIs
  <2>7. Ends(r.map, r.queue, 0) = r.map /\ Len(r.queue) = 0
    BY <2>5, <2>6, EndsNone, MatrixIs
  <2>8. Held(x)
    <3>1. Aged(m, m)  BY DEF Aged
    <3> QED BY <1>1, <2>5, <3>1
  <2>9. Held(r)
    <3>1. Aged(x, x)  BY DEF Aged
    <3> QED BY <2>2, <2>8, <3>1, ApplySince
  <2>10. ASSUME NEW a \in Matrices, Aged(a, m) PROVE Aged(a, r)
    <3>1. Aged(a, x)  BY <1>1, <2>5, <2>10
    <3> QED BY <2>2, <2>8, <3>1, ApplySince
  <2>11. /\ e.up => Ends(r.map, r.queue, Len(r.queue)) = Ends(m.map, m.queue, Len(m.queue)) \ {e.key}
         /\ ~e.up => Ends(r.map, r.queue, Len(r.queue)) = Ends(m.map, m.queue, Len(m.queue)) \cup {e.key}
    BY <2>5, <2>6, <2>7
  <2> QED BY <2>3, <2>5, <2>6, <2>9, <2>10, <2>11 DEF Sending
<1>4. CASE (m.queue # <<>> \/ Waits(m, e)) /\ ~(n >= QueueMax)
  <2>1. PICK r : r = [m EXCEPT !.queue = Append(@, e)]  OBVIOUS
  <2>2. MatrixSend(m, e) = r  BY <1>4, <2>1 DEF MatrixSend
  <2>3. Queued(m, r, e)  BY <2>1, QueuedIs
  <2>4. r \in Matrices /\ r.forced = m.forced /\ r.map = m.map /\ r.queue = Append(m.queue, e)
    BY <2>3 DEF Queued
  <2>5. PICK q \in Seq(Events) : q = m.queue  BY <1>1
  <2>6. /\ e.up => Ends(m.map, Append(q, e), Len(Append(q, e))) = Ends(m.map, q, Len(q)) \ {e.key}
        /\ ~e.up => Ends(m.map, Append(q, e), Len(Append(q, e))) = Ends(m.map, q, Len(q)) \cup {e.key}
    BY EndsAppend
  <2>7. Held(r) /\ \A a \in Matrices : Aged(a, m) => Aged(a, r) /\ (OldEnough(a, m) => OldEnough(a, r))
    BY <1>1, <2>3, QueuedSince
  <2> QED BY <2>2, <2>4, <2>5, <2>6, <2>7 DEF Sending
<1> QED BY <1>2, <1>3, <1>4

\* A release sent after releases.
LEMMA MatrixSendsRelease ==
    ASSUME NEW m \in Matrices, NEW e \in Events, e.up, Releases(m.queue)
    PROVE  LET r == MatrixSend(m, e)
           IN  /\ Releases(r.queue) /\ r.age = m.age /\ r.map \subseteq m.map
               /\ Len(r.queue) <= Len(m.queue) + 1
               /\ m.queue = <<>> /\ ~Waits(m, e) => r.queue = <<>>
               /\ m.queue = <<>> /\ Waits(m, e) => r.map = m.map /\ r.queue = <<e>>
               /\ Len(m.queue) = 1 => r.map = m.map /\ r.queue = Append(m.queue, e)
<1>1. PICK q \in Seq(Events) : q = m.queue  BY MatrixIs
<1>2. PICK n \in Nat : n = Len(q)  OBVIOUS
<1>3. Releases(q) /\ e.key \in Keys /\ QueueMax \in Nat /\ QueueMax >= 2
  BY <1>1, EventIs, KeyNumbers
<1>7. ASSUME NEW x \in Matrices
      PROVE  Apply(x, e).queue = x.queue /\ Apply(x, e).age = x.age /\ Apply(x, e).map = x.map \ {e.key}
  BY ApplyIs
<1>4. CASE q = <<>> /\ ~Waits(m, e)
  <2>1. PICK r \in Matrices : r = Apply(m, e)  BY ApplyIs
  <2>2. MatrixSend(m, e) = r  BY <1>1, <1>4, <2>1 DEF MatrixSend
  <2>3. r.queue = <<>> /\ r.age = m.age /\ r.map \subseteq m.map
    BY <1>1, <1>4, <1>7, <2>1
  <2>4. Releases(r.queue) /\ Len(r.queue) = 0 /\ n = 0
    BY <1>2, <1>4, <2>3 DEF Releases
  <2> QED BY <1>1, <1>2, <1>4, <2>2, <2>3, <2>4
<1>5. CASE (q # <<>> \/ Waits(m, e)) /\ n >= QueueMax
  <2>1. PICK x \in Matrices : x = FlushMatrix(m)  BY FlushIs
  <2>2. PICK r \in Matrices : r = Apply(x, e)  BY ApplyIs
  <2>3. MatrixSend(m, e) = r  BY <1>1, <1>2, <1>5, <2>1, <2>2 DEF MatrixSend
  <2>4. x.queue = <<>> /\ x.age = m.age /\ x.map \subseteq m.map
    BY <1>1, <1>3, <2>1, FlushIs
  <2>5. r.queue = <<>> /\ r.age = m.age /\ r.map \subseteq m.map
    BY <1>7, <2>2, <2>4
  <2>6. Releases(r.queue) /\ Len(r.queue) = 0 /\ n >= 2
    BY <1>3, <1>5, <2>5 DEF Releases
  <2>7. q # <<>> /\ n # 1 /\ Len(r.queue) <= n + 1  BY <1>2, <2>6
  <2> QED BY <1>1, <1>2, <2>3, <2>5, <2>6, <2>7
<1>6. CASE (q # <<>> \/ Waits(m, e)) /\ ~(n >= QueueMax)
  <2>1. PICK r : r = [m EXCEPT !.queue = Append(@, e)]  OBVIOUS
  <2>2. MatrixSend(m, e) = r  BY <1>1, <1>2, <1>6, <2>1 DEF MatrixSend
  <2>3. r.age = m.age /\ r.map = m.map /\ r.queue = Append(q, e)
    BY <1>1, <2>1, QueuedIs DEF Queued
  <2>4. Len(r.queue) = n + 1 /\ r.queue[n + 1] = e /\ \A i \in 1..n : r.queue[i] = q[i]
    BY <1>2, <2>3, AppendIs
  <2>5. Releases(r.queue)
    <3>1. \A i \in 1..(n + 1) : i \in 1..n \/ i = n + 1  OBVIOUS
    <3>2. \A i \in 1..n : q[i].up  BY <1>2, <1>3 DEF Releases
    <3> QED BY <2>4, <3>1, <3>2 DEF Releases
  <2>6. q = <<>> => Append(q, e) = <<e>>  OBVIOUS
  <2> QED BY <1>1, <1>2, <1>6, <2>2, <2>3, <2>4, <2>5, <2>6
<1> QED BY <1>4, <1>5, <1>6

LEMMA BoardIs ==
    ASSUME NEW s \in Boards
    PROVE  /\ s.ref \in SUBSET Keys /\ s.matrix \in Matrices /\ Held(s.matrix) /\ s.fifo \in Fifos
           /\ s = [ref |-> s.ref, matrix |-> s.matrix, fifo |-> s.fifo]
BY DEF Boards

LEMMA FifoIs ==
    ASSUME NEW f \in Fifos
    PROVE  FifoSend(f) \in Fifos
<1>1. PICK b \in Nat : b = f.buffers  BY KeyNumbers DEF Fifos
<1>2. b <= FifoMax /\ FifoMax \in Nat  BY <1>1, KeyNumbers DEF Fifos
<1>3. CASE b < FifoMax
  <2>1. PICK c \in 0..FifoMax : c = b + 1  BY <1>2, <1>3
  <2>2. FifoSend(f) = [f EXCEPT !.buffers = c, !.event = TRUE]
    BY <1>1, <1>3, <2>1 DEF FifoSend, Fifos
  <2> QED BY <2>1, <2>2 DEF Fifos
<1>4. CASE ~(b < FifoMax)
  <2>1. FifoSend(f) = [f EXCEPT !.overrun = TRUE]  BY <1>1, <1>4 DEF FifoSend
  <2> QED BY <2>1 DEF Fifos
<1> QED BY <1>3, <1>4

LEMMA KeyboardSendIs ==
    ASSUME NEW s \in Boards, NEW e \in Events
    PROVE  LET r == KeyboardSend(s, e)
           IN  /\ r \in Boards /\ r.ref = s.ref /\ r.matrix = MatrixSend(s.matrix, e)
               /\ Sending(s.matrix, r.matrix, e)
<1>1. /\ s.ref \in SUBSET Keys /\ s.matrix \in Matrices /\ Held(s.matrix) /\ s.fifo \in Fifos
      /\ s = [ref |-> s.ref, matrix |-> s.matrix, fifo |-> s.fifo]
  BY BoardIs
<1>2. PICK x : x = MatrixSend(s.matrix, e)  OBVIOUS
<1>3. Sending(s.matrix, x, e)  BY <1>1, <1>2, MatrixSendIs
<1>4. PICK f \in Fifos : f = FifoSend(s.fifo)  BY <1>1, FifoIs
<1>5. KeyboardSend(s, e) = [ref |-> s.ref, matrix |-> x, fifo |-> f]
  <2>1. KeyboardSend(s, e) = [s EXCEPT !.matrix = x, !.fifo = f]
    BY <1>1, <1>2, <1>4 DEF KeyboardSend
  <2> QED BY <1>1, <2>1
<1>6. x \in {m \in Matrices : Held(m)}  BY <1>3 DEF Sending
<1> QED BY <1>1, <1>2, <1>3, <1>4, <1>5, <1>6 DEF Boards

\* What is sent is what will be held, and follows on what was.
LEMMA SendingFollows ==
    ASSUME NEW s, NEW r, NEW e, Sending(s.matrix, r.matrix, e)
    PROVE  /\ e.up => Coming(r) = Coming(s) \ {e.key}
           /\ ~e.up => Coming(r) = Coming(s) \cup {e.key}
           /\ \A a \in Matrices : Follows(a, s) => Follows(a, r)
BY DEF Sending, Coming, Follows

LEMMA SendDataIs ==
    ASSUME NEW s \in Boards, NEW e \in Events
    PROVE  LET r == SendData(s, e)
           IN  /\ r \in Boards
               /\ e.up => r.ref = s.ref \ {e.key}
               /\ ~e.up => r.ref = s.ref \cup {e.key}
               /\ Settled(s) => Settled(r)
               /\ \A a \in Matrices : Follows(a, s) => Follows(a, r)
               /\ (e.key \in s.ref /\ e.up) \/ (e.key \notin s.ref /\ ~e.up) =>
                     r.matrix = MatrixSend(s.matrix, e)
               /\ e.key \notin s.ref /\ e.up => r = s
<1>1. /\ s.ref \in SUBSET Keys /\ s.matrix \in Matrices /\ Held(s.matrix) /\ s.fifo \in Fifos
      /\ s = [ref |-> s.ref, matrix |-> s.matrix, fifo |-> s.fifo]
  BY BoardIs
<1>2. PICK k \in Keys : k = e.key  BY EventIs
<1>3. (e.up => e = Break(k)) /\ (~e.up => e = Make(k))  BY <1>2, EventIs
<1>4. CASE e.up /\ k \notin s.ref
  <2>1. SendData(s, e) = s  BY <1>2, <1>4 DEF SendData, KeystatUp
  <2> QED BY <1>2, <1>4, <2>1
<1>5. CASE ~e.up /\ k = Shift /\ k \in s.ref
  <2>1. SendData(s, e) = s  BY <1>2, <1>5 DEF SendData, KeystatDown
  <2> QED BY <1>2, <1>5, <2>1
<1>6. ASSUME NEW ref \in SUBSET Keys,
             e.up => ref = s.ref \ {k}, ~e.up => ref = s.ref \cup {k},
             SendData(s, e) = KeyboardSend([s EXCEPT !.ref = ref], e)
      PROVE  LET r == SendData(s, e)
             IN  /\ r \in Boards /\ r.ref = ref
                 /\ Settled(s) => Settled(r)
                 /\ \A a \in Matrices : Follows(a, s) => Follows(a, r)
                 /\ r.matrix = MatrixSend(s.matrix, e)
  <2>1. PICK z : z = [s EXCEPT !.ref = ref]  OBVIOUS
  <2>2. z \in Boards /\ z.ref = ref /\ z.matrix = s.matrix
    BY <1>1, <1>6, <2>1 DEF Boards
  <2>3. PICK r : r = KeyboardSend(z, e)  OBVIOUS
  <2>4. r \in Boards /\ r.ref = ref /\ r.matrix = MatrixSend(s.matrix, e) /\ Sending(s.matrix, r.matrix, e)
    BY <2>2, <2>3, KeyboardSendIs
  <2>5. /\ e.up => Coming(r) = Coming(s) \ {e.key}
        /\ ~e.up => Coming(r) = Coming(s) \cup {e.key}
        /\ \A a \in Matrices : Follows(a, s) => Follows(a, r)
    BY <2>4, SendingFollows
  <2>6. Settled(s) => Settled(r)  BY <1>2, <1>6, <2>4, <2>5 DEF Settled
  <2> QED BY <1>6, <2>1, <2>3, <2>4, <2>5, <2>6
<1>7. CASE e.up /\ k \in s.ref
  <2>1. s.ref \ {k} \in SUBSET Keys  BY <1>1
  <2>2. SendData(s, e) = KeyboardSend([s EXCEPT !.ref = s.ref \ {k}], e)
    BY <1>1, <1>2, <1>3, <1>7 DEF SendData, KeystatUp
  <2> QED BY <1>2, <1>6, <1>7, <2>1, <2>2
<1>8. CASE ~e.up /\ ~(k = Shift /\ k \in s.ref)
  <2>1. s.ref \cup {k} \in SUBSET Keys  BY <1>1
  <2>2. SendData(s, e) = KeyboardSend([s EXCEPT !.ref = s.ref \cup {k}], e)
    BY <1>1, <1>2, <1>3, <1>8 DEF SendData, KeystatDown
  <2> QED BY <1>2, <1>6, <1>8, <2>1, <2>2
<1> QED BY <1>4, <1>5, <1>7, <1>8

LEMMA SendAllThrough ==
    ASSUME NEW s \in Boards, NEW es \in Seq(Events), NEW n \in Nat, n = Len(es),
           NEW P \in [0..n -> SUBSET Boards], s \in P[0],
           \A i \in 1..n : \A x \in P[i - 1] : SendData(x, es[i]) \in P[i]
    PROVE  SendAll(s, es) \in P[n]
<1> DEFINE op == [y \in Boards \X (1..n) |-> SendData(y[1], es[y[2]])]
<1>1. \A i \in 1..n : es[i] \in Events  OBVIOUS
<1>2. op \in [Boards \X (1..n) -> Boards]
  <2>1. ASSUME NEW y \in Boards \X (1..n) PROVE SendData(y[1], es[y[2]]) \in Boards
    <3>1. y[1] \in Boards /\ es[y[2]] \in Events  BY <1>1
    <3> QED BY <3>1, SendDataIs
  <2> QED BY <2>1
<1>3. \A x \in Boards, i \in 1..n : op[<<x, i>>] = SendData(x, es[i])  OBVIOUS
<1> HIDE DEF op
<1>4. PICK f \in [0..n -> Boards] : f[0] = s /\ \A i \in 1..n : f[i] = op[<<f[i - 1], i>>]
  <2>1. Iterated(Boards, n, s, op)  BY <1>2, Iterates
  <2> QED BY <2>1 DEF Iterated
<1> DEFINE Eq(h) == h = [i \in 0..n |-> IF i = 0 THEN s ELSE SendData(h[i - 1], es[i])]
           g == CHOOSE h : Eq(h)
           T == {i \in Nat : i <= n => g[i] \in P[i]}
<1>5. Eq(f)
  <2>1. ASSUME NEW i \in 0..n, i # 0 PROVE f[i] = SendData(f[i - 1], es[i])
    <3>1. i \in 1..n /\ i - 1 \in 0..n  BY <2>1
    <3>2. f[i - 1] \in Boards  BY <3>1
    <3> QED BY <1>3, <1>4, <3>1, <3>2
  <2>2. f = [i \in 0..n |-> f[i]]  OBVIOUS
  <2> QED BY <1>4, <2>1, <2>2
<1>6. Eq(g)  BY <1>5
<1> HIDE DEF g
<1>7. 0 \in T  BY <1>6
<1>8. ASSUME NEW i \in Nat, i \in T PROVE i + 1 \in T
  <2> SUFFICES ASSUME i + 1 <= n PROVE g[i + 1] \in P[i + 1]  OBVIOUS
  <2>1. i + 1 \in 0..n /\ i + 1 \in 1..n /\ i + 1 # 0 /\ (i + 1) - 1 = i /\ i <= n
    OBVIOUS
  <2>2. g[i + 1] = SendData(g[i], es[i + 1]) /\ g[i] \in P[i]
    BY <1>6, <1>8, <2>1
  <2> QED BY <2>1, <2>2
<1> HIDE DEF T
<1>9. Nat \subseteq T  BY <1>7, <1>8, SetInduction
<1>10. g[n] \in P[n]  BY <1>9 DEF T
<1> QED BY <1>10 DEF SendAll, g

LEMMA ResendIs ==
    ASSUME NEW s \in Boards, NEW k \in Keys
    PROVE  LET r == Resend(s, k)
           IN  /\ r \in Boards /\ r.ref = s.ref
               /\ k \in s.ref => Coming(r) = Coming(s) \cup {k}
               /\ k \notin s.ref => r = s
               /\ \A a \in Matrices : Follows(a, s) => Follows(a, r)
<1>1. Make(k) \in Events /\ ~Make(k).up /\ Make(k).key = k  BY EventIs
<1>2. CASE k \in s.ref
  <2>1. PICK r : r = KeyboardSend(s, Make(k))  OBVIOUS
  <2>2. Resend(s, k) = r  BY <1>2, <2>1 DEF Resend
  <2>3. r \in Boards /\ r.ref = s.ref /\ Sending(s.matrix, r.matrix, Make(k))
    BY <1>1, <2>1, KeyboardSendIs
  <2>4. Coming(r) = Coming(s) \cup {k} /\ \A a \in Matrices : Follows(a, s) => Follows(a, r)
    BY <1>1, <2>3, SendingFollows
  <2> QED BY <1>2, <2>2, <2>3, <2>4
<1>3. CASE k \notin s.ref  BY <1>3 DEF Resend
<1> QED BY <1>2, <1>3

LEMMA ResendThrough ==
    ASSUME NEW s \in Boards, NEW n \in Nat, n = Len(KeyOrder),
           NEW P \in [0..n -> SUBSET Boards], s \in P[0],
           \A i \in 1..n : \A x \in P[i - 1] : Resend(x, KeyOrder[i]) \in P[i]
    PROVE  ResendStat(s) \in P[n]
<1> DEFINE op == [y \in Boards \X (1..n) |-> Resend(y[1], KeyOrder[y[2]])]
<1>1. \A i \in 1..n : KeyOrder[i] \in Keys  BY KeyNumbers
<1>2. op \in [Boards \X (1..n) -> Boards]
  <2>1. ASSUME NEW y \in Boards \X (1..n) PROVE Resend(y[1], KeyOrder[y[2]]) \in Boards
    <3>1. y[1] \in Boards /\ KeyOrder[y[2]] \in Keys  BY <1>1
    <3> QED BY <3>1, ResendIs
  <2> QED BY <2>1
<1>3. \A x \in Boards, i \in 1..n : op[<<x, i>>] = Resend(x, KeyOrder[i])
  OBVIOUS
<1> HIDE DEF op
<1>4. PICK f \in [0..n -> Boards] : f[0] = s /\ \A i \in 1..n : f[i] = op[<<f[i - 1], i>>]
  <2>1. Iterated(Boards, n, s, op)  BY <1>2, Iterates
  <2> QED BY <2>1 DEF Iterated
<1> DEFINE Eq(h) == h = [i \in 0..n |-> IF i = 0 THEN s ELSE Resend(h[i - 1], KeyOrder[i])]
           g == CHOOSE h : Eq(h)
           T == {i \in Nat : i <= n => g[i] \in P[i]}
<1>5. Eq(f)
  <2>1. ASSUME NEW i \in 0..n, i # 0 PROVE f[i] = Resend(f[i - 1], KeyOrder[i])
    <3>1. i \in 1..n /\ i - 1 \in 0..n  BY <2>1
    <3>2. f[i - 1] \in Boards  BY <3>1
    <3> QED BY <1>3, <1>4, <3>1, <3>2
  <2>2. f = [i \in 0..n |-> f[i]]  OBVIOUS
  <2> QED BY <1>4, <2>1, <2>2
<1>6. Eq(g)  BY <1>5
<1> HIDE DEF g
<1>7. 0 \in T  BY <1>6
<1>8. ASSUME NEW i \in Nat, i \in T PROVE i + 1 \in T
  <2> SUFFICES ASSUME i + 1 <= n PROVE g[i + 1] \in P[i + 1]  OBVIOUS
  <2>1. i + 1 \in 0..n /\ i + 1 \in 1..n /\ i + 1 # 0 /\ (i + 1) - 1 = i /\ i <= n
    OBVIOUS
  <2>2. g[i + 1] = Resend(g[i], KeyOrder[i + 1]) /\ g[i] \in P[i]
    BY <1>6, <1>8, <2>1
  <2> QED BY <2>1, <2>2
<1> HIDE DEF T
<1>9. Nat \subseteq T  BY <1>7, <1>8, SetInduction
<1>10. g[n] \in P[n]  BY <1>9 DEF T
<1> QED BY <1>10 DEF ResendStat, g

LEMMA SendAllIs ==
    ASSUME NEW s \in Boards, NEW es \in Seq(Events)
    PROVE  LET r == SendAll(s, es)
           IN  /\ r \in Boards
               /\ Settled(s) => Settled(r)
               /\ \A a \in Matrices : Follows(a, s) => Follows(a, r)
<1> DEFINE Q == {x \in Boards : /\ Settled(s) => Settled(x)
                                /\ \A a \in Matrices : Follows(a, s) => Follows(a, x)}
<1>1. PICK n \in Nat : n = Len(es)  OBVIOUS
<1> DEFINE P == [i \in 0..n |-> Q]
<1>2. P \in [0..n -> SUBSET Boards]  OBVIOUS
<1>3. s \in Q  OBVIOUS
<1>4. ASSUME NEW i \in 1..n, NEW x \in Q PROVE SendData(x, es[i]) \in Q
  <2>1. PICK e \in Events : e = es[i]  BY <1>1
  <2>2. /\ x \in Boards /\ (Settled(s) => Settled(x))
        /\ \A a \in Matrices : Follows(a, s) => Follows(a, x)
    OBVIOUS
  <2>3. /\ SendData(x, e) \in Boards /\ (Settled(x) => Settled(SendData(x, e)))
        /\ \A a \in Matrices : Follows(a, x) => Follows(a, SendData(x, e))
    BY <2>2, SendDataIs
  <2> QED BY <2>1, <2>2, <2>3
<1>5. s \in P[0] /\ \A i \in 1..n : \A x \in P[i - 1] : SendData(x, es[i]) \in P[i]
  <2>1. 0 \in 0..n /\ \A i \in 1..n : i \in 0..n /\ i - 1 \in 0..n  OBVIOUS
  <2> HIDE DEF Q
  <2> QED BY <1>3, <1>4, <2>1
<1> HIDE DEF P
<1>6. SendAll(s, es) \in P[n]  BY <1>1, <1>2, <1>5, SendAllThrough
<1>7. SendAll(s, es) \in Q  BY <1>6 DEF P
<1> QED BY <1>7

\* No event and one.
LEMMA SendAllOne ==
    ASSUME NEW s \in Boards
    PROVE  /\ SendAll(s, <<>>) = s
           /\ \A e \in Events : SendAll(s, <<e>>) = SendData(s, e)
<1>1. SendAll(s, <<>>) = s
  <2> DEFINE P == [i \in 0..0 |-> {s}]
  <2>1. P \in [0..0 -> SUBSET Boards] /\ s \in P[0] /\ 1..0 = {} /\ <<>> \in Seq(Events) /\ 0 = Len(<<>>)
    OBVIOUS
  <2>2. \A i \in 1..0 : \A x \in P[i - 1] : SendData(x, <<>>[i]) \in P[i]
    BY <2>1
  <2> HIDE DEF P
  <2>3. SendAll(s, <<>>) \in P[0]  BY <2>1, <2>2, SendAllThrough
  <2> QED BY <2>3 DEF P
<1>2. ASSUME NEW e \in Events PROVE SendAll(s, <<e>>) = SendData(s, e)
  <2> DEFINE P == [i \in 0..1 |-> IF i = 0 THEN {s} ELSE {SendData(s, e)}]
  <2>1. SendData(s, e) \in Boards  BY SendDataIs
  <2>2. P \in [0..1 -> SUBSET Boards] /\ P[0] = {s} /\ P[1] = {SendData(s, e)}
    BY <2>1
  <2>3. <<e>> \in Seq(Events) /\ 1 = Len(<<e>>) /\ <<e>>[1] = e  OBVIOUS
  <2>4. ASSUME NEW i \in 1..1, NEW x \in P[i - 1] PROVE SendData(x, <<e>>[i]) \in P[i]
    <3>1. i = 1 /\ i - 1 = 0  OBVIOUS
    <3> QED BY <2>2, <2>3, <3>1
  <2> HIDE DEF P
  <2>5. SendAll(s, <<e>>) \in P[1]  BY <2>2, <2>3, <2>4, SendAllThrough
  <2> QED BY <2>2, <2>5
<1> QED BY <1>1, <1>2

\* Of releases.
LEMMA SendDataReleases ==
    ASSUME NEW s \in Boards, NEW e \in Events, e.up, Releases(s.matrix.queue)
    PROVE  LET r == SendData(s, e)
           IN  /\ Releases(r.matrix.queue) /\ r.matrix.age = s.matrix.age
               /\ r.matrix.map \subseteq s.matrix.map
<1>1. s.matrix \in Matrices  BY BoardIs
<1>2. CASE e.key \in s.ref
  <2>1. SendData(s, e).matrix = MatrixSend(s.matrix, e)
    <3>1. (e.key \in s.ref /\ e.up) \/ (e.key \notin s.ref /\ ~e.up) =>
             SendData(s, e).matrix = MatrixSend(s.matrix, e)
      BY SendDataIs
    <3> QED BY <1>2, <3>1
  <2> QED BY <1>1, <2>1, MatrixSendsRelease
<1>3. CASE e.key \notin s.ref
  <2>1. SendData(s, e) = s  BY <1>3, SendDataIs
  <2> QED BY <2>1
<1> QED BY <1>2, <1>3

LEMMA SendAllReleases ==
    ASSUME NEW s \in Boards, NEW es \in Seq(Events), Releases(es), Releases(s.matrix.queue)
    PROVE  LET r == SendAll(s, es)
           IN  /\ Releases(r.matrix.queue) /\ r.matrix.age = s.matrix.age
               /\ r.matrix.map \subseteq s.matrix.map
<1> DEFINE Q == {x \in Boards : /\ Releases(x.matrix.queue) /\ x.matrix.age = s.matrix.age
                                /\ x.matrix.map \subseteq s.matrix.map}
<1>1. PICK n \in Nat : n = Len(es)  OBVIOUS
<1> DEFINE P == [i \in 0..n |-> Q]
<1>2. P \in [0..n -> SUBSET Boards]  OBVIOUS
<1>3. s \in Q  OBVIOUS
<1>4. ASSUME NEW i \in 1..n, NEW x \in Q PROVE SendData(x, es[i]) \in Q
  <2>1. PICK e \in Events : e = es[i] /\ e.up  BY <1>1 DEF Releases
  <2>2. /\ x \in Boards /\ Releases(x.matrix.queue) /\ x.matrix.age = s.matrix.age
        /\ x.matrix.map \subseteq s.matrix.map
    OBVIOUS
  <2> HIDE DEF Q, P
  <2>3. PICK r \in Boards : r = SendData(x, e)  BY <2>2, SendDataIs
  <2>4. /\ Releases(r.matrix.queue) /\ r.matrix.age = x.matrix.age
        /\ r.matrix.map \subseteq x.matrix.map
    BY <2>1, <2>2, <2>3, SendDataReleases
  <2> QED BY <2>1, <2>2, <2>3, <2>4 DEF Q
<1>5. s \in P[0] /\ \A i \in 1..n : \A x \in P[i - 1] : SendData(x, es[i]) \in P[i]
  <2>1. 0 \in 0..n /\ \A i \in 1..n : i \in 0..n /\ i - 1 \in 0..n  OBVIOUS
  <2> HIDE DEF Q
  <2> QED BY <1>3, <1>4, <2>1
<1> HIDE DEF P
<1>6. SendAll(s, es) \in P[n]  BY <1>1, <1>2, <1>5, SendAllThrough
<1>7. SendAll(s, es) \in Q  BY <1>6 DEF P
<1> QED BY <1>7

\* All keys are released.
LEMMA AllReleaseIs ==
    ASSUME NEW s \in Boards
    PROVE  LET r == AllRelease(s)
           IN  /\ r \in Boards /\ r.ref = {}
               /\ Settled(s) => Settled(r)
               /\ \A a \in Matrices : Follows(a, s) => Follows(a, r)
               /\ Releases(s.matrix.queue) =>
                     /\ Releases(r.matrix.queue) /\ r.matrix.age = s.matrix.age
                     /\ r.matrix.map \subseteq s.matrix.map
<1>1. PICK n \in Nat : n = Len(KeyOrder)  BY KeyNumbers
<1> DEFINE es == [i \in 1..n |-> Break(KeyOrder[i])]
<1>2. \A i \in 1..n : KeyOrder[i] \in Keys  BY <1>1, KeyNumbers
<1>3. es \in Seq(Events) /\ Len(es) = n /\ \A i \in 1..n : es[i] = Break(KeyOrder[i])
  <2>1. \A i \in 1..n : Break(KeyOrder[i]) \in Events  BY <1>2, EventIs
  <2> QED BY <2>1
<1>4. AllRelease(s) = SendAll(s, es)  BY <1>1 DEF AllRelease
<1> HIDE DEF es
<1>5. Releases(es)  BY <1>2, <1>3, EventIs DEF Releases
<1> DEFINE Q(i) == {x \in Boards : \A j \in 1..i : KeyOrder[j] \notin x.ref}
           P == [i \in 0..n |-> Q(i)]
<1>6. P \in [0..n -> SUBSET Boards]  OBVIOUS
<1>7. s \in Q(0)  OBVIOUS
<1>8. ASSUME NEW i \in 1..n, NEW x \in Q(i - 1) PROVE SendData(x, es[i]) \in Q(i)
  <2>1. PICK k \in Keys : k = KeyOrder[i]  BY <1>2
  <2>2. es[i] = Break(k) /\ Break(k) \in Events /\ Break(k).up /\ Break(k).key = k
    BY <1>3, <2>1, EventIs
  <2>3. x \in Boards /\ \A j \in 1..(i - 1) : KeyOrder[j] \notin x.ref
    OBVIOUS
  <2>4. PICK e \in Events : e = es[i] /\ e.up /\ e.key = k  BY <2>2
  <2>5. SendData(x, e) \in Boards /\ SendData(x, e).ref = x.ref \ {k}
    BY <2>3, <2>4, SendDataIs
  <2>6. ASSUME NEW j \in 1..i PROVE KeyOrder[j] \notin SendData(x, e).ref
    <3>1. j \in 1..(i - 1) \/ j = i  OBVIOUS
    <3> QED BY <2>1, <2>3, <2>5, <3>1
  <2> QED BY <2>4, <2>5, <2>6
<1>9. s \in P[0] /\ \A i \in 1..n : \A x \in P[i - 1] : SendData(x, es[i]) \in P[i]
  <2>1. 0 \in 0..n /\ \A i \in 1..n : i \in 0..n /\ i - 1 \in 0..n  OBVIOUS
  <2> HIDE DEF Q
  <2> QED BY <1>7, <1>8, <2>1
<1> HIDE DEF P
<1>10. SendAll(s, es) \in P[n]  BY <1>3, <1>6, <1>9, SendAllThrough
<1>11. SendAll(s, es).ref = {}
  <2>1. SendAll(s, es) \in Q(n)  BY <1>10 DEF P
  <2>2. SendAll(s, es).ref \subseteq Keys /\ \A j \in 1..n : KeyOrder[j] \notin SendAll(s, es).ref
    BY <2>1, BoardIs
  <2>3. \A k \in Keys : \E j \in 1..n : KeyOrder[j] = k
    BY <1>1, KeyNumbers DEF Keys, Range
  <2> QED BY <2>2, <2>3
<1>12. /\ SendAll(s, es) \in Boards
       /\ Settled(s) => Settled(SendAll(s, es))
       /\ \A a \in Matrices : Follows(a, s) => Follows(a, SendAll(s, es))
  BY <1>3, SendAllIs
<1>13. Releases(s.matrix.queue) =>
             /\ Releases(SendAll(s, es).matrix.queue) /\ SendAll(s, es).matrix.age = s.matrix.age
             /\ SendAll(s, es).matrix.map \subseteq s.matrix.map
  BY <1>3, <1>5, SendAllReleases
<1> QED BY <1>4, <1>11, <1>12, <1>13

\* What is held is made again.
LEMMA ResendStatIs ==
    ASSUME NEW s \in Boards, Coming(s) \subseteq s.ref
    PROVE  LET r == ResendStat(s)
           IN  /\ r \in Boards /\ Settled(r)
               /\ \A a \in Matrices : Follows(a, s) => Follows(a, r)
<1>1. PICK n \in Nat : n = Len(KeyOrder)  BY KeyNumbers
<1>2. \A i \in 1..n : KeyOrder[i] \in Keys  BY <1>1, KeyNumbers
<1> DEFINE Q(i) == {x \in Boards :
                      /\ Coming(x) \subseteq x.ref
                      /\ \A j \in 1..i : KeyOrder[j] \in x.ref => KeyOrder[j] \in Coming(x)
                      /\ \A a \in Matrices : Follows(a, s) => Follows(a, x)}
           P == [i \in 0..n |-> Q(i)]
<1>3. P \in [0..n -> SUBSET Boards]  OBVIOUS
<1>4. s \in Q(0)  OBVIOUS
<1>5. ASSUME NEW i \in 1..n, NEW x \in Q(i - 1) PROVE Resend(x, KeyOrder[i]) \in Q(i)
  <2>1. PICK k \in Keys : k = KeyOrder[i]  BY <1>2
  <2>2. /\ x \in Boards /\ Coming(x) \subseteq x.ref
        /\ \A j \in 1..(i - 1) : KeyOrder[j] \in x.ref => KeyOrder[j] \in Coming(x)
        /\ \A a \in Matrices : Follows(a, s) => Follows(a, x)
    OBVIOUS
  <2>3. PICK r \in Boards : r = Resend(x, k)  BY <2>2, ResendIs
  <2>4. /\ r.ref = x.ref
        /\ k \in x.ref => Coming(r) = Coming(x) \cup {k}
        /\ k \notin x.ref => r = x
        /\ \A a \in Matrices : Follows(a, x) => Follows(a, r)
    BY <2>2, <2>3, ResendIs
  <2>5. ASSUME NEW j \in 1..i, KeyOrder[j] \in r.ref PROVE KeyOrder[j] \in Coming(r)
    <3>1. j \in 1..(i - 1) \/ j = i  OBVIOUS
    <3> QED BY <2>1, <2>2, <2>4, <2>5, <3>1
  <2>6. Coming(r) \subseteq r.ref  BY <2>2, <2>4
  <2>7. \A a \in Matrices : Follows(a, s) => Follows(a, r)  BY <2>2, <2>4
  <2> QED BY <2>1, <2>3, <2>5, <2>6, <2>7
<1>6. s \in P[0] /\ \A i \in 1..n : \A x \in P[i - 1] : Resend(x, KeyOrder[i]) \in P[i]
  <2>1. 0 \in 0..n /\ \A i \in 1..n : i \in 0..n /\ i - 1 \in 0..n  OBVIOUS
  <2> HIDE DEF Q
  <2> QED BY <1>4, <1>5, <2>1
<1> HIDE DEF P
<1>7. ResendStat(s) \in P[n]  BY <1>1, <1>3, <1>6, ResendThrough
<1>8. PICK r : r = ResendStat(s)  OBVIOUS
<1>9. r \in Q(n)  BY <1>7, <1>8 DEF P
<1>10. /\ r \in Boards /\ Coming(r) \subseteq r.ref
       /\ \A j \in 1..n : KeyOrder[j] \in r.ref => KeyOrder[j] \in Coming(r)
       /\ \A a \in Matrices : Follows(a, s) => Follows(a, r)
  BY <1>9
<1>11. \A k \in Keys : \E j \in 1..n : KeyOrder[j] = k
  BY <1>1, KeyNumbers DEF Keys, Range
<1>12. Settled(r)
  <2>1. r.ref \subseteq Keys  BY <1>10, BoardIs
  <2> QED BY <1>10, <1>11, <2>1 DEF Settled
<1> QED BY <1>8, <1>10, <1>12

-----------------------------------------------------------------------------
\* The paste, and what is left of it.
LEMMA TextIs ==
    ASSUME NEW t \in Texts
    PROVE  t \in Seq(Chars) /\ t # <<>> /\ Len(t) \in Nat /\ Len(t) >= 1
<1>1. t \in Seq(Chars) /\ t # <<>>  BY KeyboardAssumption DEF Chars
<1>2. PICK n \in Nat : n = Len(t)  BY <1>1
<1> QED BY <1>1, <1>2

LEMMA CharIs ==
    ASSUME NEW t \in Texts, NEW i \in 1..Len(t)
    PROVE  t[i] \in Chars /\ t[i].key \in Keys /\ t[i].key # Shift /\ t[i].shift \in BOOLEAN
<1>1. t \in Seq(Chars)  BY TextIs
<1>2. t[i] \in Chars  BY <1>1
<1> QED BY <1>2 DEF Chars

LEMMA PastingIs ==
    ASSUME NEW p, Pasting(p)
    PROVE  /\ p.text \in Texts /\ p.index \in Nat /\ p.index \in 1..Len(p.text)
           /\ p.phase \in Phases /\ p.frames \in 0..FramesPerEvent
           /\ p.shiftDown \in BOOLEAN /\ p.keyDown \in BOOLEAN
           /\ CharAt(p).key \in Keys /\ CharAt(p).key # Shift /\ CharAt(p).shift \in BOOLEAN
           /\ p.text # <<>>
           /\ p = [text |-> p.text, index |-> p.index, phase |-> p.phase, frames |-> p.frames,
                   shiftDown |-> p.shiftDown, keyDown |-> p.keyDown]
<1>1. /\ p.text \in Texts /\ p.index \in Nat /\ p.index \in 1..Len(p.text)
      /\ p.phase \in Phases /\ p.frames \in 0..FramesPerEvent
      /\ p.shiftDown \in BOOLEAN /\ p.keyDown \in BOOLEAN
      /\ p = [text |-> p.text, index |-> p.index, phase |-> p.phase, frames |-> p.frames,
              shiftDown |-> p.shiftDown, keyDown |-> p.keyDown]
  BY DEF Pasting, Pastes
<1>2. CharAt(p).key \in Keys /\ CharAt(p).key # Shift /\ CharAt(p).shift \in BOOLEAN
  BY <1>1, CharIs DEF CharAt
<1> QED BY <1>1, <1>2, TextIs

LEMMA NoPasteIs ==
    /\ NoPaste.text = <<>> /\ NoPaste.index = 1 /\ NoPaste.phase = "idle" /\ NoPaste.frames = 0
    /\ ~NoPaste.shiftDown /\ ~NoPaste.keyDown
BY DEF NoPaste

\* A paste that begins with a character of its text.
LEMMA Begins ==
    ASSUME NEW t \in Texts, NEW i \in 1..Len(t), NEW p,
           p = [text |-> t, index |-> i, phase |-> FirstPhase(t[i]), frames |-> 0,
                shiftDown |-> FALSE, keyDown |-> FALSE]
    PROVE  Pasting(p) /\ p.phase \in {"shift_down", "key_down"}
<1>1. t[i].shift \in BOOLEAN /\ 0 \in 0..FramesPerEvent /\ i \in Nat
  BY CharIs, TextIs, KeyNumbers
<1>2. PICK f : f = FirstPhase(t[i])  OBVIOUS
<1>3. (t[i].shift => f = "shift_down") /\ (~t[i].shift => f = "key_down")
  BY <1>2 DEF FirstPhase
<1>4. /\ p.text = t /\ p.index = i /\ p.phase = f /\ p.frames = 0 /\ ~p.shiftDown /\ ~p.keyDown
      /\ p = [text |-> t, index |-> i, phase |-> f, frames |-> 0,
              shiftDown |-> FALSE, keyDown |-> FALSE]
  BY <1>2
<1>5. p \in Pastes  BY <1>1, <1>3, <1>4 DEF Pastes, Phases
<1> QED BY <1>1, <1>3, <1>4, <1>5 DEF Pasting, CharAt

LEMMA GoesOnIs ==
    ASSUME NEW t \in Texts, NEW i \in 1..Len(t), NEW f, NEW p, NEW q,
           p = [text |-> t, index |-> i, phase |-> "idle", frames |-> f,
                shiftDown |-> FALSE, keyDown |-> FALSE],
           q = NextAction(p)
    PROVE  GoesOn(p, q)
<1>1. /\ p.text = t /\ p.index = i /\ p.phase = "idle"  OBVIOUS
<1>2. CASE i = Len(t)
  <2>1. q = NoPaste  BY <1>1, <1>2 DEF NextAction
  <2> QED BY <1>1, <1>2, <2>1 DEF GoesOn
<1>3. CASE i # Len(t)
  <2>1. PICK j \in 1..Len(t) : j = i + 1
    <3>1. Len(t) \in Nat  BY TextIs
    <3> QED BY <1>3, <3>1
  <2>2. PICK g : g = FirstPhase(t[j])  OBVIOUS
  <2>3. q = [p EXCEPT !.index = j, !.frames = 0, !.phase = g]
    BY <1>1, <1>3, <2>1, <2>2 DEF NextAction
  <2>4. q = [text |-> t, index |-> j, phase |-> FirstPhase(t[j]), frames |-> 0,
             shiftDown |-> FALSE, keyDown |-> FALSE]
    BY <2>2, <2>3
  <2>5. Pasting(q) /\ q.phase \in {"shift_down", "key_down"}  BY <2>4, Begins
  <2>6. q.text = t /\ q.index = j /\ q.frames = 0 /\ ~q.shiftDown /\ ~q.keyDown
    BY <2>4
  <2> QED BY <1>1, <2>1, <2>5, <2>6 DEF GoesOn
<1> QED BY <1>2, <1>3

LEMMA StepIs ==
    ASSUME Pasting(paste), NEW q, q = NextAction(Stepped)
    PROVE  /\ paste.phase = "shift_down" =>
                 /\ PasteEvents = <<Make(Shift)>>
                 /\ Stays(paste, q) /\ q.frames = 0 /\ q.phase = "key_down"
           /\ paste.phase = "key_down" =>
                 /\ PasteEvents = <<Make(CharAt(paste).key)>>
                 /\ Stays(paste, q) /\ q.frames = 0 /\ q.phase = "key_up"
           /\ paste.phase = "key_up" =>
                 /\ PasteEvents = <<Break(CharAt(paste).key)>>
                 /\ CharAt(paste).shift =>
                      Stays(paste, q) /\ q.frames = 0 /\ q.phase = "shift_up"
                 /\ ~CharAt(paste).shift => GoesOn(paste, q)
           /\ paste.phase = "shift_up" =>
                 PasteEvents = <<Break(Shift)>> /\ GoesOn(paste, q)
<1>1. /\ paste.text \in Texts /\ paste.index \in 1..Len(paste.text) /\ paste.index \in Nat
      /\ paste.frames \in 0..FramesPerEvent
      /\ CharAt(paste).shift \in BOOLEAN
      /\ paste = [text |-> paste.text, index |-> paste.index, phase |-> paste.phase,
                  frames |-> paste.frames, shiftDown |-> paste.shiftDown,
                  keyDown |-> paste.keyDown]
  BY PastingIs
<1>2. /\ paste.keyDown <=> paste.phase = "key_up"
      /\ paste.shiftDown <=> CharAt(paste).shift /\ paste.phase # "shift_down"
      /\ CharAt(paste).shift \/ paste.phase \in {"key_down", "key_up"}
      /\ paste.shiftDown \in BOOLEAN /\ paste.keyDown \in BOOLEAN
  BY PastingIs DEF Pasting
<1>3. CharAt(paste) = Current  BY DEF CharAt, Current
<1>4. PICK t \in Texts, i \in 1..Len(paste.text), f \in 0..FramesPerEvent :
          t = paste.text /\ i = paste.index /\ f = paste.frames
  BY <1>1
<1>5. i \in Nat /\ 0 \in 0..FramesPerEvent  BY <1>1, <1>4, KeyNumbers
<1>6. ASSUME NEW ph \in Phases, NEW sd \in BOOLEAN, NEW kd \in BOOLEAN,
             kd <=> ph = "key_up",
             sd <=> CharAt(paste).shift /\ ph # "shift_down",
             CharAt(paste).shift \/ ph \in {"key_down", "key_up"},
             Stepped = [text |-> t, index |-> i, phase |-> ph, frames |-> f,
                        shiftDown |-> sd, keyDown |-> kd]
      PROVE  Stays(paste, q) /\ q.frames = 0 /\ q.phase = ph
  <2>1. ph # "idle"  BY DEF Phases
  <2>2. PICK y : y = [text |-> t, index |-> i, phase |-> ph, frames |-> f,
                      shiftDown |-> sd, keyDown |-> kd]
    OBVIOUS
  <2>3. NextAction(y) = [y EXCEPT !.frames = 0]  BY <2>1, <2>2 DEF NextAction
  <2>4. q = [text |-> t, index |-> i, phase |-> ph, frames |-> 0,
             shiftDown |-> sd, keyDown |-> kd]
    BY <1>6, <2>2, <2>3
  <2>5. q \in Pastes  BY <1>5, <2>4 DEF Pastes
  <2>6. CharAt(q) = CharAt(paste)  BY <1>4, <2>4 DEF CharAt
  <2>7. /\ q.text = t /\ q.index = i /\ q.phase = ph /\ q.frames = 0
        /\ q.shiftDown = sd /\ q.keyDown = kd
    BY <2>4
  <2>8. /\ q.keyDown <=> q.phase = "key_up"
        /\ q.shiftDown <=> CharAt(q).shift /\ q.phase # "shift_down"
        /\ CharAt(q).shift \/ q.phase \in {"key_down", "key_up"}
    BY <1>6, <2>6, <2>7
  <2> QED BY <1>4, <2>5, <2>7, <2>8 DEF Pasting, Stays
<1>7. ASSUME Stepped = [text |-> t, index |-> i, phase |-> "idle", frames |-> f,
                        shiftDown |-> FALSE, keyDown |-> FALSE]
      PROVE  GoesOn(paste, q)
  <2>1. PICK y : y = [text |-> t, index |-> i, phase |-> "idle", frames |-> f,
                      shiftDown |-> FALSE, keyDown |-> FALSE]
    OBVIOUS
  <2>2. GoesOn(y, q)  BY <1>4, <1>7, <2>1, GoesOnIs
  <2>3. y.text = paste.text /\ y.index = paste.index  BY <1>4, <2>1
  <2> QED BY <2>2, <2>3 DEF GoesOn
<1>8. CASE paste.phase = "shift_down"
  <2>1. Stepped = [text |-> t, index |-> i, phase |-> "key_down", frames |-> f,
                   shiftDown |-> TRUE, keyDown |-> FALSE]
    BY <1>1, <1>2, <1>4, <1>8 DEF Stepped
  <2>2. PasteEvents = <<Make(Shift)>>  BY <1>8 DEF PasteEvents
  <2>3. CharAt(paste).shift  BY <1>2, <1>8
  <2> QED BY <1>6, <1>8, <2>1, <2>2, <2>3 DEF Phases
<1>9. CASE paste.phase = "key_down"
  <2>1. PICK sd \in BOOLEAN : sd = paste.shiftDown  BY <1>2
  <2>2. sd <=> CharAt(paste).shift
    <3>1. paste.phase # "shift_down"  BY <1>9
    <3> QED BY <1>2, <2>1, <3>1, Zenon
  <2>3. Stepped = [text |-> t, index |-> i, phase |-> "key_up", frames |-> f,
                   shiftDown |-> sd, keyDown |-> TRUE]
    BY <1>1, <1>4, <1>9, <2>1 DEF Stepped
  <2>4. PasteEvents = <<Make(CharAt(paste).key)>>
    BY <1>3, <1>9 DEF PasteEvents
  <2>5. sd <=> CharAt(paste).shift /\ "key_up" # "shift_down"  BY <2>2
  <2>6. "key_up" \in Phases  BY DEF Phases
  <2> QED BY <1>6, <1>9, <2>3, <2>4, <2>5, <2>6
<1>10. CASE paste.phase = "key_up"
  <2>1. PasteEvents = <<Break(CharAt(paste).key)>>
    BY <1>3, <1>10 DEF PasteEvents
  <2>2. CASE CharAt(paste).shift
    <3>1. paste.shiftDown = TRUE /\ AfterKeyUp = "shift_up"
      BY <1>2, <1>3, <1>10, <2>2 DEF AfterKeyUp
    <3>2. Stepped = [text |-> t, index |-> i, phase |-> "shift_up", frames |-> f,
                     shiftDown |-> TRUE, keyDown |-> FALSE]
      BY <1>1, <1>4, <1>10, <3>1 DEF Stepped
    <3> QED BY <1>6, <1>10, <2>1, <2>2, <3>2 DEF Phases
  <2>3. CASE ~CharAt(paste).shift
    <3>1. paste.shiftDown = FALSE /\ AfterKeyUp = "idle"
      BY <1>2, <1>3, <1>10, <2>3 DEF AfterKeyUp
    <3>2. Stepped = [text |-> t, index |-> i, phase |-> "idle", frames |-> f,
                     shiftDown |-> FALSE, keyDown |-> FALSE]
      BY <1>1, <1>4, <1>10, <3>1 DEF Stepped
    <3> QED BY <1>7, <1>10, <2>1, <2>3, <3>2
  <2> QED BY <1>1, <2>2, <2>3
<1>11. CASE paste.phase = "shift_up"
  <2>1. paste.keyDown = FALSE  BY <1>2, <1>11
  <2>2. Stepped = [text |-> t, index |-> i, phase |-> "idle", frames |-> f,
                   shiftDown |-> FALSE, keyDown |-> FALSE]
    BY <1>1, <1>4, <1>11, <2>1 DEF Stepped
  <2>3. PasteEvents = <<Break(Shift)>>  BY <1>11 DEF PasteEvents
  <2> QED BY <1>7, <1>11, <2>2, <2>3
<1>12. paste.phase \in Phases  BY PastingIs
<1> QED BY <1>8, <1>9, <1>10, <1>11, <1>12 DEF Phases

\* The lists of events that are sent.
LEMMA WhenIs ==
    ASSUME NEW c, NEW es \in Seq(Events)
    PROVE  When(c, es) \in Seq(Events)
<1>1. <<>> \in Seq(Events)  OBVIOUS
<1> QED BY <1>1 DEF When

LEMMA OneIs ==
    ASSUME NEW k \in Keys
    PROVE  <<Make(k)>> \in Seq(Events) /\ <<Break(k)>> \in Seq(Events) /\ Releases(<<Break(k)>>)
<1>1. Make(k) \in Events /\ Break(k) \in Events /\ Break(k).up  BY EventIs
<1>2. <<Make(k)>> \in Seq(Events) /\ <<Break(k)>> \in Seq(Events)  BY <1>1
<1>3. \A e \in Events : Len(<<e>>) = 1 /\ <<e>>[1] = e  OBVIOUS
<1> QED BY <1>1, <1>2, <1>3 DEF Releases

LEMMA JoinIs ==
    ASSUME NEW a \in Seq(Events), NEW b \in Seq(Events)
    PROVE  a \o b \in Seq(Events) /\ (Releases(a) /\ Releases(b) => Releases(a \o b))
<1>1. PICK m \in Nat : m = Len(a)  OBVIOUS
<1>2. PICK n \in Nat : n = Len(b)  OBVIOUS
<1>3. /\ a \o b \in Seq(Events) /\ Len(a \o b) = m + n
      /\ \A i \in 1..(m + n) : (a \o b)[i] = IF i <= m THEN a[i] ELSE b[i - m]
  BY <1>1, <1>2
<1>4. ASSUME Releases(a), Releases(b), NEW i \in 1..(m + n) PROVE (a \o b)[i].up
  <2>1. CASE i <= m  BY <1>1, <1>3, <1>4, <2>1 DEF Releases
  <2>2. CASE ~(i <= m)
    <3>1. i - m \in 1..n  BY <2>2
    <3> QED BY <1>2, <1>3, <1>4, <2>2, <3>1 DEF Releases
  <2> QED BY <2>1, <2>2
<1> QED BY <1>3, <1>4 DEF Releases

LEMMA HeldKeysAre ==
    ASSUME PasteIs(paste)
    PROVE  HeldKeys(paste) \in Seq(Events) /\ Releases(HeldKeys(paste))
<1>1. <<>> \in Seq(Events) /\ Releases(<<>>)  BY DEF Releases
<1>2. PICK b : b = When(paste.shiftDown, <<Break(Shift)>>)  OBVIOUS
<1>3. b \in Seq(Events) /\ Releases(b)
  <2>1. <<Break(Shift)>> \in Seq(Events) /\ Releases(<<Break(Shift)>>)
    BY OneIs, KeyNumbers
  <2> QED BY <1>1, <1>2, <2>1 DEF When
<1>4. PICK a : a = When(paste.keyDown /\ paste.index <= Len(paste.text),
                        <<Break(paste.text[paste.index].key)>>)
  OBVIOUS
<1>5. a \in Seq(Events) /\ Releases(a)
  <2>1. CASE paste = NoPaste
    <3>1. ~paste.keyDown  BY <2>1, NoPasteIs
    <3>2. a = <<>>  BY <1>4, <3>1 DEF When
    <3> QED BY <1>1, <3>2
  <2>2. CASE Pasting(paste)
    <3>1. PICK k \in Keys : k = paste.text[paste.index].key
      BY <2>2, PastingIs DEF CharAt
    <3>2. <<Break(k)>> \in Seq(Events) /\ Releases(<<Break(k)>>)  BY OneIs
    <3> QED BY <1>1, <1>4, <3>1, <3>2 DEF When
  <2> QED BY <2>1, <2>2 DEF PasteIs
<1>6. HeldKeys(paste) = a \o b  BY <1>2, <1>4 DEF HeldKeys
<1> QED BY <1>3, <1>5, <1>6, JoinIs

LEMMA PasteEventsAre ==
    ASSUME Pasting(paste)
    PROVE  PasteEvents \in Seq(Events)
<1>1. CharAt(paste).key \in Keys /\ paste.phase \in Phases /\ Shift \in Keys
  BY PastingIs, KeyNumbers
<1>2. PICK k \in Keys : k = CharAt(paste).key  BY <1>1
<1>3. PasteEvents \in {<<Make(Shift)>>, <<Make(k)>>, <<Break(k)>>, <<Break(Shift)>>}
  BY <1>1, <1>2, StepIs DEF Phases
<1> QED BY <1>1, <1>3, OneIs

LEMMA FollowsItself ==
    ASSUME NEW s
    PROVE  Follows(s.matrix, s)
BY DEF Follows, Aged, OldEnough

\* What is sent on from the keys as they are.
LEMMA SentKeeps ==
    ASSUME KeysKept, NEW s \in Boards, Settled(s), Follows(keys.matrix, s), Sent(s)
    PROVE  /\ keys' \in Boards /\ Settled(keys') /\ KnownAt(keys'.matrix, known')
           /\ SeenBeforeRelease
<1>1. PICK m \in Matrices : m = keys.matrix  BY BoardIs DEF KeysKept
<1>2. PICK r \in Matrices : r = s.matrix  BY BoardIs
<1>3. /\ keys' = s /\ known' = {k \in known \cap r.map : r.age[k] = m.age[k]}
  BY <1>1, <1>2 DEF Sent, Known
<1>4. /\ \A k \in Keys : r.age[k] > 0 => r.age[k] = m.age[k] /\ (k \in r.map => k \in m.map)
      /\ r.forced \/ \A k \in m.map \ r.map : m.age[k] >= Hold
  BY <1>1, <1>2 DEF Follows, Aged, OldEnough
<1>5. r.map \subseteq Keys /\ m.map \subseteq Keys /\ Hold \in Nat /\ Hold >= 2
      /\ \A k \in Keys : m.age[k] \in 0..Hold
  BY MatrixIs, KeyNumbers
<1>6. \A k \in m.map : m.age[k] > 0 => k \in known
  BY <1>1 DEF KeysKept, KnownAt
<1>7. ASSUME NEW k \in r.map, r.age[k] > 0 PROVE k \in known'
  <2>1. k \in Keys /\ r.age[k] = m.age[k] /\ k \in m.map  BY <1>4, <1>5, <1>7
  <2> QED BY <1>3, <1>6, <1>7, <2>1
<1>8. ASSUME NEW k \in m.map \ r.map PROVE k \in known \/ r.forced
  <2>1. CASE m.age[k] >= Hold
    <3>1. m.age[k] \in 0..Hold /\ m.age[k] > 0  BY <1>5, <2>1
    <3> QED BY <1>6, <3>1
  <2> QED BY <1>4, <2>1
<1>9. SeenBeforeRelease  BY <1>1, <1>2, <1>3, <1>8 DEF SeenBeforeRelease
<1> QED BY <1>2, <1>3, <1>7, <1>9 DEF KnownAt

LEMMA AllSent ==
    ASSUME KeysKept, NEW es \in Seq(Events), Sent(SendAll(keys, es))
    PROVE  /\ keys' \in Boards /\ Settled(keys') /\ KnownAt(keys'.matrix, known')
           /\ SeenBeforeRelease
<1>1. keys \in Boards /\ Settled(keys) /\ Follows(keys.matrix, keys) /\ keys.matrix \in Matrices
  BY FollowsItself, BoardIs DEF KeysKept
<1>2. PICK r : r = SendAll(keys, es)  OBVIOUS
<1>3. r \in Boards /\ Settled(r) /\ Follows(keys.matrix, r)
  BY <1>1, <1>2, SendAllIs
<1> QED BY <1>2, <1>3, SentKeeps

\* Nothing has changed of the matrix but what the queue may do with it.
LEMMA OtherKeeps ==
    ASSUME KeysKept, NEW s, keys' = s, s.ref = keys.ref, s.matrix = keys.matrix, s.fifo \in Fifos,
           s = [ref |-> s.ref, matrix |-> s.matrix, fifo |-> s.fifo], known' = known
    PROVE  /\ keys' \in Boards /\ Settled(keys') /\ KnownAt(keys'.matrix, known')
           /\ SeenBeforeRelease
<1>1. keys \in Boards /\ Settled(keys) /\ KnownAt(keys.matrix, known)
  BY DEF KeysKept
<1>2. s \in Boards  BY <1>1 DEF Boards
<1>3. Settled(s)  BY <1>1 DEF Settled, Coming
<1> QED BY <1>1, <1>2, <1>3 DEF SeenBeforeRelease

LEMMA PasteGoesOn ==
    ASSUME Pasting(paste), NEW q, q = NextAction(Stepped)
    PROVE  PasteIs(q)
<1>1. paste.phase \in Phases  BY PastingIs
<1>2. Stays(paste, q) \/ GoesOn(paste, q)
  <2>1. CASE paste.phase = "key_up"
    <3>1. CharAt(paste).shift \in BOOLEAN  BY PastingIs
    <3> QED BY <2>1, <3>1, StepIs
  <2>2. CASE paste.phase # "key_up"  BY <1>1, <2>2, StepIs DEF Phases
  <2> QED BY <2>1, <2>2
<1> QED BY <1>2 DEF Stays, GoesOn, PasteIs

LEMMA StartKept ==
    ASSUME KeysKept, NEW t \in Texts, StartPaste(t)
    PROVE  KeysKept' /\ SeenBeforeRelease
<1>1. PICK x : x = SendAll(keys, HeldKeys(paste))  OBVIOUS
<1>2. keys \in Boards /\ Settled(keys) /\ Follows(keys.matrix, keys) /\ keys.matrix \in Matrices
  BY FollowsItself, BoardIs DEF KeysKept
<1>3. HeldKeys(paste) \in Seq(Events)  BY HeldKeysAre DEF KeysKept
<1>4. x \in Boards /\ Settled(x) /\ Follows(keys.matrix, x)
  BY <1>1, <1>2, <1>3, SendAllIs
<1>5. PICK r : r = AllRelease(x)  OBVIOUS
<1>6. r \in Boards /\ Settled(r) /\ Follows(keys.matrix, r)
  BY <1>2, <1>4, <1>5, AllReleaseIs
<1>7. Sent(r)  BY <1>1, <1>5 DEF StartPaste
<1>8. PasteIs(paste')
  <2>1. 1 \in 1..Len(t)  BY TextIs
  <2>2. paste' = [text |-> t, index |-> 1, phase |-> FirstPhase(t[1]), frames |-> 0,
                  shiftDown |-> FALSE, keyDown |-> FALSE]
    BY DEF StartPaste, NoPaste
  <2> QED BY <2>1, <2>2, Begins DEF PasteIs
<1> QED BY <1>6, <1>7, <1>8, SentKeeps DEF KeysKept

LEMMA TapKept ==
    ASSUME KeysKept, NEW k \in Keys, NEW chord, Tap(k, chord)
    PROVE  KeysKept' /\ SeenBeforeRelease
<1>1. Shift \in Keys  BY KeyNumbers
<1>2. PICK a \in Seq(Events) : a = When(mirror, <<Break(Shift)>>)
  BY <1>1, OneIs, WhenIs
<1>3. PICK b \in Seq(Events) : b = When(chord, <<Make(Shift)>>)
  BY <1>1, OneIs, WhenIs
<1>4. PICK c \in Seq(Events) : c = <<Make(k), Break(k)>>
  <2>1. PICK x \in Events, y \in Events : x = Make(k) /\ y = Break(k)
    BY EventIs
  <2>2. <<x, y>> \in Seq(Events)  OBVIOUS
  <2> QED BY <2>1, <2>2
<1>5. PICK d \in Seq(Events) : d = When(chord, <<Break(Shift)>>)
  BY <1>1, OneIs, WhenIs
<1>6. PICK f \in Seq(Events) : f = When(mirror, <<Make(Shift)>>)
  BY <1>1, OneIs, WhenIs
<1>7. PICK es : es = a \o b \o c \o d \o f  OBVIOUS
<1>8. es \in Seq(Events)
  <2>1. a \o b \in Seq(Events)  BY JoinIs
  <2>2. a \o b \o c \in Seq(Events)  BY <2>1, JoinIs
  <2>3. a \o b \o c \o d \in Seq(Events)  BY <2>2, JoinIs
  <2> QED BY <1>7, <2>3, JoinIs
<1>9. Sent(SendAll(keys, es)) /\ paste' = paste
  BY <1>2, <1>3, <1>4, <1>5, <1>6, <1>7 DEF Tap
<1> QED BY <1>8, <1>9, AllSent DEF KeysKept

LEMMA ResetSignalKept ==
    ASSUME KeysKept, ResetSignal
    PROVE  KeysKept' /\ SeenBeforeRelease
<1>1. /\ keys.ref \in SUBSET Keys /\ keys.matrix \in Matrices /\ Held(keys.matrix)
      /\ keys = [ref |-> keys.ref, matrix |-> keys.matrix, fifo |-> keys.fifo]
      /\ Settled(keys)
  BY BoardIs DEF KeysKept
<1>2. PICK m \in Matrices : m = keys.matrix  BY <1>1
<1>3. PICK f : f = [buffers |-> 0, full |-> FALSE, event |-> FALSE, overrun |-> FALSE]
  OBVIOUS
<1>4. f \in Fifos  BY <1>3, KeyNumbers DEF Fifos
<1>5. PICK r : r = [m EXCEPT !.map = {}, !.forced = TRUE]  OBVIOUS
<1>6. r \in Matrices /\ r.map = {} /\ r.forced = TRUE /\ r.age = m.age /\ r.queue = m.queue
  <2>1. m.held \in SUBSET Keys  BY MatrixIs
  <2> QED BY <1>5 DEF Matrices
<1>7. PICK z : z = [keys EXCEPT !.matrix.map = {}, !.matrix.forced = TRUE, !.fifo = f]
  OBVIOUS
<1>8. z = [ref |-> keys.ref, matrix |-> r, fifo |-> f]
  <2>1. z = [keys EXCEPT !.matrix = r, !.fifo = f]
    BY <1>1, <1>2, <1>5, <1>7 DEF Matrices
  <2> QED BY <1>1, <2>1
<1>9. z \in Boards /\ z.matrix = r /\ z.ref = keys.ref
  <2>1. Held(r)  BY <1>6 DEF Held
  <2> QED BY <1>1, <1>4, <1>6, <1>8, <2>1 DEF Boards
<1>10. Coming(z) \subseteq z.ref
  <2>1. Ends({}, m.queue, Len(m.queue)) \subseteq Ends(m.map, m.queue, Len(m.queue))
    BY DEF Ends
  <2> QED BY <1>1, <1>2, <1>6, <1>9, <2>1 DEF Coming, Settled
<1>11. Follows(keys.matrix, z)  BY <1>2, <1>6, <1>9 DEF Follows, Aged
<1>12. PICK x : x = ResendStat(z)  OBVIOUS
<1>13. x \in Boards /\ Settled(x) /\ Follows(keys.matrix, x)
  BY <1>1, <1>9, <1>10, <1>11, <1>12, ResendStatIs
<1>14. Sent(x) /\ paste' = paste  BY <1>3, <1>7, <1>12 DEF ResetSignal
<1> QED BY <1>13, <1>14, SentKeeps DEF KeysKept

LEMMA MachineResetKept ==
    ASSUME KeysKept, MachineReset
    PROVE  KeysKept' /\ SeenBeforeRelease
<1>1. /\ keys.ref \in SUBSET Keys /\ keys.matrix \in Matrices /\ Held(keys.matrix)
      /\ keys = [ref |-> keys.ref, matrix |-> keys.matrix, fifo |-> keys.fifo]
      /\ Settled(keys)
  BY BoardIs DEF KeysKept
<1>2. PICK m \in Matrices : m = keys.matrix  BY <1>1
<1>3. PICK f : f = [buffers |-> 0, full |-> FALSE, event |-> FALSE, overrun |-> FALSE]
  OBVIOUS
<1>4. f \in Fifos  BY <1>3, KeyNumbers DEF Fifos
<1>5. PICK r : r = FlushMatrix(m)  OBVIOUS
<1>6. /\ r \in Matrices /\ r.queue = <<>> /\ r.forced = (m.forced \/ m.queue # <<>>)
      /\ r.map = Ends(m.map, m.queue, Len(m.queue))
      /\ Held(r) /\ Aged(m, r)
  <2>1. Held(m) /\ Aged(m, m)  BY <1>1, <1>2 DEF Aged
  <2> QED BY <1>5, <2>1, FlushIs
<1>7. PICK z : z = [keys EXCEPT !.matrix = FlushMatrix(@), !.fifo = f]
  OBVIOUS
<1>8. z = [ref |-> keys.ref, matrix |-> r, fifo |-> f]
  BY <1>1, <1>2, <1>5, <1>7
<1>9. z \in Boards /\ z.matrix = r /\ z.ref = keys.ref
  BY <1>1, <1>4, <1>6, <1>8 DEF Boards
<1>10. Settled(z)
  <2>1. Coming(z) = Ends(r.map, <<>>, 0)  BY <1>6, <1>9 DEF Coming
  <2>2. Ends(r.map, <<>>, 0) = r.map  BY <1>6, EndsNone, MatrixIs
  <2> QED BY <1>1, <1>2, <1>6, <1>9, <2>1, <2>2 DEF Settled, Coming
<1>11. Follows(keys.matrix, z)
  <2>1. CASE m.queue # <<>>  BY <1>2, <1>6, <1>9, <2>1 DEF Follows
  <2>2. CASE m.queue = <<>>
    <3>1. r.map = m.map  BY <1>6, <2>2, EndsNone, MatrixIs
    <3> QED BY <1>2, <1>6, <1>9, <3>1 DEF Follows, OldEnough
  <2> QED BY <2>1, <2>2
<1>12. Sent(z) /\ paste' = paste  BY <1>3, <1>7 DEF MachineReset
<1> QED BY <1>9, <1>10, <1>11, <1>12, SentKeeps DEF KeysKept

LEMMA LongHoldKept ==
    ASSUME KeysKept, NEW k \in Keys, LongHold(k)
    PROVE  KeysKept' /\ SeenBeforeRelease
<1>1. /\ keys.ref \in SUBSET Keys /\ keys.matrix \in Matrices /\ Held(keys.matrix)
      /\ keys.fifo \in Fifos
      /\ keys = [ref |-> keys.ref, matrix |-> keys.matrix, fifo |-> keys.fifo]
      /\ Settled(keys) /\ PasteIs(paste) /\ KnownAt(keys.matrix, known)
  BY BoardIs DEF KeysKept
<1>2. PICK m \in Matrices : m = keys.matrix  BY <1>1
<1>3. PICK age : age = [m.age EXCEPT ![k] = 0]  OBVIOUS
<1>4. age \in [Keys -> 0..Hold] /\ age[k] = 0 /\ \A j \in Keys : j # k => age[j] = m.age[j]
  <2>1. m.age \in [Keys -> 0..Hold] /\ 0 \in 0..Hold  BY MatrixIs, KeyNumbers
  <2> QED BY <1>3, <2>1
<1>5. PICK r : r = [m EXCEPT !.age = age]  OBVIOUS
<1>6. r \in Matrices /\ r.age = age /\ r.map = m.map /\ r.queue = m.queue /\ r.held = m.held
  BY <1>4, <1>5 DEF Matrices
<1>7. keys' = [ref |-> keys.ref, matrix |-> r, fifo |-> keys.fifo]
  <2>1. keys' = [keys EXCEPT !.matrix = [m EXCEPT !.age = [m.age EXCEPT ![k] = 0]]]
    BY <1>1, <1>2 DEF LongHold, Matrices
  <2> QED BY <1>1, <1>3, <1>5, <2>1
<1>8. keys' \in Boards  BY <1>1, <1>2, <1>6, <1>7 DEF Boards, Held
<1>9. Settled(keys')  BY <1>1, <1>2, <1>6, <1>7 DEF Settled, Coming
<1>10. KnownAt(r, known)
  <2> SUFFICES ASSUME NEW j \in r.map, r.age[j] > 0 PROVE j \in known
    BY DEF KnownAt
  <2>1. j \in m.map /\ j \in Keys  BY <1>6, MatrixIs
  <2>2. j # k  BY <1>4, <1>6
  <2> QED BY <1>1, <1>2, <1>4, <1>6, <2>1, <2>2 DEF KnownAt
<1>11. SeenBeforeRelease  BY <1>2, <1>6, <1>7 DEF SeenBeforeRelease
<1>12. known' = known /\ paste' = paste  BY DEF LongHold
<1> QED BY <1>1, <1>7, <1>8, <1>9, <1>10, <1>11, <1>12 DEF KeysKept

LEMMA FrameIs ==
    ASSUME KeysKept, Frame
    PROVE  /\ Ticked(keys.matrix, keys'.matrix)
           /\ keys'.ref = keys.ref /\ keys' \in Boards /\ Settled(keys')
           /\ seen' = keys'.matrix.map /\ known' = keys'.matrix.map
           /\ typed' = IF goal = <<>> THEN typed ELSE typed \o NewKeys(keys'.matrix)
<1>1. /\ keys.ref \in SUBSET Keys /\ keys.matrix \in Matrices /\ Held(keys.matrix)
      /\ keys.fifo \in Fifos
      /\ keys = [ref |-> keys.ref, matrix |-> keys.matrix, fifo |-> keys.fifo]
      /\ Settled(keys)
  BY BoardIs DEF KeysKept
<1>2. PICK m \in Matrices : m = keys.matrix  BY <1>1
<1>3. PICK x : x = MatrixTick(m)  OBVIOUS
<1>4. /\ x \in Matrices /\ Held(x)
      /\ Ends(x.map, x.queue, Len(x.queue)) = Ends(m.map, m.queue, Len(m.queue))
      /\ \A k \in m.map \ x.map : Older(m.age[k]) >= Hold
  BY <1>1, <1>2, <1>3, TickIs
<1>5. PICK r : r = [x EXCEPT !.forced = FALSE]  OBVIOUS
<1>6. r \in Matrices /\ r.map = x.map /\ r.held = x.held /\ r.age = x.age /\ r.queue = x.queue
  BY <1>4, <1>5 DEF Matrices
<1>7. Ticked(m, r)  BY <1>3, <1>4, <1>6 DEF Ticked, Held
<1>8. keys' = [ref |-> keys.ref, matrix |-> r, fifo |-> keys.fifo]
  BY <1>1, <1>2, <1>3, <1>5 DEF Frame
<1>9. keys' \in Boards /\ keys'.matrix = r /\ keys'.ref = keys.ref
  BY <1>1, <1>7, <1>8 DEF Boards, Ticked
<1>10. Settled(keys')  BY <1>1, <1>2, <1>7, <1>9 DEF Settled, Coming, Ticked
<1>11. /\ seen' = r.map /\ known' = r.map
       /\ typed' = IF goal = <<>> THEN typed ELSE typed \o NewKeys(r)
  BY <1>2, <1>3, <1>5 DEF Frame
<1> QED BY <1>2, <1>7, <1>9, <1>10, <1>11

\* The frame is counted, no further than the next step of the paste.
LEMMA FrameCounts ==
    ASSUME PasteIs(paste), Frame
    PROVE  /\ PasteIs(paste')
           /\ paste = NoPaste => paste' = NoPaste
           /\ Pasting(paste) =>
                 /\ Stays(paste, paste') /\ paste'.phase = paste.phase
                 /\ paste'.shiftDown = paste.shiftDown /\ paste'.keyDown = paste.keyDown
                 /\ paste.frames < FramesPerEvent => paste'.frames = paste.frames + 1
                 /\ ~(paste.frames < FramesPerEvent) => paste'.frames = paste.frames
<1>1. paste' = IF paste.text # <<>> /\ paste.frames < FramesPerEvent
               THEN [paste EXCEPT !.frames = @ + 1] ELSE paste
  BY DEF Frame
<1>2. CASE paste = NoPaste
  <2>1. paste' = NoPaste  BY <1>1, <1>2, NoPasteIs
  <2>2. ~Pasting(paste)  BY <1>2, NoPasteIs, PastingIs
  <2> QED BY <1>2, <2>1, <2>2 DEF PasteIs
<1>3. CASE Pasting(paste)
  <2>1. PICK p : p = paste  OBVIOUS
  <2>2. Pasting(p) /\ paste # NoPaste  BY <1>3, <2>1, NoPasteIs, PastingIs
  <2>3. CASE p.frames < FramesPerEvent
    <3>1. PICK f \in 0..FramesPerEvent : f = p.frames + 1
      <4>1. p.frames \in 0..FramesPerEvent  BY <2>2, PastingIs
      <4> QED BY <2>3, <4>1, KeyNumbers
    <3>2. paste' = [p EXCEPT !.frames = f]
      BY <1>1, <2>1, <2>2, <2>3, <3>1, PastingIs
    <3>3. PICK q : q = [p EXCEPT !.frames = f]  OBVIOUS
    <3>4. p \in Pastes  BY <2>2 DEF Pasting
    <3>5. /\ q \in Pastes /\ q.text = p.text /\ q.index = p.index /\ q.phase = p.phase
          /\ q.frames = f /\ q.shiftDown = p.shiftDown /\ q.keyDown = p.keyDown
      BY <3>1, <3>3, <3>4 DEF Pastes
    <3>6. CharAt(q) = CharAt(p)  BY <3>5 DEF CharAt
    <3>7. Pasting(q)  BY <2>2, <3>5, <3>6 DEF Pasting
    <3> QED BY <2>1, <2>2, <2>3, <3>1, <3>2, <3>3, <3>5, <3>7 DEF Stays, PasteIs
  <2>4. CASE ~(p.frames < FramesPerEvent)
    BY <1>1, <2>1, <2>2, <2>4 DEF Stays, PasteIs
  <2> QED BY <2>3, <2>4
<1> QED BY <1>2, <1>3 DEF PasteIs

LEMMA FrameKept ==
    ASSUME KeysKept, Frame
    PROVE  KeysKept' /\ SeenBeforeRelease
<1>1. PICK m \in Matrices : m = keys.matrix  BY BoardIs DEF KeysKept
<1>2. /\ \A k \in m.map \ keys'.matrix.map : Older(m.age[k]) >= Hold
      /\ keys' \in Boards /\ Settled(keys') /\ known' = keys'.matrix.map
  BY <1>1, FrameIs DEF Ticked
<1>3. KnownAt(keys'.matrix, known')  BY <1>2 DEF KnownAt
<1>4. ASSUME NEW k \in m.map \ keys'.matrix.map PROVE k \in known
  <2>1. k \in Keys /\ m.age[k] \in 0..Hold /\ Hold \in Nat /\ Hold >= 2
    BY MatrixIs, KeyNumbers
  <2>2. PICK a \in 0..Hold : a = m.age[k]  BY <2>1
  <2>3. Older(a) >= Hold  BY <1>2, <2>2
  <2>4. a > 0  BY <2>1, <2>3 DEF Older
  <2> QED BY <1>1, <2>2, <2>4 DEF KeysKept, KnownAt
<1>5. PasteIs(paste')  BY FrameCounts DEF KeysKept
<1> QED BY <1>1, <1>2, <1>3, <1>4, <1>5 DEF KeysKept, SeenBeforeRelease

\* The FIFO is emptied, or read.
LEMMA FifoKept ==
    ASSUME KeysKept, KeyboardCallback \/ ReadData
    PROVE  /\ keys'.ref = keys.ref /\ keys'.matrix = keys.matrix
           /\ KeysKept' /\ SeenBeforeRelease
<1>1. /\ keys.ref \in SUBSET Keys /\ keys.matrix \in Matrices /\ keys.fifo \in Fifos
      /\ keys = [ref |-> keys.ref, matrix |-> keys.matrix, fifo |-> keys.fifo]
  BY BoardIs DEF KeysKept
<1>2. PICK f \in Fifos : f = keys.fifo  BY <1>1
<1>3. f.buffers \in 0..FifoMax /\ f.full \in BOOLEAN /\ f.event \in BOOLEAN /\ f.overrun \in BOOLEAN
      /\ f = [buffers |-> f.buffers, full |-> f.full, event |-> f.event, overrun |-> f.overrun]
  BY DEF Fifos
<1>4. PICK b \in 0..FifoMax : b = f.buffers  BY <1>3
<1>5. \E g \in Fifos : keys' = [ref |-> keys.ref, matrix |-> keys.matrix, fifo |-> g]
  <2>1. CASE ReadData
    <3>1. PICK g : g = [buffers |-> f.buffers, full |-> FALSE, event |-> f.event, overrun |-> f.overrun]
      OBVIOUS
    <3>2. g \in Fifos  BY <1>3, <3>1 DEF Fifos
    <3>3. keys' = [ref |-> keys.ref, matrix |-> keys.matrix, fifo |-> g]
      BY <1>1, <1>2, <1>3, <2>1, <3>1 DEF ReadData
    <3> QED BY <3>2, <3>3
  <2>2. CASE KeyboardCallback /\ b = 0
    <3>1. PICK g : g = [f EXCEPT !.event = FALSE]  OBVIOUS
    <3>2. g \in Fifos  BY <3>1 DEF Fifos
    <3>3. keys' = [keys EXCEPT !.fifo = g]
      BY <1>2, <1>4, <2>2, <3>1 DEF KeyboardCallback
    <3> QED BY <1>1, <3>2, <3>3
  <2>3. CASE KeyboardCallback /\ b # 0
    <3>1. PICK c \in 0..FifoMax : c = IF f.full THEN b ELSE b - 1
      BY <2>3, KeyNumbers
    <3>2. PICK g : g = [f EXCEPT !.full = TRUE, !.buffers = c]  OBVIOUS
    <3>3. g \in Fifos  BY <3>2 DEF Fifos
    <3>4. keys' = [keys EXCEPT !.fifo = g]
      <4>1. keys' = [keys EXCEPT !.fifo = [f EXCEPT !.full = TRUE,
                                                    !.buffers = IF f.full THEN b ELSE b - 1]]
        BY <1>2, <1>3, <1>4, <2>3 DEF KeyboardCallback
      <4> QED BY <3>1, <3>2, <4>1
    <3> QED BY <1>1, <3>3, <3>4
  <2> QED BY <2>1, <2>2, <2>3
<1>6. PICK g \in Fifos : keys' = [ref |-> keys.ref, matrix |-> keys.matrix, fifo |-> g]
  BY <1>5
<1>7. known' = known /\ paste' = paste  BY DEF ReadData, KeyboardCallback
<1>8. /\ keys' \in Boards /\ Settled(keys') /\ KnownAt(keys'.matrix, known')
      /\ SeenBeforeRelease
  BY <1>6, <1>7, OtherKeeps
<1> QED BY <1>6, <1>7, <1>8 DEF KeysKept

LEMMA KeysKeep ==
    ASSUME KeysKept, [Next]_vars
    PROVE  KeysKept' /\ SeenBeforeRelease
<1>1. keys \in Boards /\ Settled(keys) /\ Follows(keys.matrix, keys) /\ PasteIs(paste)
  BY FollowsItself DEF KeysKept
<1>2. PasteIs(NoPaste)  BY DEF PasteIs
<1>3. ASSUME NEW k \in Keys, Press(k) \/ Release(k) PROVE KeysKept' /\ SeenBeforeRelease
  <2>1. PICK e \in Events : Sent(SendData(keys, e)) /\ paste' = paste
    BY <1>3, EventIs DEF Press, Release
  <2>2. SendData(keys, e) = SendAll(keys, <<e>>) /\ <<e>> \in Seq(Events)
    BY <1>1, SendAllOne
  <2> QED BY <1>1, <2>1, <2>2, AllSent DEF KeysKept
<1>4. CASE Cancel
  <2>1. Sent(SendAll(keys, HeldKeys(paste))) /\ paste' = NoPaste
    BY <1>4 DEF Cancel
  <2>2. HeldKeys(paste) \in Seq(Events)  BY <1>1, HeldKeysAre
  <2> QED BY <1>2, <2>1, <2>2, AllSent DEF KeysKept
<1>5. CASE PasteStep \/ PausedRelease
  <2>1. Pasting(paste)
    BY <1>1, <1>5, NoPasteIs DEF PasteIs, PasteStep, PausedRelease
  <2>2. PasteEvents \in Seq(Events) /\ PasteIs(NextAction(Stepped))
    BY <2>1, PasteEventsAre, PasteGoesOn
  <2>3. Sent(SendAll(keys, PasteEvents)) /\ paste' = NextAction(Stepped)
    BY <1>5 DEF PasteStep, PausedRelease
  <2> QED BY <2>2, <2>3, AllSent DEF KeysKept
<1>6. CASE PausedUnshift
  <2>1. paste # NoPaste /\ Pasting(paste) /\ CharAt(paste).shift
    BY <1>1, <1>6, NoPasteIs DEF PasteIs, PausedUnshift, Pasting
  <2>2. paste' = [paste EXCEPT !.phase = "shift_down", !.shiftDown = FALSE]
        /\ paste.phase = "key_down" /\ Sent(SendAll(keys, <<Break(Shift)>>))
    BY <1>6 DEF PausedUnshift
  <2>3. Pasting(paste')
    <3>1. /\ paste' \in Pastes /\ paste'.phase = "shift_down" /\ ~paste'.shiftDown
          /\ paste'.keyDown = paste.keyDown /\ paste'.text = paste.text
          /\ paste'.index = paste.index
      BY <2>1, <2>2 DEF Pasting, Pastes, Phases
    <3>2. CharAt(paste') = CharAt(paste)  BY <3>1 DEF CharAt
    <3> QED BY <2>1, <2>2, <3>1, <3>2 DEF Pasting
  <2>4. <<Break(Shift)>> \in Seq(Events)  BY KeyNumbers, OneIs
  <2> QED BY <2>2, <2>3, <2>4, AllSent DEF KeysKept, PasteIs
<1>7. CASE UNCHANGED vars  BY <1>7 DEF vars, KeysKept, SeenBeforeRelease
<1> QED BY <1>3, <1>4, <1>5, <1>6, <1>7, StartKept, TapKept, ResetSignalKept, MachineResetKept,
           LongHoldKept, FrameKept, FifoKept DEF Next

-----------------------------------------------------------------------------
\* A paste nobody disturbs.  What is held is what the paste holds; but for
\* the character just made, if no frame has been since, the guest has read
\* what was made so far.
LEMMA EmptyShows ==
    ASSUME NEW s \in Boards, Settled(s), s.matrix.queue = <<>>
    PROVE  s.matrix.map = s.ref
<1>1. s.matrix.map \in SUBSET Keys  BY BoardIs, MatrixIs
<1>2. Ends(s.matrix.map, s.matrix.queue, 0) = s.matrix.map  BY <1>1, EndsNone
<1>3. Len(s.matrix.queue) = 0  OBVIOUS
<1> QED BY <1>2, <1>3 DEF Settled, Coming

\* A key is made on an empty queue, and one is released.
LEMMA PressedIs ==
    ASSUME NEW s \in Boards, NEW k \in Keys, k \notin s.ref, s.matrix.queue = <<>>
    PROVE  LET r == SendAll(s, <<Make(k)>>)
           IN  /\ r.ref = s.ref \cup {k} /\ r.matrix.queue = <<>>
               /\ r.matrix.map = s.matrix.map \cup {k}
               /\ r.matrix.age = [s.matrix.age EXCEPT ![k] = 0]
<1>1. PICK e \in Events : e = Make(k) /\ e.key = k /\ ~e.up  BY EventIs
<1>2. SendAll(s, <<e>>) = SendData(s, e) /\ s.matrix \in Matrices
  BY SendAllOne, BoardIs
<1>3. (e.key \in s.ref /\ e.up) \/ (e.key \notin s.ref /\ ~e.up) =>
         SendData(s, e).matrix = MatrixSend(s.matrix, e)
  BY SendDataIs
<1>4. SendData(s, e).matrix = Apply(s.matrix, e)
  BY <1>1, <1>3 DEF MatrixSend, Waits
<1>5. SendData(s, e).ref = s.ref \cup {k}  BY <1>1, SendDataIs
<1>6. /\ Apply(s.matrix, e).queue = s.matrix.queue
      /\ Apply(s.matrix, e).map = s.matrix.map \cup {k}
      /\ Apply(s.matrix, e).age = [s.matrix.age EXCEPT ![k] = 0]
  BY <1>1, <1>2, ApplyIs
<1> QED BY <1>1, <1>2, <1>4, <1>5, <1>6

LEMMA BrokenIs ==
    ASSUME NEW s \in Boards, NEW k \in Keys, k \in s.ref, Releases(s.matrix.queue)
    PROVE  LET r == SendAll(s, <<Break(k)>>)
           IN  /\ r.ref = s.ref \ {k} /\ Releases(r.matrix.queue)
               /\ r.matrix.age = s.matrix.age /\ r.matrix.map \subseteq s.matrix.map
               /\ Len(r.matrix.queue) <= Len(s.matrix.queue) + 1
               /\ s.matrix.queue = <<>> /\ s.matrix.age[k] >= Hold => r.matrix.queue = <<>>
               /\ s.matrix.queue = <<>> /\ k \in s.matrix.map /\ s.matrix.age[k] = 0 =>
                     r.matrix.map = s.matrix.map /\ r.matrix.queue = <<Break(k)>>
               /\ Len(s.matrix.queue) = 1 =>
                     r.matrix.map = s.matrix.map /\ r.matrix.queue = Append(s.matrix.queue, Break(k))
<1>1. PICK e \in Events : e = Break(k) /\ e.key = k /\ e.up  BY EventIs
<1>2. SendAll(s, <<e>>) = SendData(s, e) /\ s.matrix \in Matrices /\ Held(s.matrix)
  BY SendAllOne, BoardIs
<1>3. (e.key \in s.ref /\ e.up) \/ (e.key \notin s.ref /\ ~e.up) =>
         SendData(s, e).matrix = MatrixSend(s.matrix, e)
  BY SendDataIs
<1>4. PICK r : r = MatrixSend(s.matrix, e)  OBVIOUS
<1>5. SendData(s, e).matrix = r /\ SendData(s, e).ref = s.ref \ {k}
  BY <1>1, <1>3, <1>4, SendDataIs
<1>6. PICK m \in Matrices : m = s.matrix  BY <1>2
<1>7. /\ Releases(r.queue) /\ r.age = m.age /\ r.map \subseteq m.map
      /\ Len(r.queue) <= Len(m.queue) + 1
      /\ m.queue = <<>> /\ ~Waits(m, e) => r.queue = <<>>
      /\ m.queue = <<>> /\ Waits(m, e) => r.map = m.map /\ r.queue = <<e>>
      /\ Len(m.queue) = 1 => r.map = m.map /\ r.queue = Append(m.queue, e)
  BY <1>1, <1>4, <1>6, MatrixSendsRelease
<1>8. m.age[k] >= Hold => ~Waits(m, e)
  <2>1. m.age[k] \in 0..Hold /\ Hold \in Nat  BY MatrixIs, KeyNumbers
  <2> QED BY <1>1, <2>1 DEF Waits
<1>9. k \in m.map /\ m.age[k] = 0 => Waits(m, e)
  <2>1. 0 < Hold  BY KeyNumbers
  <2> QED BY <1>1, <1>2, <1>6, <2>1 DEF Waits, Held
<1> QED BY <1>1, <1>2, <1>5, <1>6, <1>7, <1>8, <1>9

\* Of what is read, when nothing new is made.
LEMMA StillRead ==
    ASSUME NEW m, NEW r, NEW sn, NEW ty, NEW g, NEW n, AllRead(m, sn, ty, g, n), r.map \subseteq m.map
    PROVE  AllRead(r, sn, ty, g, n)
BY DEF AllRead

LEMMA StillUnread ==
    ASSUME NEW m, NEW r, NEW p, NEW q, NEW sn, NEW ty, NEW g, NEW n, OneUnread(m, p, sn, ty, g, n),
           r.map = m.map, r.age = m.age, q.frames = 0,
           r.queue # <<>> => r.queue[1] = Break(g[n].key)
    PROVE  OneUnread(r, q, sn, ty, g, n)
BY DEF OneUnread

\* Where a paste stands.
LEMMA MadeIs ==
    ASSUME NEW p, NEW g \in Texts, PasteIs(p), Pasting(p) => p.text = g
    PROVE  /\ MadeIn(p, g) \in 0..Len(g)
           /\ p = NoPaste => MadeIn(p, g) = Len(g)
           /\ Pasting(p) =>
                 /\ p.phase \in {"key_up", "shift_up"} => MadeIn(p, g) = p.index
                 /\ p.phase \notin {"key_up", "shift_up"} => MadeIn(p, g) = p.index - 1
<1>1. PICK l \in Nat : l = Len(g)  BY TextIs
<1>2. CASE p = NoPaste
  <2>1. p.text = <<>> /\ ~Pasting(p)  BY <1>2, NoPasteIs, PastingIs
  <2> QED BY <1>1, <2>1 DEF MadeIn
<1>3. CASE Pasting(p)
  <2>1. p.text # <<>> /\ p.index \in 1..l /\ p # NoPaste
    BY <1>1, <1>3, NoPasteIs, PastingIs
  <2>2. PICK i \in 1..l : i = p.index  BY <2>1
  <2> QED BY <1>1, <2>1, <2>2 DEF MadeIn
<1> QED BY <1>2, <1>3 DEF PasteIs

LEMMA DownIs ==
    ASSUME NEW p, PasteIs(p)
    PROVE  /\ p = NoPaste => DownIn(p) = {}
           /\ ~p.keyDown /\ ~p.shiftDown => DownIn(p) = {}
           /\ Pasting(p) =>
                 /\ p.phase = "shift_down" => DownIn(p) = {}
                 /\ p.phase = "key_down" => DownIn(p) = IF CharAt(p).shift THEN {Shift} ELSE {}
                 /\ p.phase = "key_up" =>
                       DownIn(p) = (IF CharAt(p).shift THEN {Shift} ELSE {}) \cup {CharAt(p).key}
                 /\ p.phase = "shift_up" => DownIn(p) = {Shift}
<1>1. CASE p = NoPaste
  <2>1. ~Pasting(p)  BY <1>1, NoPasteIs, PastingIs
  <2> QED BY <1>1, <2>1, NoPasteIs DEF DownIn
<1>2. CASE Pasting(p)
  <2>1. PICK k \in Keys : k = CharAt(p).key  BY <1>2, PastingIs
  <2>2. /\ p.keyDown <=> p.phase = "key_up"
        /\ p.shiftDown <=> CharAt(p).shift /\ p.phase # "shift_down"
        /\ CharAt(p).shift \/ p.phase \in {"key_down", "key_up"}
        /\ p.phase \in Phases
    BY <1>2, PastingIs DEF Pasting
  <2>3. p # NoPaste /\ Shift \in Keys
    BY <1>2, NoPasteIs, PastingIs, KeyNumbers
  <2>4. DownIn(p) = (IF p.keyDown THEN {k} ELSE {}) \cup (IF p.shiftDown THEN {Shift} ELSE {})
    BY <2>1, <2>3 DEF DownIn
  <2>5. p.phase = "shift_down" => DownIn(p) = {}  BY <2>2, <2>4
  <2>6. p.phase = "key_down" => DownIn(p) = IF CharAt(p).shift THEN {Shift} ELSE {}
    BY <2>2, <2>4
  <2>7. p.phase = "key_up" => DownIn(p) = (IF CharAt(p).shift THEN {Shift} ELSE {}) \cup {k}
    BY <2>2, <2>4
  <2>8. p.phase = "shift_up" => DownIn(p) = {Shift}  BY <2>2, <2>4
  <2> QED BY <2>1, <2>3, <2>4, <2>5, <2>6, <2>7, <2>8
<1> QED BY <1>1, <1>2 DEF PasteIs

\* From one step of the paste to the next one of the same character, or to the next
\* character: what has been made, and what is paced.
LEMMA PaceStarts ==
    ASSUME NEW m \in Matrices, NEW q, NEW sn, NEW g, PasteIs(q), q.frames = 0,
           Pasting(q) =>
               /\ q.text = g
               /\ q.phase = "key_up" => m.queue = <<>>
               /\ q.phase = "key_down" /\ q.shiftDown => m.queue = <<>>
               /\ q.phase = "shift_up" => Len(m.queue) <= 1
    PROVE  Paced(m, q, sn, g)
<1>1. /\ Hold \in Nat /\ FramesPerEvent \in Nat /\ Hold <= FramesPerEvent /\ FramesPerEvent >= 2
      /\ \A k \in Keys : m.age[k] \in 0..Hold
  BY MatrixIs, KeyNumbers
<1>2. ASSUME NEW k \in Keys PROVE m.age[k] + FramesPerEvent >= Hold + q.frames
  <2>1. PICK a \in 0..Hold : a = m.age[k]  BY <1>1
  <2>2. a + FramesPerEvent >= Hold + 0  BY <1>1
  <2> QED BY <2>1, <2>2
<1>3. q.frames # FramesPerEvent /\ ~(q.frames > 0)  BY <1>1
<1> QED BY <1>2, <1>3 DEF Paced

\* A character ends: the next one, if any, begins with nothing held.
LEMMA EndsWell ==
    ASSUME NEW p, NEW q, NEW g \in Texts, Pasting(p), p.text = g, GoesOn(p, q),
           p.phase \in {"key_up", "shift_up"}, NEW m \in Matrices, NEW sn
    PROVE  /\ q.frames = 0 /\ PasteIs(q) /\ MadeIn(q, g) = MadeIn(p, g)
           /\ DownIn(q) = {} /\ Paced(m, q, sn, g)
<1>1. PICK l \in Nat : l = Len(g)  BY TextIs
<1>2. PICK i \in 1..l : i = p.index  BY <1>1, PastingIs
<1>3. MadeIn(p, g) = i  BY <1>2, MadeIs DEF PasteIs
<1>4. CASE q = NoPaste /\ i = l
  <2>1. q.frames = 0 /\ PasteIs(q) /\ ~Pasting(q)
    BY <1>4, NoPasteIs, PastingIs DEF PasteIs
  <2>2. MadeIn(q, g) = l /\ DownIn(q) = {}
    BY <1>1, <1>4, <2>1, MadeIs, DownIs
  <2> QED BY <1>3, <1>4, <2>1, <2>2 DEF Paced
<1>5. CASE /\ Pasting(q) /\ q.text = p.text /\ q.index = i + 1 /\ q.frames = 0
           /\ q.phase \in {"shift_down", "key_down"} /\ ~q.shiftDown /\ ~q.keyDown
  <2>1. PasteIs(q) /\ DownIn(q) = {}  BY <1>5, DownIs DEF PasteIs
  <2>2. MadeIn(q, g) = q.index - 1  BY <1>5, <2>1, MadeIs
  <2>3. MadeIn(q, g) = i  BY <1>2, <1>5, <2>2
  <2>4. Paced(m, q, sn, g)  BY <1>5, <2>1, PaceStarts
  <2> QED BY <1>3, <1>5, <2>1, <2>3, <2>4
<1> QED BY <1>1, <1>2, <1>4, <1>5 DEF GoesOn

LEMMA ShiftDownGoesOn ==
    ASSUME NEW s \in Boards, NEW p, NEW q, NEW r, NEW sn, NEW ty, NEW g,
           Settled(s), Pasting(p), Undisturbed(s, p, sn, ty, g),
           p.phase = "shift_down", p.frames = FramesPerEvent,
           r = SendAll(s, <<Make(Shift)>>), r \in Boards,
           Stays(p, q), q.frames = 0, q.phase = "key_down"
    PROVE  Undisturbed(r, q, sn, ty, g)
<1>1. /\ g \in Texts /\ s.ref = DownIn(p) /\ Paced(s.matrix, p, sn, g)
      /\ \/ AllRead(s.matrix, sn, ty, g, MadeIn(p, g))
         \/ OneUnread(s.matrix, p, sn, ty, g, MadeIn(p, g))
  BY DEF Undisturbed
<1>2. p.text = g /\ s.matrix.queue = <<>>  BY <1>1 DEF Paced
<1>3. FramesPerEvent # 0 /\ Shift \in Keys  BY KeyNumbers
<1>4. AllRead(s.matrix, sn, ty, g, MadeIn(p, g))  BY <1>1, <1>3 DEF OneUnread
<1>5. PasteIs(p) /\ PasteIs(q) /\ Pasting(q) /\ q.text = g /\ q.index = p.index /\ CharAt(q) = CharAt(p)
  BY <1>2 DEF PasteIs, Stays, CharAt
<1>6. s.ref = {} /\ s.matrix.map = {}  BY <1>1, <1>2, <1>5, DownIs, EmptyShows
<1>7. r.ref = {Shift} /\ r.matrix.queue = <<>> /\ r.matrix.map = {Shift}
  <2>1. Shift \notin s.ref  BY <1>6
  <2>2. /\ r.ref = s.ref \cup {Shift} /\ r.matrix.queue = <<>>
        /\ r.matrix.map = s.matrix.map \cup {Shift}
    BY <1>2, <1>3, <2>1, PressedIs
  <2> QED BY <1>6, <2>2
<1>8. MadeIn(q, g) = MadeIn(p, g)  BY <1>1, <1>2, <1>5, MadeIs
<1>9. AllRead(r.matrix, sn, ty, g, MadeIn(q, g))
  BY <1>4, <1>7, <1>8 DEF AllRead
<1>10. Paced(r.matrix, q, sn, g)  BY <1>5, <1>7, PaceStarts, BoardIs
<1>11. r.ref = DownIn(q)
  <2>1. CharAt(p).shift  BY DEF Pasting
  <2> QED BY <1>5, <1>7, <2>1, DownIs
<1>12. Releases(r.matrix.queue)  BY <1>7 DEF Releases
<1> QED BY <1>1, <1>9, <1>10, <1>11, <1>12 DEF Undisturbed

LEMMA KeyDownGoesOn ==
    ASSUME NEW s \in Boards, NEW p, NEW q, NEW r, NEW sn, NEW ty, NEW g,
           Settled(s), Pasting(p), Undisturbed(s, p, sn, ty, g),
           p.phase = "key_down", p.frames = FramesPerEvent,
           r = SendAll(s, <<Make(CharAt(p).key)>>), r \in Boards,
           Stays(p, q), q.frames = 0, q.phase = "key_up"
    PROVE  Undisturbed(r, q, sn, ty, g)
<1>1. /\ g \in Texts /\ s.ref = DownIn(p) /\ Paced(s.matrix, p, sn, g)
      /\ \/ AllRead(s.matrix, sn, ty, g, MadeIn(p, g))
         \/ OneUnread(s.matrix, p, sn, ty, g, MadeIn(p, g))
  BY DEF Undisturbed
<1>2. p.text = g /\ s.matrix.queue = <<>>  BY <1>1 DEF Paced
<1>3. FramesPerEvent # 0 /\ FramesPerEvent > 0 /\ Shift \in Keys
  BY KeyNumbers
<1>4. AllRead(s.matrix, sn, ty, g, MadeIn(p, g))  BY <1>1, <1>3 DEF OneUnread
<1>5. PasteIs(p) /\ PasteIs(q) /\ Pasting(q) /\ q.text = g /\ q.index = p.index /\ CharAt(q) = CharAt(p)
  BY <1>2 DEF PasteIs, Stays, CharAt
<1>6. PICK k \in Keys : k = CharAt(p).key /\ k # Shift  BY PastingIs
<1>7. PICK h \in BOOLEAN : h = CharAt(p).shift  BY PastingIs
<1>8. s.ref = (IF h THEN {Shift} ELSE {}) /\ s.matrix.map = s.ref
  BY <1>1, <1>2, <1>5, <1>7, DownIs, EmptyShows
<1>9. k \notin s.ref  BY <1>6, <1>8
<1>10. /\ r.ref = s.ref \cup {k} /\ r.matrix.queue = <<>>
       /\ r.matrix.map = s.matrix.map \cup {k}
       /\ r.matrix.age = [s.matrix.age EXCEPT ![k] = 0]
  BY <1>2, <1>6, <1>9, PressedIs
<1>11. PICK l \in Nat : l = Len(g)  BY <1>1, TextIs
<1>12. PICK i \in 1..l : i = p.index  BY <1>2, <1>11, PastingIs
<1>13. MadeIn(p, g) = i - 1 /\ MadeIn(q, g) = i
  BY <1>1, <1>2, <1>5, <1>12, MadeIs
<1>14. g[i].key = k /\ g[i].shift = h  BY <1>2, <1>6, <1>7, <1>12 DEF CharAt
<1>15. k \notin sn  BY <1>1, <1>3, <1>6, <1>8, <1>9 DEF Paced
<1>16. r.matrix.age[k] = 0
  <2>1. s.matrix.age \in [Keys -> 0..Hold]  BY BoardIs, MatrixIs
  <2> QED BY <1>10, <2>1
<1>17. OneUnread(r.matrix, q, sn, ty, g, i)
  <2>1. ty = SubSeq(g, 1, i - 1)  BY <1>4, <1>13 DEF AllRead
  <2>2. k \in r.matrix.map /\ r.matrix.map \subseteq {Shift, k}
    BY <1>8, <1>10
  <2>3. Shift \in r.matrix.map <=> h  BY <1>6, <1>8, <1>10
  <2>4. i >= 1  OBVIOUS
  <2> QED BY <1>10, <1>14, <1>15, <1>16, <2>1, <2>2, <2>3, <2>4 DEF OneUnread
<1>18. Paced(r.matrix, q, sn, g)  BY <1>5, <1>10, PaceStarts, BoardIs
<1>19. r.ref = DownIn(q)  BY <1>5, <1>6, <1>7, <1>8, <1>10, DownIs
<1>20. Releases(r.matrix.queue)  BY <1>10 DEF Releases
<1> QED BY <1>1, <1>13, <1>17, <1>18, <1>19, <1>20 DEF Undisturbed

LEMMA KeyUpGoesOn ==
    ASSUME NEW s \in Boards, NEW p, NEW q, NEW r, NEW sn, NEW ty, NEW g,
           Settled(s), Pasting(p), Undisturbed(s, p, sn, ty, g),
           p.phase = "key_up",
           r = SendAll(s, <<Break(CharAt(p).key)>>), r \in Boards,
           CharAt(p).shift => Stays(p, q) /\ q.frames = 0 /\ q.phase = "shift_up",
           ~CharAt(p).shift => GoesOn(p, q)
    PROVE  Undisturbed(r, q, sn, ty, g)
<1>1. /\ g \in Texts /\ s.ref = DownIn(p) /\ Paced(s.matrix, p, sn, g)
      /\ Releases(s.matrix.queue)
      /\ \/ AllRead(s.matrix, sn, ty, g, MadeIn(p, g))
         \/ OneUnread(s.matrix, p, sn, ty, g, MadeIn(p, g))
  BY DEF Undisturbed
<1>2. p.text = g /\ s.matrix.queue = <<>> /\ PasteIs(p)
  BY <1>1 DEF Paced, PasteIs
<1>3. PICK k \in Keys : k = CharAt(p).key /\ k # Shift  BY PastingIs
<1>4. PICK h \in BOOLEAN : h = CharAt(p).shift  BY PastingIs
<1>5. s.ref = (IF h THEN {Shift} ELSE {}) \cup {k}
  BY <1>1, <1>2, <1>3, <1>4, DownIs
<1>6. k \in s.ref /\ s.ref \ {k} = (IF h THEN {Shift} ELSE {})  BY <1>3, <1>5
<1>7. /\ r.ref = s.ref \ {k} /\ Releases(r.matrix.queue)
      /\ r.matrix.age = s.matrix.age /\ r.matrix.map \subseteq s.matrix.map
      /\ Len(r.matrix.queue) <= Len(s.matrix.queue) + 1
      /\ s.matrix.queue = <<>> /\ k \in s.matrix.map /\ s.matrix.age[k] = 0 =>
            r.matrix.map = s.matrix.map /\ r.matrix.queue = <<Break(k)>>
  BY <1>1, <1>3, <1>6, BrokenIs
<1>8. Len(r.matrix.queue) <= 1
  <2>1. Len(s.matrix.queue) = 0  BY <1>2
  <2> QED BY <1>7, <2>1
<1>9. PICK l \in Nat : l = Len(g)  BY <1>1, TextIs
<1>10. PICK i \in 1..l : i = p.index  BY <1>2, <1>9, PastingIs
<1>11. MadeIn(p, g) = i /\ g[i].key = k
  BY <1>1, <1>2, <1>3, <1>10, MadeIs DEF CharAt
<1>12. r.matrix \in Matrices  BY BoardIs
<1>13. /\ q.frames = 0 /\ MadeIn(q, g) = i /\ DownIn(q) = (IF h THEN {Shift} ELSE {})
       /\ Paced(r.matrix, q, sn, g)
  <2>1. CASE h
    <3>1. Pasting(q) /\ q.text = g /\ q.index = i /\ q.frames = 0 /\ q.phase = "shift_up"
      BY <1>2, <1>4, <1>10, <2>1 DEF Stays
    <3>2. PasteIs(q)  BY <3>1 DEF PasteIs
    <3>3. MadeIn(q, g) = i  BY <1>1, <3>1, <3>2, MadeIs
    <3>4. DownIn(q) = {Shift}  BY <3>1, <3>2, DownIs
    <3>5. Paced(r.matrix, q, sn, g)  BY <1>8, <1>12, <3>1, <3>2, PaceStarts
    <3> QED BY <2>1, <3>1, <3>3, <3>4, <3>5
  <2>2. CASE ~h
    <3>1. GoesOn(p, q) /\ p.phase \in {"key_up", "shift_up"}  BY <1>4, <2>2
    <3>2. /\ q.frames = 0 /\ MadeIn(q, g) = MadeIn(p, g)
          /\ DownIn(q) = {} /\ Paced(r.matrix, q, sn, g)
      BY <1>1, <1>2, <1>12, <3>1, EndsWell
    <3> QED BY <1>11, <2>2, <3>2
  <2> QED BY <2>1, <2>2
<1>14. \/ AllRead(r.matrix, sn, ty, g, i)
       \/ OneUnread(r.matrix, q, sn, ty, g, i)
  <2>1. CASE AllRead(s.matrix, sn, ty, g, i)  BY <1>7, <2>1, StillRead
  <2>2. CASE OneUnread(s.matrix, p, sn, ty, g, i)
    <3>1. k \in s.matrix.map /\ s.matrix.age[k] = 0
      BY <1>11, <2>2 DEF OneUnread
    <3>2. r.matrix.map = s.matrix.map /\ r.matrix.queue = <<Break(k)>>
      BY <1>2, <1>7, <3>1
    <3>3. r.matrix.queue[1] = Break(g[i].key)  BY <1>11, <3>2
    <3> QED BY <1>7, <1>13, <2>2, <3>2, <3>3, StillUnread
  <2> QED BY <1>1, <1>11, <2>1, <2>2
<1> QED BY <1>1, <1>6, <1>7, <1>13, <1>14 DEF Undisturbed

LEMMA ShiftUpGoesOn ==
    ASSUME NEW s \in Boards, NEW p, NEW q, NEW r, NEW sn, NEW ty, NEW g,
           Settled(s), Pasting(p), Undisturbed(s, p, sn, ty, g),
           p.phase = "shift_up",
           r = SendAll(s, <<Break(Shift)>>), r \in Boards, GoesOn(p, q)
    PROVE  Undisturbed(r, q, sn, ty, g)
<1>1. /\ g \in Texts /\ s.ref = DownIn(p) /\ Paced(s.matrix, p, sn, g)
      /\ Releases(s.matrix.queue)
      /\ \/ AllRead(s.matrix, sn, ty, g, MadeIn(p, g))
         \/ OneUnread(s.matrix, p, sn, ty, g, MadeIn(p, g))
  BY DEF Undisturbed
<1>2. p.text = g /\ Len(s.matrix.queue) <= 1 /\ PasteIs(p) /\ Shift \in Keys
  BY <1>1, KeyNumbers DEF Paced, PasteIs
<1>3. s.ref = {Shift}  BY <1>1, <1>2, DownIs
<1>4. /\ r.ref = s.ref \ {Shift} /\ Releases(r.matrix.queue)
      /\ r.matrix.age = s.matrix.age /\ r.matrix.map \subseteq s.matrix.map
      /\ Len(s.matrix.queue) = 1 =>
            r.matrix.map = s.matrix.map /\ r.matrix.queue = Append(s.matrix.queue, Break(Shift))
  BY <1>1, <1>2, <1>3, BrokenIs
<1>5. PICK l \in Nat : l = Len(g)  BY <1>1, TextIs
<1>6. PICK i \in 1..l : i = p.index  BY <1>2, <1>5, PastingIs
<1>7. MadeIn(p, g) = i  BY <1>1, <1>2, <1>6, MadeIs
<1>8. r.matrix \in Matrices /\ p.phase \in {"key_up", "shift_up"}  BY BoardIs
<1>9. /\ q.frames = 0 /\ MadeIn(q, g) = i /\ DownIn(q) = {} /\ Paced(r.matrix, q, sn, g)
  BY ZenonT(60), <1>1, <1>2, <1>7, <1>8, EndsWell
<1>10. \/ AllRead(r.matrix, sn, ty, g, i)
       \/ OneUnread(r.matrix, q, sn, ty, g, i)
  <2>1. CASE AllRead(s.matrix, sn, ty, g, i)  BY <1>4, <2>1, StillRead
  <2>2. CASE OneUnread(s.matrix, p, sn, ty, g, i)
    <3>1. PICK k \in Keys : k = g[i].key /\ k # Shift  BY <1>1, <1>5, CharIs
    <3>2. k \in s.matrix.map /\ (s.matrix.queue # <<>> => s.matrix.queue[1] = Break(k))
      BY <2>2, <3>1 DEF OneUnread
    <3>3. s.matrix.queue # <<>>  BY <1>3, <3>1, <3>2, EmptyShows
    <3>4. PICK w \in Seq(Events) : w = s.matrix.queue  BY BoardIs, MatrixIs
    <3>5. Len(w) = 1
      <4>1. Len(w) \in Nat /\ w # <<>> /\ Len(w) <= 1  BY <1>2, <3>3, <3>4
      <4> QED BY <4>1
    <3>6. r.matrix.map = s.matrix.map /\ r.matrix.queue = Append(w, Break(Shift))
      BY <1>4, <3>4, <3>5
    <3>7. PICK e \in Events : e = Break(Shift)  BY <1>2, EventIs
    <3>8. Append(w, e)[1] = w[1]
      <4>1. \A j \in 1..1 : Append(w, e)[j] = w[j]  BY <3>5, AppendIs
      <4> QED BY <4>1
    <3>9. r.matrix.queue[1] = Break(g[i].key)
      BY <3>1, <3>2, <3>3, <3>4, <3>6, <3>7, <3>8
    <3> QED BY <1>4, <1>9, <2>2, <3>6, <3>9, StillUnread
  <2> QED BY <1>1, <1>7, <2>1, <2>2
<1>11. r.ref = {}  BY <1>3, <1>4
<1> QED BY <1>1, <1>4, <1>9, <1>10, <1>11 DEF Undisturbed

LEMMA UnshiftGoesOn ==
    ASSUME NEW s \in Boards, NEW p, NEW q, NEW r, NEW sn, NEW ty, NEW g,
           Settled(s), Pasting(p), Undisturbed(s, p, sn, ty, g),
           p.phase = "key_down", CharAt(p).shift,
           r = SendAll(s, <<Break(Shift)>>), r \in Boards,
           Stays(p, q), q.frames = p.frames, q.phase = "shift_down"
    PROVE  Undisturbed(r, q, sn, ty, g)
<1>1. /\ g \in Texts /\ s.ref = DownIn(p) /\ Paced(s.matrix, p, sn, g)
      /\ Releases(s.matrix.queue)
      /\ \/ AllRead(s.matrix, sn, ty, g, MadeIn(p, g))
         \/ OneUnread(s.matrix, p, sn, ty, g, MadeIn(p, g))
  BY DEF Undisturbed
<1>2. p.text = g /\ PasteIs(p) /\ Shift \in Keys /\ p.shiftDown
  BY <1>1, KeyNumbers DEF Paced, PasteIs, Pasting
<1>3. /\ \A k \in Keys : s.matrix.age[k] + FramesPerEvent >= Hold + p.frames
      /\ p.frames > 0 => sn \ {Shift} \subseteq s.matrix.map
      /\ s.matrix.queue = <<>>
  BY <1>1, <1>2 DEF Paced
<1>4. s.ref = {Shift} /\ s.matrix.map = {Shift}
  BY <1>1, <1>2, <1>3, DownIs, EmptyShows
<1>5. PasteIs(q) /\ Pasting(q) /\ q.text = g /\ q.index = p.index
  BY <1>2 DEF PasteIs, Stays
<1>6. PICK l \in Nat : l = Len(g)  BY <1>1, TextIs
<1>7. PICK i \in 1..l : i = p.index  BY <1>2, <1>6, PastingIs
<1>8. MadeIn(p, g) = i - 1 /\ MadeIn(q, g) = i - 1
  BY <1>1, <1>2, <1>5, <1>7, MadeIs
<1>9. AllRead(s.matrix, sn, ty, g, i - 1)
  <2>1. CASE OneUnread(s.matrix, p, sn, ty, g, i - 1)
    <3>1. i - 1 \in 1..l  BY <1>7, <2>1 DEF OneUnread
    <3>2. PICK j \in 1..l : j = i - 1  BY <3>1
    <3>3. g[j].key # Shift  BY <1>1, <1>6, CharIs
    <3>4. g[j].key \in s.matrix.map  BY <2>1, <3>2 DEF OneUnread
    <3> QED BY <1>4, <3>3, <3>4
  <2> QED BY <1>1, <1>8, <2>1
<1>10. /\ r.ref = {} /\ Releases(r.matrix.queue)
       /\ r.matrix.age = s.matrix.age /\ r.matrix.map \subseteq s.matrix.map
       /\ s.matrix.age[Shift] >= Hold => r.matrix.queue = <<>>
  <2>1. s.ref \ {Shift} = {} /\ Shift \in s.ref  BY <1>4
  <2> QED BY <1>1, <1>2, <1>3, <2>1, BrokenIs
<1>11. AllRead(r.matrix, sn, ty, g, i - 1)  BY <1>9, <1>10, StillRead
<1>12. Paced(r.matrix, q, sn, g)
  <2>1. p.frames = FramesPerEvent => r.matrix.queue = <<>>
    <3>1. PICK a \in 0..Hold : a = s.matrix.age[Shift]
      BY <1>2, BoardIs, MatrixIs
    <3>2. p.frames = FramesPerEvent => a >= Hold
      BY <1>2, <1>3, <3>1, KeyNumbers
    <3> QED BY <1>10, <3>1, <3>2
  <2>2. p.frames > 0 => sn \ {Shift} \subseteq r.matrix.map  BY <1>3, <1>4
  <2> QED BY <1>3, <1>5, <1>10, <2>1, <2>2 DEF Paced
<1>13. DownIn(q) = {}  BY <1>5, DownIs
<1> QED BY <1>1, <1>8, <1>10, <1>11, <1>12, <1>13 DEF Undisturbed

\* A paste begins where the guest has read everything: all keys are released.
LEMMA StartsWell ==
    ASSUME KeysKept, NEW t \in Texts, StartPaste(t), keys.matrix.queue = <<>>,
           keys.matrix.map = seen
    PROVE  Undisturbed(keys', paste', seen', typed', t)
<1>1. PICK x : x = SendAll(keys, HeldKeys(paste))  OBVIOUS
<1>2. keys \in Boards /\ PasteIs(paste)  BY DEF KeysKept
<1>3. HeldKeys(paste) \in Seq(Events) /\ Releases(HeldKeys(paste)) /\ Releases(keys.matrix.queue)
  BY <1>2, HeldKeysAre DEF Releases
<1>4. x \in Boards /\ Releases(x.matrix.queue) /\ x.matrix.map \subseteq keys.matrix.map
  BY <1>1, <1>2, <1>3, SendAllIs, SendAllReleases
<1>5. PICK r : r = AllRelease(x)  OBVIOUS
<1>6. r \in Boards /\ r.ref = {} /\ Releases(r.matrix.queue) /\ r.matrix.map \subseteq x.matrix.map
  BY <1>4, <1>5, AllReleaseIs
<1>7. keys' = r /\ seen' = seen /\ typed' = <<>>
  BY <1>1, <1>5 DEF StartPaste, Sent
<1>8. PICK q : q = paste'  OBVIOUS
<1>9. q = [text |-> t, index |-> 1, phase |-> FirstPhase(t[1]), frames |-> 0,
           shiftDown |-> FALSE, keyDown |-> FALSE]
  BY <1>8 DEF StartPaste, NoPaste
<1>10. Pasting(q) /\ q.phase \in {"shift_down", "key_down"}
  BY <1>9, Begins, TextIs
<1>11. q.text = t /\ q.index = 1 /\ q.frames = 0 /\ ~q.shiftDown /\ ~q.keyDown /\ PasteIs(q)
  BY <1>9, <1>10 DEF PasteIs
<1>12. DownIn(q) = {}  BY <1>11, DownIs
<1>13. MadeIn(q, t) = 0  BY <1>10, <1>11, MadeIs
<1>14. Paced(r.matrix, q, seen, t)  BY <1>6, <1>10, <1>11, BoardIs, PaceStarts
<1>15. AllRead(r.matrix, seen, <<>>, t, 0)
  <2>1. SubSeq(t, 1, 0) = <<>>  BY TextIs
  <2> QED BY <1>4, <1>6, <2>1 DEF AllRead
<1> QED BY <1>6, <1>7, <1>8, <1>12, <1>13, <1>14, <1>15 DEF Undisturbed

LEMMA NewKeysThrough ==
    ASSUME NEW m, NEW n \in Nat, n = Len(KeyOrder),
           NEW P \in [0..n -> SUBSET Seq(Reads)], <<>> \in P[0],
           \A i \in 1..n : \A x \in P[i - 1] :
              (IF KeyOrder[i] \in m.map \ (seen \cup {Shift})
               THEN Append(x, [key |-> KeyOrder[i], shift |-> Shift \in m.map]) ELSE x) \in P[i]
    PROVE  NewKeys(m) \in P[n]
<1> DEFINE S == Seq(Reads)
           new(k) == [key |-> k, shift |-> Shift \in m.map]
           next(x, i) == IF KeyOrder[i] \in m.map \ (seen \cup {Shift})
                         THEN Append(x, new(KeyOrder[i])) ELSE x
           op == [y \in S \X (1..n) |-> next(y[1], y[2])]
<1>1. \A i \in 1..n : KeyOrder[i] \in Keys  BY KeyNumbers
<1>2. \A x \in S, i \in 1..n : next(x, i) \in S
  <2> SUFFICES ASSUME NEW x \in S, NEW i \in 1..n PROVE next(x, i) \in S
    OBVIOUS
  <2>1. PICK e \in Reads : e = new(KeyOrder[i])
    <3>0. (Shift \in m.map) \in BOOLEAN  OBVIOUS
    <3>1. PICK h \in BOOLEAN : h = (Shift \in m.map)  BY <3>0, Zenon
    <3>2. [key |-> KeyOrder[i], shift |-> h] \in Reads  BY <1>1 DEF Reads
    <3> QED BY <3>1, <3>2, Zenon
  <2>2. Append(x, e) \in S  BY AppendSeq
  <2> QED BY <2>1, <2>2
<1> HIDE DEF next
<1>3. op \in [S \X (1..n) -> S]
  <2>1. ASSUME NEW y \in S \X (1..n) PROVE next(y[1], y[2]) \in S
    <3>1. y[1] \in S /\ y[2] \in 1..n  OBVIOUS
    <3> HIDE DEF S
    <3> QED BY <1>2, <3>1
  <2> HIDE DEF S
  <2> QED BY <2>1
<1>4. \A x \in S, i \in 1..n : op[<<x, i>>] = next(x, i)
  <2> HIDE DEF S
  <2> QED OBVIOUS
<1> HIDE DEF op
<1>5. <<>> \in S  OBVIOUS
<1> HIDE DEF S
<1>6. PICK f \in [0..n -> S] : f[0] = <<>> /\ \A i \in 1..n : f[i] = op[<<f[i - 1], i>>]
  <2>1. Iterated(S, n, <<>>, op)  BY <1>3, <1>5, Iterates
  <2> QED BY <2>1 DEF Iterated
<1> DEFINE Eq(h) == h = [i \in 0..n |->
                          IF i = 0 THEN <<>>
                          ELSE IF KeyOrder[i] \in m.map \ (seen \cup {Shift})
                          THEN Append(h[i - 1], [key |-> KeyOrder[i], shift |-> Shift \in m.map])
                          ELSE h[i - 1]]
           g == CHOOSE h : Eq(h)
           T == {i \in Nat : i <= n => g[i] \in P[i]}
<1>7. Eq(f)
  <2>1. ASSUME NEW i \in 0..n, i # 0 PROVE f[i] = next(f[i - 1], i)
    <3>1. i \in 1..n /\ i - 1 \in 0..n  BY <2>1
    <3>2. f[i - 1] \in S  BY SMTT(40), <3>1
    <3> QED BY <1>4, <1>6, <3>1, <3>2
  <2>2. f = [i \in 0..n |-> f[i]]  OBVIOUS
  <2> QED BY <1>6, <2>1, <2>2 DEF next
<1>8. Eq(g)  BY <1>7
<1> HIDE DEF g
<1>9. 0 \in T  BY <1>8
<1>10. ASSUME NEW i \in Nat, i \in T PROVE i + 1 \in T
  <2> SUFFICES ASSUME i + 1 <= n PROVE g[i + 1] \in P[i + 1]  OBVIOUS
  <2>1. i + 1 \in 0..n /\ i + 1 \in 1..n /\ i + 1 # 0 /\ (i + 1) - 1 = i /\ i <= n
    OBVIOUS
  <2>2. g[i] \in P[i]  BY <1>10, <2>1
  <2>3. g[i + 1] = IF KeyOrder[i + 1] \in m.map \ (seen \cup {Shift})
                   THEN Append(g[i], [key |-> KeyOrder[i + 1], shift |-> Shift \in m.map])
                   ELSE g[i]
    BY <1>8, <2>1
  <2> QED BY ZenonT(60), <2>1, <2>2, <2>3
<1> HIDE DEF T
<1>11. Nat \subseteq T  BY <1>9, <1>10, SetInduction
<1>12. g[n] \in P[n]  BY <1>11 DEF T
<1> QED BY <1>12 DEF NewKeys, g

LEMMA NewKeysAre ==
    ASSUME NEW m, NEW k \in Keys
    PROVE  /\ m.map \ (seen \cup {Shift}) = {} => NewKeys(m) = <<>>
           /\ m.map \ (seen \cup {Shift}) = {k} =>
                 NewKeys(m) = <<[key |-> k, shift |-> Shift \in m.map]>>
<1>1. PICK n \in Nat : n = Len(KeyOrder)  BY KeyNumbers
<1>2. \A i \in 1..n : KeyOrder[i] \in Keys  BY <1>1, KeyNumbers
<1>3. ASSUME m.map \ (seen \cup {Shift}) = {} PROVE NewKeys(m) = <<>>
  <2> DEFINE P == [i \in 0..n |-> {<<>>}]
  <2>1. P \in [0..n -> SUBSET Seq(Reads)] /\ <<>> \in P[0] /\ P[n] = {<<>>}
    OBVIOUS
  <2>2. ASSUME NEW i \in 1..n, NEW x \in P[i - 1]
        PROVE  (IF KeyOrder[i] \in m.map \ (seen \cup {Shift})
                THEN Append(x, [key |-> KeyOrder[i], shift |-> Shift \in m.map]) ELSE x) \in P[i]
    <3>1. i - 1 \in 0..n /\ i \in 0..n  OBVIOUS
    <3> QED BY <1>3, <3>1
  <2> HIDE DEF P
  <2> QED BY <1>1, <2>1, <2>2, NewKeysThrough
<1>4. ASSUME m.map \ (seen \cup {Shift}) = {k}
      PROVE  NewKeys(m) = <<[key |-> k, shift |-> Shift \in m.map]>>
  <2>1. PICK j \in 1..n : KeyOrder[j] = k  BY <1>1 DEF Keys, Range
  <2>2. \A i \in 1..n : KeyOrder[i] = k => i = j
    <3>1. IsInjective(KeyOrder) /\ DOMAIN KeyOrder = 1..n
      BY <1>1, KeyNumbers, KeyboardAssumption
    <3> QED BY <2>1, <3>1 DEF IsInjective
  <2>3. PICK c \in Reads : c = [key |-> k, shift |-> Shift \in m.map]
    <3>0. (Shift \in m.map) \in BOOLEAN  OBVIOUS
    <3>1. PICK h \in BOOLEAN : h = (Shift \in m.map)  BY <3>0, Zenon
    <3>2. [key |-> k, shift |-> h] \in Reads  BY DEF Reads
    <3> QED BY <3>1, <3>2, Zenon
  <2> DEFINE P == [i \in 0..n |-> IF i < j THEN {<<>>} ELSE {<<c>>}]
  <2>4. P \in [0..n -> SUBSET Seq(Reads)]
    <3>1. <<>> \in Seq(Reads) /\ <<c>> \in Seq(Reads)  OBVIOUS
    <3> QED BY <3>1
  <2>5. <<>> \in P[0] /\ P[n] = {<<c>>}  OBVIOUS
  <2>6. ASSUME NEW i \in 1..n, NEW x \in P[i - 1]
        PROVE  (IF KeyOrder[i] \in m.map \ (seen \cup {Shift})
                THEN Append(x, [key |-> KeyOrder[i], shift |-> Shift \in m.map]) ELSE x) \in P[i]
    <3>1. i - 1 \in 0..n /\ i \in 0..n /\ (i - 1 < j <=> i <= j)  OBVIOUS
    <3>2. CASE i < j
      <4>1. x = <<>> /\ KeyOrder[i] # k  BY <2>2, <3>1, <3>2
      <4> QED BY <1>4, <3>1, <3>2, <4>1
    <3>3. CASE i = j
      <4>1. x = <<>> /\ KeyOrder[i] = k /\ P[i] = {<<c>>}  BY <2>1, <3>1, <3>3
      <4>2. Append(x, c) = <<c>>  BY <4>1
      <4> QED BY <1>4, <2>3, <4>1, <4>2
    <3>4. CASE i > j
      <4>1. x = <<c>> /\ KeyOrder[i] # k /\ P[i] = {<<c>>}
        BY <2>2, <3>1, <3>4
      <4> QED BY <1>4, <4>1
    <3> QED BY <3>2, <3>3, <3>4
  <2> HIDE DEF P
  <2>7. NewKeys(m) \in P[n]  BY <1>1, <2>4, <2>5, <2>6, NewKeysThrough
  <2> QED BY <2>3, <2>5, <2>7
<1> QED BY <1>3, <1>4

\* The beginning of a text, and one more of it.
LEMMA PartIs ==
    ASSUME NEW S, NEW g \in Seq(S), NEW n \in Nat, n <= Len(g)
    PROVE  /\ SubSeq(g, 1, n) \in Seq(S) /\ Len(SubSeq(g, 1, n)) = n
           /\ \A i \in 1..n : SubSeq(g, 1, n)[i] = g[i]
OBVIOUS

LEMMA JoinedIs ==
    ASSUME NEW S, NEW a \in Seq(S), NEW c \in S, NEW n \in Nat, n = Len(a)
    PROVE  /\ a \o <<c>> \in Seq(S) /\ Len(a \o <<c>>) = n + 1
           /\ \A i \in 1..n : (a \o <<c>>)[i] = a[i]
           /\ (a \o <<c>>)[n + 1] = c
OBVIOUS

LEMMA SubSeqNext ==
    ASSUME NEW S, NEW g \in Seq(S), NEW l \in Nat, l = Len(g), NEW n \in 1..l, NEW c \in S, c = g[n]
    PROVE  SubSeq(g, 1, n - 1) \o <<c>> = SubSeq(g, 1, n)
<1>1. PICK m \in Nat : m = n - 1 /\ n = m + 1 /\ m <= l  OBVIOUS
<1>2. PICK a : a = SubSeq(g, 1, m)  OBVIOUS
<1>3. a \in Seq(S) /\ Len(a) = m /\ \A i \in 1..m : a[i] = g[i]
  BY <1>1, <1>2, PartIs
<1>4. PICK b : b = SubSeq(g, 1, n)  OBVIOUS
<1>5. b \in Seq(S) /\ Len(b) = n /\ \A i \in 1..n : b[i] = g[i]
  BY <1>4, PartIs
<1>6. PICK d : d = a \o <<c>>  OBVIOUS
<1>7. d \in Seq(S) /\ Len(d) = m + 1 /\ (\A i \in 1..m : d[i] = a[i]) /\ d[m + 1] = c
  BY <1>3, <1>6, JoinedIs
<1>8. ASSUME NEW i \in 1..n PROVE d[i] = b[i]
  <2>1. i \in 1..m \/ i = m + 1  BY <1>1
  <2> QED BY <1>1, <1>3, <1>5, <1>7, <2>1
<1>9. Len(d) = Len(b)  BY <1>1, <1>5, <1>7
<1>10. d = b  BY <1>5, <1>7, <1>8, <1>9
<1> QED BY <1>1, <1>2, <1>4, <1>6, <1>10

\* A frame: what is made is read, and the ticks pace what is next.
LEMMA FramePaces ==
    ASSUME KeysKept, Frame, Undisturbed(keys, paste, seen, typed, goal)
    PROVE  /\ Paced(keys'.matrix, paste', seen', goal)
           /\ Releases(keys'.matrix.queue) /\ keys'.matrix.map \subseteq keys.matrix.map
<1>1. PICK m \in Matrices : m = keys.matrix /\ Held(m)
  BY BoardIs DEF KeysKept
<1>2. PICK r : r = keys'.matrix  OBVIOUS
<1>3. Ticked(m, r) /\ seen' = r.map  BY <1>1, <1>2, FrameIs
<1>4. Releases(m.queue) /\ Paced(m, paste, seen, goal)
  BY <1>1 DEF Undisturbed
<1>5. PICK x : x = MatrixTick(m)  OBVIOUS
<1>6. /\ \A k \in Keys : x.age[k] = Older(m.age[k])
      /\ x.map \subseteq m.map
      /\ Releases(x.queue) /\ Len(x.queue) <= Len(m.queue)
      /\ (\A k \in Keys : Older(m.age[k]) >= Hold) => x.queue = <<>>
  BY <1>1, <1>4, <1>5, TickIs
<1>7. r.map = x.map /\ r.age = x.age /\ r.queue = x.queue /\ r \in Matrices
  BY <1>3, <1>5 DEF Ticked
<1>8. ASSUME Pasting(paste') PROVE Paced(r, paste', r.map, goal)
  <2>1. PICK p : p = paste /\ Pasting(p)
    <3>1. paste' # NoPaste  BY <1>8, NoPasteIs, PastingIs
    <3> QED BY <3>1, FrameCounts DEF KeysKept, PasteIs
  <2>2. PICK q : q = paste'  OBVIOUS
  <2>3. /\ q.text = p.text /\ q.index = p.index /\ q.phase = p.phase /\ q.shiftDown = p.shiftDown
        /\ p.frames < FramesPerEvent => q.frames = p.frames + 1
        /\ ~(p.frames < FramesPerEvent) => q.frames = p.frames
    BY <2>1, <2>2, FrameCounts DEF KeysKept, Stays
  <2>4. /\ p.text = goal
        /\ \A k \in Keys : m.age[k] + FramesPerEvent >= Hold + p.frames
        /\ p.phase = "key_up" => m.queue = <<>>
        /\ p.phase = "key_down" /\ p.shiftDown => m.queue = <<>>
        /\ p.phase = "shift_up" => Len(m.queue) <= 1
    BY <1>4, <2>1 DEF Paced
  <2>5. PICK f \in 0..FramesPerEvent : f = p.frames  BY <2>1, PastingIs
  <2>6. PICK c \in 0..FramesPerEvent :
            c = q.frames /\ (f < FramesPerEvent => c = f + 1) /\ (~(f < FramesPerEvent) => c = f)
    BY <2>3, <2>5, KeyNumbers
  <2>7. Hold \in Nat /\ FramesPerEvent \in Nat  BY KeyNumbers
  <2>8. ASSUME NEW k \in Keys PROVE r.age[k] + FramesPerEvent >= Hold + c
    <3>1. PICK a \in 0..Hold : a = m.age[k]  BY MatrixIs
    <3>2. a + FramesPerEvent >= Hold + f  BY <2>4, <2>5, <3>1
    <3>3. PICK b \in 0..Hold : b = Older(a)  BY <2>7 DEF Older
    <3>4. b + FramesPerEvent >= Hold + c  BY <2>6, <2>7, <3>2, <3>3 DEF Older
    <3> QED BY <1>6, <1>7, <3>1, <3>3, <3>4
  <2>9. ASSUME c = FramesPerEvent PROVE r.queue = <<>>
    <3>1. ASSUME NEW k \in Keys PROVE Older(m.age[k]) >= Hold
      <4>1. PICK b \in 0..Hold : b = r.age[k]  BY <1>7, MatrixIs
      <4>2. b + FramesPerEvent >= Hold + FramesPerEvent  BY <2>8, <2>9, <4>1
      <4>3. b >= Hold  BY <2>7, <4>2
      <4> QED BY <1>6, <1>7, <4>1, <4>3
    <3> QED BY <1>6, <1>7, <3>1
  <2>10. m.queue = <<>> => r.queue = <<>>
    <3>1. PICK w \in Seq(Events) : w = r.queue  BY <1>7, MatrixIs
    <3>2. m.queue = <<>> => Len(w) <= 0  BY <1>6, <1>7, <3>1
    <3> QED BY <3>1, <3>2
  <2>11. Len(m.queue) <= 1 => Len(r.queue) <= 1
    <3>1. PICK d \in Nat, e \in Nat : d = Len(m.queue) /\ e = Len(r.queue)
      BY <1>7, MatrixIs
    <3>2. e <= d  BY <1>6, <1>7, <3>1
    <3> QED BY <3>1, <3>2
  <2> QED BY <2>2, <2>3, <2>4, <2>6, <2>8, <2>9, <2>10, <2>11 DEF Paced
<1>9. Paced(r, paste', r.map, goal)  BY <1>8 DEF Paced
<1> QED BY <1>1, <1>2, <1>3, <1>6, <1>7, <1>9

LEMMA FrameReads ==
    ASSUME KeysKept, Frame, goal # <<>>, Undisturbed(keys, paste, seen, typed, goal)
    PROVE  AllRead(keys'.matrix, seen', typed', goal, MadeIn(paste, goal))
<1>1. PICK m \in Matrices : m = keys.matrix /\ Held(m)
  BY BoardIs DEF KeysKept
<1>2. PICK r : r = keys'.matrix  OBVIOUS
<1>3. Ticked(m, r) /\ seen' = r.map /\ typed' = typed \o NewKeys(r)
  BY <1>1, <1>2, FrameIs
<1>4. /\ goal \in Texts /\ Releases(m.queue) /\ Paced(m, paste, seen, goal)
      /\ keys.ref = DownIn(paste)
      /\ \/ AllRead(m, seen, typed, goal, MadeIn(paste, goal))
         \/ OneUnread(m, paste, seen, typed, goal, MadeIn(paste, goal))
  BY <1>1 DEF Undisturbed
<1>5. PICK x : x = MatrixTick(m)  OBVIOUS
<1>6. /\ x.map \subseteq m.map /\ Len(x.queue) <= Len(m.queue)
      /\ \A e \in Events :
           m.queue # <<>> /\ m.queue[1] = e /\ e.key \in m.held /\ Older(m.age[e.key]) < Hold =>
              x.map = m.map
      /\ Ends(x.map, x.queue, Len(x.queue)) = Ends(m.map, m.queue, Len(m.queue))
      /\ x \in Matrices
  BY <1>1, <1>4, <1>5, TickIs
<1>7. r.map = x.map  BY <1>3, <1>5 DEF Ticked
<1>8. PICK l \in Nat : l = Len(goal)  BY <1>4, TextIs
<1>9. PICK n \in 0..l : n = MadeIn(paste, goal)
  <2>1. Pasting(paste) => paste.text = goal  BY <1>4 DEF Paced
  <2> QED BY <1>4, <1>8, <2>1, MadeIs DEF KeysKept
<1>10. goal \in Seq(Chars)  BY <1>4, TextIs
<1>11. PICK k \in Keys : n >= 1 => k = goal[n].key /\ k # Shift
  <2>1. CASE n >= 1  BY <1>4, <1>8, <2>1, CharIs
  <2>2. CASE ~(n >= 1)  BY <2>2, KeyNumbers
  <2> QED BY <2>1, <2>2
<1>12. CASE AllRead(m, seen, typed, goal, n)
  <2>1. r.map \ (seen \cup {Shift}) = {}  BY <1>6, <1>7, <1>12 DEF AllRead
  <2>2. NewKeys(r) = <<>>  BY <1>11, <2>1, NewKeysAre
  <2>3. typed = SubSeq(goal, 1, n)  BY <1>12 DEF AllRead
  <2>4. typed \o <<>> = typed
    <3>1. typed \in Seq(Chars)  BY <1>8, <1>10, <2>3
    <3> QED BY <3>1
  <2> QED BY <1>2, <1>3, <1>9, <2>2, <2>3, <2>4 DEF AllRead
<1>13. CASE OneUnread(m, paste, seen, typed, goal, n)
  <2>1. /\ n >= 1 /\ typed = SubSeq(goal, 1, n - 1)
        /\ goal[n].key \in m.map /\ goal[n].key \notin seen
        /\ m.map \subseteq {Shift, goal[n].key}
        /\ Shift \in m.map <=> goal[n].shift
        /\ m.age[goal[n].key] = 0
        /\ m.queue # <<>> => m.queue[1] = Break(goal[n].key)
    BY <1>13 DEF OneUnread
  <2>2. k = goal[n].key /\ k # Shift  BY <1>11, <2>1
  <2>3. x.map = m.map
    <3>1. CASE m.queue # <<>>
      <4>1. PICK e \in Events : e = Break(k) /\ e.key = k  BY EventIs
      <4>2. Older(m.age[k]) < Hold  BY <2>1, <2>2, KeyNumbers DEF Older
      <4>3. m.queue[1] = e /\ e.key \in m.held
        BY <1>1, <2>1, <2>2, <3>1, <4>1 DEF Held
      <4> QED BY <1>6, <3>1, <4>1, <4>2, <4>3
    <3>2. CASE m.queue = <<>>
      <4>1. PICK w \in Seq(Events) : w = x.queue  BY <1>6, MatrixIs
      <4>2. Len(w) <= 0  BY <1>6, <3>2, <4>1
      <4>3. Len(x.queue) = 0 /\ Len(m.queue) = 0  BY <3>2, <4>1, <4>2
      <4>4. x.map \in SUBSET Keys /\ m.map \in SUBSET Keys  BY <1>6, MatrixIs
      <4>5. Ends(x.map, x.queue, 0) = x.map /\ Ends(m.map, m.queue, 0) = m.map
        BY <4>4, EndsNone
      <4> QED BY <1>6, <4>3, <4>5
    <3> QED BY <3>1, <3>2
  <2>4. r.map = m.map  BY <1>7, <2>3
  <2>5. r.map \ (seen \cup {Shift}) = {k}  BY <2>1, <2>2, <2>4
  <2>6. PICK c \in Chars : c = goal[n] /\ n \in 1..l
    BY <1>4, <1>8, <2>1, CharIs
  <2>7. NewKeys(r) = <<c>>
    <3>1. NewKeys(r) = <<[key |-> k, shift |-> Shift \in r.map]>>
      BY <2>5, NewKeysAre
    <3>2. c = [key |-> c.key, shift |-> c.shift] /\ c.shift \in BOOLEAN
      BY DEF Chars
    <3>3. (Shift \in r.map) = c.shift
      <4>1. Shift \in r.map <=> c.shift  BY <2>1, <2>4, <2>6
      <4>2. (Shift \in r.map) \in BOOLEAN  OBVIOUS
      <4> QED BY <3>2, <4>1, <4>2
    <3>4. c.key = k  BY <2>2, <2>6
    <3> QED BY <3>1, <3>2, <3>3, <3>4, Zenon
  <2>8. SubSeq(goal, 1, n - 1) \o <<c>> = SubSeq(goal, 1, n)
    BY <1>8, <1>10, <2>6, SubSeqNext
  <2>9. typed' = SubSeq(goal, 1, n)  BY <1>3, <2>1, <2>7, <2>8
  <2>10. r.map \ {Shift} \subseteq seen'  BY <1>3
  <2> QED BY <1>2, <1>9, <2>9, <2>10 DEF AllRead
<1> QED BY <1>4, <1>9, <1>12, <1>13

LEMMA FrameGoesOn ==
    ASSUME KeysKept, Frame, goal # <<>>, Undisturbed(keys, paste, seen, typed, goal)
    PROVE  Undisturbed(keys', paste', seen', typed', goal)
<1>1. PICK p : p = paste  OBVIOUS
<1>2. PICK q : q = paste'  OBVIOUS
<1>3. PasteIs(p)  BY <1>1 DEF KeysKept
<1>4. goal \in Texts /\ keys.ref = DownIn(p) /\ Paced(keys.matrix, p, seen, goal)
  BY <1>1 DEF Undisturbed
<1>5. DownIn(q) = DownIn(p) /\ MadeIn(q, goal) = MadeIn(p, goal)
  <2>1. CASE p = NoPaste  BY <1>1, <1>2, <2>1, <1>3, FrameCounts
  <2>2. CASE Pasting(p)
    <3>1. /\ q.text = p.text /\ q.index = p.index /\ q.phase = p.phase
          /\ q.shiftDown = p.shiftDown /\ q.keyDown = p.keyDown
      BY <1>1, <1>2, <1>3, <2>2, FrameCounts DEF Stays
    <3> QED BY <3>1 DEF DownIn, MadeIn, CharAt
  <2> QED BY <1>3, <2>1, <2>2 DEF PasteIs
<1>6. keys'.ref = keys.ref  BY FrameIs
<1>7. AllRead(keys'.matrix, seen', typed', goal, MadeIn(p, goal))
  BY <1>1, FrameReads
<1>8. /\ Paced(keys'.matrix, paste', seen', goal)
      /\ Releases(keys'.matrix.queue)
  BY FramePaces
<1> QED BY <1>2, <1>4, <1>5, <1>6, <1>7, <1>8 DEF Undisturbed

LEMMA StepGoesOn ==
    ASSUME KeysKept, goal # <<>>, Undisturbed(keys, paste, seen, typed, goal),
           PasteStep \/ PausedRelease
    PROVE  Undisturbed(keys', paste', seen', typed', goal')
<1>1. keys \in Boards /\ Settled(keys) /\ PasteIs(paste)  BY DEF KeysKept
<1>2. Pasting(paste)  BY <1>1, NoPasteIs DEF PasteIs, PasteStep, PausedRelease
<1>3. PICK r : r = SendAll(keys, PasteEvents)  OBVIOUS
<1>4. PICK q : q = NextAction(Stepped)  OBVIOUS
<1>5. /\ keys' = r /\ paste' = q /\ seen' = seen /\ typed' = typed /\ goal' = goal
  BY <1>3, <1>4 DEF PasteStep, PausedRelease, Sent
<1>6. r \in Boards  BY <1>1, <1>2, <1>3, PasteEventsAre, SendAllIs
<1>7. paste.phase \in {"key_up", "shift_up"} \/ paste.frames = FramesPerEvent
  <2>1. CASE PasteStep
    <3>1. paste.frames \in 0..FramesPerEvent /\ paste.frames >= FramesPerEvent
      BY <1>2, <2>1, PastingIs DEF PasteStep
    <3> QED BY <3>1, KeyNumbers
  <2>2. CASE PausedRelease  BY <2>2 DEF PausedRelease
  <2> QED BY <2>1, <2>2
<1>8. CASE paste.phase = "shift_down"
  <2>1. PasteEvents = <<Make(Shift)>> /\ Stays(paste, q) /\ q.frames = 0 /\ q.phase = "key_down"
    BY <1>2, <1>4, <1>8, StepIs
  <2>2. paste.frames = FramesPerEvent  BY <1>7, <1>8
  <2>3. Undisturbed(r, q, seen, typed, goal)
    BY <1>1, <1>2, <1>3, <1>6, <1>8, <2>1, <2>2, ShiftDownGoesOn
  <2> QED BY <1>5, <2>3
<1>9. CASE paste.phase = "key_down"
  <2>1. PasteEvents = <<Make(CharAt(paste).key)>> /\ Stays(paste, q) /\ q.frames = 0 /\ q.phase = "key_up"
    BY <1>2, <1>4, <1>9, StepIs
  <2>2. paste.frames = FramesPerEvent  BY <1>7, <1>9
  <2>3. Undisturbed(r, q, seen, typed, goal)
    BY <1>1, <1>2, <1>3, <1>6, <1>9, <2>1, <2>2, KeyDownGoesOn
  <2> QED BY <1>5, <2>3
<1>10. CASE paste.phase = "key_up"
  <2>1. /\ PasteEvents = <<Break(CharAt(paste).key)>>
        /\ CharAt(paste).shift => Stays(paste, q) /\ q.frames = 0 /\ q.phase = "shift_up"
        /\ ~CharAt(paste).shift => GoesOn(paste, q)
    BY <1>2, <1>4, <1>10, StepIs
  <2>2. Undisturbed(r, q, seen, typed, goal)
    BY <1>1, <1>2, <1>3, <1>6, <1>10, <2>1, KeyUpGoesOn
  <2> QED BY <1>5, <2>2
<1>11. CASE paste.phase = "shift_up"
  <2>1. PasteEvents = <<Break(Shift)>> /\ GoesOn(paste, q)
    BY <1>2, <1>4, <1>11, StepIs
  <2>2. Undisturbed(r, q, seen, typed, goal)
    BY <1>1, <1>2, <1>3, <1>6, <1>11, <2>1, ShiftUpGoesOn
  <2> QED BY <1>5, <2>2
<1>12. paste.phase \in Phases  BY <1>2, PastingIs
<1> QED BY <1>8, <1>9, <1>10, <1>11, <1>12 DEF Phases

LEMMA PausedUnshiftGoesOn ==
    ASSUME KeysKept, goal # <<>>, Undisturbed(keys, paste, seen, typed, goal), PausedUnshift
    PROVE  Undisturbed(keys', paste', seen', typed', goal')
<1>1. keys \in Boards /\ Settled(keys) /\ PasteIs(paste)  BY DEF KeysKept
<1>2. Pasting(paste) /\ paste.phase = "key_down" /\ paste.shiftDown
  BY <1>1, NoPasteIs DEF PasteIs, PausedUnshift
<1>3. CharAt(paste).shift  BY <1>2 DEF Pasting
<1>4. PICK r : r = SendAll(keys, <<Break(Shift)>>)  OBVIOUS
<1>5. PICK q : q = [paste EXCEPT !.phase = "shift_down", !.shiftDown = FALSE]
  OBVIOUS
<1>6. /\ keys' = r /\ paste' = q /\ seen' = seen /\ typed' = typed /\ goal' = goal
  BY <1>4, <1>5 DEF PausedUnshift, Sent
<1>7. r \in Boards  BY <1>1, <1>4, OneIs, KeyNumbers, SendAllIs
<1>8. Stays(paste, q) /\ q.frames = paste.frames /\ q.phase = "shift_down"
  <2>1. /\ q \in Pastes /\ q.phase = "shift_down" /\ ~q.shiftDown
        /\ q.keyDown = paste.keyDown /\ q.text = paste.text
        /\ q.index = paste.index /\ q.frames = paste.frames
    BY <1>2, <1>5 DEF Pasting, Pastes, Phases
  <2>2. CharAt(q) = CharAt(paste)  BY <2>1 DEF CharAt
  <2>3. Pasting(q)  BY <1>2, <1>3, <2>1, <2>2 DEF Pasting
  <2> QED BY <2>1, <2>3 DEF Stays
<1>9. Undisturbed(r, q, seen, typed, goal)
  BY <1>1, <1>2, <1>3, <1>4, <1>7, <1>8, UnshiftGoesOn
<1> QED BY <1>6, <1>9

LEMMA KeysNext ==
    ASSUME KeysInv, [Next]_vars
    PROVE  KeysInv' /\ SeenBeforeRelease
<1>1. KeysKept /\ KeysKept' /\ SeenBeforeRelease  BY KeysKeep DEF KeysInv
<1>2. goal # <<>> => Undisturbed(keys, paste, seen, typed, goal)
  BY DEF KeysInv
<1> SUFFICES ASSUME goal' # <<>> PROVE Undisturbed(keys', paste', seen', typed', goal')
  BY <1>1 DEF KeysInv
<1>3. ~Disturb  BY DEF Disturb
<1>4. ASSUME NEW t \in Texts, StartPaste(t)
      PROVE  Undisturbed(keys', paste', seen', typed', goal')
  <2>1. keys.matrix.queue = <<>> /\ keys.matrix.map = seen /\ goal' = t
    BY <1>4 DEF StartPaste
  <2> QED BY <1>1, <1>4, <2>1, StartsWell
<1>5. CASE PasteStep \/ PausedRelease
  <2>1. goal' = goal  BY <1>5 DEF PasteStep, PausedRelease
  <2> QED BY <1>1, <1>2, <1>5, <2>1, StepGoesOn
<1>6. CASE PausedUnshift
  <2>1. goal' = goal  BY <1>6 DEF PausedUnshift
  <2> QED BY <1>1, <1>2, <1>6, <2>1, PausedUnshiftGoesOn
<1>7. CASE Frame
  <2>1. goal' = goal  BY <1>7 DEF Frame
  <2> QED BY <1>1, <1>2, <1>7, <2>1, FrameGoesOn
<1>8. CASE KeyboardCallback \/ ReadData
  <2>1. /\ keys'.ref = keys.ref /\ keys'.matrix = keys.matrix
    BY <1>1, <1>8, FifoKept
  <2>2. paste' = paste /\ seen' = seen /\ typed' = typed /\ goal' = goal
    BY <1>8 DEF KeyboardCallback, ReadData
  <2>3. Undisturbed(keys, paste, seen, typed, goal)  BY <1>2, <2>2
  <2> QED BY <2>1, <2>2, <2>3 DEF Undisturbed
<1>9. CASE UNCHANGED vars
  <2>1. keys' = keys /\ paste' = paste /\ seen' = seen /\ typed' = typed /\ goal' = goal
    BY <1>9 DEF vars
  <2> QED BY <1>2, <2>1
<1>10. CASE \/ \E k \in Keys : Press(k) \/ Release(k)
            \/ \E k \in Keys \ {Shift}, chord \in BOOLEAN : Tap(k, chord)
            \/ Cancel
            \/ \E k \in Keys : LongHold(k)
            \/ ResetSignal
            \/ MachineReset
  BY <1>3, <1>10 DEF Press, Release, Tap, Cancel, LongHold, ResetSignal, MachineReset
<1> QED BY <1>4, <1>5, <1>6, <1>7, <1>8, <1>9, <1>10 DEF Next

LEMMA KeysInit == Init => KeysInv
<1> SUFFICES ASSUME Init PROVE KeysInv  OBVIOUS
<1>1. goal = <<>> /\ paste = NoPaste  BY DEF Init
<1>2. PICK age : age = [k \in Keys |-> Hold]  OBVIOUS
<1>3. age \in [Keys -> 0..Hold]  BY <1>2, KeyNumbers
<1>4. PICK m : m = [map |-> {}, held |-> {}, age |-> age, queue |-> <<>>, forced |-> FALSE]
  OBVIOUS
<1>5. m \in Matrices /\ m.map = {} /\ m.queue = <<>>
  BY <1>3, <1>4 DEF Matrices
<1>6. PICK f : f = [buffers |-> 0, full |-> FALSE, event |-> FALSE, overrun |-> FALSE]
  OBVIOUS
<1>7. f \in Fifos  BY <1>6, KeyNumbers DEF Fifos
<1>8. keys = [ref |-> {}, matrix |-> m, fifo |-> f]
  BY <1>2, <1>4, <1>6 DEF Init
<1>9. keys \in Boards /\ keys.matrix = m /\ keys.ref = {}
  BY <1>5, <1>7, <1>8 DEF Boards, Held
<1>10. Settled(keys)
  <2>1. Ends({}, <<>>, 0) = {}  BY EndsNone
  <2> QED BY <1>5, <1>9, <2>1 DEF Settled, Coming
<1>11. KnownAt(keys.matrix, known)  BY <1>5, <1>9 DEF KnownAt
<1> QED BY <1>1, <1>9, <1>10, <1>11 DEF KeysInv, KeysKept, PasteIs

\* What is held arrives, and what is pasted is typed.
LEMMA KeysTrue ==
    ASSUME KeysInv
    PROVE  Settles /\ PasteTyped
<1>1. keys \in Boards /\ Settled(keys) /\ PasteIs(paste) /\ keys.matrix \in Matrices
  BY BoardIs DEF KeysInv, KeysKept
<1>2. Settles
  <2>1. FlushMatrix(keys.matrix).map = Ends(keys.matrix.map, keys.matrix.queue, Len(keys.matrix.queue))
    BY <1>1, FlushIs
  <2> QED BY <1>1, <2>1 DEF Settles, Settled, Coming
<1>3. ASSUME goal # <<>>
      PROVE  /\ Len(typed) <= Len(goal) /\ typed = SubSeq(goal, 1, Len(typed))
             /\ paste.text = <<>> /\ keys.matrix.queue = <<>> => typed = goal
  <2>1. /\ goal \in Texts /\ keys.ref = DownIn(paste) /\ Paced(keys.matrix, paste, seen, goal)
        /\ \/ AllRead(keys.matrix, seen, typed, goal, MadeIn(paste, goal))
           \/ OneUnread(keys.matrix, paste, seen, typed, goal, MadeIn(paste, goal))
    BY <1>3 DEF KeysInv, Undisturbed
  <2>2. PICK l \in Nat : l = Len(goal) /\ goal \in Seq(Chars)  BY <2>1, TextIs
  <2>3. Pasting(paste) => paste.text = goal  BY <2>1 DEF Paced
  <2>4. PICK n \in 0..l : n = MadeIn(paste, goal)
    BY <1>1, <2>1, <2>2, <2>3, MadeIs
  <2>5. PICK d \in 0..l : typed = SubSeq(goal, 1, d)
    <3>1. CASE AllRead(keys.matrix, seen, typed, goal, n)  BY <3>1 DEF AllRead
    <3>2. CASE OneUnread(keys.matrix, paste, seen, typed, goal, n)
      <4>1. n - 1 \in 0..l /\ typed = SubSeq(goal, 1, n - 1)
        BY <3>2 DEF OneUnread
      <4> QED BY <4>1
    <3> QED BY <2>1, <2>4, <3>1, <3>2
  <2>6. Len(typed) = d /\ SubSeq(typed, 1, d) = SubSeq(goal, 1, d)
    <3>1. typed \in Seq(Chars) /\ Len(typed) = d  BY <2>2, <2>5, PartIs
    <3>2. PICK w \in Seq(Chars) : w = typed /\ Len(w) = d  BY <3>1
    <3>3. SubSeq(w, 1, Len(w)) = w  OBVIOUS
    <3> QED BY <2>5, <3>2, <3>3
  <2>7. Len(typed) <= Len(goal) /\ typed = SubSeq(goal, 1, Len(typed))
    BY <2>2, <2>5, <2>6
  <2>8. ASSUME paste.text = <<>>, keys.matrix.queue = <<>> PROVE typed = goal
    <3>1. paste = NoPaste  BY <1>1, <2>8, PastingIs DEF PasteIs
    <3>2. n = l /\ keys.ref = {}
      BY <1>1, <2>1, <2>2, <2>3, <2>4, <3>1, MadeIs, DownIs
    <3>3. keys.matrix.map = {}  BY <1>1, <2>8, <3>2, EmptyShows
    <3>4. typed = SubSeq(goal, 1, l)
      BY <2>1, <2>4, <3>2, <3>3 DEF AllRead, OneUnread
    <3>5. PICK w \in Seq(Chars) : w = goal /\ Len(w) = l  BY <2>2
    <3>6. SubSeq(w, 1, Len(w)) = w  OBVIOUS
    <3> QED BY <3>4, <3>5, <3>6
  <2> QED BY <2>7, <2>8
<1> QED BY SMTT(40), <1>2, <1>3 DEF PasteTyped

-----------------------------------------------------------------------------
\* The units side by side: each keeps to its own invariant.
LEMMA ExportStays ==
    ASSUME ExportInv, UNCHANGED <<work, exportOnly>>
    PROVE  ExportInv' /\ Mp4!HonestOutcome /\ Mp4!CancelTakes
<1>1. /\ UNCHANGED <<working, cancel, temp, asked, made, error, firstError, worker>>
  BY DEF work, exportOnly
<1> QED BY <1>1 DEF ExportInv, Converting, Cancelling, Mp4!HonestOutcome, Mp4!CancelTakes

LEMMA FolderStays ==
    ASSUME FolderInv, UNCHANGED <<work, folderOnly>>
    PROVE  FolderInv' /\ Folder!KeepsDrive
<1>1. UNCHANGED <<source, changes, builds, worker, manager, image>>
  BY DEF work, folderOnly
<1>2. SourceTyped /\ ManagerTyped /\ WorkerTyped /\ WorkerInv /\ Folder!Coherent /\ Folder!StatusTrue
  BY DEF FolderInv
<1>3. WorkerTyped' /\ WorkerInv'  BY <1>1, <1>2, WorkerStays
<1>4. SourceTyped' /\ ManagerTyped'
  BY <1>1, <1>2 DEF SourceTyped, Dated, ManagerTyped
<1>5. Folder!Coherent' /\ Folder!StatusTrue'
  BY <1>1, <1>2 DEF Folder!Coherent, Folder!IsSnapshot, Folder!StatusTrue
<1> QED BY <1>1, <1>3, <1>4, <1>5 DEF FolderInv, Folder!KeepsDrive

LEMMA RecordingStays == RecordingInv /\ UNCHANGED nativeVars => RecordingInv'
BY DEF RecordingInv, Done, nativeVars

LEMMA HostStarts == HostInit => HostInv
BY ExportInit, FolderInit, RecordingInit, KeysInit DEF HostInit, HostInv

\* A step of the host is one of its unit, or leaves the unit as it is.
LEMMA HostSteps ==
    ASSUME HostInv, [HostNext]_all
    PROVE  /\ HostInv'
           /\ unit = "exports" => Mp4!HonestOutcome /\ Mp4!CancelTakes
           /\ unit = "folder" => Folder!KeepsDrive
           /\ unit = "keys" => SeenBeforeRelease
<1>1. CASE unit = "exports" /\ Mp4!Next /\ unit' = unit
  BY <1>1, ExportNext, OutcomeIsHonest, CancelIsTaken DEF HostInv
<1>2. CASE unit = "folder" /\ Folder!Next /\ unit' = unit
  BY <1>2, FolderNext, DriveIsKept DEF HostInv
<1>3. CASE unit = "keys" /\ [Next]_vars /\ unit' = unit
  BY <1>3, KeysNext DEF HostInv
<1>31. CASE unit = "recording" /\ Native!Next /\ unit' = unit
  BY <1>31, RecordingNext DEF HostInv
<1>4. CASE UNCHANGED all
  <2>1. UNCHANGED <<unit, vars, work, exportOnly, nativeVars, folderOnly>>
    BY <1>4 DEF all
  <2> QED BY <1>3, <2>1, ExportStays, FolderStays, RecordingStays DEF HostInv
<1> QED BY <1>1, <1>2, <1>3, <1>31, <1>4 DEF HostNext, ComesToRest

\* An export knows what it has come to, a build of a folder what it may trust,
\* a recording what it has stored, and the keyboard what its queue will come to,
\* at every step.
THEOREM Invariance == HostSpec => []HostInv
<1>1. HostInv /\ [HostNext]_all => HostInv'  BY HostSteps
<1> QED BY HostStarts, <1>1, PTL DEF HostSpec

\* The state an export is reported to have ended in is what became of it: there
\* is a file if and only if it succeeded, it is cancelled only if somebody asked
\* for that, and nothing half-written is left (recording_mp4.cpp).
THEOREM OutcomesAreHonest == HostSpec => HonestOutcome
<1>1. HostInv /\ [HostNext]_all => (unit = "exports" => Mp4!HonestOutcome)
  BY HostSteps
<1>2. HostInv /\ [HostNext]_all => [unit = "exports" => Mp4!HonestOutcome]_all
  BY <1>1
<1>3. HostSpec => []HostInv  BY Invariance
<1> QED BY <1>2, <1>3, PTL DEF HostSpec, HonestOutcome

\* An export that was asked to stop does not go on to publish its file, and a
\* mounted drive stays while another snapshot of its folder is built, whether
\* that succeeds or not (recording_mp4.cpp, hostfat_manager.cpp).
THEOREM CancelsAndDrivesAreKept == HostSpec => NothingIsLost
<1>1. HostInv /\ [HostNext]_all =>
          [(unit = "exports" => Mp4!CancelTakes) /\ (unit = "folder" => Folder!KeepsDrive)]_all
  BY HostSteps
<1>2. HostSpec => []HostInv  BY Invariance
<1> QED BY <1>1, <1>2, PTL DEF HostSpec, NothingIsLost

\* Whatever other programs do to the folder during a build, in whatever order,
\* what is mounted is the folder as it was at one instant, and the status tells
\* the truth of it (hostfat_snapshot.cpp, hostfat_manager.cpp).
THEOREM SnapshotsAreTrue == HostSpec => []SnapshotTrue
<1>1. HostInv => SnapshotTrue  BY FolderIsTrue DEF HostInv, SnapshotTrue
<1>2. HostSpec => []HostInv  BY Invariance
<1> QED BY <1>1, <1>2, PTL

\* Whatever comes of it (frames of any length and picture, limits, splits, resets,
\* faults of the queue and the writer, stops and cancels), the files of a recording
\* hold its intervals in order, each from where the one before it ended, in picture
\* and in sound, as long as the clock was not begun again; what is said to be saved
\* is there; and at its end the sound and the picture are given back
\* (recording_native_session.cpp, recording_mux.cpp, sound.c, scrnmng.c).
THEOREM RecordingsAreExact == HostSpec => []RecordedExactly
<1>1. HostInv => RecordedExactly
  BY RecordingIsExact DEF HostInv, RecordedExactly
<1>2. HostSpec => []HostInv  BY Invariance
<1> QED BY <1>1, <1>2, PTL

\* Whatever the user, the front end and the resets do, and in whatever order, no key
\* is stuck and none is lost: the matrix comes to the keys that are held.  And a paste
\* nobody disturbs types its text, with every repeated character and every shift, though
\* the GUI may take the keyboard at any point of it (serial.c, keystat.c, kbdpaste.c).
THEOREM KeysDoArrive == HostSpec => []KeysArrive
<1>1. HostInv => KeysArrive  BY KeysTrue DEF HostInv, KeysArrive
<1>2. HostSpec => []HostInv  BY Invariance
<1> QED BY <1>1, <1>2, PTL

\* A key disappears from the matrix only after a scan has found it there since its last
\* make, unless the queue was given up or a reset emptied it (serial.c, matrix_flush).
THEOREM KeysAreSeen == HostSpec => KeysSeen
<1>1. HostInv /\ [HostNext]_all => [unit = "keys" => SeenBeforeRelease]_all
  BY HostSteps
<1>2. HostSpec => []HostInv  BY Invariance
<1> QED BY <1>1, <1>2, PTL DEF HostSpec, KeysSeen
=============================================================================
