------------------------------- MODULE MCHost -------------------------------
(***************************************************************************)
(* The parts of the front end that keep to themselves, side by side: keys  *)
(* and pastes, the export of recordings, a recording of picture and sound, *)
(* and a folder as a drive.  They share no state, so that their product    *)
(* would only multiply their states; a behaviour here is one of one unit,  *)
(* chosen at the start, and a variable that the unit does not have is Off. *)
(* The variables and constants are those of the modules, by the same       *)
(* names; the exporter and the folder use source and worker in turns, and  *)
(* NativeSession's m and ops are recorder and recorded.                    *)
(***************************************************************************)
EXTENDS Keyboard, Integers

CONSTANTS
    A, B,                                              \* keys
    Sources, Tracks, MaxQueue, MaxJobs,                \* of Mp4Export
    Rate, ClockRate, Frames, Writes, Capacity, Limits, MaxTime, MaxOps, \* of NativeSession
    Root, Dirs, Files, Parent, Gone, MaxChanges, MaxBuilds              \* of HostFat

\* Every folder is below the root, whatever else is true of them; Gone is no
\* file and no image.
FolderRecords == [id : Nat, time : Nat, body : Nat]
FolderImages == [files : UNION {[S -> Seq(Nat)] : S \in SUBSET Files},
                 goal : [Dirs \cup {Root} \cup Files -> FolderRecords \cup {Gone}]]
ASSUME FolderAssumption ==
    /\ Root \notin Dirs \cup Files /\ Dirs \cap Files = {}
    /\ Parent \in [Dirs \cup Files -> Dirs \cup {Root}]
    /\ \A S \in SUBSET (Dirs \cup {Root}) :
          Root \in S /\ (\A d \in Dirs : Parent[d] \in S => d \in S) => Dirs \subseteq S
    /\ Gone \notin FolderRecords \cup FolderImages
    /\ {MaxChanges, MaxBuilds} \subseteq Nat

\* Sound and picture have their rates, and a frame takes its time.
ASSUME RecordingAssumption ==
    /\ {Rate, ClockRate} \cup Frames \subseteq Nat \ {0}
    /\ {Capacity, MaxTime, MaxOps} \cup Writes \cup Limits \subseteq Nat

VARIABLES
    unit,
    queue, stopping, working, cancel, state, job, source, failures, finishing, client,
    offered, worker, track, firstError, error, temp, files, asked, made,
    recorder, recorded,
    changes, builds, manager, image

MCOrder == <<A, B, Shift>>
Char(k, shift) == [key |-> k, shift |-> shift]
MCTexts == {<<Char(A, FALSE), Char(A, FALSE), Char(A, TRUE)>>, <<Char(A, TRUE), Char(A, TRUE)>>}

\* A file in the folder and one in a folder below it.
MCParent == [sub |-> "root", f |-> "root", g |-> "sub"]

Mp4 == INSTANCE Mp4Export
Native == INSTANCE NativeSession WITH m <- recorder, ops <- recorded
Folder == INSTANCE HostFat

exportVars == Mp4!vars
folderVars == Folder!vars
nativeVars == <<recorder, recorded>>
work == <<source, worker>>
exportOnly == <<queue, stopping, working, cancel, state, job, failures, finishing, client,
                offered, track, firstError, error, temp, files, asked, made>>
folderOnly == <<changes, builds, manager, image>>
all == <<unit, vars, work, exportOnly, nativeVars, folderOnly>>

Off == "off"
NoKeys ==
    /\ keys = Off /\ mirror = Off /\ paste = Off /\ seen = Off
    /\ known = Off /\ typed = Off /\ goal = Off /\ used = Off
NoExport ==
    /\ queue = Off /\ stopping = Off /\ working = Off /\ cancel = Off /\ state = Off
    /\ job = Off /\ failures = Off /\ finishing = Off /\ client = Off /\ offered = Off
    /\ track = Off /\ firstError = Off /\ error = Off /\ temp = Off /\ files = Off
    /\ asked = Off /\ made = Off
NoRecording == recorder = Off /\ recorded = Off
NoFolder == changes = Off /\ builds = Off /\ manager = Off /\ image = Off
NoWork == source = Off /\ worker = Off

HostInit ==
    \/ unit = "keys" /\ Init /\ NoExport /\ NoWork /\ NoRecording /\ NoFolder
    \/ unit = "exports" /\ Mp4!Init /\ NoKeys /\ NoRecording /\ NoFolder
    \/ unit = "recording" /\ Native!Init /\ NoKeys /\ NoExport /\ NoWork /\ NoFolder
    \/ unit = "folder" /\ Folder!Init /\ NoKeys /\ NoExport /\ NoRecording

\* A recording may come to the end of its clock, and the program with a folder
\* be left.
ComesToRest == unit \in {"recording", "folder"} /\ UNCHANGED all

HostNext ==
    \/ unit = "keys" /\ Next /\ UNCHANGED <<unit, work, exportOnly, nativeVars, folderOnly>>
    \/ unit = "exports" /\ Mp4!Next /\ UNCHANGED <<unit, vars, nativeVars, folderOnly>>
    \/ unit = "recording" /\ Native!Next /\ UNCHANGED <<unit, vars, work, exportOnly, folderOnly>>
    \/ unit = "folder" /\ Folder!Next /\ UNCHANGED <<unit, vars, exportOnly, nativeVars>>
    \/ ComesToRest

\* The fairness of the units.
HostFairness ==
    /\ WF_vars(unit = "keys" /\ Frame)
    /\ WF_vars(unit = "keys" /\ KeyboardCallback)
    /\ WF_vars(unit = "keys" /\ PasteStep)
    /\ WF_exportVars(unit = "exports" /\ Mp4!Run)
    /\ WF_exportVars(unit = "exports" /\ Mp4!Join)
    /\ \A t \in Tracks : WF_exportVars(unit = "exports" /\ Mp4!TrackStep(t))
    /\ WF_folderVars(unit = "folder" /\ Folder!Work)
    /\ WF_folderVars(unit = "folder" /\ Folder!WorkerDone)
    /\ WF_folderVars(unit = "folder" /\ Folder!Poll)
    /\ WF_folderVars(unit = "folder" /\ Folder!Waits)

HostSpec == HostInit /\ [][HostNext]_all /\ HostFairness

-----------------------------------------------------------------------------
\* What the host's keys and pastes do arrives: the matrix ends up as the keys
\* are held, and a paste types its text (serial.c, kbdpaste.c).
KeysArrive == unit = "keys" => Settles /\ PasteTyped

\* A key is seen by the guest before it is released (serial.c).
KeysSeen == [][unit = "keys" => SeenBeforeRelease]_all

\* A cancel of an export is not lost, nor is the drive while another snapshot
\* is built (recording_mp4.cpp, hostfat_manager.cpp).
NothingIsLost ==
    [][(unit = "exports" => Mp4!CancelTakes) /\ (unit = "folder" => Folder!KeepsDrive)]_all

\* The outcome an export reports is the true one (recording_mp4.cpp).
HonestOutcome == [][unit = "exports" => Mp4!HonestOutcome]_all

\* A recording is its intervals in order, without a gap or an overlap, it is
\* called saved when all of them are kept, and its end, however it comes, gives
\* back what it has taken (recording_native_session.cpp, sound.c, scrnmng.c).
RecordedExactly ==
    unit = "recording" =>
        Native!TypeOK /\ Native!RecordedExactly /\ Native!SavedIsWhole /\ Native!Released

\* What is mounted is the folder as it was at one instant, and the status says
\* what is mounted (hostfat_snapshot.cpp, hostfat_manager.cpp).
SnapshotTrue == unit = "folder" => Folder!TypeOK /\ Folder!Coherent /\ Folder!StatusTrue

\* Nothing waits for ever: pastes end and the matrix settles, what is queued
\* for export is started or dropped, an export and a snapshot end, a shutdown
\* returns (kbdpaste.c, serial.c, recording_mp4.cpp, hostfat_manager.cpp).
ComesToEnd ==
    /\ []<>(unit = "keys" => AtRest)
    /\ \A s \in Sources : []<>(unit = "exports" => Mp4!Dequeued(s))
    /\ []<>(unit = "exports" => Mp4!JobEnded)
    /\ []<>(unit = "exports" => Mp4!Returned)
    /\ []<>(unit = "folder" => Folder!Rest)
=============================================================================
