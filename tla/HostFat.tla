------------------------------ MODULE HostFat -------------------------------
(***************************************************************************)
(* A directory of the host as a read-only FAT drive (io/hostfat.c and      *)
(* sdl2/hostfat_*.cpp).  A thread scans the directory, noting times and    *)
(* identities, then copies its files into an image while another program   *)
(* may be changing them; the main thread polls for the end and swaps the   *)
(* mounted image.  The directory cannot be locked: what the image may be   *)
(* trusted for rests on the notes being compared again before, between and *)
(* after the reads.                                                        *)
(*                                                                         *)
(* The layout of the volume (names, clusters, FAT) and the guest's reads   *)
(* are left out; what an entry is refused for (links, devices, names, a    *)
(* full volume) and errors of the host are Refuse.  Every change gives a   *)
(* file or the directory it is in a new modification time, unless a file   *)
(* is put in another's place: it may bring an old time with it.            *)
(***************************************************************************)
EXTENDS Integers, Sequences, Functions

CONSTANTS
    Root, Dirs, Files, \* a directory, those below it, the files in all of them
    Parent,            \* of every one of Dirs and Files
    Gone,              \* no such file
    MaxChanges,        \* bound: changes by other programs
    MaxBuilds          \* bound: snapshots begun

VARIABLES
    source,            \* the host directory
    changes,           \* of it, so far; also the clock of its file times
    builds,            \* snapshots begun so far
    worker,            \* scan and copy: hostfat_snapshot_build_directory
    manager,           \* ManagerState, and where the main thread is
    image              \* hostfat_state.image, or Gone

vars == <<source, changes, builds, worker, manager, image>>

Entries == Dirs \cup Files
Children(d) == {p \in Entries : Parent[p] = d /\ source[p] # Gone}

---------------------------------------------------------------------------
\* Other programs: a file is written in place, removed, or put where there was
\* none or another one.
Tick == changes < MaxChanges /\ changes' = changes + 1
NewFile(time) == [id |-> changes + 1, time |-> time, body |-> changes + 1]
Put(f, r) == source' = [source EXCEPT ![f] = r, ![Parent[f]].time = changes + 1]

Change ==
    /\ Tick
    /\ \E f \in Files :
          \/ /\ source[f] # Gone
             /\ source' = [source EXCEPT ![f].time = changes + 1, ![f].body = changes + 1]
          \/ source[f] # Gone /\ Put(f, Gone)
          \/ \E time \in {0, changes + 1} : Put(f, NewFile(time))
    /\ UNCHANGED <<builds, worker, manager, image>>

---------------------------------------------------------------------------
\* The build.  The stack holds the directories being scanned or written, each
\* with what readdir returned or what is left to write.
Idle == [pc |-> "idle", ok |-> TRUE, at |-> Root, stack |-> <<>>, notes |-> <<>>,
         data |-> <<>>, copies |-> <<>>, goal |-> <<>>]

Note(p) == [id |-> source[p].id, time |-> source[p].time]
Build == [Idle EXCEPT !.pc = "open", !.notes = [p \in {Root} |-> Note(p)],
                      !.stack = <<[dir |-> Root, todo |-> {}, done |-> {}]>>]

\* The function f, with v for x.
With(f, x, v) == [y \in DOMAIN f \cup {x} |-> IF y = x THEN v ELSE f[y]]

Top == worker.stack[Len(worker.stack)]
Down(d) == Append(worker.stack, [dir |-> d, todo |-> {}, done |-> {}])
At(pc) == worker.pc = pc
Becomes(w) == worker' = w /\ UNCHANGED <<source, changes, builds, manager, image>>
WithTop(frame) == [worker.stack EXCEPT ![Len(worker.stack)] = frame]
Fail == Becomes([Idle EXCEPT !.pc = "ended", !.ok = FALSE])

Refuse == worker.pc \notin {"idle", "ended"} /\ Fail

\* scan_directory: what is there at the opening is returned unless it goes;
\* what comes later may be.
Open ==
    /\ At("open")
    /\ Becomes([worker EXCEPT !.pc = "next",
                              !.stack = WithTop([Top EXCEPT !.todo = Children(Top.dir)])])

CaptureTime ==
    /\ At("next")
    /\ \E p \in Children(Top.dir) \ Top.done :
          Becomes([worker EXCEPT
              !.pc = "identity", !.at = p, !.notes = With(@, p, [id |-> -1, time |-> source[p].time]),
              !.stack = WithTop([Top EXCEPT !.done = @ \cup {p}])])

CaptureIdentity ==
    /\ At("identity")
    /\ IF source[worker.at] = Gone THEN Fail
       ELSE LET noted == [worker EXCEPT !.notes[worker.at].id = source[worker.at].id]
            IN IF worker.at \in Dirs THEN Becomes([noted EXCEPT !.pc = "open", !.stack = Down(worker.at)])
               ELSE Becomes([noted EXCEPT !.pc = "next"])

\* The end of a directory; with that of the root, of the scan.
Scanned ==
    /\ At("next") /\ Children(Top.dir) \cap Top.todo \subseteq Top.done
    /\ IF Len(worker.stack) > 1 THEN Becomes([worker EXCEPT !.stack = SubSeq(@, 1, Len(@) - 1)])
       ELSE Becomes([worker EXCEPT !.pc = "enter", !.goal = source])

\* file_identity_is_unchanged and directory_identity_is_unchanged.
UnchangedMutant(p) == source[p] # Gone /\ source[p].id = worker.notes[p].id
Unchanged(p) == source[p] # Gone /\ Note(p) = worker.notes[p]

\* write_node: a directory is checked before and after its entries.
Found(d) == {p \in DOMAIN worker.notes \ {Root} : Parent[p] = d}
Enter ==
    /\ At("enter")
    /\ IF Unchanged(Top.dir)
         THEN Becomes([worker EXCEPT !.pc = "entry",
                           !.stack = WithTop([Top EXCEPT !.todo = Found(Top.dir)])])
         ELSE Fail
Entry ==
    /\ At("entry") /\ Top.todo # {}
    /\ LET p == CHOOSE q \in Top.todo : TRUE
           left == WithTop([Top EXCEPT !.todo = @ \ {p}])
       IN IF p \in Dirs
            THEN Becomes([worker EXCEPT !.pc = "enter", !.stack =
                              Append(left, [dir |-> p, todo |-> {}, done |-> {}])])
            ELSE Becomes([worker EXCEPT !.pc = "check", !.at = p, !.stack = left])
Leave ==
    /\ At("entry") /\ Top.todo = {}
    /\ IF ~Unchanged(Top.dir) THEN Fail
       ELSE IF Len(worker.stack) > 1 THEN Becomes([worker EXCEPT !.stack = SubSeq(@, 1, Len(@) - 1)])
       ELSE Becomes([worker EXCEPT !.pc = "ended", !.stack = <<>>])

\* write_stable_file: check, copy in parts, check, compare, check.  A file that
\* is replaced while it is open goes on being read as the old one; here as the
\* new one, which is as good: the next check refuses it.
Check(from, to) ==
    /\ At(from)
    /\ IF Unchanged(worker.at) THEN Becomes([worker EXCEPT !.pc = to]) ELSE Fail
Read(from, to) ==
    /\ At(from)
    /\ IF source[worker.at] = Gone THEN Fail
       ELSE Becomes([worker EXCEPT !.pc = to, !.data = Append(@, source[worker.at].body)])
Verify ==
    /\ At("verify")
    /\ IF source[worker.at] # Gone /\ Range(worker.data) = {source[worker.at].body}
         THEN Becomes([worker EXCEPT !.pc = "last"]) ELSE Fail
Copied ==
    /\ At("last")
    /\ IF Unchanged(worker.at)
         THEN Becomes([worker EXCEPT !.pc = "entry", !.data = <<>>,
                                     !.copies = With(@, worker.at, worker.data)])
         ELSE Fail
WriteStableFile ==
    \/ Check("check", "copy") \/ Read("copy", "rest") \/ Read("rest", "again")
    \/ Check("again", "verify") \/ Verify \/ Copied

Work ==
    \/ Refuse \/ Open \/ CaptureTime \/ CaptureIdentity \/ Scanned
    \/ Enter \/ Entry \/ Leave \/ WriteStableFile

---------------------------------------------------------------------------
\* The manager.
Candidate == IF worker.ok THEN [files |-> worker.copies, goal |-> worker.goal] ELSE Gone
Mounts(candidate) ==
    /\ image' = candidate
    /\ manager' = [manager EXCEPT !.main = "run", !.thread = FALSE, !.done = FALSE,
                                  !.candidate = Gone, !.state = "mounted", !.mounted = TRUE]

Begin == builds < MaxBuilds /\ builds' = builds + 1 /\ worker' = Build

\* hostfat_manager_mount_startup, on the main thread; a folder that was only
\* configured does not keep the program from starting.
Startup ==
    /\ manager.main = "new" /\ Begin
    /\ manager' = [manager EXCEPT !.main = "startup"]
    /\ UNCHANGED <<source, changes, image>>
StartWithout ==
    /\ manager.main = "new"
    /\ manager' = [manager EXCEPT !.main = "run"]
    /\ UNCHANGED <<source, changes, builds, worker, image>>
Started ==
    /\ manager.main = "startup" /\ At("ended") /\ worker' = Idle
    /\ IF worker.ok THEN Mounts(Candidate)
       ELSE \E main \in {"run", "gone"} :
               manager' = [manager EXCEPT !.main = main] /\ UNCHANGED image
    /\ UNCHANGED <<source, changes, builds>>

RebuildAsync ==
    /\ manager.main = "run" /\ ~manager.thread
    /\ LET building == [manager EXCEPT !.done = FALSE, !.state = "building",
                                       !.mounted = image # Gone]
       IN \/ Begin /\ manager' = [building EXCEPT !.thread = TRUE]
          \/ manager' = [building EXCEPT !.state = "error"] /\ UNCHANGED <<builds, worker>>
    /\ UNCHANGED <<source, changes, image>>

\* The last lines of build_thread, under the mutex.
WorkerDone ==
    /\ manager.thread /\ At("ended") /\ worker' = Idle
    /\ manager' = [manager EXCEPT !.candidate = Candidate, !.done = TRUE]
    /\ UNCHANGED <<source, changes, builds, image>>

Poll ==
    /\ manager.main = "run" /\ manager.thread /\ manager.done
    /\ IF manager.candidate # Gone THEN Mounts(manager.candidate)
       ELSE /\ manager' = [manager EXCEPT !.thread = FALSE, !.done = FALSE, !.state = "error",
                                          !.mounted = image # Gone]
            /\ UNCHANGED image
    /\ UNCHANGED <<source, changes, builds, worker>>

Unmount ==
    /\ manager.main = "run" /\ ~manager.thread
    /\ image' = Gone /\ manager' = [manager EXCEPT !.state = "unmounted", !.mounted = FALSE]
    /\ UNCHANGED <<source, changes, builds, worker>>

\* hostfat_manager_shutdown waits for the thread.
Shutdown ==
    /\ manager.main \in {"run", "joining"}
    /\ IF manager.thread /\ ~manager.done
         THEN manager.main = "run" /\ manager' = [manager EXCEPT !.main = "joining"] /\ UNCHANGED image
         ELSE /\ image' = Gone
              /\ manager' = [manager EXCEPT !.main = "gone", !.thread = FALSE, !.done = FALSE,
                                 !.candidate = Gone, !.state = "unmounted", !.mounted = FALSE]
    /\ UNCHANGED <<source, changes, builds, worker>>

\* The main thread in hostfat_manager_shutdown.
Waits == manager.main = "joining" /\ Shutdown

Init ==
    /\ source = [p \in Entries \cup {Root} |-> [id |-> 0, time |-> 0, body |-> 0]]
    /\ changes = 0 /\ builds = 0 /\ worker = Idle /\ image = Gone
    /\ manager = [main |-> "new", thread |-> FALSE, done |-> FALSE, candidate |-> Gone,
                  state |-> "unmounted", mounted |-> FALSE]

Next ==
    \/ Change \/ Work \/ Startup \/ StartWithout \/ Started \/ RebuildAsync \/ WorkerDone
    \/ Poll \/ Unmount \/ Shutdown

---------------------------------------------------------------------------
TypeOK ==
    /\ changes \in 0 .. MaxChanges /\ builds \in 0 .. MaxBuilds
    /\ worker.pc \in {"idle", "ended", "open", "next", "identity", "enter", "entry", "check",
                      "copy", "rest", "again", "verify", "last"}
    /\ manager.main \in {"new", "startup", "run", "joining", "gone"}
    /\ manager.state \in {"unmounted", "building", "mounted", "error"}
    /\ \A p \in Entries : source[p] = Gone \/ source[p].time <= changes

\* An image is the directory as it was at one instant, the end of its scan:
\* these files and no others, every one of them whole.
IsSnapshot(x) ==
    /\ DOMAIN x.files = {f \in Files : x.goal[f] # Gone}
    /\ \A f \in DOMAIN x.files : Range(x.files[f]) = {x.goal[f].body}
Coherent == \A x \in {image, manager.candidate} : x # Gone => IsSnapshot(x)

\* The status tells of the drive what is true of it, and no finished build is
\* lost or kept for ever.
StatusTrue ==
    /\ manager.mounted = (image # Gone)
    /\ (manager.state = "building") = manager.thread
    /\ manager.candidate # Gone => manager.thread

\* A build that runs, and one that fails, leaves the drive as it is.
KeepsDrive == manager.thread /\ manager.main = "run" /\ manager'.main = "run" /\ image # Gone => image' # Gone

\* The build and the main loop's poll.
Rest == ~manager.thread /\ manager.main # "joining"
=============================================================================
