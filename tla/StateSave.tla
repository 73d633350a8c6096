------------------------------ MODULE StateSave ------------------------------
(***************************************************************************)
(* Save states, machine/statsave.c, and the quick saves built on them,     *)
(* sdl2/gui/gui.cpp: a ring of quick saves, quickundo.sav with the machine *)
(* before the last quick load, and quickundo-held.sav while that load is   *)
(* being undone.                                                           *)
(*                                                                         *)
(* The machine is an identity, its pending scheduler events, which a state *)
(* stores as identifiers from two tables, and what the guest believes is   *)
(* on the disk, whose image stays outside the state and is bound to it by  *)
(* its hash.  The steps are the file operations; the process may die       *)
(* between any two of them.  Thumbnails and manual slots are left out.     *)
(***************************************************************************)
EXTENDS Integers, Sequences

CONSTANTS
    Slots,       \* size of the ring, kQuickSlots
    Queues,      \* machine identity -> its pending events, <<number, handler>>
    MaxId,       \* bound: machine identities
    MaxTasks,    \* bound: saves, loads and undos
    MaxCrashes   \* bound: times the process dies

VARIABLES
    machine,   \* the live machine, or Broken after a load that failed half-way
    disk,      \* the image file, and the version the drive's cache holds
    files,     \* file name -> state, or NoState
    temp,      \* the temporary file of the save under way
    task,      \* what the user asked for and how far it got
    ring,      \* history: the quick saves reported done, newest first
    owed,      \* history: machines the undo files have to bring back
    used       \* bounds: next identity, tasks, crashes

vars == <<machine, disk, files, temp, task, ring, owed, used>>

NoState == [id |-> -2]
Broken == [id |-> -1, events |-> <<>>, disk |-> 0]
Undo == -1                  \* quickundo.sav
Held == -2                  \* quickundo-held.sav
Fresh == 0                  \* quick-new.sav; quick1.sav ... are 1..Slots
Names == Held..Slots
Idle == [op |-> "none", step |-> "none", k |-> 0]

\* The handlers and the event numbers a state can name, machine/statsave.tbl.
EvtProc == {"systimer", "beeponeshot", "rs232ctimer", "mouseint", "keyboard_callback",
            "picmask", "fdbiosout", "fdc_intwait", "midiwaitout", "midiint", "fmport_a",
            "fmport_b", "sasiioint", "scsiioint", "scsiio_watchdog_event", "screendispva",
            "screenvsyncva", "sysp4vsyncstart", "sysp4vsyncend", "sysp4vsyncint",
            "fdc_statewatch", "pic8214_timer2", "cmt_event"}
EvtNum == <<<<"main", "FLAMES">>, <<"pit ", "ITIMER">>, <<"beep", "BEEP">>,
            <<"r232", "RS232C">>, <<"fm-a", "FMTIMERA">>, <<"fm-b", "FMTIMERB">>,
            <<"mous", "MOUSE">>, <<"mous", "KEYBOARD">>, <<"midw", "MIDIWAIT">>,
            <<"midi", "MIDIINT">>, <<"picm", "PICMASK">>, <<"fdbb", "FDBIOSBUSY">>,
            <<"fdci", "FDCINT">>, <<"sasi", "SASIIO">>, <<"scsi", "SCSIIO">>,
            <<"scsw", "SCSIWATCHDOG">>, <<"fstw", "FDCSTATE">>, <<"gtm2", "GENTIMER2">>,
            <<"cmt ", "CMT">>, <<"flm2", "FLAMES2">>>>

-----------------------------------------------------------------------------
\* nevent_write: the first row with the number gives the identifier.
EventWrite(e) ==
    LET rows == {i \in DOMAIN EvtNum : EvtNum[i][2] = e[1]}
    IN  [id   |-> IF rows = {} THEN "none" ELSE EvtNum[CHOOSE i \in rows : \A j \in rows : i <= j][1],
         proc |-> IF e[2] \in EvtProc THEN e[2] ELSE "null"]

\* nevent_read: the first row with the identifier gives the number.  The
\* handler goes to that number's item; the list of pending events gets the
\* number only if the handler is known.
EventRead(acc, e) ==
    LET rows == {i \in DOMAIN EvtNum : EvtNum[i][1] = e.id}
        num  == EvtNum[CHOOSE i \in rows : \A j \in rows : i <= j][2]
    IN  IF rows = {} THEN [acc EXCEPT !.warn = TRUE]
        ELSE IF e.proc \in EvtProc
             THEN [acc EXCEPT !.item[num] = e.proc, !.level = Append(@, num)]
             ELSE [acc EXCEPT !.item[num] = "null", !.warn = TRUE]

Numbers == {EvtNum[i][2] : i \in DOMAIN EvtNum}

\* flagload_evt: every number of the list runs what its item says at the end.
EventsRead(list) ==
    LET read[n \in 0..Len(list)] ==
            IF n = 0 THEN [level |-> <<>>, item |-> [m \in Numbers |-> "null"], warn |-> FALSE]
            ELSE EventRead(read[n - 1], list[n])
        end == read[Len(list)]
    IN  [warn |-> end.warn,
         events |-> [i \in DOMAIN end.level |-> <<end.level[i], end.item[end.level[i]]>>]]

\* The sections of a state: the machine with its guest's memory, the events
\* as identifiers, and the disk by what its image file holds.
Snapshot(m, image) ==
    [id |-> m.id, disk |-> m.disk, image |-> image,
     events |-> [i \in DOMAIN m.events |-> EventWrite(m.events[i])], was |-> m]

Init == /\ machine = [id |-> 0, events |-> Queues[0], disk |-> 0]
        /\ disk = [image |-> 0, cache |-> 0]
        /\ files = [n \in Names |-> NoState] /\ temp = NoState /\ task = Idle
        /\ ring = <<>> /\ owed = {} /\ used = [id |-> 1, tasks |-> 0, crashes |-> 0]

Goto(step) == task' = [task EXCEPT !.step = step]
Done == task' = Idle
Exists(n) == files[n] # NoState
\* The history keeps what the ring has room for.
Recent(f) == SubSeq(<<f>> \o ring, 1, IF Len(ring) < Slots THEN Len(ring) + 1 ELSE Slots)
Failed == IF task.op = "undo" THEN Goto("unhold") ELSE Done

-----------------------------------------------------------------------------
\* The guest runs for a while, and may have written to its disk: the data is
\* in the drive's track cache.
Run(writes) ==
    /\ task = Idle /\ machine # Broken /\ used.id <= MaxId
    /\ used' = [used EXCEPT !.id = @ + 1]
    /\ disk' = IF writes THEN [disk EXCEPT !.cache = used.id] ELSE disk
    /\ machine' = [id |-> used.id, events |-> Queues[used.id],
                   disk |-> IF writes THEN used.id ELSE machine.disk]
    /\ UNCHANGED <<files, temp, task, ring, owed>>

Another == used.tasks < MaxTasks /\ used' = [used EXCEPT !.tasks = @ + 1]

\* quick_save, quick_load: the load wants the file to be there.
QuickSave ==
    /\ task = Idle /\ Another /\ task' = [op |-> "save", step |-> "write", k |-> 0]
    /\ UNCHANGED <<machine, disk, files, temp, ring, owed>>

QuickLoad(k) ==
    /\ task = Idle /\ Another /\ Exists(k) /\ task' = [op |-> "load", step |-> "write", k |-> k]
    /\ UNCHANGED <<machine, disk, files, temp, ring, owed>>

\* quick_undo: the state to return to is set aside before this machine is
\* saved over it; nothing happens while an earlier one is still held.
QuickUndo ==
    /\ task = Idle /\ Another /\ Exists(Undo) /\ ~Exists(Held)
    /\ task' = [op |-> "undo", step |-> "write", k |-> Held]
    /\ files' = [files EXCEPT ![Held] = files[Undo], ![Undo] = NoState]
    /\ UNCHANGED <<machine, disk, temp, ring, owed>>

Dest == IF task.op = "save" THEN Fresh ELSE Undo

\* fdd_flush of the disk section, in a save and in a check.
Flushed(d) == [d EXCEPT !.image = d.cache]

\* statsave_save_checked up to its close: the sections go to a temporary file,
\* those of the disks after the drives are flushed.
SaveWrite ==
    /\ task.step = "write"
    /\ \/ disk' = Flushed(disk) /\ temp' = Snapshot(machine, disk'.image) /\ Goto("commit")
       \/ disk' = Flushed(disk) /\ temp' = NoState /\ Failed
       \/ disk' = disk /\ temp' = NoState /\ Failed
    /\ UNCHANGED <<machine, files, ring, owed, used>>

\* What the undo files have to bring back once the new undo file is there.
OwedAfter == {o \in owed : task.op = "undo" \/ (Exists(Held) /\ files[Held].was = o)}
             \cup ({machine} \ {Broken})

\* Mutant: the save goes to the file itself, and a failure deletes it.
SaveCommitMutant ==
    /\ task.step = "commit"
    /\ \/ /\ files' = [files EXCEPT ![Dest] = temp]
          /\ IF task.op = "save"
             THEN task' = [task EXCEPT !.step = "remove", !.k = Slots - 1] /\ UNCHANGED owed
             ELSE Goto("check") /\ owed' = OwedAfter
       \/ files' = [files EXCEPT ![Dest] = NoState] /\ Failed /\ UNCHANGED owed
    /\ temp' = NoState /\ UNCHANGED <<machine, disk, ring, used>>

\* ... and its rename, which replaces the file at once or leaves it.
SaveCommit ==
    /\ task.step = "commit"
    /\ \/ /\ files' = [files EXCEPT ![Dest] = temp]
          /\ IF task.op = "save"
             THEN task' = [task EXCEPT !.step = "remove", !.k = Slots - 1] /\ UNCHANGED owed
             ELSE Goto("check") /\ owed' = OwedAfter
       \/ UNCHANGED <<files, owed>> /\ Failed
    /\ temp' = NoState /\ UNCHANGED <<machine, disk, ring, used>>

\* quick_undo when its save failed: the state set aside goes back, if it can.
Unhold ==
    /\ task.step = "unhold" /\ Done
    /\ \/ files' = [files EXCEPT ![Undo] = files[Held], ![Held] = NoState]
       \/ UNCHANGED files
    /\ UNCHANGED <<machine, disk, temp, ring, owed, used>>

-----------------------------------------------------------------------------
\* quick_rotate, quick_rename: from the oldest on, remove the place of k + 1
\* and move k there; last the new file becomes quick1.
RotateRemove ==
    /\ task.step = "remove" /\ Goto("move")
    /\ files' = [files EXCEPT ![task.k + 1] = NoState]
    /\ UNCHANGED <<machine, disk, temp, ring, owed, used>>

\* Mutant: the ring turns from the newest on.
RotateMoveMutant ==
    LET k == Slots - 1 - task.k
    IN  /\ task.step = "move"
        /\ files' = IF Exists(k) THEN [files EXCEPT ![k + 1] = files[k], ![k] = NoState] ELSE files
        /\ IF task.k = 0 THEN Done /\ ring' = Recent(files'[1])
                         ELSE task' = [task EXCEPT !.step = "remove", !.k = @ - 1] /\ UNCHANGED ring
        /\ UNCHANGED <<machine, disk, temp, owed, used>>

RotateMove ==
    LET k == task.k
    IN  /\ task.step = "move"
        /\ files' = IF Exists(k) THEN [files EXCEPT ![k + 1] = files[k], ![k] = NoState] ELSE files
        /\ IF k = 0 THEN Done /\ ring' = Recent(files'[1])
                    ELSE task' = [task EXCEPT !.step = "remove", !.k = @ - 1] /\ UNCHANGED ring
        /\ UNCHANGED <<machine, disk, temp, owed, used>>

-----------------------------------------------------------------------------
\* Mutant: any image file with the name will do.
CheckMutant ==
    /\ task.step = "check"
    /\ \/ disk' = Flushed(disk) /\ Goto("load")
       \/ disk' = disk /\ Done
    /\ UNCHANGED <<machine, files, temp, ring, owed, used>>

\* statsave_check: the drives are flushed and the image must hash to what the
\* state recorded; of the events only the version of the section is looked at.
Check ==
    /\ task.step = "check"
    /\ \/ disk' = Flushed(disk) /\ (IF files[task.k].image = disk'.image THEN Goto("load") ELSE Done)
       \/ disk' = disk /\ Done
    /\ UNCHANGED <<machine, files, temp, ring, owed, used>>

\* statsave_load_internal past its check: the machine is reset and overwritten
\* section by section.  A failed read, or an event nobody knows, is reported
\* when that has happened.
Load ==
    /\ task.step = "load"
    /\ LET f == files[task.k]
           r == EventsRead(f.events)
       IN  \/ /\ ~r.warn /\ machine' = [id |-> f.id, events |-> r.events, disk |-> f.disk]
              /\ disk' = [disk EXCEPT !.cache = disk.image]
              /\ owed' = IF task.op = "undo" THEN owed \ {f.was} ELSE owed
              /\ IF task.op = "undo" THEN Goto("drop") ELSE Done
           \/ /\ machine' = Broken /\ disk' = [disk EXCEPT !.cache = disk.image]
              /\ Done /\ UNCHANGED owed
    /\ UNCHANGED <<files, temp, ring, used>>

\* quick_undo: the machine it held is live again.
Drop ==
    /\ task.step = "drop" /\ Done
    /\ files' = [files EXCEPT ![Held] = NoState]
    /\ UNCHANGED <<machine, disk, temp, ring, owed, used>>

\* The process dies and is started again: files stay, the cache does not.
Crash ==
    /\ used.crashes < MaxCrashes
    /\ used' = [used EXCEPT !.crashes = @ + 1]
    /\ machine' = [id |-> 0, events |-> Queues[0], disk |-> disk.image]
    /\ disk' = [disk EXCEPT !.cache = disk.image]
    /\ temp' = NoState /\ Done
    /\ UNCHANGED <<files, ring, owed>>

Next == \/ Run(TRUE) \/ Run(FALSE) \/ QuickSave \/ QuickUndo
        \/ \E k \in 1..Slots : QuickLoad(k)
        \/ SaveWrite \/ SaveCommit \/ Unhold \/ RotateRemove \/ RotateMove
        \/ Check \/ Load \/ Drop \/ Crash

Spec == Init /\ [][Next]_vars

-----------------------------------------------------------------------------
TypeOK ==
    /\ machine.id \in -1..MaxId /\ disk \in [image : 0..MaxId, cache : 0..MaxId]
    /\ DOMAIN files = Names /\ \A n \in Names : files[n].id \in -2..MaxId
    /\ task.op \in {"none", "save", "load", "undo"} /\ task.k \in Held..Slots
    /\ task.step \in {"none", "write", "commit", "check", "load", "unhold", "remove", "move", "drop"}
    /\ used \in [id : 0..MaxId + 1, tasks : 0..MaxTasks, crashes : 0..MaxCrashes]

\* The events are those of a machine, in their places: all of them if none is
\* the keyboard's.  That comes back as the mouse's, whose identifier its row has,
\* and the mouse's beside it may get its handler (UndoRestores).
AsPending(events, id) ==
    LET q == Queues[id]
        keys == \E i \in DOMAIN q : q[i][1] = "KEYBOARD"
    IN  /\ Len(events) = Len(q)
        /\ \A i \in DOMAIN q :
              ~(keys /\ q[i][1] \in {"KEYBOARD", "MOUSE"}) => events[i] = q[i]

\* A machine that is taken for state n has all of it: the events that were
\* pending when n was live, but for a keyboard's and a mouse's beside it, and
\* a disk drive that returns what n's guest believes is on the disk.
RestoredExactly ==
    machine # Broken => /\ AsPending(machine.events, machine.id)
                        /\ machine.disk = disk.cache

\* "A failed save leaves the five as they were": when no save is rotating
\* them, the files of the ring are the last saves reported done, newest
\* first.  In a rotation, and for each death in the middle of one, the
\* oldest is missing and no other.
RingKept ==
    /\ used.crashes = 0 /\ task.step \notin {"remove", "move"} =>
        \A i \in 1..Slots : files[i] = IF i <= Len(ring) THEN ring[i] ELSE NoState
    /\ \A i \in 1..(Slots - 1 - used.crashes) : i <= Len(ring) =>
        \E n \in Fresh..Slots : files[n] = ring[i]

\* The machine a quick load or an undo replaced can be brought back until the
\* next quick load, through every failed save, failed load and crash: one of
\* the undo files holds it, and its events are read back without a warning
\* and as they were, with the exception AsPending makes.
UndoKept ==
    \A o \in owed : \E n \in {Undo, Held} :
        /\ Exists(n) /\ files[n].was = o
        /\ ~EventsRead(files[n].events).warn
        /\ AsPending(EventsRead(files[n].events).events, o.id)

\* The same without the exception: reading one of the undo files gives back
\* exactly the machine that was replaced.
UndoRestores ==
    \A o \in owed : \E n \in {Undo, Held} :
        /\ Exists(n) /\ files[n].was = o
        /\ EventsRead(files[n].events) = [warn |-> FALSE, events |-> o.events]
=============================================================================
