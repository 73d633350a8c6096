------------------------------- MODULE D88Cache -------------------------------
(***************************************************************************)
(* The D88 images in the floppy drives, fdd/fdd_d88.c: the one-track cache *)
(* that all drives share, its flushing when another track is wanted, when  *)
(* a disk is ejected and when the host saves a state, and the formatting   *)
(* of a track, which builds the new track in the cache's buffer and moves  *)
(* the rest of the file when the track grows.                              *)
(*                                                                         *)
(* A file is a sequence of cells, a cell one sector with its header; the   *)
(* first cell of a track says how many sectors the track has.  Offsets     *)
(* count cells, and the disk's header lies before offset 1.  Each image is *)
(* a file of its own and its tracks are mapped to themselves.  A track is  *)
(* read over what the buffer held; the model keeps no cells beyond it, for *)
(* a search stops at the sectors the track lists.                          *)
(***************************************************************************)
EXTENDS Integers, Sequences

CONSTANTS
    Drives,
    NoDrive,     \* not a drive
    Tracks,      \* 0 .. n
    Present,     \* tracks the images have at the start, in the order of the file
    TrackMax,    \* sectors that fit a track, D88TRACKMAX in bytes
    Outcomes,    \* of opening a file: {TRUE}, or BOOLEAN when it may fail
    MaxChanges   \* bound of the model

VARIABLES
    file,      \* drive -> the cells of its image
    ptr,       \* drive -> track -> offset of the track, 0 if there is none
    inserted,  \* drives whose image is in
    head,      \* drive -> the track under the head
    cache,     \* d88trk
    format,    \* formating, formatsec, formatpos and what the FDC was told
    truth,     \* what the guest has put on each track
    lent,      \* tracks that were in the cache when a format of another drive
               \* took its buffer; truth says no more of them (history)
    changes    \* bound

vars == <<file, ptr, inserted, head, cache, format, truth, lent, changes>>

Sectors == 1..TrackMax
Cell(n, v) == [n |-> n, v |-> v]
Original(d, t) == <<Cell(2, 100 * (d + 1) + 10 * t + 1), Cell(2, 100 * (d + 1) + 10 * t + 2)>>

NoCache == [owner |-> NoDrive, track |-> 0, write |-> FALSE, fptr |-> 1, size |-> 0, buf |-> <<>>]
NoFormat == [on |-> FALSE, drive |-> NoDrive, sec |-> 0, sc |-> 0, pos |-> 0, v |-> 0]

\* fddd88_set: the pointers come from the header of the file.
Init ==
    /\ file = [d \in Drives |-> [i \in 1..(2 * Len(Present)) |->
                Original(d, Present[(i + 1) \div 2])[2 - (i % 2)]]]
    /\ ptr = [d \in Drives |-> [t \in Tracks |->
                IF \E i \in DOMAIN Present : Present[i] = t
                THEN 2 * (CHOOSE i \in DOMAIN Present : Present[i] = t) - 1 ELSE 0]]
    /\ inserted = Drives
    /\ head = [d \in Drives |-> 0]
    /\ cache = NoCache
    /\ format = NoFormat
    /\ truth = [d \in Drives |-> [t \in Tracks |->
                IF ptr[d][t] # 0 THEN Original(d, t) ELSE <<>>]]
    /\ lent = {}
    /\ changes = 0

-----------------------------------------------------------------------------
(***************************************************************************)
(* Files.                                                                  *)
(***************************************************************************)
End(f) == Len(f) + 1

\* nexttrackptr: the first track beyond p, or last.
NextTrack(p, at, last) ==
    LET beyond == {at[t] : t \in Tracks} \cap (p + 1)..(last - 1)
    IN  IF beyond = {} THEN last ELSE CHOOSE x \in beyond : \A y \in beyond : x <= y

\* Cells b written to f from offset p.
Written(f, p, b) ==
    [i \in 1..(IF p + Len(b) > End(f) THEN p + Len(b) - 1 ELSE Len(f)) |->
        IF i >= p /\ i < p + Len(b) THEN b[i - p + 1] ELSE f[i]]

\* fileappend: what lies from p on moves up by n cells.
MovedUp(f, p, n) ==
    IF End(f) <= p THEN f
    ELSE [i \in 1..(Len(f) + n) |-> IF i < p + n /\ i <= Len(f) THEN f[i]
                                    ELSE IF i < p + n THEN Cell(0, 0) ELSE f[i - n]]
MovedPtr(f, at, p, n) ==
    IF End(f) <= p THEN at ELSE [t \in Tracks |-> IF at[t] >= p /\ at[t] # 0 THEN at[t] + n ELSE at[t]]

\* The sectors a track holds, as a search through it finds them.
Listed(cells) ==
    IF cells = <<>> THEN <<>>
    ELSE SubSeq(cells, 1, IF cells[1].n < Len(cells) THEN cells[1].n ELSE Len(cells))
OnFile(f, at, t) ==
    IF at[t] = 0 THEN <<>> ELSE Listed(SubSeq(f, at[t], NextTrack(at[t], at, End(f)) - 1))

-----------------------------------------------------------------------------
(***************************************************************************)
(* The cache.  s is the pair of the cache and the files.                   *)
(***************************************************************************)
Both == [cache |-> cache, file |-> file]

\* d88trk_flushdata: a failure leaves everything as it is.
Flushed(s, ok) ==
    LET c == s.cache
        dirty == c.owner # NoDrive /\ c.size # 0 /\ c.write
    IN  CASE ~dirty -> [s EXCEPT !.cache.owner = NoDrive]
          [] dirty /\ ok -> [s EXCEPT !.file[c.owner] = Written(@, c.fptr, SubSeq(c.buf, 1, c.size)),
                                      !.cache.owner = NoDrive, !.cache.write = FALSE]
          [] OTHER -> s

\* Mutant: a cache that belongs to another drive is dropped with this one's.
DrvFlushMutant(s, d, ok) == [s EXCEPT !.cache.owner = NoDrive]

\* drvflush: before a drive's image goes away or is formatted.
DrvFlush(s, d, ok) ==
    IF s.cache.owner = d THEN [Flushed(s, ok) EXCEPT !.cache.owner = NoDrive] ELSE s

\* The cache with track t of drive d, as its file f has it.
Loaded(d, t, f) ==
    LET p == ptr[d][t]
        size == NextTrack(p, ptr[d], End(f)) - p
    IN  [owner |-> d, track |-> t, write |-> FALSE, fptr |-> p, size |-> size,
         buf |-> SubSeq(f, p, p + size - 1)]

\* Mutant: the track in the cache is not written first.
ReadTrackMutant(s, d, t, ok) ==
    IF ptr[d][t] = 0 THEN [s EXCEPT !.cache.owner = NoDrive]
    ELSE [s EXCEPT !.cache = Loaded(d, t, s.file[d])]

\* d88trk_read: the result of the flush is not looked at.
ReadTrack(s, d, t, ok) ==
    LET f == Flushed(s, ok)
    IN  IF ptr[d][t] = 0 THEN f ELSE [f EXCEPT !.cache = Loaded(d, t, f.file[d])]

\* trkseek
Holds(c, d, t) == c.owner = d /\ c.track = t
TrkSeek(s, d, t, ok) == IF Holds(s.cache, d, t) THEN s ELSE ReadTrack(s, d, t, ok)

Becomes(s) == cache' = s.cache /\ file' = s.file

\* searchsector_d88
Found(c, r) == r <= Len(Listed(c.buf))

-----------------------------------------------------------------------------
(***************************************************************************)
(* The commands of the FDC.  It does one at a time: none while a track is  *)
(* being formatted.                                                        *)
(***************************************************************************)
Ready(d) == d \in inserted /\ ~format.on
Changed == changes < MaxChanges /\ changes' = changes + 1

\* fdd_seek_d88
Seek(d, t, ok) ==
    /\ Ready(d)
    /\ head' = [head EXCEPT ![d] = t]
    /\ Becomes(TrkSeek(Both, d, t, ok))
    /\ UNCHANGED <<ptr, inserted, format, truth, lent, changes>>

\* fdd_read_d88, fdd_readid_d88 and fdd_seeksector_d88: the track is in the
\* cache when the sector is taken from it.
Read(d, ok) ==
    /\ Ready(d) /\ ptr[d][head[d]] # 0
    /\ Becomes(TrkSeek(Both, d, head[d], ok))
    /\ UNCHANGED <<ptr, inserted, head, format, truth, lent, changes>>

\* Mutant: the cache is not marked as changed.
StoredMutant(c, r, v) == [c EXCEPT !.buf[r].v = v]

\* fdd_write_d88
Stored(c, r, v) == [c EXCEPT !.buf[r].v = v, !.write = TRUE]

Write(d, r, ok) ==
    /\ Ready(d) /\ Changed
    /\ LET s == TrkSeek(Both, d, head[d], ok)
       IN  /\ Holds(s.cache, d, head[d]) /\ Found(s.cache, r)
           /\ Becomes([s EXCEPT !.cache = Stored(s.cache, r, changes + 1)])
           /\ truth' = IF <<d, head[d]>> \in lent THEN truth
                       ELSE [truth EXCEPT ![d][head[d]][r].v = changes + 1]
    /\ UNCHANGED <<ptr, inserted, head, format, lent>>

\* fdd_formatinit_d88, for a single image.  Only this drive's track leaves the
\* cache: that of another drive stays, and the format builds over it.
FormatInit(d, sc, ok) ==
    /\ Ready(d) /\ Changed
    /\ format' = [on |-> TRUE, drive |-> d, sec |-> 0, sc |-> sc, pos |-> 0, v |-> changes + 1]
    /\ Becomes(DrvFlush(Both, d, ok))
    /\ UNCHANGED <<ptr, inserted, head, truth, lent>>

\* fdd_formating_d88, up to the last sector: the sectors are put in the
\* cache's buffer, as many as fit.
Put(b, i, v) ==
    [j \in 1..(IF i > Len(b) THEN i ELSE Len(b)) |->
        IF j = i THEN Cell(0, v) ELSE IF j <= Len(b) THEN b[j] ELSE Cell(0, 0)]
Overbuilt == IF cache.owner = NoDrive THEN {} ELSE {<<cache.owner, cache.track>>}
FormatSector ==
    /\ format.on /\ format.sec < format.sc
    /\ LET fits == format.pos < TrackMax
       IN  /\ format' = [format EXCEPT !.sec = @ + 1, !.pos = IF fits THEN @ + 1 ELSE @]
           /\ cache' = IF fits THEN [cache EXCEPT !.buf = Put(@, format.pos + 1, format.v)]
                       ELSE cache
           /\ lent' = IF fits THEN lent \cup Overbuilt ELSE lent
    /\ UNCHANGED <<file, ptr, inserted, head, truth, changes>>

\* Mutant: tracks that begin where the new one ends stay where they are.
GrownMutant(f, at, p, n) ==
    IF End(f) <= p THEN at ELSE [t \in Tracks |-> IF at[t] > p THEN at[t] + n ELSE at[t]]

Grown(f, at, p, n) == MovedPtr(f, at, p, n)

\* endoftrack: where the new track goes, and what moves to make room.
Place(at, t, last) ==
    LET before == {u \in Tracks : u <= t /\ at[u] # 0}
        nearest == CHOOSE u \in before : \A w \in before : w <= u
    IN  CASE at[t] # 0 -> at[t]
          [] at[t] = 0 /\ before # {} -> NextTrack(at[nearest], at, last)
          [] OTHER -> 1

\* The count goes in every sector of the buffer before the file is opened.
BuiltTrack == [i \in 1..format.pos |-> Cell(format.pos, format.v)]
EndOfTrack ==
    /\ format.on /\ format.sec = format.sc
    /\ format' = NoFormat
    /\ cache' = [cache EXCEPT !.buf = BuiltTrack \o SubSeq(@, format.pos + 1, Len(@))]
    /\ LET d == format.drive
           t == head[d]
           n == format.pos
           last == End(file[d])
           p == Place(ptr[d], t, last)
           end == IF ptr[d][t] = 0 THEN p ELSE NextTrack(p, ptr[d], last)
           more == n - (end - p)
           f == IF more > 0 THEN MovedUp(file[d], end, more) ELSE file[d]
           at == IF more > 0 THEN Grown(file[d], ptr[d], end, more) ELSE ptr[d]
       IN  IF d \notin inserted
           THEN UNCHANGED <<file, ptr, truth, lent>>
           ELSE /\ file' = [file EXCEPT ![d] = Written(f, p, BuiltTrack)]
                /\ ptr' = [ptr EXCEPT ![d] = [at EXCEPT ![t] = p]]
                /\ truth' = [truth EXCEPT ![d][t] = BuiltTrack]
                /\ lent' = lent \ {<<d, t>>}
    /\ UNCHANGED <<inserted, head, changes>>

-----------------------------------------------------------------------------
(***************************************************************************)
(* The host.                                                               *)
(***************************************************************************)
\* fddd88_flush, before the state of the machine is saved or loaded.
Flush(ok) ==
    /\ Becomes(Flushed(Both, ok))
    /\ UNCHANGED <<ptr, inserted, head, format, truth, lent, changes>>

\* fddd88_eject
Eject(d, ok) ==
    /\ d \in inserted /\ Changed
    /\ inserted' = inserted \ {d}
    /\ Becomes(DrvFlush(Both, d, ok))
    /\ UNCHANGED <<ptr, head, format, truth, lent>>

\* fddd88_set
Insert(d) ==
    /\ d \notin inserted
    /\ inserted' = inserted \cup {d}
    /\ UNCHANGED <<file, ptr, head, cache, format, truth, lent, changes>>

Next ==
    \/ \E d \in Drives, ok \in Outcomes :
         \/ \E t \in Tracks : Seek(d, t, ok)
         \/ Read(d, ok)
         \/ \E r \in Sectors : Write(d, r, ok)
         \/ \E sc \in 1..(TrackMax + 1) : FormatInit(d, sc, ok)
         \/ Eject(d, ok)
    \/ \E ok \in Outcomes : Flush(ok)
    \/ FormatSector \/ EndOfTrack
    \/ \E d \in Drives : Insert(d)

Spec == Init /\ [][Next]_vars

-----------------------------------------------------------------------------
TypeOK ==
    /\ cache.owner \in Drives \cup {NoDrive} /\ cache.track \in Tracks
    /\ cache.write \in BOOLEAN
    /\ cache.size <= Len(cache.buf) /\ lent \subseteq Drives \X Tracks
    /\ format.pos <= TrackMax /\ format.sec <= format.sc
    /\ \A d \in Drives, t \in Tracks : ptr[d][t] \in 0..Len(file[d])

\* Whatever the guest has put on a disk is on it: a read of any track of any
\* disk that is in finds it, in the cache if the track is there, else in the
\* file.  The one exception is a track another drive's format was built over
\* while the cache held it, and only that track, until it is formatted again:
\* its neighbours on the disk and the other disks keep what was written.
ReadsBack ==
    \A d \in inserted, t \in Tracks : <<d, t>> \notin lent =>
        truth[d][t] = IF Holds(cache, d, t) THEN Listed(cache.buf) ELSE OnFile(file[d], ptr[d], t)

\* A disk that is not in the drive has everything in its file, and so has
\* every disk once nothing waits in the cache; with the same exception.
Complete ==
    \A d \in Drives : (d \notin inserted \/ cache.owner # d \/ ~cache.write) =>
        \A t \in Tracks : <<d, t>> \notin lent => OnFile(file[d], ptr[d], t) = truth[d][t]

=============================================================================
