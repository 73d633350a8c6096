----------------------------- MODULE Mp4Export ------------------------------
(***************************************************************************)
(* The MP4 exporter of sdl2/recording/recording_mp4.cpp: the front end     *)
(* queues finished recordings, one worker converts them, and a file        *)
(* appears under its name only as a whole, by a link that replaces         *)
(* nothing.  A sink that needs its tracks fed independently (AVAssetWriter)*)
(* gets a second thread for the audio; the first track that fails stops    *)
(* the other through the flag that cancel() uses too.                      *)
(*                                                                         *)
(* Critical sections of mutex_ and error_mutex are single steps.  The      *)
(* front end is one thread.  Decoding and encoding are a step that ends,   *)
(* fails, or finds cancel_ set.                                            *)
(***************************************************************************)
EXTENDS Naturals, Sequences, FiniteSets

CONSTANTS
    Sources,   \* recordings
    Tracks,    \* threads of a conversion: the worker alone, or one more
    MaxQueue,  \* 4 in the code
    MaxJobs    \* bound of the model: jobs started

VARIABLES
    queue, stopping, working, cancel, \* queue_, stopping_, working_, cancel_
    state, job, source, failures,     \* status_: state, job_id, source, failure_id
    finishing,                        \* status_.finishing
    client,    \* front end: "idle", "join" in shutdown
    offered,   \* the status it read last had a job that runs or waits, so that
               \*   it shows the button that cancels
    worker,    \* where run is: "none" before the thread starts, "wait", "asleep" in
               \*   wake_.wait, "open", "sink", "tracks", "finish", "seal",
               \*   "publish", "unwind", "report", "exit", or "joined"
    track,     \* [Tracks -> "idle", "run" or "done"]
    firstError,\* first_error, of the track threads
    error,     \* the exception that convert ends with, "" if none
    temp,      \* the directory of TempDirectory exists
    files,     \* what is found under the target name of each recording:
               \*   "none", "mp4" or "other"
    asked,     \* history: cancel or shutdown was called during this job
    made       \* history: this job published its file

jobVars == <<state, job, source, failures, finishing>>
convertVars == <<track, firstError, error, temp>>
vars == <<queue, stopping, working, cancel, jobVars, client, offered, worker, convertVars,
          files, asked, made>>

NoError == ""
Cancelled == "MP4_CANCELLED"
Broken == "failed"          \* any other exception

Init ==
    /\ queue = <<>> /\ stopping = FALSE /\ working = FALSE /\ cancel = FALSE
    /\ state = "IDLE" /\ job = 0 /\ source = "" /\ failures = 0 /\ finishing = FALSE
    /\ client = "idle" /\ offered = FALSE /\ worker = "none"
    /\ track = [t \in Tracks |-> "idle"] /\ firstError = NoError /\ error = NoError
    /\ temp = FALSE /\ files \in [Sources -> {"none", "other"}]
    /\ asked = FALSE /\ made = FALSE

Queued == {queue[i] : i \in 1..Len(queue)}

-----------------------------------------------------------------------------
(***************************************************************************)
(* The front end.                                                          *)
(***************************************************************************)
\* Mutant: the worker is not told.
NotifiedMutant(w) == w

\* wake_.notify_one, notify_all: there is one worker.
Notified(w) == IF w = "asleep" THEN "wait" ELSE w

Full == Len(queue) >= MaxQueue

\* enqueue.  What is refused only leaves a notice.
Enqueue(s) ==
    /\ client = "idle" /\ job + Len(queue) < MaxJobs
    /\ ~stopping /\ ~Full
    /\ ~(working /\ source = s) /\ s \notin Queued
    /\ queue' = Append(queue, s)
    /\ worker' = IF worker = "none" THEN "wait" ELSE Notified(worker)
    /\ UNCHANGED <<stopping, working, cancel, jobVars, client, offered, convertVars, files, asked, made>>

\* get, once a frame.
Get ==
    /\ client = "idle"
    /\ offered' = (state = "RUNNING" \/ queue # <<>>)
    /\ UNCHANGED <<queue, stopping, working, cancel, jobVars, client, worker, convertVars,
                   files, asked, made>>

Cancel ==
    /\ client = "idle" /\ offered
    /\ queue' = <<>> /\ cancel' = TRUE /\ asked' = TRUE
    /\ state' = IF working THEN state ELSE "CANCELLED"
    /\ UNCHANGED <<stopping, working, job, source, failures, finishing, client, offered,
                   worker, convertVars, files, made>>

Shutdown ==
    /\ client = "idle"
    /\ stopping' = TRUE /\ cancel' = TRUE /\ queue' = <<>> /\ asked' = TRUE
    /\ worker' = Notified(worker)
    /\ client' = "join"
    /\ UNCHANGED <<working, jobVars, offered, convertVars, files, made>>

Join ==
    /\ client = "join" /\ worker \in {"none", "exit", "joined"}
    /\ client' = "idle"
    /\ worker' = IF worker = "exit" THEN "joined" ELSE worker
    /\ UNCHANGED <<queue, stopping, working, cancel, jobVars, offered, convertVars, files, asked, made>>

\* Another program, or the user, makes or removes the target.
Foreign(s) ==
    /\ files' = [files EXCEPT ![s] = IF @ = "none" THEN "other" ELSE "none"]
    /\ UNCHANGED <<queue, stopping, working, cancel, jobVars, client, offered, worker,
                   convertVars, asked, made>>

-----------------------------------------------------------------------------
(***************************************************************************)
(* The worker: run.                                                        *)
(***************************************************************************)
\* A cancel of the last job does not go on to the next one.
Fresh == cancel' = FALSE

Start ==
    /\ queue # <<>>
    /\ queue' = Tail(queue) /\ source' = Head(queue)
    /\ working' = TRUE /\ Fresh
    /\ state' = "RUNNING" /\ job' = job + 1 /\ finishing' = FALSE
    /\ worker' = "open"
    /\ asked' = FALSE /\ made' = FALSE
    /\ UNCHANGED <<stopping, failures, client, offered, convertVars, files>>

Quit ==
    /\ worker' = "exit"
    /\ UNCHANGED <<queue, stopping, working, cancel, jobVars, client, offered, convertVars, files,
                   asked, made>>

Sleep ==
    /\ worker' = "asleep"
    /\ UNCHANGED <<queue, stopping, working, cancel, jobVars, client, offered, convertVars, files,
                   asked, made>>

Wait ==
    /\ worker = "wait"
    /\ \/ stopping /\ Quit
       \/ ~stopping /\ Start
       \/ ~stopping /\ queue = <<>> /\ Sleep

Spurious ==
    /\ worker = "asleep" /\ worker' = "wait"
    /\ UNCHANGED <<queue, stopping, working, cancel, jobVars, client, offered, convertVars, files,
                   asked, made>>

\* After convert ended: the outcome.
Outcome(e) ==
    IF e = NoError THEN "SUCCEEDED" ELSE IF e = Cancelled THEN "CANCELLED" ELSE "FAILED"

Report ==
    /\ worker = "report" /\ worker' = "wait"
    /\ working' = FALSE
    /\ state' = Outcome(error)
    /\ failures' = failures + (IF Outcome(error) = "FAILED" THEN 1 ELSE 0)
    /\ error' = NoError
    /\ UNCHANGED <<queue, stopping, cancel, job, source, finishing, client, offered, track,
                   firstError, temp, files, asked, made>>

-----------------------------------------------------------------------------
(***************************************************************************)
(* The conversion: convert.                                                *)
(***************************************************************************)
\* convert goes on at w, or ends with the exception e.
GoesOn(w) == worker' = w /\ UNCHANGED error
Throws(e) == worker' = "unwind" /\ error' = e

outside == <<queue, stopping, working, state, job, source, failures, client, offered, asked>>

\* The input is opened; a target that exists ends the job here.
Open ==
    /\ worker = "open"
    /\ \/ files[source] = "none" /\ GoesOn("sink")
       \/ Throws(Broken)
    /\ UNCHANGED <<outside, cancel, finishing, track, firstError, temp, files, made>>

\* The temporary directory, then the sink in it; cancel_ is looked at between.
OpenSink ==
    /\ worker = "sink" /\ temp' \in BOOLEAN
    /\ \/ /\ temp' /\ ~cancel
          /\ GoesOn("tracks")
          /\ track' = [t \in Tracks |-> "run"]
       \/ temp' /\ cancel /\ Throws(Cancelled) /\ UNCHANGED track
       \/ Throws(Broken) /\ UNCHANGED track
    /\ firstError' = NoError
    /\ UNCHANGED <<outside, cancel, finishing, files, made>>

\* Mutant: the last exception counts.
KeepMutant(e) == e

\* With two threads the first exception is kept; a single one just throws it.
Keep(e) == IF firstError = NoError THEN e ELSE firstError

\* The exception e ends the track; the other one finds cancel_ set.
TrackThrows(t, e) ==
    /\ worker = "tracks" /\ track[t] = "run"
    /\ track' = [track EXCEPT ![t] = "done"]
    /\ firstError' = Keep(e)
    /\ cancel' = (cancel \/ Cardinality(Tracks) > 1)
    /\ UNCHANGED <<outside, finishing, worker, error, temp, files, made>>

TrackEnds(t) ==
    /\ worker = "tracks" /\ track[t] = "run"
    /\ track' = [track EXCEPT ![t] = "done"]
    /\ UNCHANGED <<outside, cancel, finishing, worker, firstError, error, temp, files, made>>

TrackStep(t) ==
    \/ TrackEnds(t)
    \/ TrackThrows(t, Broken)
    \/ cancel /\ TrackThrows(t, Cancelled)

\* All threads are joined; an empty track fails; cancel_ is looked at again.
JoinTracks ==
    /\ worker = "tracks" /\ \A t \in Tracks : track[t] = "done"
    /\ \/ firstError # NoError /\ Throws(firstError) /\ UNCHANGED finishing
       \/ firstError = NoError /\ Throws(Broken) /\ UNCHANGED finishing
       \/ firstError = NoError /\ cancel /\ Throws(Cancelled) /\ UNCHANGED finishing
       \/ firstError = NoError /\ ~cancel /\ GoesOn("finish") /\ finishing' = TRUE
    /\ UNCHANGED <<outside, cancel, track, firstError, temp, files, made>>

\* The sink closes the file; a native one gives up when cancel_ is set.
Finish ==
    /\ worker = "finish"
    /\ \/ GoesOn("seal")
       \/ Throws(Broken)
       \/ cancel /\ Throws(Cancelled)
    /\ UNCHANGED <<outside, cancel, finishing, track, firstError, temp, files, made>>

\* Mutant: nothing is looked at any more once the sink has closed the file.
SealedMutant == GoesOn("publish")

\* The last look at cancel_.
Sealed == IF cancel THEN Throws(Cancelled) ELSE GoesOn("publish")

Seal ==
    /\ worker = "seal" /\ Sealed
    /\ UNCHANGED <<outside, cancel, finishing, track, firstError, temp, files, made>>

\* A hard link, which replaces nothing.
Publish ==
    /\ worker = "publish"
    /\ \/ /\ files[source] = "none"
          /\ files' = [files EXCEPT ![source] = "mp4"]
          /\ made' = TRUE
          /\ worker' = "unwind" /\ UNCHANGED error
       \/ Throws(Broken) /\ UNCHANGED <<files, made>>
    /\ UNCHANGED <<outside, cancel, finishing, track, firstError, temp>>

\* The sink is destroyed, then the temporary directory.
Unwind ==
    /\ worker = "unwind" /\ worker' = "report"
    /\ temp' = FALSE
    /\ UNCHANGED <<outside, cancel, finishing, track, firstError, error, files, made>>

-----------------------------------------------------------------------------
Convert ==
    \/ Open \/ OpenSink \/ JoinTracks \/ Finish \/ Seal \/ Publish \/ Unwind
    \/ \E t \in Tracks : TrackStep(t)

Run == Wait \/ Convert \/ Report

Client == \E s \in Sources : Enqueue(s) \/ Foreign(s)

Next == Client \/ Get \/ Cancel \/ Shutdown \/ Join \/ Spurious \/ Run

Spec == Init /\ [][Next]_vars

\* The threads run; every sink call returns (those that wait have a deadline
\* and look at cancel_).
FairSpec == Spec /\ WF_vars(Run) /\ WF_vars(Join) /\ \A t \in Tracks : WF_vars(TrackStep(t))

-----------------------------------------------------------------------------
TypeOK ==
    /\ queue \in Seq(Sources) /\ Len(queue) <= MaxQueue
    /\ {stopping, working, cancel, offered, finishing, temp, asked, made} \subseteq BOOLEAN
    /\ state \in {"IDLE", "RUNNING", "SUCCEEDED", "FAILED", "CANCELLED"}
    /\ job \in 0..MaxJobs /\ failures \in 0..MaxJobs /\ source \in Sources \cup {""}
    /\ client \in {"idle", "join"}
    /\ worker \in {"none", "wait", "asleep", "open", "sink", "tracks", "finish", "seal",
                   "publish", "unwind", "report", "exit", "joined"}
    /\ track \in [Tracks -> {"idle", "run", "done"}]
    /\ {firstError, error} \subseteq {NoError, Cancelled, Broken}
    /\ files \in [Sources -> {"none", "mp4", "other"}]

\* The outcome that is reported is the true one: a job succeeded exactly if it
\* published its file, it is called cancelled only if somebody asked for that,
\* not because one track made the other give up, and no temporary directory is
\* left behind.  A property of steps, as the next one is.
HonestOutcome ==
    working /\ ~working' =>
        /\ made <=> state' = "SUCCEEDED"
        /\ state' = "CANCELLED" => asked
        /\ state' # "RUNNING" /\ ~temp

\* A cancel is not lost: until the file is closed whoever cancels gets no file,
\* whatever the tracks and the start of the job do to cancel_ meanwhile.
CancelTakes == worker # "publish" /\ worker' = "publish" => ~asked

\* What comes again and again: what is queued is started or dropped by a
\* cancel, a job ends, shutdown returns.
Dequeued(s) == s \notin Queued
JobEnded == ~working
Returned == client = "idle"
=============================================================================
