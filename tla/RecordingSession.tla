-------------------------- MODULE RecordingSession --------------------------
(***************************************************************************)
(* RecordingSession and SliceWorker of sdl2/recording/recording_queue.cpp: *)
(* one client thread (the frame loop, through                              *)
(* recording_native_session.cpp) prepares, arms, submits, stops, cancels   *)
(* and acknowledges; one worker thread per armed session takes slices from *)
(* a RecordingQueue and writes them to the sink.                           *)
(***************************************************************************)
EXTENDS Naturals, Sequences

CONSTANTS
    client, worker,
    MaxSlices, Room, Sizes, Misfits, MaxSequence,
    MaxRuns      \* bound: sessions prepared one after another

\* Two threads; what may be wrong with a slice is none of the queue's answers
\* about itself.
ASSUME SessionAssumption ==
    /\ client # worker
    /\ MaxSequence \in Nat
    /\ Misfits \cap {"none", "Failed"} = {}

VARIABLES
    queue, queuedBytes, highWater, admitted, popped, nextSequence,
    closed, canceled, failure, dataWait, spaceWait, pc, slice, result,
    queueUp,     \* queue_ is not null
    session,     \* state_, and "Gone" once the session is destroyed
    lastError,   \* last_error_
    accepted,    \* accepted_slices_
    runs,        \* how many times prepare was called
    call,        \* where the client is: "idle", "submit", "finish", "wake",
                 \*   "join"; "drop", "dropWake", "dropJoin"
    goal,        \* what ends the call: an error of finish_worker or a state
    wpc,         \* the worker: "none", "run", "write", "count", "finish",
                 \*   "drop", "abort", "wake", "exit", "joined"
    wresult,     \* SliceWorker::result_
    written,     \* SliceWorker::written_slices_
    held,        \* the slice the worker took
    sink,        \* "none", "open", "finalized", "canceled", "broken"
    stored       \* the sequence numbers the sink wrote

queueVars == <<queue, queuedBytes, highWater, admitted, popped, nextSequence,
               closed, canceled, failure, dataWait, spaceWait, pc, slice, result>>
clientVars == <<queueUp, session, lastError, accepted, runs, call, goal>>
workerVars == <<wpc, wresult, written, held, sink, stored>>
vars == <<queueVars, clientVars, workerVars>>

Q == INSTANCE RecordingQueue WITH
        Producers <- {client}, Consumers <- {worker}, Controllers <- {client, worker}

Init ==
    /\ Q!Init
    /\ queueUp = FALSE /\ session = "Idle" /\ lastError = "none"
    /\ accepted = 0 /\ runs = 0 /\ call = "idle" /\ goal = "none"
    /\ wpc = "none" /\ wresult = "none" /\ written = 0
    /\ held = Q!NoSlice /\ sink = "none" /\ stored = <<>>

-----------------------------------------------------------------------------
(***************************************************************************)
(* The client between calls.                                               *)
(***************************************************************************)
Prepare ==
    /\ call = "idle" /\ session = "Idle" /\ runs < MaxRuns
    /\ session' = "Preparing" /\ lastError' = "none" /\ accepted' = 0
    /\ runs' = runs + 1 /\ written' = 0
    /\ UNCHANGED <<queueVars, queueUp, call, goal, wpc, wresult, held, sink, stored>>

\* A fresh queue, a fresh worker thread, a sink the worker owns.
Arm ==
    /\ call = "idle" /\ session = "Preparing"
    /\ queue' = <<>> /\ queuedBytes' = 0 /\ highWater' = 0
    /\ admitted' = 0 /\ popped' = 0 /\ nextSequence' = 0
    /\ closed' = FALSE /\ canceled' = FALSE /\ failure' = FALSE
    /\ dataWait' = {} /\ spaceWait' = {}
    /\ result' = [result EXCEPT ![worker] = "none"]
    /\ queueUp' = TRUE /\ session' = "Armed"
    /\ wpc' = "run" /\ wresult' = "none" /\ written' = 0
    /\ sink' = "open" /\ stored' = <<>>
    /\ UNCHANGED <<pc, slice, lastError, accepted, runs, call, goal, held>>

\* No memory for the queue or the worker, or no thread: the sink is destroyed.
ArmFails ==
    /\ call = "idle" /\ session = "Preparing"
    /\ session' = "Failed" /\ lastError' = "AllocationFailure"
    /\ UNCHANGED <<queueVars, queueUp, accepted, runs, call, goal, workerVars>>

Begin ==
    /\ call = "idle" /\ session = "Armed"
    /\ session' = "Recording"
    /\ UNCHANGED <<queueVars, queueUp, lastError, accepted, runs, call, goal, workerVars>>

\* refresh_worker_failure
WorkerFailed == session = "Recording" /\ wresult # "none"

\* The client learns of the failure before it pushes anything.
SubmitFails ==
    /\ call = "idle" /\ WorkerFailed
    /\ session' = "Failed" /\ lastError' = wresult
    /\ UNCHANGED <<queueVars, queueUp, accepted, runs, call, goal, workerVars>>

Submit(s, how) ==
    /\ call = "idle" /\ session = "Recording" /\ ~WorkerFailed
    /\ Q!Offer(client, s, how)
    /\ call' = "submit"
    /\ UNCHANGED <<queueUp, session, lastError, accepted, runs, goal, workerVars>>

Submitting ==
    /\ call = "submit" /\ Q!Produce(client)
    /\ UNCHANGED <<clientVars, workerVars>>

\* Mutant: a slice is counted whatever the push answered.
CountMutant == accepted + 1

Count == IF result[client] = "none" THEN accepted + 1 ELSE accepted

Submitted ==
    /\ call = "submit" /\ pc[client] = "idle"
    /\ call' = "idle" /\ accepted' = Count
    /\ IF result[client] = "Failed"
       THEN session' = "Failed" /\ lastError' = wresult
       ELSE UNCHANGED <<session, lastError>>
    /\ UNCHANGED <<queueVars, queueUp, runs, goal, workerVars>>

-----------------------------------------------------------------------------
(***************************************************************************)
(* stop and cancel: finish_worker shuts the queue, joins, then sets the    *)
(* final state.                                                            *)
(***************************************************************************)
Abandon(s, e) ==
    /\ call = "idle" /\ session = "Preparing"
    /\ session' = s /\ lastError' = e
    /\ UNCHANGED <<queueVars, queueUp, accepted, runs, call, goal, workerVars>>

Finish(s, e) ==
    /\ call = "idle" /\ session \in {"Armed", "Recording"}
    /\ session' = s /\ call' = "finish" /\ goal' = e
    /\ UNCHANGED <<queueVars, queueUp, lastError, accepted, runs, workerVars>>

Stop   == Abandon("Idle", lastError) \/ Finish("Finalizing", "none")
Cancel == Abandon("Canceled", "Canceled") \/ Finish("Stopping", "Canceled")

Shut == IF goal = "Canceled" THEN Q!Cancel(client) ELSE Q!CloseProducer(client)

FinishShut ==
    /\ call = "finish" /\ Shut
    /\ call' = "wake"
    /\ UNCHANGED <<queueUp, session, lastError, accepted, runs, goal, workerVars>>

FinishWake ==
    /\ call = "wake" /\ Q!SignalAll(client)
    /\ call' = "join"
    /\ UNCHANGED <<queueUp, session, lastError, accepted, runs, goal, workerVars>>

\* thread_.join returns
Joined == wpc \in {"exit", "joined"}

\* The worker has returned: the session ends Canceled, Failed or Idle, and only
\* an Idle one has released its queue, worker and sink.
FinishWorker ==
    /\ call = "join" /\ Joined
    /\ call' = "idle"
    /\ IF goal = "Canceled" \/ wresult = "Canceled"
       THEN session' = "Canceled" /\ lastError' = "Canceled"
       ELSE IF wresult # "none"
       THEN session' = "Failed" /\ lastError' = wresult
       ELSE session' = "Idle" /\ lastError' = "none"
    /\ IF session' = "Idle"
       THEN queueUp' = FALSE /\ wpc' = "none"
       ELSE wpc' = "joined" /\ UNCHANGED queueUp
    /\ UNCHANGED <<queueVars, accepted, runs, goal, wresult, written, held, sink, stored>>

(***************************************************************************)
(* acknowledge_terminal, and the destructors in the order of the members:  *)
(* the worker cancels the queue and joins before the queue goes.           *)
(***************************************************************************)
Release(s) ==
    /\ session' = s /\ queueUp' = FALSE /\ wpc' = "none" /\ call' = "idle"
    /\ lastError' = IF s = "Idle" THEN "none" ELSE lastError
    /\ UNCHANGED <<accepted, runs, wresult, written, held, sink, stored>>

Dispose(s) ==
    /\ call = "idle" /\ goal' = s
    /\ IF queueUp THEN call' = "drop" /\ UNCHANGED <<session, lastError>>
       ELSE call' = "idle" /\ session' = s /\ lastError' = (IF s = "Idle" THEN "none" ELSE lastError)
    /\ UNCHANGED <<queueVars, queueUp, accepted, runs, workerVars>>

Acknowledge == session \in {"Canceled", "Failed"} /\ Dispose("Idle")
Destroy     == session \in {"Idle", "Canceled", "Failed"} /\ Dispose("Gone")

DropShut ==
    /\ call = "drop" /\ Q!Cancel(client)
    /\ call' = "dropWake"
    /\ UNCHANGED <<queueUp, session, lastError, accepted, runs, goal, workerVars>>

\* Mutant: the queue is destroyed before the worker is joined.
DropWakeMutant ==
    /\ call = "dropWake" /\ Q!SignalAll(client)
    /\ call' = "dropJoin" /\ queueUp' = FALSE
    /\ UNCHANGED <<session, lastError, accepted, runs, goal, workerVars>>

DropWake ==
    /\ call = "dropWake" /\ Q!SignalAll(client)
    /\ call' = "dropJoin"
    /\ UNCHANGED <<queueUp, session, lastError, accepted, runs, goal, workerVars>>

DropJoin ==
    /\ call = "dropJoin" /\ Joined
    /\ Release(goal)
    /\ UNCHANGED <<queueVars, goal>>

-----------------------------------------------------------------------------
(***************************************************************************)
(* SliceWorker::run.                                                       *)
(***************************************************************************)
WorkerKeeps == UNCHANGED <<clientVars, wresult, written, sink, stored>>

\* wait_pop, as often as it sleeps; then write, finish or drop.
WorkerPop ==
    /\ wpc = "run"
    /\ \/ Q!AskPop(worker) /\ UNCHANGED <<wpc, held>>
       \/ /\ Q!WaitPop(worker)
          /\ held' = slice'[worker]
          /\ wpc' = IF pc'[worker] # "idle" THEN wpc
                    ELSE IF result'[worker] = "Closed" THEN "finish" ELSE "drop"
       \/ Q!SignalSpace(worker) /\ wpc' = "write" /\ UNCHANGED held
    /\ WorkerKeeps

\* sink_->write
Write ==
    /\ wpc = "write"
    /\ \/ wpc' = "count" /\ stored' = Append(stored, held.sequence)
       \/ wpc' = "abort" /\ UNCHANGED stored
    /\ UNCHANGED <<queueVars, clientVars, wresult, written, held, sink>>

CountWritten ==
    /\ wpc = "count"
    /\ wpc' = "run" /\ written' = written + 1
    /\ UNCHANGED <<queueVars, clientVars, wresult, held, sink, stored>>

\* Mutant: the file is published before the queue is drained.
FinishSinkMutant ==
    /\ wpc \in {"run", "finish"} /\ pc[worker] = "idle"
    /\ \/ sink' = "finalized" /\ wpc' = "exit"
       \/ sink' = "broken" /\ wpc' = "fail"
    /\ UNCHANGED <<queueVars, clientVars, wresult, written, held, stored>>

\* sink_->finish, which publishes the file or fails.
FinishSink ==
    /\ wpc = "finish"
    /\ \/ sink' = "finalized" /\ wpc' = "exit"
       \/ sink' = "broken" /\ wpc' = "fail"
    /\ UNCHANGED <<queueVars, clientVars, wresult, written, held, stored>>

\* sink_->cancel after a failed write
AbortSink ==
    /\ wpc = "abort"
    /\ sink' = "canceled" /\ wpc' = "fail"
    /\ UNCHANGED <<queueVars, clientVars, wresult, written, held, stored>>

\* Mutant: the queue fails but the worker's own result stays None.
SetFailureMutant == UNCHANGED wresult

SetFailure == wresult' = "SinkFailure"

\* result_ and the queue's failure_ change under the worker's mutex, which
\* whoever reads result_ has to take.
FailQueue ==
    /\ wpc = "fail"
    /\ SetFailure
    /\ Q!Fail(worker)
    /\ wpc' = "wake"
    /\ UNCHANGED <<clientVars, written, held, sink, stored>>

WakeClient ==
    /\ wpc = "wake" /\ Q!SignalAll(worker)
    /\ wpc' = "exit"
    /\ UNCHANGED <<held>> /\ WorkerKeeps

\* The queue was canceled under the worker.
DropSink ==
    /\ wpc = "drop"
    /\ sink' = "canceled" /\ wresult' = result[worker] /\ wpc' = "exit"
    /\ UNCHANGED <<queueVars, clientVars, written, held, stored>>

Spurious ==
    /\ Q!Spurious(client) \/ Q!Spurious(worker)
    /\ UNCHANGED <<clientVars, workerVars>>

-----------------------------------------------------------------------------
Offering ==
    \/ Prepare \/ Arm \/ ArmFails \/ Begin \/ Stop \/ Cancel \/ Acknowledge \/ Destroy
    \/ SubmitFails
    \/ \E s \in Q!Slice, how \in {"push", "tryPush"} : Submit(s, how)

Returning ==
    \/ Submitting \/ Submitted \/ FinishShut \/ FinishWake \/ FinishWorker
    \/ DropShut \/ DropWake \/ DropJoin

Work == WorkerPop \/ Write \/ CountWritten \/ FinishSink \/ AbortSink
            \/ FailQueue \/ WakeClient \/ DropSink

Next == Offering \/ Returning \/ Work \/ Spurious

Spec == Init /\ [][Next]_vars

\* Both threads run and the sink's calls return; the client need call nothing.
FairSpec == Spec /\ WF_vars(Returning) /\ WF_vars(Work)

-----------------------------------------------------------------------------
TypeOK ==
    /\ Q!TypeOK
    /\ queueUp \in BOOLEAN
    /\ session \in {"Idle", "Preparing", "Armed", "Recording", "Stopping",
                    "Finalizing", "Canceled", "Failed", "Gone"}
    /\ lastError \in {"none", "AllocationFailure", "SinkFailure", "Canceled", "Failed"}
    /\ accepted \in Nat /\ runs \in 0..MaxRuns
    /\ call \in {"idle", "submit", "finish", "wake", "join", "drop", "dropWake", "dropJoin"}
    /\ goal \in {"none", "Canceled", "Idle", "Gone"}
    /\ wpc \in {"none", "run", "write", "count", "finish", "abort", "fail",
                "wake", "drop", "exit", "joined"}
    /\ wresult \in {"none", "SinkFailure", "Canceled", "Failed"}
    /\ written \in Nat /\ held \in Q!Slice \cup {Q!NoSlice}
    /\ sink \in {"none", "open", "finalized", "canceled", "broken"}
    /\ stored \in Seq(0..MaxSequence)

Running == wpc \notin {"none", "exit", "joined"}

\* The thread never outlives the queue it waits on, whichever of stop, cancel,
\* acknowledge_terminal and the destructors ends the session.
WorkerHasQueue == Running => queueUp

\* stop that ends in Idle has published the file, and the counts finish_segment
\* compares agree.
StopSaves ==
    [][session = "Finalizing" /\ session' = "Idle" =>
          sink = "finalized" /\ written = accepted]_vars

\* Whoever finds the session Failed finds the reason too.
FailureIsNamed == session = "Failed" => lastError # "none"

\* Every call returns, however the sink fails and whatever is queued.
CallReturns == call # "idle" ~> call = "idle"

\* The session implements the promise made for one file.
Archive == INSTANCE RecordingArchive WITH
              taken <- admitted, stored <- Len(stored), file <- sink
ImplementsArchive == Archive!Spec
=============================================================================
