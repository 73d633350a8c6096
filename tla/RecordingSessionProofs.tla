----------------------- MODULE RecordingSessionProofs -----------------------
(***************************************************************************)
(* Proofs about a recording session: for any budget, any slices and any    *)
(* number of sessions one after another, the worker never outlives its     *)
(* queue, a failure is named, a stop that ends well has saved every        *)
(* slice, and the session implements the promise made for one file.        *)
(***************************************************************************)
EXTENDS RecordingSession, SequenceTheorems, TLAPS

-----------------------------------------------------------------------------
(***************************************************************************)
(* The inductive invariant.                                                *)
(***************************************************************************)
Calls == {"idle", "push", "tryPush", "pop", "signal", "signalAll"}

Typed ==
    /\ queue \in Seq(Q!Slice) /\ admitted \in Nat /\ popped \in Nat
    /\ closed \in BOOLEAN /\ canceled \in BOOLEAN /\ failure \in BOOLEAN
    /\ pc \in [{client, worker} -> Calls]
    /\ slice \in [{client, worker} -> Q!Slice \cup {Q!NoSlice}]
    /\ result \in [{client, worker} -> Q!Errors]
    /\ queueUp \in BOOLEAN /\ accepted \in Nat /\ written \in Nat
    /\ held \in Q!Slice \cup {Q!NoSlice}
    /\ stored \in Seq(0..MaxSequence)

Ending == {"finish", "wake", "join"}
Dropping == {"drop", "dropWake", "dropJoin"}

\* Where the client is: in which call, on which session, with a queue or not.
ClientAt ==
    /\ call \in {"idle", "submit"} \cup Ending \cup Dropping
    /\ session \in {"Idle", "Preparing", "Armed", "Recording", "Stopping",
                    "Finalizing", "Canceled", "Failed", "Gone"}
    /\ call = "submit" => session = "Recording" /\ pc[client] \in {"push", "tryPush", "signal", "idle"}
    /\ pc[client] \in {"push", "tryPush"} => slice[client] \in Q!Slice
    /\ call \in {"wake", "dropWake"} => pc[client] = "signalAll"
    /\ call \in {"idle", "finish", "join", "drop", "dropJoin"} => pc[client] = "idle"
    /\ call \in Ending <=> session \in {"Stopping", "Finalizing"}
    /\ session = "Finalizing" => goal = "none"
    /\ session = "Stopping" => goal = "Canceled"
    /\ call \in Dropping => session \in {"Canceled", "Failed"} /\ queueUp /\ goal \in {"Idle", "Gone"}
    /\ session \in {"Idle", "Preparing", "Gone"} => ~queueUp
    /\ session \in {"Armed", "Recording", "Stopping", "Finalizing"} => queueUp
    /\ session = "Failed" => lastError # "none"

Answering == {"run", "write", "count", "finish", "abort", "drop"}

\* Where the worker is, what it has made of the sink and what it says of it.
WorkerAt ==
    /\ wpc \in Answering \cup {"none", "fail", "wake", "exit", "joined"}
    /\ wpc = "none" <=> ~queueUp
    /\ wpc = "joined" => session \in {"Canceled", "Failed"}
    /\ wpc = "run" => pc[worker] \in {"idle", "pop", "signal"}
    /\ wpc = "wake" => pc[worker] = "signalAll"
    /\ wpc \notin {"run", "wake"} => pc[worker] = "idle"
    /\ wpc \in Answering => sink = "open" /\ wresult = "none"
    /\ wpc = "fail" => sink \in {"broken", "canceled"} /\ wresult = "none"
    /\ wpc = "wake" => sink \in {"broken", "canceled"} /\ wresult # "none"
    /\ wpc \in {"exit", "joined"} =>
          \/ sink = "finalized" /\ wresult = "none"
          \/ sink \in {"broken", "canceled"} /\ wresult # "none"
    /\ wpc = "drop" => result[worker] # "none"
    /\ wpc = "none" => sink # "open"

\* What is in the queue, by the counts of both sides.
Counted ==
    queueUp =>
      /\ popped <= admitted
      /\ canceled => queue = <<>>
      /\ ~canceled => popped + Len(queue) = admitted
      /\ wpc = "finish" \/ sink \in {"finalized", "broken"} => closed
      /\ wpc = "finish" \/ sink = "finalized" => popped = admitted

\* What the queue admitted is what the client counted, but for a push that has
\* yet to return.
Admission ==
  /\ session = "Preparing" => accepted = 0
  /\ queueUp =>
      /\ failure => wresult # "none"
      /\ call = "submit" /\ pc[client] # "idle" => result[client] = "none"
      /\ call = "submit" /\ result[client] = "Failed" => failure
      /\ IF call = "submit" /\ (pc[client] = "signal" \/ (pc[client] = "idle" /\ result[client] = "none"))
         THEN admitted = accepted + 1 ELSE admitted = accepted

\* What was taken from the queue is in the sink or in the worker's hands.
Storing ==
    queueUp =>
      /\ wpc \in {"run", "write", "finish"} => Len(stored) = written
      /\ wpc = "count" => Len(stored) = written + 1
      /\ wpc = "write" \/ (wpc = "run" /\ pc[worker] = "signal") => popped = Len(stored) + 1
      /\ wpc \in {"count", "finish"} \/ (wpc = "run" /\ pc[worker] # "signal") => popped = Len(stored)
      /\ sink = "finalized" => written = popped

IInv == Typed /\ ClientAt /\ WorkerAt /\ Counted /\ Admission /\ Storing

-----------------------------------------------------------------------------
(***************************************************************************)
(* What the instance of the queue stands for here.                         *)
(***************************************************************************)
LEMMA TwoThreads == Q!Threads = {client, worker} /\ client # worker
BY SessionAssumption DEF Q!Threads

LEMMA AnswersOfQueue ==
    /\ "none" \in Q!Errors /\ "Failed" \in Q!Errors /\ "Canceled" \in Q!Errors
    /\ "Closed" \in Q!Errors /\ "SequenceGap" \in Q!Errors /\ "WouldBlock" \in Q!Errors
    /\ \A m \in Misfits : m \in Q!Errors /\ m \notin {"none", "Failed"}
BY SessionAssumption DEF Q!Errors

LEMMA HeldNumber == \A s \in Q!Slice \cup {Q!NoSlice} : s.sequence \in 0..MaxSequence
BY SessionAssumption DEF Q!Slice, Q!NoSlice

-----------------------------------------------------------------------------
(***************************************************************************)
(* Each step keeps the invariant.                                          *)
(***************************************************************************)
LEMMA PrepareKeeps ==
    ASSUME IInv, Prepare
    PROVE  IInv'
<1> USE TwoThreads DEF IInv, Prepare, queueVars, clientVars, workerVars
<1>1. Typed'
  BY DEF Typed, Calls
<1>2. ClientAt'
  BY DEF Typed, ClientAt, WorkerAt, Ending, Dropping, Answering
<1>3. WorkerAt'
  BY DEF Typed, ClientAt, WorkerAt, Ending, Dropping, Answering
<1>4. Counted'
  BY DEF Typed, ClientAt, WorkerAt, Counted, Ending, Dropping, Answering
<1>5. Admission'
  BY DEF Typed, ClientAt, WorkerAt, Admission, Ending, Dropping, Answering
<1>6. Storing'
  BY DEF Typed, ClientAt, WorkerAt, Storing, Ending, Dropping, Answering
<1> QED BY <1>1, <1>2, <1>3, <1>4, <1>5, <1>6

LEMMA ArmKeeps ==
    ASSUME IInv, Arm
    PROVE  IInv'
<1> USE TwoThreads DEF IInv, Arm, queueVars, clientVars, workerVars
<1>1. Typed'
  <2>1. result' \in [{client, worker} -> Q!Errors]
    BY AnswersOfQueue DEF Typed
  <2>2. queue' \in Seq(Q!Slice) /\ stored' \in Seq(0..MaxSequence)
    OBVIOUS
  <2> QED BY <2>1, <2>2 DEF Typed
<1>2. ClientAt'
  BY DEF Typed, ClientAt, WorkerAt, Ending, Dropping, Answering
<1>3. WorkerAt'
  BY DEF Typed, ClientAt, WorkerAt, Ending, Dropping, Answering
<1>4. Counted'
  BY DEF Typed, ClientAt, WorkerAt, Counted, Ending, Dropping, Answering
<1>5. Admission'
  BY DEF Typed, ClientAt, WorkerAt, Admission, Ending, Dropping, Answering
<1>6. Storing'
  BY DEF Typed, ClientAt, WorkerAt, Storing, Ending, Dropping, Answering
<1> QED BY <1>1, <1>2, <1>3, <1>4, <1>5, <1>6

LEMMA ArmFailsKeeps ==
    ASSUME IInv, ArmFails
    PROVE  IInv'
<1> USE TwoThreads DEF IInv, ArmFails, queueVars, clientVars, workerVars
<1>1. Typed'
  BY DEF Typed, Calls
<1>2. ClientAt'
  BY DEF Typed, ClientAt, WorkerAt, Ending, Dropping, Answering
<1>3. WorkerAt'
  BY DEF Typed, ClientAt, WorkerAt, Ending, Dropping, Answering
<1>4. Counted'
  BY DEF Typed, ClientAt, WorkerAt, Counted, Ending, Dropping, Answering
<1>5. Admission'
  BY DEF Typed, ClientAt, WorkerAt, Admission, Ending, Dropping, Answering
<1>6. Storing'
  BY DEF Typed, ClientAt, WorkerAt, Storing, Ending, Dropping, Answering
<1> QED BY <1>1, <1>2, <1>3, <1>4, <1>5, <1>6

LEMMA BeginKeeps ==
    ASSUME IInv, Begin
    PROVE  IInv'
<1> USE TwoThreads DEF IInv, Begin, queueVars, clientVars, workerVars
<1>1. Typed'
  BY DEF Typed, Calls
<1>2. ClientAt'
  BY DEF Typed, ClientAt, WorkerAt, Ending, Dropping, Answering
<1>3. WorkerAt'
  BY DEF Typed, ClientAt, WorkerAt, Ending, Dropping, Answering
<1>4. Counted'
  BY DEF Typed, ClientAt, WorkerAt, Counted, Ending, Dropping, Answering
<1>5. Admission'
  BY DEF Typed, ClientAt, WorkerAt, Admission, Ending, Dropping, Answering
<1>6. Storing'
  BY DEF Typed, ClientAt, WorkerAt, Storing, Ending, Dropping, Answering
<1> QED BY <1>1, <1>2, <1>3, <1>4, <1>5, <1>6

LEMMA StopKeeps ==
    ASSUME IInv, Stop
    PROVE  IInv'
<1> USE TwoThreads DEF IInv, Stop, queueVars, clientVars, workerVars, Abandon, Finish
<1>1. Typed'
  BY DEF Typed, Calls
<1>2. ClientAt'
  BY DEF Typed, ClientAt, WorkerAt, Ending, Dropping, Answering
<1>3. WorkerAt'
  BY DEF Typed, ClientAt, WorkerAt, Ending, Dropping, Answering
<1>4. Counted'
  BY DEF Typed, ClientAt, WorkerAt, Counted, Ending, Dropping, Answering
<1>5. Admission'
  BY DEF Typed, ClientAt, WorkerAt, Admission, Ending, Dropping, Answering
<1>6. Storing'
  BY DEF Typed, ClientAt, WorkerAt, Storing, Ending, Dropping, Answering
<1> QED BY <1>1, <1>2, <1>3, <1>4, <1>5, <1>6

LEMMA CancelKeeps ==
    ASSUME IInv, Cancel
    PROVE  IInv'
<1> USE TwoThreads DEF IInv, Cancel, queueVars, clientVars, workerVars, Abandon, Finish
<1>1. Typed'
  BY DEF Typed, Calls
<1>2. ClientAt'
  BY DEF Typed, ClientAt, WorkerAt, Ending, Dropping, Answering
<1>3. WorkerAt'
  BY DEF Typed, ClientAt, WorkerAt, Ending, Dropping, Answering
<1>4. Counted'
  BY DEF Typed, ClientAt, WorkerAt, Counted, Ending, Dropping, Answering
<1>5. Admission'
  BY DEF Typed, ClientAt, WorkerAt, Admission, Ending, Dropping, Answering
<1>6. Storing'
  BY DEF Typed, ClientAt, WorkerAt, Storing, Ending, Dropping, Answering
<1> QED BY <1>1, <1>2, <1>3, <1>4, <1>5, <1>6

LEMMA AcknowledgeKeeps ==
    ASSUME IInv, Acknowledge
    PROVE  IInv'
<1> USE TwoThreads DEF IInv, Acknowledge, queueVars, clientVars, workerVars, Dispose
<1>1. Typed'
  BY DEF Typed, Calls
<1>2. ClientAt'
  BY DEF Typed, ClientAt, WorkerAt, Ending, Dropping, Answering
<1>3. WorkerAt'
  BY DEF Typed, ClientAt, WorkerAt, Ending, Dropping, Answering
<1>4. Counted'
  BY DEF Typed, ClientAt, WorkerAt, Counted, Ending, Dropping, Answering
<1>5. Admission'
  BY DEF Typed, ClientAt, WorkerAt, Admission, Ending, Dropping, Answering
<1>6. Storing'
  BY DEF Typed, ClientAt, WorkerAt, Storing, Ending, Dropping, Answering
<1> QED BY <1>1, <1>2, <1>3, <1>4, <1>5, <1>6

LEMMA DestroyKeeps ==
    ASSUME IInv, Destroy
    PROVE  IInv'
<1> USE TwoThreads DEF IInv, Destroy, queueVars, clientVars, workerVars, Dispose
<1>1. Typed'
  BY DEF Typed, Calls
<1>2. ClientAt'
  BY DEF Typed, ClientAt, WorkerAt, Ending, Dropping, Answering
<1>3. WorkerAt'
  BY DEF Typed, ClientAt, WorkerAt, Ending, Dropping, Answering
<1>4. Counted'
  BY DEF Typed, ClientAt, WorkerAt, Counted, Ending, Dropping, Answering
<1>5. Admission'
  BY DEF Typed, ClientAt, WorkerAt, Admission, Ending, Dropping, Answering
<1>6. Storing'
  BY DEF Typed, ClientAt, WorkerAt, Storing, Ending, Dropping, Answering
<1> QED BY <1>1, <1>2, <1>3, <1>4, <1>5, <1>6

LEMMA SubmitFailsKeeps ==
    ASSUME IInv, SubmitFails
    PROVE  IInv'
<1> USE TwoThreads DEF IInv, SubmitFails, queueVars, clientVars, workerVars, WorkerFailed
<1>1. Typed'
  BY DEF Typed, Calls
<1>2. ClientAt'
  BY DEF Typed, ClientAt, WorkerAt, Ending, Dropping, Answering
<1>3. WorkerAt'
  BY DEF Typed, ClientAt, WorkerAt, Ending, Dropping, Answering
<1>4. Counted'
  BY DEF Typed, ClientAt, WorkerAt, Counted, Ending, Dropping, Answering
<1>5. Admission'
  BY DEF Typed, ClientAt, WorkerAt, Admission, Ending, Dropping, Answering
<1>6. Storing'
  BY DEF Typed, ClientAt, WorkerAt, Storing, Ending, Dropping, Answering
<1> QED BY <1>1, <1>2, <1>3, <1>4, <1>5, <1>6

LEMMA SubmitKeeps ==
    ASSUME IInv, NEW s \in Q!Slice, NEW how \in {"push", "tryPush"}, Submit(s, how)
    PROVE  IInv'
<1> USE TwoThreads DEF IInv, Submit, queueVars, clientVars, workerVars, Q!Offer, Q!state, Q!flags, Q!waits
<1>1. Typed'
  BY AnswersOfQueue DEF Typed, Calls
<1>2. ClientAt'
  BY DEF Typed, ClientAt, WorkerAt, Ending, Dropping, Answering
<1>3. WorkerAt'
  BY DEF Typed, ClientAt, WorkerAt, Ending, Dropping, Answering
<1>4. Counted'
  BY DEF Typed, ClientAt, WorkerAt, Counted, Ending, Dropping, Answering
<1>5. Admission'
  BY DEF Typed, ClientAt, WorkerAt, Admission, Ending, Dropping, Answering
<1>6. Storing'
  BY DEF Typed, ClientAt, WorkerAt, Storing, Ending, Dropping, Answering
<1> QED BY <1>1, <1>2, <1>3, <1>4, <1>5, <1>6

LEMMA SubmittedKeeps ==
    ASSUME IInv, Submitted
    PROVE  IInv'
<1> USE TwoThreads DEF IInv, Submitted, queueVars, clientVars, workerVars, Count
<1>1. Typed'
  BY DEF Typed, Calls
<1>2. ClientAt'
  BY DEF Typed, ClientAt, WorkerAt, Admission, Ending, Dropping, Answering
<1>3. WorkerAt'
  BY DEF Typed, ClientAt, WorkerAt, Ending, Dropping, Answering
<1>4. Counted'
  BY DEF Typed, ClientAt, WorkerAt, Counted, Ending, Dropping, Answering
<1>5. Admission'
  BY DEF Typed, ClientAt, WorkerAt, Admission, Ending, Dropping, Answering
<1>6. Storing'
  BY DEF Typed, ClientAt, WorkerAt, Storing, Ending, Dropping, Answering
<1> QED BY <1>1, <1>2, <1>3, <1>4, <1>5, <1>6

LEMMA FinishShutKeeps ==
    ASSUME IInv, FinishShut
    PROVE  IInv'
<1> USE TwoThreads DEF IInv, FinishShut, queueVars, clientVars, workerVars, Shut, Q!Cancel, Q!CloseProducer, Q!Raise, Q!Clear, Q!state, Q!waits
<1>1. Typed'
  <2>1. pc' \in [{client, worker} -> Calls]
    BY DEF Typed, Calls
  <2>2. CASE goal = "Canceled"
    <3>1. queue' = <<>> /\ canceled' = TRUE /\ <<>> \in Seq(Q!Slice)
      BY <2>2
    <3> QED BY <2>1, <2>2, <3>1 DEF Typed
  <2>3. CASE goal # "Canceled"
    BY <2>1, <2>3 DEF Typed
  <2> QED BY <2>2, <2>3
<1>2. ClientAt'
  BY DEF Typed, ClientAt, WorkerAt, Ending, Dropping, Answering
<1>3. WorkerAt'
  BY DEF Typed, ClientAt, WorkerAt, Ending, Dropping, Answering
<1>4. Counted'
  BY DEF Typed, ClientAt, WorkerAt, Counted, Ending, Dropping, Answering
<1>5. Admission'
  BY DEF Typed, ClientAt, WorkerAt, Admission, Ending, Dropping, Answering
<1>6. Storing'
  BY DEF Typed, ClientAt, WorkerAt, Storing, Ending, Dropping, Answering
<1> QED BY <1>1, <1>2, <1>3, <1>4, <1>5, <1>6

LEMMA FinishWakeKeeps ==
    ASSUME IInv, FinishWake
    PROVE  IInv'
<1> USE TwoThreads DEF IInv, FinishWake, queueVars, clientVars, workerVars, Q!SignalAll, Q!state, Q!flags
<1>1. Typed'
  BY DEF Typed, Calls
<1>2. ClientAt'
  BY DEF Typed, ClientAt, WorkerAt, Ending, Dropping, Answering
<1>3. WorkerAt'
  BY DEF Typed, ClientAt, WorkerAt, Ending, Dropping, Answering
<1>4. Counted'
  BY DEF Typed, ClientAt, WorkerAt, Counted, Ending, Dropping, Answering
<1>5. Admission'
  BY DEF Typed, ClientAt, WorkerAt, Admission, Ending, Dropping, Answering
<1>6. Storing'
  BY DEF Typed, ClientAt, WorkerAt, Storing, Ending, Dropping, Answering
<1> QED BY <1>1, <1>2, <1>3, <1>4, <1>5, <1>6

LEMMA FinishWorkerKeeps ==
    ASSUME IInv, FinishWorker
    PROVE  IInv'
<1> USE TwoThreads DEF IInv, FinishWorker, queueVars, clientVars, workerVars, Joined
<1>1. Typed'
  BY DEF Typed, Calls
<1>2. ClientAt'
  BY DEF Typed, ClientAt, WorkerAt, Ending, Dropping, Answering
<1>3. WorkerAt'
  BY DEF Typed, ClientAt, WorkerAt, Ending, Dropping, Answering
<1>4. Counted'
  BY DEF Typed, ClientAt, WorkerAt, Counted, Ending, Dropping, Answering
<1>5. Admission'
  BY DEF Typed, ClientAt, WorkerAt, Admission, Ending, Dropping, Answering
<1>6. Storing'
  BY DEF Typed, ClientAt, WorkerAt, Storing, Ending, Dropping, Answering
<1> QED BY <1>1, <1>2, <1>3, <1>4, <1>5, <1>6

LEMMA DropShutKeeps ==
    ASSUME IInv, DropShut
    PROVE  IInv'
<1> USE TwoThreads DEF IInv, DropShut, queueVars, clientVars, workerVars, Q!Cancel, Q!Raise, Q!Clear, Q!waits
<1>1. Typed'
  BY DEF Typed, Calls
<1>2. ClientAt'
  BY DEF Typed, ClientAt, WorkerAt, Ending, Dropping, Answering
<1>3. WorkerAt'
  BY DEF Typed, ClientAt, WorkerAt, Ending, Dropping, Answering
<1>4. Counted'
  BY DEF Typed, ClientAt, WorkerAt, Counted, Ending, Dropping, Answering
<1>5. Admission'
  BY DEF Typed, ClientAt, WorkerAt, Admission, Ending, Dropping, Answering
<1>6. Storing'
  BY DEF Typed, ClientAt, WorkerAt, Storing, Ending, Dropping, Answering
<1> QED BY <1>1, <1>2, <1>3, <1>4, <1>5, <1>6

LEMMA DropWakeKeeps ==
    ASSUME IInv, DropWake
    PROVE  IInv'
<1> USE TwoThreads DEF IInv, DropWake, queueVars, clientVars, workerVars, Q!SignalAll, Q!state, Q!flags
<1>1. Typed'
  BY DEF Typed, Calls
<1>2. ClientAt'
  BY DEF Typed, ClientAt, WorkerAt, Ending, Dropping, Answering
<1>3. WorkerAt'
  BY DEF Typed, ClientAt, WorkerAt, Ending, Dropping, Answering
<1>4. Counted'
  BY DEF Typed, ClientAt, WorkerAt, Counted, Ending, Dropping, Answering
<1>5. Admission'
  BY DEF Typed, ClientAt, WorkerAt, Admission, Ending, Dropping, Answering
<1>6. Storing'
  BY DEF Typed, ClientAt, WorkerAt, Storing, Ending, Dropping, Answering
<1> QED BY <1>1, <1>2, <1>3, <1>4, <1>5, <1>6

LEMMA DropJoinKeeps ==
    ASSUME IInv, DropJoin
    PROVE  IInv'
<1> USE TwoThreads DEF IInv, DropJoin, queueVars, clientVars, workerVars, Joined, Release
<1>1. Typed'
  BY DEF Typed, Calls
<1>2. ClientAt'
  BY DEF Typed, ClientAt, WorkerAt, Ending, Dropping, Answering
<1>3. WorkerAt'
  BY DEF Typed, ClientAt, WorkerAt, Ending, Dropping, Answering
<1>4. Counted'
  BY DEF Typed, ClientAt, WorkerAt, Counted, Ending, Dropping, Answering
<1>5. Admission'
  BY DEF Typed, ClientAt, WorkerAt, Admission, Ending, Dropping, Answering
<1>6. Storing'
  BY DEF Typed, ClientAt, WorkerAt, Storing, Ending, Dropping, Answering
<1> QED BY <1>1, <1>2, <1>3, <1>4, <1>5, <1>6

LEMMA WriteKeeps ==
    ASSUME IInv, Write
    PROVE  IInv'
<1> USE TwoThreads DEF IInv, Write, queueVars, clientVars, workerVars
<1>1. Typed'
  <2>1. held.sequence \in 0..MaxSequence
    BY HeldNumber DEF Typed
  <2>2. Append(stored, held.sequence) \in Seq(0..MaxSequence)
    BY <2>1 DEF Typed
  <2>3. stored' \in Seq(0..MaxSequence)
    BY <2>2 DEF Typed
  <2> QED BY <2>3 DEF Typed
<1>2. ClientAt'
  BY DEF Typed, ClientAt, WorkerAt, Ending, Dropping, Answering
<1>3. WorkerAt'
  BY DEF Typed, ClientAt, WorkerAt, Ending, Dropping, Answering
<1>4. Counted'
  BY DEF Typed, ClientAt, WorkerAt, Counted, Ending, Dropping, Answering
<1>5. Admission'
  BY DEF Typed, ClientAt, WorkerAt, Admission, Ending, Dropping, Answering
<1>6. Storing'
  BY DEF Typed, ClientAt, WorkerAt, Storing, Ending, Dropping, Answering
<1> QED BY <1>1, <1>2, <1>3, <1>4, <1>5, <1>6

LEMMA CountWrittenKeeps ==
    ASSUME IInv, CountWritten
    PROVE  IInv'
<1> USE TwoThreads DEF IInv, CountWritten, queueVars, clientVars, workerVars
<1>1. Typed'
  BY DEF Typed, Calls
<1>2. ClientAt'
  BY DEF Typed, ClientAt, WorkerAt, Ending, Dropping, Answering
<1>3. WorkerAt'
  BY DEF Typed, ClientAt, WorkerAt, Ending, Dropping, Answering
<1>4. Counted'
  BY DEF Typed, ClientAt, WorkerAt, Counted, Ending, Dropping, Answering
<1>5. Admission'
  BY DEF Typed, ClientAt, WorkerAt, Admission, Ending, Dropping, Answering
<1>6. Storing'
  BY DEF Typed, ClientAt, WorkerAt, Storing, Ending, Dropping, Answering
<1> QED BY <1>1, <1>2, <1>3, <1>4, <1>5, <1>6

LEMMA FinishSinkKeeps ==
    ASSUME IInv, FinishSink
    PROVE  IInv'
<1> USE TwoThreads DEF IInv, FinishSink, queueVars, clientVars, workerVars
<1>1. Typed'
  BY DEF Typed, Calls
<1>2. ClientAt'
  BY DEF Typed, ClientAt, WorkerAt, Ending, Dropping, Answering
<1>3. WorkerAt'
  BY DEF Typed, ClientAt, WorkerAt, Ending, Dropping, Answering
<1>4. Counted'
  BY DEF Typed, ClientAt, WorkerAt, Counted, Ending, Dropping, Answering
<1>5. Admission'
  BY DEF Typed, ClientAt, WorkerAt, Admission, Ending, Dropping, Answering
<1>6. Storing'
  BY DEF Typed, ClientAt, WorkerAt, Storing, Ending, Dropping, Answering
<1> QED BY <1>1, <1>2, <1>3, <1>4, <1>5, <1>6

LEMMA AbortSinkKeeps ==
    ASSUME IInv, AbortSink
    PROVE  IInv'
<1> USE TwoThreads DEF IInv, AbortSink, queueVars, clientVars, workerVars
<1>1. Typed'
  BY DEF Typed, Calls
<1>2. ClientAt'
  BY DEF Typed, ClientAt, WorkerAt, Ending, Dropping, Answering
<1>3. WorkerAt'
  BY DEF Typed, ClientAt, WorkerAt, Ending, Dropping, Answering
<1>4. Counted'
  BY DEF Typed, ClientAt, WorkerAt, Counted, Ending, Dropping, Answering
<1>5. Admission'
  BY DEF Typed, ClientAt, WorkerAt, Admission, Ending, Dropping, Answering
<1>6. Storing'
  BY DEF Typed, ClientAt, WorkerAt, Storing, Ending, Dropping, Answering
<1> QED BY <1>1, <1>2, <1>3, <1>4, <1>5, <1>6

LEMMA FailQueueKeeps ==
    ASSUME IInv, FailQueue
    PROVE  IInv'
<1> USE TwoThreads DEF IInv, FailQueue, queueVars, clientVars, workerVars, SetFailure, Q!Fail, Q!Raise, Q!state, Q!waits
<1>1. Typed'
  BY DEF Typed, Calls
<1>2. ClientAt'
  BY DEF Typed, ClientAt, WorkerAt, Ending, Dropping, Answering
<1>3. WorkerAt'
  BY DEF Typed, ClientAt, WorkerAt, Ending, Dropping, Answering
<1>4. Counted'
  BY DEF Typed, ClientAt, WorkerAt, Counted, Ending, Dropping, Answering
<1>5. Admission'
  BY DEF Typed, ClientAt, WorkerAt, Admission, Ending, Dropping, Answering
<1>6. Storing'
  BY DEF Typed, ClientAt, WorkerAt, Storing, Ending, Dropping, Answering
<1> QED BY <1>1, <1>2, <1>3, <1>4, <1>5, <1>6

LEMMA WakeClientKeeps ==
    ASSUME IInv, WakeClient
    PROVE  IInv'
<1> USE TwoThreads DEF IInv, WakeClient, queueVars, clientVars, workerVars, WorkerKeeps, Q!SignalAll, Q!state, Q!flags
<1>1. Typed'
  BY DEF Typed, Calls
<1>2. ClientAt'
  BY DEF Typed, ClientAt, WorkerAt, Ending, Dropping, Answering
<1>3. WorkerAt'
  BY DEF Typed, ClientAt, WorkerAt, Ending, Dropping, Answering
<1>4. Counted'
  BY DEF Typed, ClientAt, WorkerAt, Counted, Ending, Dropping, Answering
<1>5. Admission'
  BY DEF Typed, ClientAt, WorkerAt, Admission, Ending, Dropping, Answering
<1>6. Storing'
  BY DEF Typed, ClientAt, WorkerAt, Storing, Ending, Dropping, Answering
<1> QED BY <1>1, <1>2, <1>3, <1>4, <1>5, <1>6

LEMMA DropSinkKeeps ==
    ASSUME IInv, DropSink
    PROVE  IInv'
<1> USE TwoThreads DEF IInv, DropSink, queueVars, clientVars, workerVars
<1>1. Typed'
  BY DEF Typed, Calls
<1>2. ClientAt'
  BY DEF Typed, ClientAt, WorkerAt, Ending, Dropping, Answering
<1>3. WorkerAt'
  BY DEF Typed, ClientAt, WorkerAt, Ending, Dropping, Answering
<1>4. Counted'
  BY DEF Typed, ClientAt, WorkerAt, Counted, Ending, Dropping, Answering
<1>5. Admission'
  BY DEF Typed, ClientAt, WorkerAt, Admission, Ending, Dropping, Answering
<1>6. Storing'
  BY DEF Typed, ClientAt, WorkerAt, Storing, Ending, Dropping, Answering
<1> QED BY <1>1, <1>2, <1>3, <1>4, <1>5, <1>6

LEMMA SpuriousKeeps ==
    ASSUME IInv, Spurious
    PROVE  IInv'
<1> USE TwoThreads DEF IInv, Spurious, queueVars, clientVars, workerVars, Q!Spurious, Q!state, Q!flags, Q!local
<1>1. Typed'
  BY DEF Typed, Calls
<1>2. ClientAt'
  BY DEF Typed, ClientAt, WorkerAt, Ending, Dropping, Answering
<1>3. WorkerAt'
  BY DEF Typed, ClientAt, WorkerAt, Ending, Dropping, Answering
<1>4. Counted'
  BY DEF Typed, ClientAt, WorkerAt, Counted, Ending, Dropping, Answering
<1>5. Admission'
  BY DEF Typed, ClientAt, WorkerAt, Admission, Ending, Dropping, Answering
<1>6. Storing'
  BY DEF Typed, ClientAt, WorkerAt, Storing, Ending, Dropping, Answering
<1> QED BY <1>1, <1>2, <1>3, <1>4, <1>5, <1>6

-----------------------------------------------------------------------------
(***************************************************************************)
(* What a push and a pop do, as the session sees them.                     *)
(***************************************************************************)
Returned(t, r) ==
    /\ pc' = [pc EXCEPT ![t] = "idle"]
    /\ slice' = [slice EXCEPT ![t] = Q!NoSlice]
    /\ result' = [result EXCEPT ![t] = r]

Counts == <<queue, admitted, popped>>
Shutdown == <<closed, canceled, failure>>

Refused(r) ==
    /\ pc[client] \in {"push", "tryPush"} /\ Returned(client, r)
    /\ r # "none" /\ (r = "Failed" => failure)
    /\ UNCHANGED Counts

Admitted ==
    /\ pc[client] \in {"push", "tryPush"} /\ ~closed /\ ~canceled /\ ~failure
    /\ queue' = Append(queue, slice[client]) /\ admitted' = admitted + 1
    /\ pc' = [pc EXCEPT ![client] = "signal"] /\ slice' = [slice EXCEPT ![client] = Q!NoSlice]
    /\ UNCHANGED <<result, popped>>

LEMMA PushOutcomes ==
    ASSUME IInv, Submitting
    PROVE  /\ UNCHANGED Shutdown
           /\ \/ \E r \in Q!Errors : Refused(r)
              \/ Admitted
              \/ UNCHANGED <<Counts, pc, slice, result>>
              \/ Returned(client, "none") /\ pc[client] = "signal" /\ UNCHANGED Counts
<1> DEFINE s == slice[client]
<1> USE DEF Q!state, Q!flags, Q!waits, Counts, Shutdown
<1>1. UNCHANGED Shutdown
  BY DEF Submitting, Q!Produce, Q!TryPush, Q!WaitPush, Q!SignalData
<1>2. ASSUME s \in Q!Slice
      PROVE  /\ Q!Verdict(s) \in Q!Errors
             /\ Q!Verdict(s) = "Failed" => failure
             /\ Q!Verdict(s) = "none" => ~failure /\ ~canceled /\ ~closed
  <2>1. s.misfit \in Misfits \cup {"none"}
    BY <1>2 DEF Q!Slice
  <2>2. closed \in BOOLEAN /\ canceled \in BOOLEAN /\ failure \in BOOLEAN
    BY DEF IInv, Typed
  <2> HIDE DEF s
  <2> QED BY <2>1, <2>2, AnswersOfQueue DEF Q!Verdict
<1>3. ASSUME s \in Q!Slice, pc[client] \in {"push", "tryPush"}, Q!Refused(client, s)
      PROVE  \E r \in Q!Errors : Refused(r)
  BY <1>2, <1>3 DEF Q!Refused, Q!Return, Refused, Returned
<1>4. ASSUME s \in Q!Slice, pc[client] \in {"push", "tryPush"}, Q!Admitted(client, s)
      PROVE  Admitted
  BY <1>2, <1>4 DEF Q!Admitted, Q!Enqueue, Admitted
<1>5. CASE Q!TryPush(client)
  <2>1. s \in Q!Slice /\ pc[client] = "tryPush"
    BY <1>5 DEF Q!TryPush, IInv, ClientAt
  <2>2. CASE Q!Return(client, "WouldBlock") /\ UNCHANGED Q!state
    <3>1. Refused("WouldBlock")
      BY <2>1, <2>2 DEF Q!Return, Refused, Returned
    <3> QED BY <1>1, <3>1, AnswersOfQueue
  <2> QED BY <1>1, <1>3, <1>4, <1>5, <2>1, <2>2 DEF Q!TryPush
<1>6. CASE Q!WaitPush(client)
  <2>1. s \in Q!Slice /\ pc[client] = "push"
    BY <1>6 DEF Q!WaitPush, IInv, ClientAt
  <2> QED BY <1>1, <1>3, <1>4, <1>6, <2>1 DEF Q!WaitPush
<1>7. CASE Q!SignalData(client)
  BY <1>1, <1>7 DEF Q!SignalData, Q!Return, Returned
<1> QED BY <1>5, <1>6, <1>7 DEF Submitting, Q!Produce

LEMMA AdmittedLength ==
    ASSUME Typed, ClientAt, Admitted
    PROVE  Len(queue') = Len(queue) + 1 /\ Len(queue) \in Nat
<1>1. ASSUME NEW q \in Seq(Q!Slice), NEW x \in Q!Slice
      PROVE  Len(Append(q, x)) = Len(q) + 1 /\ Len(q) \in Nat
  OBVIOUS
<1>2. queue \in Seq(Q!Slice) /\ slice[client] \in Q!Slice
  BY DEF Typed, ClientAt, Admitted
<1>3. Len(Append(queue, slice[client])) = Len(queue) + 1 /\ Len(queue) \in Nat
  BY <1>1, <1>2
<1> QED BY <1>3 DEF Admitted

LEMMA SubmittingKeeps ==
    ASSUME IInv, Submitting
    PROVE  IInv'
<1> USE TwoThreads DEF clientVars, workerVars, Ending, Dropping, Answering
<1>1. /\ Typed /\ ClientAt /\ WorkerAt /\ Counted /\ Admission /\ Storing
      /\ call = "submit" /\ UNCHANGED <<clientVars, workerVars>> /\ UNCHANGED Shutdown
  BY PushOutcomes DEF IInv, Submitting
<1>2. session = "Recording" /\ queueUp /\ pc[client] # "pop"
  BY <1>1 DEF ClientAt
<1>3. ASSUME NEW r \in Q!Errors, Refused(r) PROVE IInv'
  <2> USE <1>1, <1>2, <1>3 DEF Refused, Returned, Counts, Shutdown
  <2>1. Typed'
    BY DEF Typed, Calls
  <2>2. ClientAt'
    BY DEF Typed, ClientAt
  <2>3. WorkerAt'
    BY DEF Typed, WorkerAt
  <2>4. Counted' /\ Storing'
    BY DEF Typed, Counted, Storing
  <2>5. Admission'
    BY DEF Typed, ClientAt, Admission
  <2> QED BY <2>1, <2>2, <2>3, <2>4, <2>5 DEF IInv
<1>4. ASSUME Admitted PROVE IInv'
  <2>0. Len(queue') = Len(queue) + 1 /\ Len(queue) \in Nat
    BY <1>1, <1>4, AdmittedLength
  <2> USE <1>1, <1>2, <1>4 DEF Admitted, Shutdown
  <2>1. Typed'
    <3>1. slice[client] \in Q!Slice
      BY DEF ClientAt
    <3>2. queue' \in Seq(Q!Slice) /\ admitted' \in Nat
      BY <3>1 DEF Typed
    <3> QED BY <3>2 DEF Typed, Calls
  <2>2. ClientAt'
    BY DEF Typed, ClientAt
  <2>3. WorkerAt'
    BY DEF Typed, WorkerAt
  <2>4. Counted'
    <3>1. UNCHANGED canceled /\ ~canceled /\ popped' = popped /\ admitted' = admitted + 1
          /\ UNCHANGED <<wpc, sink, closed, queueUp>> /\ ~closed
      OBVIOUS
    <3>2. Typed /\ Counted
      BY <1>1
    <3> HIDE <1>1, <1>4 DEF Admitted
    <3> QED BY <2>0, <3>1, <3>2 DEF Typed, Counted
  <2>5. Storing'
    BY DEF Typed, Storing
  <2>6. Admission'
    BY DEF Typed, ClientAt, Admission
  <2> QED BY <2>1, <2>2, <2>3, <2>4, <2>5, <2>6 DEF IInv
<1>5. ASSUME UNCHANGED <<Counts, pc, slice, result>> PROVE IInv'
  <2> USE <1>1, <1>5 DEF Counts, Shutdown
  <2>1. Typed' /\ ClientAt' /\ WorkerAt'
    BY DEF Typed, ClientAt, WorkerAt
  <2>2. Counted' /\ Admission' /\ Storing'
    BY DEF Counted, Admission, Storing
  <2> QED BY <2>1, <2>2 DEF IInv
<1>6. ASSUME Returned(client, "none"), pc[client] = "signal", UNCHANGED Counts PROVE IInv'
  <2> USE <1>1, <1>2, <1>6 DEF Returned, Counts, Shutdown
  <2>1. Typed'
    BY AnswersOfQueue DEF Typed, Calls
  <2>2. ClientAt'
    BY DEF Typed, ClientAt
  <2>3. WorkerAt'
    BY DEF Typed, WorkerAt
  <2>4. Counted' /\ Storing'
    BY DEF Typed, Counted, Storing
  <2>5. Admission'
    BY DEF Typed, ClientAt, Admission
  <2> QED BY <2>1, <2>2, <2>3, <2>4, <2>5 DEF IInv
<1> QED BY <1>3, <1>4, <1>5, <1>6, PushOutcomes

Taken ==
    /\ pc[worker] = "pop" /\ queue # <<>> /\ ~canceled
    /\ queue' = Tail(queue) /\ popped' = popped + 1 /\ admitted' = admitted
    /\ pc' = [pc EXCEPT ![worker] = "signal"]
    /\ slice' = [slice EXCEPT ![worker] = Head(queue)]
    /\ held' = slice'[worker]
    /\ UNCHANGED <<result, wpc>>

Answered(r) ==
    /\ pc[worker] = "pop" /\ Returned(worker, r) /\ r \in {"Failed", "Canceled", "Closed"}
    /\ r = "Closed" => closed /\ ~canceled /\ queue = <<>>
    /\ wpc' = (IF r = "Closed" THEN "finish" ELSE "drop")
    /\ held' = slice'[worker]
    /\ UNCHANGED Counts

LEMMA PopOutcomes ==
    ASSUME IInv, WorkerPop
    PROVE  /\ UNCHANGED Shutdown
           /\ \/ /\ pc[worker] = "idle" /\ pc' = [pc EXCEPT ![worker] = "pop"]
                 /\ UNCHANGED <<Counts, slice, result, wpc, held>>
              \/ Taken
              \/ /\ pc[worker] = "pop" /\ held' = slice[worker]
                 /\ UNCHANGED <<Counts, pc, slice, result, wpc>>
              \/ \E r \in {"Failed", "Canceled", "Closed"} : Answered(r)
              \/ /\ pc[worker] = "signal" /\ Returned(worker, "none") /\ wpc' = "write"
                 /\ UNCHANGED <<Counts, held>>
<1> USE DEF Q!state, Q!flags, Q!waits, Counts, Shutdown
<1>1. UNCHANGED Shutdown
  BY DEF WorkerPop, Q!AskPop, Q!WaitPop, Q!SignalSpace
<1>2. CASE Q!AskPop(worker) /\ UNCHANGED <<wpc, held>>
  BY <1>1, <1>2 DEF Q!AskPop
<1>3. CASE Q!SignalSpace(worker) /\ wpc' = "write" /\ UNCHANGED held
  BY <1>1, <1>3 DEF Q!SignalSpace, Q!Return, Returned
<1>4. CASE /\ Q!WaitPop(worker)
           /\ held' = slice'[worker]
           /\ wpc' = IF pc'[worker] # "idle" THEN wpc
                     ELSE IF result'[worker] = "Closed" THEN "finish" ELSE "drop"
  <2>0. /\ worker \in DOMAIN pc /\ worker \in DOMAIN result
        /\ closed \in BOOLEAN /\ canceled \in BOOLEAN /\ failure \in BOOLEAN
    BY DEF IInv, Typed
  <2>1. CASE /\ Q!PopVerdict = "none" /\ Q!Dequeue
             /\ slice' = [slice EXCEPT ![worker] = Head(queue)]
             /\ pc' = [pc EXCEPT ![worker] = "signal"]
             /\ UNCHANGED result
    <3>1. queue # <<>> /\ ~canceled
      BY <2>0, <2>1 DEF Q!PopVerdict
    <3>2. pc'[worker] = "signal"
      BY <2>0, <2>1
    <3> QED BY <1>1, <1>4, <2>1, <3>1, <3>2 DEF Q!Dequeue, Taken, Q!WaitPop
  <2>2. CASE UNCHANGED <<Q!state, slice, pc, result>>
    BY <1>1, <1>4, <2>2 DEF Q!WaitPop
  <2>3. CASE /\ Q!PopVerdict \notin {"none", "wait"} /\ Q!Return(worker, Q!PopVerdict)
             /\ UNCHANGED Q!state
    <3> DEFINE r == Q!PopVerdict
    <3>1. /\ r \in {"Failed", "Canceled", "Closed"}
          /\ r = "Closed" => closed /\ ~canceled /\ queue = <<>>
      BY <2>0, <2>3 DEF Q!PopVerdict
    <3> HIDE DEF r
    <3>2. Returned(worker, r)
      BY <2>3 DEF r, Returned, Q!Return
    <3>3. pc'[worker] = "idle" /\ result'[worker] = r
      BY <2>0, <3>2 DEF Returned
    <3>4. Answered(r)
      BY <1>4, <2>3, <3>1, <3>2, <3>3 DEF Answered, Q!WaitPop
    <3> QED BY <1>1, <3>1, <3>4
  <2> QED BY <1>4, <2>1, <2>2, <2>3 DEF Q!WaitPop
<1> QED BY <1>2, <1>3, <1>4 DEF WorkerPop

LEMMA WorkerPopKeeps ==
    ASSUME IInv, WorkerPop
    PROVE  IInv'
<1> USE TwoThreads DEF clientVars, Ending, Dropping, Answering
<1>1. /\ Typed /\ ClientAt /\ WorkerAt /\ Counted /\ Admission /\ Storing
      /\ wpc = "run" /\ UNCHANGED <<clientVars, wresult, written, sink, stored>>
      /\ UNCHANGED Shutdown
  BY PopOutcomes DEF IInv, WorkerPop, WorkerKeeps
<1>2. queueUp /\ sink = "open" /\ wresult = "none"
  BY <1>1 DEF WorkerAt
<1>3. CASE /\ pc[worker] = "idle" /\ pc' = [pc EXCEPT ![worker] = "pop"]
           /\ UNCHANGED <<Counts, slice, result, wpc, held>>
  <2> USE <1>1, <1>2, <1>3 DEF Counts, Shutdown
  <2>1. Typed'
    BY DEF Typed, Calls
  <2>2. ClientAt' /\ WorkerAt'
    BY DEF Typed, ClientAt, WorkerAt
  <2>3. Counted' /\ Admission'
    BY DEF Typed, Counted, Admission
  <2>4. Storing'
    BY DEF Typed, Storing
  <2> QED BY <2>1, <2>2, <2>3, <2>4 DEF IInv
<1>4. CASE Taken
  <2> USE <1>1, <1>2, <1>4 DEF Taken, Shutdown
  <2>0. /\ queue' \in Seq(Q!Slice) /\ Head(queue) \in Q!Slice
        /\ Len(queue) \in Nat /\ Len(queue) > 0 /\ Len(queue') = Len(queue) - 1
    BY DEF Typed
  <2>1. Typed'
    <3>1. slice' \in [{client, worker} -> Q!Slice \cup {Q!NoSlice}] /\ slice'[worker] = Head(queue)
      BY <2>0 DEF Typed
    <3>2. pc' \in [{client, worker} -> Calls]
      BY DEF Typed, Calls
    <3>3. held' \in Q!Slice
      BY <2>0, <3>1
    <3> QED BY <2>0, <3>1, <3>2, <3>3 DEF Typed
  <2>2. ClientAt' /\ WorkerAt'
    BY DEF Typed, ClientAt, WorkerAt
  <2>3. Counted'
    BY <2>0 DEF Typed, Counted
  <2>4. Admission'
    BY DEF Typed, Admission
  <2>5. Storing'
    BY DEF Typed, Storing
  <2> QED BY <2>1, <2>2, <2>3, <2>4, <2>5 DEF IInv
<1>5. CASE /\ pc[worker] = "pop" /\ held' = slice[worker]
           /\ UNCHANGED <<Counts, pc, slice, result, wpc>>
  <2> USE <1>1, <1>5 DEF Counts, Shutdown
  <2>1. Typed'
    BY DEF Typed
  <2>2. ClientAt' /\ WorkerAt'
    BY DEF ClientAt, WorkerAt
  <2>3. Counted' /\ Admission' /\ Storing'
    BY DEF Counted, Admission, Storing
  <2> QED BY <2>1, <2>2, <2>3 DEF IInv
<1>6. ASSUME NEW r \in {"Failed", "Canceled", "Closed"}, Answered(r) PROVE IInv'
  <2> USE <1>1, <1>2, <1>6 DEF Answered, Returned, Counts, Shutdown
  <2>1. Typed'
    BY AnswersOfQueue DEF Typed, Calls
  <2>2. ClientAt'
    BY DEF Typed, ClientAt
  <2>3. WorkerAt'
    BY DEF Typed, WorkerAt
  <2>4. Counted'
    BY DEF Typed, Counted
  <2>5. Admission'
    BY DEF Typed, Admission
  <2>6. Storing'
    BY DEF Typed, Storing
  <2> QED BY <2>1, <2>2, <2>3, <2>4, <2>5, <2>6 DEF IInv
<1>7. CASE /\ pc[worker] = "signal" /\ Returned(worker, "none") /\ wpc' = "write"
           /\ UNCHANGED <<Counts, held>>
  <2> USE <1>1, <1>2, <1>7 DEF Returned, Counts, Shutdown
  <2>1. Typed'
    BY AnswersOfQueue DEF Typed, Calls
  <2>2. ClientAt' /\ WorkerAt'
    BY DEF Typed, ClientAt, WorkerAt
  <2>3. Counted' /\ Admission'
    BY DEF Typed, Counted, Admission
  <2>4. Storing'
    BY DEF Typed, Storing
  <2> QED BY <2>1, <2>2, <2>3, <2>4 DEF IInv
<1> QED BY <1>3, <1>4, <1>5, <1>6, <1>7, PopOutcomes

LEMMA InitIInv == Init => IInv
<1> SUFFICES ASSUME Init PROVE IInv
  OBVIOUS
<1> USE TwoThreads DEF Init, Q!Init, Q!QueueInit
<1>1. Typed
  <2>1. queue \in Seq(Q!Slice) /\ stored \in Seq(0..MaxSequence) /\ held \in {Q!NoSlice}
    OBVIOUS
  <2>2. /\ pc \in [{client, worker} -> Calls]
        /\ slice \in [{client, worker} -> Q!Slice \cup {Q!NoSlice}]
        /\ result \in [{client, worker} -> Q!Errors]
    BY AnswersOfQueue DEF Calls
  <2> QED BY <2>1, <2>2 DEF Typed
<1>2. ClientAt /\ WorkerAt
  BY DEF ClientAt, WorkerAt, Ending, Dropping, Answering
<1>3. Counted /\ Admission /\ Storing
  BY DEF Counted, Admission, Storing
<1> QED BY <1>1, <1>2, <1>3 DEF IInv

LEMMA NextKeeps ==
    ASSUME IInv, [Next]_vars
    PROVE  IInv'
<1>1. ASSUME Offering PROVE IInv'
  BY <1>1, PrepareKeeps, ArmKeeps, ArmFailsKeeps, BeginKeeps, StopKeeps, CancelKeeps,
     AcknowledgeKeeps, DestroyKeeps, SubmitFailsKeeps, SubmitKeeps DEF Offering
<1>2. ASSUME Returning PROVE IInv'
  BY <1>2, SubmittingKeeps, SubmittedKeeps, FinishShutKeeps, FinishWakeKeeps, FinishWorkerKeeps,
     DropShutKeeps, DropWakeKeeps, DropJoinKeeps DEF Returning
<1>3. ASSUME Work PROVE IInv'
  BY <1>3, WorkerPopKeeps, WriteKeeps, CountWrittenKeeps, FinishSinkKeeps, AbortSinkKeeps,
     FailQueueKeeps, WakeClientKeeps, DropSinkKeeps DEF Work
<1>4. ASSUME UNCHANGED vars PROVE IInv'
  <2> USE <1>4 DEF vars, queueVars, clientVars, workerVars
  <2>1. Typed' = Typed /\ ClientAt' = ClientAt /\ WorkerAt' = WorkerAt
    BY DEF Typed, ClientAt, WorkerAt
  <2>2. Counted' = Counted /\ Admission' = Admission /\ Storing' = Storing
    BY DEF Counted, Admission, Storing
  <2> QED BY <2>1, <2>2 DEF IInv
<1> QED BY <1>1, <1>2, <1>3, <1>4, SpuriousKeeps DEF Next

-----------------------------------------------------------------------------
(***************************************************************************)
(* The theorems.                                                           *)
(***************************************************************************)
\* Where the client, the worker and the sink are together, and what the counts
\* on both sides of the queue have to do with each other.
THEOREM Invariance == Spec => []IInv
<1>1. IInv /\ [Next]_vars => IInv'
  BY NextKeeps
<1> QED BY <1>1, InitIInv, PTL DEF Spec

\* The worker thread never runs without the queue it waits on, whichever of
\* stop, cancel, acknowledge_terminal and the destructors ends the session.
THEOREM WorkerNeverOutlivesQueue == Spec => []WorkerHasQueue
<1>1. IInv => WorkerHasQueue
  BY DEF IInv, WorkerAt, WorkerHasQueue, Running
<1> QED BY <1>1, Invariance, PTL

\* Whoever finds the session Failed finds in last_error_ why
\* (recording_queue.cpp, refresh_worker_failure and finish_worker).
THEOREM FailuresAreNamed == Spec => []FailureIsNamed
<1>1. IInv => FailureIsNamed
  BY DEF IInv, ClientAt, FailureIsNamed
<1> QED BY <1>1, Invariance, PTL

\* A stop that ends in Idle has published the file, with every slice that the
\* client was told was accepted.
THEOREM StopSavesAll == Spec => StopSaves
<1>1. ASSUME IInv, Next, session = "Finalizing", session' = "Idle"
      PROVE  sink = "finalized" /\ written = accepted
  <2>1. Typed /\ ClientAt /\ WorkerAt /\ Counted /\ Admission /\ Storing
    BY <1>1 DEF IInv
  <2>2. FinishWorker
    <3>1. ~Offering
      BY <1>1 DEF Offering, Prepare, Arm, ArmFails, Begin, Stop, Cancel, Abandon, Finish,
                  Acknowledge, Destroy, SubmitFails, WorkerFailed, Submit
    <3>2. ~Work /\ ~Spurious
      BY <1>1 DEF Work, Spurious, WorkerPop, WorkerKeeps, Write, CountWritten, FinishSink,
                  AbortSink, FailQueue, WakeClient, DropSink, clientVars
    <3>3. call \in Ending
      BY <1>1, <2>1 DEF ClientAt
    <3> QED BY <1>1, <3>1, <3>2, <3>3 DEF Next, Returning, Submitting, Submitted, FinishShut,
              FinishWake, DropShut, DropWake, DropJoin, Ending, clientVars
  <2>3. call = "join" /\ queueUp /\ wresult = "none" /\ wpc \in {"exit", "joined"}
    BY <1>1, <2>1, <2>2 DEF FinishWorker, Joined, ClientAt
  <2>4. sink = "finalized"
    BY <2>1, <2>3 DEF WorkerAt
  <2> QED BY <2>1, <2>3, <2>4 DEF Counted, Admission, Storing
<1>2. IInv /\ [Next]_vars =>
        [session = "Finalizing" /\ session' = "Idle" =>
            sink = "finalized" /\ written = accepted]_vars
  BY <1>1
<1> QED BY <1>2, Invariance, PTL DEF Spec, StopSaves

-----------------------------------------------------------------------------
(***************************************************************************)
(* The session implements RecordingArchive.                                *)
(***************************************************************************)
\* Most steps are none of the archive's.
LEMMA Unnoticed ==
    ASSUME UNCHANGED <<admitted, stored, sink>>
    PROVE  UNCHANGED Archive!vars
BY DEF Archive!vars

LEMMA OfferingIsArchive ==
    ASSUME IInv, Offering
    PROVE  [Archive!Next]_Archive!vars
<1>1. CASE Arm
  <2>1. sink # "open"
    BY <1>1 DEF IInv, Arm, ClientAt, WorkerAt
  <2>2. admitted' = 0 /\ Len(stored') = 0 /\ sink' = "open"
    BY <1>1 DEF Arm
  <2> QED BY <2>1, <2>2 DEF Archive!Next, Archive!Open
<1>2. CASE ~Arm
  <2>1. UNCHANGED <<admitted, stored, sink>>
    BY <1>2 DEF Offering, Prepare, ArmFails, Begin, Stop, Cancel, Abandon, Finish, Acknowledge,
                Destroy, Dispose, SubmitFails, Submit, Q!Offer, Q!state, queueVars, workerVars
  <2> QED BY <2>1, Unnoticed
<1> QED BY <1>1, <1>2

LEMMA ReturningIsArchive ==
    ASSUME IInv, Returning
    PROVE  [Archive!Next]_Archive!vars
<1>1. ASSUME Submitting PROVE [Archive!Next]_Archive!vars
  <2>1. UNCHANGED <<stored, sink>>
    BY <1>1 DEF Submitting, workerVars
  <2>2. CASE Admitted
    <3>1. sink \in {"open", "canceled"}
      <4>1. queueUp /\ ~closed
        BY <1>1, <2>2 DEF IInv, ClientAt, Submitting, Admitted
      <4> QED BY <4>1 DEF IInv, WorkerAt, Counted, Answering
    <3>2. admitted' = admitted + 1
      BY <2>2 DEF Admitted
    <3> QED BY <2>1, <3>1, <3>2 DEF Archive!Next, Archive!Take, Archive!Ignore
  <2>3. CASE UNCHANGED admitted
    BY <2>1, <2>3, Unnoticed
  <2> QED BY <1>1, <2>2, <2>3, PushOutcomes DEF Refused, Counts
<1>2. CASE ~Submitting
  <2>1. UNCHANGED <<admitted, stored, sink>>
    BY <1>2 DEF Returning, Submitted, FinishShut, Shut, FinishWake, FinishWorker, DropShut,
                DropWake, DropJoin, Release, Q!Cancel, Q!CloseProducer, Q!SignalAll, Q!state,
                queueVars, workerVars
  <2> QED BY <2>1, Unnoticed
<1> QED BY <1>1, <1>2

LEMMA WorkIsArchive ==
    ASSUME IInv, Work
    PROVE  [Archive!Next]_Archive!vars
<1>1. ASSUME Write PROVE [Archive!Next]_Archive!vars
  <2>1. queueUp /\ sink = "open" /\ Len(stored) \in Nat /\ Len(stored) < admitted
    <3>1. queueUp /\ sink = "open"
      BY <1>1 DEF IInv, WorkerAt, Write, Answering
    <3> QED BY <1>1, <3>1 DEF IInv, Typed, Counted, Storing, Write
  <2>2. UNCHANGED <<admitted, sink>>
    BY <1>1 DEF Write, queueVars
  <2>3. CASE stored' = Append(stored, held.sequence)
    <3>1. Len(stored') = Len(stored) + 1
      BY <2>3, HeldNumber DEF IInv, Typed
    <3> QED BY <2>1, <2>2, <3>1 DEF Archive!Next, Archive!Store
  <2>4. CASE UNCHANGED stored
    BY <2>2, <2>4, Unnoticed
  <2> QED BY <1>1, <2>3, <2>4 DEF Write
<1>2. ASSUME FinishSink PROVE [Archive!Next]_Archive!vars
  <2>1. sink = "open" /\ Len(stored) = admitted /\ UNCHANGED <<admitted, stored>>
    <3>1. queueUp /\ sink = "open" /\ UNCHANGED <<admitted, stored>>
      BY <1>2 DEF IInv, WorkerAt, FinishSink, Answering, queueVars
    <3> QED BY <1>2, <3>1 DEF IInv, Counted, Storing, FinishSink
  <2> QED BY <1>2, <2>1 DEF FinishSink, Archive!Next, Archive!Publish, Archive!Discard
<1>3. ASSUME AbortSink \/ DropSink PROVE [Archive!Next]_Archive!vars
  <2>1. sink = "open" /\ sink' = "canceled" /\ UNCHANGED <<admitted, stored>>
    BY <1>3 DEF IInv, WorkerAt, AbortSink, DropSink, Answering, queueVars
  <2> QED BY <2>1 DEF Archive!Next, Archive!Discard
<1>4. ASSUME WorkerPop PROVE [Archive!Next]_Archive!vars
  <2>1. UNCHANGED <<admitted, stored, sink>>
    BY <1>4, PopOutcomes DEF WorkerPop, WorkerKeeps, Taken, Answered, Counts
  <2> QED BY <2>1, Unnoticed
<1>5. ASSUME CountWritten \/ FailQueue \/ WakeClient PROVE [Archive!Next]_Archive!vars
  <2>1. UNCHANGED <<admitted, stored, sink>>
    BY <1>5 DEF CountWritten, FailQueue, WakeClient, WorkerKeeps, Q!Fail, Q!SignalAll, Q!state, queueVars
  <2> QED BY <2>1, Unnoticed
<1> QED BY <1>1, <1>2, <1>3, <1>4, <1>5 DEF Work

\* Slices are stored in the order they were admitted and the file is published
\* only with all of them, whatever the two threads do and whichever call fails.
THEOREM ArchiveIsImplemented == Spec => ImplementsArchive
<1>1. Init => Archive!Init
  BY DEF Init, Q!Init, Q!QueueInit, Archive!Init
<1>2. IInv /\ [Next]_vars => [Archive!Next]_Archive!vars
  <2> SUFFICES ASSUME IInv, [Next]_vars PROVE [Archive!Next]_Archive!vars
    OBVIOUS
  <2>1. ASSUME Spurious \/ UNCHANGED vars PROVE [Archive!Next]_Archive!vars
    <3>1. UNCHANGED <<admitted, stored, sink>>
      BY <2>1 DEF Spurious, Q!Spurious, Q!state, vars, queueVars, workerVars
    <3> QED BY <3>1, Unnoticed
  <2> QED BY <2>1, OfferingIsArchive, ReturningIsArchive, WorkIsArchive DEF Next
<1> QED BY <1>1, <1>2, Invariance, PTL DEF Spec, ImplementsArchive, Archive!Spec
=============================================================================
