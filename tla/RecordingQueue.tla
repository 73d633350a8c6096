--------------------------- MODULE RecordingQueue ---------------------------
(***************************************************************************)
(* BoundedSliceQueue of sdl2/recording/recording_queue.cpp: the bounded    *)
(* FIFO between the threads that capture slices of video and audio and the *)
(* worker that encodes them.  One mutex guards it; data_available_ and     *)
(* space_available_ are its condition variables.                           *)
(*                                                                         *)
(* A region under the mutex is one step.  The notification that follows    *)
(* the unlock is a step of its own.  A thread in a wait is in dataWait or  *)
(* spaceWait; it leaves when notified, or spuriously, and then evaluates   *)
(* its predicate again.                                                    *)
(***************************************************************************)
EXTENDS Naturals, Sequences, Functions

CONSTANTS
    Producers,   \* the threads that push
    Consumers,   \* the threads that pop
    Controllers, \* the threads that close, cancel or fail the queue
    MaxSlices,   \* budget.max_slices
    Room,        \* budget.max_bytes - reserved_bytes_
    Sizes,       \* the resident_bytes of a slice
    Misfits,     \* what may be wrong with a slice but its sequence number
    MaxSequence  \* bound: sequence numbers of the slices that are offered

ASSUME QueueAssumption ==
    /\ MaxSlices \in Nat \ {0} /\ Room \in Nat /\ MaxSequence \in Nat
    /\ Sizes \subseteq Nat
    /\ Producers \cap Consumers = {}
    /\ "none" \notin Misfits

Errors == Misfits \cup
    {"none", "Failed", "Canceled", "Closed", "SequenceGap", "WouldBlock"}

VARIABLES
    queue,         \* queue_
    queuedBytes, highWater, admitted, popped, nextSequence,
    closed, canceled, failure,
    dataWait,      \* threads waiting on data_available_
    spaceWait,     \* threads waiting on space_available_
    pc,            \* "idle", "push", "tryPush", "pop", "signal", "signalAll"
    slice,         \* the slice a call was given or is about to return
    result         \* what the last call of a thread returned

state == <<queue, queuedBytes, highWater, admitted, popped, nextSequence>>
flags == <<closed, canceled, failure>>
waits == <<dataWait, spaceWait>>
local == <<pc, slice, result>>
vars  == <<state, flags, waits, local>>

Threads == Producers \cup Consumers \cup Controllers

\* A slice; misfit stands for a wrong descriptor, tick or sample interval.
Slice == [sequence : 0..MaxSequence, bytes : Sizes, misfit : Misfits \cup {"none"}]
NoSlice == [sequence |-> 0, bytes |-> 0, misfit |-> "none"]

QueueInit ==
    /\ queue = <<>> /\ queuedBytes = 0 /\ highWater = 0
    /\ admitted = 0 /\ popped = 0 /\ nextSequence = 0
    /\ closed = FALSE /\ canceled = FALSE /\ failure = FALSE
    /\ dataWait = {} /\ spaceWait = {}

Init ==
    /\ QueueInit
    /\ pc = [t \in Threads |-> "idle"]
    /\ slice = [t \in Threads |-> NoSlice]
    /\ result = [t \in Threads |-> "none"]

-----------------------------------------------------------------------------
(***************************************************************************)
(* Admission.                                                              *)
(***************************************************************************)
\* Mutant: the bytes already queued are not counted against the budget.
FitsMutant(s) == Len(queue) < MaxSlices /\ s.bytes <= Room

Fits(s) == Len(queue) < MaxSlices /\ queuedBytes + s.bytes <= Room

\* Mutant: the sequence number is not compared.
VerdictMutant(s) ==
    IF failure THEN "Failed" ELSE IF canceled THEN "Canceled"
    ELSE IF closed THEN "Closed" ELSE s.misfit

\* The first error of a push, in the order of the code; "none" if it may enter.
Verdict(s) ==
    IF failure THEN "Failed" ELSE IF canceled THEN "Canceled"
    ELSE IF closed THEN "Closed"
    ELSE IF s.sequence # nextSequence THEN "SequenceGap" ELSE s.misfit

\* Mutant: the byte count is left alone.
EnqueueMutant(s) ==
    /\ queue' = Append(queue, s)
    /\ nextSequence' = nextSequence + 1 /\ admitted' = admitted + 1
    /\ UNCHANGED <<queuedBytes, highWater, popped>>

Enqueue(s) ==
    /\ queue' = Append(queue, s)
    /\ queuedBytes' = queuedBytes + s.bytes
    /\ highWater' = IF queuedBytes' > highWater THEN queuedBytes' ELSE highWater
    /\ nextSequence' = nextSequence + 1 /\ admitted' = admitted + 1
    /\ UNCHANGED popped

Return(t, r) ==
    /\ pc' = [pc EXCEPT ![t] = "idle"]
    /\ slice' = [slice EXCEPT ![t] = NoSlice]
    /\ result' = [result EXCEPT ![t] = r]

\* A producer enters try_push or wait_push with a slice.
Offer(p, s, call) ==
    /\ pc[p] = "idle"
    /\ pc' = [pc EXCEPT ![p] = call]
    /\ slice' = [slice EXCEPT ![p] = s]
    /\ result' = [result EXCEPT ![p] = "none"]
    /\ UNCHANGED <<state, flags, waits>>

Refused(p, s) ==
    /\ Verdict(s) # "none"
    /\ Return(p, Verdict(s))
    /\ UNCHANGED <<state, waits>>

Admitted(p, s) ==
    /\ Verdict(s) = "none" /\ Fits(s)
    /\ Enqueue(s)
    /\ pc' = [pc EXCEPT ![p] = "signal"]
    /\ slice' = [slice EXCEPT ![p] = NoSlice]
    /\ UNCHANGED <<waits, result>>

\* A full queue turns try_push away; wait_push sleeps until there is space.
TryPush(p) ==
    /\ pc[p] = "tryPush"
    /\ \/ Refused(p, slice[p])
       \/ Admitted(p, slice[p])
       \/ /\ Verdict(slice[p]) = "none" /\ ~Fits(slice[p])
          /\ Return(p, "WouldBlock")
          /\ UNCHANGED <<state, waits>>
    /\ UNCHANGED flags

WaitPush(p) ==
    /\ pc[p] = "push" /\ p \notin spaceWait
    /\ \/ Refused(p, slice[p])
       \/ Admitted(p, slice[p])
       \/ /\ Verdict(slice[p]) = "none" /\ ~Fits(slice[p])
          /\ spaceWait' = spaceWait \cup {p}
          /\ UNCHANGED <<state, dataWait, pc, slice, result>>
    /\ UNCHANGED flags

\* data_available_.notify_one after the unlock.
SignalData(p) ==
    /\ p \in Producers /\ pc[p] = "signal"
    /\ IF dataWait = {} THEN UNCHANGED dataWait
       ELSE \E c \in dataWait : dataWait' = dataWait \ {c}
    /\ Return(p, "none")
    /\ UNCHANGED <<state, flags, spaceWait>>

-----------------------------------------------------------------------------
(***************************************************************************)
(* Taking a slice.                                                         *)
(***************************************************************************)
AskPop(c) ==
    /\ pc[c] = "idle"
    /\ pc' = [pc EXCEPT ![c] = "pop"]
    /\ UNCHANGED <<state, flags, waits, slice, result>>

\* Mutant: a closed queue is not drained.
PopVerdictMutant ==
    IF failure THEN "Failed" ELSE IF canceled THEN "Canceled"
    ELSE IF closed THEN "Closed" ELSE IF queue # <<>> THEN "none" ELSE "wait"

PopVerdict ==
    IF failure THEN "Failed" ELSE IF canceled THEN "Canceled"
    ELSE IF queue # <<>> THEN "none" ELSE IF closed THEN "Closed" ELSE "wait"

Dequeue ==
    /\ queue' = Tail(queue)
    /\ queuedBytes' = queuedBytes - Head(queue).bytes
    /\ popped' = popped + 1
    /\ UNCHANGED <<highWater, admitted, nextSequence>>

WaitPop(c) ==
    /\ pc[c] = "pop" /\ c \notin dataWait
    /\ \/ /\ PopVerdict = "none"
          /\ Dequeue
          /\ slice' = [slice EXCEPT ![c] = Head(queue)]
          /\ pc' = [pc EXCEPT ![c] = "signal"]
          /\ UNCHANGED <<waits, result>>
       \/ /\ PopVerdict = "wait"
          /\ dataWait' = dataWait \cup {c}
          /\ UNCHANGED <<state, spaceWait, slice, pc, result>>
       \/ /\ PopVerdict \notin {"none", "wait"}
          /\ Return(c, PopVerdict)
          /\ UNCHANGED <<state, waits>>
    /\ UNCHANGED flags

\* Mutant: the producers are not told.
WakeSpaceMutant == UNCHANGED spaceWait

\* space_available_.notify_all
WakeSpace == spaceWait' = {}

SignalSpace(c) ==
    /\ c \in Consumers /\ pc[c] = "signal"
    /\ WakeSpace
    /\ Return(c, "none")
    /\ UNCHANGED <<state, flags, dataWait>>

-----------------------------------------------------------------------------
(***************************************************************************)
(* close_producer, cancel and fail.                                        *)
(***************************************************************************)
Raise(t) == pc[t] = "idle" /\ pc' = [pc EXCEPT ![t] = "signalAll"]

CloseProducer(t) ==
    /\ Raise(t)
    /\ closed' = TRUE
    /\ UNCHANGED <<state, canceled, failure, waits, slice, result>>

Clear == queue' = <<>> /\ queuedBytes' = 0

Cancel(t) ==
    /\ Raise(t)
    /\ canceled' = TRUE
    /\ Clear
    /\ UNCHANGED <<closed, failure, highWater, admitted, popped, nextSequence,
                   waits, slice, result>>

\* The queue keeps which failure came first; its calls all answer Failed.
Fail(t) ==
    /\ Raise(t)
    /\ failure' = TRUE
    /\ UNCHANGED <<state, closed, canceled, waits, slice, result>>

\* Mutant: only the consumers are woken.
WakeAllMutant == dataWait' = {} /\ UNCHANGED spaceWait

WakeAll == dataWait' = {} /\ WakeSpace

\* The notify_all calls after the unlock.
SignalAll(t) ==
    /\ pc[t] = "signalAll"
    /\ WakeAll
    /\ pc' = [pc EXCEPT ![t] = "idle"]
    /\ UNCHANGED <<state, flags, slice, result>>

\* A wait may end without a notification.
Spurious(t) ==
    /\ t \in dataWait \cup spaceWait
    /\ dataWait' = dataWait \ {t} /\ spaceWait' = spaceWait \ {t}
    /\ UNCHANGED <<state, flags, local>>

Produce(p) == TryPush(p) \/ WaitPush(p) \/ SignalData(p)
Consume(c) == WaitPop(c) \/ SignalSpace(c)
Control(t) == CloseProducer(t) \/ Cancel(t) \/ Fail(t)

Next ==
    \/ \E p \in Producers, s \in Slice, call \in {"push", "tryPush"} :
          Offer(p, s, call)
    \/ \E p \in Producers : Produce(p)
    \/ \E c \in Consumers : AskPop(c) \/ Consume(c)
    \/ \E t \in Controllers : Control(t)
    \/ \E t \in Threads : SignalAll(t) \/ Spurious(t)

Spec == Init /\ [][Next]_vars

(***************************************************************************)
(* Every thread runs; the worker calls wait_pop again after every slice.   *)
(* Nobody need push, close, cancel or fail, and no wait need end by itself.*)
(***************************************************************************)
FairSpec ==
    /\ Spec
    /\ \A p \in Producers : WF_vars(Produce(p))
    /\ \A c \in Consumers : WF_vars(AskPop(c)) /\ WF_vars(Consume(c))
    /\ \A t \in Threads : WF_vars(SignalAll(t))

-----------------------------------------------------------------------------
TypeOK ==
    /\ queue \in Seq(Slice) /\ queuedBytes \in Nat /\ highWater \in Nat
    /\ admitted \in Nat /\ popped \in Nat /\ nextSequence \in Nat
    /\ closed \in BOOLEAN /\ canceled \in BOOLEAN /\ failure \in BOOLEAN
    /\ dataWait \subseteq Consumers /\ spaceWait \subseteq Producers
    /\ pc \in [Threads -> {"idle", "push", "tryPush", "pop", "signal", "signalAll"}]
    /\ slice \in [Threads -> Slice \cup {NoSlice}]
    /\ result \in [Threads -> Errors]

\* The budget is kept whatever is pushed, popped and cleared, and the byte
\* count is that of the slices in the queue.
BudgetKept ==
    /\ Len(queue) <= MaxSlices
    /\ queuedBytes = SumFunction([i \in DOMAIN queue |-> queue[i].bytes])
    /\ queuedBytes <= highWater /\ highWater <= Room

\* The queue holds an unbroken run of sequence numbers; before a cancel the run
\* starts right after what was popped and ends right before what may enter.
UnbrokenRun ==
    /\ \A i \in DOMAIN queue : queue[i].sequence = nextSequence - Len(queue) + i - 1
    /\ ~canceled => popped + Len(queue) = nextSequence

\* A consumer is told Closed only after it was given every admitted slice.
ClosedIsDrained ==
    \A c \in Consumers : result[c] = "Closed" => popped = admitted

\* No lost wake-up: a thread sleeps on a condition that already holds only
\* while somebody is still about to notify it.
NoLostWakeup ==
    /\ \A p \in spaceWait :
          Fits(slice[p]) => \/ \E t \in Threads : pc[t] = "signalAll"
                            \/ \E c \in Consumers : pc[c] = "signal"
    /\ dataWait # {} /\ queue # <<>> =>
          \E t \in Threads \ dataWait : pc[t] \in {"signalAll", "signal", "pop"}
    /\ (closed \/ canceled \/ failure) /\ waits # <<{}, {}>> =>
          \E t \in Threads : pc[t] = "signalAll"

\* After cancel or fail nothing enters and nothing comes out, though the worker
\* may hold a slice it took before.
NothingAfterCancel ==
    [][canceled \/ failure => popped' = popped /\ admitted' = admitted]_vars

\* Whoever is inside a call when the queue is shut down returns from it.
ShutdownReleases ==
    \A t \in Threads : (closed \/ canceled \/ failure) ~> pc[t] = "idle"

\* A blocked push returns as long as the worker keeps taking slices.
PushReturns ==
    \A p \in Producers : pc[p] = "push" ~> pc[p] = "idle"

\* Every blocking call of recording_queue.cpp ends: by the shutdown, and a push
\* by the space the worker makes.
CallsReturn == ShutdownReleases /\ PushReturns
=============================================================================
