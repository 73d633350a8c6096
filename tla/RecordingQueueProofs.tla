------------------------ MODULE RecordingQueueProofs ------------------------
(***************************************************************************)
(* Proofs about the slice queue, for any number of producers, any budget   *)
(* and any slices: the order of the queue, draining, silence after a       *)
(* cancel, and, with the one worker the recorder starts, that no wake-up   *)
(* is lost.  The sum of the bytes is left to TLC.                          *)
(***************************************************************************)
EXTENDS RecordingQueue, TLAPS

\* The state a proof needs to know the type of.
Typed ==
    /\ queue \in Seq(Slice) /\ queuedBytes \in Int
    /\ admitted \in Nat /\ popped \in Nat /\ nextSequence \in Nat
    /\ closed \in BOOLEAN /\ canceled \in BOOLEAN /\ failure \in BOOLEAN
    /\ dataWait \subseteq Consumers /\ spaceWait \subseteq Producers
    /\ pc \in [Threads -> {"idle", "push", "tryPush", "pop", "signal", "signalAll"}]
    /\ slice \in [Threads -> Slice \cup {NoSlice}]
    /\ result \in [Threads -> Errors]

\* A thread waits inside its call, and has a slice to wait for.
Waiting ==
    /\ \A p \in spaceWait : pc[p] = "push"
    /\ \A c \in dataWait : pc[c] = "pop"
    /\ \A t \in Threads : pc[t] \in {"push", "tryPush"} => t \in Producers /\ slice[t] \in Slice
    /\ \A t \in Threads : pc[t] = "pop" => t \in Consumers

Drained ==
    \A c \in Consumers : result[c] = "Closed" =>
        closed /\ queue = <<>> /\ popped = admitted

Order ==
    /\ UnbrokenRun
    /\ admitted = nextSequence
    /\ Len(queue) <= MaxSlices
    /\ canceled => queue = <<>>

IInv == Typed /\ Waiting /\ Drained /\ Order

LEMMA NoSliceBytes == NoSlice.bytes = 0 /\ (\A s \in Slice : s.bytes \in Nat)
BY QueueAssumption DEF NoSlice, Slice

\* Appending the slice that has the next number keeps the run unbroken.
LEMMA EnqueueOrder ==
    ASSUME Typed, Order, NEW s \in Slice, Enqueue(s), Fits(s),
           s.sequence = nextSequence, ~canceled, canceled' = canceled
    PROVE  Order' /\ queue' \in Seq(Slice) /\ queuedBytes' \in Int
           /\ admitted' \in Nat /\ popped' \in Nat /\ nextSequence' \in Nat
<1>1. queue' = Append(queue, s) /\ nextSequence' = nextSequence + 1
      /\ admitted' = admitted + 1 /\ popped' = popped /\ queuedBytes' = queuedBytes + s.bytes
  BY DEF Enqueue
<1>2. queue \in Seq(Slice) /\ nextSequence \in Nat /\ admitted \in Nat
      /\ popped \in Nat /\ queuedBytes \in Int /\ s.bytes \in Nat
  BY NoSliceBytes DEF Typed
<1>3. Len(queue') = Len(queue) + 1 /\ Len(queue) \in Nat /\ queue' \in Seq(Slice)
  BY <1>1, <1>2
<1>4. \A i \in DOMAIN queue' : queue'[i].sequence = nextSequence' - Len(queue') + i - 1
  <2> SUFFICES ASSUME NEW i \in DOMAIN queue'
               PROVE  queue'[i].sequence = nextSequence' - Len(queue') + i - 1
    OBVIOUS
  <2>1. i \in 1..(Len(queue) + 1)
    BY <1>2, <1>3
  <2>2. CASE i \in 1..Len(queue)
    <3>1. queue'[i] = queue[i]
      BY <1>1, <1>2, <2>2
    <3>2. queue[i].sequence = nextSequence - Len(queue) + i - 1
      BY <1>2, <2>2 DEF Order, UnbrokenRun
    <3> QED BY <3>1, <3>2, <1>1, <1>2, <1>3, <2>1
  <2>3. CASE i = Len(queue) + 1
    <3>1. queue'[i] = s
      BY <1>1, <1>2, <2>3
    <3> QED BY <3>1, <2>3, <1>1, <1>2, <1>3
  <2> QED BY <2>1, <2>2, <2>3, <1>3
<1>5. UnbrokenRun'
  BY SMTT(40), <1>1, <1>2, <1>3, <1>4 DEF UnbrokenRun, Order
<1>6. Len(queue') <= MaxSlices
  BY <1>3, QueueAssumption DEF Fits
<1> QED BY <1>1, <1>2, <1>3, <1>5, <1>6 DEF Order

\* Taking the head keeps it too.
LEMMA DequeueOrder ==
    ASSUME Typed, Order, Dequeue, queue # <<>>, ~canceled, canceled' = canceled
    PROVE  Order' /\ queue' \in Seq(Slice) /\ queuedBytes' \in Int
           /\ admitted' \in Nat /\ popped' \in Nat /\ nextSequence' \in Nat
           /\ Head(queue) \in Slice
<1>1. queue' = Tail(queue) /\ nextSequence' = nextSequence /\ admitted' = admitted
      /\ popped' = popped + 1 /\ queuedBytes' = queuedBytes - Head(queue).bytes
  BY DEF Dequeue
<1>2. queue \in Seq(Slice) /\ nextSequence \in Nat /\ admitted \in Nat
      /\ popped \in Nat /\ queuedBytes \in Int
  BY DEF Typed
<1>3. Head(queue) \in Slice /\ queue' \in Seq(Slice) /\ Len(queue) \in Nat
      /\ Len(queue') = Len(queue) - 1 /\ Len(queue) > 0
  BY <1>1, <1>2
<1>4. \A i \in DOMAIN queue' : queue'[i].sequence = nextSequence' - Len(queue') + i - 1
  <2> SUFFICES ASSUME NEW i \in DOMAIN queue'
               PROVE  queue'[i].sequence = nextSequence' - Len(queue') + i - 1
    OBVIOUS
  <2>1. i \in 1..(Len(queue) - 1) /\ i \in Int
    BY <1>3
  <2>2. queue'[i] = queue[i + 1] /\ i + 1 \in DOMAIN queue
    BY <1>1, <1>2, <1>3, <2>1
  <2>3. queue[i + 1].sequence = nextSequence - Len(queue) + (i + 1) - 1
    BY <2>2 DEF Order, UnbrokenRun
  <2> QED BY <2>1, <2>2, <2>3, <1>1, <1>2, <1>3
<1>5. UnbrokenRun'
  <2>1. popped + Len(queue) = nextSequence
    BY DEF Order, UnbrokenRun
  <2>2. popped' + Len(queue') = nextSequence'
    BY <2>1, <1>1, <1>2, <1>3
  <2> QED BY <1>4, <2>2 DEF UnbrokenRun
<1>6. Head(queue).bytes \in Int
  BY <1>3, NoSliceBytes
<1>7. Len(queue') <= MaxSlices
  BY <1>3, QueueAssumption DEF Order
<1> QED BY <1>1, <1>2, <1>3, <1>5, <1>6, <1>7 DEF Order

-----------------------------------------------------------------------------
(***************************************************************************)
(* IInv is inductive: one lemma per action.                                *)
(***************************************************************************)
\* Order speaks of the queue and the cancel only.
LEMMA OrderFrame ==
    ASSUME Order, UNCHANGED <<queue, nextSequence, popped, admitted, canceled>>
    PROVE  Order'
BY DEF Order, UnbrokenRun

LEMMA InitIInv == Init => IInv
<1> SUFFICES ASSUME Init PROVE IInv
  OBVIOUS
<1> USE DEF Init, QueueInit
<1>1. Typed
  <2>1. queue \in Seq(Slice)
    OBVIOUS
  <2>3. pc \in [Threads -> {"idle", "push", "tryPush", "pop", "signal", "signalAll"}]
    OBVIOUS
  <2>4. slice \in [Threads -> Slice \cup {NoSlice}]
    OBVIOUS
  <2>5. result \in [Threads -> Errors]
    BY DEF Errors
  <2>6. queuedBytes = 0 /\ admitted = 0 /\ popped = 0 /\ nextSequence = 0
        /\ ~closed /\ ~canceled /\ ~failure /\ dataWait = {} /\ spaceWait = {}
        /\ closed \in BOOLEAN /\ canceled \in BOOLEAN /\ failure \in BOOLEAN
    OBVIOUS
  <2> HIDE DEF Init, QueueInit
  <2> QED BY <2>1, <2>3, <2>4, <2>5, <2>6 DEF Typed
<1>2. Waiting
  BY DEF Waiting, Threads
<1>3. Drained
  BY DEF Drained, Threads
<1>4. Order
  <2>1. queue = <<>> /\ Len(queue) = 0 /\ DOMAIN queue = {} /\ popped = 0
        /\ nextSequence = 0 /\ admitted = 0
    OBVIOUS
  <2> QED BY <2>1, QueueAssumption DEF Order, UnbrokenRun
<1> QED BY <1>1, <1>2, <1>3, <1>4 DEF IInv

LEMMA OfferIInv ==
    ASSUME IInv, NEW p \in Producers, NEW s \in Slice,
           NEW call \in {"push", "tryPush"}, Offer(p, s, call)
    PROVE  IInv'
<1> USE DEF IInv, Offer, state, flags, waits
<1>1. p \in Threads
  BY DEF Threads
<1>2. Typed'
  BY <1>1 DEF Typed, Errors
<1>3. Waiting'
  BY <1>1, QueueAssumption DEF Typed, Waiting, Threads
<1>4. Drained'
  BY <1>1, QueueAssumption DEF Typed, Drained, Threads
<1>5. Order'
  BY OrderFrame
<1> QED BY <1>2, <1>3, <1>4, <1>5

LEMMA VerdictType ==
    ASSUME NEW s \in Slice
    PROVE  Verdict(s) \in Errors
BY DEF Verdict, Errors, Slice

LEMMA AdmissibleSlice ==
    ASSUME NEW s \in Slice, Verdict(s) = "none"
    PROVE  ~failure /\ ~canceled /\ ~closed /\ s.sequence = nextSequence
BY DEF Verdict

\* A call that ends leaves the threads that sleep, and Drained, alone unless
\* a consumer is told Closed.
LEMMA ReturnIInv ==
    ASSUME IInv, NEW t \in Threads, NEW r \in Errors, Return(t, r),
           t \notin dataWait \cup spaceWait,
           dataWait' \subseteq dataWait, spaceWait' \subseteq spaceWait,
           UNCHANGED <<state, flags>>,
           t \in Consumers /\ r = "Closed" =>
               closed /\ queue = <<>> /\ popped = admitted
    PROVE  IInv'
<1> USE DEF IInv, Return, state, flags
<1>1. Typed'
  BY DEF Typed
<1>2. Waiting'
  BY QueueAssumption DEF Typed, Waiting, Threads
<1>3. Drained'
  BY QueueAssumption DEF Typed, Drained, Threads
<1>4. Order'
  BY OrderFrame
<1> QED BY <1>1, <1>2, <1>3, <1>4

LEMMA AdmittedIInv ==
    ASSUME IInv, NEW p \in Producers, slice[p] \in Slice, p \notin spaceWait,
           Admitted(p, slice[p]), UNCHANGED flags
    PROVE  IInv'
<1> USE DEF IInv, Admitted, flags, waits
<1>1. ~canceled /\ ~closed /\ slice[p].sequence = nextSequence
  BY AdmissibleSlice
<1>2. Order' /\ queue' \in Seq(Slice) /\ queuedBytes' \in Int
      /\ admitted' \in Nat /\ popped' \in Nat /\ nextSequence' \in Nat
  BY <1>1, EnqueueOrder
<1>3. p \in Threads
  BY DEF Threads
<1>4. Typed'
  BY <1>2, <1>3 DEF Typed
<1>5. Waiting'
  BY <1>3, QueueAssumption DEF Typed, Waiting, Threads
<1>6. Drained'
  BY <1>1 DEF Drained
<1> QED BY <1>2, <1>4, <1>5, <1>6

LEMMA TryPushIInv ==
    ASSUME IInv, NEW p \in Producers, TryPush(p)
    PROVE  IInv'
<1>1. p \in Threads /\ p \notin Consumers
  BY QueueAssumption DEF Threads
<1>2. slice[p] \in Slice /\ p \notin dataWait \cup spaceWait
  BY <1>1 DEF IInv, Typed, Waiting, TryPush
<1>3. CASE Refused(p, slice[p])
  <2>1. Verdict(slice[p]) \in Errors
    BY <1>2, VerdictType
  <2> QED BY <1>1, <1>2, <1>3, <2>1, ReturnIInv DEF Refused, TryPush, waits
<1>4. CASE Admitted(p, slice[p])
  BY <1>2, <1>4, AdmittedIInv DEF TryPush
<1>5. CASE Return(p, "WouldBlock") /\ UNCHANGED <<state, waits>>
  <2>1. "WouldBlock" \in Errors
    BY DEF Errors
  <2> QED BY <1>1, <1>2, <1>5, <2>1, ReturnIInv DEF TryPush, waits
<1> QED BY <1>3, <1>4, <1>5 DEF TryPush

LEMMA WaitPushIInv ==
    ASSUME IInv, NEW p \in Producers, WaitPush(p)
    PROVE  IInv'
<1>1. p \in Threads /\ p \notin Consumers
  BY QueueAssumption DEF Threads
<1>2. slice[p] \in Slice /\ p \notin dataWait \cup spaceWait
  BY <1>1 DEF IInv, Typed, Waiting, WaitPush
<1>3. CASE Refused(p, slice[p])
  <2>1. Verdict(slice[p]) \in Errors
    BY <1>2, VerdictType
  <2> QED BY <1>1, <1>2, <1>3, <2>1, ReturnIInv DEF Refused, WaitPush, waits
<1>4. CASE Admitted(p, slice[p])
  BY <1>2, <1>4, AdmittedIInv DEF WaitPush
<1>5. CASE /\ spaceWait' = spaceWait \cup {p}
           /\ UNCHANGED <<state, dataWait, pc, slice, result>>
  <2> USE DEF IInv, WaitPush, state, flags
  <2>1. Typed'
    BY <1>1, <1>5 DEF Typed
  <2>2. Waiting'
    BY <1>5 DEF Waiting
  <2>3. Drained'
    BY <1>5 DEF Drained
  <2>4. Order'
    BY <1>5, OrderFrame
  <2> QED BY <2>1, <2>2, <2>3, <2>4
<1> QED BY <1>3, <1>4, <1>5 DEF WaitPush

LEMMA SignalDataIInv ==
    ASSUME IInv, NEW p \in Producers, SignalData(p)
    PROVE  IInv'
<1>1. p \in Threads /\ p \notin Consumers /\ "none" \in Errors
  BY QueueAssumption DEF Threads, Errors
<1>2. p \notin dataWait \cup spaceWait
  BY <1>1 DEF IInv, Typed, Waiting, SignalData
<1>3. dataWait' \subseteq dataWait /\ spaceWait' \subseteq spaceWait
  BY DEF SignalData
<1> QED BY <1>1, <1>2, <1>3, ReturnIInv DEF SignalData

LEMMA AskPopIInv ==
    ASSUME IInv, NEW c \in Consumers, AskPop(c)
    PROVE  IInv'
<1> USE DEF IInv, AskPop, state, flags, waits
<1>1. c \in Threads
  BY DEF Threads
<1>2. Typed'
  BY <1>1 DEF Typed
<1>3. Waiting'
  BY <1>1, QueueAssumption DEF Typed, Waiting, Threads
<1>4. Drained'
  BY DEF Drained
<1>5. Order'
  BY OrderFrame
<1> QED BY <1>2, <1>3, <1>4, <1>5

LEMMA WaitPopIInv ==
    ASSUME IInv, NEW c \in Consumers, WaitPop(c)
    PROVE  IInv'
<1>1. c \in Threads /\ c \notin Producers
  BY QueueAssumption DEF Threads
<1>2. c \notin dataWait \cup spaceWait
  BY <1>1 DEF IInv, Typed, WaitPop
<1>3. CASE /\ PopVerdict = "none"
           /\ Dequeue
           /\ slice' = [slice EXCEPT ![c] = Head(queue)]
           /\ pc' = [pc EXCEPT ![c] = "signal"]
           /\ UNCHANGED <<waits, result>>
  <2> USE DEF IInv, WaitPop, flags, waits
  <2>1. queue # <<>> /\ ~canceled
    BY <1>3 DEF PopVerdict
  <2>2. Order' /\ queue' \in Seq(Slice) /\ queuedBytes' \in Int
        /\ admitted' \in Nat /\ popped' \in Nat /\ nextSequence' \in Nat
        /\ Head(queue) \in Slice
    BY <1>3, <2>1, DequeueOrder
  <2>3. Typed'
    BY <1>1, <1>3, <2>2 DEF Typed
  <2>4. Waiting'
    BY <1>1, <1>2, <1>3 DEF Typed, Waiting
  <2>5. Drained'
    BY <1>3, <2>1 DEF Drained
  <2> QED BY <2>2, <2>3, <2>4, <2>5
<1>4. CASE /\ PopVerdict = "wait"
           /\ dataWait' = dataWait \cup {c}
           /\ UNCHANGED <<state, spaceWait, slice, pc, result>>
  <2> USE DEF IInv, WaitPop, state, flags
  <2>1. Typed'
    BY <1>4 DEF Typed
  <2>2. Waiting'
    BY <1>4 DEF Waiting
  <2>3. Drained'
    BY <1>4 DEF Drained
  <2>4. Order'
    BY <1>4, OrderFrame
  <2> QED BY <2>1, <2>2, <2>3, <2>4
<1>5. CASE /\ PopVerdict \notin {"none", "wait"}
           /\ Return(c, PopVerdict)
           /\ UNCHANGED <<state, waits>>
  <2>1. PopVerdict \in Errors
    BY <1>5 DEF PopVerdict, Errors
  <2>2. ASSUME PopVerdict = "Closed"
        PROVE  closed /\ queue = <<>> /\ popped = admitted
    <3>1. closed /\ ~canceled /\ queue = <<>>
      BY <2>2 DEF PopVerdict
    <3>2. Len(queue) = 0 /\ popped + Len(queue) = admitted /\ popped \in Nat
      BY <3>1 DEF IInv, Order, UnbrokenRun, Typed
    <3> QED BY <3>1, <3>2
  <2> QED BY <1>1, <1>2, <1>5, <2>1, <2>2, ReturnIInv DEF WaitPop, waits
<1> QED BY <1>3, <1>4, <1>5 DEF WaitPop

LEMMA SignalSpaceIInv ==
    ASSUME IInv, NEW c \in Consumers, SignalSpace(c)
    PROVE  IInv'
<1>1. c \in Threads /\ c \notin Producers /\ "none" \in Errors
  BY QueueAssumption DEF Threads, Errors
<1>2. c \notin dataWait \cup spaceWait
  BY <1>1 DEF IInv, Typed, Waiting, SignalSpace
<1>3. dataWait' \subseteq dataWait /\ spaceWait' \subseteq spaceWait
  BY DEF SignalSpace, WakeSpace
<1> QED BY <1>1, <1>2, <1>3, ReturnIInv DEF SignalSpace

LEMMA ControlIInv ==
    ASSUME IInv, NEW t \in Controllers, Control(t)
    PROVE  IInv'
<1> USE DEF IInv, Raise, flags, waits
<1>1. t \in Threads
  BY DEF Threads
<1>2. Raise(t) /\ UNCHANGED <<waits, slice, result, admitted, popped, nextSequence>>
  BY DEF Control, CloseProducer, Cancel, Fail, state
<1>3. pc' \in [Threads -> {"idle", "push", "tryPush", "pop", "signal", "signalAll"}]
  BY <1>1, <1>2 DEF Typed
<1>4. Waiting'
  BY <1>1, <1>2 DEF Typed, Waiting
<1>5. CASE CloseProducer(t)
  <2>1. Typed'
    BY <1>2, <1>3, <1>5 DEF CloseProducer, Typed, state
  <2>2. Drained'
    BY <1>5 DEF CloseProducer, Drained, state
  <2>3. Order'
    BY <1>5, OrderFrame DEF CloseProducer, state
  <2> QED BY <1>4, <2>1, <2>2, <2>3
<1>6. CASE Cancel(t)
  <2>1. queue' = <<>> /\ queuedBytes' = 0 /\ canceled' = TRUE /\ closed' = closed
        /\ failure' = failure
    BY <1>6 DEF Cancel, Clear
  <2>2. queue' \in Seq(Slice)
    BY <2>1
  <2>3. Typed'
    BY <1>2, <1>3, <2>1, <2>2 DEF Typed
  <2>4. Drained'
    BY <1>2, <2>1 DEF Drained
  <2>5. Len(queue') = 0 /\ DOMAIN queue' = {}
    BY <2>1
  <2>6. Order'
    BY <1>2, <2>1, <2>5, QueueAssumption DEF Order, UnbrokenRun
  <2> QED BY <1>4, <2>3, <2>4, <2>6
<1>7. CASE Fail(t)
  <2>1. Typed'
    BY <1>2, <1>3, <1>7 DEF Fail, Typed, state
  <2>2. Drained'
    BY <1>7 DEF Fail, Drained, state
  <2>3. Order'
    BY <1>7, OrderFrame DEF Fail, state
  <2> QED BY <1>4, <2>1, <2>2, <2>3
<1> QED BY <1>5, <1>6, <1>7 DEF Control

LEMMA SignalAllIInv ==
    ASSUME IInv, NEW t \in Threads, SignalAll(t)
    PROVE  IInv'
<1> USE DEF IInv, SignalAll, WakeAll, WakeSpace, state, flags
<1>1. Typed'
  BY DEF Typed
<1>2. Waiting'
  BY DEF Typed, Waiting
<1>3. Drained'
  BY DEF Drained
<1>4. Order'
  BY OrderFrame
<1> QED BY <1>1, <1>2, <1>3, <1>4

LEMMA SpuriousIInv ==
    ASSUME IInv, NEW t \in Threads, Spurious(t)
    PROVE  IInv'
<1> USE DEF IInv, Spurious, state, flags, local
<1>1. Typed'
  BY DEF Typed
<1>2. Waiting'
  BY DEF Waiting
<1>3. Drained'
  BY DEF Drained
<1>4. Order'
  BY OrderFrame
<1> QED BY <1>1, <1>2, <1>3, <1>4

LEMMA StepIInv == IInv /\ [Next]_vars => IInv'
<1> SUFFICES ASSUME IInv, [Next]_vars PROVE IInv'
  OBVIOUS
<1>1. CASE Next
  <2>1. ASSUME NEW p \in Producers, NEW s \in Slice, NEW call \in {"push", "tryPush"},
               Offer(p, s, call)
        PROVE  IInv'
    BY <2>1, OfferIInv
  <2>2. ASSUME NEW p \in Producers, Produce(p) PROVE IInv'
    BY <2>2, TryPushIInv, WaitPushIInv, SignalDataIInv DEF Produce
  <2>3. ASSUME NEW c \in Consumers, AskPop(c) \/ Consume(c) PROVE IInv'
    BY <2>3, AskPopIInv, WaitPopIInv, SignalSpaceIInv DEF Consume
  <2>4. ASSUME NEW t \in Controllers, Control(t) PROVE IInv'
    BY <2>4, ControlIInv
  <2>5. ASSUME NEW t \in Threads, SignalAll(t) \/ Spurious(t) PROVE IInv'
    BY <2>5, SignalAllIInv, SpuriousIInv
  <2> QED BY <1>1, <2>1, <2>2, <2>3, <2>4, <2>5 DEF Next
<1>2. CASE UNCHANGED vars
  BY <1>2 DEF vars, state, flags, waits, local, IInv, Typed, Waiting, Drained, Order,
     UnbrokenRun
<1> QED BY <1>1, <1>2

\* The inductive invariant holds in every reachable state.
THEOREM Invariance == Spec => []IInv
BY InitIInv, StepIInv, PTL DEF Spec

\* However many threads push and pop, the queue holds the slices that were
\* admitted and not yet popped, in the order of their numbers.
THEOREM QueueIsAnUnbrokenRun == Spec => []UnbrokenRun
<1>1. IInv => UnbrokenRun
  BY DEF IInv, Order
<1> QED BY <1>1, Invariance, PTL

\* wait_pop answers Closed only when every admitted slice was handed out.
THEOREM ClosedMeansDrained == Spec => []ClosedIsDrained
<1>1. IInv => ClosedIsDrained
  BY DEF IInv, Drained, ClosedIsDrained
<1> QED BY <1>1, Invariance, PTL

\* After a cancel or a failure no slice enters the queue and none leaves it.
THEOREM SilentAfterCancel == Spec => NothingAfterCancel
<1>1. [Next]_vars => [canceled \/ failure => popped' = popped /\ admitted' = admitted]_vars
  <2> SUFFICES ASSUME Next, canceled \/ failure
               PROVE  popped' = popped /\ admitted' = admitted
    OBVIOUS
  <2>1. \A s : Verdict(s) # "none"
    BY DEF Verdict
  <2>2. PopVerdict # "none"
    BY DEF PopVerdict
  <2>3. ASSUME NEW p \in Producers, NEW s \in Slice, NEW call \in {"push", "tryPush"},
               Offer(p, s, call)
        PROVE  UNCHANGED state
    BY <2>3 DEF Offer
  <2>4. ASSUME NEW p \in Producers, Produce(p) PROVE UNCHANGED state
    BY <2>1, <2>4 DEF Produce, TryPush, WaitPush, SignalData, Refused, Admitted
  <2>5. ASSUME NEW c \in Consumers, AskPop(c) \/ Consume(c) PROVE UNCHANGED state
    BY <2>2, <2>5 DEF AskPop, Consume, WaitPop, SignalSpace
  <2>6. ASSUME NEW t \in Controllers, Control(t)
        PROVE  popped' = popped /\ admitted' = admitted
    BY <2>6 DEF Control, CloseProducer, Cancel, Fail, state
  <2>7. ASSUME NEW t \in Threads, SignalAll(t) \/ Spurious(t) PROVE UNCHANGED state
    BY <2>7 DEF SignalAll, Spurious
  <2> QED BY <2>3, <2>4, <2>5, <2>6, <2>7 DEF Next, state
<1> QED BY <1>1, PTL DEF Spec, NothingAfterCancel

-----------------------------------------------------------------------------
(***************************************************************************)
(* No wake-up is lost when one worker pops.  The three parts of            *)
(* NoLostWakeup by themselves, and one lemma per action.                   *)
(***************************************************************************)
Waker == \E t \in Threads : pc[t] = "signalAll"
Served == Waker \/ \E c \in Consumers : pc[c] = "signal"
Announced == Waker \/ \E p \in Producers : pc[p] = "signal"

Wake ==
    /\ \A p \in spaceWait : Fits(slice[p]) => Served
    /\ dataWait # {} /\ queue # <<>> => Announced
    /\ (closed \/ canceled \/ failure) /\ waits # <<{}, {}>> => Waker

LEMMA WakeMeansNoLostWakeup ==
    ASSUME IInv, Wake
    PROVE  NoLostWakeup
<1> USE DEF IInv, Typed, Waiting
<1>1. \A p \in spaceWait :
          Fits(slice[p]) => \/ \E t \in Threads : pc[t] = "signalAll"
                            \/ \E c \in Consumers : pc[c] = "signal"
  BY DEF Wake, Served, Waker
<1>2. ASSUME dataWait # {}, queue # <<>>
      PROVE  \E t \in Threads \ dataWait : pc[t] \in {"signalAll", "signal", "pop"}
  <2>1. Announced
    BY <1>2 DEF Wake
  <2>2. PICK t \in Threads : pc[t] \in {"signalAll", "signal"}
    BY <2>1 DEF Announced, Waker, Threads
  <2>3. t \notin dataWait
    BY <2>2
  <2> QED BY <2>2, <2>3
<1>3. (closed \/ canceled \/ failure) /\ waits # <<{}, {}>> =>
          \E t \in Threads : pc[t] = "signalAll"
  BY DEF Wake, Waker
<1> QED BY <1>1, <1>2, <1>3 DEF NoLostWakeup

\* A step that wakes nobody's cause and lets nobody sleep keeps Wake.
LEMMA WakeFrame ==
    ASSUME IInv, Wake, UNCHANGED <<state, flags>>,
           dataWait' \subseteq dataWait, spaceWait' \subseteq spaceWait,
           \A p \in spaceWait' : slice'[p] = slice[p],
           \A t \in Threads : pc[t] \in {"signal", "signalAll"} => pc'[t] = pc[t]
    PROVE  Wake'
<1> USE DEF state, flags, waits
<1>1. Waker => Waker'
  BY DEF Waker
<1>2. Served => Served'
  BY <1>1 DEF Served, Threads
<1>3. Announced => Announced'
  BY <1>1 DEF Announced, Threads
<1>4. \A p \in spaceWait' : Fits(slice[p])' => Served'
  <2> SUFFICES ASSUME NEW p \in spaceWait', Fits(slice[p])' PROVE Served'
    OBVIOUS
  <2>1. Fits(slice[p]) /\ p \in spaceWait
    BY DEF Fits
  <2> QED BY <2>1, <1>2 DEF Wake
<1>5. dataWait' # {} /\ queue' # <<>> => Announced'
  BY <1>3 DEF Wake
<1>6. (closed' \/ canceled' \/ failure') /\ waits' # <<{}, {}>> => Waker'
  <2> SUFFICES ASSUME closed' \/ canceled' \/ failure', waits' # <<{}, {}>>
               PROVE  Waker'
    OBVIOUS
  <2>1. waits # <<{}, {}>>
    OBVIOUS
  <2> QED BY <2>1, <1>1 DEF Wake
<1> QED BY <1>4, <1>5, <1>6 DEF Wake

LEMMA AdmittedWake ==
    ASSUME IInv, Wake, NEW p \in Producers, slice[p] \in Slice, p \notin spaceWait,
           pc[p] \in {"push", "tryPush"}, Admitted(p, slice[p]), UNCHANGED flags
    PROVE  Wake'
<1> USE DEF Admitted, flags, waits
<1>1. p \in Threads /\ p \notin Consumers
  BY QueueAssumption DEF Threads
<1>2. pc' = [pc EXCEPT ![p] = "signal"] /\ pc'[p] = "signal"
  BY <1>1 DEF IInv, Typed
<1>3. Announced'
  BY <1>2 DEF Announced
<1>4. \A q \in spaceWait' : Fits(slice[q])' => Served'
  <2> SUFFICES ASSUME NEW q \in spaceWait', Fits(slice[q])' PROVE Served'
    OBVIOUS
  <2>1. q \in spaceWait /\ q # p /\ slice'[q] = slice[q]
    BY DEF IInv, Typed, Threads
  <2>2. Len(queue') = Len(queue) + 1 /\ Len(queue) \in Nat
        /\ queuedBytes' = queuedBytes + slice[p].bytes
    BY DEF Enqueue, IInv, Typed
  <2>3. queuedBytes \in Int /\ slice[p].bytes \in Nat
    BY NoSliceBytes DEF IInv, Typed
  <2>4. slice[q].bytes \in Nat
    <3>1. slice[q] \in Slice
      BY <2>1 DEF IInv, Typed, Waiting, Threads
    <3> QED BY <3>1, NoSliceBytes
  <2>5. Len(queue') < MaxSlices /\ queuedBytes' + slice[q].bytes <= Room
    BY <2>1 DEF Fits
  <2>6. Fits(slice[q])
    <3>1. MaxSlices \in Nat /\ Room \in Nat
      BY QueueAssumption
    <3> DEFINE n == Len(queue)  b == slice[p].bytes  d == slice[q].bytes
    <3>2. n \in Nat /\ n + 1 < MaxSlices => n < MaxSlices
      BY <3>1
    <3>3. queuedBytes \in Int /\ b \in Nat /\ d \in Nat
          /\ (queuedBytes + b) + d <= Room => queuedBytes + d <= Room
      BY <3>1
    <3>4. n < MaxSlices
      BY <2>2, <2>5, <3>2
    <3>5. queuedBytes + d <= Room
      BY <2>2, <2>3, <2>4, <2>5, <3>3
    <3> QED BY <3>4, <3>5 DEF Fits
  <2>7. Served
    BY <2>1, <2>6 DEF Wake
  <2> QED BY <1>1, <1>2, <2>7 DEF Served, Waker, Threads, IInv, Typed
<1>5. ~(closed' \/ canceled' \/ failure')
  BY AdmissibleSlice DEF IInv, Typed
<1> QED BY <1>3, <1>4, <1>5 DEF Wake

LEMMA PushWake ==
    ASSUME IInv, Wake, NEW p \in Producers, TryPush(p) \/ WaitPush(p)
    PROVE  Wake'
<1>1. p \in Threads /\ p \notin Consumers /\ p \notin dataWait
      /\ pc[p] \in {"push", "tryPush"}
  BY QueueAssumption DEF Threads, TryPush, WaitPush, IInv, Typed
<1>2. slice[p] \in Slice /\ p \notin spaceWait /\ UNCHANGED flags
  BY <1>1 DEF IInv, Typed, Waiting, TryPush, WaitPush
<1>3. CASE \E r : Return(p, r) /\ UNCHANGED <<state, waits>>
  <2>1. \A q \in spaceWait' : slice'[q] = slice[q]
    BY <1>1, <1>2, <1>3 DEF Return, waits, IInv, Typed, Threads
  <2>2. \A t \in Threads : pc[t] \in {"signal", "signalAll"} => pc'[t] = pc[t]
    BY <1>1, <1>3 DEF Return, IInv, Typed
  <2> QED BY <1>2, <1>3, <2>1, <2>2, WakeFrame DEF waits
<1>4. CASE Admitted(p, slice[p])
  BY <1>1, <1>2, <1>4, AdmittedWake
<1>5. CASE /\ Verdict(slice[p]) = "none" /\ ~Fits(slice[p])
           /\ spaceWait' = spaceWait \cup {p}
           /\ UNCHANGED <<state, dataWait, pc, slice, result>>
  <2>1. ~closed /\ ~canceled /\ ~failure
    BY <1>2, <1>5, AdmissibleSlice
  <2>2. (Served <=> Served') /\ (Announced <=> Announced')
    BY <1>5 DEF Served, Announced, Waker
  <2>3. \A q \in spaceWait' : Fits(slice[q])' => Served'
    BY <1>5, <2>2 DEF Wake, Fits, state
  <2>4. dataWait' # {} /\ queue' # <<>> => Announced'
    BY <1>5, <2>2 DEF Wake, state
  <2> QED BY <1>2, <2>1, <2>3, <2>4 DEF Wake, flags
<1> QED BY <1>3, <1>4, <1>5 DEF TryPush, WaitPush, Refused, waits

LEMMA SignalDataWake ==
    ASSUME IInv, Wake, NEW w, Consumers = {w}, NEW p \in Producers, SignalData(p)
    PROVE  Wake'
<1> USE DEF SignalData, state, flags, waits, Return
<1>1. p \in Threads /\ p \notin Consumers /\ p \notin spaceWait
  BY QueueAssumption DEF Threads, IInv, Waiting
<1>2. dataWait' = {}
  BY DEF IInv, Typed
<1>3. Waker => Waker'
  BY <1>1 DEF Waker, IInv, Typed
<1>4. Served => Served'
  BY <1>1, <1>3 DEF Served, Threads, IInv, Typed
<1>5. \A q \in spaceWait' : Fits(slice[q])' => Served'
  <2> SUFFICES ASSUME NEW q \in spaceWait', Fits(slice[q])' PROVE Served'
    OBVIOUS
  <2>1. q \in spaceWait /\ slice'[q] = slice[q]
    BY <1>1 DEF IInv, Typed, Threads
  <2>2. Fits(slice[q])
    BY <2>1 DEF Fits
  <2> QED BY <2>1, <2>2, <1>4 DEF Wake
<1>6. (closed' \/ canceled' \/ failure') /\ waits' # <<{}, {}>> => Waker'
  BY <1>2, <1>3 DEF Wake
<1> QED BY <1>2, <1>5, <1>6 DEF Wake

LEMMA WaitPopWake ==
    ASSUME IInv, Wake, NEW w, Consumers = {w}, NEW c \in Consumers, WaitPop(c)
    PROVE  Wake'
<1>1. c \in Threads /\ c \notin Producers /\ c \notin spaceWait /\ pc[c] = "pop"
  BY QueueAssumption DEF Threads, WaitPop, IInv, Typed
<1>2. dataWait = {} /\ UNCHANGED flags
  BY DEF IInv, Typed, WaitPop
<1>3. CASE /\ PopVerdict = "none"
           /\ slice' = [slice EXCEPT ![c] = Head(queue)]
           /\ pc' = [pc EXCEPT ![c] = "signal"]
           /\ UNCHANGED <<waits, result>>
  <2>1. pc'[c] = "signal" /\ dataWait' = {}
    BY <1>1, <1>2, <1>3 DEF waits, IInv, Typed
  <2>2. Served'
    BY <2>1 DEF Served
  <2>3. ~(closed' \/ canceled' \/ failure') \/ Waker' \/ waits' = <<{}, {}>>
    BY <1>1, <1>2, <1>3 DEF Wake, Waker, flags, waits, IInv, Typed
  <2> QED BY <2>1, <2>2, <2>3 DEF Wake
<1>4. CASE /\ PopVerdict = "wait"
           /\ dataWait' = dataWait \cup {c}
           /\ UNCHANGED <<state, spaceWait, slice, pc, result>>
  <2>1. ~closed /\ ~canceled /\ ~failure /\ queue = <<>>
    BY <1>4 DEF PopVerdict
  <2>2. Served <=> Served'
    BY <1>4 DEF Served, Waker
  <2>3. \A q \in spaceWait' : Fits(slice[q])' => Served'
    BY <1>4, <2>2 DEF Wake, Fits, state
  <2> QED BY <1>2, <1>4, <2>1, <2>3 DEF Wake, flags, state
<1>5. CASE Return(c, PopVerdict) /\ UNCHANGED <<state, waits>>
  <2>1. \A q \in spaceWait' : slice'[q] = slice[q]
    BY <1>1, <1>5 DEF Return, waits, IInv, Typed, Threads
  <2>2. \A t \in Threads : pc[t] \in {"signal", "signalAll"} => pc'[t] = pc[t]
    BY <1>1, <1>5 DEF Return, IInv, Typed
  <2> QED BY <1>2, <1>5, <2>1, <2>2, WakeFrame DEF waits
<1> QED BY <1>3, <1>4, <1>5 DEF WaitPop

LEMMA SignalSpaceWake ==
    ASSUME IInv, Wake, NEW w, Consumers = {w}, NEW c \in Consumers, SignalSpace(c)
    PROVE  Wake'
<1>1. spaceWait' = {} /\ UNCHANGED <<state, flags, dataWait>>
  BY DEF SignalSpace, WakeSpace
<1>2. dataWait = {}
  BY DEF SignalSpace, IInv, Typed, Waiting
<1> QED BY <1>1, <1>2 DEF Wake, waits, state, flags

LEMMA ControlWake ==
    ASSUME IInv, Wake, NEW t \in Controllers, Control(t)
    PROVE  Wake'
<1>1. t \in Threads /\ Raise(t)
  BY DEF Threads, Control, CloseProducer, Cancel, Fail
<1>2. Waker'
  BY <1>1 DEF Raise, Waker, IInv, Typed
<1> QED BY <1>2 DEF Wake, Served, Announced

LEMMA SignalAllWake ==
    ASSUME NEW t \in Threads, SignalAll(t)
    PROVE  Wake'
BY DEF SignalAll, WakeAll, WakeSpace, Wake, waits

LEMMA StepWake ==
    ASSUME IInv, Wake, NEW w, Consumers = {w}, [Next]_vars
    PROVE  Wake'
<1>1. ASSUME NEW p \in Producers, NEW s \in Slice, NEW call \in {"push", "tryPush"},
             Offer(p, s, call)
      PROVE  Wake'
  <2> USE DEF Offer
  <2>1. p \in Threads /\ p \notin spaceWait
    BY <1>1 DEF Threads, IInv, Waiting
  <2>2. \A q \in spaceWait' : slice'[q] = slice[q]
    BY <1>1, <2>1 DEF waits, IInv, Typed, Threads
  <2>3. \A t \in Threads : pc[t] \in {"signal", "signalAll"} => pc'[t] = pc[t]
    BY <1>1, <2>1 DEF IInv, Typed
  <2> QED BY <1>1, <2>2, <2>3, WakeFrame DEF waits
<1>2. ASSUME NEW p \in Producers, Produce(p) PROVE Wake'
  BY <1>2, PushWake, SignalDataWake DEF Produce
<1>3. ASSUME NEW c \in Consumers, AskPop(c) PROVE Wake'
  <2>1. \A t \in Threads : pc[t] \in {"signal", "signalAll"} => pc'[t] = pc[t]
    BY <1>3 DEF AskPop, IInv, Typed
  <2> QED BY <1>3, <2>1, WakeFrame DEF AskPop, waits
<1>4. ASSUME NEW c \in Consumers, Consume(c) PROVE Wake'
  BY <1>4, WaitPopWake, SignalSpaceWake DEF Consume
<1>5. ASSUME NEW t \in Controllers, Control(t) PROVE Wake'
  BY <1>5, ControlWake
<1>6. ASSUME NEW t \in Threads, SignalAll(t) PROVE Wake'
  BY <1>6, SignalAllWake
<1>7. ASSUME NEW t \in Threads, Spurious(t) PROVE Wake'
  BY <1>7, WakeFrame DEF Spurious, local
<1>8. CASE UNCHANGED vars
  BY <1>8, WakeFrame DEF vars, waits, local
<1> QED BY <1>1, <1>2, <1>3, <1>4, <1>5, <1>6, <1>7, <1>8 DEF Next

\* With one worker, and any number of producers and controllers, nobody sleeps
\* on a condition that holds unless a notification is still to come.
THEOREM NoWakeupIsLost ==
    ASSUME NEW CONSTANT w, Consumers = {w}
    PROVE  Spec => []NoLostWakeup
<1>1. Init => Wake
  BY DEF Init, QueueInit, Wake, waits
<1>2. IInv /\ Wake /\ [Next]_vars => Wake'
  BY StepWake
<1>3. IInv /\ Wake => NoLostWakeup
  BY WakeMeansNoLostWakeup
<1> QED BY <1>1, <1>2, <1>3, Invariance, PTL DEF Spec
=============================================================================
