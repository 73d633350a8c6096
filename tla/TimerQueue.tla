----------------------------- MODULE TimerQueue -----------------------------
(***************************************************************************)
(* What the devices of the machine rely on when they arm an event: a set   *)
(* of deadlines.  Time passes, but never more than Late beyond a deadline  *)
(* that is still armed; due events are taken together, earliest first, and *)
(* each one taken is delivered once.  There are no slices, no sorted array *)
(* and no relative clocks here.                                            *)
(***************************************************************************)
EXTENDS Integers, Sequences

CONSTANTS
    Ids,     \* the events
    Lax,     \* those without a deadline guarantee
    Delays,  \* what an event is armed with
    Late     \* how far time may pass a deadline

VARIABLES
    armed,   \* the armed events
    due,     \* clocks until the deadline of an armed or taken event
    batch    \* the events being delivered, in order

vars == <<armed, due, batch>>

Elems(s) == {s[i] : i \in 1..Len(s)}

Init == armed = {} /\ due = [id \in Ids |-> 0] /\ batch = <<>>

\* Arm or re-arm id; from its own delivery the last deadline may be the base.
Arm(id) ==
    /\ armed' = armed \cup {id}
    /\ \/ id \in Lax
       \/ \E d \in Delays : due'[id] = d
       \/ batch # <<>> /\ id = Head(batch) /\ \E d \in Delays : due'[id] = due[id] + d
    /\ due' = [due EXCEPT ![id] = due'[id]]
    /\ UNCHANGED batch

Cancel(id) ==
    /\ id \in armed
    /\ armed' = armed \ {id}
    /\ due' = [due EXCEPT ![id] = IF id \in Elems(batch) THEN @ ELSE 0]
    /\ UNCHANGED batch

\* The same clocks pass for every armed event.
Pass ==
    /\ batch = <<>>
    /\ \E c \in {due[id] - due'[id] : id \in armed} :
          c > 0 /\ due' = [id \in Ids |-> IF id \in armed THEN due[id] - c ELSE due[id]]
    /\ \A id \in armed \ Lax : due'[id] >= -Late
    /\ UNCHANGED <<armed, batch>>

\* batch' is an initial segment of the armed events in deadline order.
Take ==
    /\ batch = <<>>
    /\ Elems(batch') \subseteq armed
    /\ armed' = armed \ Elems(batch')
    /\ \A i, j \in 1..Len(batch') :
          i < j => batch'[i] # batch'[j] /\ due[batch'[i]] <= due[batch'[j]]
    /\ \A id \in Elems(batch') :
          due[id] <= 0 /\ \A later \in armed' : due[id] < due[later]
    /\ UNCHANGED due

Deliver ==
    /\ batch # <<>>
    /\ batch' = Tail(batch)
    /\ due' = [due EXCEPT ![Head(batch)] = IF Head(batch) \in armed THEN @ ELSE 0]
    /\ UNCHANGED armed

Next ==
    \/ \E id \in Ids : Arm(id) \/ Cancel(id)
    \/ Pass \/ Take \/ Deliver

Spec == Init /\ [][Next]_vars
=============================================================================
