------------------------------- MODULE Nevent -------------------------------
(***************************************************************************)
(* The event scheduler of machine/nevent.c and the loop of pccore_exec     *)
(* (machine/pccore.c) that drives it.  Every device of the machine that    *)
(* has to do something later arms an event; CPU instructions spend the     *)
(* clocks of a slice; the slice ends by the first armed event, and         *)
(* nevent_progress then calls back every event that became due.            *)
(*                                                                         *)
(* One instruction is a sequence of charges (the CPU_REMCLOCK -= n of the  *)
(* opcode, of an 8087 operation or of a disk transfer) and of calls of the *)
(* scheduler from the I/O handlers it reaches, in any order.  A callback   *)
(* is a sequence of such calls.                                            *)
(***************************************************************************)
EXTENDS Integers, Sequences, FiniteSets

CONSTANTS
    Ids,       \* the NEVENT_* event numbers
    Stale,     \* those that a handler arms NEVENT_RELATIVE while they are idle
               \*   (cmt.c:370, fdc.c:1320, mpu98ii.c:159)
    Guarded,   \* those only armed after nevent_iswork said no, never reset
    Delays,    \* the eventclock arguments
    MaxClock,  \* NEVENT_MAXCLOCK, the longest slice without an armed event
    MaxStep,   \* bound: the clocks one instruction spends
    MaxDebt,   \* bound: how far STI, POP SS, MOV SS extend one slice
    MaxCalls,  \* bound: scheduler calls of one instruction or callback
    ClockCap   \* bound: the item.clock an event is armed with

ASSUME ConstantsAssumption ==
    /\ Stale \subseteq Ids /\ Guarded \subseteq Ids
    /\ Delays \subseteq Nat
    /\ MaxClock \in Nat \ {0} /\ MaxStep \in Nat \ {0}
    /\ MaxDebt \in Nat /\ MaxCalls \in Nat /\ ClockCap \in Nat

VARIABLES
    level,      \* the ready events, nevent.level[0 .. readyevents-1]
    clock,      \* item[id].clock
    setevent,   \* the ids whose item.flag has NEVENT_SETEVENT
    waitevent,  \* what nevent_execute still has to call, the running one first
    base, rem,  \* CPU_BASECLOCK, CPU_REMCLOCK
    pc,         \* where pccore_exec is: "idle", "instr", "exec" or "cb"
    spent,      \* clocks the running instruction has spent
    calls,      \* scheduler calls of the running instruction or callback
    debt,       \* history: how far the slice was extended past its end
    left        \* history: the clocks until each pending event is due

vars == <<level, clock, setevent, waitevent, base, rem, pc, spent, calls,
          debt, left>>

Elems(s) == {s[i] : i \in 1..Len(s)}

Ready   == Elems(level)
Pending == Ready \cup Elems(waitevent)
Elapsed == base - rem          \* clocks since the slice began

(***************************************************************************)
(* The ready list.                                                         *)
(***************************************************************************)
Without(s, id) ==
    IF id \notin Elems(s) THEN s
    ELSE LET p == CHOOSE i \in 1..Len(s) : s[i] = id
         IN  [i \in 1..(Len(s) - 1) |-> IF i < p THEN s[i] ELSE s[i + 1]]

\* Mutant: the entries move up but the new one is never written.
InsertAtMutant(s, k, id) ==
    [i \in 1..(Len(s) + 1) |-> IF i < k THEN s[i]
                               ELSE IF i = k THEN 0 ELSE s[i - 1]]

InsertAt(s, k, id) ==
    [i \in 1..(Len(s) + 1) |-> IF i < k THEN s[i]
                               ELSE IF i = k THEN id ELSE s[i - 1]]

\* k is where an event of clock c goes in s: before the first later one.
Position(s, k, c) ==
    /\ k \in 1..(Len(s) + 1)
    /\ \A i \in 1..(k - 1) : clock[s[i]] <= c
    /\ k <= Len(s) => c < clock[s[k]]

\* Mutants: an event that comes first does not cut the running slice, or cuts
\* CPU_BASECLOCK but not CPU_REMCLOCK.
CutSliceMutant(k, c) == UNCHANGED <<base, rem>>
CutSliceMutantHalf(k, c) == base' = (IF k = 1 THEN c ELSE base) /\ rem' = rem

\* The event at the head of the list ends the slice.
CutSlice(k, c) ==
    IF k = 1 THEN base' = c /\ rem' = c - Elapsed ELSE UNCHANGED <<base, rem>>

\* Mutant: the flag stays set.
ClearFlagMutant(id) == UNCHANGED setevent

ClearFlag(id) == setevent' = setevent \ {id}

\* nevent_set with item.clock = c; due is the history of the new deadline.
Arm(id, c, due) ==
    /\ c <= ClockCap
    /\ clock' = [clock EXCEPT ![id] = c]
    /\ ClearFlag(id)
    /\ left' = [left EXCEPT ![id] = due]
    /\ \E k \in 1..(Len(level) + 1) :
          /\ Position(Without(level, id), k, c)
          /\ level' = InsertAt(Without(level, id), k, id)
          /\ CutSlice(k, c)

-----------------------------------------------------------------------------
(***************************************************************************)
(* Calls that a handler makes, inside an instruction or inside a callback. *)
(***************************************************************************)
InHandler ==
    /\ pc \in {"instr", "cb"}
    /\ calls < MaxCalls
    /\ calls' = calls + 1
    /\ UNCHANGED <<waitevent, pc, spent, debt>>

\* nevent_set(id, d, proc, NEVENT_ABSOLUTE)
SetAbsolute(id, d) ==
    /\ InHandler
    /\ id \in Guarded => id \notin Ready
    /\ Arm(id, d + Elapsed, d)

\* nevent_set(id, d, proc, NEVENT_RELATIVE) in the event's own callback
SetRelative(id, d) ==
    /\ InHandler
    /\ pc = "cb" /\ id = Head(waitevent)
    /\ id \in Guarded => id \notin Ready
    /\ Arm(id, clock[id] + d, left[id] + d)

\* The same from a port handler, on an idle event: item.clock is whatever
\* the event's last run or reset left there.
SetStale(id, d) ==
    /\ InHandler
    /\ id \in Stale \ Pending
    /\ Arm(id, clock[id] + d, clock[id] + d - Elapsed)

\* nevent_reset: waitevent[] keeps an event that is already being delivered.
Reset(id) ==
    /\ InHandler
    /\ id \in Ready \ Guarded
    /\ level' = Without(level, id)
    /\ left' = [left EXCEPT ![id] = IF id \in Elems(waitevent) THEN @ ELSE 0]
    /\ UNCHANGED <<clock, setevent, base, rem>>

ForceExit ==
    /\ InHandler
    /\ rem > 0
    /\ base' = base - rem
    /\ rem' = 0
    /\ UNCHANGED <<level, clock, setevent, left>>

-----------------------------------------------------------------------------
(***************************************************************************)
(* The CPU side of the loop.                                               *)
(***************************************************************************)
Fetch ==
    /\ pc = "idle" /\ rem > 0
    /\ pc' = "instr"
    /\ spent' = 0 /\ calls' = 0
    /\ UNCHANGED <<level, clock, setevent, waitevent, base, rem, debt, left>>

Charge(c) ==
    /\ pc = "instr"
    /\ spent + c <= MaxStep
    /\ spent' = spent + c
    /\ rem' = rem - c
    /\ left' = [id \in Ids |-> IF id \in Ready THEN left[id] - c ELSE left[id]]
    /\ UNCHANGED <<level, clock, setevent, waitevent, base, pc, calls, debt>>

Retire ==
    /\ pc = "instr" /\ spent > 0
    /\ pc' = "idle"
    /\ spent' = 0 /\ calls' = 0
    /\ UNCHANGED <<level, clock, setevent, waitevent, base, rem, debt, left>>

\* The instruction ends with NEXT_OPCODE (r < 1) or REMAIN_ADJUST(1): exactly
\* one clock, hence one more instruction, remains before the slice ends.
RetireToNext ==
    /\ pc = "instr" /\ spent > 0
    /\ rem < 1 => debt + (1 - rem) <= MaxDebt
    /\ pc' = "idle"
    /\ spent' = 0 /\ calls' = 0
    /\ base' = base + (1 - rem)
    /\ rem' = 1
    /\ debt' = IF rem < 1 THEN debt + (1 - rem) ELSE debt
    /\ UNCHANGED <<level, clock, setevent, waitevent, left>>

\* HLT: the rest of the slice passes at once.
Halt ==
    /\ pc = "idle" /\ rem > 0
    /\ rem' = -1
    /\ left' = [id \in Ids |->
                  IF id \in Ready THEN left[id] - (rem + 1) ELSE left[id]]
    /\ UNCHANGED <<level, clock, setevent, waitevent, base, pc, spent, calls,
                   debt>>

(***************************************************************************)
(* nevent_progress.  level is sorted (Sorted below), so the entries the    *)
(* loop finds due, those with item.clock <= CPU_BASECLOCK, are the first n *)
(* of them.                                                                *)
(***************************************************************************)
DuePrefix(n) ==
    /\ \A i \in 1..n : clock[level[i]] <= base
    /\ \A i \in (n + 1)..Len(level) : clock[level[i]] > base

\* The next slice: the least of NEVENT_MAXCLOCK and the remaining clocks.
NextBase(nb, rest) ==
    LET ends == {MaxClock} \cup {clock[id] - base : id \in rest}
    IN  nb \in ends /\ \A e \in ends : nb <= e

\* Mutant: the last due entry is skipped.
DueMutantShort(n) == SubSeq(level, 1, n - 1)

\* An event whose flag were still set would not be queued a second time.
Due(n) ==
    LET due == SubSeq(level, 1, n)
    IN  IF setevent = {} THEN due
        ELSE SelectSeq(due, LAMBDA id : id \notin setevent)

Progress ==
    /\ pc = "idle" /\ rem <= 0
    /\ clock' = [id \in Ids |-> IF id \in Ready THEN clock[id] - base
                                               ELSE clock[id]]
    /\ \E n \in 0..Len(level) :
          LET rest == SubSeq(level, n + 1, Len(level))
          IN  /\ DuePrefix(n)
              /\ level' = rest
              /\ waitevent' = Due(n)
              /\ setevent' = setevent \cup (Ready \ Elems(rest))
              /\ \E nb \in {MaxClock} \cup {clock[id] - base : id \in Ready} :
                    /\ NextBase(nb, Elems(rest))
                    /\ base' = nb
                    /\ rem' = rem + nb
    /\ pc' = "exec"
    /\ debt' = 0
    /\ UNCHANGED <<spent, calls, left>>

(***************************************************************************)
(* nevent_execute.                                                         *)
(***************************************************************************)
CallBack ==
    /\ pc = "exec" /\ waitevent # <<>>
    /\ pc' = "cb"
    /\ calls' = 0
    /\ UNCHANGED <<level, clock, setevent, waitevent, base, rem, spent, debt,
                   left>>

CallBackDone ==
    /\ pc = "cb"
    /\ pc' = "exec"
    /\ calls' = 0
    /\ ClearFlag(Head(waitevent))
    /\ waitevent' = Tail(waitevent)
    /\ left' = [left EXCEPT ![Head(waitevent)] =
                   IF Head(waitevent) \in Ready THEN @ ELSE 0]
    /\ UNCHANGED <<level, clock, base, rem, spent, debt>>

Executed ==
    /\ pc = "exec" /\ waitevent = <<>>
    /\ pc' = "idle"
    /\ UNCHANGED <<level, clock, setevent, waitevent, base, rem, spent, calls,
                   debt, left>>

-----------------------------------------------------------------------------
\* nevent_allreset and the zeroed CPU clocks: the first pass of the loop
\* runs nevent_progress at once.
Init ==
    /\ level = <<>> /\ waitevent = <<>> /\ setevent = {}
    /\ clock = [id \in Ids |-> 0] /\ left = [id \in Ids |-> 0]
    /\ base = 0 /\ rem = 0
    /\ pc = "idle"
    /\ spent = 0 /\ calls = 0 /\ debt = 0

Handlers ==
    \/ \E id \in Ids, d \in Delays :
          SetAbsolute(id, d) \/ SetRelative(id, d) \/ SetStale(id, d)
    \/ \E id \in Ids : Reset(id)
    \/ ForceExit

Loop ==
    \/ Fetch \/ Retire \/ RetireToNext \/ Halt
    \/ \E c \in 1..MaxStep : Charge(c)
    \/ Progress \/ CallBack \/ CallBackDone \/ Executed

Next == Handlers \/ Loop

Spec == Init /\ [][Next]_vars

\* The emulator thread keeps running the loop.  Handlers owe nothing.
FairSpec == Spec /\ WF_vars(Loop)

-----------------------------------------------------------------------------
\* The abstract queue of deadlines that this machinery implements.
TQ == INSTANCE TimerQueue WITH
          armed <- Ready, due <- left, batch <- waitevent,
          Lax <- Stale, Late <- MaxStep + MaxDebt

\* Slices, the sorted array and the relative clocks are invisible to devices.
ImplementsTimerQueue == TQ!Spec

TypeOK ==
    /\ level \in Seq(Ids) /\ waitevent \in Seq(Ids)
    /\ setevent \subseteq Ids
    /\ clock \in [Ids -> Int] /\ left \in [Ids -> Int]
    /\ base \in Int /\ rem \in Int
    /\ pc \in {"idle", "instr", "exec", "cb"}
    /\ spent \in 0..MaxStep /\ calls \in 0..MaxCalls /\ debt \in 0..MaxDebt

Distinct(s) == \A i, j \in 1..Len(s) : s[i] = s[j] => i = j

\* The ready list stays sorted by item.clock and holds no event twice, whatever
\* order handlers arm, move and reset events in (nevent_set, nevent_reset).
Sorted ==
    /\ Distinct(level)
    /\ \A i, j \in 1..Len(level) : i < j => clock[level[i]] <= clock[level[j]]

\* Time is neither lost nor gained by the relative bookkeeping: the distance
\* nevent_getremain computes is, for every pending event, the delay it was
\* armed with less the clocks the CPU has spent since.  An event re-armed
\* relative in its own callback is due exactly one period after it was due,
\* however late it ran ("the last occurrence is the base", fmtimer.c:35).
TimeExact == \A id \in Pending : left[id] = clock[id] - Elapsed

\* A slice ends no later than the first ready event, but for the clocks by
\* which STI, POP SS and MOV SS pushed its end back.
SliceCoversHead == \A id \in Ready : base - debt <= clock[id]

\* The CPU never starts an instruction while an event is due, but for that
\* extension: a handler that arms an earlier event cuts the running slice.
NothingDueWhenFetching ==
    pc = "idle" /\ rem > 0 => \A id \in Ready : left[id] >= 1 - debt

\* An event runs at most one instruction (and one extension) late, however the
\* slices are cut, merged and force-ended.  An event armed NEVENT_RELATIVE
\* while idle has no such bound.
Deadline ==
    \A id \in Pending \ Stale : left[id] >= -(MaxStep + MaxDebt)

\* A callback that finds NEVENT_SETEVENT set is never early: an event re-armed
\* by an earlier callback of the same pass is called without the flag.
NoEarlyEvent ==
    pc = "cb" /\ Head(waitevent) \in setevent => left[Head(waitevent)] <= 0

\* nevent_progress drops no event: a set flag means the event is still to be
\* called in this pass, so a later pass can queue it again; and no event is
\* called twice in a pass.
NoLostEvent ==
    /\ setevent \subseteq Elems(waitevent)
    /\ Distinct(waitevent)
    /\ pc \in {"idle", "instr"} => waitevent = <<>>

\* An armed event is called, even while other handlers keep arming, moving and
\* resetting other events and cutting slices short, as long as the CPU gets to run:
\* a handler that keeps arming its event for now would stop guest time.
EventuallyCalled ==
    []<>(pc = "instr") =>
        \A id \in Guarded : id \in Ready ~> (pc = "cb" /\ Head(waitevent) = id)
=============================================================================
