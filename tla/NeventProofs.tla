---------------------------- MODULE NeventProofs ----------------------------
(***************************************************************************)
(* The invariants of the event scheduler, for every set of events, every   *)
(* delay and every bound.                                                  *)
(***************************************************************************)
EXTENDS Nevent, SequenceTheorems, TLAPS

(***************************************************************************)
(* The ready list.                                                         *)
(***************************************************************************)
\* A list built by index is a sequence; Elems is its range.
LEMMA ElemsIn ==
    ASSUME NEW S, NEW s \in Seq(S)
    PROVE  /\ Len(s) \in Nat
           /\ \A i \in 1..Len(s) : s[i] \in S /\ s[i] \in Elems(s)
           /\ Elems(s) \subseteq S
<1>1. Len(s) \in Nat
  BY LenProperties
<1>2. \A i \in 1..Len(s) : s[i] \in S
  BY ElementOfSeq
<1> QED BY <1>1, <1>2 DEF Elems

LEMMA BuiltSeq ==
    ASSUME NEW S, NEW n \in Nat, NEW f \in [1..n -> S]
    PROVE  f \in Seq(S) /\ Len(f) = n
<1>1. f \in Seq(S)
  BY SeqDef
<1>2. DOMAIN f = 1..n /\ DOMAIN f = 1..Len(f) /\ Len(f) \in Nat
  BY <1>1, LenProperties
<1> QED BY <1>1, <1>2

\* Taking an event out of a list without repetitions (nevent_reset) leaves the
\* others, in their order.
LEMMA WithoutProperties ==
    ASSUME NEW s \in Seq(Ids), NEW id \in Ids, Distinct(s)
    PROVE  /\ Without(s, id) \in Seq(Ids)
           /\ Elems(Without(s, id)) = Elems(s) \ {id}
           /\ \E p \in Nat : \A i \in 1..Len(Without(s, id)) :
                 LET j == IF i < p THEN i ELSE i + 1
                 IN  j \in 1..Len(s) /\ Without(s, id)[i] = s[j]
<1>0. Len(s) \in Nat /\ \A i \in 1..Len(s) : s[i] \in Ids
  BY ElemsIn
<1>1. CASE id \notin Elems(s)
  <2>1. Without(s, id) = s
    BY <1>1 DEF Without
  <2>2. \A i \in 1..Len(s) :
           LET j == IF i < Len(s) + 1 THEN i ELSE i + 1
           IN  j \in 1..Len(s) /\ s[i] = s[j]
    BY <1>0
  <2>3. Len(s) + 1 \in Nat
    BY <1>0
  <2> QED BY <1>1, <2>1, <2>2, <2>3
<1>2. CASE id \in Elems(s)
  <2> DEFINE p == CHOOSE i \in 1..Len(s) : s[i] = id
             w == [i \in 1..(Len(s) - 1) |-> IF i < p THEN s[i] ELSE s[i + 1]]
  <2>1. p \in 1..Len(s) /\ s[p] = id
    BY <1>2 DEF Elems
  <2>2. Without(s, id) = w
    BY <1>2 DEF Without
  <2> HIDE DEF p
  <2>3. Len(s) - 1 \in Nat
    BY <1>0, <2>1
  <2>4. w \in [1..(Len(s) - 1) -> Ids]
    BY <1>0, <2>1
  <2>5. w \in Seq(Ids) /\ Len(w) = Len(s) - 1
    BY <2>3, <2>4, BuiltSeq
  <2>6. \A i \in 1..Len(w) :
           LET j == IF i < p THEN i ELSE i + 1
           IN  j \in 1..Len(s) /\ w[i] = s[j]
    BY <1>0, <2>1, <2>5
  <2>7. Elems(w) \subseteq Elems(s) \ {id}
    <3> SUFFICES ASSUME NEW i \in 1..Len(w) PROVE w[i] \in Elems(s) /\ w[i] # id
      BY DEF Elems
    <3> DEFINE j == IF i < p THEN i ELSE i + 1
    <3>1. j \in 1..Len(s) /\ w[i] = s[j] /\ j # p
      BY <1>0, <2>1, <2>5, <2>6
    <3> QED BY <3>1, <2>1 DEF Elems, Distinct
  <2>8. Elems(s) \ {id} \subseteq Elems(w)
    <3> SUFFICES ASSUME NEW j \in 1..Len(s), s[j] # id PROVE s[j] \in Elems(w)
      BY DEF Elems
    <3> DEFINE i == IF j < p THEN j ELSE j - 1
    <3>1. i \in 1..Len(w) /\ w[i] = s[j]
      BY <1>0, <2>1, <2>5
    <3> QED BY <3>1 DEF Elems
  <2>9. p \in Nat
    BY <1>0, <2>1
  <2> QED BY <2>2, <2>5, <2>6, <2>7, <2>8, <2>9
<1> QED BY <1>1, <1>2

LEMMA InsertAtProperties ==
    ASSUME NEW s \in Seq(Ids), NEW id \in Ids, NEW k \in 1..(Len(s) + 1)
    PROVE  /\ InsertAt(s, k, id) \in Seq(Ids)
           /\ Len(InsertAt(s, k, id)) = Len(s) + 1
           /\ Elems(InsertAt(s, k, id)) = Elems(s) \cup {id}
<1> DEFINE t == InsertAt(s, k, id)
<1>0. Len(s) \in Nat /\ \A i \in 1..Len(s) : s[i] \in Ids
  BY ElemsIn
<1>1. t \in [1..(Len(s) + 1) -> Ids]
  BY <1>0 DEF InsertAt
<1>2. t \in Seq(Ids) /\ Len(t) = Len(s) + 1
  BY <1>0, <1>1, BuiltSeq
<1>3. Elems(t) \subseteq Elems(s) \cup {id}
  <2> SUFFICES ASSUME NEW i \in 1..Len(t) PROVE t[i] \in Elems(s) \cup {id}
    BY DEF Elems
  <2>1. CASE i < k
    BY <1>0, <1>2, <2>1 DEF InsertAt, Elems
  <2>2. CASE i = k
    BY <1>0, <1>2, <2>2 DEF InsertAt, Elems
  <2>3. CASE i > k
    <3>1. t[i] = s[i - 1] /\ i - 1 \in 1..Len(s)
      BY <1>0, <1>2, <2>3 DEF InsertAt
    <3> QED BY <3>1 DEF Elems
  <2> QED BY <1>0, <1>2, <2>1, <2>2, <2>3
<1>4. id \in Elems(t)
  <2>1. k \in 1..Len(t) /\ t[k] = id
    BY <1>0, <1>2 DEF InsertAt
  <2> QED BY <2>1 DEF Elems
<1>5. Elems(s) \subseteq Elems(t)
  <2> SUFFICES ASSUME NEW j \in 1..Len(s) PROVE s[j] \in Elems(t)
    BY DEF Elems
  <2> DEFINE i == IF j < k THEN j ELSE j + 1
  <2>1. i \in 1..Len(t) /\ t[i] = s[j]
    BY <1>0, <1>2 DEF InsertAt
  <2> QED BY <2>1 DEF Elems
<1> QED BY <1>2, <1>3, <1>4, <1>5

\* nevent_set keeps the list sorted and free of repetitions, where v gives the
\* clocks after the event id has got its new one, and k is its position.
LEMMA InsertionSorts ==
    ASSUME NEW s \in Seq(Ids), NEW id \in Ids, NEW v \in [Ids -> Int], Distinct(s),
           \A i, j \in 1..Len(s) :
               i < j /\ s[i] # id /\ s[j] # id => v[s[i]] <= v[s[j]],
           NEW k \in 1..(Len(Without(s, id)) + 1),
           \A i \in 1..(k - 1) : v[Without(s, id)[i]] <= v[id],
           k <= Len(Without(s, id)) => v[id] < v[Without(s, id)[k]]
    PROVE  LET t == InsertAt(Without(s, id), k, id)
           IN  /\ Distinct(t)
               /\ \A i, j \in 1..Len(t) : i < j => v[t[i]] <= v[t[j]]
<1> DEFINE w == Without(s, id)
           t == InsertAt(w, k, id)
<1>1. w \in Seq(Ids) /\ Elems(w) = Elems(s) \ {id}
  BY WithoutProperties
<1>2. PICK p \in Nat : \A i \in 1..Len(w) :
         LET j == IF i < p THEN i ELSE i + 1
         IN  j \in 1..Len(s) /\ w[i] = s[j]
  BY WithoutProperties
<1>3. /\ Len(w) \in Nat /\ \A i \in 1..Len(w) : w[i] \in Ids /\ w[i] # id
      /\ Len(s) \in Nat /\ \A i \in 1..Len(s) : s[i] \in Ids
  BY <1>1, ElemsIn
<1>4. \A i, j \in 1..Len(w) : i < j => w[i] # w[j] /\ v[w[i]] <= v[w[j]]
  <2> SUFFICES ASSUME NEW i \in 1..Len(w), NEW j \in 1..Len(w), i < j
               PROVE  w[i] # w[j] /\ v[w[i]] <= v[w[j]]
    OBVIOUS
  <2> DEFINE a == IF i < p THEN i ELSE i + 1
             b == IF j < p THEN j ELSE j + 1
  <2>1. a \in 1..Len(s) /\ w[i] = s[a] /\ b \in 1..Len(s) /\ w[j] = s[b]
    BY <1>2
  <2>2. a < b
    BY SMTT(40), <1>2, <1>3
  <2>3. w[i] \in Ids /\ w[i] # id /\ w[j] # id
    BY <1>3
  <2> HIDE DEF a, b, w
  <2>4. s[a] # s[b]
    BY <2>1, <2>2, <1>3 DEF Distinct
  <2> QED BY <2>1, <2>2, <2>3, <2>4
<1>5. Len(t) = Len(w) + 1
  BY <1>1, InsertAtProperties
<1>6. \A i \in 1..Len(t) :
         t[i] = IF i < k THEN w[i] ELSE IF i = k THEN id ELSE w[i - 1]
  BY <1>5 DEF InsertAt
<1> HIDE DEF w, t
<1>7. \A i \in 1..Len(w) : (i < k => v[w[i]] <= v[id]) /\ (i >= k => v[id] <= v[w[i]])
  <2> SUFFICES ASSUME NEW i \in 1..Len(w)
               PROVE  (i < k => v[w[i]] <= v[id]) /\ (i >= k => v[id] <= v[w[i]])
    OBVIOUS
  <2>1. CASE i < k
    BY <1>3, <2>1 DEF w
  <2>2. CASE i >= k
    <3>1. k \in 1..Len(w) /\ v[id] < v[w[k]]
      BY <1>3, <2>2 DEF w
    <3>2. v[w[k]] <= v[w[i]]
      BY <1>3, <1>4, <2>2, <3>1
    <3> QED BY <1>3, <2>2, <3>1, <3>2
  <2> QED BY <1>3, <2>1, <2>2 DEF w
<1>8. \A i, j \in 1..Len(t) : i < j => t[i] # t[j] /\ v[t[i]] <= v[t[j]]
  <2> SUFFICES ASSUME NEW i \in 1..Len(t), NEW j \in 1..Len(t), i < j
               PROVE  t[i] # t[j] /\ v[t[i]] <= v[t[j]]
    OBVIOUS
  <2>0. i \in Int /\ j \in Int /\ k \in Int
    BY <1>3, <1>5 DEF w
  <2>1. CASE i < k /\ j < k
    <3>1. i \in 1..Len(w) /\ j \in 1..Len(w) /\ t[i] = w[i] /\ t[j] = w[j]
      BY <1>3, <1>5, <1>6, <2>0, <2>1 DEF w
    <3> QED BY <1>4, <3>1
  <2>2. CASE i < k /\ j = k
    BY SMTT(40), <1>3, <1>5, <1>6, <1>7, <2>0, <2>2 DEF w
  <2>3. CASE i < k /\ j > k
    <3>1. i \in 1..Len(w) /\ j - 1 \in 1..Len(w) /\ t[i] = w[i] /\ t[j] = w[j - 1]
            /\ i < j - 1
      BY <1>3, <1>5, <1>6, <2>0, <2>3 DEF w
    <3> QED BY <1>4, <3>1
  <2>4. CASE i = k /\ j > k
    BY <1>3, <1>5, <1>6, <1>7, <2>0, <2>4 DEF w
  <2>5. CASE i > k
    <3>1. i - 1 \in 1..Len(w) /\ j - 1 \in 1..Len(w) /\ t[i] = w[i - 1]
            /\ t[j] = w[j - 1] /\ i - 1 < j - 1
      BY <1>3, <1>5, <1>6, <2>0, <2>5 DEF w
    <3> QED BY <1>4, <3>1
  <2> QED BY <2>0, <2>1, <2>2, <2>3, <2>4, <2>5
<1>9. Len(t) \in Nat
  BY <1>3, <1>5
<1>10. Distinct(t)
  BY <1>8, <1>9 DEF Distinct
<1> QED BY <1>8, <1>10 DEF t, w

-----------------------------------------------------------------------------
(***************************************************************************)
(* The inductive invariant.  The flags hide the events whose callback was  *)
(* overtaken by a re-arm; the running instruction may be late by what it   *)
(* has spent itself.                                                       *)
(***************************************************************************)
FlaggedAreDue == \A id \in setevent : left[id] <= 0

CallingSomeEvent == pc = "cb" => waitevent # <<>>

InstructionLate ==
    pc = "instr" => \A id \in Ready \ Stale : left[id] >= -(debt + spent)

\* Events that are due in one pass are called in the order they were due.
DueOrder ==
    \A i, j \in 1..Len(waitevent) :
        i < j /\ waitevent[i] \in setevent /\ waitevent[j] \in setevent
            => left[waitevent[i]] <= left[waitevent[j]]

IInv ==
    /\ TypeOK /\ Sorted /\ TimeExact /\ SliceCoversHead /\ Deadline
    /\ NoLostEvent /\ DueOrder
    /\ FlaggedAreDue /\ CallingSomeEvent /\ InstructionLate

\* What every nevent_set does, whatever its clock argument.
LEMMA ArmStep ==
    ASSUME IInv, NEW id \in Ids, NEW c \in Int, NEW due \in Int,
           Arm(id, c, due), waitevent' = waitevent, debt' = debt,
           due = c - Elapsed
    PROVE  /\ level' \in Seq(Ids) /\ Ready' = Ready \cup {id}
           /\ clock' = [clock EXCEPT ![id] = c] /\ clock' \in [Ids -> Int]
           /\ left' = [left EXCEPT ![id] = due] /\ left' \in [Ids -> Int]
           /\ setevent' = setevent \ {id}
           /\ base' \in Int /\ rem' \in Int /\ Elapsed' = Elapsed
           /\ Sorted' /\ TimeExact' /\ SliceCoversHead'
<1> DEFINE w == Without(level, id)
<1>1. /\ level \in Seq(Ids) /\ waitevent \in Seq(Ids) /\ clock \in [Ids -> Int]
      /\ left \in [Ids -> Int] /\ base \in Int /\ rem \in Int /\ debt \in Nat
      /\ Distinct(level)
  BY ConstantsAssumption DEF IInv, TypeOK, Sorted
<1>2. /\ clock' = [clock EXCEPT ![id] = c] /\ left' = [left EXCEPT ![id] = due]
      /\ setevent' = setevent \ {id}
  BY DEF Arm, ClearFlag
<1>3. clock' \in [Ids -> Int] /\ left' \in [Ids -> Int]
  BY <1>1, <1>2
<1>4. PICK k \in 1..(Len(level) + 1) :
         /\ Position(w, k, c) /\ level' = InsertAt(w, k, id) /\ CutSlice(k, c)
  BY DEF Arm
<1>5. w \in Seq(Ids) /\ Elems(w) = Ready \ {id}
  BY <1>1, WithoutProperties DEF Ready
<1>6. /\ Len(w) \in Nat /\ k \in 1..(Len(w) + 1)
      /\ \A i \in 1..Len(w) : w[i] \in Elems(w) /\ w[i] \in Ids
  BY <1>4, <1>5, ElemsIn DEF Position
<1> HIDE DEF w
<1>7. level' \in Seq(Ids) /\ Ready' = Ready \cup {id}
  BY <1>4, <1>5, <1>6, InsertAtProperties DEF Ready
<1>8. \A i \in 1..Len(w) : clock'[w[i]] = clock[w[i]]
  BY <1>1, <1>2, <1>5, <1>6
<1>9. clock'[id] = c
  BY <1>1, <1>2
<1>10. \A i \in 1..(k - 1) : clock'[w[i]] <= clock'[id]
  <2>1. \A i \in 1..(k - 1) : i \in 1..Len(w)
    BY <1>6
  <2>2. \A i \in 1..(k - 1) : clock[w[i]] <= c
    BY <1>4 DEF Position
  <2> QED BY <1>8, <1>9, <2>1, <2>2
<1>11. k <= Len(w) => clock'[id] < clock'[w[k]]
  BY <1>4, <1>6, <1>8, <1>9 DEF Position
<1>12. \A i, j \in 1..Len(level) :
          i < j /\ level[i] # id /\ level[j] # id => clock'[level[i]] <= clock'[level[j]]
  <2>1. \A i \in 1..Len(level) : level[i] \in Ids
    BY <1>1, ElemsIn
  <2> QED BY <1>1, <1>2, <2>1 DEF IInv, Sorted
<1>13. Sorted'
  <2>1. LET t == InsertAt(w, k, id)
        IN  /\ Distinct(t)
            /\ \A i, j \in 1..Len(t) : i < j => clock'[t[i]] <= clock'[t[j]]
    BY <1>1, <1>3, <1>6, <1>10, <1>11, <1>12, InsertionSorts DEF w
  <2> QED BY <1>4, <2>1 DEF Sorted, Distinct
<1>14. base' \in Int /\ rem' \in Int /\ Elapsed' = Elapsed
  BY SMTT(40), <1>1, <1>4 DEF CutSlice, Elapsed
<1>15. TimeExact'
  <2>1. Pending' = Pending \cup {id}
    BY <1>7 DEF Pending
  <2>2. Pending \subseteq Ids
    BY <1>1, ElemsIn DEF Pending, Ready
  <2> SUFFICES ASSUME NEW x \in Pending' PROVE left'[x] = clock'[x] - Elapsed'
    BY DEF TimeExact
  <2>3. CASE x = id
    BY <1>1, <1>2, <1>14, <2>3
  <2>4. CASE x # id
    BY <1>1, <1>2, <1>14, <2>1, <2>2, <2>4 DEF IInv, TimeExact
  <2> QED BY <2>3, <2>4
<1>16. SliceCoversHead'
  <2> SUFFICES ASSUME NEW x \in Ready' PROVE base' - debt' <= clock'[x]
    BY DEF SliceCoversHead
  <2>1. CASE k = 1
    <3>1. base' = c
      BY <1>4, <2>1 DEF CutSlice
    <3>2. c <= clock'[x]
      <4>1. level'[1] = id /\ 1 \in 1..Len(level') /\ Len(level') \in Nat
        BY <1>4, <1>5, <1>6, <2>1, InsertAtProperties DEF InsertAt
      <4>2. PICK j \in 1..Len(level') : level'[j] = x
        BY DEF Ready, Elems
      <4> QED BY <1>9, <1>13, <1>3, <4>1, <4>2 DEF Sorted
    <3>3. x \in Ids
      BY <1>7, ElemsIn DEF Ready
    <3> QED BY SMTT(40), <1>1, <1>3, <3>1, <3>2, <3>3
  <2>2. CASE k # 1
    <3>1. base' = base
      BY <1>4, <2>2 DEF CutSlice
    <3>2. CASE x = id
      <4>1. 1 \in 1..(k - 1) /\ 1 \in 1..Len(w)
        BY <1>6, <2>2
      <4>2. clock[w[1]] <= c /\ w[1] \in Ready
        BY <1>4, <1>5, <1>6, <4>1 DEF Position
      <4>3. base - debt <= clock[w[1]] /\ clock[w[1]] \in Int
        BY <1>1, <1>6, <4>1, <4>2 DEF IInv, SliceCoversHead
      <4> QED BY <1>1, <1>9, <3>1, <3>2, <4>2, <4>3
    <3>3. CASE x # id
      <4>1. x \in Ready /\ x \in Ids
        BY <1>7, <3>3, <1>1, ElemsIn DEF Ready
      <4> QED BY <1>1, <1>2, <3>1, <3>3, <4>1 DEF IInv, SliceCoversHead
    <3> QED BY <3>2, <3>3
  <2> QED BY <2>1, <2>2
<1> QED BY <1>2, <1>3, <1>7, <1>13, <1>14, <1>15, <1>16

\* A handler's nevent_set preserves the invariant when the deadline it records
\* is no earlier than the most an event may be late.
LEMMA ArmPreservesIInv ==
    ASSUME IInv, NEW id \in Ids, NEW c \in Int, NEW due \in Int,
           InHandler, Arm(id, c, due), due = c - Elapsed,
           id \notin Stale => due >= -(MaxStep + MaxDebt),
           id \notin Stale /\ pc = "instr" => due >= 0
    PROVE  IInv'
<1>1. /\ waitevent' = waitevent /\ debt' = debt /\ pc' = pc /\ spent' = spent
      /\ calls' \in 0..MaxCalls
  BY ConstantsAssumption DEF InHandler, IInv, TypeOK
<1>2. /\ level' \in Seq(Ids) /\ Ready' = Ready \cup {id}
      /\ clock' \in [Ids -> Int]
      /\ left' = [left EXCEPT ![id] = due] /\ left' \in [Ids -> Int]
      /\ setevent' = setevent \ {id}
      /\ base' \in Int /\ rem' \in Int
      /\ Sorted' /\ TimeExact' /\ SliceCoversHead'
  BY <1>1, ArmStep
<1>3. /\ left \in [Ids -> Int] /\ setevent \subseteq Ids /\ waitevent \in Seq(Ids)
      /\ debt \in Nat /\ spent \in Nat
  BY ConstantsAssumption DEF IInv, TypeOK
<1>4. TypeOK'
  BY <1>1, <1>2 DEF IInv, TypeOK
<1>5. Deadline'
  <2>1. Pending' = Pending \cup {id}
    BY <1>1, <1>2 DEF Pending
  <2>2. \A x \in Pending : x \in Ids
    BY <1>3, ElemsIn DEF Pending, Ready, IInv, TypeOK
  <2> QED BY <1>2, <1>3, <2>1, <2>2 DEF IInv, Deadline
<1>6. NoLostEvent'
  BY <1>1, <1>2 DEF IInv, NoLostEvent, Elems, Distinct
<1>7. FlaggedAreDue'
  BY <1>2, <1>3 DEF IInv, FlaggedAreDue
<1>8. DueOrder'
  <2> SUFFICES ASSUME NEW i \in 1..Len(waitevent), NEW j \in 1..Len(waitevent), i < j,
                      waitevent[i] \in setevent', waitevent[j] \in setevent'
               PROVE  left'[waitevent[i]] <= left'[waitevent[j]]
    BY <1>1 DEF DueOrder
  <2>1. /\ waitevent[i] \in setevent /\ waitevent[i] # id /\ waitevent[i] \in Ids
        /\ waitevent[j] \in setevent /\ waitevent[j] # id /\ waitevent[j] \in Ids
    BY <1>2, <1>3
  <2>2. left[waitevent[i]] <= left[waitevent[j]]
    BY <2>1 DEF IInv, DueOrder
  <2> QED BY <1>2, <1>3, <2>1, <2>2
<1>9. CallingSomeEvent'
  BY <1>1 DEF IInv, CallingSomeEvent
<1>10. InstructionLate'
  <2> SUFFICES ASSUME pc = "instr", NEW x \in (Ready \cup {id}) \ Stale
               PROVE  left'[x] >= -(debt + spent)
    BY <1>1, <1>2 DEF InstructionLate
  <2>1. CASE x = id
    BY <1>2, <1>3, <2>1
  <2>2. CASE x # id
    BY <1>2, <1>3, <2>2 DEF IInv, InstructionLate
  <2> QED BY <2>1, <2>2
<1> QED BY <1>2, <1>4, <1>5, <1>6, <1>7, <1>8, <1>9, <1>10 DEF IInv

LEMMA SetAbsoluteStep ==
    ASSUME IInv, NEW id \in Ids, NEW d \in Delays, SetAbsolute(id, d)
    PROVE  IInv'
<1>1. d \in Nat /\ Elapsed \in Int
  BY ConstantsAssumption DEF IInv, TypeOK, Elapsed
<1>2. InHandler /\ Arm(id, d + Elapsed, d)
  BY DEF SetAbsolute
<1> QED BY <1>1, <1>2, ArmPreservesIInv, ConstantsAssumption

LEMMA SetRelativeStep ==
    ASSUME IInv, NEW id \in Ids, NEW d \in Delays, SetRelative(id, d)
    PROVE  IInv'
<1>1. d \in Nat /\ clock[id] \in Int /\ left[id] \in Int /\ Elapsed \in Int
  BY ConstantsAssumption DEF IInv, TypeOK, Elapsed
<1>2. InHandler /\ Arm(id, clock[id] + d, left[id] + d) /\ pc = "cb" /\ id = Head(waitevent)
  BY DEF SetRelative
<1>3. id \in Pending
  <2>1. waitevent \in Seq(Ids) /\ waitevent # <<>>
    BY <1>2 DEF IInv, TypeOK, CallingSomeEvent
  <2>2. 1 \in 1..Len(waitevent) /\ Head(waitevent) = waitevent[1]
    BY <2>1, EmptySeq
  <2> QED BY <1>2, <2>2 DEF Pending, Elems
<1>4. left[id] = clock[id] - Elapsed /\ (id \notin Stale => left[id] >= -(MaxStep + MaxDebt))
  BY <1>3 DEF IInv, TimeExact, Deadline
<1>5. left[id] + d = (clock[id] + d) - Elapsed
  BY <1>1, <1>4
<1>6. id \notin Stale => left[id] + d >= -(MaxStep + MaxDebt)
  BY <1>1, <1>4, ConstantsAssumption
<1> QED BY <1>1, <1>2, <1>5, <1>6, ArmPreservesIInv

LEMMA SetStaleStep ==
    ASSUME IInv, NEW id \in Ids, NEW d \in Delays, SetStale(id, d)
    PROVE  IInv'
<1>1. d \in Nat /\ clock[id] \in Int /\ Elapsed \in Int
  BY ConstantsAssumption DEF IInv, TypeOK, Elapsed
<1>2. InHandler /\ Arm(id, clock[id] + d, clock[id] + d - Elapsed) /\ id \in Stale
  BY DEF SetStale
<1> QED BY <1>1, <1>2, ArmPreservesIInv

LEMMA ResetStep ==
    ASSUME IInv, NEW id \in Ids, Reset(id)
    PROVE  IInv'
<1>1. /\ waitevent' = waitevent /\ debt' = debt /\ pc' = pc /\ spent' = spent
      /\ calls' \in 0..MaxCalls /\ clock' = clock /\ setevent' = setevent
      /\ base' = base /\ rem' = rem /\ level' = Without(level, id)
      /\ left' = [left EXCEPT ![id] = IF id \in Elems(waitevent) THEN @ ELSE 0]
  BY ConstantsAssumption DEF Reset, InHandler, IInv, TypeOK
<1>2. /\ level \in Seq(Ids) /\ Distinct(level) /\ left \in [Ids -> Int]
      /\ setevent \subseteq Elems(waitevent) /\ waitevent \in Seq(Ids)
  BY DEF IInv, TypeOK, Sorted, NoLostEvent
<1>3. level' \in Seq(Ids) /\ Ready' = Ready \ {id}
  BY <1>1, <1>2, WithoutProperties DEF Ready
<1>4. \A x \in Elems(waitevent) : left'[x] = left[x]
  BY <1>1, <1>2, ElemsIn
<1>5. \A x \in Ready' : x \in Ids /\ left'[x] = left[x] /\ x \in Ready
  <2>1. Ready \subseteq Ids
    BY <1>2, ElemsIn DEF Ready
  <2> QED BY <1>1, <1>2, <1>3, <2>1
<1>6. TypeOK'
  BY <1>1, <1>2, <1>3 DEF IInv, TypeOK
<1>7. Sorted'
  <2>1. PICK p \in Nat : \A i \in 1..Len(level') :
           LET j == IF i < p THEN i ELSE i + 1
           IN  j \in 1..Len(level) /\ level'[i] = level[j]
    <3>1. \E p \in Nat : \A i \in 1..Len(Without(level, id)) :
             LET j == IF i < p THEN i ELSE i + 1
             IN  j \in 1..Len(level) /\ Without(level, id)[i] = level[j]
      BY <1>2, WithoutProperties
    <3> QED BY <1>1, <3>1
  <2>2. ASSUME NEW i \in 1..Len(level'), NEW j \in 1..Len(level'), i < j
        PROVE  level'[i] # level'[j] /\ clock[level'[i]] <= clock[level'[j]]
    <3> DEFINE a == IF i < p THEN i ELSE i + 1
               b == IF j < p THEN j ELSE j + 1
    <3>1. a \in 1..Len(level) /\ b \in 1..Len(level)
          /\ level'[i] = level[a] /\ level'[j] = level[b]
      BY <2>1
    <3>2. a < b /\ a # b
      BY <2>1, <2>2, <1>3, ElemsIn
    <3> HIDE DEF a, b
    <3> QED BY <3>1, <3>2 DEF IInv, Sorted, Distinct
  <2>3. Len(level') \in Nat
    BY <1>3, ElemsIn
  <2> QED BY SMTT(40), <1>1, <2>2, <2>3 DEF Sorted, Distinct
<1>8. TimeExact'
  BY <1>1, <1>4, <1>5 DEF IInv, TimeExact, Pending, Elapsed
<1>9. SliceCoversHead'
  BY <1>1, <1>5 DEF IInv, SliceCoversHead
<1>10. Deadline'
  BY <1>1, <1>4, <1>5 DEF IInv, Deadline, Pending
<1>11. NoLostEvent' /\ CallingSomeEvent'
  BY <1>1 DEF IInv, NoLostEvent, CallingSomeEvent, Elems, Distinct
<1>12. FlaggedAreDue'
  BY <1>1, <1>2, <1>4 DEF IInv, FlaggedAreDue
<1>13. DueOrder'
  <2>1. \A i \in 1..Len(waitevent) : waitevent[i] \in Elems(waitevent)
    BY DEF Elems
  <2> QED BY <1>1, <1>4, <2>1 DEF IInv, DueOrder
<1>14. InstructionLate'
  BY <1>1, <1>5 DEF IInv, InstructionLate
<1> QED BY <1>6, <1>7, <1>8, <1>9, <1>10, <1>11, <1>12, <1>13, <1>14 DEF IInv

LEMMA ForceExitStep ==
    ASSUME IInv, ForceExit
    PROVE  IInv'
<1>1. /\ waitevent' = waitevent /\ debt' = debt /\ pc' = pc /\ spent' = spent
      /\ calls' \in 0..MaxCalls /\ level' = level /\ clock' = clock
      /\ setevent' = setevent /\ left' = left
      /\ base' = base - rem /\ rem' = 0 /\ rem > 0
  BY ConstantsAssumption DEF ForceExit, InHandler, IInv, TypeOK
<1>2. base \in Int /\ rem \in Int /\ debt \in Nat /\ clock \in [Ids -> Int] /\ level \in Seq(Ids)
  BY ConstantsAssumption DEF IInv, TypeOK
<1>3. Elapsed' = Elapsed /\ Ready' = Ready /\ Pending' = Pending /\ Ready \subseteq Ids
  BY <1>1, <1>2, ElemsIn DEF Elapsed, Ready, Pending
<1>4. TypeOK' /\ Sorted' /\ Deadline' /\ NoLostEvent' /\ DueOrder' /\ FlaggedAreDue'
      /\ CallingSomeEvent' /\ InstructionLate'
  BY <1>1, <1>2, <1>3 DEF IInv, TypeOK, Sorted, Deadline, NoLostEvent, DueOrder,
     FlaggedAreDue, CallingSomeEvent, InstructionLate, Distinct, Elems
<1>5. TimeExact'
  BY <1>1, <1>3 DEF IInv, TimeExact
<1>6. SliceCoversHead'
  BY <1>1, <1>2, <1>3 DEF IInv, SliceCoversHead
<1> QED BY <1>4, <1>5, <1>6 DEF IInv

\* What is left of a slice bounds what is left of every ready event.
LEMMA HeadRoom ==
    ASSUME IInv, NEW id \in Ready
    PROVE  left[id] >= rem - debt /\ id \in Ids /\ left[id] \in Int
<1>1. /\ level \in Seq(Ids) /\ base \in Int /\ rem \in Int /\ debt \in Nat
      /\ clock \in [Ids -> Int] /\ left \in [Ids -> Int]
  BY ConstantsAssumption DEF IInv, TypeOK
<1>2. id \in Ids
  BY <1>1, ElemsIn DEF Ready
<1>3. left[id] = clock[id] - (base - rem) /\ base - debt <= clock[id]
  BY DEF IInv, TimeExact, SliceCoversHead, Pending, Elapsed
<1> QED BY <1>1, <1>2, <1>3

\* Instructions between two calls of the scheduler.
LEMMA CpuStep ==
    ASSUME IInv, Fetch \/ Retire \/ RetireToNext
    PROVE  IInv'
<1>1. /\ level' = level /\ clock' = clock /\ setevent' = setevent
      /\ waitevent' = waitevent /\ left' = left /\ spent' = 0 /\ calls' = 0
      /\ pc \in {"idle", "instr"} /\ pc' \in {"idle", "instr"}
      /\ Elapsed' = Elapsed /\ base' \in Int /\ rem' \in Int
      /\ debt' \in 0..MaxDebt /\ base' - debt' <= base - debt
  <2>1. base \in Int /\ rem \in Int /\ debt \in 0..MaxDebt
    BY DEF IInv, TypeOK
  <2>2. CASE Fetch \/ Retire
    BY <2>1, <2>2, ConstantsAssumption DEF Fetch, Retire, Elapsed
  <2>3. CASE RetireToNext
    <3>1. /\ base' = base + (1 - rem) /\ rem' = 1
          /\ debt' = IF rem < 1 THEN debt + (1 - rem) ELSE debt
          /\ rem < 1 => debt + (1 - rem) <= MaxDebt
      BY <2>3 DEF RetireToNext
    <3>2. debt' \in 0..MaxDebt /\ base' - debt' <= base - debt
      BY <2>1, <3>1, ConstantsAssumption
    <3> QED BY <2>1, <2>3, <3>1, <3>2 DEF RetireToNext, Elapsed
  <2> QED BY <2>2, <2>3
<1>2. /\ base \in Int /\ debt \in Nat /\ clock \in [Ids -> Int] /\ level \in Seq(Ids)
      /\ left \in [Ids -> Int] /\ MaxDebt \in Nat /\ rem \in Int
  BY ConstantsAssumption DEF IInv, TypeOK
<1>3. Ready' = Ready /\ Pending' = Pending /\ Ready \subseteq Ids
  BY <1>1, <1>2, ElemsIn DEF Ready, Pending
<1>4. TypeOK' /\ Sorted' /\ Deadline' /\ NoLostEvent' /\ DueOrder' /\ FlaggedAreDue'
      /\ CallingSomeEvent'
  BY <1>1, <1>2, <1>3, ConstantsAssumption DEF IInv, TypeOK, Sorted, Deadline, NoLostEvent,
     DueOrder, FlaggedAreDue, CallingSomeEvent, Distinct, Elems
<1>5. TimeExact'
  BY <1>1, <1>3 DEF IInv, TimeExact
<1>6. SliceCoversHead'
  <2> SUFFICES ASSUME NEW x \in Ready PROVE base' - debt' <= clock[x]
    BY <1>1, <1>3 DEF SliceCoversHead
  <2>1. base - debt <= clock[x] /\ clock[x] \in Int
    BY <1>2, <1>3 DEF IInv, SliceCoversHead
  <2>2. base' - debt' \in Int /\ base - debt \in Int
    BY <1>1, <1>2
  <2> QED BY <1>1, <2>1, <2>2
<1>7. InstructionLate'
  <2> SUFFICES ASSUME pc' = "instr", NEW x \in Ready \ Stale
               PROVE  left[x] >= -(debt' + 0)
    BY <1>1, <1>3 DEF InstructionLate
  <2>1. Fetch /\ rem > 0 /\ debt' = debt
    BY DEF Fetch, Retire, RetireToNext
  <2> QED BY <1>2, <2>1, HeadRoom
<1> QED BY <1>4, <1>5, <1>6, <1>7 DEF IInv

\* Clocks pass, in an instruction or in HLT.
LEMMA ChargeStep ==
    ASSUME IInv, NEW c \in 1..MaxStep, Charge(c)
    PROVE  IInv'
<1>1. /\ level' = level /\ clock' = clock /\ setevent' = setevent
      /\ waitevent' = waitevent /\ spent' = spent + c /\ calls' = calls
      /\ pc = "instr" /\ pc' = pc /\ base' = base /\ rem' = rem - c /\ debt' = debt
      /\ spent + c <= MaxStep
      /\ left' = [id \in Ids |-> IF id \in Ready THEN left[id] - c ELSE left[id]]
  BY DEF Charge
<1>2. /\ base \in Int /\ debt \in 0..MaxDebt /\ clock \in [Ids -> Int] /\ level \in Seq(Ids)
      /\ left \in [Ids -> Int] /\ MaxDebt \in Nat /\ rem \in Int
      /\ spent \in Nat /\ MaxStep \in Nat /\ c \in Nat
  BY ConstantsAssumption DEF IInv, TypeOK
<1>3. waitevent = <<>> /\ setevent = {} /\ Len(waitevent) = 0 /\ Elems(waitevent) = {}
  BY <1>1 DEF IInv, NoLostEvent, Elems
<1>4. Ready' = Ready /\ Pending' = Ready /\ Pending = Ready /\ Ready \subseteq Ids
  BY <1>1, <1>2, <1>3, ElemsIn DEF Ready, Pending
<1>5. TypeOK'
  BY <1>1, <1>2 DEF IInv, TypeOK
<1>6. Sorted' /\ NoLostEvent' /\ DueOrder' /\ FlaggedAreDue' /\ CallingSomeEvent'
  BY <1>1, <1>3 DEF IInv, Sorted, NoLostEvent, DueOrder, FlaggedAreDue, CallingSomeEvent,
     Distinct, Elems
<1>7. TimeExact'
  BY <1>1, <1>2, <1>4 DEF IInv, TimeExact, Elapsed
<1>8. SliceCoversHead'
  BY <1>1, <1>4 DEF IInv, SliceCoversHead
<1>9. \A x \in Ready \ Stale : left'[x] >= -(debt + spent + c)
  BY <1>1, <1>2, <1>4 DEF IInv, InstructionLate
<1>10. InstructionLate'
  <2>1. -(debt + spent + c) = -(debt' + spent')
    BY <1>1, <1>2
  <2> QED BY <1>4, <1>9, <2>1 DEF InstructionLate
<1>11. Deadline'
  <2>1. -(debt + spent + c) >= -(MaxStep + MaxDebt)
    BY <1>1, <1>2
  <2>2. \A x \in Ready : left'[x] \in Int
    BY <1>1, <1>2, <1>4
  <2> QED BY <1>2, <1>4, <1>9, <2>1, <2>2 DEF Deadline
<1> QED BY <1>5, <1>6, <1>7, <1>8, <1>10, <1>11 DEF IInv

LEMMA HaltStep ==
    ASSUME IInv, Halt
    PROVE  IInv'
<1>1. /\ level' = level /\ clock' = clock /\ setevent' = setevent
      /\ waitevent' = waitevent /\ spent' = spent /\ calls' = calls
      /\ pc = "idle" /\ pc' = pc /\ base' = base /\ rem > 0 /\ rem' = -1 /\ debt' = debt
      /\ left' = [id \in Ids |->
                     IF id \in Ready THEN left[id] - (rem + 1) ELSE left[id]]
  BY DEF Halt
<1>2. /\ base \in Int /\ debt \in 0..MaxDebt /\ clock \in [Ids -> Int] /\ level \in Seq(Ids)
      /\ left \in [Ids -> Int] /\ MaxDebt \in Nat /\ rem \in Int /\ MaxStep \in Nat \ {0}
  BY ConstantsAssumption DEF IInv, TypeOK
<1>3. waitevent = <<>> /\ setevent = {} /\ Len(waitevent) = 0 /\ Elems(waitevent) = {}
  BY <1>1 DEF IInv, NoLostEvent, Elems
<1>4. Ready' = Ready /\ Pending' = Ready /\ Pending = Ready /\ Ready \subseteq Ids
  BY <1>1, <1>2, <1>3, ElemsIn DEF Ready, Pending
<1>5. TypeOK'
  BY <1>1, <1>2 DEF IInv, TypeOK
<1>6. Sorted' /\ NoLostEvent' /\ DueOrder' /\ FlaggedAreDue' /\ CallingSomeEvent'
      /\ InstructionLate'
  BY <1>1, <1>3 DEF IInv, Sorted, NoLostEvent, DueOrder, FlaggedAreDue, CallingSomeEvent,
     InstructionLate, Distinct, Elems
<1>7. TimeExact'
  BY <1>1, <1>2, <1>4 DEF IInv, TimeExact, Elapsed
<1>8. SliceCoversHead'
  BY <1>1, <1>4 DEF IInv, SliceCoversHead
<1>9. Deadline'
  <2> SUFFICES ASSUME NEW x \in Ready \ Stale PROVE left'[x] >= -(MaxStep + MaxDebt)
    BY <1>4 DEF Deadline
  <2>1. left[x] >= rem - debt /\ left[x] \in Int /\ left'[x] = left[x] - (rem + 1)
    BY <1>1, HeadRoom
  <2> QED BY <1>1, <1>2, <2>1
<1> QED BY <1>5, <1>6, <1>7, <1>8, <1>9 DEF IInv

\* What nevent_progress moves: the first n of the ready list, those that are due,
\* become the wait list in their order, and the rest stays.
LEMMA ProgressShape ==
    ASSUME IInv, Progress
    PROVE  \E n \in 0..Len(level) :
              /\ \A i \in 1..n : clock[level[i]] <= base
              /\ \A i \in (n + 1)..Len(level) : clock[level[i]] > base
              /\ waitevent' \in Seq(Ids) /\ Len(waitevent') = n
              /\ \A i \in 1..n : waitevent'[i] = level[i]
              /\ level' \in Seq(Ids) /\ Len(level') = Len(level) - n
              /\ \A i \in 1..(Len(level) - n) : level'[i] = level[n + i]
              /\ Ready = Ready' \cup Elems(waitevent')
              /\ setevent' = Ready \ Ready' /\ setevent' \subseteq Elems(waitevent')
              /\ base' \in Int /\ rem' = rem + base'
              /\ \A x \in Ready' : base' <= clock[x] - base
<1>1. /\ pc = "idle" /\ rem <= 0 /\ pc' = "exec" /\ debt' = 0
      /\ spent' = spent /\ calls' = calls /\ left' = left
      /\ clock' = [id \in Ids |-> IF id \in Ready THEN clock[id] - base ELSE clock[id]]
  BY DEF Progress
<1>2. /\ base \in Int /\ debt \in 0..MaxDebt /\ clock \in [Ids -> Int] /\ level \in Seq(Ids)
      /\ left \in [Ids -> Int] /\ MaxDebt \in Nat /\ rem \in Int /\ MaxStep \in Nat
      /\ MaxClock \in Nat
  BY ConstantsAssumption DEF IInv, TypeOK
<1>3. waitevent = <<>> /\ Len(waitevent) = 0 /\ Elems(waitevent) = {} /\ setevent = {}
  BY <1>1 DEF IInv, NoLostEvent, Elems
<1>4. PICK n \in 0..Len(level) :
         /\ DuePrefix(n)
         /\ level' = SubSeq(level, n + 1, Len(level))
         /\ waitevent' = Due(n)
         /\ setevent' = setevent \cup (Ready \ Elems(SubSeq(level, n + 1, Len(level))))
         /\ \E nb \in {MaxClock} \cup {clock[id] - base : id \in Ready} :
                /\ NextBase(nb, Elems(SubSeq(level, n + 1, Len(level))))
                /\ base' = nb
                /\ rem' = rem + nb
  BY DEF Progress
<1>5. Len(level) \in Nat /\ (\A i \in 1..Len(level) : level[i] \in Ids /\ level[i] \in Ready)
      /\ Ready \subseteq Ids
  BY <1>2, ElemsIn DEF Ready
<1>6. waitevent' = SubSeq(level, 1, n)
  BY <1>3, <1>4 DEF Due
<1>7. /\ waitevent' \in Seq(Ids) /\ Len(waitevent') = n
      /\ \A i \in 1..n : waitevent'[i] = level[i]
  <2>1. \A i \in 1..n : level[i] \in Ids
    BY <1>5
  <2>2. n \in Int /\ 1 \in Int /\ n - 1 + 1 = n
    BY <1>5
  <2> QED BY <1>6, <2>1, <2>2, SubSeqProperties
<1>8. /\ level' \in Seq(Ids) /\ Len(level') = Len(level) - n
      /\ \A i \in 1..(Len(level) - n) : level'[i] = level[n + i]
  <2>1. \A i \in (n + 1)..Len(level) : level[i] \in Ids
    BY <1>5
  <2>2. n + 1 \in Int /\ Len(level) \in Int
    BY <1>5
  <2>3. /\ SubSeq(level, n + 1, Len(level)) \in Seq(Ids)
        /\ Len(SubSeq(level, n + 1, Len(level))) =
               IF n + 1 <= Len(level) THEN Len(level) - (n + 1) + 1 ELSE 0
        /\ \A i \in 1..(Len(level) - (n + 1) + 1) :
               SubSeq(level, n + 1, Len(level))[i] = level[(n + 1) + i - 1]
    BY <2>1, <2>2, SubSeqProperties
  <2> QED BY <1>4, <1>5, <2>3
<1>9. Ready = Ready' \cup Elems(waitevent')
  <2>1. \A x \in Ready' : x \in Ready
    BY <1>5, <1>8 DEF Ready, Elems
  <2>2. \A x \in Elems(waitevent') : x \in Ready
    BY <1>5, <1>7 DEF Elems
  <2>3. ASSUME NEW i \in 1..Len(level) PROVE level[i] \in Ready' \cup Elems(waitevent')
    <3>1. CASE i <= n
      <4>1. i \in 1..Len(waitevent') /\ waitevent'[i] = level[i]
        BY <1>5, <1>7, <3>1
      <4> QED BY <4>1 DEF Elems
    <3>2. CASE i > n
      <4>1. i - n \in 1..Len(level') /\ level'[i - n] = level[i]
        BY <1>5, <1>8, <3>2
      <4> QED BY <4>1 DEF Ready, Elems
    <3> QED BY <1>5, <3>1, <3>2
  <2>4. \A x \in Ready : x \in Ready' \cup Elems(waitevent')
    BY <2>3 DEF Ready, Elems
  <2> QED BY <2>1, <2>2, <2>4
<1>10. setevent' = Ready \ Ready' /\ setevent' \subseteq Elems(waitevent')
  BY <1>3, <1>4, <1>9 DEF Ready
<1>11. /\ base' \in Int /\ rem' = rem + base'
       /\ \A x \in Ready' : base' <= clock[x] - base
  <2>1. PICK nb \in {MaxClock} \cup {clock[id] - base : id \in Ready} :
           NextBase(nb, Ready') /\ base' = nb /\ rem' = rem + nb
    BY <1>4 DEF Ready
  <2>2. nb \in Int
    BY <1>2, <1>5
  <2> QED BY <2>1, <2>2 DEF NextBase
<1> QED BY <1>4, <1>7, <1>8, <1>9, <1>10, <1>11 DEF DuePrefix

LEMMA ProgressStep ==
    ASSUME IInv, Progress
    PROVE  IInv'
<1>1. /\ pc = "idle" /\ rem <= 0 /\ pc' = "exec" /\ debt' = 0
      /\ spent' = spent /\ calls' = calls /\ left' = left
      /\ clock' = [id \in Ids |-> IF id \in Ready THEN clock[id] - base ELSE clock[id]]
  BY DEF Progress
<1>2. /\ base \in Int /\ debt \in 0..MaxDebt /\ clock \in [Ids -> Int] /\ level \in Seq(Ids)
      /\ left \in [Ids -> Int] /\ MaxDebt \in Nat /\ rem \in Int /\ MaxStep \in Nat
      /\ MaxClock \in Nat
  BY ConstantsAssumption DEF IInv, TypeOK
<1>3. waitevent = <<>> /\ Len(waitevent) = 0 /\ Elems(waitevent) = {} /\ setevent = {}
  BY <1>1 DEF IInv, NoLostEvent, Elems
<1>4. PICK n \in 0..Len(level) :
         /\ \A i \in 1..n : clock[level[i]] <= base
         /\ \A i \in (n + 1)..Len(level) : clock[level[i]] > base
         /\ waitevent' \in Seq(Ids) /\ Len(waitevent') = n
         /\ \A i \in 1..n : waitevent'[i] = level[i]
         /\ level' \in Seq(Ids) /\ Len(level') = Len(level) - n
         /\ \A i \in 1..(Len(level) - n) : level'[i] = level[n + i]
         /\ Ready = Ready' \cup Elems(waitevent')
         /\ setevent' = Ready \ Ready' /\ setevent' \subseteq Elems(waitevent')
         /\ base' \in Int /\ rem' = rem + base'
         /\ \A x \in Ready' : base' <= clock[x] - base
  BY ProgressShape
<1>5. Len(level) \in Nat /\ (\A i \in 1..Len(level) : level[i] \in Ids /\ level[i] \in Ready)
      /\ Ready \subseteq Ids
  BY <1>2, ElemsIn DEF Ready
<1>6. \A x \in Ready : /\ x \in Ids /\ clock[x] \in Int /\ clock'[x] = clock[x] - base
                        /\ left[x] = clock[x] - (base - rem)
  BY <1>1, <1>2, <1>5 DEF IInv, TimeExact, Pending, Elapsed
<1>7. TypeOK'
  BY SMTT(40), <1>1, <1>2, <1>4, <1>5 DEF IInv, TypeOK
<1>8. Sorted'
  <2>1. ASSUME NEW i \in 1..Len(level'), NEW j \in 1..Len(level'), i < j
        PROVE  level'[i] # level'[j] /\ clock'[level'[i]] <= clock'[level'[j]]
    <3>1. /\ n + i \in 1..Len(level) /\ n + j \in 1..Len(level) /\ n + i < n + j
          /\ level'[i] = level[n + i] /\ level'[j] = level[n + j]
      BY <1>4, <1>5, <2>1
    <3>2. level[n + i] # level[n + j] /\ clock[level[n + i]] <= clock[level[n + j]]
      BY <3>1 DEF IInv, Sorted, Distinct
    <3>3. level[n + i] \in Ready /\ level[n + j] \in Ready
      BY <1>5, <3>1
    <3>4. /\ clock[level[n + i]] \in Int /\ clock'[level[n + i]] = clock[level[n + i]] - base
          /\ clock[level[n + j]] \in Int /\ clock'[level[n + j]] = clock[level[n + j]] - base
      BY <1>6, <3>3
    <3>5. clock'[level[n + i]] <= clock'[level[n + j]]
      BY SMTT(40), <1>2, <3>2, <3>4
    <3> QED BY <3>1, <3>2, <3>5
  <2>2. Len(level') \in Nat
    BY <1>4, ElemsIn
  <2> QED BY <2>1, <2>2 DEF Sorted, Distinct
<1>9. TimeExact'
  <2> SUFFICES ASSUME NEW x \in Ready PROVE left[x] = clock'[x] - (base' - rem')
    BY <1>1, <1>4 DEF TimeExact, Pending, Elapsed
  <2> QED BY SMTT(40), <1>2, <1>4, <1>6
<1>10. SliceCoversHead'
  <2> SUFFICES ASSUME NEW x \in Ready' PROVE base' - 0 <= clock'[x]
    BY <1>1 DEF SliceCoversHead
  <2> QED BY <1>4, <1>6
<1>11. Deadline'
  <2>1. Pending' = Ready
    BY <1>4 DEF Pending
  <2> QED BY <1>1, <2>1 DEF IInv, Deadline, Pending
<1>12. NoLostEvent'
  <2>1. \A i \in 1..n : i \in 1..Len(level)
    BY <1>5
  <2>2. Distinct(waitevent')
    BY ZenonT(60), <1>4, <2>1 DEF IInv, Sorted, Distinct
  <2> QED BY <1>1, <1>4, <2>2 DEF NoLostEvent
<1>13. \A i \in 1..n : waitevent'[i] \in Ready /\ left[waitevent'[i]] <= 0
  <2> SUFFICES ASSUME NEW i \in 1..n PROVE level[i] \in Ready /\ left[level[i]] <= 0
    BY <1>4
  <2>0. i \in 1..Len(level)
    BY <1>5
  <2>1. level[i] \in Ready /\ clock[level[i]] <= base
    BY <1>4, <1>5, <2>0
  <2>2. clock[level[i]] \in Int /\ left[level[i]] = clock[level[i]] - (base - rem)
    BY <1>6, <2>1
  <2> QED BY SMTT(40), <1>1, <1>2, <2>1, <2>2
<1>14. FlaggedAreDue'
  <2>1. \A x \in Elems(waitevent') : left[x] <= 0
    BY <1>4, <1>13 DEF Elems
  <2> QED BY <1>1, <1>4, <2>1 DEF FlaggedAreDue
<1>15. DueOrder'
  <2>1. ASSUME NEW i \in 1..n, NEW j \in 1..n, i < j
        PROVE  left[waitevent'[i]] <= left[waitevent'[j]]
    <3>1. i \in 1..Len(level) /\ j \in 1..Len(level)
      BY <1>5
    <3>2. clock[level[i]] <= clock[level[j]] /\ level[i] \in Ready /\ level[j] \in Ready
      BY <1>5, <2>1, <3>1 DEF IInv, Sorted
    <3>3. /\ clock[level[i]] \in Int /\ left[level[i]] = clock[level[i]] - (base - rem)
          /\ clock[level[j]] \in Int /\ left[level[j]] = clock[level[j]] - (base - rem)
      BY <1>6, <3>2
    <3>4. left[level[i]] <= left[level[j]]
      BY <1>2, <3>2, <3>3
    <3> QED BY <1>4, <3>4
  <2> QED BY <1>1, <1>4, <2>1 DEF DueOrder
<1>16. CallingSomeEvent' /\ InstructionLate'
  BY <1>1 DEF CallingSomeEvent, InstructionLate
<1> QED BY <1>7, <1>8, <1>9, <1>10, <1>11, <1>12, <1>14, <1>15, <1>16 DEF IInv

LEMMA CallBackStep ==
    ASSUME IInv, CallBack \/ Executed
    PROVE  IInv'
<1>1. /\ level' = level /\ clock' = clock /\ setevent' = setevent
      /\ waitevent' = waitevent /\ left' = left /\ base' = base /\ rem' = rem
      /\ debt' = debt /\ spent' = spent /\ calls' \in 0..MaxCalls
      /\ pc' \in {"cb", "idle"}
      /\ pc' = "cb" => waitevent # <<>>
      /\ pc' = "idle" => waitevent = <<>>
  BY ConstantsAssumption DEF CallBack, Executed, IInv, TypeOK
<1>2. Ready' = Ready /\ Pending' = Pending /\ Elapsed' = Elapsed
  BY <1>1 DEF Ready, Pending, Elapsed
<1> QED BY <1>1, <1>2 DEF IInv, TypeOK, Sorted, TimeExact, SliceCoversHead, Deadline,
        NoLostEvent, DueOrder, FlaggedAreDue, CallingSomeEvent, InstructionLate, Distinct,
        Elems

LEMMA CallBackDoneStep ==
    ASSUME IInv, CallBackDone
    PROVE  IInv'
<1> DEFINE h == Head(waitevent)
<1>1. /\ level' = level /\ clock' = clock /\ setevent' = setevent \ {h}
      /\ waitevent' = Tail(waitevent) /\ base' = base /\ rem' = rem /\ pc = "cb"
      /\ debt' = debt /\ spent' = spent /\ calls' = 0 /\ pc' = "exec"
      /\ left' = [left EXCEPT ![h] = IF h \in Ready THEN @ ELSE 0]
  BY DEF CallBackDone, ClearFlag
<1>2. /\ waitevent \in Seq(Ids) /\ waitevent # <<>> /\ level \in Seq(Ids)
      /\ left \in [Ids -> Int] /\ setevent \subseteq Elems(waitevent) /\ Distinct(waitevent)
      /\ MaxCalls \in Nat /\ setevent \subseteq Ids
  BY <1>1, ConstantsAssumption DEF IInv, TypeOK, CallingSomeEvent, NoLostEvent
<1>3. /\ h \in Ids /\ h = waitevent[1] /\ Tail(waitevent) \in Seq(Ids)
      /\ Len(Tail(waitevent)) = Len(waitevent) - 1
      /\ \A i \in 1..Len(Tail(waitevent)) : Tail(waitevent)[i] = waitevent[i + 1]
      /\ Len(waitevent) \in Nat \ {0}
  BY <1>2, HeadTailProperties, EmptySeq
<1> HIDE DEF h
<1>4. \A i \in 1..Len(waitevent') :
         /\ waitevent'[i] = waitevent[i + 1] /\ i + 1 \in 1..Len(waitevent)
         /\ waitevent'[i] \in Elems(waitevent) /\ waitevent'[i] # h /\ waitevent'[i] \in Ids
  <2> SUFFICES ASSUME NEW i \in 1..Len(waitevent')
               PROVE  /\ waitevent'[i] = waitevent[i + 1] /\ i + 1 \in 1..Len(waitevent)
                      /\ waitevent'[i] \in Elems(waitevent) /\ waitevent'[i] # h
                      /\ waitevent'[i] \in Ids
    OBVIOUS
  <2>1. waitevent'[i] = waitevent[i + 1] /\ i + 1 \in 1..Len(waitevent) /\ i + 1 # 1
    BY <1>1, <1>3
  <2>2. 1 \in 1..Len(waitevent)
    BY <1>3
  <2>3. waitevent[i + 1] # waitevent[1]
    BY <1>2, <2>1, <2>2 DEF Distinct
  <2> QED BY <1>2, <1>3, <2>1, <2>3, ElemsIn
<1>5. Elems(waitevent') \subseteq Elems(waitevent) \ {h}
  BY <1>4 DEF Elems
<1>6. Elems(waitevent) \ {h} \subseteq Elems(waitevent')
  <2> SUFFICES ASSUME NEW j \in 1..Len(waitevent), waitevent[j] # h
               PROVE  waitevent[j] \in Elems(waitevent')
    BY DEF Elems
  <2>1. j # 1
    BY <1>3
  <2>2. j - 1 \in 1..Len(waitevent') /\ waitevent'[j - 1] = waitevent[(j - 1) + 1] /\ (j - 1) + 1 = j
    BY <1>1, <1>3, <2>1
  <2> QED BY <2>2 DEF Elems
<1>7. Ready' = Ready /\ Elapsed' = Elapsed /\ Ready \subseteq Ids
  BY <1>1, <1>2, ElemsIn DEF Ready, Elapsed
<1>8. \A x \in Ready \cup Elems(waitevent') : x \in Pending /\ left'[x] = left[x]
  <2>1. Elems(waitevent') \subseteq Ids
    BY <1>1, <1>3, ElemsIn
  <2> QED BY <1>1, <1>2, <1>5, <1>7, <2>1 DEF Pending
<1>9. TypeOK'
  BY <1>1, <1>2, <1>3 DEF IInv, TypeOK
<1>10. Sorted' /\ SliceCoversHead' /\ CallingSomeEvent' /\ InstructionLate'
  BY <1>1, <1>7 DEF IInv, Sorted, SliceCoversHead, CallingSomeEvent, InstructionLate, Distinct
<1>11. TimeExact' /\ Deadline'
  BY <1>1, <1>7, <1>8 DEF IInv, TimeExact, Deadline, Pending
<1>12. NoLostEvent'
  <2>1. Distinct(waitevent')
    <3> SUFFICES ASSUME NEW i \in 1..Len(waitevent'), NEW j \in 1..Len(waitevent'),
                        waitevent'[i] = waitevent'[j]
                 PROVE  i = j
      BY DEF Distinct
    <3>1. i + 1 = j + 1
      BY <1>2, <1>4 DEF Distinct
    <3> QED BY <3>1, <1>1, <1>3
  <2> QED BY <1>1, <1>2, <1>6, <2>1 DEF NoLostEvent
<1>13. FlaggedAreDue'
  BY <1>1, <1>2 DEF IInv, FlaggedAreDue
<1>14. DueOrder'
  <2> SUFFICES ASSUME NEW i \in 1..Len(waitevent'), NEW j \in 1..Len(waitevent'), i < j,
                      waitevent'[i] \in setevent', waitevent'[j] \in setevent'
               PROVE  left'[waitevent'[i]] <= left'[waitevent'[j]]
    BY DEF DueOrder
  <2>1. i + 1 < j + 1
    BY <1>1, <1>3
  <2>2. /\ waitevent[i + 1] \in setevent /\ waitevent[j + 1] \in setevent
        /\ i + 1 \in 1..Len(waitevent) /\ j + 1 \in 1..Len(waitevent)
    BY <1>1, <1>4
  <2>3. left[waitevent[i + 1]] <= left[waitevent[j + 1]]
    BY <2>1, <2>2 DEF IInv, DueOrder
  <2>4. waitevent'[i] \in Elems(waitevent') /\ waitevent'[j] \in Elems(waitevent')
    BY DEF Elems
  <2> QED BY <1>4, <1>8, <2>3, <2>4
<1> QED BY <1>9, <1>10, <1>11, <1>12, <1>13, <1>14 DEF IInv

-----------------------------------------------------------------------------
\* The invariant holds of every state: the scheduler keeps time exactly, the
\* list sorted, every deadline within one instruction and one extension.
THEOREM Invariance == Spec => []IInv
<1>1. Init => IInv
  <2> SUFFICES ASSUME Init PROVE IInv
    OBVIOUS
  <2>1. level = <<>> /\ waitevent = <<>> /\ Len(level) = 0 /\ Len(waitevent) = 0
        /\ Ready = {} /\ Elems(waitevent) = {} /\ setevent = {} /\ Pending = {}
    BY DEF Init, Ready, Elems, Pending
  <2>2. TypeOK
    BY ConstantsAssumption DEF Init, TypeOK
  <2> QED BY <2>1, <2>2 DEF Init, IInv, Sorted, TimeExact, SliceCoversHead, Deadline,
          NoLostEvent, DueOrder, FlaggedAreDue, CallingSomeEvent, InstructionLate, Distinct
<1>2. IInv /\ [Next]_vars => IInv'
  <2> SUFFICES ASSUME IInv, [Next]_vars PROVE IInv'
    OBVIOUS
  <2>1. ASSUME NEW id \in Ids, NEW d \in Delays,
               SetAbsolute(id, d) \/ SetRelative(id, d) \/ SetStale(id, d)
        PROVE  IInv'
    BY <2>1, SetAbsoluteStep, SetRelativeStep, SetStaleStep
  <2>2. ASSUME NEW id \in Ids, Reset(id) PROVE IInv'
    BY <2>2, ResetStep
  <2>3. CASE ForceExit
    BY <2>3, ForceExitStep
  <2>4. CASE Fetch \/ Retire \/ RetireToNext
    BY <2>4, CpuStep
  <2>5. CASE Halt
    BY <2>5, HaltStep
  <2>6. ASSUME NEW c \in 1..MaxStep, Charge(c) PROVE IInv'
    BY <2>6, ChargeStep
  <2>7. CASE Progress
    BY <2>7, ProgressStep
  <2>8. CASE CallBack \/ Executed
    BY <2>8, CallBackStep
  <2>9. CASE CallBackDone
    BY <2>9, CallBackDoneStep
  <2>10. CASE UNCHANGED vars
    <3>1. /\ level' = level /\ clock' = clock /\ setevent' = setevent
          /\ waitevent' = waitevent /\ base' = base /\ rem' = rem /\ pc' = pc
          /\ spent' = spent /\ calls' = calls /\ debt' = debt /\ left' = left
      BY <2>10 DEF vars
    <3>2. Ready' = Ready /\ Pending' = Pending /\ Elapsed' = Elapsed
      BY <3>1 DEF Ready, Pending, Elapsed
    <3>3. TypeOK' /\ Sorted' /\ NoLostEvent'
      BY <3>1 DEF IInv, TypeOK, Sorted, NoLostEvent, Distinct, Elems
    <3>4. TimeExact' /\ SliceCoversHead' /\ Deadline' /\ InstructionLate'
      BY <3>1, <3>2 DEF IInv, TimeExact, SliceCoversHead, Deadline, InstructionLate
    <3>5. DueOrder' /\ FlaggedAreDue' /\ CallingSomeEvent'
      BY <3>1 DEF IInv, DueOrder, FlaggedAreDue, CallingSomeEvent
    <3> QED BY <3>3, <3>4, <3>5 DEF IInv
  <2> QED BY <2>1, <2>2, <2>3, <2>4, <2>5, <2>6, <2>7, <2>8, <2>9, <2>10
          DEF Next, Handlers, Loop
<1> QED BY <1>1, <1>2, PTL DEF Spec

\* The ready list and the wait list hold events only, every clock is an integer, and
\* the counts keep their bounds.
THEOREM TypeIsKept == Spec => []TypeOK
<1>1. IInv => TypeOK
  BY DEF IInv
<1> QED BY <1>1, Invariance, PTL

\* Relative re-arming neither loses nor gains a clock.
THEOREM TimeIsExact == Spec => []TimeExact
<1>1. IInv => TimeExact
  BY DEF IInv
<1> QED BY <1>1, Invariance, PTL

\* No event is later than one instruction and one extension of its slice.
THEOREM DeadlinesAreMet == Spec => []Deadline
<1>1. IInv => Deadline
  BY DEF IInv
<1> QED BY <1>1, Invariance, PTL

\* The CPU never fetches while an event is due, but for an extended slice.
THEOREM FetchesOnlyWhenNothingIsDue == Spec => []NothingDueWhenFetching
<1>1. IInv => NothingDueWhenFetching
  <2> SUFFICES ASSUME IInv, rem > 0, NEW id \in Ready PROVE left[id] >= 1 - debt
    BY DEF NothingDueWhenFetching
  <2>1. left[id] >= rem - debt /\ left[id] \in Int
    BY HeadRoom
  <2>2. rem \in Int /\ debt \in Int
    BY DEF IInv, TypeOK
  <2> QED BY <2>1, <2>2
<1> QED BY <1>1, Invariance, PTL

\* An event called with its flag set is due: a re-arm in the pass is not run early.
THEOREM NoEventIsEarly == Spec => []NoEarlyEvent
<1>1. IInv => NoEarlyEvent
  BY DEF IInv, NoEarlyEvent, FlaggedAreDue
<1> QED BY <1>1, Invariance, PTL

\* No due event is dropped, none is called twice in a pass.
THEOREM NoEventIsLost == Spec => []NoLostEvent
<1>1. IInv => NoLostEvent
  BY DEF IInv
<1> QED BY <1>1, Invariance, PTL

-----------------------------------------------------------------------------
(***************************************************************************)
(* The scheduler implements the queue of deadlines of TimerQueue.  Each    *)
(* handler call arms or cancels, clocks pass for every ready event at      *)
(* once, nevent_progress takes what is due and a callback that returns is  *)
(* delivered; slices, positions and relative clocks stutter.               *)
(***************************************************************************)
LEMMA StutterIsQueue ==
    ASSUME level' = level, left' = left, waitevent' = waitevent
    PROVE  [TQ!Next]_TQ!vars
BY DEF TQ!vars, Ready, Elems

LEMMA ArmIsQueue ==
    ASSUME IInv, NEW id \in Ids, NEW c \in Int, NEW due \in Int,
           InHandler, Arm(id, c, due), due = c - Elapsed,
           \/ id \in Stale
           \/ due \in Delays
           \/ waitevent # <<>> /\ id = Head(waitevent) /\ \E d \in Delays : due = left[id] + d
    PROVE  TQ!Arm(id)
<1>1. waitevent' = waitevent /\ debt' = debt
  BY DEF InHandler
<1>2. Ready' = Ready \cup {id} /\ left' = [left EXCEPT ![id] = due]
  BY <1>1, ArmStep
<1>3. left'[id] = due
  BY <1>2 DEF IInv, TypeOK
<1> QED BY <1>1, <1>2, <1>3 DEF TQ!Arm

LEMMA SettingIsQueue ==
    ASSUME IInv, NEW id \in Ids, NEW d \in Delays,
           SetAbsolute(id, d) \/ SetRelative(id, d) \/ SetStale(id, d)
    PROVE  TQ!Arm(id)
<1>1. /\ d \in Int /\ clock[id] \in Int /\ left[id] \in Int /\ Elapsed \in Int
  BY ConstantsAssumption DEF IInv, TypeOK, Elapsed
<1>2. CASE SetAbsolute(id, d)
  <2>1. InHandler /\ Arm(id, d + Elapsed, d)
    BY <1>2 DEF SetAbsolute
  <2>2. d + Elapsed \in Int /\ d = (d + Elapsed) - Elapsed
    BY <1>1
  <2> QED BY <1>1, <2>1, <2>2, ArmIsQueue
<1>3. CASE SetRelative(id, d)
  <2>1. InHandler /\ Arm(id, clock[id] + d, left[id] + d) /\ pc = "cb" /\ id = Head(waitevent)
    BY <1>3 DEF SetRelative
  <2>2. waitevent \in Seq(Ids) /\ waitevent # <<>>
    BY <2>1 DEF IInv, TypeOK, CallingSomeEvent
  <2>3. id \in Pending
    <3>1. 1 \in 1..Len(waitevent) /\ Head(waitevent) = waitevent[1]
      BY <2>2, EmptySeq
    <3> QED BY <2>1, <3>1 DEF Pending, Elems
  <2>4. left[id] = clock[id] - Elapsed
    BY <2>3 DEF IInv, TimeExact
  <2>5. /\ clock[id] + d \in Int /\ left[id] + d \in Int
        /\ left[id] + d = (clock[id] + d) - Elapsed
    BY <1>1, <2>4
  <2> QED BY <2>1, <2>2, <2>5, ArmIsQueue
<1>4. CASE SetStale(id, d)
  <2>1. InHandler /\ Arm(id, clock[id] + d, clock[id] + d - Elapsed) /\ id \in Stale
    BY <1>4 DEF SetStale
  <2> DEFINE c == clock[id] + d
             e == c - Elapsed
  <2>2. c \in Int /\ e \in Int /\ e = c - Elapsed /\ Arm(id, c, e)
    BY <1>1, <2>1
  <2> HIDE DEF c, e
  <2> QED BY <2>1, <2>2, ArmIsQueue
<1> QED BY <1>2, <1>3, <1>4

LEMMA ResetIsQueue ==
    ASSUME IInv, NEW id \in Ids, Reset(id)
    PROVE  TQ!Cancel(id)
<1>1. /\ waitevent' = waitevent /\ level' = Without(level, id) /\ id \in Ready
      /\ left' = [left EXCEPT ![id] = IF id \in Elems(waitevent) THEN @ ELSE 0]
  BY DEF Reset, InHandler
<1>2. Ready' = Ready \ {id}
  BY <1>1, WithoutProperties DEF Ready, IInv, TypeOK, Sorted
<1>3. TQ!Elems(waitevent) = Elems(waitevent)
  BY DEF TQ!Elems, Elems
<1> QED BY <1>1, <1>2, <1>3 DEF TQ!Cancel

\* The same clocks pass for every ready event; when none is ready nothing shows.
LEMMA PassIsQueue ==
    ASSUME IInv, Deadline', NEW c \in Int, c > 0,
           level' = level, waitevent' = waitevent, pc \in {"idle", "instr"},
           left' = [id \in Ids |-> IF id \in Ready THEN left[id] - c ELSE left[id]]
    PROVE  [TQ!Next]_TQ!vars
<1>1. left \in [Ids -> Int] /\ level \in Seq(Ids) /\ waitevent = <<>>
  BY DEF IInv, TypeOK, NoLostEvent
<1>2. Ready' = Ready /\ Ready \subseteq Ids /\ Ready \subseteq Pending'
  BY <1>1, ElemsIn DEF Ready, Pending
<1>3. CASE Ready = {}
  <2>1. left' = left
    BY <1>1, <1>3
  <2> QED BY <2>1, StutterIsQueue
<1>4. CASE Ready # {}
  <2>1. PICK id \in Ready : TRUE
    BY <1>4
  <2>2. c = left[id] - left'[id]
    BY <1>1, <1>2, <2>1
  <2>3. c \in {left[x] - left'[x] : x \in Ready}
    BY <2>1, <2>2
  <2>4. \A x \in Ready \ Stale : left'[x] >= -(MaxStep + MaxDebt)
    BY <1>2 DEF Deadline
  <2>5. TQ!Pass
    BY <1>1, <1>2, <2>3, <2>4 DEF TQ!Pass
  <2> QED BY <2>5 DEF TQ!Next
<1> QED BY <1>3, <1>4

LEMMA ProgressIsQueue ==
    ASSUME IInv, Progress
    PROVE  TQ!Take
<1>1. pc = "idle" /\ rem <= 0 /\ left' = left
  BY DEF Progress
<1>2. /\ left \in [Ids -> Int] /\ clock \in [Ids -> Int] /\ base \in Int /\ rem \in Int
      /\ level \in Seq(Ids) /\ waitevent = <<>>
  BY <1>1 DEF IInv, TypeOK, NoLostEvent
<1>3. PICK n \in 0..Len(level) :
         /\ \A i \in 1..n : clock[level[i]] <= base
         /\ \A i \in (n + 1)..Len(level) : clock[level[i]] > base
         /\ waitevent' \in Seq(Ids) /\ Len(waitevent') = n
         /\ \A i \in 1..n : waitevent'[i] = level[i]
         /\ level' \in Seq(Ids) /\ Len(level') = Len(level) - n
         /\ \A i \in 1..(Len(level) - n) : level'[i] = level[n + i]
         /\ Ready = Ready' \cup Elems(waitevent')
  BY ProgressShape
<1>4. Len(level) \in Nat /\ \A i \in 1..Len(level) : level[i] \in Ids /\ level[i] \in Ready
  BY <1>2, ElemsIn DEF Ready
<1>5. \A x \in Ready : x \in Ids /\ clock[x] \in Int /\ left[x] = clock[x] - (base - rem)
  <2>1. Ready \subseteq Ids
    BY <1>2, ElemsIn DEF Ready
  <2> QED BY <1>2, <2>1 DEF IInv, TimeExact, Pending, Elapsed
<1>6. \A x \in Elems(waitevent') : x \in Ready /\ clock[x] <= base
  BY <1>3, <1>4 DEF Elems
<1>7. \A x \in Ready' : x \in Ready /\ clock[x] > base
  <2> SUFFICES ASSUME NEW i \in 1..Len(level')
               PROVE  level'[i] \in Ready /\ clock[level'[i]] > base
    BY DEF Ready, Elems
  <2>1. n + i \in (n + 1)..Len(level) /\ n + i \in 1..Len(level) /\ level'[i] = level[n + i]
    BY <1>3, <1>4
  <2> QED BY <1>3, <1>4, <2>1
<1>8. Ready' = Ready \ Elems(waitevent')
  <2>1. \A x \in Ready' : x \notin Elems(waitevent')
    BY SMTT(40), <1>2, <1>5, <1>6, <1>7
  <2> QED BY <1>3, <2>1
<1>9. \A x \in Elems(waitevent') :
         left[x] <= 0 /\ \A later \in Ready' : left[x] < left[later]
  <2> SUFFICES ASSUME NEW x \in Elems(waitevent')
               PROVE  left[x] <= 0 /\ \A later \in Ready' : left[x] < left[later]
    OBVIOUS
  <2>1. clock[x] \in Int /\ left[x] = clock[x] - (base - rem) /\ clock[x] <= base
    BY <1>5, <1>6
  <2>2. left[x] <= 0
    BY <1>1, <1>2, <2>1
  <2>3. ASSUME NEW y \in Ready' PROVE left[x] < left[y]
    <3>1. clock[y] \in Int /\ left[y] = clock[y] - (base - rem) /\ clock[y] > base
      BY <1>5, <1>7
    <3> QED BY <1>2, <2>1, <3>1
  <2> QED BY <2>2, <2>3
<1>10. ASSUME NEW i \in 1..Len(waitevent'), NEW j \in 1..Len(waitevent'), i < j
       PROVE  waitevent'[i] # waitevent'[j] /\ left[waitevent'[i]] <= left[waitevent'[j]]
  <2>1. i \in 1..Len(level) /\ j \in 1..Len(level) /\ i # j
        /\ waitevent'[i] = level[i] /\ waitevent'[j] = level[j]
    BY <1>3, <1>4, <1>10
  <2>2. level[i] # level[j] /\ clock[level[i]] <= clock[level[j]]
    BY <1>10, <2>1 DEF IInv, Sorted, Distinct
  <2>3. /\ clock[level[i]] \in Int /\ left[level[i]] = clock[level[i]] - (base - rem)
        /\ clock[level[j]] \in Int /\ left[level[j]] = clock[level[j]] - (base - rem)
    BY <1>4, <1>5, <2>1
  <2>4. left[level[i]] <= left[level[j]]
    BY SMTT(40), <1>2, <2>2, <2>3
  <2> QED BY <2>1, <2>2, <2>4
<1>11. TQ!Elems(waitevent') = Elems(waitevent')
  BY DEF TQ!Elems, Elems
<1>12. Elems(waitevent') \subseteq Ready
  BY <1>6
<1> QED BY <1>1, <1>2, <1>8, <1>9, <1>10, <1>11, <1>12 DEF TQ!Take

LEMMA DeliveryIsQueue ==
    ASSUME IInv, CallBackDone
    PROVE  TQ!Deliver
<1>1. /\ level' = level /\ waitevent' = Tail(waitevent) /\ pc = "cb"
      /\ left' = [left EXCEPT ![Head(waitevent)] =
                     IF Head(waitevent) \in Ready THEN @ ELSE 0]
  BY DEF CallBackDone
<1>2. waitevent # <<>> /\ Ready' = Ready
  BY <1>1 DEF IInv, CallingSomeEvent, Ready
<1> QED BY <1>1, <1>2 DEF TQ!Deliver

\* To the devices the scheduler is a set of deadlines: slices, the sorted array and
\* the relative clocks of nevent.c never show.
THEOREM QueueIsImplemented == Spec => ImplementsTimerQueue
<1>1. Init => TQ!Init
  BY DEF Init, TQ!Init, Ready, Elems
<1>2. IInv /\ [Next]_vars => [TQ!Next]_TQ!vars
  <2> SUFFICES ASSUME IInv, [Next]_vars PROVE [TQ!Next]_TQ!vars
    OBVIOUS
  <2>1. ASSUME NEW id \in Ids, NEW d \in Delays,
               SetAbsolute(id, d) \/ SetRelative(id, d) \/ SetStale(id, d)
        PROVE  [TQ!Next]_TQ!vars
    BY <2>1, SettingIsQueue DEF TQ!Next
  <2>2. ASSUME NEW id \in Ids, Reset(id) PROVE [TQ!Next]_TQ!vars
    BY <2>2, ResetIsQueue DEF TQ!Next
  <2>3. ASSUME NEW c \in 1..MaxStep, Charge(c) PROVE [TQ!Next]_TQ!vars
    <3>1. c \in Int /\ c > 0
      BY ConstantsAssumption
    <3>2. Deadline'
      BY <2>3, ChargeStep DEF IInv
    <3> QED BY <2>3, <3>1, <3>2, PassIsQueue DEF Charge
  <2>4. CASE Halt
    <3>1. rem + 1 \in Int /\ rem + 1 > 0
      BY <2>4 DEF Halt, IInv, TypeOK
    <3>2. Deadline'
      BY <2>4, HaltStep DEF IInv
    <3> QED BY <2>4, <3>1, <3>2, PassIsQueue DEF Halt
  <2>5. CASE Progress
    BY <2>5, ProgressIsQueue DEF TQ!Next
  <2>6. CASE CallBackDone
    BY <2>6, DeliveryIsQueue DEF TQ!Next
  <2>7. CASE ForceExit \/ Fetch \/ Retire \/ RetireToNext \/ CallBack \/ Executed
              \/ UNCHANGED vars
    <3>1. level' = level /\ left' = left /\ waitevent' = waitevent
      BY <2>7 DEF ForceExit, InHandler, Fetch, Retire, RetireToNext, CallBack, Executed, vars
    <3> QED BY <3>1, StutterIsQueue
  <2> QED BY <2>1, <2>2, <2>3, <2>4, <2>5, <2>6, <2>7 DEF Next, Handlers, Loop
<1> QED BY <1>1, <1>2, Invariance, PTL DEF Spec, ImplementsTimerQueue, TQ!Spec
=============================================================================
