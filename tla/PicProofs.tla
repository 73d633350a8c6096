----------------------------- MODULE PicProofs ------------------------------
(***************************************************************************)
(* Proofs about the interrupt controllers, for any number of lines and     *)
(* levels, any masks and any commands of the guest: types, the offer of    *)
(* the 8214, its one acceptance for each arming, edge inputs, and the      *)
(* nesting of the lines in service.                                        *)
(***************************************************************************)
EXTENDS Pic, WellFoundedInduction, SequenceTheorems, TLAPS

-----------------------------------------------------------------------------
(***************************************************************************)
(* Lines, ranks and the foremost line.                                     *)
(***************************************************************************)
LEMMA LinesAre ==
    /\ Lines["M"] = 0..(MasterLines - 1) /\ Lines["S"] = 0..(SlaveLines - 1)
    /\ Size["M"] = MasterLines /\ Size["S"] = SlaveLines
    /\ Cascade \in Lines["M"] /\ Cascade \in Nat
    /\ \A c \in Ctrl : /\ Size[c] \in Nat \ {0} /\ 0 \in Lines[c]
                       /\ Lines[c] = {l \in Nat : l < Size[c]}
BY PicAssumption DEF Lines, Size, Cascade, Ctrl

LEMMA Smallest ==
    ASSUME NEW T \in SUBSET Nat, T # {}
    PROVE  \E x \in T : \A y \in T : x <= y
<1> DEFINE R == {ss \in Nat \X Nat : ss[1] < ss[2]}
<1>1. IsWellFoundedOn(R, Nat)
  BY NatLessThanWellFounded DEF OpToRel
<1>2. \E x \in T : \A y \in T : <<y, x>> \notin R
  <2> HIDE DEF R
  <2> QED BY <1>1, WFMin
<1>3. PICK x \in T : \A y \in T : <<y, x>> \notin R
  BY <1>2
<1>4. ASSUME NEW y \in T PROVE x <= y
  <2>1. x \in Nat /\ y \in Nat
    OBVIOUS
  <2>2. <<y, x>> \notin R
    BY <1>3
  <2>3. ~(y < x)
    BY <2>1, <2>2, Zenon
  <2> QED BY <2>1, <2>3
<1> QED BY <1>4

LEMMA RankIsNat ==
    ASSUME TypeOK, NEW c \in Ctrl, NEW l \in Lines[c]
    PROVE  Rank(c, l) \in Nat /\ (pry[c] = 0 => Rank(c, l) = l)
<1>1. Size[c] \in Nat /\ Size[c] > 0 /\ l \in Nat /\ l < Size[c]
  BY LinesAre
<1>2. pry[c] \in Nat /\ pry[c] < Size[c]
  BY LinesAre DEF TypeOK
<1>3. l + Size[c] - pry[c] \in Nat
  BY <1>1, <1>2
<1>4. Rank(c, l) \in Nat
  BY <1>1, <1>3 DEF Rank
<1>5. ASSUME pry[c] = 0 PROVE Rank(c, l) = l
  <2>1. (l + Size[c]) % Size[c] = l
    BY <1>1
  <2> QED BY <2>1, <1>1, <1>5 DEF Rank
<1> QED BY <1>4, <1>5

\* The foremost line of a set is one of the set, and none ranks before it.
LEMMA FirstIsForemost ==
    ASSUME TypeOK, NEW c \in Ctrl, NEW s \in SUBSET Lines[c], s # {}
    PROVE  First(c, s) \in s /\ \A k \in s : Rank(c, First(c, s)) <= Rank(c, k)
<1> DEFINE T == {Rank(c, l) : l \in s}
<1>1. T \in SUBSET Nat /\ T # {}
  BY RankIsNat
<1>2. PICK x \in T : \A y \in T : x <= y
  BY <1>1, Smallest
<1>3. \E l \in s : \A k \in s : Rank(c, l) <= Rank(c, k)
  BY <1>2
<1> QED BY <1>3 DEF First

LEMMA LowestIsLowest ==
    ASSUME NEW s \in SUBSET Nat, s # {}
    PROVE  Lowest(s) \in s /\ \A k \in s : Lowest(s) <= k
BY Smallest DEF Lowest

-----------------------------------------------------------------------------
(***************************************************************************)
(* The offer of the 8214 and its INT output.                               *)
(***************************************************************************)
\* Requests of both controllers.
Requests == {r \in [Ctrl -> SUBSET Nat] : \A c \in Ctrl : r[c] \subseteq Lines[c]}

LEMMA OfferIsLatched ==
    ASSUME TypeOK, Offered # NoLevel
    PROVE  inte /\ pending = NoLevel /\ Offered \in irr8214 /\ Offered \in Levels
<1>1. inte /\ pending = NoLevel /\ irr8214 # {} /\ Offered = Lowest(irr8214)
  BY DEF Offered, Select
<1>2. irr8214 \in SUBSET Nat /\ irr8214 \subseteq Levels
  BY PicAssumption DEF TypeOK
<1> QED BY <1>1, <1>2, LowestIsLowest

LEMMA WithIntIs ==
    ASSUME NEW r \in Requests, NEW o
    PROVE  /\ WithInt(r, o) \in Requests
           /\ WithInt(r, o)["S"] = r["S"]
           /\ WithInt(r, o)["M"] \ {Cascade} = r["M"] \ {Cascade}
           /\ Cascade \in WithInt(r, o)["M"] <=> o # NoLevel
BY LinesAre DEF WithInt, Requests, Ctrl

LEMMA TakenIs ==
    ASSUME NEW r \in Requests, NEW t
    PROVE  /\ Taken(r, t) \in Requests
           /\ \A c \in Ctrl : Taken(r, t)[c] \subseteq r[c]
           /\ \A c \in Ctrl : \A l \in Lines[c] : <<c, l>> \in t => l \notin Taken(r, t)[c]
           /\ \A c \in Ctrl : \A l \in r[c] : <<c, l>> \notin t => l \in Taken(r, t)[c]
BY DEF Taken, Requests

\* INT at the master's IR7 stands for an offer, and is silent in 8259 mode.
Truthful(r) == Cascade \in r["M"] => ~mode8259 /\ Offered # NoLevel

IntIsOffer == Truthful(irr)

LEMMA LatchStep ==
    ASSUME TypeOK, NEW lv \in Levels, NEW r \in Requests, Truthful(r), Latch(lv, r),
           UNCHANGED <<mode8259, inte, status, pending>>
    PROVE  /\ irr' \in Requests /\ irr8214 \subseteq irr8214' /\ irr8214' \subseteq Levels
           /\ irr'["S"] = r["S"] /\ irr'["M"] \ {Cascade} = r["M"] \ {Cascade}
           /\ IntIsOffer'
<1>1. irr8214 \subseteq Levels
  BY DEF TypeOK
<1>2. CASE irr8214' = irr8214 /\ irr' = r
  BY <1>1, <1>2 DEF Truthful, IntIsOffer, Offered
<1>3. CASE ~mode8259 /\ irr8214' = irr8214 \cup {lv} /\ irr' = WithInt(r, Offered')
  BY <1>1, <1>3, WithIntIs DEF IntIsOffer, Truthful
<1> QED BY <1>2, <1>3 DEF Latch

-----------------------------------------------------------------------------
(***************************************************************************)
(* What pic_irq chooses, and the lines in service.                         *)
(***************************************************************************)
\* A controller that was never rotated ranks its lines by number.
Unrotated == \A c \in Ctrl : plain[c] => pry[c] = 0 /\ ~smm[c]

\* Line l comes before every line in service, or is in service itself.
Innermost(c, l) == plain[c] => l \in isr[c] \/ \A k \in isr[c] : l < k

LEMMA FirstIsInnermost ==
    ASSUME TypeOK, Unrotated, NEW c \in Ctrl, NEW s \in SUBSET Lines[c], s # {}
    PROVE  /\ First(c, Rivals(c, s)) \in Lines[c]
           /\ First(c, Rivals(c, s)) \in s \cup isr[c]
           /\ Innermost(c, First(c, Rivals(c, s)))
<1> DEFINE R == Rivals(c, s)
           f == First(c, R)
<1>1. R \in SUBSET Lines[c] /\ R # {} /\ R \subseteq s \cup isr[c]
  BY DEF Rivals, TypeOK
<1>2. f \in R /\ \A k \in R : Rank(c, f) <= Rank(c, k)
  BY <1>1, FirstIsForemost
<1>3. ASSUME plain[c], f \notin isr[c], NEW k \in isr[c] PROVE f < k
  <2>1. k \in R /\ pry[c] = 0
    BY <1>3 DEF Rivals, Unrotated
  <2>2. Rank(c, f) = f /\ Rank(c, k) = k
    BY <1>1, <1>2, <2>1, RankIsNat
  <2>3. f <= k /\ f # k /\ f \in Nat /\ k \in Nat
    BY <1>1, <1>2, <1>3, <2>1, <2>2, LinesAre
  <2> QED BY <2>3
<1> QED BY <1>1, <1>2, <1>3 DEF Innermost

LEMMA ChoiceIs ==
    ASSUME TypeOK, Unrotated, NEW r \in Requests, Choice(r) # <<>>
    PROVE  \/ /\ mode8259 /\ \E l \in Lines["S"] :
                 /\ Choice(r) = <<"S", l>> /\ l \in r["S"] \ imr["S"]
                 /\ l \notin isr["S"] /\ Innermost("S", l) /\ Innermost("M", Cascade)
           \/ /\ ~mode8259 /\ Choice(r) = <<"M", Cascade>> /\ Innermost("M", Cascade)
           \/ \E l \in Lines["M"] \ {Cascade} :
                 /\ Choice(r) = <<"M", l>> /\ l \in r["M"] \ imr["M"]
                 /\ l \notin isr["M"] /\ Innermost("M", l)
<1> DEFINE sir == IF mode8259 THEN r["S"] \ imr["S"] ELSE {}
           mir == (r["M"] \cup (IF sir = {} THEN {} ELSE {Cascade})) \ imr["M"]
           m == First("M", Rivals("M", mir))
           s == First("S", Rivals("S", sir))
<1>1. "M" \in Ctrl /\ "S" \in Ctrl
  BY DEF Ctrl
<1>2. sir \in SUBSET Lines["S"] /\ mir \in SUBSET Lines["M"]
  BY <1>1, LinesAre DEF Requests
<1>3. Choice(r) = IF mir = {} THEN <<>>
                  ELSE IF m # Cascade THEN IF m \in isr["M"] THEN <<>> ELSE <<"M", m>>
                  ELSE IF ~mode8259 THEN <<"M", Cascade>>
                  ELSE IF sir = {} \/ s \in isr["S"] THEN <<>> ELSE <<"S", s>>
  BY DEF Choice
<1>4. mir # {}
  BY <1>3
<1>5. m \in Lines["M"] /\ m \in mir \cup isr["M"] /\ Innermost("M", m)
  BY <1>1, <1>2, <1>4, FirstIsInnermost
<1>6. ASSUME sir # {}
      PROVE  s \in Lines["S"] /\ s \in sir \cup isr["S"] /\ Innermost("S", s)
  BY <1>1, <1>2, <1>6, FirstIsInnermost
<1> HIDE DEF m, s
<1>7. CASE m # Cascade
  <2>1. Choice(r) = <<"M", m>> /\ m \notin isr["M"]
    BY <1>3, <1>4, <1>7
  <2>2. m \in r["M"] \ imr["M"]
    BY <1>5, <1>7, <2>1
  <2> QED BY <1>5, <1>7, <2>1, <2>2
<1>8. CASE m = Cascade /\ ~mode8259
  BY <1>3, <1>4, <1>5, <1>8
<1>9. CASE m = Cascade /\ mode8259
  <2>1. sir # {} /\ s \notin isr["S"] /\ Choice(r) = <<"S", s>>
    BY <1>3, <1>4, <1>9
  <2> QED BY <1>5, <1>6, <1>9, <2>1
<1> QED BY <1>7, <1>8, <1>9

\* Putting one line of each controller at most into service keeps the nesting.
LEMMA ServeNests ==
    ASSUME TypeOK, NestedOrder, NEW t, Serve(t), plain' = plain,
           \A c \in Ctrl : \A k, l \in Lines[c] : <<c, k>> \in t /\ <<c, l>> \in t => k = l,
           \A c \in Ctrl : \A l \in Lines[c] : <<c, l>> \in t => Innermost(c, l)
    PROVE  /\ isr' \in [Ctrl -> SUBSET Nat] /\ \A c \in Ctrl : isr'[c] \subseteq Lines[c]
           /\ nest' \in [Ctrl -> Seq(Nat)] /\ served' \subseteq LevelLines
           /\ NestedOrder'
<1> DEFINE new(c) == {l \in Lines[c] : <<c, l>> \in t /\ ~aeoi[c]}
<1>1. /\ isr' = [c \in Ctrl |-> isr[c] \cup new(c)]
      /\ nest' = [c \in Ctrl |-> IF plain[c] /\ ~(new(c) \subseteq isr[c])
                                 THEN Append(nest[c], CHOOSE l \in new(c) : TRUE)
                                 ELSE nest[c]]
      /\ served' = served \cup {l \in held : <<"S", l>> \in t}
  BY DEF Serve
<1>2. isr' \in [Ctrl -> SUBSET Nat] /\ \A c \in Ctrl : isr'[c] \subseteq Lines[c]
  BY <1>1, LinesAre DEF TypeOK
<1>3. served' \subseteq LevelLines
  BY <1>1 DEF TypeOK
<1>4. ASSUME NEW c \in Ctrl
      PROVE  /\ nest'[c] \in Seq(Nat)
             /\ plain'[c] => /\ \A i, j \in 1..Len(nest'[c]) : i < j => nest'[c][i] > nest'[c][j]
                             /\ {nest'[c][i] : i \in 1..Len(nest'[c])} = isr'[c]
  <2>1. nest[c] \in Seq(Nat) /\ Len(nest[c]) \in Nat
    BY <1>4, LenProperties DEF TypeOK
  <2>2. CASE plain[c] /\ ~(new(c) \subseteq isr[c])
    <3> DEFINE l == CHOOSE l \in new(c) : TRUE
    <3>1. l \in new(c) /\ new(c) = {l}
      BY <2>2
    <3>2. l \in Lines[c] /\ l \in Nat /\ l \notin isr[c] /\ \A k \in isr[c] : l < k
      BY ZenonT(60), <2>2, <3>1, LinesAre DEF Innermost
    <3>3. nest'[c] = Append(nest[c], l) /\ isr'[c] = isr[c] \cup {l}
      BY <1>1, <2>2, <3>1
    <3> HIDE DEF l
    <3>4. /\ nest'[c] \in Seq(Nat) /\ Len(nest'[c]) = Len(nest[c]) + 1
          /\ \A i \in 1..Len(nest[c]) : nest'[c][i] = nest[c][i]
          /\ nest'[c][Len(nest[c]) + 1] = l
      BY <2>1, <3>2, <3>3, AppendProperties
    <3>5. /\ \A i, j \in 1..Len(nest[c]) : i < j => nest[c][i] > nest[c][j]
          /\ {nest[c][i] : i \in 1..Len(nest[c])} = isr[c]
      BY <2>2 DEF NestedOrder
    <3>6. \A i \in 1..Len(nest[c]) : nest[c][i] \in isr[c] /\ nest[c][i] > l
      BY <3>2, <3>5
    <3>7. ASSUME NEW i \in 1..Len(nest'[c]), NEW j \in 1..Len(nest'[c]), i < j
          PROVE  nest'[c][i] > nest'[c][j]
      <4>1. i \in 1..Len(nest[c]) /\ (j \in 1..Len(nest[c]) \/ j = Len(nest[c]) + 1)
        BY SMTT(40), <2>1, <3>4, <3>7
      <4> QED BY <4>1, <3>4, <3>5, <3>6, <3>7
    <3>8. {nest'[c][i] : i \in 1..Len(nest'[c])} = isr[c] \cup {l}
      <4>1. 1..Len(nest'[c]) = 1..Len(nest[c]) \cup {Len(nest[c]) + 1}
        BY <2>1, <3>4
      <4>2. \A i \in 1..Len(nest[c]) : nest'[c][i] \in isr[c]
        BY <3>4, <3>6
      <4>3. ASSUME NEW k \in isr[c]
            PROVE  \E i \in 1..Len(nest'[c]) : nest'[c][i] = k
        <5>1. PICK i \in 1..Len(nest[c]) : nest[c][i] = k
          BY <3>5
        <5>2. i \in 1..Len(nest'[c]) /\ nest'[c][i] = k
          BY <4>1, <5>1, <3>4
        <5> QED BY <5>2
      <4>4. Len(nest[c]) + 1 \in 1..Len(nest'[c]) /\ nest'[c][Len(nest[c]) + 1] = l
        BY <2>1, <3>4
      <4>5. \A i \in 1..Len(nest'[c]) : nest'[c][i] \in isr[c] \cup {l}
        BY <4>1, <4>2, <4>4
      <4> QED BY <4>3, <4>4, <4>5
    <3> QED BY <3>3, <3>4, <3>7, <3>8
  <2>3. CASE ~plain[c]
    BY <1>1, <2>1, <2>3
  <2>4. CASE new(c) \subseteq isr[c]
    <3>1. nest'[c] = nest[c] /\ isr'[c] = isr[c]
      BY <1>1, <2>4
    <3> QED BY <2>1, <3>1 DEF NestedOrder
  <2> QED BY <2>2, <2>3, <2>4
<1>5. nest' \in [Ctrl -> Seq(Nat)]
  BY <1>1, <1>4
<1> QED BY <1>2, <1>3, <1>4, <1>5 DEF NestedOrder

Falling(s) == \A i, j \in 1..Len(s) : i < j => s[i] > s[j]
Members(s) == {s[i] : i \in 1..Len(s)}

\* Taking a line out of a falling sequence leaves the others, still falling.
LEMMA WithoutIs ==
    ASSUME NEW s \in Seq(Nat), Falling(s), NEW l \in Nat
    PROVE  /\ Without(s, l) \in Seq(Nat) /\ Falling(Without(s, l))
           /\ Members(Without(s, l)) = Members(s) \ {l}
<1>0. Len(s) \in Nat /\ \A i \in 1..Len(s) : s[i] \in Nat
  BY ElementOfSeq, LenProperties
<1>1. CASE \A i \in 1..Len(s) : s[i] # l
  BY <1>1 DEF Without, Members
<1>2. CASE ~(\A i \in 1..Len(s) : s[i] # l)
  <2> DEFINE p == CHOOSE i \in 1..Len(s) : s[i] = l
             w == [i \in 1..(Len(s) - 1) |-> IF i < p THEN s[i] ELSE s[i + 1]]
             from(i) == IF i < p THEN i ELSE i + 1
  <2>1. p \in 1..Len(s) /\ s[p] = l
    BY <1>2
  <2>2. Without(s, l) = w
    BY <1>2 DEF Without
  <2> HIDE DEF p
  <2>3. Len(s) - 1 \in Nat /\ w \in [1..(Len(s) - 1) -> Nat]
    BY SMTT(40), <1>0, <2>1
  <2>4. w \in Seq(Nat)
    BY <2>3, SeqDef
  <2>5. Len(w) = Len(s) - 1
    <3>1. DOMAIN w = 1..(Len(s) - 1) /\ DOMAIN w = 1..Len(w) /\ Len(w) \in Nat
      BY <2>4, LenProperties
    <3> QED BY <3>1, <2>3
  <2>6. \A i \in 1..Len(w) : from(i) \in 1..Len(s) /\ w[i] = s[from(i)] /\ from(i) # p
    BY SMTT(40), <1>0, <2>1, <2>5
  <2>7. \A i, j \in 1..Len(w) : i < j => from(i) < from(j)
    BY <1>0, <2>1, <2>5
  <2> HIDE DEF w, from
  <2>8. Falling(w)
    BY <2>6, <2>7 DEF Falling
  <2>9. \A i \in 1..Len(s) : i # p => s[i] # l
    BY <1>0, <2>1 DEF Falling
  <2>10. ASSUME NEW i \in 1..Len(w) PROVE w[i] \in Members(s) \ {l}
    BY <2>6, <2>9 DEF Members
  <2>11. ASSUME NEW k \in Members(s), k # l PROVE \E i \in 1..Len(w) : w[i] = k
    <3>1. PICK j \in 1..Len(s) : s[j] = k
      BY DEF Members
    <3>2. j # p /\ j \in Nat
      BY <1>0, <2>1, <2>11, <3>1
    <3> DEFINE i == IF j < p THEN j ELSE j - 1
    <3>3. i \in 1..Len(w) /\ from(i) = j
      BY <1>0, <2>1, <2>5, <3>2 DEF from
    <3> QED BY <2>6, <3>1, <3>3
  <2>12. Members(w) = Members(s) \ {l}
    BY <2>10, <2>11 DEF Members
  <2> QED BY <2>2, <2>4, <2>8, <2>12
<1> QED BY <1>1, <1>2

-----------------------------------------------------------------------------
(***************************************************************************)
(* The inductive invariant.  A level that compatible code was offered is   *)
(* latched, and the 8214 still armed; what was served is still held.       *)
(***************************************************************************)
Offering == pending # NoLevel => inte /\ ~mode8259 /\ pending \in irr8214

IInv ==
    /\ TypeOK /\ Unrotated /\ NestedOrder
    /\ Offering /\ IntIsOffer
    /\ EdgeOnce /\ served \subseteq held

\* What the lines in service depend on.
nesting == <<isr, pry, smm, nest, plain>>

LEMMA NestingFrame ==
    ASSUME Unrotated, NestedOrder, UNCHANGED nesting
    PROVE  Unrotated' /\ NestedOrder'
BY DEF Unrotated, NestedOrder, nesting

LEMMA NestingIs ==
    NestedOrder <=> \A c \in Ctrl : plain[c] => Falling(nest[c]) /\ Members(nest[c]) = isr[c]
BY DEF NestedOrder, Falling, Members

\* The requests of the devices.
LEMMA SetIrqStep ==
    ASSUME IInv, NEW c \in Ctrl, NEW l \in EdgeLines(c), Request(c, l)
    PROVE  IInv'
<1> DEFINE r == IF c = "S" /\ ~mode8259 THEN irr
                ELSE [irr EXCEPT ![c] = IF c = "M" /\ l = Crtv /\ l \in isr[c]
                                        THEN @ \ {l} ELSE @ \cup {l}]
<1>1. l \in Lines[c] /\ l \in Nat /\ (c = "M" => l # Cascade) /\ (c = "S" => l \notin LevelLines)
  BY LinesAre DEF EdgeLines, Ctrl
<1>2. irr \in Requests
  BY DEF IInv, TypeOK, Requests
<1>3. r \in Requests /\ (Cascade \in r["M"] <=> Cascade \in irr["M"])
      /\ r["S"] \cap LevelLines = irr["S"] \cap LevelLines
  BY <1>1, <1>2 DEF Requests, Ctrl
<1>4. Truthful(r)
  BY <1>3 DEF IInv, IntIsOffer, Truthful
<1>5. /\ UNCHANGED <<mode8259, inte, status, mask8214, pending, timer2, imr, isr, pry, smm, icw1,
                     aeoi, writeicw, held, ei, cpu, phase, slice, vector, nest, served, plain>>
      /\ IF LevelOf[<<c, l>>] = NoLevel THEN irr' = r /\ UNCHANGED irr8214
         ELSE Latch(LevelOf[<<c, l>>], r)
      /\ picmask' \in BOOLEAN
  BY DEF Request, SetIrq, machine, history, IInv, TypeOK
<1>6. LevelOf[<<c, l>>] \in Levels \cup {NoLevel}
  BY <1>1, PicAssumption
<1> HIDE DEF r
<1>7. /\ irr' \in Requests /\ irr8214 \subseteq irr8214' /\ irr8214' \subseteq Levels
      /\ irr'["S"] = r["S"] /\ IntIsOffer'
  <2>1. CASE LevelOf[<<c, l>>] = NoLevel
    BY <1>3, <1>4, <1>5, <2>1 DEF IInv, TypeOK, Truthful, IntIsOffer, Offered
  <2>2. CASE LevelOf[<<c, l>>] # NoLevel
    BY <1>3, <1>4, <1>5, <1>6, <2>2, LatchStep DEF IInv
  <2> QED BY <2>1, <2>2
<1>8. TypeOK'
  BY <1>5, <1>7 DEF IInv, TypeOK, Requests
<1>9. Unrotated' /\ NestedOrder'
  BY <1>5, NestingFrame DEF IInv, nesting
<1>10. Offering'
  BY <1>5, <1>7 DEF IInv, Offering
<1>11. EdgeOnce' /\ served' \subseteq held'
  BY <1>3, <1>5, <1>7 DEF IInv, EdgeOnce, TypeOK
<1> QED BY <1>7, <1>8, <1>9, <1>10, <1>11 DEF IInv

LEMMA LatchingStep ==
    ASSUME IInv, (\E lv \in DirectLevels : Request8214(lv)) \/ GenTimer2
    PROVE  IInv'
<1>1. irr \in Requests /\ Truthful(irr)
  BY DEF IInv, TypeOK, Requests, IntIsOffer, Truthful
<1>2. /\ UNCHANGED <<mode8259, inte, status, mask8214, pending, imr, isr, pry, smm, icw1, aeoi,
                     writeicw, held, picmask, ei, cpu, phase, slice, vector, nest, served, plain>>
      /\ timer2' \in BOOLEAN
      /\ (\E lv \in Levels : Latch(lv, irr)) \/ UNCHANGED <<irr8214, irr>>
  <2>1. ASSUME NEW lv \in DirectLevels, Request8214(lv) PROVE <1>2!:
    BY <2>1, PicAssumption DEF Request8214, Others8259, machine, history, IInv, TypeOK
  <2>2. CASE GenTimer2
    BY <2>2, PicAssumption DEF GenTimer2, Others8259, machine, history, IInv, TypeOK
  <2> QED BY <2>1, <2>2
<1>3. /\ irr' \in Requests /\ irr8214 \subseteq irr8214' /\ irr8214' \subseteq Levels
      /\ irr'["S"] = irr["S"] /\ IntIsOffer'
  <2>1. CASE UNCHANGED <<irr8214, irr>>
    BY <1>1, <1>2, <2>1 DEF IInv, TypeOK, IntIsOffer, Truthful, Offered
  <2>2. ASSUME NEW lv \in Levels, Latch(lv, irr) PROVE <1>3!:
    BY <1>1, <1>2, <2>2, LatchStep DEF IInv
  <2> QED BY <1>2, <2>1, <2>2
<1>4. TypeOK'
  BY <1>2, <1>3 DEF IInv, TypeOK, Requests
<1>5. Unrotated' /\ NestedOrder'
  BY <1>2, NestingFrame DEF IInv, nesting
<1>6. Offering' /\ EdgeOnce' /\ served' \subseteq held'
  BY <1>2, <1>3 DEF IInv, Offering, EdgeOnce
<1> QED BY <1>3, <1>4, <1>5, <1>6 DEF IInv

\* A request that goes away, and the levels of the NDP.
LEMMA WithdrawStep ==
    ASSUME IInv, PicMask \/ \E c \in Ctrl : \E l \in EdgeLines(c) : Withdraw(c, l)
    PROVE  IInv'
<1>1. /\ UNCHANGED <<imr, isr, pry, smm, icw1, aeoi, writeicw, held, icu8214, machine, history>>
      /\ picmask' \in BOOLEAN
      /\ \E d \in [Ctrl -> SUBSET Nat] : irr' = [c \in Ctrl |-> irr[c] \ d[c]]
  <2>1. CASE PicMask
    <3> DEFINE d == [c \in Ctrl |-> IF c = "M" THEN imr["M"] \cap {Timer} ELSE {}]
    <3>1. d \in [Ctrl -> SUBSET Nat] /\ irr' = [c \in Ctrl |-> irr[c] \ d[c]]
      BY ZenonT(60), <2>1 DEF PicMask, IInv, TypeOK, Ctrl
    <3> QED BY <2>1, <3>1 DEF PicMask
  <2>2. ASSUME NEW c \in Ctrl, NEW l \in EdgeLines(c), Withdraw(c, l) PROVE <1>1!:
    <3> DEFINE d == [k \in Ctrl |-> IF k = c THEN {l} ELSE {}]
    <3>1. l \in Nat
      BY <2>2, LinesAre DEF EdgeLines
    <3>2. d \in [Ctrl -> SUBSET Nat] /\ irr' = [k \in Ctrl |-> irr[k] \ d[k]]
      BY ZenonT(60), <2>2, <3>1 DEF Withdraw, IInv, TypeOK
    <3> QED BY <2>2, <3>2 DEF Withdraw, Others8259, IInv, TypeOK
  <2> QED BY <2>1, <2>2
<1>2. irr' \in [Ctrl -> SUBSET Nat] /\ \A c \in Ctrl : irr'[c] \subseteq irr[c]
  BY <1>1 DEF IInv, TypeOK
<1>3. TypeOK'
  BY <1>1, <1>2 DEF IInv, TypeOK, icu8214, machine, history
<1>4. Unrotated' /\ NestedOrder'
  BY <1>1, NestingFrame DEF IInv, nesting, history
<1>5. Offering' /\ IntIsOffer'
  BY <1>1, <1>2 DEF IInv, Offering, IntIsOffer, Truthful, Offered, icu8214, Ctrl
<1>6. EdgeOnce' /\ served' \subseteq held'
  BY <1>1, <1>2 DEF IInv, EdgeOnce, history, Ctrl
<1> QED BY <1>3, <1>4, <1>5, <1>6 DEF IInv

LEMMA SetLevelStep ==
    ASSUME IInv, NEW l \in LevelLines, NEW asserted \in BOOLEAN, SetLevel(l, asserted)
    PROVE  IInv'
<1>1. UNCHANGED <<imr, isr, pry, smm, icw1, aeoi, writeicw, picmask, icu8214, machine, nest, plain>>
  BY DEF SetLevel
<1>2. l \in Lines["S"] /\ l \in Nat /\ "S" \in Ctrl
  BY PicAssumption, LinesAre DEF Ctrl
<1>3. /\ irr' \in [Ctrl -> SUBSET Nat] /\ irr'["M"] = irr["M"]
      /\ irr'["S"] = IF asserted /\ NewEdge(l) THEN irr["S"] \cup {l}
                     ELSE IF ~asserted /\ icw1["S"].ltim THEN irr["S"] \ {l} ELSE irr["S"]
      /\ held' = IF asserted THEN held \cup {l} ELSE held \ {l}
      /\ served' = IF asserted THEN served ELSE served \ {l}
  BY <1>2 DEF SetLevel, IInv, TypeOK, Ctrl
<1>4. TypeOK'
  <2>1. \A c \in Ctrl : irr'[c] \cup imr'[c] \cup isr'[c] \subseteq Lines[c]
    BY <1>1, <1>2, <1>3 DEF IInv, TypeOK, Ctrl
  <2>2. held' \subseteq LevelLines /\ served' \subseteq LevelLines
    BY <1>3 DEF IInv, TypeOK
  <2> QED BY <1>1, <1>3, <2>1, <2>2 DEF IInv, TypeOK, icu8214, machine
<1>5. Unrotated' /\ NestedOrder'
  BY <1>1, NestingFrame DEF IInv, nesting
<1>6. Offering' /\ IntIsOffer'
  BY <1>1, <1>3 DEF IInv, Offering, IntIsOffer, Truthful, Offered, icu8214
<1>7. EdgeOnce' /\ served' \subseteq held'
  BY <1>1, <1>3 DEF IInv, EdgeOnce, NewEdge
<1> QED BY <1>4, <1>5, <1>6, <1>7 DEF IInv

-----------------------------------------------------------------------------
(***************************************************************************)
(* The instructions of the guest.                                          *)
(***************************************************************************)
LEMMA HeldIs ==
    ASSUME TypeOK
    PROVE  /\ WithHeld(irr) \in Requests /\ WithHeld(irr)["M"] = irr["M"]
           /\ irr["S"] \subseteq WithHeld(irr)["S"]
           /\ ~icw1["S"].ltim => WithHeld(irr) = irr
<1>1. held \subseteq Lines["S"] /\ Lines["S"] \subseteq Nat
  BY PicAssumption, LinesAre DEF TypeOK, Ctrl
<1> QED BY <1>1 DEF WithHeld, Requests, TypeOK, Ctrl

LEMMA InstructionIs ==
    ASSUME TypeOK, NEW leaves \in {"open", "one", "over"}, Instruction(leaves)
    PROVE  phase' = "run" /\ slice' \in {"open", "one", "over"} /\ UNCHANGED vector
BY DEF Instruction

\* OCW2, with the end of an interrupt.
LEMMA WriteOcw2Step ==
    ASSUME IInv, NEW c \in Ctrl, NEW cmd \in Ocw2[c], WriteOcw2(c, cmd)
    PROVE  IInv'
<1> DEFINE idle == ~cmd.sl /\ isr[c] = {}
           l == IF cmd.sl THEN cmd.l ELSE First(c, isr[c])
<1>1. cmd \in Command /\ cmd.l \in Lines[c]
  BY PicAssumption
<1>2. ~idle => l \in Lines[c]
  <2>1. isr[c] \in SUBSET Lines[c]
    BY DEF IInv, TypeOK
  <2> QED BY <1>1, <2>1, FirstIsForemost DEF IInv
<1>3. phase' = "run" /\ slice' \in {"open", "one", "over"}
  BY InstructionIs DEF WriteOcw2, IInv, Ends
<1>4. /\ writeicw' = [writeicw EXCEPT ![c] = 0]
      /\ UNCHANGED <<served, imr, smm, icw1, aeoi, held, picmask, icu8214, ei, cpu>>
      /\ \/ idle /\ UNCHANGED <<pry, isr, irr, nest, plain>>
         \/ /\ ~idle
            /\ pry' = [pry EXCEPT ![c] = IF cmd.rotate THEN After(c, l) ELSE @]
            /\ plain' = [plain EXCEPT ![c] = @ /\ ~cmd.rotate]
            /\ isr' = [isr EXCEPT ![c] = IF cmd.eoi THEN @ \ {l} ELSE @]
            /\ nest' = [nest EXCEPT ![c] = IF ~plain'[c] THEN <<>>
                                           ELSE IF cmd.eoi THEN Without(@, l) ELSE @]
            /\ irr' = IF cmd.eoi THEN WithHeld(irr) ELSE irr
  BY DEF WriteOcw2
<1> HIDE DEF idle, l
<1>5. CASE idle
  <2>1. UNCHANGED <<pry, isr, irr, nest, plain>>
    BY <1>4, <1>5
  <2>2. TypeOK'
    BY <1>3, <1>4, <2>1 DEF IInv, TypeOK, icu8214
  <2>3. Unrotated' /\ NestedOrder'
    BY <1>4, <2>1, NestingFrame DEF IInv, nesting
  <2>4. Offering' /\ IntIsOffer' /\ EdgeOnce' /\ served' \subseteq held'
    BY <1>4, <2>1 DEF IInv, Offering, IntIsOffer, Truthful, Offered, EdgeOnce, icu8214
  <2> QED BY <2>2, <2>3, <2>4 DEF IInv
<1>6. CASE ~idle
  <2>1. l \in Lines[c] /\ l \in Nat /\ l < Size[c] /\ Size[c] \in Nat \ {0}
    BY <1>2, <1>6, LinesAre
  <2>2. After(c, l) \in Lines[c] /\ After(c, l) \in Nat
    <3>1. (l + 1) % Size[c] \in 0..(Size[c] - 1)
      BY <2>1
    <3> QED BY <3>1, LinesAre DEF After
  <2>3. /\ pry' = [pry EXCEPT ![c] = IF cmd.rotate THEN After(c, l) ELSE @]
        /\ plain' = [plain EXCEPT ![c] = @ /\ ~cmd.rotate]
        /\ isr' = [isr EXCEPT ![c] = IF cmd.eoi THEN @ \ {l} ELSE @]
        /\ nest' = [nest EXCEPT ![c] = IF ~plain'[c] THEN <<>>
                                       ELSE IF cmd.eoi THEN Without(@, l) ELSE @]
        /\ irr' = IF cmd.eoi THEN WithHeld(irr) ELSE irr
    BY <1>4, <1>6
  <2>4. /\ irr' \in Requests /\ irr'["M"] = irr["M"]
        /\ ~icw1["S"].ltim => irr' = irr
    BY <2>3, HeldIs DEF IInv, TypeOK, Requests
  <2>5. /\ pry' \in [Ctrl -> Nat] /\ plain' \in [Ctrl -> BOOLEAN] /\ isr' \in [Ctrl -> SUBSET Nat]
        /\ \A k \in Ctrl : pry'[k] \in Lines[k] /\ isr'[k] \subseteq Lines[k]
        /\ writeicw' \in [Ctrl -> 0..3]
    BY <1>1, <1>4, <2>2, <2>3 DEF IInv, TypeOK, Command
  <2>6. ASSUME NEW k \in Ctrl
        PROVE  /\ nest'[k] \in Seq(Nat)
               /\ plain'[k] => /\ plain[k] /\ pry'[k] = pry[k]
                               /\ Falling(nest'[k]) /\ Members(nest'[k]) = isr'[k]
    <3>1. nest[k] \in Seq(Nat) /\ (plain[k] => Falling(nest[k]) /\ Members(nest[k]) = isr[k])
      BY NestingIs DEF IInv, TypeOK
    <3>2. CASE k # c
      BY <2>3, <3>1, <3>2 DEF IInv, TypeOK
    <3>3. CASE k = c /\ ~plain'[c]
      <4>1. nest'[c] = <<>>
        BY <2>3, <3>3 DEF IInv, TypeOK
      <4> QED BY <3>3, <4>1
    <3>4. CASE k = c /\ plain'[c]
      <4>1. plain[c] /\ ~cmd.rotate /\ pry'[c] = pry[c]
        BY <2>3, <3>4 DEF IInv, TypeOK
      <4>2. CASE cmd.eoi
        <5>1. nest'[c] = Without(nest[c], l) /\ isr'[c] = isr[c] \ {l}
          BY <2>3, <3>4, <4>2 DEF IInv, TypeOK
        <5>2. nest[c] \in Seq(Nat) /\ Falling(nest[c]) /\ Members(nest[c]) = isr[c]
          BY <3>1, <3>4, <4>1
        <5>3. /\ Without(nest[c], l) \in Seq(Nat) /\ Falling(Without(nest[c], l))
              /\ Members(Without(nest[c], l)) = isr[c] \ {l}
          BY <2>1, <5>2, WithoutIs
        <5> QED BY <3>4, <4>1, <5>1, <5>3
      <4>3. CASE ~cmd.eoi
        <5>1. nest'[c] = nest[c] /\ isr'[c] = isr[c]
          BY <2>3, <3>4, <4>3 DEF IInv, TypeOK
        <5> QED BY <3>1, <3>4, <4>1, <5>1
      <4> QED BY <4>2, <4>3
    <3> QED BY <3>2, <3>3, <3>4
  <2>7. nest' \in [Ctrl -> Seq(Nat)]
    BY <2>3, <2>6 DEF IInv, TypeOK
  <2>8. TypeOK'
    BY <1>3, <1>4, <2>4, <2>5, <2>7 DEF IInv, TypeOK, icu8214, Requests
  <2>9. NestedOrder'
    BY <2>6 DEF NestedOrder, Falling, Members
  <2>10. Unrotated'
    BY <1>4, <2>6 DEF IInv, Unrotated
  <2>11. Offering' /\ IntIsOffer' /\ EdgeOnce' /\ served' \subseteq held'
    BY <1>4, <2>4 DEF IInv, Offering, IntIsOffer, Truthful, Offered, EdgeOnce, icu8214
  <2> QED BY <2>8, <2>9, <2>10, <2>11 DEF IInv
<1> QED BY <1>5, <1>6

\* OCW1, OCW3 and the ICWs.
LEMMA WriteMasterStep ==
    ASSUME IInv, NEW c \in Ctrl,
           \/ \E on \in Ocw3[c] : WriteOcw3(c, on)
           \/ \E mask \in Ocw1[c] : WriteOcw1(c, mask)
           \/ \E auto \in BOOLEAN : WriteIcw(c, auto)
    PROVE  IInv'
<1>1. UNCHANGED <<served, held, picmask, icu8214, ei, cpu, isr, icw1, pry>>
  BY DEF WriteOcw3, WriteOcw1, WriteIcw, history
<1>2. phase' = "run" /\ slice' \in {"open", "one", "over"}
  BY InstructionIs DEF WriteOcw3, WriteOcw1, WriteIcw, UnmaskEnds, Ends, IInv
<1>3. irr' = irr \/ irr' = WithHeld(irr)
  BY DEF WriteOcw3, WriteOcw1, WriteIcw
<1>4. irr' \in Requests /\ irr'["M"] = irr["M"] /\ (~icw1["S"].ltim => irr' = irr)
  BY <1>3, HeldIs DEF IInv, TypeOK, Requests
<1>5. /\ smm' \in [Ctrl -> BOOLEAN] /\ aeoi' \in [Ctrl -> BOOLEAN]
      /\ writeicw' \in [Ctrl -> 0..3]
  <2>1. ASSUME NEW on \in Ocw3[c], WriteOcw3(c, on) PROVE <1>5!:
    BY <2>1, PicAssumption DEF WriteOcw3, IInv, TypeOK
  <2>2. ASSUME NEW mask \in Ocw1[c], WriteOcw1(c, mask) PROVE <1>5!:
    BY <2>2 DEF WriteOcw1, IInv, TypeOK
  <2>3. ASSUME NEW auto \in BOOLEAN, WriteIcw(c, auto) PROVE <1>5!:
    <3> DEFINE w == writeicw[c]
    <3>1. w \in 0..3
      BY DEF IInv, TypeOK
    <3>2. w + 1 >= (IF icw1[c].ic4 THEN 4 ELSE 3) \/ w + 1 \in 0..3
      BY <3>1
    <3>3. IcwAfter(c) \in 0..3
      BY <3>2 DEF IcwAfter
    <3> QED BY <2>3, <3>3 DEF WriteIcw, IInv, TypeOK
  <2> QED BY <2>1, <2>2, <2>3
<1>6. /\ imr' \in [Ctrl -> SUBSET Nat] /\ \A k \in Ctrl : imr'[k] \subseteq Lines[k]
  <2>1. ASSUME NEW mask \in Ocw1[c], WriteOcw1(c, mask) PROVE <1>6!:
    <3>1. mask \subseteq Lines[c] /\ Lines[c] \subseteq Nat
      BY PicAssumption, LinesAre
    <3> QED BY <2>1, <3>1 DEF WriteOcw1, IInv, TypeOK
  <2>2. CASE imr' = imr
    BY <2>2 DEF IInv, TypeOK
  <2> QED BY <2>1, <2>2 DEF WriteOcw3, WriteIcw
<1>7. /\ nest' \in [Ctrl -> Seq(Nat)] /\ plain' \in [Ctrl -> BOOLEAN]
      /\ \A k \in Ctrl : plain'[k] => plain[k] /\ nest'[k] = nest[k] /\ (smm'[k] => smm[k])
  <2>1. ASSUME NEW on \in Ocw3[c], WriteOcw3(c, on) PROVE <1>7!:
    <3>1. on \in BOOLEAN
      BY <2>1, PicAssumption
    <3>2. CASE on = TRUE
      <4>1. nest' = [nest EXCEPT ![c] = <<>>] /\ plain' = [plain EXCEPT ![c] = FALSE]
            /\ smm' = [smm EXCEPT ![c] = TRUE]
        BY <2>1, <3>2 DEF WriteOcw3, IInv, TypeOK
      <4> QED BY <4>1 DEF IInv, TypeOK
    <3>3. CASE on = FALSE
      <4>1. nest' = nest /\ plain' = plain /\ smm' = [smm EXCEPT ![c] = FALSE]
        BY <2>1, <3>3 DEF WriteOcw3, IInv, TypeOK
      <4> QED BY <4>1 DEF IInv, TypeOK
    <3> QED BY <3>1, <3>2, <3>3
  <2>2. CASE UNCHANGED <<nest, plain, smm>>
    BY <2>2 DEF IInv, TypeOK
  <2> QED BY <2>1, <2>2 DEF WriteOcw1, WriteIcw, history
<1>8. TypeOK'
  BY <1>1, <1>2, <1>4, <1>5, <1>6, <1>7 DEF IInv, TypeOK, icu8214, Requests
<1>9. Unrotated' /\ NestedOrder'
  <2>1. Unrotated'
    BY <1>1, <1>7 DEF IInv, Unrotated
  <2>2. \A k \in Ctrl : plain'[k] => Falling(nest'[k]) /\ Members(nest'[k]) = isr'[k]
    BY <1>1, <1>7, NestingIs DEF IInv
  <2>3. NestedOrder'
    BY <2>2 DEF NestedOrder, Falling, Members
  <2> QED BY <2>1, <2>3
<1>10. Offering' /\ IntIsOffer' /\ EdgeOnce' /\ served' \subseteq held'
  BY <1>1, <1>4 DEF IInv, Offering, IntIsOffer, Truthful, Offered, EdgeOnce, icu8214
<1> QED BY <1>8, <1>9, <1>10 DEF IInv

LEMMA WriteIcw1Step ==
    ASSUME IInv, NEW c \in Ctrl, NEW icw \in Icw1[c], WriteIcw1(c, icw)
    PROVE  IInv'
<1>1. UNCHANGED <<isr, aeoi, held, picmask, icu8214, ei, cpu, nest, served, plain>>
  BY DEF WriteIcw1, history
<1>2. phase' = "run" /\ slice' \in {"open", "one", "over"}
  BY InstructionIs DEF WriteIcw1, IInv
<1>3. /\ irr' \in [Ctrl -> SUBSET Nat] /\ imr' \in [Ctrl -> SUBSET Nat]
      /\ \A k \in Ctrl : irr'[k] = (IF k = c THEN {} ELSE irr[k])
                         /\ imr'[k] = (IF k = c THEN {} ELSE imr[k])
  BY DEF WriteIcw1, IInv, TypeOK
<1>4. /\ smm' \in [Ctrl -> BOOLEAN] /\ pry' \in [Ctrl -> Nat] /\ writeicw' \in [Ctrl -> 0..3]
      /\ \A k \in Ctrl : pry'[k] \in {0, pry[k]} /\ (smm'[k] => smm[k])
  BY DEF WriteIcw1, IInv, TypeOK
<1>5. /\ icw1' \in [Ctrl -> [ltim : BOOLEAN, ic4 : BOOLEAN]]
      /\ c = "M" => icw1'["S"] = icw1["S"]
  BY PicAssumption DEF WriteIcw1, IInv, TypeOK, Ctrl
<1>6. \A k \in Ctrl : pry'[k] \in Lines[k]
  BY ZenonT(60), <1>4, LinesAre DEF IInv, TypeOK
<1>7. TypeOK'
  BY <1>1, <1>2, <1>3, <1>4, <1>5, <1>6 DEF IInv, TypeOK, icu8214
<1>8. Unrotated' /\ NestedOrder'
  BY <1>1, <1>4 DEF IInv, Unrotated, NestedOrder
<1>9. Offering' /\ IntIsOffer'
  BY <1>1, <1>3 DEF IInv, Offering, IntIsOffer, Truthful, Offered, icu8214, Ctrl
<1>10. EdgeOnce' /\ served' \subseteq held'
  <2>1. CASE c = "S"
    BY <1>1, <1>3, <2>1 DEF IInv, EdgeOnce, Ctrl
  <2>2. CASE c = "M"
    BY <1>1, <1>3, <1>5, <2>2 DEF IInv, EdgeOnce, Ctrl
  <2> QED BY <2>1, <2>2 DEF Ctrl
<1> QED BY <1>7, <1>8, <1>9, <1>10 DEF IInv

\* Instructions and steps of the loop that leave the controllers alone.
LEMMA CpuStep ==
    ASSUME IInv, UNCHANGED <<icu8259, icu8214, history>>,
           ei' \in BOOLEAN, cpu' \in Modes, phase' \in {"arb", "run", "events"},
           slice' \in {"open", "one", "over"}
    PROVE  IInv'
<1>1. TypeOK'
  BY DEF IInv, TypeOK, icu8259, icu8214, history
<1>2. Unrotated' /\ NestedOrder'
  BY NestingFrame DEF IInv, nesting, icu8259, history
<1>3. Offering' /\ IntIsOffer' /\ EdgeOnce' /\ served' \subseteq held'
  BY DEF IInv, Offering, IntIsOffer, Truthful, Offered, EdgeOnce, icu8259, icu8214, history
<1> QED BY <1>1, <1>2, <1>3 DEF IInv

LEMMA FlagStep ==
    ASSUME IInv, Sti \/ Cli \/ (\E flag \in BOOLEAN : Popf(flag) \/ Iret(flag))
                 \/ Brkem \/ Calln \/ Retem \/ EndSlice \/ EndEvents
    PROVE  IInv'
<1>1. TypeOK
  BY DEF IInv
<1>2. CASE Sti \/ Cli
  <2>1. ei' \in BOOLEAN /\ UNCHANGED <<icu8259, icu8214, cpu, history>>
    BY <1>2 DEF Sti, Cli
  <2>2. phase' = "run" /\ slice' \in {"open", "one", "over"}
    BY <1>1, <1>2, InstructionIs DEF Sti, Cli
  <2> QED BY <1>1, <2>1, <2>2, CpuStep DEF TypeOK
<1>3. ASSUME NEW flag \in BOOLEAN, Popf(flag) \/ Iret(flag) PROVE IInv'
  <2>1. ei' \in BOOLEAN /\ UNCHANGED <<icu8259, icu8214, history>>
    BY <1>3 DEF Popf, Iret
  <2>2. phase' = "run" /\ slice' \in {"open", "one", "over"}
    BY <1>1, <1>3, InstructionIs DEF Popf, Iret
  <2>3. cpu' \in Modes
    BY <1>1, <1>3, PicAssumption DEF Popf, Iret, TypeOK
  <2> QED BY <2>1, <2>2, <2>3, CpuStep
<1>4. CASE Brkem \/ Calln \/ Retem
  <2>1. ei' \in BOOLEAN /\ cpu' \in Modes /\ UNCHANGED <<icu8259, icu8214, history>>
    BY <1>1, <1>4 DEF Brkem, Calln, Retem, SwitchCpu, TypeOK
  <2>2. phase' = "run" /\ slice' \in {"open", "one", "over"}
    BY <1>1, <1>4, InstructionIs DEF Brkem, Calln, Retem, SwitchCpu
  <2> QED BY <2>1, <2>2, CpuStep
<1>5. CASE EndSlice \/ EndEvents
  BY <1>1, <1>5, CpuStep DEF EndSlice, EndEvents, TypeOK
<1> QED BY <1>2, <1>3, <1>4, <1>5

\* The ports of the 8214, the change to 8259 mode, and the acceptance of a level
\* by compatible code.
LEMMA Write8214Step ==
    ASSUME IInv, \/ \E st \in Statuses : WriteE4(st)
                 \/ \E mask \in E6Masks : WriteE6(mask)
                 \/ Write158 \/ Acknowledge
    PROVE  IInv'
<1>1. irr \in Requests
  BY DEF IInv, TypeOK, Requests
<1>2. UNCHANGED <<Others8259, cpu, history>>
  BY DEF WriteE4, WriteE6, Write158, Acknowledge
<1>3. phase' = "run" /\ slice' \in {"open", "one", "over"} /\ ei' \in BOOLEAN
  <2>1. TypeOK
    BY DEF IInv
  <2>2. ei' \in BOOLEAN
    BY <2>1 DEF WriteE4, WriteE6, Write158, Acknowledge, TypeOK
  <2> QED BY <2>1, <2>2, InstructionIs DEF WriteE4, WriteE6, Write158, Acknowledge, Ends
<1>4. /\ irr' \in Requests /\ irr'["S"] = irr["S"] /\ IntIsOffer' /\ Offering'
      /\ status' \in [xsgs : BOOLEAN, level : Nat] /\ mask8214' \subseteq Maskable
      /\ mode8259' \in BOOLEAN /\ inte' \in BOOLEAN /\ timer2' \in BOOLEAN
      /\ irr8214' \subseteq Levels /\ pending' \in Levels \cup {NoLevel}
  <2>1. ASSUME NEW st \in Statuses, WriteE4(st) PROVE <1>4!:
    <3>1. /\ status' = st /\ inte' = TRUE
          /\ UNCHANGED <<mode8259, mask8214, irr8214, pending, timer2>>
          /\ irr' = IF mode8259 THEN irr ELSE WithInt(irr, Offered')
      BY <2>1 DEF WriteE4, Arm
    <3>2. irr' \in Requests /\ irr'["S"] = irr["S"] /\ IntIsOffer'
      BY <1>1, <3>1, WithIntIs DEF IInv, IntIsOffer, Truthful
    <3> QED BY <3>1, <3>2, PicAssumption DEF IInv, TypeOK, Offering
  <2>2. ASSUME NEW mask \in E6Masks, WriteE6(mask) PROVE <1>4!:
    <3>1. /\ mask8214' = mask /\ timer2' \in BOOLEAN
          /\ UNCHANGED <<mode8259, inte, status, irr8214, pending, irr>>
      BY <2>2 DEF WriteE6, StartTimer2, IInv, TypeOK
    <3> QED BY <1>1, <3>1, PicAssumption DEF IInv, TypeOK, Offering, IntIsOffer, Truthful, Offered
  <2>3. CASE Write158
    <3>1. /\ mode8259' = TRUE /\ irr8214' = {} /\ inte' = FALSE /\ pending' = NoLevel
          /\ timer2' = FALSE /\ UNCHANGED <<status, mask8214>>
          /\ irr' = [irr EXCEPT !["M"] = @ \ {Cascade}]
      BY <2>3 DEF Write158, Leave
    <3>2. irr' \in Requests /\ irr'["S"] = irr["S"] /\ Cascade \notin irr'["M"]
      BY <1>1, <3>1 DEF Requests, Ctrl
    <3> QED BY <3>1, <3>2 DEF IInv, TypeOK, Offering, IntIsOffer, Truthful
  <2>4. CASE Acknowledge
    <3>1. /\ pending # NoLevel /\ pending' = NoLevel /\ inte' = FALSE
          /\ UNCHANGED <<mode8259, status, mask8214, timer2>>
          /\ irr8214' = irr8214 \ {pending} /\ irr' = Taken(irr, {<<"M", Cascade>>})
      BY <2>4 DEF Acknowledge, Accept
    <3>2. irr' \in Requests /\ Cascade \notin irr'["M"]
      BY <1>1, <3>1, TakenIs, LinesAre DEF Ctrl
    <3>3. irr'["S"] = irr["S"]
      BY <1>1, <3>1 DEF Taken, Ctrl
    <3> QED BY <3>1, <3>2, <3>3 DEF IInv, TypeOK, Offering, IntIsOffer, Truthful
  <2> QED BY <2>1, <2>2, <2>3, <2>4
<1>5. TypeOK'
  BY <1>2, <1>3, <1>4 DEF IInv, TypeOK, Others8259, history, Requests
<1>6. Unrotated' /\ NestedOrder'
  BY <1>2, NestingFrame DEF IInv, nesting, Others8259, history
<1>7. EdgeOnce' /\ served' \subseteq held'
  BY <1>2, <1>4 DEF IInv, EdgeOnce, Others8259, history
<1> QED BY <1>4, <1>5, <1>6, <1>7 DEF IInv

-----------------------------------------------------------------------------
(***************************************************************************)
(* pic_irq.                                                                *)
(***************************************************************************)
Seen == IF mode8259 THEN WithHeld(irr) ELSE WithInt(WithHeld(irr), Offered)

LEMMA SeenIs ==
    ASSUME IInv
    PROVE  /\ Seen \in Requests /\ Truthful(Seen)
           /\ ~icw1["S"].ltim => Seen["S"] = irr["S"]
<1>1. /\ WithHeld(irr) \in Requests /\ WithHeld(irr)["M"] = irr["M"]
      /\ ~icw1["S"].ltim => WithHeld(irr)["S"] = irr["S"]
  BY HeldIs DEF IInv
<1> QED BY <1>1, WithIntIs DEF Seen, Truthful, IntIsOffer, IInv

\* Taking the lines t, at most one of each controller.
LEMMA TakeStep ==
    ASSUME IInv, NEW t, Serve(t), irr' = Taken(Seen, t),
           \A c \in Ctrl : \A k, l \in Lines[c] : <<c, k>> \in t /\ <<c, l>> \in t => k = l,
           \A c \in Ctrl : \A l \in Lines[c] : <<c, l>> \in t => Innermost(c, l),
           UNCHANGED <<imr, pry, smm, icw1, aeoi, writeicw, held, plain>>,
           UNCHANGED <<mode8259, status, mask8214, timer2>>,
           picmask' \in BOOLEAN, phase' = "run", slice' = "open",
           ei' \in BOOLEAN, cpu' \in Modes, inte' \in BOOLEAN, irr8214' \subseteq Levels,
           pending' \in Levels \cup {NoLevel}, Offering', IntIsOffer'
    PROVE  IInv'
<1>1. irr' \in Requests /\ (~icw1["S"].ltim => irr'["S"] = irr["S"] \ {l \in Lines["S"] : <<"S", l>> \in t})
  BY SeenIs, TakenIs DEF Taken, Ctrl
<1>2. /\ isr' \in [Ctrl -> SUBSET Nat] /\ \A c \in Ctrl : isr'[c] \subseteq Lines[c]
      /\ nest' \in [Ctrl -> Seq(Nat)] /\ served' \subseteq LevelLines
      /\ NestedOrder'
  BY ServeNests DEF IInv
<1>3. TypeOK'
  BY <1>1, <1>2 DEF IInv, TypeOK, Requests
<1>4. Unrotated'
  BY DEF IInv, Unrotated
<1>5. EdgeOnce' /\ served' \subseteq held'
  <2>1. served' = served \cup {l \in held : <<"S", l>> \in t} /\ held' = held
    BY DEF Serve
  <2>2. held \subseteq Lines["S"]
    BY PicAssumption DEF IInv, TypeOK
  <2> QED BY <1>1, <2>1, <2>2 DEF IInv, EdgeOnce
<1> QED BY <1>2, <1>3, <1>4, <1>5 DEF IInv

LEMMA InterruptIs ==
    ASSUME TypeOK, NEW v, Interrupt(v)
    PROVE  ei' \in BOOLEAN /\ cpu' \in Modes
BY PicAssumption DEF Interrupt, TypeOK

LEMMA PicIrqStep ==
    ASSUME IInv, PicIrq
    PROVE  IInv'
<1> DEFINE v == Choice(Seen)
<1>1. /\ phase' = "run" /\ slice' = "open"
      /\ UNCHANGED <<imr, pry, smm, icw1, aeoi, writeicw, held, plain>>
  BY DEF PicIrq
<1>2. \/ ~ei /\ UNCHANGED <<irr, isr, picmask, icu8214, ei, cpu, vector, nest, served>>
      \/ /\ v = <<>> /\ irr' = Seen
         /\ UNCHANGED <<isr, picmask, icu8214, ei, cpu, vector, nest, served>>
      \/ v # <<>> /\ v[1] = "S" /\ TakeSlave(Seen, v[2])
      \/ v = <<"M", Cascade>> /\ ~mode8259 /\ Deliver8214(Seen)
      \/ v # <<>> /\ v[1] = "M" /\ (v[2] # Cascade \/ mode8259) /\ TakeMaster(Seen, v[2])
  BY DEF PicIrq, Seen
<1>3. TypeOK /\ Unrotated /\ Seen \in Requests /\ Truthful(Seen)
      /\ (~icw1["S"].ltim => Seen["S"] = irr["S"])
  BY SeenIs DEF IInv
<1>4. v # <<>> =>
        \/ /\ mode8259 /\ \E l \in Lines["S"] :
              /\ v = <<"S", l>> /\ l \notin isr["S"]
              /\ Innermost("S", l) /\ Innermost("M", Cascade)
        \/ ~mode8259 /\ v = <<"M", Cascade>> /\ Innermost("M", Cascade)
        \/ \E l \in Lines["M"] \ {Cascade} :
              v = <<"M", l>> /\ l \notin isr["M"] /\ Innermost("M", l)
  BY <1>3, ChoiceIs
<1> HIDE DEF v
<1>5. CASE ~ei /\ UNCHANGED <<irr, isr, picmask, icu8214, ei, cpu, vector, nest, served>>
  BY <1>1, <1>3, <1>5, CpuStep DEF TypeOK, icu8259, history
<1>6. CASE v = <<>> /\ irr' = Seen /\ UNCHANGED <<isr, picmask, icu8214, ei, cpu, vector, nest, served>>
  <2>1. TypeOK'
    BY <1>1, <1>3, <1>6 DEF TypeOK, icu8214, Requests
  <2>2. Unrotated' /\ NestedOrder'
    BY <1>1, <1>6, NestingFrame DEF IInv, nesting
  <2>3. Offering' /\ IntIsOffer' /\ EdgeOnce' /\ served' \subseteq held'
    BY <1>1, <1>3, <1>6 DEF IInv, Offering, IntIsOffer, Truthful, Offered, EdgeOnce, icu8214
  <2> QED BY <2>1, <2>2, <2>3 DEF IInv
<1>7. CASE v # <<>> /\ v[1] = "S" /\ TakeSlave(Seen, v[2])
  <2>1. PICK l \in Lines["S"] : /\ v = <<"S", l>> /\ mode8259
                                /\ Innermost("S", l) /\ Innermost("M", Cascade)
    BY <1>4, <1>7
  <2> DEFINE t == {<<"M", Cascade>>, <<"S", l>>}
  <2>2. /\ Serve(t) /\ irr' = Taken(Seen, t) /\ UNCHANGED <<picmask, icu8214>>
        /\ Interrupt(<<"S", l>>)
    BY <1>7, <2>1 DEF TakeSlave
  <2>3. /\ \A c \in Ctrl : \A j, k \in Lines[c] : <<c, j>> \in t /\ <<c, k>> \in t => j = k
        /\ \A c \in Ctrl : \A k \in Lines[c] : <<c, k>> \in t => Innermost(c, k)
    BY <2>1
  <2>4. ei' \in BOOLEAN /\ cpu' \in Modes
    BY <1>3, <2>2, InterruptIs
  <2>5. irr'["M"] \subseteq Seen["M"]
    BY <1>3, <2>2, TakenIs DEF Ctrl
  <2>6. Offering' /\ IntIsOffer'
    BY <1>3, <2>1, <2>2, <2>5 DEF IInv, Offering, IntIsOffer, Truthful, icu8214
  <2> HIDE DEF t
  <2> QED BY <1>1, <1>3, <2>2, <2>3, <2>4, <2>6, TakeStep DEF icu8214, TypeOK
<1>8. CASE v # <<>> /\ v[1] = "M" /\ (v[2] # Cascade \/ mode8259) /\ TakeMaster(Seen, v[2])
  <2>1. PICK l \in Lines["M"] \ {Cascade} : v = <<"M", l>> /\ Innermost("M", l)
    BY <1>4, <1>8
  <2> DEFINE t == {<<"M", l>>}
  <2>2. /\ Serve(t) /\ irr' = Taken(Seen, t) /\ UNCHANGED icu8214 /\ picmask' \in BOOLEAN
        /\ Interrupt(<<"M", l>>)
    BY <1>3, <1>8, <2>1 DEF TakeMaster, TypeOK
  <2>3. /\ \A c \in Ctrl : \A j, k \in Lines[c] : <<c, j>> \in t /\ <<c, k>> \in t => j = k
        /\ \A c \in Ctrl : \A k \in Lines[c] : <<c, k>> \in t => Innermost(c, k)
    BY <2>1
  <2>4. ei' \in BOOLEAN /\ cpu' \in Modes
    BY <1>3, <2>2, InterruptIs
  <2>5. irr'["M"] \subseteq Seen["M"]
    BY <1>3, <2>2, TakenIs DEF Ctrl
  <2>6. Offering' /\ IntIsOffer'
    BY <1>3, <2>2, <2>5 DEF IInv, Offering, IntIsOffer, Truthful, Offered, icu8214
  <2> HIDE DEF t
  <2> QED BY <1>1, <1>3, <2>2, <2>3, <2>4, <2>6, TakeStep DEF icu8214, TypeOK
<1>9. CASE v = <<"M", Cascade>> /\ ~mode8259 /\ Deliver8214(Seen)
  <2> DEFINE t == {<<"M", Cascade>>}
             rest == Taken(Seen, t)
  <2>1. rest \in Requests /\ Cascade \notin rest["M"] /\ rest["S"] = Seen["S"]
    <3>1. "M" \in Ctrl /\ "S" \in Ctrl /\ Cascade \in Lines["M"] /\ <<"M", Cascade>> \in t
      BY LinesAre DEF Ctrl
    <3>2. rest \in Requests /\ Cascade \notin rest["M"]
      BY <1>3, <3>1, TakenIs
    <3>3. rest["S"] = Seen["S"] \ {k \in Lines["S"] : <<"S", k>> \in t}
      BY <3>1 DEF Taken
    <3>4. rest["S"] = Seen["S"]
      BY <3>3
    <3> QED BY <3>2, <3>4
  <2>2. UNCHANGED <<picmask, mode8259, status, mask8214, timer2>>
    BY <1>9 DEF Deliver8214
  <2>3. Innermost("M", Cascade)
    BY <1>4, <1>9
  <2>4. /\ \A c \in Ctrl : \A j, k \in Lines[c] : <<c, j>> \in t /\ <<c, k>> \in t => j = k
        /\ \A c \in Ctrl : \A k \in Lines[c] : <<c, k>> \in t => Innermost(c, k)
    BY <2>3
  <2>5. CASE irr' = rest /\ UNCHANGED <<isr, nest, served, irr8214, inte, pending, vector, ei, cpu>>
    <3>1. TypeOK'
      BY <1>1, <1>3, <2>1, <2>2, <2>5 DEF TypeOK, Requests
    <3>2. Unrotated' /\ NestedOrder'
      BY <1>1, <2>5, NestingFrame DEF IInv, nesting
    <3>3. Offering' /\ IntIsOffer' /\ EdgeOnce' /\ served' \subseteq held'
      BY <1>1, <1>3, <2>1, <2>2, <2>5 DEF IInv, Offering, IntIsOffer, Truthful, EdgeOnce
    <3> QED BY <3>1, <3>2, <3>3 DEF IInv
  <2>6. CASE Serve(t) /\ Offered # NoLevel /\ pending' = Offered /\ irr' = rest
             /\ UNCHANGED <<irr8214, inte, vector, ei, cpu>>
    <3>1. inte /\ Offered \in irr8214 /\ Offered \in Levels
      BY <1>3, <2>6, OfferIsLatched
    <3>2. Offering' /\ IntIsOffer'
      BY <1>9, <2>1, <2>2, <2>6, <3>1 DEF Offering, IntIsOffer, Truthful
    <3> HIDE DEF t
    <3> QED BY <1>1, <1>3, <2>2, <2>4, <2>6, <3>1, <3>2, TakeStep DEF TypeOK
  <2>7. CASE Serve(t) /\ Offered # NoLevel /\ UNCHANGED pending /\ Accept(Offered, rest)
             /\ Interrupt(<<"8214", Offered>>)
    <3>1. pending = NoLevel
      BY <1>3, <2>7, OfferIsLatched
    <3>2. irr8214' = irr8214 \ {Offered} /\ inte' = FALSE /\ irr' = Taken(rest, t)
      BY <2>7 DEF Accept
    <3>3. irr' = rest
      BY <3>2 DEF Taken
    <3>4. ei' \in BOOLEAN /\ cpu' \in Modes
      BY <1>3, <2>7, InterruptIs
    <3>5. Offering' /\ IntIsOffer'
      BY <2>1, <2>7, <3>1, <3>3 DEF Offering, IntIsOffer, Truthful
    <3> HIDE DEF t
    <3> QED BY <1>1, <1>3, <2>2, <2>4, <2>7, <3>2, <3>3, <3>4, <3>5, TakeStep DEF TypeOK
  <2> QED BY <1>9, <2>5, <2>6, <2>7 DEF Deliver8214
<1> QED BY <1>2, <1>5, <1>6, <1>7, <1>8, <1>9

-----------------------------------------------------------------------------
\* The invariant holds of every state, whatever the devices raise and the guest
\* writes.
THEOREM Invariance == Spec => []IInv
<1>1. Init => IInv
  <2> SUFFICES ASSUME Init PROVE IInv
    OBVIOUS
  <2>1. TypeOK
    <3>1. irr \in [Ctrl -> SUBSET Nat] /\ isr \in [Ctrl -> SUBSET Nat] /\ imr \in [Ctrl -> SUBSET Nat]
          /\ \A c \in Ctrl : irr[c] \cup imr[c] \cup isr[c] \subseteq Lines[c]
      BY PicAssumption DEF Init
    <3>2. pry \in [Ctrl -> Nat] /\ \A c \in Ctrl : pry[c] \in Lines[c]
      BY LinesAre DEF Init
    <3>3. /\ smm \in [Ctrl -> BOOLEAN] /\ aeoi \in [Ctrl -> BOOLEAN] /\ plain \in [Ctrl -> BOOLEAN]
          /\ writeicw \in [Ctrl -> 0..3] /\ nest \in [Ctrl -> Seq(Nat)]
          /\ icw1 \in [Ctrl -> [ltim : BOOLEAN, ic4 : BOOLEAN]]
          /\ status \in [xsgs : BOOLEAN, level : Nat]
      BY DEF Init
    <3>4. cpu \in Modes
      BY PicAssumption DEF Init
    <3> QED BY <3>1, <3>2, <3>3, <3>4 DEF Init, TypeOK
  <2>2. Unrotated /\ NestedOrder
    BY DEF Init, Unrotated, NestedOrder
  <2>3. Offering /\ IntIsOffer /\ EdgeOnce /\ served \subseteq held
    BY DEF Init, Offering, IntIsOffer, Truthful, EdgeOnce, Ctrl
  <2> QED BY <2>1, <2>2, <2>3 DEF IInv
<1>2. IInv /\ [Next]_vars => IInv'
  <2> SUFFICES ASSUME IInv, [Next]_vars PROVE IInv'
    OBVIOUS
  <2>1. CASE PicIrq
    BY <2>1, PicIrqStep
  <2>2. CASE Device
    BY <2>2, SetIrqStep, WithdrawStep, LatchingStep, SetLevelStep DEF Device
  <2>3. CASE Program
    BY <2>3, WriteOcw2Step, WriteMasterStep, WriteIcw1Step, Write8214Step, FlagStep DEF Program
  <2>4. CASE Acknowledge
    BY <2>4, Write8214Step
  <2>5. CASE EndSlice \/ EndEvents \/ Brkem \/ Calln \/ Retem
    BY <2>5, FlagStep
  <2>6. CASE UNCHANGED vars
    BY <2>6, CpuStep DEF vars, machine, IInv, TypeOK
  <2> QED BY <2>1, <2>2, <2>3, <2>4, <2>5, <2>6 DEF Next
<1> QED BY <1>1, <1>2, PTL DEF Spec

\* Registers, masks and histories keep their types.
THEOREM TypeIsKept == Spec => []TypeOK
<1>1. IInv => TypeOK
  BY DEF IInv
<1> QED BY <1>1, Invariance, PTL

\* While a controller is neither rotated nor in special mask mode, its lines in
\* service were taken in ascending priority.
THEOREM InterruptsNest == Spec => []NestedOrder
<1>1. IInv => NestedOrder
  BY DEF IInv
<1> QED BY <1>1, Invariance, PTL

\* An input that stays asserted is served once in edge mode.
THEOREM EdgesAreServedOnce == Spec => []EdgeOnce
<1>1. IInv => EdgeOnce
  BY DEF IInv
<1> QED BY <1>1, Invariance, PTL

\* The master's IR7 stands for a level that the 8214 offers.
THEOREM IntFollowsTheOffer == Spec => []NoSpuriousInt
<1>1. IInv => NoSpuriousInt
  BY DEF IInv, IntIsOffer, Truthful, NoSpuriousInt
<1> QED BY <1>1, Invariance, PTL

\* A level of the 8214 is given up only by a controller that was armed and that is
\* disarmed by it, or with the change to 8259 mode.
THEOREM ArmedForEachAcceptance == Spec => OneAcceptPerArming
<1>1. IInv /\ [Next]_vars =>
         [\A lv \in irr8214 \ irr8214' : mode8259' \/ (inte /\ ~inte')]_vars
  <2> SUFFICES ASSUME IInv, Next, irr8214 \ irr8214' # {}
               PROVE  mode8259' \/ (inte /\ ~inte')
    BY DEF vars, icu8214
  <2>1. CASE PicIrq
    <3>1. Deliver8214(Seen)
      BY <2>1 DEF PicIrq, Seen, icu8214, TakeSlave, TakeMaster
    <3>2. Offered # NoLevel /\ \E r : Accept(Offered, r)
      BY <3>1 DEF Deliver8214
    <3> QED BY <3>2, OfferIsLatched DEF Accept, IInv
  <2>2. CASE Device
    <3>1. irr8214 \subseteq irr8214'
      BY ZenonT(60), <2>2 DEF Device, Request, SetIrq, Withdraw, Request8214, SetLevel, PicMask, GenTimer2,
                  Latch, icu8214
    <3> QED BY <3>1
  <2>3. CASE Program
    <3>1. mode8259'
      BY <2>3 DEF Program, WriteOcw2, WriteOcw3, WriteIcw1, WriteOcw1, WriteIcw, WriteE4, WriteE6,
                  Write158, Sti, Cli, Popf, Iret, icu8214
    <3> QED BY <3>1
  <2>4. CASE Acknowledge
    BY <2>4 DEF Acknowledge, Accept, IInv, Offering
  <2>5. CASE EndSlice \/ EndEvents \/ Brkem \/ Calln \/ Retem
    BY <2>5 DEF EndSlice, EndEvents, Brkem, Calln, Retem, SwitchCpu, icu8214
  <2> QED BY <2>1, <2>2, <2>3, <2>4, <2>5 DEF Next
<1> QED BY <1>1, Invariance, PTL DEF Spec, OneAcceptPerArming

\* Nothing but what RequestsKept lists takes a request of a device away.
Kept(c, l) ==
    \/ phase = "arb" /\ vector' = <<c, l>>
    \/ phase = "run" /\ UNCHANGED <<Others8259, icu8214, machine, history>>
    \/ phase = "run" /\ writeicw'[c] = 1 /\ imr'[c] = {}
    \/ c = "M" /\ l = Timer /\ picmask /\ l \in imr[c]
    \/ c = "M" /\ l = Crtv /\ l \in isr[c]

LEMMA PicIrqKeeps ==
    ASSUME IInv, PicIrq, NEW c \in Ctrl, NEW l \in EdgeLines(c), l \in irr[c], l \notin irr'[c]
    PROVE  Kept(c, l)
<1>1. l \in Lines[c] /\ <<c, l>> # <<"M", Cascade>> /\ phase = "arb"
  BY DEF EdgeLines, PicIrq
<1>2. Seen \in Requests /\ l \in Seen[c]
  <2>1. irr \in Requests /\ irr["S"] \subseteq WithHeld(irr)["S"] /\ WithHeld(irr)["M"] = irr["M"]
        /\ WithHeld(irr) \in Requests
    BY HeldIs DEF IInv, TypeOK, Requests
  <2>2. l \in WithHeld(irr)[c]
    BY <2>1 DEF Ctrl
  <2> QED BY <1>1, <2>1, <2>2, WithIntIs, SeenIs DEF Seen, Ctrl
<1>3. \A t : irr' = Taken(Seen, t) => <<c, l>> \in t
  BY <1>2, TakenIs
<1>4. irr' # Seen /\ irr' # irr
  BY <1>2
<1>5. \A t : Taken(Taken(Seen, t), t) = Taken(Seen, t)
  BY <1>2 DEF Taken, Requests
<1>6. irr' # Taken(Seen, {<<"M", Cascade>>})
  BY <1>1, <1>3
<1>7. ~Deliver8214(Seen)
  BY <1>5, <1>6 DEF Deliver8214, Accept
<1>8. PICK k : TakeSlave(Seen, k) \/ TakeMaster(Seen, k)
  BY <1>4, <1>7 DEF PicIrq, Seen
<1>9. CASE TakeSlave(Seen, k)
  BY <1>1, <1>3, <1>9 DEF TakeSlave, Interrupt, Kept
<1>10. CASE TakeMaster(Seen, k)
  BY <1>1, <1>3, <1>10 DEF TakeMaster, Interrupt, Kept
<1> QED BY <1>8, <1>9, <1>10

LEMMA DeviceKeeps ==
    ASSUME IInv, Device, NEW c \in Ctrl, NEW l \in EdgeLines(c), l \in irr[c], l \notin irr'[c]
    PROVE  Kept(c, l)
<1>1. irr \in Requests /\ (c = "M" => l # Cascade) /\ (c = "S" => l \notin LevelLines)
  BY DEF IInv, TypeOK, Requests, EdgeLines
<1>2. \A lv, r : r \in Requests /\ Latch(lv, r) => l \notin r[c]
  BY <1>1, WithIntIs DEF Latch, Ctrl
<1>3. ASSUME NEW d \in Ctrl, NEW k \in EdgeLines(d), Request(d, k) PROVE Kept(c, l)
  <2> DEFINE twice == d = "M" /\ k = Crtv /\ k \in isr[d]
             r == IF d = "S" /\ ~mode8259 THEN irr
                  ELSE [irr EXCEPT ![d] = IF twice THEN @ \ {k} ELSE @ \cup {k}]
  <2>1. k \in Lines[d] /\ k \in Nat
    BY <1>3, LinesAre DEF EdgeLines
  <2>2. irr' = r \/ \E lv : Latch(lv, r)
    BY <1>3 DEF Request, SetIrq
  <2>3. r \in Requests /\ (l \notin r[c] => twice /\ d = c /\ k = l)
    BY <1>1, <2>1 DEF Requests
  <2>4. l \notin r[c]
    BY <1>2, <2>2, <2>3
  <2> QED BY <2>3, <2>4 DEF Kept
<1>4. ASSUME NEW d \in Ctrl, NEW k \in EdgeLines(d), Withdraw(d, k) PROVE Kept(c, l)
  BY <1>4 DEF Withdraw, InInstruction, Kept
<1>5. ASSUME NEW lv \in DirectLevels, Request8214(lv) PROVE FALSE
  BY <1>1, <1>2, <1>5 DEF Request8214
<1>6. ASSUME NEW k \in LevelLines, NEW asserted \in BOOLEAN, SetLevel(k, asserted) PROVE FALSE
  BY <1>1, <1>6 DEF SetLevel, Requests, Ctrl
<1>7. CASE PicMask
  BY <1>1, <1>7 DEF PicMask, Requests, Ctrl, Kept
<1>8. CASE GenTimer2
  BY <1>1, <1>2, <1>8 DEF GenTimer2
<1> QED BY <1>3, <1>4, <1>5, <1>6, <1>7, <1>8 DEF Device

LEMMA ProgramKeeps ==
    ASSUME IInv, Program \/ Acknowledge, NEW c \in Ctrl, NEW l \in EdgeLines(c),
           l \in irr[c], l \notin irr'[c]
    PROVE  Kept(c, l)
<1>1. irr \in Requests /\ l \in Lines[c] /\ (c = "M" => l # Cascade)
  BY DEF IInv, TypeOK, Requests, EdgeLines
<1>2. l \in WithHeld(irr)[c] /\ (\A o : l \in WithInt(irr, o)[c]) /\ l \in Taken(irr, {<<"M", Cascade>>})[c]
  <2>1. l \in WithHeld(irr)[c]
    BY HeldIs DEF IInv, Ctrl
  <2>2. ASSUME NEW o PROVE l \in WithInt(irr, o)[c]
    BY <1>1, WithIntIs DEF Ctrl
  <2>3. l \in Taken(irr, {<<"M", Cascade>>})[c]
    BY <1>1, TakenIs
  <2> QED BY <2>1, <2>2, <2>3
<1>3. ASSUME NEW d \in Ctrl, NEW icw \in Icw1[d], WriteIcw1(d, icw) PROVE Kept(c, l)
  <2>1. d = c
    BY <1>1, <1>3 DEF WriteIcw1, Requests
  <2>2. writeicw'[c] = 1 /\ imr'[c] = {} /\ phase = "run"
    BY <1>3, <2>1 DEF WriteIcw1, Instruction, IInv, TypeOK
  <2> QED BY <2>2 DEF Kept
<1>4. ASSUME NEW d \in Ctrl,
             \/ \E cmd \in Ocw2[d] : WriteOcw2(d, cmd)
             \/ \E on \in Ocw3[d] : WriteOcw3(d, on)
             \/ \E mask \in Ocw1[d] : WriteOcw1(d, mask)
             \/ \E auto \in BOOLEAN : WriteIcw(d, auto)
      PROVE  FALSE
  <2>1. irr' = irr \/ irr' = WithHeld(irr)
    BY <1>4 DEF WriteOcw2, WriteOcw3, WriteOcw1, WriteIcw
  <2> QED BY <1>2, <2>1
<1>5. CASE (\E st \in Statuses : WriteE4(st)) \/ (\E mask \in E6Masks : WriteE6(mask)) \/ Acknowledge
  BY <1>2, <1>5 DEF WriteE4, WriteE6, Acknowledge, Accept
<1>6. CASE Write158
  BY <1>1, <1>6 DEF Write158, Leave, Requests, Ctrl
<1>7. CASE Sti \/ Cli \/ \E flag \in BOOLEAN : Popf(flag) \/ Iret(flag)
  BY <1>7 DEF Sti, Cli, Popf, Iret, icu8259
<1> QED BY <1>3, <1>4, <1>5, <1>6, <1>7 DEF Program

\* A request leaves IRR only when it is taken, withdrawn, cleared by ICW1, or for one
\* of the two inputs that the code treats specially.
THEOREM RequestsAreKept == Spec => RequestsKept
<1>1. IInv /\ [Next]_vars =>
         [\A c \in Ctrl : \A l \in EdgeLines(c) : l \in irr[c] /\ l \notin irr'[c] => Kept(c, l)]_vars
  <2> SUFFICES ASSUME IInv, Next, NEW c \in Ctrl, NEW l \in EdgeLines(c), l \in irr[c], l \notin irr'[c]
               PROVE  Kept(c, l)
    OBVIOUS
  <2>1. ~(EndSlice \/ EndEvents \/ Brkem \/ Calln \/ Retem)
    BY DEF EndSlice, EndEvents, Brkem, Calln, Retem, SwitchCpu, icu8259
  <2> QED BY <2>1, PicIrqKeeps, DeviceKeeps, ProgramKeeps DEF Next
<1>2. RequestsKept <=>
         [][\A c \in Ctrl : \A l \in EdgeLines(c) : l \in irr[c] /\ l \notin irr'[c] => Kept(c, l)]_vars
  BY DEF RequestsKept, Kept
<1> QED BY <1>1, <1>2, Invariance, PTL DEF Spec

-----------------------------------------------------------------------------
(***************************************************************************)
(* pic_irq takes the foremost request.                                     *)
(***************************************************************************)
\* Between two slices nothing has been taken yet.
Idle == phase # "run" => vector = <<>>

LEMMA IdleAlways == Spec => []Idle
<1>1. Init => Idle
  BY DEF Init, Idle
<1>2. Idle /\ [Next]_vars => Idle'
  <2> SUFFICES ASSUME Idle, [Next]_vars PROVE Idle'
    OBVIOUS
  <2>1. CASE PicIrq \/ EndSlice \/ EndEvents
    BY <2>1 DEF PicIrq, EndSlice, EndEvents, Idle
  <2>2. CASE Device
    BY <2>2 DEF Device, Request, Withdraw, Request8214, SetLevel, PicMask, GenTimer2, machine, Idle
  <2>3. CASE Program \/ Acknowledge \/ Brkem \/ Calln \/ Retem
    <3>1. \E leaves : Instruction(leaves)
      BY ZenonT(60), <2>3 DEF Program, WriteOcw2, WriteOcw3, WriteIcw1, WriteOcw1, WriteIcw, WriteE4, WriteE6,
                  Write158, Sti, Cli, Popf, Iret, Acknowledge, Brkem, Calln, Retem, SwitchCpu
    <3> QED BY <3>1 DEF Instruction, Idle
  <2>4. CASE UNCHANGED vars
    BY <2>4 DEF vars, machine, Idle
  <2> QED BY <2>1, <2>2, <2>3, <2>4 DEF Next
<1> QED BY <1>1, <1>2, PTL DEF Spec

LEMMA Remainder ==
    ASSUME NEW n \in Nat, NEW q \in Nat, q < n
    PROVE  (q + n) % n = q /\ q % n = q
OBVIOUS

\* No two lines of a controller have the same rank.
LEMMA RanksDiffer ==
    ASSUME TypeOK, NEW c \in Ctrl, NEW k \in Lines[c], NEW l \in Lines[c], k # l
    PROVE  Rank(c, k) # Rank(c, l)
<1> DEFINE n == Size[c]
           p == pry[c]
<1>1. n \in Nat /\ p \in Nat /\ p < n /\ k \in Nat /\ k < n /\ l \in Nat /\ l < n
  BY LinesAre DEF TypeOK
<1> HIDE DEF n, p
<1>2. \A j \in Nat : j < n => (j + n - p) % n = IF j >= p THEN j - p ELSE j + n - p
  <2> SUFFICES ASSUME NEW j \in Nat, j < n
               PROVE  (j + n - p) % n = IF j >= p THEN j - p ELSE j + n - p
    OBVIOUS
  <2>1. CASE j >= p
    <3> DEFINE q == j - p
    <3>1. q \in Nat /\ q < n /\ j + n - p = q + n
      BY <1>1, <2>1
    <3>2. (q + n) % n = q
      <4> HIDE DEF q
      <4> QED BY <1>1, <3>1, Remainder
    <3> QED BY <2>1, <3>1, <3>2
  <2>2. CASE j < p
    <3> DEFINE q == j + n - p
    <3>1. q \in Nat /\ q < n
      BY <1>1, <2>2
    <3>2. q % n = q
      <4> HIDE DEF q
      <4> QED BY <1>1, <3>1, Remainder
    <3> QED BY <1>1, <2>2, <3>2
  <2> QED BY <1>1, <2>1, <2>2
<1>3. Rank(c, k) = (k + n - p) % n /\ Rank(c, l) = (l + n - p) % n
  BY DEF Rank, n, p
<1> DEFINE rank(j) == IF j >= p THEN j - p ELSE j + n - p
<1>4. Rank(c, k) = rank(k) /\ Rank(c, l) = rank(l)
  BY <1>1, <1>2, <1>3
<1>5. rank(k) # rank(l)
  BY <1>1
<1> QED BY <1>4, <1>5

\* What asks at each controller, as pic_irq sees it.
SlaveAsks(r) == IF mode8259 THEN r["S"] \ imr["S"] ELSE {}
MasterAsks(r) == (r["M"] \cup (IF SlaveAsks(r) = {} THEN {} ELSE {Cascade})) \ imr["M"]
Leads(c, s, l) == /\ l \in Rivals(c, s) /\ l \in Lines[c]
                  /\ \A k \in Rivals(c, s) : Rank(c, l) <= Rank(c, k)

LEMMA ChoiceLeads ==
    ASSUME TypeOK, NEW r \in Requests, MasterAsks(r) # {}
    PROVE  \E m \in Lines["M"] : Leads("M", MasterAsks(r), m) /\
              \/ m # Cascade /\ Choice(r) = IF m \in isr["M"] THEN <<>> ELSE <<"M", m>>
              \/ m = Cascade /\ ~mode8259 /\ Choice(r) = <<"M", Cascade>>
              \/ m = Cascade /\ mode8259 /\ SlaveAsks(r) = {} /\ Choice(r) = <<>>
              \/ m = Cascade /\ mode8259 /\ \E s \in Lines["S"] : Leads("S", SlaveAsks(r), s)
                    /\ Choice(r) = IF s \in isr["S"] THEN <<>> ELSE <<"S", s>>
<1> DEFINE m == First("M", Rivals("M", MasterAsks(r)))
           s == First("S", Rivals("S", SlaveAsks(r)))
<1>1. "M" \in Ctrl /\ "S" \in Ctrl
  BY DEF Ctrl
<1>2. SlaveAsks(r) \in SUBSET Lines["S"] /\ MasterAsks(r) \in SUBSET Lines["M"]
  BY <1>1, LinesAre DEF Requests, SlaveAsks, MasterAsks
<1>3. Choice(r) = IF MasterAsks(r) = {} THEN <<>>
                  ELSE IF m # Cascade THEN IF m \in isr["M"] THEN <<>> ELSE <<"M", m>>
                  ELSE IF ~mode8259 THEN <<"M", Cascade>>
                  ELSE IF SlaveAsks(r) = {} \/ s \in isr["S"] THEN <<>> ELSE <<"S", s>>
  BY DEF Choice, MasterAsks, SlaveAsks
<1>4. Rivals("M", MasterAsks(r)) \in SUBSET Lines["M"] /\ Rivals("M", MasterAsks(r)) # {}
  BY <1>1, <1>2 DEF Rivals, TypeOK
<1>5. Leads("M", MasterAsks(r), m)
  BY <1>1, <1>4, FirstIsForemost DEF Leads
<1>6. ASSUME SlaveAsks(r) # {} PROVE Leads("S", SlaveAsks(r), s)
  <2>1. Rivals("S", SlaveAsks(r)) \in SUBSET Lines["S"] /\ Rivals("S", SlaveAsks(r)) # {}
    BY <1>1, <1>2, <1>6 DEF Rivals, TypeOK
  <2> QED BY <1>1, <2>1, FirstIsForemost DEF Leads
<1> HIDE DEF m, s
<1>7. m \in Lines["M"] /\ (SlaveAsks(r) # {} => s \in Lines["S"])
  BY <1>5, <1>6 DEF Leads
<1> QED BY <1>3, <1>5, <1>6, <1>7

\* Nothing is taken although something asks: it is held back.
LEMMA HeldBackIs ==
    ASSUME IInv, Choice(Seen) = <<>>, NEW c \in Ctrl, NEW l \in Asking(Seen, c)
    PROVE  HeldBack(Seen, c, l)
<1>1. Seen \in Requests /\ TypeOK /\ l \in Lines[c] /\ l \in Seen[c] \ imr[c]
  BY SeenIs DEF Asking, IInv, Requests
<1>2. c = "M" \/ c = "S"
  BY DEF Ctrl
<1>3. CASE c = "S" /\ (~mode8259 \/ Cascade \in imr["M"])
  BY <1>3 DEF HeldBack
<1>4. CASE c = "M" \/ (mode8259 /\ Cascade \notin imr["M"])
  <2>1. /\ c = "M" => l \in MasterAsks(Seen)
        /\ c = "S" => mode8259 /\ l \in SlaveAsks(Seen) /\ Cascade \in MasterAsks(Seen)
    BY <1>1, <1>2, <1>4 DEF MasterAsks, SlaveAsks
  <2>2. PICK m \in Lines["M"] : Leads("M", MasterAsks(Seen), m) /\
              \/ m # Cascade /\ m \in isr["M"]
              \/ m = Cascade /\ mode8259 /\ SlaveAsks(Seen) = {}
              \/ m = Cascade /\ mode8259 /\ \E s \in Lines["S"] :
                    Leads("S", SlaveAsks(Seen), s) /\ s \in isr["S"]
    BY <1>1, <1>2, <2>1, ChoiceLeads
  <2>3. CASE c = "M"
    <3>1. Rank("M", m) <= Rank("M", l)
      BY <2>1, <2>2, <2>3 DEF Leads, Rivals
    <3>2. CASE m \in isr["M"]
      BY <2>3, <3>1, <3>2 DEF HeldBack
    <3>3. CASE m = Cascade /\ mode8259 /\ m \notin isr["M"]
      <4>1. Cascade \in MasterAsks(Seen)
        BY <2>2, <3>3 DEF Leads, Rivals
      <4>2. Cascade \notin Seen["M"]
        BY <1>1, <3>3, SeenIs DEF Truthful
      <4>3. SlaveAsks(Seen) # {} /\ Cascade \notin imr["M"]
        BY <4>1, <4>2 DEF MasterAsks
      <4> QED BY <2>3, <3>1, <3>3, <4>3 DEF HeldBack, SlaveAsks, Asking
    <3> QED BY <2>2, <3>2, <3>3
  <2>4. CASE c = "S"
    <3>1. mode8259 /\ l \in SlaveAsks(Seen) /\ Cascade \in Rivals("M", MasterAsks(Seen))
      BY <2>1, <2>4 DEF Rivals
    <3>2. CASE m # Cascade /\ m \in isr["M"]
      <4>1. "M" \in Ctrl /\ Cascade \in Lines["M"]
        BY LinesAre DEF Ctrl
      <4>2. Rank("M", m) <= Rank("M", Cascade) /\ Rank("M", m) # Rank("M", Cascade)
        BY <1>1, <2>2, <3>1, <3>2, <4>1, RanksDiffer DEF Leads
      <4>3. Rank("M", m) \in Nat /\ Rank("M", Cascade) \in Nat
        BY <1>1, <4>1, RankIsNat
      <4>4. Rank("M", m) < Rank("M", Cascade)
        BY <4>2, <4>3
      <4> QED BY <2>4, <3>2, <4>4 DEF HeldBack
    <3>3. CASE m = Cascade
      <4>1. PICK s \in Lines["S"] : Leads("S", SlaveAsks(Seen), s) /\ s \in isr["S"]
        BY <2>2, <3>1, <3>3
      <4>2. Rank("S", s) <= Rank("S", l)
        BY <3>1, <4>1 DEF Leads, Rivals
      <4> QED BY <2>4, <4>1, <4>2 DEF HeldBack
    <3> QED BY <2>2, <3>2, <3>3
  <2> QED BY <1>2, <2>3, <2>4
<1> QED BY <1>2, <1>3, <1>4

\* What pic_irq takes comes before all that asks and all that is in service.
LEMMA TakenIsForemost ==
    ASSUME IInv, NEW c \in Ctrl, NEW l \in Lines[c], Choice(Seen) = <<c, l>>,
           c = "M" => l # Cascade
    PROVE  Foremost(WithHeld(irr), c, l)
<1>1. /\ Seen \in Requests /\ TypeOK /\ "M" \in Ctrl /\ "S" \in Ctrl
      /\ WithHeld(irr) \in Requests /\ WithHeld(irr)["M"] = irr["M"]
  BY SeenIs, HeldIs DEF IInv, Ctrl
<1>2. Seen["S"] = WithHeld(irr)["S"] /\ irr["M"] \subseteq Seen["M"]
  BY <1>1, WithIntIs DEF Seen, IInv, IntIsOffer, Truthful
<1>3. MasterAsks(Seen) # {}
  BY DEF Choice, MasterAsks, SlaveAsks
<1>4. PICK m \in Lines["M"] : Leads("M", MasterAsks(Seen), m) /\
              \/ m # Cascade /\ Choice(Seen) = <<"M", m>> /\ m \notin isr["M"]
              \/ m = Cascade /\ Choice(Seen) = <<"M", Cascade>>
              \/ m = Cascade /\ mode8259 /\ \E s \in Lines["S"] : Leads("S", SlaveAsks(Seen), s)
                    /\ Choice(Seen) = <<"S", s>> /\ s \notin isr["S"]
  <2>1. PICK n \in Lines["M"] : Leads("M", MasterAsks(Seen), n) /\
              \/ n # Cascade /\ Choice(Seen) = IF n \in isr["M"] THEN <<>> ELSE <<"M", n>>
              \/ n = Cascade /\ ~mode8259 /\ Choice(Seen) = <<"M", Cascade>>
              \/ n = Cascade /\ mode8259 /\ SlaveAsks(Seen) = {} /\ Choice(Seen) = <<>>
              \/ n = Cascade /\ mode8259 /\ \E s \in Lines["S"] : Leads("S", SlaveAsks(Seen), s)
                    /\ Choice(Seen) = IF s \in isr["S"] THEN <<>> ELSE <<"S", s>>
    BY <1>1, <1>3, ChoiceLeads
  <2>2. Choice(Seen) # <<>>
    OBVIOUS
  <2> QED BY <2>1, <2>2
<1>5. Asking(WithHeld(irr), "M") \subseteq MasterAsks(Seen)
  BY <1>1, <1>2 DEF Asking, MasterAsks
<1>6. ASSUME NEW d \in Ctrl, NEW s, NEW j \in Lines[d], Leads(d, s, j), j \notin isr[d]
      PROVE  smm[d] \/ \A k \in isr[d] : Rank(d, j) < Rank(d, k)
  <2> SUFFICES ASSUME ~smm[d], NEW k \in isr[d] PROVE Rank(d, j) < Rank(d, k)
    OBVIOUS
  <2>1. k \in Lines[d] /\ k # j /\ Rank(d, j) <= Rank(d, k)
    BY <1>1, <1>6 DEF Leads, Rivals, TypeOK
  <2>2. Rank(d, j) \in Nat /\ Rank(d, k) \in Nat /\ Rank(d, j) # Rank(d, k)
    BY <1>1, <2>1, RankIsNat, RanksDiffer
  <2> QED BY <2>1, <2>2
<1>7. CASE c = "M"
  <2>1. m = l /\ l \notin isr["M"]
    BY <1>4, <1>7
  <2>2. \A k \in Asking(WithHeld(irr), "M") : Rank("M", l) <= Rank("M", k)
    BY <1>4, <1>5, <2>1 DEF Leads, Rivals
  <2> QED BY <1>1, <1>4, <1>6, <1>7, <2>1, <2>2 DEF Foremost
<1>8. CASE c = "S"
  <2>1. m = Cascade /\ mode8259 /\ Leads("S", SlaveAsks(Seen), l) /\ l \notin isr["S"]
    BY <1>4, <1>8
  <2>2. Asking(WithHeld(irr), "S") = SlaveAsks(Seen)
    BY <1>2, <2>1 DEF Asking, SlaveAsks
  <2>3. \A k \in Asking(WithHeld(irr), "S") : Rank("S", l) <= Rank("S", k)
    BY <2>1, <2>2 DEF Leads, Rivals
  <2>4. \A k \in Asking(WithHeld(irr), "M") \cup (IF smm["M"] THEN {} ELSE isr["M"]) :
           Rank("M", Cascade) <= Rank("M", k)
    BY <1>4, <1>5, <2>1 DEF Leads, Rivals
  <2> QED BY <1>1, <1>6, <1>8, <2>1, <2>3, <2>4 DEF Foremost
<1> QED BY <1>7, <1>8 DEF Ctrl

\* With interrupts enabled pic_irq takes the foremost request, and takes nothing only
\* if every request that is not masked is held back.
THEOREM TheForemostIsTaken == Spec => TakesTheHighest
<1> DEFINE Takes == phase = "arb" /\ ei =>
               /\ vector' = <<>> /\ pending' = pending =>
                     \A c \in Ctrl : \A l \in Asking(irr', c) : HeldBack(irr', c, l)
               /\ \A c \in Ctrl : \A l \in EdgeLines(c) \cup LevelLines :
                     vector' = <<c, l>> => Foremost(WithHeld(irr), c, l)
<1>1. IInv /\ Idle /\ [Next]_vars => [Takes]_vars
  <2> SUFFICES ASSUME IInv, Idle, Next, phase = "arb", ei
               PROVE  /\ vector' = <<>> /\ pending' = pending =>
                            \A c \in Ctrl : \A l \in Asking(irr', c) : HeldBack(irr', c, l)
                      /\ \A c \in Ctrl : \A l \in EdgeLines(c) \cup LevelLines :
                            vector' = <<c, l>> => Foremost(WithHeld(irr), c, l)
    OBVIOUS
  <2>1. PicIrq
    BY DEF Next, Device, Request, Withdraw, Request8214, SetLevel, PicMask, GenTimer2, InInstruction,
           Program, WriteOcw2, WriteOcw3, WriteIcw1, WriteOcw1, WriteIcw, WriteE4, WriteE6, Write158,
           Sti, Cli, Popf, Iret, Acknowledge, Brkem, Calln, Retem, SwitchCpu, Instruction,
           EndSlice, EndEvents
  <2>2. /\ vector = <<>> /\ UNCHANGED <<imr, pry, smm>> /\ "M" \in Ctrl
        /\ Seen \in Requests /\ Truthful(Seen) /\ TypeOK
    BY <2>1, SeenIs DEF Idle, PicIrq, IInv, Ctrl
  <2>3. \/ /\ Choice(Seen) = <<>> /\ irr' = Seen
           /\ UNCHANGED <<isr, picmask, icu8214, ei, cpu, vector, nest, served>>
        \/ \E l : Choice(Seen) = <<"S", l>> /\ TakeSlave(Seen, l)
        \/ Choice(Seen) = <<"M", Cascade>> /\ ~mode8259 /\ Deliver8214(Seen)
        \/ \E l : Choice(Seen) = <<"M", l>> /\ l # Cascade /\ TakeMaster(Seen, l)
    <3> DEFINE v == Choice(Seen)
    <3>1. \/ v = <<>> /\ irr' = Seen
             /\ UNCHANGED <<isr, picmask, icu8214, ei, cpu, vector, nest, served>>
          \/ v # <<>> /\ v[1] = "S" /\ TakeSlave(Seen, v[2])
          \/ v = <<"M", Cascade>> /\ ~mode8259 /\ Deliver8214(Seen)
          \/ v # <<>> /\ v[1] = "M" /\ (v[2] # Cascade \/ mode8259) /\ TakeMaster(Seen, v[2])
      BY <2>1 DEF PicIrq, Seen
    <3>2. v # <<>> => \/ \E l \in Lines["S"] : v = <<"S", l>>
                      \/ ~mode8259 /\ v = <<"M", Cascade>>
                      \/ \E l \in Lines["M"] \ {Cascade} : v = <<"M", l>>
      BY <2>2, ChoiceIs DEF IInv
    <3> HIDE DEF v
    <3>3. CASE v = <<>>
      BY <3>1, <3>3 DEF v
    <3>4. CASE \E l \in Lines["S"] : v = <<"S", l>>
      BY <3>1, <3>4 DEF v
    <3>5. CASE ~mode8259 /\ v = <<"M", Cascade>>
      BY <3>1, <3>5 DEF v
    <3>6. CASE \E l \in Lines["M"] \ {Cascade} : v = <<"M", l>>
      BY <3>1, <3>6 DEF v
    <3> QED BY <3>2, <3>3, <3>4, <3>5, <3>6
  <2>4. CASE /\ Choice(Seen) = <<>> /\ irr' = Seen
             /\ UNCHANGED <<isr, picmask, icu8214, ei, cpu, vector, nest, served>>
    <3>1. \A c \in Ctrl : \A l \in Asking(Seen, c) : HeldBack(Seen, c, l)
      BY <2>4, HeldBackIs
    <3> QED BY <2>2, <2>4, <3>1
  <2>5. ASSUME NEW l, Choice(Seen) = <<"S", l>>, TakeSlave(Seen, l) PROVE Takes
    <3>1. vector' = <<"S", l>> /\ l \in Lines["S"]
      BY <2>2, <2>5, ChoiceIs DEF TakeSlave, Interrupt, IInv
    <3> QED BY <2>5, <3>1, TakenIsForemost
  <2>6. ASSUME NEW l, Choice(Seen) = <<"M", l>>, l # Cascade, TakeMaster(Seen, l) PROVE Takes
    <3>1. vector' = <<"M", l>> /\ l \in Lines["M"]
      BY <2>2, <2>6, ChoiceIs DEF TakeMaster, Interrupt, IInv
    <3> QED BY <2>6, <3>1, TakenIsForemost
  <2>7. CASE Choice(Seen) = <<"M", Cascade>> /\ ~mode8259 /\ Deliver8214(Seen)
    <3>1. CASE Offered # NoLevel
      <4>1. \/ pending' # pending /\ vector' = <<>>
            \/ vector' = <<"8214", Offered>>
        BY <2>2, <2>7, <3>1, OfferIsLatched DEF Deliver8214, Interrupt
      <4> QED BY <4>1 DEF Ctrl
    <3>2. CASE Offered = NoLevel
      <4>1. irr' = Taken(Seen, {<<"M", Cascade>>}) /\ UNCHANGED <<isr, vector, mode8259>>
        BY <2>7, <3>2 DEF Deliver8214
      <4>2. MasterAsks(Seen) # {} /\ Cascade \notin MasterAsks(Seen)
        BY <2>2, <2>7, <3>2 DEF Choice, MasterAsks, SlaveAsks, Truthful
      <4>3. Leads("M", MasterAsks(Seen), Cascade)
        BY <2>2, <2>7, <4>2, ChoiceLeads
      <4>4. Cascade \in isr["M"]
        BY <4>2, <4>3 DEF Leads, Rivals
      <4>5. ASSUME NEW c \in Ctrl, NEW l \in Asking(irr', c) PROVE HeldBack(irr', c, l)
        <5>1. CASE c = "S"
          BY <2>7, <5>1 DEF HeldBack
        <5>2. CASE c = "M"
          <6>1. irr'["M"] \subseteq Seen["M"]
            BY <2>2, <4>1, TakenIs
          <6>2. l \in MasterAsks(Seen)
            BY <4>5, <5>2, <6>1 DEF Asking, MasterAsks
          <6>3. Rank("M", Cascade) <= Rank("M", l)
            BY <4>3, <6>2 DEF Leads, Rivals
          <6> QED BY <4>4, <5>2, <6>3 DEF HeldBack
        <5> QED BY <5>1, <5>2 DEF Ctrl
      <4>6. \A c, l : vector' # <<c, l>>
        BY <2>2, <4>1
      <4> QED BY <4>5, <4>6
    <3> QED BY <3>1, <3>2
  <2> QED BY <2>3, <2>4, <2>5, <2>6, <2>7
<1>2. TakesTheHighest <=> [][Takes]_vars
  BY DEF TakesTheHighest
<1> QED BY <1>1, <1>2, Invariance, IdleAlways, PTL DEF Spec

-----------------------------------------------------------------------------
(***************************************************************************)
(* What the guest lets through is taken at once.                           *)
(***************************************************************************)
\* A controller that ICW1 has just reset is unmasked and not rotated.
Fresh == \A c \in Ctrl : writeicw[c] = 1 => imr[c] = {} /\ pry[c] = 0

LEMMA FreshAlways == Spec => []Fresh
<1>1. Init => Fresh
  BY DEF Init, Fresh, Ctrl
<1>2. IInv /\ Fresh /\ [Next]_vars => Fresh'
  <2> SUFFICES ASSUME IInv, Fresh, [Next]_vars PROVE Fresh'
    OBVIOUS
  <2>0. /\ writeicw \in [Ctrl -> 0..3] /\ imr \in [Ctrl -> SUBSET Nat] /\ pry \in [Ctrl -> Nat]
    BY DEF IInv, TypeOK
  <2>1. ASSUME UNCHANGED <<writeicw, imr, pry>> PROVE Fresh'
    BY <2>1 DEF Fresh
  <2>2. CASE PicIrq \/ EndSlice \/ EndEvents \/ Device
    BY <2>1, <2>2 DEF PicIrq, EndSlice, EndEvents, Device, Request, Withdraw, Request8214, SetLevel,
                      PicMask, GenTimer2, Others8259, icu8259
  <2>3. CASE Acknowledge \/ Brkem \/ Calln \/ Retem \/ UNCHANGED vars
    BY <2>1, <2>3 DEF Acknowledge, Brkem, Calln, Retem, SwitchCpu, Others8259, icu8259, vars
  <2>4. CASE \/ \E st \in Statuses : WriteE4(st)
             \/ \E mask \in E6Masks : WriteE6(mask)
             \/ Write158 \/ Sti \/ Cli
             \/ \E flag \in BOOLEAN : Popf(flag) \/ Iret(flag)
    BY <2>1, <2>4 DEF WriteE4, WriteE6, Write158, Sti, Cli, Popf, Iret, Others8259, icu8259
  <2>5. ASSUME NEW c \in Ctrl,
               \/ \E cmd \in Ocw2[c] : WriteOcw2(c, cmd)
               \/ \E on \in Ocw3[c] : WriteOcw3(c, on)
               \/ \E mask \in Ocw1[c] : WriteOcw1(c, mask)
               \/ \E auto \in BOOLEAN : WriteIcw(c, auto)
        PROVE  Fresh'
    <3>1. \A k \in Ctrl : k # c => UNCHANGED <<writeicw[k], imr[k], pry[k]>>
      BY <2>0, <2>5 DEF WriteOcw2, WriteOcw3, WriteOcw1, WriteIcw
    <3>2. writeicw'[c] # 1
      BY <2>0, <2>5 DEF WriteOcw2, WriteOcw3, WriteOcw1, WriteIcw, IcwAfter
    <3> QED BY <3>1, <3>2 DEF Fresh
  <2>6. ASSUME NEW c \in Ctrl, NEW icw \in Icw1[c], WriteIcw1(c, icw) PROVE Fresh'
    BY <2>0, <2>6 DEF WriteIcw1, Fresh
  <2> QED BY <2>2, <2>3, <2>4, <2>5, <2>6 DEF Next, Program
<1> QED BY <1>1, <1>2, Invariance, PTL DEF Spec

\* An offer of the 8214 whose INT was dropped.
OfferUnseen == ~mode8259 /\ Offered # NoLevel /\ Cascade \notin irr["M"]

\* The requests that pic_irq would look at, and which of them ask.
Waiting == IF mode8259 THEN irr ELSE WithInt(irr, Offered)
SlaveNow == IF mode8259 THEN irr["S"] \ imr["S"] ELSE {}
MasterNow == (Waiting["M"] \cup (IF SlaveNow = {} THEN {} ELSE {Cascade})) \ imr["M"]

\* What they and the lines in service come to.
Result(slave, master) ==
    LET m == First("M", Rivals("M", master))
        s == First("S", Rivals("S", slave))
    IN  IF master = {} THEN <<>>
        ELSE IF m # Cascade THEN IF m \in isr["M"] THEN <<>> ELSE <<"M", m>>
        ELSE IF ~mode8259 THEN <<"M", Cascade>>
        ELSE IF slave = {} \/ s \in isr["S"] THEN <<>> ELSE <<"S", s>>

LEMMA DeliverableIs ==
    /\ Deliverable <=> ei /\ Result(SlaveNow, MasterNow) # <<>>
    /\ Deliverable' <=> ei' /\ Result(SlaveNow, MasterNow)' # <<>>
BY DEF Deliverable, Choice, Result, SlaveNow, MasterNow, Waiting

\* The master's requests: in 8214 mode the offer stands for its IR7.
LEMMA SeenOfMaster ==
    ASSUME TypeOK
    PROVE  /\ mode8259 => Waiting["M"] = irr["M"]
           /\ ~mode8259 => Waiting["M"] = IF Offered # NoLevel THEN irr["M"] \cup {Cascade}
                                       ELSE irr["M"] \ {Cascade}
           /\ ~OfferUnseen => Waiting["M"] \subseteq irr["M"]
BY DEF Waiting, WithInt, TypeOK, Ctrl, OfferUnseen

\* As long as the same lines ask and are in service, the same is deliverable.  The
\* slave does not count in 8214 mode.
LEMMA SameIsDeliverable ==
    ASSUME UNCHANGED <<mode8259, ei, SlaveNow, MasterNow>>,
           UNCHANGED <<isr["M"], pry["M"], smm["M"]>>,
           mode8259 => UNCHANGED <<isr["S"], pry["S"], smm["S"]>>
    PROVE  Deliverable' <=> Deliverable
<1>1. First("M", Rivals("M", MasterNow))' = First("M", Rivals("M", MasterNow))
  BY DEF First, Rank, Rivals
<1>2. mode8259 => First("S", Rivals("S", SlaveNow))' = First("S", Rivals("S", SlaveNow))
  BY DEF First, Rank, Rivals
<1>3. Result(SlaveNow, MasterNow)' = Result(SlaveNow, MasterNow)
  BY <1>1, <1>2 DEF Result
<1> QED BY <1>3, DeliverableIs

\* The foremost line of the master when it is not rotated.
ByNumber(s) ==
    CHOOSE l \in s : \A k \in s : (l + Size["M"] - 0) % Size["M"] <= (k + Size["M"] - 0) % Size["M"]

LEMMA ByNumberIs ==
    ASSUME NEW s \in SUBSET Lines["M"], s # {}
    PROVE  ByNumber(s) \in s /\ \A k \in s : ByNumber(s) <= k
<1>1. s \subseteq Nat
  BY LinesAre
<1>2. \A l \in s : (l + Size["M"] - 0) % Size["M"] = l
  <2>1. ASSUME NEW l \in s PROVE (l + Size["M"] - 0) % Size["M"] = l
    <3>1. l \in Nat /\ Size["M"] \in Nat /\ l < Size["M"]
      BY <1>1, LinesAre DEF Ctrl
    <3>2. (l + Size["M"]) % Size["M"] = l /\ l + Size["M"] - 0 = l + Size["M"]
      BY <3>1, Remainder
    <3> QED BY <3>2
  <2> QED BY <2>1
<1>3. \E x \in s : \A k \in s : (x + Size["M"] - 0) % Size["M"] <= (k + Size["M"] - 0) % Size["M"]
  BY <1>1, <1>2, Smallest
<1>4. ByNumber(s) \in s /\ \A k \in s : (ByNumber(s) + Size["M"] - 0) % Size["M"] <= (k + Size["M"] - 0) % Size["M"]
  BY <1>3 DEF ByNumber
<1> QED BY <1>2, <1>4

\* ICW1 of the master in 8259 mode drops the master's own requests: what is left is the
\* slave's, and it was deliverable before.
LEMMA ResetOfMaster ==
    ASSUME IInv, mode8259, Cascade \notin imr["M"], NEW icw \in Icw1["M"],
           WriteIcw1("M", icw), Deliverable'
    PROVE  Deliverable
<1>1. /\ "M" \in Ctrl /\ "S" \in Ctrl /\ ei' = ei /\ mode8259' = mode8259 /\ isr' = isr
      /\ irr'["M"] = {} /\ irr'["S"] = irr["S"] /\ imr'["M"] = {} /\ imr'["S"] = imr["S"]
      /\ smm'["M"] = FALSE /\ smm'["S"] = smm["S"] /\ pry'["M"] = 0 /\ pry'["S"] = pry["S"]
  BY DEF WriteIcw1, icu8214, IInv, TypeOK, Ctrl
<1> DEFINE s == First("S", Rivals("S", SlaveNow))
           m == First("M", Rivals("M", MasterNow))
           R == {Cascade} \cup isr["M"]
           f == ByNumber(R)
<1>2. SlaveNow' = SlaveNow /\ s' = s
  BY <1>1 DEF SlaveNow, First, Rank, Rivals
<1>3. Waiting' = irr' /\ Waiting = irr
  BY <1>1 DEF Waiting
<1>4. ei /\ Result(SlaveNow, MasterNow)' # <<>>
  BY <1>1, DeliverableIs
<1>5. SlaveNow # {} /\ MasterNow' = {Cascade}
  <2>1. MasterNow' = IF SlaveNow = {} THEN {} ELSE {Cascade}
    BY <1>1, <1>2, <1>3 DEF MasterNow
  <2>2. MasterNow' # {}
    BY <1>4 DEF Result
  <2> QED BY <2>1, <2>2
<1>6. First("M", Rivals("M", MasterNow))' = f
  BY <1>1, <1>5 DEF Rivals, First, Rank, ByNumber
<1>7. R \in SUBSET Lines["M"] /\ R # {} /\ \A k \in isr["M"] : k <= Cascade /\ k \in Nat
  <2>1. isr["M"] \subseteq Lines["M"] /\ Cascade \in Lines["M"]
    BY <1>1, LinesAre DEF IInv, TypeOK
  <2>2. \A k \in Lines["M"] : k <= Cascade /\ k \in Nat
    BY LinesAre, PicAssumption DEF Cascade
  <2> QED BY <2>1, <2>2
<1>8. f \in R /\ \A k \in R : f <= k
  BY <1>7, ByNumberIs
<1> HIDE DEF s, m, f
<1>9. Result(SlaveNow, MasterNow)' =
         IF f # Cascade THEN IF f \in isr["M"] THEN <<>> ELSE <<"M", f>>
         ELSE IF s \in isr["S"] THEN <<>> ELSE <<"S", s>>
  BY <1>1, <1>2, <1>5, <1>6 DEF Result, s, f
<1>10. f = Cascade /\ s \notin isr["S"]
  BY <1>4, <1>8, <1>9
<1>11. isr["M"] \subseteq {Cascade}
  BY <1>7, <1>8, <1>10, LinesAre
<1>12. Cascade \in MasterNow /\ MasterNow \in SUBSET Lines["M"]
  BY <1>1, <1>3, <1>5, LinesAre DEF MasterNow, IInv, TypeOK
<1>13. m \in MasterNow \cup isr["M"]
  BY <1>1, <1>12, FirstIsInnermost DEF m, IInv
<1>14. Result(SlaveNow, MasterNow) # <<>>
  <2>1. CASE m # Cascade
    BY <1>11, <1>12, <2>1 DEF Result, m
  <2>2. CASE m = Cascade
    BY <1>5, <1>10, <1>12, <2>2 DEF Result, m, s
  <2> QED BY <2>1, <2>2
<1> QED BY <1>4, <1>14, DeliverableIs

\* What GuestChange lists.
Listed == <<imr, isr, pry, ei, inte, status>>

\* OCW1 looks at the requests of its controller, and the slice goes on only if none of
\* those it unmasks is among them.
LEMMA MaskLetsThrough ==
    ASSUME IInv, NEW c \in Ctrl, NEW mask \in Ocw1[c], WriteOcw1(c, mask), GuestChange, ~Overlooked, slice' = "open"
    PROVE  Deliverable' => Deliverable
<1>1. /\ UNCHANGED <<irr, isr, pry, smm, ei, mode8259, inte, status, irr8214, pending>>
      /\ imr' = [imr EXCEPT ![c] = mask] /\ Instruction(UnmaskEnds(c, mask))
  BY DEF WriteOcw1, icu8214
<1>2. /\ imr'[c] = mask /\ mask \subseteq imr[c] /\ \A k \in Ctrl : k # c => imr'[k] = imr[k]
      /\ "M" \in Ctrl /\ "S" \in Ctrl
  BY <1>1 DEF IInv, TypeOK, GuestChange, Ctrl
<1>3. UnmaskEnds(c, mask) = "open"
  BY <1>1 DEF Instruction, UnmaskEnds, Ends
<1>4. CASE ~ei
  BY <1>1, <1>4 DEF Deliverable
<1>5. CASE ei
  <2>1. irr[c] \cap (imr[c] \ mask) = {}
    BY <1>3, <1>5 DEF UnmaskEnds, Ends
  <2>2. \A k \in Ctrl : irr[k] \ imr'[k] = irr[k] \ imr[k]
    BY <1>2, <2>1
  <2>3. SlaveNow' = SlaveNow
    BY <1>1, <1>2, <2>2 DEF SlaveNow
  <2>4. Waiting' = Waiting
    BY <1>1 DEF Waiting, WithInt, Offered
  <2>5. Waiting["M"] \subseteq irr["M"] /\ Waiting["M"] \ imr'["M"] = Waiting["M"] \ imr["M"]
    BY <1>2, <2>2, SeenOfMaster DEF IInv, Overlooked, OfferUnseen
  <2>6. mode8259 => (Cascade \in imr'["M"] <=> Cascade \in imr["M"])
    BY <1>2 DEF Overlooked
  <2>7. ~mode8259 => SlaveNow = {}
    BY DEF SlaveNow
  <2>8. MasterNow' = MasterNow
    BY <1>2, <2>3, <2>4, <2>5, <2>6, <2>7 DEF MasterNow
  <2> QED BY <1>1, <2>3, <2>8, SameIsDeliverable
<1> QED BY <1>4, <1>5

LEMMA ResetLetsThrough ==
    ASSUME IInv, Fresh, NEW c \in Ctrl, NEW icw \in Icw1[c], WriteIcw1(c, icw), GuestChange, ~Overlooked, slice' = "open"
    PROVE  Deliverable' => Deliverable
<1>1. /\ UNCHANGED <<isr, ei, mode8259, inte, status, irr8214, pending>>
      /\ imr' = [imr EXCEPT ![c] = {}] /\ pry' = [pry EXCEPT ![c] = 0]
      /\ irr' = [irr EXCEPT ![c] = {}] /\ smm' = [smm EXCEPT ![c] = FALSE] /\ writeicw'[c] = 1
  BY DEF WriteIcw1, icu8214, IInv, TypeOK
<1>2. writeicw[c] # 1
  <2> SUFFICES ASSUME writeicw[c] = 1 PROVE FALSE
    OBVIOUS
  <2>1. imr' = imr /\ pry' = pry
    BY <1>1 DEF Fresh, IInv, TypeOK
  <2> QED BY <1>1, <2>1 DEF GuestChange
<1>3. mode8259 # (c = "S")
  BY <1>1, <1>2 DEF Overlooked
<1>4. CASE mode8259
  <2>1. c = "M" /\ Cascade \in Lines["M"]
    BY <1>3, <1>4, LinesAre DEF Ctrl
  <2>2. Cascade \notin imr["M"]
    BY <1>1, <1>4, <2>1 DEF Overlooked, IInv, TypeOK
  <2> QED BY <1>4, <2>1, <2>2, ResetOfMaster
<1>5. CASE ~mode8259
  <2>1. c = "S" /\ "M" \in Ctrl
    BY <1>3, <1>5 DEF Ctrl, IInv, TypeOK
  <2>2. UNCHANGED <<imr["M"], pry["M"], irr["M"], smm["M"]>>
    BY <1>1, <2>1 DEF IInv, TypeOK
  <2>3. SlaveNow = {} /\ SlaveNow' = {}
    BY <1>1, <1>5 DEF SlaveNow
  <2>4. Waiting["M"]' = Waiting["M"]
    BY <1>1, <1>5, <2>1, <2>2 DEF Waiting, WithInt, Offered, IInv, TypeOK
  <2>5. MasterNow' = MasterNow
    BY <2>2, <2>3, <2>4 DEF MasterNow
  <2> QED BY <1>1, <1>5, <2>2, <2>3, <2>5, SameIsDeliverable
<1> QED BY <1>4, <1>5

\* STI and IRET look at all requests.
LEMMA NothingWaits ==
    ASSUME IInv, ~PicExistIntr, ~OfferUnseen, UNCHANGED <<icu8259, icu8214>>
    PROVE  ~Deliverable'
<1>1. irr["M"] \ imr["M"] = {} /\ irr["S"] \ imr["S"] = {}
  BY DEF PicExistIntr
<1>2. Waiting["M"] \subseteq irr["M"]
  BY SeenOfMaster DEF IInv
<1>3. MasterNow = {}
  BY <1>1, <1>2 DEF MasterNow, SlaveNow
<1>4. MasterNow' = MasterNow
  BY DEF MasterNow, SlaveNow, Waiting, WithInt, Offered, icu8259, icu8214
<1>5. Result(SlaveNow, MasterNow)' = <<>>
  BY <1>3, <1>4 DEF Result
<1> QED BY <1>5, DeliverableIs

\* What an instruction of the guest lets through ends the slice, but for what is
\* Overlooked: OCW1 and OCW2, E4H, STI, IRET, POPF and ICW2 to ICW4 all see to it.
THEOREM SlicesEndForInterrupts == Spec => LetsThroughAtOnce
<1>1. IInv /\ Fresh /\ [Next]_vars =>
         [phase = "run" /\ phase' = "run" /\ ~Deliverable /\ Deliverable' /\ GuestChange =>
             slice' # "open" \/ Overlooked]_vars
  <2> SUFFICES ASSUME IInv, Fresh, Next, phase = "run", phase' = "run", ~Deliverable, Deliverable',
                      GuestChange, ~Overlooked, slice' = "open"
               PROVE  FALSE
    BY DEF vars
  <2>0. slice' = "open" /\ ~UNCHANGED Listed /\ ei'
    BY DEF GuestChange, Deliverable, Listed
  <2>1. ~(PicIrq \/ EndSlice \/ EndEvents)
    BY DEF PicIrq, EndSlice, EndEvents
  <2>2. CASE Device
    <3>1. UNCHANGED Listed
      BY ZenonT(60), <2>2 DEF Device, Request, SetIrq, Withdraw, Request8214, SetLevel, PicMask, GenTimer2,
                  Others8259, icu8214, machine, Listed
    <3> QED BY <2>0, <3>1
  <2>3. ASSUME NEW c \in Ctrl, NEW cmd \in Ocw2[c], WriteOcw2(c, cmd) PROVE FALSE
    BY <2>0, <2>3 DEF WriteOcw2, Instruction, Ends, icu8214, Listed
  <2>4. ASSUME NEW c \in Ctrl, NEW on \in Ocw3[c], WriteOcw3(c, on) PROVE FALSE
    BY <2>0, <2>4 DEF WriteOcw3, icu8214, Listed
  <2>5. ASSUME NEW c \in Ctrl, NEW icw \in Icw1[c], WriteIcw1(c, icw) PROVE FALSE
    BY <2>5, ResetLetsThrough
  <2>6. ASSUME NEW c \in Ctrl, NEW mask \in Ocw1[c], WriteOcw1(c, mask) PROVE FALSE
    BY <2>6, MaskLetsThrough
  <2>7. ASSUME NEW c \in Ctrl, NEW auto \in BOOLEAN, WriteIcw(c, auto) PROVE FALSE
    BY <2>0, <2>7 DEF WriteIcw, Instruction, Ends
  <2>8. CASE \E st \in Statuses : WriteE4(st)
    BY <2>0, <2>8 DEF WriteE4, Instruction, Ends
  <2>9. CASE \E mask \in E6Masks : WriteE6(mask)
    BY <2>0, <2>9 DEF WriteE6, Others8259, Listed
  <2>10. ~Write158
    BY DEF Write158, Overlooked
  <2>11. CASE Sti \/ \E flag \in BOOLEAN : Iret(flag)
    <3>1. ~PicExistIntr /\ UNCHANGED <<icu8259, icu8214>>
      BY <2>0, <2>11 DEF Sti, Iret, Instruction
    <3> QED BY <3>1, NothingWaits DEF Overlooked, OfferUnseen
  <2>12. CASE Cli \/ (\E flag \in BOOLEAN : Popf(flag)) \/ Acknowledge
    BY <2>0, <2>12 DEF Cli, Popf, Acknowledge, Instruction
  <2>13. CASE Brkem \/ Calln \/ Retem
    BY <2>0, <2>13 DEF Brkem, Calln, Retem, SwitchCpu, icu8259, icu8214, Listed, Overlooked
  <2> QED BY <2>1, <2>2, <2>3, <2>4, <2>5, <2>6, <2>7, <2>8, <2>9, <2>10, <2>11, <2>12, <2>13
          DEF Next, Program
<1> QED BY <1>1, Invariance, FreshAlways, PTL DEF Spec, LetsThroughAtOnce
=============================================================================
