--------------------------------- MODULE Fpu ---------------------------------
(***************************************************************************)
(* The numeric coprocessor, cpu/upd8087: a stack of registers with tags,   *)
(* six exceptions each of which the guest may mask, and one request line   *)
(* to the interrupt controller that the processor sets after every ESC     *)
(* (upd9002_mn.c).  An instruction collects what it raises in              *)
(* working_flags; what it may still change depends on which of them are    *)
(* unmasked, and each of the sixty instructions decides that for itself.   *)
(*                                                                         *)
(* A step is one instruction.  A number is the class the code tells apart; *)
(* its sign and its digits are left out, and so are the condition codes:   *)
(* where they decide, and in what SoftFloat, the series and the host's x87 *)
(* return, the model takes any outcome.  "R" stands for overflow and       *)
(* underflow.  The guest loads only what it has saved.                     *)
(***************************************************************************)
EXTENDS Naturals

CONSTANTS
    N,            \* registers, eight in the code
    Masks,        \* sets of exceptions the guest masks
    MaxControls   \* bound of the model: control instructions after the first one

VARIABLES
    fpu,       \* the coprocessor
    irq,       \* level of IRQ_NDP at the interrupt controller
    image,     \* what FSAVE or FSTENV has stored, and the state it was made of
    returned,  \* history: every FRSTOR has brought back the state that was saved
    torn,      \* history: instructions that were refused and still left a trace
    count      \* bound: instructions since the stack was built

vars == <<fpu, irq, image, returned, torn, count>>

Exceptions == {"I", "D", "Z", "R", "P"}
Before == {"I", "D", "Z"}     \* detected before there is a result
Classes == {"zero", "denormal", "unnormal", "normal", "infinity", "nan"}
Index == 0..(N - 1)
Nothing == [kind |-> "none"]

\* raw_tag
RawTag(v) == CASE v = "zero" -> "zero"
               [] v \in {"normal", "unnormal"} -> "valid"
               [] OTHER -> "special"

\* upd8087_reset, fpu_initialize_architecture
Initialized(s) ==
    [s EXCEPT !.reg = [i \in Index |-> "zero"], !.tag = [i \in Index |-> "empty"], !.top = 0,
              !.mask = Exceptions, !.iem = TRUE, !.affine = FALSE, !.flags = {}, !.work = {},
              !.ir = FALSE, !.busy = FALSE, !.pending = FALSE]

-----------------------------------------------------------------------------
\* raise_status
Raise(s, e) == [s EXCEPT !.work = @ \cup e, !.flags = @ \cup e]

\* Mutant: the masks of the stores are used for the registers too, the other way round.
CanCommitMutant(s) == (s.work \cap {"D", "Z"}) \subseteq s.mask

\* state_can_commit, store_can_commit
CanCommit(s) == (s.work \cap Before) \subseteq s.mask
StoreCanCommit(s) == CanCommit(s) /\ ("R" \in s.work => "R" \in s.mask)

Phys(s, i) == (s.top + i) % N
Get(s, i) == s.reg[Phys(s, i)]
Valid(s, i) == s.tag[Phys(s, i)] # "empty"
SetReg(s, p, v) == [s EXCEPT !.reg[p] = v, !.tag[p] = RawTag(v)]
Set(s, i, v) == SetReg(s, Phys(s, i), v)
Pop(s) == [s EXCEPT !.tag[s.top] = "empty", !.top = (@ + 1) % N]

\* stack_push_policy: a masked overflow takes the place of what is there.
Push(s, v) ==
    LET new == (s.top + N - 1) % N
        t == Raise(s, {"I"})
    IN  CASE s.tag[new] = "empty" -> SetReg([s EXCEPT !.top = new], new, v)
          [] s.tag[new] # "empty" /\ CanCommit(t) -> SetReg([t EXCEPT !.top = new], new, "nan")
          [] OTHER -> t

\* stack_require, and what follows it nearly everywhere: go on unless the
\* register was empty and the exception is not masked.
Require(s, i) ==
    LET t == Raise(s, {"I"})
    IN  IF Valid(s, i) THEN s ELSE IF CanCommit(t) THEN Set(t, i, "nan") ELSE t
Needing(s, i, Then(_)) ==
    IF ~Valid(s, i) /\ ~CanCommit(Require(s, i)) THEN {Require(s, i)} ELSE Then(Require(s, i))
NeedingBoth(s, i, j, Then(_)) == Needing(s, i, LAMBDA t : Needing(t, j, Then))

\* stack_source_value
FromTop(s, Then(_, _)) ==
    LET t == Raise(s, {"I"})
    IN  CASE Valid(s, 0) -> Then(s, Get(s, 0))
          [] ~Valid(s, 0) /\ CanCommit(t) -> Then(t, "nan")
          [] OTHER -> {t}

Commit(s, t) == IF CanCommit(s) THEN t ELSE s

-----------------------------------------------------------------------------
\* A result is a class and what was raised with it.
Exact(v) == <<v, {}>>
Invalid == <<"nan", {"I"}>>
Finite == {Exact("normal"), Exact("zero"), <<"normal", {"P"}>>, <<"denormal", {"R", "P"}>>}

\* sf_binary and raw_binary_result_class
Rounded(op, a, b) ==
    IF op = "div" /\ b = "zero"
    THEN {<<"infinity", {"Z"}>>} \cup (IF a = "unnormal" THEN {Invalid} ELSE {})
    ELSE Finite \cup {<<"infinity", {"R", "P"}>>}
         \cup (IF {a, b} \cap {"denormal", "unnormal"} # {} THEN {Exact("unnormal")} ELSE {})

\* binary_special_case; addition stands for subtraction too.
Binary(affine, op, a, b) ==
    LET some == {a, b}
        d == IF "denormal" \in some THEN {"D"} ELSE {}
        With(rs) == {<<r[1], r[2] \cup d>> : r \in rs}
        both(v) == a = v /\ b = v
    IN  IF "nan" \in some THEN {Invalid}
        ELSE IF op = "add" /\ both("infinity")
        THEN {Invalid} \cup (IF affine THEN {Exact("infinity")} ELSE {})
        ELSE IF op = "mul" /\ some = {"infinity", "zero"} THEN {Invalid}
        ELSE IF op = "div" /\ (b \in {"denormal", "unnormal"} \/ both("infinity") \/ both("zero"))
        THEN With({Invalid})
        ELSE IF op = "div" /\ b = "infinity" THEN With({Exact("zero")})
        ELSE IF "infinity" \in some THEN With({Exact("infinity")})
        ELSE With(Rounded(op, a, b))

\* raw_compare: an unnormal zero raises nothing.
Compare(s, a, b) ==
    LET infinities == {x \in {1, 2} : <<a, b>>[x] = "infinity"}
    IN  IF "nan" \in {a, b} THEN {Raise(s, {"I"})}
        ELSE IF ~s.affine /\ infinities # {}
        THEN {IF infinities = {1, 2} THEN s ELSE Raise(s, {"I"})}
        ELSE (IF "denormal" \in {a, b} THEN {} ELSE {s})
             \cup (IF {a, b} \cap {"denormal", "unnormal"} # {} THEN {Raise(s, {"D"})} ELSE {})

\* raw_from_memory, packed_bcd_to_raw, read_signed16, ...: what an operand
\* becomes.  A short denormal is loaded as the unnormal it equals.
Operands(size) ==
    CASE size = "real" -> {Exact(v) : v \in {"zero", "normal", "infinity", "nan"}}
                          \cup {Invalid, <<"unnormal", {"D"}>>}
      [] size = "ten" -> {Exact(v) : v \in Classes \ {"denormal"}} \cup {<<"denormal", {"D"}>>}
      [] OTHER -> {Exact("zero"), Exact("normal")}
Sizes == {"real", "ten", "integer", "bcd"}

-----------------------------------------------------------------------------
(* Every instruction gives the set of the states it may end in. *)

\* binary_stack_operation
Arith(s, op, rhs, reverse, pop, dest) ==
    NeedingBoth(s, 0, dest, LAMBDA t :
        LET lhs == Get(t, dest)
            results == IF reverse THEN Binary(t.affine, op, rhs, lhs)
                       ELSE Binary(t.affine, op, lhs, rhs)
            After(r) == LET u == Raise(t, r[2])
                            v == Set(u, dest, r[1])
                        IN  Commit(u, IF pop THEN Pop(v) ELSE v)
        IN  {After(r) : r \in results})

\* operation_compare
Comparison(s, rhs, pop) ==
    Needing(s, 0, LAMBDA t :
        {IF pop THEN Commit(c, Pop(c)) ELSE c : c \in Compare(t, Get(t, 0), rhs)})

\* D8, DA, DC, DE with a memory operand
MemoryArith(s) ==
    UNION {LET t == Raise(s, m[2])
           IN  Needing(t, 0, LAMBDA u :
                   UNION {Comparison(u, m[1], pop) : pop \in BOOLEAN}
                   \cup UNION {Arith(u, op, m[1], rev, FALSE, 0) :
                                 op \in {"add", "mul", "div"}, rev \in BOOLEAN})
           : m \in Operands("real") \cup Operands("integer")}

\* FLD, FILD, FBLD, the constants
Load(s) ==
    {LET t == Raise(s, m[2]) IN Commit(t, Push(t, m[1])) : m \in UNION {Operands(z) : z \in Sizes}}

Written(s) == [s EXCEPT !.mem = "written"]

\* Mutant: overflow and underflow do not keep the operand from being written.
StoreRawMutant(s, size, v) ==
    LET Convert(t, w) == {LET u == Raise(t, f) IN Commit(u, Written(u)) :
                            f \in {{}, {"P"}, {"R", "P"}}}
    IN  IF size = "ten" THEN {Commit(s, Written(s))} ELSE Convert(s, v)

\* store_raw: an unnormal is refused or stored through an underflow.
StoreRaw(s, size, v) ==
    LET Stored(t) == IF StoreCanCommit(t) THEN Written(t) ELSE t
        Convert(t, w) == {Stored(Raise(t, f)) :
                            f \in IF w = "nan" THEN {{}, {"I"}}
                                  ELSE IF w \in {"zero", "infinity"} THEN {{}}
                                  ELSE {{}, {"P"}, {"R", "P"}}}
        refused == Raise(s, {"I"})
    IN  CASE size = "ten" -> {Stored(s)}
          [] size = "real" /\ v = "unnormal" ->
               (IF CanCommit(refused) THEN Convert(refused, "nan") ELSE {refused})
               \cup Convert(Raise(s, {"R"}), v)
          [] OTHER -> Convert(s, v)

\* store_integer, raw_to_integer, raw_to_packed_bcd
StoreInteger(s, v) ==
    LET Outcome(f) == LET t == Raise(s, f) IN Commit(t, Written(t))
    IN  {Outcome(f) : f \in CASE v \in {"nan", "infinity", "denormal", "unnormal"} -> {{"I"}}
                              [] v = "zero" -> {{}}
                              [] OTHER -> {{}, {"I"}}}

\* FST, FSTP, FIST, FISTP, FBSTP
Store(s) ==
    FromTop(s, LAMBDA t, v :
        UNION {{IF pop /\ StoreCanCommit(u) THEN Pop(u) ELSE u : u \in StoreRaw(t, size, v)} :
                 size \in {"real", "ten"}, pop \in BOOLEAN}
        \cup UNION {{IF pop THEN Commit(u, Pop(u)) ELSE u : u \in StoreInteger(t, v)} :
                      pop \in BOOLEAN})

\* D8, DC and DE between registers, FCOM, FCOMP, FCOMPP
RegisterArith(s) ==
    UNION {Needing(s, i, LAMBDA t :
               UNION {Comparison(t, Get(t, i), pop) : pop \in BOOLEAN}
               \cup UNION {Arith(t, op, Get(t, i), rev, FALSE, 0) :
                             op \in {"add", "mul", "div"}, rev \in BOOLEAN}) : i \in Index}
    \cup UNION {NeedingBoth(s, 0, i, LAMBDA t :
                    UNION {Arith(t, op, Get(t, 0), rev, pop, i) :
                             op \in {"add", "mul", "div"}, rev, pop \in BOOLEAN}) : i \in Index}
    \cup NeedingBoth(s, 0, 1, LAMBDA t :
             {Commit(c, Pop(Pop(c))) : c \in Comparison(t, Get(t, 1), FALSE)})

\* FLD ST(i), FXCH, FST and FSTP ST(i), FFREE, FINCSTP, FDECSTP
Exchange(s, i) ==
    LET p == Phys(s, 0)
        q == Phys(s, i)
        empty == {x \in {p, q} : s.tag[x] = "empty"}
        t == IF empty = {} THEN s ELSE Raise(s, {"I"})
        u == [t EXCEPT !.reg = [x \in Index |-> IF x \in empty THEN "nan" ELSE @[x]],
                       !.tag = [x \in Index |-> IF x \in empty THEN "special" ELSE @[x]]]
    IN  Commit(t, [u EXCEPT !.reg[p] = u.reg[q], !.reg[q] = u.reg[p],
                            !.tag[p] = u.tag[q], !.tag[q] = u.tag[p]])
RegisterTransfer(s) ==
    UNION {Needing(s, i, LAMBDA t : {Push(t, IF Valid(s, i) THEN Get(t, i) ELSE "nan")}) \cup
           {Exchange(s, i), [s EXCEPT !.tag[Phys(s, i)] = "empty"]} \cup
           FromTop(s, LAMBDA t, v : {Set(t, i, v), Pop(Set(t, i, v))}) : i \in Index}
    \cup {[s EXCEPT !.top = (@ + 1) % N], [s EXCEPT !.top = (@ + N - 1) % N]}

\* FCHS, FABS, FTST, FXAM, FSQRT, FRNDINT, F2XM1: one operand
Unary(affine, v) ==
    {<<v, {}>>}
    \cup (IF v \in {"nan", "denormal", "unnormal", "normal", "infinity"} THEN {Invalid} ELSE {})
    \cup (IF v = "normal" THEN Finite ELSE {Exact("zero"), Exact("normal")})
OneOperand(s) ==
    Needing(s, 0, LAMBDA t :
        Comparison(t, "zero", FALSE)
        \cup {LET u == Raise(t, r[2]) IN Commit(u, Set(u, 0, r[1])) :
                r \in Unary(t.affine, Get(t, 0))})

\* execute_fprem, execute_fscale: the result takes the place of ST(0).
Remainder(a, b) ==
    IF "nan" \in {a, b} \/ a = "infinity" \/ b \in {"zero", "denormal", "unnormal"} THEN {Invalid}
    ELSE IF a = "zero" THEN {Exact("zero")}
    ELSE {<<v, IF a = "denormal" THEN {"D"} ELSE {}>> : v \in {"normal", "zero", "denormal"}}
Scaled(a, b) ==
    IF "nan" \in {a, b} \/ (b = "infinity" /\ a # "zero") THEN {Invalid}
    ELSE IF a \in {"zero", "infinity"} \/ b \in {"denormal", "unnormal"} THEN {Exact(a)}
    ELSE {Exact(a), <<"infinity", {"R", "P"}>>, <<"denormal", {"R", "P"}>>}
TwoOperands(s) ==
    NeedingBoth(s, 0, 1, LAMBDA t :
        {LET u == Raise(t, r[2]) IN Commit(u, Set(u, 0, r[1])) :
           r \in Remainder(Get(t, 0), Get(t, 1)) \cup Scaled(Get(t, 0), Get(t, 1))})

\* execute_fpatan, FYL2X, execute_fyl2xp1: outside their domain they do nothing.
Logarithm(s) ==
    NeedingBoth(s, 0, 1, LAMBDA t :
        {t} \cup (IF Get(t, 0) = "normal" /\ Get(t, 1) \in {"zero", "normal"}
                  THEN {LET u == Raise(t, r[2]) IN Commit(u, Pop(Set(u, 1, r[1]))) : r \in Finite}
                  ELSE {}))

\* execute_fxtract: the significand of a denormal is an unnormal.
Extract(s) ==
    Needing(s, 0, LAMBDA t :
        LET v == Get(t, 0)
            Pushed(w) == Push(t, w)
            Both(w, e) == IF Pushed(w).top = t.top THEN Pushed(w) ELSE Set(Pushed(w), 1, e)
            bad == Raise(t, {"I"})
        IN  IF v \in {"nan", "unnormal", "infinity"} THEN {Commit(bad, Set(bad, 0, "nan"))}
            ELSE {Commit(t, Both(IF v = "denormal" THEN "unnormal" ELSE v, e)) :
                    e \in IF v = "zero" THEN {"zero"} ELSE {"zero", "normal"}})

\* execute_fptan: the tangent is in place before the push of one is tried.
Tangent(s) ==
    Needing(s, 0, LAMBDA t :
        {t} \cup (IF Get(t, 0) = "normal"
                  THEN {LET u == Raise(t, r[2]) IN Commit(u, Push(Set(u, 0, r[1]), "normal")) :
                          r \in Finite}
                  ELSE {}))

\* execute_memory_instruction, execute_register_instruction
Families == {"memory", "load", "store", "register", "transfer", "one", "two", "log", "xtract",
             "ptan"}
Results(s, f) ==
    CASE f = "memory"   -> MemoryArith(s)
      [] f = "load"     -> Load(s)
      [] f = "store"    -> Store(s)
      [] f = "register" -> RegisterArith(s)
      [] f = "transfer" -> RegisterTransfer(s)
      [] f = "one"      -> OneOperand(s)
      [] f = "two"      -> TwoOperands(s)
      [] f = "log"      -> Logarithm(s)
      [] f = "xtract"   -> Extract(s)
      [] OTHER          -> Tangent(s)

-----------------------------------------------------------------------------
Unmasked(s) == s.flags \ s.mask

\* Mutant: masking an exception leaves the request of it standing.
PendingMutant(s) ==
    IF Unmasked(s) # {}
    THEN [s EXCEPT !.ir = TRUE, !.busy = TRUE, !.pending = ~s.iem]
    ELSE [s EXCEPT !.ir = FALSE]

\* set_pending_if_unmasked
SetPending(s) ==
    IF Unmasked(s) # {}
    THEN [s EXCEPT !.ir = TRUE, !.busy = TRUE, !.pending = ~s.iem]
    ELSE [s EXCEPT !.ir = FALSE, !.pending = FALSE]

\* upd8087_execute
Begin(s) == [s EXCEPT !.work = {}, !.busy = TRUE, !.mem = "kept"]
Finish(s) == [SetPending([s EXCEPT !.busy = FALSE]) EXCEPT !.work = {}, !.mem = "kept"]

\* _esc: the request line follows.
After(t) == fpu' = Finish(t) /\ irq' = Finish(t).pending

\* What the property asks, in its own words: the exceptions of this
\* instruction that the guest has not masked.
Refused(t) ==
    LET own == t.work \ t.mask
    IN  own \cap Before # {} \/ (t.mem = "written" /\ "R" \in own)
Trace(t) == <<t.reg, t.tag, t.top, t.mem>> # <<fpu.reg, fpu.tag, fpu.top, "kept">>

Calculate(f) ==
    /\ count = 0 /\ count' = 1
    /\ \E t \in Results(Begin(fpu), f) :
         /\ After(t)
         /\ torn' = torn \cup (IF Refused(t) /\ Trace(t) THEN {f} ELSE {})
    /\ UNCHANGED <<image, returned>>

\* FLDCW (upd8087_set_control), FENI, FDISI, FCLEX, FINIT
Control ==
    /\ \/ \E m \in Masks, a, i \in BOOLEAN :
            After([Begin(fpu) EXCEPT !.mask = m, !.affine = a, !.iem = i])
       \/ \E i \in BOOLEAN : After([Begin(fpu) EXCEPT !.iem = i])
       \/ After([Begin(fpu) EXCEPT !.flags = {}])
       \/ After(Initialized(Begin(fpu)))
    /\ UNCHANGED <<image, returned, torn>>

\* upd8087_store_environment, upd8087_store_state: the registers by their
\* place in the stack.
Environment(s) == [mask |-> s.mask, iem |-> s.iem, affine |-> s.affine, flags |-> s.flags,
                   top |-> s.top, tag |-> s.tag]
Logical(s) == [i \in Index |-> Get(s, i)]

\* FSTENV masks everything; FSAVE initializes.
SaveEnvironment ==
    /\ image' = [kind |-> "env", env |-> Environment(fpu), was |-> fpu]
    /\ After([Begin(fpu) EXCEPT !.mask = Exceptions])
    /\ UNCHANGED <<returned, torn>>
SaveState ==
    /\ image' = [kind |-> "state", env |-> Environment(fpu), was |-> fpu, reg |-> Logical(fpu)]
    /\ After(Initialized(Begin(fpu)))
    /\ UNCHANGED <<returned, torn>>

\* upd8087_load_environment; the guest loads one while the stack it
\* describes is still there.
LoadEnvironment(s, e) ==
    [s EXCEPT !.mask = e.mask, !.iem = e.iem, !.affine = e.affine, !.flags = e.flags,
              !.top = e.top, !.tag = e.tag]
RestoreEnvironment ==
    /\ image.kind = "env" /\ image.was.reg = fpu.reg
    /\ After(LoadEnvironment(Begin(fpu), image.env))
    /\ returned' = (returned /\ fpu' = image.was)
    /\ UNCHANGED <<image, torn>>

\* Mutant: the registers are put where they would be if top were zero.
LoadStateMutant(s, m) == [LoadEnvironment(s, m.env) EXCEPT !.reg = m.reg]

\* upd8087_load_state
LoadState(s, m) ==
    LET t == LoadEnvironment(s, m.env)
    IN  [t EXCEPT !.reg = [p \in Index |-> m.reg[(p + N - t.top) % N]]]
RestoreState ==
    /\ image.kind = "state"
    /\ After(LoadState(Begin(fpu), image))
    /\ returned' = (returned /\ fpu' = image.was)
    /\ UNCHANGED <<image, torn>>

Manage ==
    /\ count \in 1..MaxControls /\ count' = count + 1
    /\ Control \/ SaveEnvironment \/ SaveState \/ RestoreEnvironment \/ RestoreState

\* The machine's reset: upd8087_apply_config and the controller's own.
Reset ==
    /\ count > MaxControls /\ count' = 0
    /\ fpu' = Initialized(Begin(fpu)) /\ irq' = FALSE /\ image' = Nothing
    /\ UNCHANGED <<returned, torn>>

\* Any stack the guest may have built, and any masks.
Init ==
    /\ \E r \in [Index -> Classes], empty \in SUBSET Index, m \in Masks, a \in BOOLEAN :
         /\ \A i \in empty : r[i] = "zero"
         /\ fpu = [reg |-> r, top |-> 0, mask |-> m, iem |-> FALSE, affine |-> a, flags |-> {},
                   tag |-> [i \in Index |-> IF i \in empty THEN "empty" ELSE RawTag(r[i])],
                   work |-> {}, ir |-> FALSE, busy |-> FALSE, pending |-> FALSE, mem |-> "kept"]
    /\ irq = FALSE /\ image = Nothing /\ returned = TRUE /\ torn = {} /\ count = 0

Next == (\E f \in Families : Calculate(f)) \/ Manage \/ Reset

Spec == Init /\ [][Next]_vars

-----------------------------------------------------------------------------
TypeOK ==
    /\ fpu.reg \in [Index -> Classes] /\ fpu.top \in Index
    /\ fpu.flags \subseteq Exceptions /\ fpu.work = {} /\ fpu.mem = "kept"

\* An instruction that raises an unmasked invalid, denormal or zero-divide
\* exception leaves registers, tags, top and memory as they were, so that the
\* handler can do it again (the comment in state_can_commit_ignoring); and
\* a store that overflows unmasked does not write.  FPTAN on a full stack
\* does not keep to this.
Whole == torn \subseteq {"ptan"}

\* The request is there as long as an exception is that the guest has not
\* masked, and no longer: IR, what FWAIT waits for, the request and the line.
RequestFollows ==
    /\ fpu.ir = (Unmasked(fpu) # {}) /\ fpu.busy = fpu.ir
    /\ fpu.pending = (fpu.ir /\ ~fpu.iem) /\ irq = fpu.pending

\* A tag says what is in its register.
TagsTrue == \A i \in Index : fpu.tag[i] \in {"empty", RawTag(fpu.reg[i])}

\* FRSTOR after FSAVE, and FLDENV after FSTENV, bring back everything.
Returned == returned
=============================================================================
