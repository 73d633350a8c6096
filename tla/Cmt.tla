-------------------------------- MODULE Cmt ---------------------------------
(***************************************************************************)
(* The cassette recorder of the V1/V2 mode (io/cmt.c): a tape is bytes,    *)
(* with blocks between them that only sound (blank, space, mark; a raw     *)
(* image is given a leader).  One event paces it: the next byte, the next  *)
(* step of a block, or another request for a byte the guest has not        *)
(* fetched.  Motor, channel and receiver are switched by the guest, the    *)
(* tape is changed, rewound and recorded over by the user, all of it in    *)
(* the middle of a byte or a block, and each of them decides again whether *)
(* the event is armed.                                                     *)
(*                                                                         *)
(* Lengths are in bytes of the tape's speed.  Left out: how it sounds, the *)
(* T88 format, the bytes recorded, and leaving the V1/V2 mode while a tape *)
(* runs (see the README).                                                  *)
(***************************************************************************)
EXTENDS Integers, Sequences

CONSTANTS
    Images,            \* tapes: size, and T88 blocks [at, length, kind] in tape order
    NoTape,            \* an empty one: no bytes, no blocks
    MaxOps             \* bound: what the guest and the user do, but for reading

VARIABLES
    cmt,               \* the recorder; "armed" is NEVENT_CMT
    last,              \* the last byte of the tape fetched, or lost with a reset
    whole,             \* T88 blocks that have sounded to their end
    spoiled,           \* a block was cut off by a reset or met a recording
    ops

vars == <<cmt, last, whole, spoiled, ops>>

Gap == 0               \* the byte a space is received as; others are positions from 1

Size(c) == c.tape.size
Blocks(c) == c.tape.blocks
Plays(c) == c.selected /\ c.motor
Running(c) == Plays(c) /\ c.rxe

\* Raw images have a leader of two blocks, skipped with fast load.
Leader == <<[length |-> 1, kind |-> "space"], [length |-> 1, kind |-> "mark"]>>

ToneBytes(c) == c.tone = "space" /\ ~c.raw
Step(c) == IF ToneBytes(c) THEN 1 ELSE c.remain

\* cmt_tone_start: the block due at this place of the tape, if there is one.
MayPlay(c) == Plays(c) /\ ~c.saving /\ c.pos < Size(c)
LeaderDue(c) == MayPlay(c) /\ ~c.fast /\ c.leadpos < 2
BlockDue(c) ==
    MayPlay(c) /\ ~LeaderDue(c) /\ c.tonepos < Len(Blocks(c)) /\ Blocks(c)[c.tonepos + 1].at <= c.pos
Sounds(c, t, raw) ==
    [c EXCEPT !.tone = t.kind, !.raw = raw, !.remain = t.length, !.armed = TRUE,
              !.leadpos = IF raw THEN @ + 1 ELSE IF c.fast THEN 2 ELSE @,
              !.tonepos = IF raw THEN @ ELSE @ + 1]

\* A block that the motor cut off plays again.
ToneStop(c) ==
    [c EXCEPT !.tone = "none", !.armed = FALSE,
              !.leadpos = IF c.raw THEN @ - 1 ELSE @, !.tonepos = IF c.raw THEN @ ELSE @ - 1]

Schedule(c) ==
    IF c.tone # "none" THEN IF Plays(c) THEN c ELSE ToneStop(c)
    ELSE IF ~c.rxready /\ LeaderDue(c) THEN Sounds(c, Leader[c.leadpos + 1], TRUE)
    ELSE IF ~c.rxready /\ BlockDue(c) THEN Sounds(c, Blocks(c)[c.tonepos + 1], FALSE)
    ELSE [c EXCEPT !.armed = Running(c) /\ (c.rxready \/ c.pos < Size(c))]

Received(c, byte) == [c EXCEPT !.rxready = TRUE, !.data = byte]

---------------------------------------------------------------------------
Counted == ops < MaxOps /\ ops' = ops + 1

\* cmt_event.
ToneEvent ==
    /\ cmt.armed /\ cmt.tone # "none"
    /\ LET c == [cmt EXCEPT !.remain = @ - Step(cmt), !.armed = FALSE]
           heard == IF ToneBytes(c) /\ Running(c) /\ ~c.rxready THEN Received(c, Gap) ELSE c
       IN IF c.remain > 0 THEN cmt' = [heard EXCEPT !.armed = TRUE] /\ UNCHANGED whole
          ELSE /\ cmt' = Schedule([heard EXCEPT !.tone = "none"])
               /\ whole' = IF c.raw THEN whole ELSE c.tonepos
    /\ UNCHANGED <<last, spoiled, ops>>

ByteEvent ==
    /\ cmt.armed /\ cmt.tone = "none"
    /\ LET c == [cmt EXCEPT !.armed = FALSE]
           taken == ~c.rxready /\ c.pos < Size(c)
           next == [Received(c, c.pos + 1) EXCEPT !.pos = @ + 1]
       IN /\ cmt' = IF ~Running(c) THEN c ELSE Schedule(IF taken THEN next ELSE c)
          /\ spoiled' = (spoiled \/ (Running(c) /\ taken /\ BlockDue([c EXCEPT !.saving = FALSE])))
    /\ UNCHANGED <<last, whole, ops>>

\* The guest fetches a byte; without RXRDY it gets the last one again, and
\* with the other channel selected one of the RS-232C.
Fetch ==
    /\ cmt' = Schedule([cmt EXCEPT !.rxready = FALSE, !.armed = @ /\ cmt.tone # "none"])
    /\ last' = IF cmt.rxready /\ cmt.data # Gap THEN cmt.data ELSE last
    /\ UNCHANGED <<whole, spoiled, ops>>
Read == IF cmt.selected THEN Fetch ELSE UNCHANGED vars

Port30 ==
    \E motor, selected \in BOOLEAN :
        /\ cmt' = Schedule([cmt EXCEPT
               !.motor = motor, !.selected = selected,
               !.leadpos = IF ~cmt.motor /\ motor THEN IF Blocks(cmt) = <<>> THEN 0 ELSE 2 ELSE @])
        /\ Counted /\ UNCHANGED <<last, whole, spoiled>>

Command ==
    \E rxe \in BOOLEAN :
        cmt' = Schedule([cmt EXCEPT !.rxe = rxe]) /\ Counted /\ UNCHANGED <<last, whole, spoiled>>

\* cmt_open puts a tape in the place of the one there is, cmt_eject takes it
\* out, cmt_rewind begins it again.
Begins(tape) == [cmt EXCEPT !.tape = tape, !.pos = 0, !.tonepos = 0, !.leadpos = 2,
                            !.rxready = FALSE, !.tone = "none", !.armed = FALSE]
ChangeTape ==
    /\ \E tape \in Images \cup {NoTape, cmt.tape} : cmt' = Schedule(Begins(tape))
    /\ last' = 0 /\ whole' = 0 /\ spoiled' = FALSE /\ Counted

Save == cmt' = [cmt EXCEPT !.saving = ~@] /\ Counted /\ UNCHANGED <<last, whole, spoiled>>

\* cmt_reset: the tape stays where it is.
Reset ==
    /\ cmt' = [cmt EXCEPT !.motor = FALSE, !.selected = TRUE, !.rxready = FALSE, !.rxe = FALSE,
                          !.tone = "none", !.leadpos = 2, !.armed = FALSE]
    /\ last' = IF cmt.rxready /\ cmt.data # Gap THEN cmt.data ELSE last
    /\ spoiled' = (spoiled \/ (cmt.tone # "none" /\ ~cmt.raw))
    /\ Counted /\ UNCHANGED whole

Init ==
    /\ \E fast \in BOOLEAN :
          cmt = [tape |-> NoTape, pos |-> 0, tonepos |-> 0, leadpos |-> 2, tone |-> "none",
                 raw |-> FALSE, remain |-> 0, motor |-> FALSE, selected |-> TRUE, rxe |-> FALSE,
                 rxready |-> FALSE, data |-> Gap, saving |-> FALSE, armed |-> FALSE, fast |-> fast]
    /\ last = 0 /\ whole = 0 /\ spoiled = FALSE /\ ops = 0

Next ==
    \/ ToneEvent \/ ByteEvent \/ Read \/ Port30 \/ Command \/ ChangeTape \/ Save \/ Reset

---------------------------------------------------------------------------
TypeOK ==
    /\ cmt.pos \in 0 .. Size(cmt) /\ cmt.tonepos \in 0 .. Len(Blocks(cmt))
    /\ cmt.leadpos \in 0 .. 2 /\ cmt.tone \in {"none", "blank", "space", "mark"}
    /\ cmt.data \in Nat /\ last \in Nat /\ whole \in Nat /\ ops \in 0 .. MaxOps

\* A tape that is being read never stands still: while there is a byte to
\* come or to fetch, or a block sounds, the event is armed.
NeverStalls ==
    /\ Running(cmt) /\ (cmt.rxready \/ cmt.pos < Size(cmt)) => cmt.armed
    /\ cmt.tone # "none" => cmt.armed /\ Plays(cmt)

\* The guest gets the bytes of the tape in order, each once; one that waits
\* for it is not overwritten, by the next one or by a space.
BytesInOrder ==
    IF cmt.rxready /\ cmt.data # Gap THEN cmt.data = cmt.pos /\ last = cmt.pos - 1
    ELSE last = cmt.pos

\* No byte overtakes a block that stands before it on the tape, however often
\* the motor was stopped in it.
BlocksFirst ==
    ~spoiled => \A i \in DOMAIN Blocks(cmt) : Blocks(cmt)[i].at < cmt.pos => i <= whole
=============================================================================
