------------------------------- MODULE MCPic --------------------------------
(***************************************************************************)
(* Instances of Pic.  Master: 0 the system timer, 1 the display, 2 the     *)
(* cascade.  Slave: 0 the SGP, 1 the NDP.  Levels of the 8214: 0 RXRDY,    *)
(* 1 the display, 2 general timer 2, 3 the SGP.                            *)
(***************************************************************************)
EXTENDS Pic

MCInitMask == [M |-> {0, 1}, S |-> {0, 1}]
MCLevelOf == [x \in Ctrl \X (0..2) |->
                 CASE x = <<"M", 1>> -> 1 [] x = <<"S", 0>> -> 3 [] OTHER -> -1]

Nothing == [c \in Ctrl |-> {}]
Eoi == [sl |-> FALSE, l |-> 0, eoi |-> TRUE, rotate |-> FALSE]

\* 8259 mode: masks, EOIs, rotation, special mask mode, level triggering,
\* automatic EOI.
MCOcw1 == [M |-> {{}}, S |-> {{}}]
MCOcw2 == [M |-> {Eoi, [Eoi EXCEPT !.sl = TRUE, !.l = 1, !.rotate = TRUE]}, S |-> {Eoi}]
MCOcw3 == [M |-> {}, S |-> {TRUE}]
MCIcw1 == [M |-> {}, S |-> {[ltim |-> TRUE, ic4 |-> TRUE]}]

\* 8214 mode.
MCOcw1Levels == [M |-> {{}, {2}}, S |-> {}]
MCOcw2Levels == [M |-> {Eoi}, S |-> {}]
MCStatuses == {[xsgs |-> FALSE, level |-> 2], [xsgs |-> TRUE, level |-> 0]}
MCE6Masks == {{}, {0, 1, 2}}
=============================================================================
