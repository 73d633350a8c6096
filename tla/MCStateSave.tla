---------------------------- MODULE MCStateSave ----------------------------
EXTENDS StateSave

\* Two queues take turns; neither holds an event the tables cannot name.
MCQueues == [n \in 0..9 |-> IF n % 2 = 0 THEN <<<<"FLAMES", "screendispva">>>>
                            ELSE <<<<"MOUSE", "mouseint">>, <<"SCSIIO", "scsiioint">>>>]

\* A machine in which a key is waiting for the keyboard's serial line.
MCKeyQueues == [n \in 0..9 |-> <<<<"KEYBOARD", "keyboard_callback">>, <<"FLAMES", "screendispva">>>>]
=============================================================================
