----------------------------- MODULE MCCalendar -----------------------------
(* Small instances of Calendar: submissions are numbered.  In the harsh     *)
(* world everything may go wrong and one queue takes every stamp, so it     *)
(* fills; in the busy world two modes' batches interleave, the odd stamps   *)
(* in mode 1 and the even ones in mode 2, and only submissions fail.        *)
EXTENDS Calendar

TwoModes == 1..2
AllModeOne == [s \in Stamps |-> 1]
Alternating == [s \in Stamps |-> IF s % 2 = 1 THEN 1 ELSE 2]

Harsh == [faults |-> {"db", "node", "lost", "crash", "shutdown"}, modeOf |-> AllModeOne]
Busy == [faults |-> {"node", "lost"}, modeOf |-> Alternating]
Crowded == [faults |-> {"node", "lost"}, modeOf |-> AllModeOne]
HarshBusyCrowded == {Harsh, Busy, Crowded}
CrashOnly == {[faults |-> {"crash"}, modeOf |-> AllModeOne]}

=============================================================================
