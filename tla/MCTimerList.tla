---------------------------- MODULE MCTimerList ----------------------------
(* Instances of TimerList for TLC: a and c repeat for ever, b fires once.  *)
EXTENDS TimerList

CONSTANTS a, b, c

TwoTimers   == {a, b}
ThreeTimers == {a, b, c}
MCTimeout   == [h \in Timers |-> IF h = b THEN 2 ELSE 1]
MCRepeat    == [h \in Timers |-> IF h = b THEN 1 ELSE -1]
=============================================================================
