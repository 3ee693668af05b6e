---------------------------- MODULE MCTimerPool ----------------------------
(* A periodic timer and a single-shot one that is due later.               *)
EXTENDS TimerPool

CONSTANTS a, b

MCTimers     == {a, b}
MCInterval   == [t \in MCTimers |-> IF t = a THEN 1 ELSE 2]
MCSingleShot == [t \in MCTimers |-> t = b]

(* Without is what SelectSeq selects, on lists of up to five entries.      *)
ASSUME WithoutAssumption ==
  \A s \in UNION {[1 .. n -> MCTimers] : n \in 0 .. 5} :
    \A K \in SUBSET MCTimers : Without(s, K) = SelectSeq(s, LAMBDA t : t \notin K)
=============================================================================
