---------------------------- MODULE MCOCPPCall ----------------------------
(* Instances of OCPPCall for TLC: t is a transaction call, n is not.       *)
EXTENDS OCPPCall

CONSTANTS t, n

TwoCalls   == {t, n}
TwoIsTx    == [c \in TwoCalls |-> c = t]
TwoConnId  == [c \in TwoCalls |-> 0]
TwoTimeout == [c \in TwoCalls |-> IF c = t THEN 2 ELSE 1]

OneCall    == {t}
OneIsTx    == [c \in OneCall |-> TRUE]
OneConnId  == [c \in OneCall |-> 0]
OneTimeout == [c \in OneCall |-> 2]
LongTimeout == [c \in OneCall |-> 4]
=============================================================================
