---------------------------- MODULE MCLocalList -----------------------------
(* Two sections, three leaves; the default file lacks the version.         *)
EXTENDS LocalList, TLC

CONSTANTS h1, h2, v, w, ver, ident, on, t1, t2, good, blocked, leafSub, sectionSub

MCWorkers  == {v, w}
MCSymmetry == Permutations(MCWorkers) \cup Permutations(Handlers)

MCSectionOf == (ver :> "ChargePoint") @@ (ident :> "ChargePoint") @@ (on :> "OCPP1_6")
MCPathOf    == (leafSub :> ver) @@ (sectionSub :> "ChargePoint")

Text == [rep |-> "string", v |-> 0]
Yes  == [rep |-> "true", v |-> 0]
No   == [rep |-> "false", v |-> 0]
MCDoc(a, b, c) == (ver :> a) @@ (ident :> b) @@ (on :> c)

MCDefaults    == MCDoc(Number(0), Text, No)
MCDefaultFile == MCDoc(Absent, Text, Yes)
(* Another version, a version that is no integer, a version that is gone,  *)
(* a section that is gone.                                                 *)
MCNewDocs == {MCDoc(Number(2), Text, Yes),
              MCDoc([rep |-> "double", v |-> 1], Text, No),
              MCDoc(Absent, Text, Yes), MCDoc(Absent, Absent, Yes)}

MCRequests ==
  { [full |-> TRUE, version |-> 1, list |-> <<[tag |-> t1, info |-> good]>>],
    [full |-> TRUE, version |-> 2,
     list |-> <<[tag |-> t2, info |-> good], [tag |-> t1, info |-> blocked]>>],
    [full |-> FALSE, version |-> 2, list |-> <<[tag |-> t1, info |-> blocked]>>] }
=============================================================================
