----------------------------- MODULE MCLruCache -----------------------------
(* An instance of LruCache for TLC: a small, a middle and a large value,   *)
(* two of which fill the memory; a long key.                               *)
EXTENDS LruCache

CONSTANTS j, k, l, m

MCKeys     == {j, k, l, m}
MCData     == {1, 2, 5}
MCSize     == [d \in Data |-> d]
MCNodeSize == [x \in Keys |-> IF x = m THEN 3 ELSE 1]
=============================================================================
