------------------------------ MODULE ListOps -------------------------------
(***************************************************************************)
(* Taking elements out of a list, as std::list::remove and the unlinking   *)
(* of a node of a linked list do.  The result is given position by         *)
(* position and not by recursion over the list, so that proofs can use it. *)
(***************************************************************************)
EXTENDS Integers, Sequences, FiniteSets

(* The n-th smallest number in S.                                          *)
Nth(S, n) == CHOOSE i \in S : Cardinality({j \in S : j <= i}) = n

(* What is left of s without the elements that are in K.                   *)
Without(s, K) ==
  LET left == {i \in DOMAIN s : s[i] \notin K}
  IN [n \in 1 .. Cardinality(left) |-> s[Nth(left, n)]]
=============================================================================
