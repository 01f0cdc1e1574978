-------------------------------- MODULE Picking --------------------------------
(* Array.prototype.filter: the elements at some positions, in their order. *)
EXTENDS Naturals, Sequences, FiniteSets

Pick(seq, S) ==
  LET kth(k) == CHOOSE i \in S : Cardinality({j \in S : j <= i}) = k
  IN [k \in 1 .. Cardinality(S) |-> seq[kth(k)]]
===============================================================================
