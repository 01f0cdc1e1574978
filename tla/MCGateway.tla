------------------------------- MODULE MCGateway -------------------------------
(* Instances of Gateway for TLC: connections and session keys are model     *)
(* values and interchangeable.                                             *)
EXTENDS Gateway, TLC

Symmetry == Permutations(Conns) \cup Permutations(Sessions)
===============================================================================
