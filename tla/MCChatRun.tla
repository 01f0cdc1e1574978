------------------------------- MODULE MCChatRun -------------------------------
(* Instances of ChatRun for TLC.                                           *)
EXTENDS ChatRun, TLC

Symmetry == Permutations(Conns) \cup Permutations(Runs)
===============================================================================
