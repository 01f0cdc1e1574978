------------------------------ MODULE MCChatScreen -----------------------------
(* Instances of ChatScreen for TLC: sessions are interchangeable, and the   *)
(* behaviours are long in one respect at a time.                            *)
EXTENDS ChatScreen

Budget(s, d, l, f) == [sends |-> s, deltas |-> d, loads |-> l, faults |-> f]
Sizes == {Budget(2, 2, 2, 0), Budget(2, 1, 1, 1), Budget(1, 2, 3, 1)}

SessionsAreAlike == Permutations(Sessions)
===============================================================================
