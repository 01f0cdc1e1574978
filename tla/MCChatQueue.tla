------------------------------ MODULE MCChatQueue ------------------------------
(* Instances of ChatQueue for TLC: sessions are model values.               *)
EXTENDS ChatQueue
===============================================================================
