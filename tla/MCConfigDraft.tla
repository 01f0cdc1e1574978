----------------------------- MODULE MCConfigDraft -----------------------------
(* Instances of ConfigDraft for TLC: tabs are interchangeable, and so are   *)
(* keys when none is secret.                                               *)
EXTENDS ConfigDraft, TLC

TabsAndKeysAreAlike == Permutations(Tabs) \cup Permutations(Keys)
===============================================================================
