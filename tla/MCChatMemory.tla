----------------------------- MODULE MCChatMemory -----------------------------
(* Two requests at a time and four exchanges with one recent turn.  A history *)
(* of at most four messages is cut when little of it has been compacted.      *)
EXTENDS ChatMemory, TLC

Symmetry == Permutations(Requests)
=============================================================================
