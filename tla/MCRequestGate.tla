--------------------------- MODULE MCRequestGate ---------------------------
(* Three recalls against two commits: one commit can find the gate shut by   *)
(* the other, and a woken recall can be overtaken by a later commit.         *)
EXTENDS RequestGate
=============================================================================
