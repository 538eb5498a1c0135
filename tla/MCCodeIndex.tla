---------------------------- MODULE MCCodeIndex ----------------------------
(* Two files, so that two transactions meet on one and may wait for each other; *)
(* the second version of a file drops one of its functions.                     *)
EXTENDS CodeIndex, TLC
MCSymbols == [f \in Files |-> [v \in Versions |-> IF v = 1 THEN {"a", "b"} ELSE {"a"}]]
MCCalls == [f \in Files |-> [v \in Versions |-> IF v = 1 THEN {<<"a", "b">>} ELSE {}]]
Symmetry == Permutations(Api)
=============================================================================
