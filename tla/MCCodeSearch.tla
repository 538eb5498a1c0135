---------------------------- MODULE MCCodeSearch ----------------------------
(* One file, whose second version drops a function, adds another one and still *)
(* calls the first: points and calls of both versions may be left behind.  The *)
(* limits are so small that what was left behind can fill a list: the wide one *)
(* is two, where the code has ten times the final one.                         *)
EXTENDS CodeSearch, TLC

MCSymbols == [f \in Files |-> [v \in Versions |-> IF v = 1 THEN {"a", "b"} ELSE {"a", "c"}]]
MCCalls == [f \in Files |-> [v \in Versions |-> IF v = 1 THEN {<<"b", "ta">>} 
                                                ELSE {<<"c", "ta">>, <<"a", "b">>}]]
MCTail == [a |-> "ta", b |-> "tb", c |-> "tc"]
MCCallees == {"a", "b", "c", "ta", "tb", "tc"}
MCQuestions == {<<"search", "a">>, <<"chain", "b">>}
Symmetry == Permutations(Api)
=============================================================================
