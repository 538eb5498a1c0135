---------------------------- MODULE MCRetrieval ----------------------------
(* Two recalls at a time of two documents; with S3 two calls may fail, so that a build *)
(* can lose both of its sources.                                                       *)
EXTENDS Retrieval
CONSTANTS r1, r2
MCRecalls == {r1, r2}
MCMaxFailures == [directory \in BOOLEAN |-> IF directory THEN 1 ELSE 2]
Symmetry == Permutations(MCRecalls)
=============================================================================
