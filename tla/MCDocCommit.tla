---------------------------- MODULE MCDocCommit ----------------------------
(* Two ingests after the first version, or three from nothing, two attempts *)
(* of each HTTP call, and two things that go wrong.                         *)
EXTENDS DocCommit
=============================================================================
