--------------------------- MODULE MCRerankerPool ---------------------------
(* Two replicas, as deployed, with the thresholds of the code, and one request at a time. *)
EXTENDS RerankerPool
=============================================================================
