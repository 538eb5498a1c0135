---------------------------- MODULE MCEmbedding ----------------------------
(* Two callers and the warm-up on two queues: batches of one caller's texts, of *)
(* both and of the warm-up's, full ones and ones closed by time.                *)
EXTENDS Embedding
=============================================================================
