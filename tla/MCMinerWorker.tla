--------------------------- MODULE MCMinerWorker ---------------------------
(* Definitions for model-checking MinerWorker. *)
EXTENDS MinerWorker
=============================================================================
