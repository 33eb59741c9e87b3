-------------------------- MODULE MCStratumClient --------------------------
(* Definitions for model-checking StratumClient. *)
EXTENDS StratumClient
=============================================================================
