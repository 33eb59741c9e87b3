---------------------------- MODULE MCPoolClient ----------------------------
(* Definitions for model-checking PoolClient. *)
EXTENDS PoolClient
=============================================================================
