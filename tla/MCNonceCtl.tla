----------------------------- MODULE MCNonceCtl -----------------------------
(* Definitions for model-checking NonceCtl. *)
EXTENDS NonceCtl, TLC

\* The CPU threads are interchangeable.
ThreadSymmetry == Permutations(Threads \ Gpus)
=============================================================================
