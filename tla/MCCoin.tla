------------------------------- MODULE MCCoin -------------------------------
(* Definitions for model-checking Coin. *)
EXTENDS Coin

\* "For merged mining: <mm_cc>+qcn", as the help of the console application has it.
MCMerges == {<<"qcn", "fcn">>}
=============================================================================
