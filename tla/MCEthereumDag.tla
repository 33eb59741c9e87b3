--------------------------- MODULE MCEthereumDag ---------------------------
(* Definitions for model-checking EthereumDag. *)
EXTENDS EthereumDag, TLC

CONSTANTS j1, k1, E1, E2

\* A job of each of two epochs.
MCEpochOf == j1 :> E1 @@ k1 :> E2

\* Behaviours in which preparations overlap are left where they do: MinesAgain, DagOfSeed
\* and SharesOfTheirEpoch say nothing of them.
NoOverlap == ~overlap
=============================================================================
