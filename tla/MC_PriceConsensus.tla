-------------------------- MODULE MC_PriceConsensus --------------------------
(* Instances of PriceConsensus for TLC.                                     *)
EXTENDS PriceConsensus, TLC

\* Every honest feed may stand for every other.
HonestFeeds == Permutations(Honest)
=============================================================================
