----------------------------- MODULE MCPooling ------------------------------
(* An instance of Pooling for TLC: two harvests of one quintal each, pools   *)
(* of pools.  Nothing tells harvests, pools or workers apart, so all three   *)
(* are symmetric.                                                            *)
EXTENDS Pooling, TLC

MCWeight == [h \in Harvests |-> 1]
MCSymmetry == Permutations(Harvests) \cup Permutations(Pools) \cup Permutations(Workers)
=============================================================================
