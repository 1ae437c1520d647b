------------------------- MODULE MCChainPersistence -------------------------
(* Two branches above the genesis block, for TLC. *)
EXTENDS ChainPersistence, TLC
CONSTANTS g, a1, a2, b1

ForkBlocks == {g, a1, a2, b1}
ForkParent == a1 :> g @@ a2 :> a1 @@ b1 :> g
ForkAncestors == g :> {g} @@ a1 :> {g, a1} @@ a2 :> {g, a1, a2} @@ b1 :> {g, b1}
ForkWork == g :> 1 @@ a1 :> 2 @@ a2 :> 3 @@ b1 :> 2
=============================================================================
