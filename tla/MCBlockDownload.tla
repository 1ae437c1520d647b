--------------------------- MODULE MCBlockDownload --------------------------
(* A chain of blocks, with and without a competing branch, for TLC. *)
EXTENDS BlockDownload, TLC
CONSTANTS g, a1, a2, b1, p1, p2, p3

\* Two blocks above the genesis block, for the liveness run; p3 has none of them, and never
\* answers.
ShortBlocks == {g, a1, a2}
ShortParent == a1 :> g @@ a2 :> a1
ShortAncestors == g :> {g} @@ a1 :> {g, a1} @@ a2 :> {g, a1, a2}
ShortWork == g :> 1 @@ a1 :> 2 @@ a2 :> 3
ShortChain == p1 :> a1 @@ p2 :> a2 @@ p3 :> g
ShortServes == p1 :> {a1} @@ p2 :> {a1, a2} @@ p3 :> {}

\* p1 moves between the branches g - b1 and g - a1 - a2; p2 stays on the second.  Nobody
\* announces the genesis block, which every node has from the start.
ForkBlocks == {g, a1, a2, b1}
ForkParent == a1 :> g @@ a2 :> a1 @@ b1 :> g
ForkAncestors == g :> {g} @@ a1 :> {g, a1} @@ a2 :> {g, a1, a2} @@ b1 :> {g, b1}
ForkWork == g :> 1 @@ a1 :> 2 @@ a2 :> 3 @@ b1 :> 2
ForkChain == p1 :> a2 @@ p2 :> a2
ForkServes == p1 :> {a1, a2, b1} @@ p2 :> {a1, a2}
=============================================================================
