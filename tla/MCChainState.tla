---------------------------- MODULE MCChainState ----------------------------
(* Block trees for TLC. *)
EXTENDS ChainState, TLC
CONSTANTS g, a1, a2, a3, b1, b2, b3, t1, t2

\* Threads are interchangeable in the runs without liveness.
ThreadSymmetry == Permutations({t1, t2})

\* Two branches: g - a1 - a2 - a3 and g - b1 - b2 - b3.
ForkBlocks == {g, a1, a2, a3, b1, b2, b3}
ForkParent == a1 :> g @@ a2 :> a1 @@ a3 :> a2 @@ b1 :> g @@ b2 :> b1 @@ b3 :> b2
ForkAncestors ==
    g :> {g} @@ a1 :> {g, a1} @@ a2 :> {g, a1, a2} @@ a3 :> {g, a1, a2, a3}
    @@ b1 :> {g, b1} @@ b2 :> {g, b1, b2} @@ b3 :> {g, b1, b2, b3}
ForkWork == g :> 1 @@ a1 :> 2 @@ a2 :> 3 @@ a3 :> 4 @@ b1 :> 2 @@ b2 :> 3 @@ b3 :> 4

\* Siblings above a1: g - a1 - {a2, b2}, and g - b1.
BushBlocks == {g, a1, a2, b1, b2}
BushParent == a1 :> g @@ a2 :> a1 @@ b1 :> g @@ b2 :> a1
BushAncestors ==
    g :> {g} @@ a1 :> {g, a1} @@ a2 :> {g, a1, a2} @@ b1 :> {g, b1} @@ b2 :> {g, a1, b2}
BushWork == g :> 1 @@ a1 :> 2 @@ a2 :> 3 @@ b1 :> 2 @@ b2 :> 3
=============================================================================
