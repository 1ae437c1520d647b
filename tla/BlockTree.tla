----------------------------- MODULE BlockTree ------------------------------
(***************************************************************************)
(* The tree of all blocks that can ever be received, as a constant: what   *)
(* CBlockIndex (src/src/chain.h) says of a block that never changes.       *)
(***************************************************************************)
EXTENDS Integers, FiniteSets

CONSTANTS
    Blocks,       \* every block that can ever be received
    Genesis,
    Parent,       \* pprev
    Ancestors,    \* Ancestors[b]: b and all blocks below it
    ChainWork,    \* nChainWork
    NoBlock       \* NULL

ASSUME TreeAssumption ==
    /\ IsFiniteSet(Blocks) /\ Genesis \in Blocks /\ NoBlock \notin Blocks
    /\ Parent \in [Blocks \ {Genesis} -> Blocks]
    /\ Ancestors \in [Blocks -> SUBSET Blocks]
    /\ Ancestors[Genesis] = {Genesis}
    /\ \A b \in Blocks : b \in Ancestors[b] /\ Genesis \in Ancestors[b]
    /\ \A b \in Blocks \ {Genesis} :
          /\ Ancestors[b] = Ancestors[Parent[b]] \union {b}
          /\ b \notin Ancestors[Parent[b]]
    /\ \A b \in Blocks : \A x \in Ancestors[b] : Ancestors[x] \subseteq Ancestors[b]

\* The blocks below a block are a chain, ordered by work: GetBlockProof is positive.
ASSUME WorkAssumption ==
    /\ ChainWork \in [Blocks -> Nat]
    /\ \A b \in Blocks : \A x, y \in Ancestors[b] :
          /\ x \in Ancestors[y] <=> ChainWork[x] <= ChainWork[y]
          /\ ChainWork[x] = ChainWork[y] => x = y

\* nHeight, GetAncestor and LastCommonAncestor.
Height(b) == Cardinality(Ancestors[b]) - 1
GetAncestor(b, height) == CHOOSE x \in Ancestors[b] : Height(x) = height
LastCommonAncestor(a, b) ==
    CHOOSE x \in Ancestors[a] \intersect Ancestors[b] :
        Ancestors[a] \intersect Ancestors[b] \subseteq Ancestors[x]
=============================================================================
