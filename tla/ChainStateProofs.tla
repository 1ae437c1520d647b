-------------------------- MODULE ChainStateProofs --------------------------
(***************************************************************************)
(* For every block tree, every set of invalid or damaged blocks and every  *)
(* number of threads: the active chain never holds a block that does not   *)
(* connect, every candidate is linked down to the genesis block, the coins *)
(* database is at most one block away from the tip, the index is as        *)
(* CheckBlockIndex asserts, and when no thread is activating the tip is    *)
(* the best block.                                                         *)
(***************************************************************************)
EXTENDS ChainState, FiniteSetTheorems, WellFoundedInduction, TLAPS

(***************************************************************************)
(* Facts about every tree of blocks.                                       *)
(***************************************************************************)
\* What TreeAssumption says of one block.
LEMMA TreeFacts ==
    ASSUME NEW b \in Blocks
    PROVE  /\ Ancestors[b] \subseteq Blocks
           /\ b \in Ancestors[b] /\ Genesis \in Ancestors[b]
           /\ \A x \in Ancestors[b] : Ancestors[x] \subseteq Ancestors[b]
           /\ b # Genesis => /\ Parent[b] \in Blocks
                             /\ Ancestors[b] = Ancestors[Parent[b]] \union {b}
                             /\ b \notin Ancestors[Parent[b]]
BY TreeAssumption

\* Two blocks below a third are on one chain: GetAncestor and FindFork rely on it.
LEMMA Comparable ==
    ASSUME NEW b \in Blocks, NEW x \in Ancestors[b], NEW y \in Ancestors[b]
    PROVE  x \in Ancestors[y] \/ y \in Ancestors[x]
<1>1. x \in Blocks /\ y \in Blocks
  BY TreeFacts
<1>2. ChainWork[x] \in Nat /\ ChainWork[y] \in Nat
  BY <1>1, WorkAssumption
<1>3. /\ x \in Ancestors[y] <=> ChainWork[x] <= ChainWork[y]
      /\ y \in Ancestors[x] <=> ChainWork[y] <= ChainWork[x]
  BY WorkAssumption
<1> QED
  BY <1>2, <1>3

\* Different blocks are not below each other.
LEMMA Antisymmetric ==
    ASSUME NEW x \in Blocks, NEW y \in Blocks, x \in Ancestors[y], y \in Ancestors[x]
    PROVE  x = y
<1>1. x \in Ancestors[x] /\ y \in Ancestors[x]
  BY TreeFacts
<1>2. ChainWork[x] \in Nat /\ ChainWork[y] \in Nat
  BY WorkAssumption
<1>3. /\ x \in Ancestors[y] <=> ChainWork[x] <= ChainWork[y]
      /\ y \in Ancestors[x] <=> ChainWork[y] <= ChainWork[x]
      /\ ChainWork[x] = ChainWork[y] => x = y
  BY <1>1, WorkAssumption
<1> QED
  BY <1>2, <1>3

-----------------------------------------------------------------------------
\* nChainTx # 0 is inherited by all blocks below.
ChainTxClosed == \A b \in chainTx : Ancestors[b] \subseteq chainTx

\* The inductive invariant.
IInv == TypeOK /\ ChainTxClosed /\ ActiveChainSound /\ CoinsFollowTip

-----------------------------------------------------------------------------
(***************************************************************************)
(* FindMostWorkChain and ActivateBestChainStep.                            *)
(***************************************************************************)
\* What FindMostWorkChain marks as failed is neither active nor on the way to
\* the block it returns.
LEMMA SweptElsewhere ==
    ASSUME TypeOK, NEW m \in MostWork
    PROVE  /\ SweptPath \intersect Ancestors[tip] = {}
           /\ SweptPath \intersect Ancestors[m] = {}
<1>1. SUFFICES ASSUME NEW c \in FailedMet, NEW z \in FailedPath(c)
               PROVE  z \notin Ancestors[tip] /\ z \notin Ancestors[m]
  BY DEF SweptPath
<1>2. c \in Blocks /\ HasFailed(c) /\ m \in Blocks /\ ~HasFailed(m)
  BY DEF TypeOK, FailedMet, MostWork, Best
<1>3. z \in Ancestors[c] /\ z \notin Ancestors[tip]
  BY DEF FailedPath, NewPath
<1>4. SUFFICES ASSUME z \in Ancestors[m] PROVE FALSE
  BY <1>3
<1>5. PICK y \in NewPath(c) : y \in Failed
  BY <1>2 DEF HasFailed
<1>6. z \notin Failed /\ z # y
  BY <1>2, <1>3, <1>4, <1>5 DEF HasFailed, NewPath
<1>7. CASE y \in Ancestors[z]
  <2>1. y \in Ancestors[m] /\ y \notin Ancestors[tip]
    BY <1>2, <1>4, <1>5, <1>7, TreeFacts DEF NewPath
  <2> QED
    BY <2>1, <1>2, <1>5 DEF HasFailed, NewPath
<1>8. CASE z \in Ancestors[y]
  BY <1>1, <1>5, <1>6, <1>8 DEF FailedPath
<1> QED
  BY <1>2, <1>3, <1>5, <1>7, <1>8, Comparable DEF NewPath

\* The walk marks only blocks of the index, and only removes candidates.
LEMMA SweptInIndex ==
    ASSUME TypeOK, ChainTxClosed
    PROVE  /\ Swept \subseteq candidates
           /\ failedChild \subseteq SweptChild
           /\ SweptChild \subseteq failedChild \union SweptPath
           /\ SweptChild \subseteq mapBlockIndex
           /\ SweptPath \intersect Ancestors[tip] = {}
<1>1. ASSUME NEW c \in FailedMet PROVE FailedPath(c) \subseteq mapBlockIndex \ Ancestors[tip]
  <2>1. c \in chainTx
    BY <1>1 DEF FailedMet, TypeOK
  <2> QED
    BY <2>1 DEF FailedPath, NewPath, ChainTxClosed, TypeOK
<1> QED
  BY <1>1 DEF SweptPath, Swept, SweptChild, TypeOK

\* The target of a step is a stored, linked block.
LEMMA TargetLinked ==
    ASSUME TypeOK, ChainTxClosed, NEW m \in MostWork
    PROVE  /\ m \in chainTx /\ m \in Blocks
           /\ Ancestors[m] \subseteq chainTx
           /\ NewPath(m) \intersect Failed = {}
BY DEF TypeOK, ChainTxClosed, MostWork, Best, HasFailed

\* A step stops at one block of the target's chain.
LEMMA StopUnique ==
    ASSUME NEW m \in Blocks, NEW r \in StopAt(m), NEW s \in StopAt(m)
    PROVE  r = s /\ r \in Ancestors[m]
<1>1. r \in Ancestors[m] /\ s \in Ancestors[m] /\ r \in Blocks /\ s \in Blocks
  BY TreeFacts DEF StopAt
<1> DEFINE better == {x \in NewPath(m) : ChainWork[x] > ChainWork[tip]}
<1>2. CASE better = {}
  BY <1>1, <1>2 DEF StopAt
<1>3. CASE better # {}
  <2>1. r \in Ancestors[s] /\ s \in Ancestors[r]
    BY <1>3 DEF StopAt
  <2> QED
    BY <1>1, <2>1, Antisymmetric
<1> QED
  BY <1>2, <1>3

\* Below a block that a step connects, all blocks are active or connected by the step.
LEMMA ConnectClosed ==
    ASSUME NEW m \in Blocks, NEW x \in ToConnect(m)
    PROVE  /\ x \in Ancestors[m] /\ x \notin Ancestors[tip]
           /\ Ancestors[x] \subseteq Ancestors[m]
           /\ Ancestors[x] \subseteq Ancestors[tip] \union ToConnect(m)
<1>1. x \in Ancestors[m] /\ x \notin Ancestors[tip] /\ x \in Blocks
  BY TreeFacts DEF ToConnect, NewPath
<1>2. Ancestors[x] \subseteq Ancestors[m]
  BY <1>1, TreeFacts
<1>3. ASSUME NEW s \in StopAt(m) PROVE Ancestors[x] \subseteq Ancestors[s]
  <2>1. s \in Blocks /\ x \in Ancestors[s]
    BY TreeFacts DEF StopAt, ToConnect
  <2> QED
    BY <2>1, TreeFacts
<1>4. Ancestors[x] \subseteq Ancestors[tip] \union ToConnect(m)
  BY <1>2, <1>3 DEF ToConnect, NewPath
<1> QED
  BY <1>1, <1>2, <1>4

\* Everything up to the stopping point is active or connected by the step.
LEMMA StopClosed ==
    ASSUME NEW m \in Blocks, NEW s \in StopAt(m)
    PROVE  Ancestors[s] \subseteq Ancestors[tip] \union ToConnect(m)
<1>1. s \in Ancestors[m] /\ s \in Blocks
  BY TreeFacts DEF StopAt
<1>2. Ancestors[s] \subseteq Ancestors[m]
  BY <1>1, TreeFacts
<1>3. \A r \in StopAt(m) : r = s
  BY StopUnique
<1> QED
  BY <1>2, <1>3 DEF ToConnect, NewPath

-----------------------------------------------------------------------------
(***************************************************************************)
(* The invariant holds initially and is preserved by every action.         *)
(***************************************************************************)
LEMMA InitInv == Init => IInv
<1> SUFFICES ASSUME Init PROVE IInv
  OBVIOUS
<1>1. Ancestors[Genesis] = {Genesis} /\ Genesis \in Blocks /\ Genesis \notin Invalid
  BY TreeAssumption, ContentAssumption
<1>2. TypeOK
  BY <1>1, ContentAssumption DEF Init, TypeOK
<1> QED
  BY <1>1, <1>2 DEF Init, IInv, ChainTxClosed, ActiveChainSound, CoinsFollowTip, Failed

\* The part of the invariant that reads only these variables survives a step that
\* leaves the active chain, the coins and the flags alone or only clears flags.
LEMMA SameTip ==
    ASSUME IInv, TypeOK', ChainTxClosed', tip' = tip, coinsTip' = coinsTip,
           aborts' = aborts,
           aborts = 0 => (failedValid' \union failedChild') \intersect Ancestors[tip]
                             \subseteq Failed
    PROVE  IInv'
<1>1. Ancestors[tip] \subseteq haveData'
  BY DEF TypeOK, ChainTxClosed
<1>2. ActiveChainSound'
  BY <1>1 DEF IInv, ActiveChainSound, Failed
<1>3. CoinsFollowTip'
  BY DEF IInv, CoinsFollowTip
<1> QED
  BY <1>2, <1>3 DEF IInv

\* A new header only adds an entry to the index.
LEMMA HeaderInv ==
    ASSUME IInv, NEW t \in Threads, NEW b \in Blocks, AcceptBlockHeader(t, b)
    PROVE  IInv'
<1>1. TypeOK'
  BY DEF IInv, TypeOK, AcceptBlockHeader, threadVars, counters
<1>2. ChainTxClosed'
  BY DEF IInv, ChainTxClosed, AcceptBlockHeader
<1> QED
  BY <1>1, <1>2, SameTip DEF AcceptBlockHeader, counters, Failed

\* AcceptBlock marks a bad block only while its data is not stored, so not an active one.
LEMMA RejectInv ==
    ASSUME IInv, NEW t \in Threads, NEW b \in Blocks, RejectBlock(t, b)
    PROVE  IInv'
<1>1. TypeOK'
  BY DEF IInv, TypeOK, RejectBlock, threadVars, counters
<1>2. ChainTxClosed'
  BY DEF IInv, ChainTxClosed, RejectBlock
<1>3. b \notin Ancestors[tip]
  BY DEF IInv, ActiveChainSound, RejectBlock
<1> QED
  BY <1>1, <1>2, <1>3, SameTip DEF RejectBlock, counters, Failed

\* The blocks that become linked are stored, and with them all blocks below.
LEMMA LinkedClosed ==
    ASSUME TypeOK, ChainTxClosed, NEW b \in Blocks, b # Genesis, Parent[b] \in chainTx
    PROVE  /\ NewlyLinked(b) \subseteq unlinked \union {b}
           /\ \A x \in NewlyLinked(b) : Ancestors[x] \subseteq chainTx \union NewlyLinked(b)
<1>1. NewlyLinked(b) \subseteq unlinked \union {b}
  BY DEF NewlyLinked
<1>2. ASSUME NEW x \in NewlyLinked(b), NEW y \in Ancestors[x]
      PROVE  y \in chainTx \union NewlyLinked(b)
  <2>1. x \in Blocks /\ b \in Ancestors[x] /\ y \in Blocks
    BY TreeFacts DEF NewlyLinked, TypeOK
  <2>2. CASE y \in Ancestors[b]
    <3>1. y \in Ancestors[Parent[b]] \/ y = b
      BY <2>2, TreeFacts
    <3>2. b \in NewlyLinked(b)
      BY TreeFacts DEF NewlyLinked
    <3> QED
      BY <3>1, <3>2 DEF ChainTxClosed
  <2>3. CASE y \notin Ancestors[b]
    <3>1. b \in Ancestors[y]
      BY <2>1, <2>3, Comparable
    <3>2. Ancestors[y] \subseteq Ancestors[x]
      BY <2>1, TreeFacts
    <3>3. y \in unlinked
      BY <2>3 DEF NewlyLinked
    <3> QED
      BY <3>1, <3>2, <3>3 DEF NewlyLinked
  <2> QED
    BY <2>2, <2>3
<1> QED
  BY <1>1, <1>2

\* The genesis block, which InitBlockIndex stores, stays stored.
LEMMA GenesisStored ==
    ASSUME IInv
    PROVE  Genesis \in haveData /\ Genesis \in mapBlockIndex
BY TreeFacts DEF IInv, TypeOK, ChainTxClosed

\* Storing a block: it waits for its parent, or is linked with all that waits above it.
LEMMA ProcessInv ==
    ASSUME IInv, NEW t \in Threads, NEW b \in Blocks, ProcessNewBlock(t, b)
    PROVE  IInv'
<1> USE DEF IInv
<1>1. /\ pc' \in [Threads -> {"idle", "step", "test", "dead"}]
      /\ pblock' \in [Threads -> Blocks \union {NoBlock}]
  BY DEF ProcessNewBlock, TypeOK
<1>2. CASE b \in haveData
  <2>1. UNCHANGED <<failedValid, haveData, chainTx, nSequenceId, nBlockSequenceId,
                    candidates, unlinked>> /\ mapBlockIndex' = mapBlockIndex \union {b}
    BY <1>2 DEF ProcessNewBlock, AcceptBlock
  <2>2. TypeOK'
    BY <1>1, <2>1 DEF ProcessNewBlock, TypeOK, counters
  <2>3. ChainTxClosed'
    BY <2>1 DEF ChainTxClosed
  <2> QED
    BY <2>1, <2>2, <2>3, SameTip DEF ProcessNewBlock, counters, Failed
<1>3. CASE b \notin haveData
  <2>1. ReceivedBlockTransactions(b) /\ failedValid' = failedValid
        /\ mapBlockIndex' = mapBlockIndex \union {b}
    BY <1>3 DEF ProcessNewBlock, AcceptBlock
  <2>2. b # Genesis
    BY <1>3, GenesisStored
  <2>3. haveData' = haveData \union {b}
    BY <2>1 DEF ReceivedBlockTransactions
  <2>4. CASE Parent[b] \in chainTx
    <3> DEFINE linked == NewlyLinked(b)
    <3>1. /\ linked \subseteq unlinked \union {b}
          /\ \A x \in linked : Ancestors[x] \subseteq chainTx \union linked
      BY <2>2, <2>4, LinkedClosed
    <3>2. PICK order \in LinkOrders(linked) :
              /\ chainTx' = chainTx \union linked
              /\ nSequenceId' = [x \in Blocks |->
                     IF x \in linked THEN nBlockSequenceId + order[x] - 1
                                     ELSE nSequenceId[x]]
              /\ nBlockSequenceId' = nBlockSequenceId + Cardinality(linked)
              /\ candidates' \subseteq candidates \union linked
              /\ unlinked' = unlinked \ linked
      BY <2>1, <2>4 DEF ReceivedBlockTransactions
    <3>3. Cardinality(linked) \in Nat
      <4>1. linked \subseteq Blocks
        BY <3>1 DEF TypeOK
      <4>2. IsFiniteSet(linked)
        BY <4>1, TreeAssumption, FS_Subset
      <4> QED
        BY <4>2, FS_CardinalityType
    <3>4. \A x \in linked : order[x] \in 1..Cardinality(linked)
      BY <3>2 DEF LinkOrders
    <3>5. nSequenceId' \in [Blocks -> Nat] /\ nBlockSequenceId' \in Nat
      <4> HIDE DEF linked
      <4>1. \A x \in linked : nBlockSequenceId + order[x] - 1 \in Nat
        BY <3>3, <3>4 DEF TypeOK
      <4> QED
        BY <3>2, <3>3, <4>1 DEF TypeOK
    <3> HIDE DEF linked
    <3>6. TypeOK'
      BY <1>1, <2>1, <2>3, <3>1, <3>2, <3>5 DEF ProcessNewBlock, TypeOK, counters
    <3>7. ChainTxClosed'
      BY <3>1, <3>2 DEF ChainTxClosed
    <3> QED
      BY <2>1, <3>6, <3>7, SameTip DEF ProcessNewBlock, counters, Failed
  <2>5. CASE Parent[b] \notin chainTx
    <3>1. UNCHANGED <<chainTx, nSequenceId, nBlockSequenceId, candidates>>
          /\ unlinked' \subseteq unlinked \union {b}
      BY <2>1, <2>5 DEF ReceivedBlockTransactions, Queued
    <3>2. TypeOK'
      BY <1>1, <2>1, <2>3, <3>1 DEF ProcessNewBlock, TypeOK, counters
    <3>3. ChainTxClosed'
      BY <3>1 DEF ChainTxClosed
    <3> QED
      BY <2>1, <3>2, <3>3, SameTip DEF ProcessNewBlock, counters, Failed
  <2> QED
    BY <2>4, <2>5
<1> QED
  BY <1>2, <1>3

-----------------------------------------------------------------------------
(***************************************************************************)
(* Steps of ActivateBestChain.                                             *)
(***************************************************************************)
\* The parts of the types that all steps share.
LEMMA ReturnTypes ==
    ASSUME TypeOK, NEW t \in Threads, Return(t)
    PROVE  /\ pc' \in [Threads -> {"idle", "step", "test", "dead"}]
           /\ mostWork' \in [Threads -> Blocks \union {NoBlock}]
           /\ pblock' \in [Threads -> Blocks \union {NoBlock}]
BY DEF TypeOK, Return

\* FindMostWorkChain may mark blocks even when there is nothing to activate.
LEMMA NothingInv ==
    ASSUME IInv, NEW t \in Threads, ActivateNothing(t)
    PROVE  IInv'
<1> USE DEF IInv
<1>1. TypeOK'
  BY ReturnTypes, SweptInIndex DEF TypeOK, ActivateNothing, indexVars, counters
<1>2. ChainTxClosed'
  BY DEF ChainTxClosed, ActivateNothing, indexVars
<1> QED
  BY <1>1, <1>2, SameTip, SweptInIndex DEF ActivateNothing, counters, Failed

\* The loop test of ActivateBestChain changes only the thread.
LEMMA LoopInv ==
    ASSUME IInv, NEW t \in Threads, LoopTest(t)
    PROVE  IInv'
<1> USE DEF IInv
<1>1. /\ pc' \in [Threads -> {"idle", "step", "test", "dead"}]
      /\ mostWork' \in [Threads -> Blocks \union {NoBlock}]
      /\ pblock' \in [Threads -> Blocks \union {NoBlock}]
  BY ReturnTypes DEF LoopTest, TypeOK
<1>2. TypeOK'
  BY <1>1 DEF TypeOK, LoopTest, indexVars, counters
<1>3. ChainTxClosed'
  BY DEF ChainTxClosed, LoopTest, indexVars
<1> QED
  BY <1>2, <1>3, SameTip DEF LoopTest, counters, Failed

\* A step that meets coins of another block changes only flags and the thread.
LEMMA DivergedInv ==
    ASSUME IInv, NEW t \in Threads, NEW m \in MostWork, Diverged(t, m)
    PROVE  IInv'
<1> USE DEF IInv
<1>1. /\ pc' \in [Threads -> {"idle", "step", "test", "dead"}]
      /\ mostWork' \in [Threads -> Blocks \union {NoBlock}]
      /\ pblock' \in [Threads -> Blocks \union {NoBlock}]
  BY ReturnTypes, TargetLinked DEF Diverged, TypeOK
<1>2. TypeOK'
  BY <1>1, SweptInIndex DEF TypeOK, Diverged, indexVars, counters
<1>3. ChainTxClosed'
  BY DEF ChainTxClosed, Diverged, indexVars
<1> QED
  BY <1>2, <1>3, SameTip, SweptInIndex DEF Diverged, counters, Failed

\* What is left to show for a step that moves the tip.
LEMMA MovedTip ==
    ASSUME IInv, UNCHANGED indexVars,
           failedValid' \subseteq mapBlockIndex, failedChild' \subseteq mapBlockIndex,
           candidates' \subseteq chainTx, tip' \in chainTx, coinsTip' \in chainTx,
           pc' \in [Threads -> {"idle", "step", "test", "dead"}],
           mostWork' \in [Threads -> Blocks \union {NoBlock}],
           pblock' \in [Threads -> Blocks \union {NoBlock}],
           invalidates' \in 0..MaxInvalidate, reconsiders' \in 0..MaxReconsider,
           aborts' \in 0..MaxAborts,
           Ancestors[tip'] \intersect Invalid = {},
           aborts' = 0 => Ancestors[tip'] \intersect (failedValid' \union failedChild') = {},
           CoinsFollowTip'
    PROVE  IInv'
<1> USE DEF IInv
<1>1. TypeOK'
  BY DEF TypeOK, indexVars
<1>2. ChainTxClosed'
  BY DEF ChainTxClosed, indexVars
<1>3. Ancestors[tip'] \subseteq haveData'
  BY <1>1, <1>2 DEF TypeOK, ChainTxClosed
<1>4. ActiveChainSound'
  BY <1>3 DEF ActiveChainSound, Failed
<1> QED
  BY <1>1, <1>2, <1>4

\* A step that connects every block up to its stopping point.
LEMMA StepInv ==
    ASSUME IInv, NEW t \in Threads, NEW m \in MostWork, ActivateStep(t, m)
    PROVE  IInv'
<1> USE DEF IInv
<1>1. m \in Blocks /\ m \in chainTx /\ Ancestors[m] \subseteq chainTx
      /\ NewPath(m) \intersect Failed = {}
  BY TargetLinked
<1>2. tip' \in StopAt(m) /\ coinsTip' = tip'
  BY DEF ActivateStep
<1>3. /\ tip' \in Ancestors[m] /\ tip' \in Blocks
      /\ Ancestors[tip'] \subseteq Ancestors[m]
      /\ Ancestors[tip'] \subseteq Ancestors[tip] \union ToConnect(m)
  <2>1. tip' \in Ancestors[m] /\ tip' \in Blocks
    BY <1>1, <1>2, TreeFacts DEF StopAt
  <2>2. Ancestors[tip'] \subseteq Ancestors[m]
    BY <1>1, <2>1, TreeFacts
  <2>3. Ancestors[tip'] \subseteq Ancestors[tip] \union ToConnect(m)
    BY <1>1, <1>2, StopClosed
  <2> QED
    BY <2>1, <2>2, <2>3
<1>4. ToConnect(m) \intersect Invalid = {}
  BY DEF ActivateStep, BadOnPath
<1>5. Ancestors[tip'] \intersect Invalid = {}
  BY <1>3, <1>4 DEF ActiveChainSound
<1>6. failedValid' = failedValid /\ failedChild' = SweptChild /\ aborts' = aborts
  BY DEF ActivateStep, Stepping, counters
<1>7. ASSUME aborts' = 0
      PROVE  Ancestors[tip'] \intersect (failedValid' \union failedChild') = {}
  <2>1. Ancestors[tip'] \intersect Failed = {}
    BY <1>1, <1>3, <1>6, <1>7 DEF ActiveChainSound, NewPath, ToConnect
  <2>2. Ancestors[tip'] \intersect SweptPath = {}
    BY <1>3, SweptElsewhere
  <2> QED
    BY <1>6, <2>1, <2>2, SweptInIndex DEF Failed
<1>8. candidates' \subseteq chainTx
  BY SweptInIndex DEF ActivateStep, Prune, TypeOK
<1>9. CoinsFollowTip'
  BY <1>2 DEF CoinsFollowTip
<1>10. /\ pc' \in [Threads -> {"idle", "step", "test", "dead"}]
       /\ mostWork' \in [Threads -> Blocks \union {NoBlock}]
       /\ pblock' \in [Threads -> Blocks \union {NoBlock}]
       /\ invalidates' \in 0..MaxInvalidate /\ reconsiders' \in 0..MaxReconsider
       /\ aborts' \in 0..MaxAborts
  BY <1>1 DEF ActivateStep, counters, TypeOK
<1>11. failedValid' \subseteq mapBlockIndex /\ failedChild' \subseteq mapBlockIndex
  BY <1>6, SweptInIndex DEF TypeOK
<1>12. UNCHANGED indexVars /\ tip' \in chainTx
  BY <1>1, <1>3 DEF ActivateStep, Stepping
<1> QED
  BY <1>2, <1>5, <1>7, <1>8, <1>9, <1>10, <1>11, <1>12, MovedTip

\* A step that ends below a block that does not connect.
LEMMA InvalidInv ==
    ASSUME IInv, NEW t \in Threads, NEW m \in MostWork, ActivateInvalid(t, m)
    PROVE  IInv'
<1> USE DEF IInv
<1>1. m \in Blocks /\ m \in chainTx /\ Ancestors[m] \subseteq chainTx
      /\ NewPath(m) \intersect Failed = {}
  BY TargetLinked
<1>2. PICK f \in BadOnPath(t, m) :
          /\ \A y \in BadOnPath(t, m) : f \in Ancestors[y]
          /\ tip' = Parent[f] /\ coinsTip' = Parent[f]
          /\ candidates' \subseteq Swept
          /\ failedValid' \in {failedValid, failedValid \union {f}}
  BY DEF ActivateInvalid, InvalidBlockFound, Prune
<1>3. f \in ToConnect(m) /\ f \in Blocks
  BY <1>1, TreeFacts DEF BadOnPath, ToConnect, NewPath
<1>4. /\ f \in Ancestors[m] /\ f \notin Ancestors[tip]
      /\ Ancestors[f] \subseteq Ancestors[m]
      /\ Ancestors[f] \subseteq Ancestors[tip] \union ToConnect(m)
  BY <1>1, <1>3, ConnectClosed
<1>5. f # Genesis
  BY <1>4, TreeFacts DEF TypeOK
<1>6. /\ Parent[f] \in Blocks /\ Ancestors[f] = Ancestors[Parent[f]] \union {f}
      /\ f \notin Ancestors[Parent[f]] /\ Parent[f] \in Ancestors[Parent[f]]
  BY <1>3, <1>5, TreeFacts
<1>7. Ancestors[tip'] \intersect Invalid = {}
  <2>1. SUFFICES ASSUME NEW x \in Ancestors[Parent[f]], x \in Invalid PROVE FALSE
    BY <1>2
  <2>2. x \in ToConnect(m)
    BY <1>4, <1>6, <2>1 DEF ActiveChainSound
  <2>3. x \in BadOnPath(t, m)
    BY <2>1, <2>2 DEF BadOnPath
  <2>4. f \in Ancestors[x] /\ x \in Ancestors[f] /\ x \in Blocks
    BY <1>2, <1>6, <2>3, TreeFacts
  <2> QED
    BY <1>3, <1>6, <2>4, Antisymmetric
<1>8. failedChild' = SweptChild /\ aborts' = aborts
  BY DEF ActivateInvalid, Stepping, counters
<1>9. ASSUME aborts' = 0
      PROVE  Ancestors[tip'] \intersect (failedValid' \union failedChild') = {}
  <2>1. Ancestors[tip'] \intersect Failed = {}
    BY <1>1, <1>2, <1>4, <1>6, <1>8, <1>9 DEF ActiveChainSound, NewPath, ToConnect
  <2>2. Ancestors[tip'] \intersect SweptPath = {}
    BY <1>2, <1>4, <1>6, SweptElsewhere
  <2> QED
    BY <1>2, <1>6, <1>8, <2>1, <2>2, SweptInIndex DEF Failed
<1>10. candidates' \subseteq chainTx
  BY <1>2, SweptInIndex DEF TypeOK
<1>11. CoinsFollowTip'
  BY <1>2 DEF CoinsFollowTip
<1>12. /\ pc' \in [Threads -> {"idle", "step", "test", "dead"}]
       /\ mostWork' \in [Threads -> Blocks \union {NoBlock}]
       /\ pblock' \in [Threads -> Blocks \union {NoBlock}]
       /\ invalidates' \in 0..MaxInvalidate /\ reconsiders' \in 0..MaxReconsider
       /\ aborts' \in 0..MaxAborts
  BY <1>1 DEF ActivateInvalid, counters, TypeOK
<1>13. failedValid' \subseteq mapBlockIndex /\ failedChild' \subseteq mapBlockIndex
  BY <1>1, <1>2, <1>4, <1>8, SweptInIndex DEF TypeOK
<1>14. UNCHANGED indexVars /\ tip' \in chainTx
  BY <1>1, <1>2, <1>4, <1>6 DEF ActivateInvalid, Stepping
<1> QED
  BY <1>2, <1>7, <1>9, <1>10, <1>11, <1>12, <1>13, <1>14, MovedTip

\* A step that a system error stops on its way down or up.
LEMMA AbortsInv ==
    ASSUME IInv, NEW t \in Threads, NEW m \in MostWork, ActivateAborts(t, m)
    PROVE  IInv'
<1> USE DEF IInv
<1>1. m \in Blocks /\ m \in chainTx /\ Ancestors[m] \subseteq chainTx
  BY TargetLinked
<1>2. tip \in Blocks /\ Ancestors[tip] \subseteq chainTx
  BY DEF TypeOK, ChainTxClosed
<1>3. aborts' = aborts + 1 /\ aborts' \in 0..MaxAborts /\ aborts' > 0
  BY ContentAssumption DEF ActivateAborts, TypeOK
<1>4. PICK x \in Blocks \ {Genesis} :
          /\ x \in chainTx /\ Parent[x] \in chainTx
          /\ tip' \in {x, Parent[x]} /\ coinsTip' \in {x, Parent[x]}
          /\ Ancestors[tip'] \intersect Invalid = {}
  <2>1. CASE \E x \in DownTo(m) \ Ancestors[m] : tip' = x /\ coinsTip' \in {x, Parent[x]}
    <3>1. PICK x \in DownTo(m) \ Ancestors[m] : tip' = x /\ coinsTip' \in {x, Parent[x]}
      BY <2>1
    <3>2. x \in Ancestors[tip] /\ x \in Blocks /\ x # Genesis
      BY <1>1, <1>2, TreeFacts DEF DownTo
    <3>3. Ancestors[x] \subseteq Ancestors[tip] /\ Parent[x] \in Ancestors[x]
      BY <1>2, <3>2, TreeFacts
    <3>4. Ancestors[x] \intersect Invalid = {}
      BY <3>3 DEF ActiveChainSound
    <3> QED
      BY <1>2, <3>1, <3>2, <3>3, <3>4
  <2>2. CASE \E x \in UpTo(t, m) : tip' = Parent[x] /\ coinsTip' \in {x, Parent[x]}
    <3>1. PICK x \in UpTo(t, m) : tip' = Parent[x] /\ coinsTip' \in {x, Parent[x]}
      BY <2>2
    <3>2. x \in ToConnect(m) /\ \A f \in BadOnPath(t, m) : x \in Ancestors[f] /\ x # f
      BY DEF UpTo
    <3>3. /\ x \in Ancestors[m] /\ x \notin Ancestors[tip]
          /\ Ancestors[x] \subseteq Ancestors[m]
          /\ Ancestors[x] \subseteq Ancestors[tip] \union ToConnect(m)
      BY <1>1, <3>2, ConnectClosed
    <3>4. x \in Blocks /\ x # Genesis
      BY <1>1, <1>2, <3>3, TreeFacts
    <3>5. Parent[x] \in Blocks /\ Parent[x] \in Ancestors[x]
          /\ Ancestors[Parent[x]] \subseteq Ancestors[x]
      BY <3>4, TreeFacts
    <3>6. ASSUME NEW y \in Ancestors[Parent[x]], y \in Invalid PROVE FALSE
      <4>1. y \in ToConnect(m)
        BY <3>3, <3>5, <3>6 DEF ActiveChainSound
      <4>2. y \in BadOnPath(t, m)
        BY <3>6, <4>1 DEF BadOnPath
      <4>3. x \in Ancestors[y] /\ x # y /\ y \in Ancestors[x] /\ y \in Blocks
        BY <3>2, <3>5, <4>2, TreeFacts
      <4> QED
        BY <3>4, <4>3, Antisymmetric
    <3> QED
      BY <1>1, <3>1, <3>3, <3>4, <3>5, <3>6
  <2> QED
    BY <2>1, <2>2 DEF ActivateAborts
<1>5. CoinsFollowTip'
  BY <1>3, <1>4 DEF CoinsFollowTip
<1>6. failedValid' \subseteq mapBlockIndex /\ failedChild' \subseteq mapBlockIndex
  BY SweptInIndex DEF TypeOK, ActivateAborts, Stepping
<1>7. candidates' \subseteq chainTx
  BY SweptInIndex DEF ActivateAborts, Prune, TypeOK
<1>8. Return(t) /\ UNCHANGED indexVars
      /\ invalidates' \in 0..MaxInvalidate /\ reconsiders' \in 0..MaxReconsider
  BY DEF ActivateAborts, Stepping, TypeOK
<1>9. aborts' # 0
  BY <1>3
<1> QED
  BY <1>3, <1>4, <1>5, <1>6, <1>7, <1>8, <1>9, ReturnTypes, MovedTip

\* A step that stops at a block whose undo data does not fit.
LEMMA UndoInv ==
    ASSUME IInv, NEW t \in Threads, NEW m \in MostWork, UndoFails(t, m)
    PROVE  IInv'
<1> USE DEF IInv
<1>1. tip \in Blocks /\ Ancestors[tip] \subseteq chainTx
  BY DEF TypeOK, ChainTxClosed
<1>2. tip' \in Ancestors[tip] /\ coinsTip' = tip'
  BY DEF UndoFails
<1>3. Ancestors[tip'] \subseteq Ancestors[tip]
  BY <1>1, <1>2, TreeFacts
<1>4. failedValid' = failedValid /\ failedChild' = SweptChild /\ aborts' = aborts
      /\ candidates' = Swept /\ Return(t) /\ UNCHANGED indexVars /\ UNCHANGED counters
  BY DEF UndoFails, counters
<1>5. aborts' = 0 => Ancestors[tip'] \intersect (failedValid' \union failedChild') = {}
  BY <1>3, <1>4, SweptInIndex DEF ActiveChainSound, Failed
<1>6. CoinsFollowTip'
  BY <1>2 DEF CoinsFollowTip
<1>7. /\ failedValid' \subseteq mapBlockIndex /\ failedChild' \subseteq mapBlockIndex
      /\ candidates' \subseteq chainTx /\ tip' \in chainTx
      /\ Ancestors[tip'] \intersect Invalid = {}
  BY <1>1, <1>2, <1>3, <1>4, SweptInIndex DEF TypeOK, ActiveChainSound
<1>8. invalidates' \in 0..MaxInvalidate /\ reconsiders' \in 0..MaxReconsider
      /\ aborts' \in 0..MaxAborts
  BY <1>4 DEF counters, TypeOK
<1> QED
  BY <1>2, <1>4, <1>5, <1>6, <1>7, <1>8, ReturnTypes, MovedTip

-----------------------------------------------------------------------------
(***************************************************************************)
(* The RPC commands.                                                       *)
(***************************************************************************)
LEMMA ActivateTypes ==
    ASSUME TypeOK, NEW t \in Threads, ThenActivate(t)
    PROVE  /\ pc' \in [Threads -> {"idle", "step", "test", "dead"}]
           /\ mostWork' \in [Threads -> Blocks \union {NoBlock}]
           /\ pblock' \in [Threads -> Blocks \union {NoBlock}]
BY DEF TypeOK, ThenActivate

\* Nothing is disconnected exactly when the block is not active; what is left of
\* the active chain holds no disconnected block.
LEMMA WalkedFacts ==
    ASSUME TypeOK, NEW b \in Blocks, b # Genesis
    PROVE  /\ Walked(b) \subseteq Ancestors[tip]
           /\ Walked(b) = {} => b \notin Ancestors[tip]
           /\ Walked(b) # {} => /\ b \in Ancestors[tip]
                                /\ Ancestors[b] \subseteq Ancestors[tip]
           /\ Walked(b) \intersect Ancestors[Parent[b]] = {}
<1>1. tip \in Blocks
  BY DEF TypeOK
<1>2. Walked(b) # {} => b \in Ancestors[tip] /\ Ancestors[b] \subseteq Ancestors[tip]
  BY <1>1, TreeFacts DEF Walked
<1>3. Walked(b) \intersect Ancestors[Parent[b]] = {}
  BY TreeFacts DEF Walked
<1> QED
  BY <1>2, <1>3, TreeFacts DEF Walked

\* InvalidateBlock disconnects the block it marks and everything above it.
LEMMA InvalidateInv ==
    ASSUME IInv, NEW t \in Threads, NEW b \in Blocks, InvalidateBlock(t, b)
    PROVE  IInv'
<1> USE DEF IInv
<1>1. tip \in Blocks /\ Ancestors[tip] \subseteq chainTx /\ b # Genesis
      /\ b \in mapBlockIndex
  BY DEF TypeOK, ChainTxClosed, InvalidateBlock
<1>2. /\ Parent[b] \in Blocks /\ Ancestors[b] = Ancestors[Parent[b]] \union {b}
      /\ b \notin Ancestors[Parent[b]] /\ Parent[b] \in Ancestors[Parent[b]]
  BY <1>1, TreeFacts
<1>3. failedValid' = failedValid \union {b} /\ failedChild' = failedChild \union Walked(b)
      /\ aborts' = aborts /\ ThenActivate(t) /\ UNCHANGED indexVars
  BY DEF InvalidateBlock
<1>4. failedValid' \subseteq mapBlockIndex /\ failedChild' \subseteq mapBlockIndex
  BY <1>1, <1>3, WalkedFacts DEF TypeOK
<1>5. candidates' \subseteq chainTx
  BY DEF InvalidateBlock, Restored, TypeOK
<1>6. invalidates' \in 0..MaxInvalidate /\ reconsiders' \in 0..MaxReconsider
      /\ aborts' \in 0..MaxAborts
  BY ContentAssumption DEF InvalidateBlock, TypeOK
<1>7. /\ tip' \in chainTx /\ coinsTip' \in chainTx
      /\ Ancestors[tip'] \subseteq Ancestors[tip]
      /\ Ancestors[tip'] \intersect (Walked(b) \union {b}) = {}
      /\ CoinsFollowTip'
  <2>1. CASE Walked(b) = {}
    <3>1. tip' = tip /\ coinsTip' = coinsTip
      BY <2>1 DEF InvalidateBlock
    <3>2. b \notin Ancestors[tip]
      BY <1>1, <2>1, WalkedFacts
    <3>3. CoinsFollowTip'
      BY <1>3, <3>1 DEF CoinsFollowTip
    <3> QED
      BY <2>1, <3>1, <3>2, <3>3 DEF TypeOK
  <2>2. CASE Walked(b) # {}
    <3>1. tip' = Parent[b] /\ coinsTip' = Parent[b]
      BY <2>2 DEF InvalidateBlock
    <3>2. Ancestors[b] \subseteq Ancestors[tip]
          /\ Walked(b) \intersect Ancestors[Parent[b]] = {}
      BY <1>1, <2>2, WalkedFacts
    <3>3. CoinsFollowTip'
      BY <3>1 DEF CoinsFollowTip
    <3> QED
      BY <1>1, <1>2, <3>1, <3>2, <3>3
  <2> QED
    BY <2>1, <2>2
<1>8. Ancestors[tip'] \intersect Invalid = {}
  BY <1>7 DEF ActiveChainSound
<1>9. aborts' = 0 => Ancestors[tip'] \intersect (failedValid' \union failedChild') = {}
  BY <1>3, <1>7 DEF ActiveChainSound, Failed
<1> QED
  BY <1>3, <1>4, <1>5, <1>6, <1>7, <1>8, <1>9, ActivateTypes, MovedTip

\* InvalidateBlock stopped half way leaves a marked tip, but only after a system error.
LEMMA InvalidateFailsInv ==
    ASSUME IInv, NEW t \in Threads, NEW b \in Blocks, InvalidateFails(t, b)
    PROVE  IInv'
<1> USE DEF IInv
<1>1. tip \in Blocks /\ Ancestors[tip] \subseteq chainTx /\ b # Genesis
  BY DEF TypeOK, ChainTxClosed, InvalidateFails
<1>2. PICK x \in Walked(b) :
          /\ failedValid' = failedValid \union {b}
          /\ failedChild' = failedChild \union Walked(x)
          /\ candidates' = candidates \ (Walked(x) \union {b})
          /\ tip' = x /\ coinsTip' \in {x, Parent[x]}
          /\ pc' = pc \/ pc' = [pc EXCEPT ![t] = "step"]
  BY DEF InvalidateFails
<1>3. x \in Ancestors[tip] /\ b \in Ancestors[x] /\ x \in Blocks
  BY <1>1, TreeFacts DEF Walked
<1>4. x # Genesis
  BY <1>1, <1>3, TreeAssumption
<1>5. /\ Ancestors[x] \subseteq Ancestors[tip] /\ Parent[x] \in Ancestors[x]
      /\ b \in Ancestors[tip] /\ Walked(x) \subseteq Ancestors[tip]
  BY <1>1, <1>3, <1>4, TreeFacts DEF Walked
<1>6. aborts' = aborts + 1 /\ aborts' \in 0..MaxAborts /\ aborts' > 0 /\ aborts' # 0
  BY ContentAssumption DEF InvalidateFails, TypeOK
<1>7. CoinsFollowTip'
  BY <1>2, <1>4, <1>6 DEF CoinsFollowTip
<1>8. /\ failedValid' \subseteq mapBlockIndex /\ failedChild' \subseteq mapBlockIndex
      /\ candidates' \subseteq chainTx /\ tip' \in chainTx /\ coinsTip' \in chainTx
  BY <1>1, <1>2, <1>3, <1>5 DEF TypeOK
<1>9. Ancestors[tip'] \intersect Invalid = {}
  BY <1>2, <1>5 DEF ActiveChainSound
<1>10. /\ pc' \in [Threads -> {"idle", "step", "test", "dead"}]
       /\ mostWork' \in [Threads -> Blocks \union {NoBlock}]
       /\ pblock' \in [Threads -> Blocks \union {NoBlock}]
       /\ invalidates' \in 0..MaxInvalidate /\ reconsiders' \in 0..MaxReconsider
  BY <1>2, ContentAssumption DEF InvalidateFails, TypeOK
<1> QED
  BY <1>6, <1>7, <1>8, <1>9, <1>10, MovedTip DEF InvalidateFails

\* Only a failed write, a system error, lets the coins and the tip differ.
LEMMA InvalidateCrashesInv ==
    ASSUME IInv, NEW t \in Threads, NEW b \in Blocks, InvalidateCrashes(t, b)
    PROVE  IInv'
<1> USE DEF IInv
<1>1. tip \in Blocks /\ Ancestors[tip] \subseteq chainTx /\ b # Genesis
      /\ tip \in Ancestors[tip]
  BY TreeFacts DEF TypeOK, ChainTxClosed, InvalidateCrashes
<1>2. b \in Ancestors[tip]
  BY <1>1, WalkedFacts DEF InvalidateCrashes
<1>3. aborts' = aborts /\ aborts # 0 /\ tip' = tip /\ coinsTip' = coinsTip
  BY ContentAssumption DEF InvalidateCrashes, CoinsFollowTip
<1>4. TypeOK'
  BY <1>1, <1>2, ContentAssumption DEF InvalidateCrashes, TypeOK, indexVars
<1>5. ChainTxClosed'
  BY DEF InvalidateCrashes, ChainTxClosed, indexVars
<1> QED
  BY <1>3, <1>4, <1>5, SameTip

\* ReconsiderBlock only clears flags and adds linked blocks to the candidates.
LEMMA ReconsiderInv ==
    ASSUME IInv, NEW t \in Threads, NEW b \in Blocks, ReconsiderBlock(t, b)
    PROVE  IInv'
<1> USE DEF IInv
<1>1. /\ failedValid' \subseteq failedValid /\ failedChild' \subseteq failedChild
      /\ candidates' \subseteq chainTx
  BY DEF ReconsiderBlock, TypeOK
<1>2. TypeOK'
  BY <1>1, ActivateTypes, ContentAssumption DEF ReconsiderBlock, TypeOK, indexVars
<1>3. ChainTxClosed'
  BY DEF ChainTxClosed, ReconsiderBlock, indexVars
<1> QED
  BY <1>1, <1>2, <1>3, SameTip DEF ReconsiderBlock, Failed

-----------------------------------------------------------------------------
(***************************************************************************)
(* The index: which entries are linked, which wait, which are marked.      *)
(***************************************************************************)
\* An entry that waits is not linked.
HeldBack == unlinked \intersect chainTx = {}

\* Linked entries have different sequence ids, all given out.
Distinct ==
    /\ \A x \in chainTx : nSequenceId[x] < nBlockSequenceId
    /\ \A x, y \in chainTx : nSequenceId[x] = nSequenceId[y] => x = y

\* Nothing that waits on b's chain can have been dropped for a mark: there is none, or
\* no command has set it and the marked blocks are stored.
Clear(b) ==
    \/ Ancestors[b] \intersect failedValid = {}
    \/ invalidates = 0 /\ Ancestors[b] \intersect failedValid \subseteq haveData

\* Marks that no command has set are on linked blocks or on blocks without data; a block
\* that is stored and not linked waits; and one does not wait when all is there.
Waiting ==
    reconsiders = 0 =>
        /\ invalidates = 0 => /\ failedValid \intersect haveData \subseteq chainTx
                              /\ failedChild \subseteq chainTx
        /\ \A x \in haveData \ chainTx : Clear(x) => x \in unlinked
        /\ \A x \in Blocks : Clear(x) /\ Ancestors[x] \subseteq haveData => x \in chainTx

IndexInv == HeldBack /\ Distinct /\ FailedHaveFailedAncestor /\ Waiting

\* What FindMostWorkChain marks stands above a block that was marked before.
LEMMA SweptAboveFailed ==
    ASSUME TypeOK, NEW z \in SweptPath
    PROVE  z \in Blocks /\ \E y \in Ancestors[z] : y \in Failed
<1>1. PICK c \in FailedMet : z \in FailedPath(c)
  BY DEF SweptPath
<1>2. c \in Blocks /\ HasFailed(c)
  BY DEF FailedMet, TypeOK
<1>3. PICK y \in NewPath(c) : y \in Failed
  BY <1>2 DEF HasFailed
<1>4. y \in Ancestors[c] /\ z \in Ancestors[c] /\ z \in NewPath(c) /\ z \in Blocks
  BY <1>1, <1>2, TreeFacts DEF FailedPath, NewPath
<1>5. ~(z # y /\ z \in Ancestors[y])
  BY <1>1, <1>3, <1>4 DEF FailedPath
<1>6. y \in Ancestors[z]
  BY <1>2, <1>4, <1>5, Comparable, TreeFacts
<1> QED
  BY <1>3, <1>4, <1>6

\* The sweep marks linked blocks only, each above a block that is marked.
LEMMA SweptMarks ==
    ASSUME IInv, FailedHaveFailedAncestor
    PROVE  /\ SweptPath \subseteq chainTx
           /\ reconsiders = 0 => \A x \in SweptChild : Ancestors[x] \intersect failedValid # {}
<1> USE DEF IInv
<1>1. SweptPath \subseteq chainTx
  <2>1. ASSUME NEW c \in FailedMet PROVE FailedPath(c) \subseteq chainTx
    BY DEF FailedMet, FailedPath, NewPath, TypeOK, ChainTxClosed
  <2> QED
    BY <2>1 DEF SweptPath
<1>2. ASSUME reconsiders = 0, NEW x \in SweptChild
      PROVE  Ancestors[x] \intersect failedValid # {}
  <2>1. CASE x \in failedChild
    BY <1>2, <2>1 DEF FailedHaveFailedAncestor, Failed
  <2>2. CASE x \in SweptPath
    <3>1. PICK y \in Ancestors[x] : x \in Blocks /\ y \in Failed
      BY <2>2, SweptAboveFailed
    <3>2. Ancestors[y] \subseteq Ancestors[x] /\ Ancestors[y] \intersect failedValid # {}
      BY <1>2, <3>1, TreeFacts DEF FailedHaveFailedAncestor
    <3> QED
      BY <3>2
  <2> QED
    BY <2>1, <2>2 DEF SweptChild
<1> QED
  BY <1>1, <1>2

\* A step that only sets marks, each on or above a block that is marked as invalid.
LEMMA MarksKept ==
    ASSUME IInv, IndexInv,
           UNCHANGED <<haveData, chainTx, nSequenceId, nBlockSequenceId, unlinked>>,
           reconsiders' = reconsiders, invalidates' \in {invalidates, invalidates + 1},
           failedValid \subseteq failedValid',
           reconsiders = 0 => \A x \in failedChild' : Ancestors[x] \intersect failedValid' # {},
           failedValid' \subseteq Blocks,
           invalidates' = 0 => /\ failedValid' \intersect haveData \subseteq failedValid \union chainTx
                               /\ failedChild' \subseteq failedChild \union chainTx
    PROVE  IndexInv'
<1> USE DEF IInv, IndexInv
<1>1. HeldBack' /\ Distinct'
  BY DEF HeldBack, Distinct
<1>2. FailedHaveFailedAncestor'
  <2>1. \A x \in failedValid' : x \in Ancestors[x]
    BY TreeFacts
  <2> QED
    BY <2>1 DEF FailedHaveFailedAncestor, Failed
<1>3. ASSUME reconsiders' = 0 PROVE Waiting'
  <2>1. invalidates' = 0 => invalidates = 0
    BY DEF TypeOK
  <2>2. ASSUME NEW x, Clear(x)' PROVE Clear(x)
    BY <2>1, <2>2 DEF Clear
  <2> QED
    BY <1>3, <2>1, <2>2 DEF Waiting
<1> QED
  BY <1>1, <1>2, <1>3 DEF Waiting

\* ... as every step of ActivateBestChain does.
LEMMA SweepKept ==
    ASSUME IInv, IndexInv, UNCHANGED indexVars, UNCHANGED <<invalidates, reconsiders>>,
           failedChild' = SweptChild,
           failedValid' = failedValid \/ \E f \in chainTx : failedValid' = failedValid \union {f}
    PROVE  IndexInv'
<1>1. /\ SweptPath \subseteq chainTx
      /\ reconsiders = 0 => \A x \in SweptChild : Ancestors[x] \intersect failedValid # {}
  BY SweptMarks DEF IndexInv
<1>2. failedChild' \subseteq failedChild \union chainTx
  BY <1>1 DEF SweptChild
<1>3. failedValid' \subseteq failedValid \union chainTx /\ failedValid' \subseteq Blocks
  BY DEF IInv, TypeOK
<1> QED
  BY <1>1, <1>2, <1>3, MarksKept DEF indexVars

\* Storing a block whose parent is not linked: it waits, unless the parent is marked.
LEMMA QueuedKept ==
    ASSUME IInv, IndexInv, NEW b \in Blocks, b \notin haveData, b \notin Failed,
           Parent[b] \notin chainTx, b # Genesis,
           haveData' = haveData \union {b}, unlinked' = Queued(b),
           UNCHANGED <<failedValid, failedChild, chainTx, nSequenceId, nBlockSequenceId,
                       invalidates, reconsiders>>
    PROVE  IndexInv'
<1> USE DEF IInv, IndexInv
<1>1. b \notin chainTx /\ b \notin failedValid
  BY DEF TypeOK, Failed
<1>2. HeldBack' /\ Distinct' /\ FailedHaveFailedAncestor'
  BY <1>1 DEF HeldBack, Distinct, FailedHaveFailedAncestor, Queued, Failed
<1>3. ASSUME NEW x PROVE Clear(x)' <=> Clear(x)
  BY <1>1 DEF Clear
<1>4. ASSUME reconsiders = 0 PROVE Waiting'
  <2>1. /\ Parent[b] \in Blocks /\ Ancestors[b] = Ancestors[Parent[b]] \union {b}
        /\ b \notin Ancestors[Parent[b]] /\ Parent[b] \in Ancestors[Parent[b]]
    BY TreeFacts
  <2>2. Clear(b) => Parent[b] \notin Failed
    <3>1. SUFFICES ASSUME Clear(b), Parent[b] \in Failed PROVE FALSE
      OBVIOUS
    <3>2. Ancestors[Parent[b]] \intersect failedValid # {}
      BY <1>4, <3>1 DEF FailedHaveFailedAncestor
    <3>3. invalidates = 0 /\ Ancestors[b] \intersect failedValid \subseteq haveData
      BY <2>1, <3>1, <3>2 DEF Clear
    <3>4. failedValid \intersect haveData \subseteq chainTx /\ failedChild \subseteq chainTx
      BY <1>4, <3>3 DEF Waiting
    <3> QED
      BY <2>1, <3>1, <3>3, <3>4 DEF Failed
  <2>3. ASSUME NEW x \in haveData' \ chainTx', Clear(x) PROVE x \in unlinked'
    BY <1>4, <2>2, <2>3 DEF Waiting, Queued
  <2>4. ASSUME NEW x \in Blocks, Clear(x), Ancestors[x] \subseteq haveData' PROVE x \in chainTx
    <3>1. CASE b \notin Ancestors[x]
      BY <1>4, <2>4, <3>1 DEF Waiting
    <3>2. CASE b \in Ancestors[x]
      <4>1. Ancestors[Parent[b]] \subseteq Ancestors[x] \ {b}
        BY <2>1, <3>2, TreeFacts
      <4>2. Ancestors[Parent[b]] \subseteq haveData /\ Clear(Parent[b])
        BY <2>4, <4>1 DEF Clear
      <4> QED
        BY <1>4, <2>1, <4>2 DEF Waiting
    <3> QED
      BY <3>1, <3>2
  <2> QED
    BY <1>1, <1>3, <1>4, <2>3, <2>4 DEF Waiting
<1> QED
  BY <1>2, <1>4 DEF Waiting

\* Storing a block whose parent is linked: with it everything is linked that has waited for
\* it alone, under sequence ids that nobody has.
LEMMA LinkedKept ==
    ASSUME IInv, IndexInv, NEW b \in Blocks, b \notin haveData, b \notin Failed,
           Parent[b] \in chainTx, b # Genesis,
           NEW order \in LinkOrders(NewlyLinked(b)),
           haveData' = haveData \union {b}, unlinked' = unlinked \ NewlyLinked(b),
           chainTx' = chainTx \union NewlyLinked(b),
           nSequenceId' = [x \in Blocks |->
               IF x \in NewlyLinked(b) THEN nBlockSequenceId + order[x] - 1
                                       ELSE nSequenceId[x]],
           nBlockSequenceId' = nBlockSequenceId + Cardinality(NewlyLinked(b)),
           UNCHANGED <<failedValid, failedChild, invalidates, reconsiders>>
    PROVE  IndexInv' /\ NewlyLinked(b) \intersect chainTx = {}
<1> USE DEF IInv, IndexInv
<1> DEFINE linked == NewlyLinked(b)
<1>1. b \notin chainTx /\ b \notin failedValid /\ b \in linked /\ linked \subseteq unlinked \union {b}
  BY TreeFacts DEF TypeOK, Failed, NewlyLinked
<1>2. linked \intersect chainTx = {} /\ linked \subseteq Blocks
  BY <1>1 DEF HeldBack, TypeOK
<1>3. HeldBack' /\ FailedHaveFailedAncestor'
  BY DEF HeldBack, FailedHaveFailedAncestor, Failed
<1>4. Distinct'
  <2>1. Cardinality(linked) \in Nat
    BY <1>2, TreeAssumption, FS_Subset, FS_CardinalityType
  <2>2. /\ \A x \in linked : order[x] \in 1..Cardinality(linked)
        /\ \A x, y \in linked : order[x] = order[y] => x = y
    BY DEF LinkOrders
  <2> HIDE DEF linked
  <2>3. /\ \A x \in chainTx : nSequenceId'[x] = nSequenceId[x] /\ nSequenceId[x] \in Nat
        /\ \A x \in linked : nSequenceId'[x] = nBlockSequenceId + order[x] - 1
        /\ nBlockSequenceId \in Nat
    BY <1>2 DEF TypeOK, linked
  <2>4. \A x \in linked : /\ nBlockSequenceId <= nSequenceId'[x]
                          /\ nSequenceId'[x] < nBlockSequenceId + Cardinality(linked)
    BY <2>1, <2>2, <2>3
  <2>5. \A x \in chainTx : nSequenceId'[x] < nBlockSequenceId
    BY <2>3 DEF Distinct
  <2>6. \A x \in linked : nSequenceId'[x] \in Int
    BY <2>1, <2>2, <2>3
  <2>7. \A x \in chainTx' : nSequenceId'[x] < nBlockSequenceId'
    BY <2>1, <2>3, <2>4, <2>5 DEF linked
  <2>8. ASSUME NEW x \in chainTx', NEW y \in chainTx', nSequenceId'[x] = nSequenceId'[y]
        PROVE  x = y
    <3>1. CASE x \in linked /\ y \in linked
      <4>1. nBlockSequenceId + order[x] - 1 = nBlockSequenceId + order[y] - 1
        BY <2>3, <2>8, <3>1
      <4>2. order[x] \in Int /\ order[y] \in Int /\ nBlockSequenceId \in Int
        BY <2>1, <2>2, <2>3, <3>1
      <4>3. order[x] = order[y]
        BY <4>1, <4>2
      <4> QED
        BY <2>2, <3>1, <4>3
    <3>2. CASE x \in chainTx /\ y \in chainTx
      BY <2>3, <2>8, <3>2 DEF Distinct
    <3>3. CASE x \in linked /\ y \in chainTx
      BY <2>3, <2>4, <2>5, <2>6, <2>8, <3>3
    <3>4. CASE x \in chainTx /\ y \in linked
      <4>1. nSequenceId'[x] < nBlockSequenceId /\ nBlockSequenceId <= nSequenceId'[y]
        BY <2>4, <2>5, <3>4
      <4>2. nSequenceId'[y] \in Int /\ nBlockSequenceId \in Int
        BY <2>3, <2>6, <3>4
      <4> QED
        BY <2>8, <4>1, <4>2
    <3> QED
      BY <3>1, <3>2, <3>3, <3>4 DEF linked
  <2> QED
    BY <2>7, <2>8 DEF Distinct
<1>5. ASSUME NEW x PROVE Clear(x)' <=> Clear(x)
  BY <1>1 DEF Clear
<1>6. ASSUME reconsiders = 0 PROVE Waiting'
  <2>1. ASSUME NEW x \in haveData' \ chainTx', Clear(x) PROVE x \in unlinked'
    BY <1>1, <1>6, <2>1 DEF Waiting
  <2>2. ASSUME NEW x \in Blocks, Clear(x), Ancestors[x] \subseteq haveData' PROVE x \in chainTx'
    <3>1. CASE b \notin Ancestors[x]
      BY <1>6, <2>2, <3>1 DEF Waiting
    <3>2. CASE b \in Ancestors[x]
      <4>1. ASSUME NEW y \in Ancestors[x] \ Ancestors[b] PROVE y \in unlinked
        <5>1. y \in Blocks /\ b \in Ancestors[b] /\ Ancestors[y] \subseteq Ancestors[x]
          BY <4>1, TreeFacts
        <5>2. b \in Ancestors[y]
          BY <3>2, <4>1, Comparable
        <5>3. y \in haveData /\ y \notin chainTx
          BY <1>1, <2>2, <5>1, <5>2, <4>1 DEF ChainTxClosed
        <5>4. Clear(y)
          BY <2>2, <5>1 DEF Clear
        <5> QED
          BY <1>6, <5>3, <5>4 DEF Waiting
      <4>2. x = b \/ x \notin Ancestors[b]
        BY <3>2, Antisymmetric
      <4>3. x \in Ancestors[x]
        BY TreeFacts
      <4>4. x \in NewlyLinked(b)
        BY <3>2, <4>1, <4>2, <4>3 DEF NewlyLinked
      <4> QED
        BY <4>4
    <3> QED
      BY <3>1, <3>2
  <2>3. invalidates = 0 => /\ failedValid \intersect haveData' \subseteq chainTx'
                           /\ failedChild \subseteq chainTx'
    BY <1>1, <1>6 DEF Waiting
  <2> QED
    BY <1>5, <1>6, <2>1, <2>2, <2>3 DEF Waiting
<1>7. IndexInv'
  BY <1>3, <1>4, <1>6 DEF Waiting
<1> QED
  BY <1>2, <1>7

\* What storing a block does, with the blocks that it links named.
LEMMA StoredKept ==
    ASSUME IInv, IndexInv, NEW b \in Blocks, b \notin haveData, b \notin Failed,
           ReceivedBlockTransactions(b),
           UNCHANGED <<failedValid, failedChild, invalidates, reconsiders>>
    PROVE  IndexInv'
<1>1. b # Genesis
  BY GenesisStored
<1>2. CASE Parent[b] \in chainTx
  BY <1>1, <1>2, LinkedKept DEF ReceivedBlockTransactions
<1>3. CASE Parent[b] \notin chainTx
  BY <1>1, <1>3, QueuedKept DEF ReceivedBlockTransactions
<1> QED
  BY <1>2, <1>3

LEMMA InitIndex == Init => IndexInv
<1> SUFFICES ASSUME Init PROVE IndexInv
  OBVIOUS
<1>1. Genesis \in Blocks /\ chainTx = {Genesis} /\ nSequenceId[Genesis] = 1
      /\ nBlockSequenceId = 2
  BY TreeAssumption DEF Init
<1>2. ASSUME NEW x \in Blocks, Ancestors[x] \subseteq {Genesis} PROVE x \in chainTx
  BY <1>1, <1>2, TreeFacts
<1> QED
  BY <1>1, <1>2 DEF Init, IndexInv, HeldBack, Distinct, FailedHaveFailedAncestor, Waiting, Failed

\* InvalidateBlock, also when it stops half way: it marks b, and some blocks above b.
LEMMA CommandKept ==
    ASSUME IInv, IndexInv, NEW b \in Blocks, NEW S \in SUBSET Walked(b),
           UNCHANGED indexVars, invalidates' = invalidates + 1, reconsiders' = reconsiders,
           failedValid' = failedValid \union {b}, failedChild' = failedChild \union S
    PROVE  IndexInv'
<1>1. invalidates' # 0 /\ failedValid' \subseteq Blocks
  BY DEF IInv, TypeOK
<1>2. reconsiders = 0 => \A x \in failedChild' : Ancestors[x] \intersect failedValid' # {}
  BY DEF IndexInv, FailedHaveFailedAncestor, Failed, Walked
<1> QED
  BY <1>1, <1>2, MarksKept DEF indexVars

\* Every step of every thread keeps the index in this order.
LEMMA NextIndex == IInv /\ IndexInv /\ [Next]_vars => IndexInv'
<1> SUFFICES ASSUME IInv, IndexInv, [Next]_vars PROVE IndexInv'
  OBVIOUS
<1>1. ASSUME NEW t \in Threads, Activate(t) PROVE IndexInv'
  <2>1. CASE ActivateNothing(t)
    BY <2>1, SweepKept DEF ActivateNothing, counters
  <2>2. CASE LoopTest(t)
    BY <2>2 DEF LoopTest, indexVars, counters, IndexInv, HeldBack, Distinct,
                FailedHaveFailedAncestor, Waiting, Failed, Clear
  <2>3. ASSUME NEW m \in MostWork \ {tip}, ActivateStep(t, m) PROVE IndexInv'
    BY <2>3, SweepKept DEF ActivateStep, Stepping, counters
  <2>4. ASSUME NEW m \in MostWork \ {tip}, ActivateInvalid(t, m) PROVE IndexInv'
    <3>1. PICK f \in BadOnPath(t, m) : failedValid' \in {failedValid, failedValid \union {f}}
      BY <2>4 DEF ActivateInvalid, InvalidBlockFound
    <3>2. f \in chainTx
      BY TargetLinked DEF IInv, BadOnPath, ToConnect, NewPath
    <3> QED
      BY <2>4, <3>1, <3>2, SweepKept DEF ActivateInvalid, Stepping, counters
  <2>5. ASSUME NEW m \in MostWork \ {tip}, UndoFails(t, m) PROVE IndexInv'
    BY <2>5, SweepKept DEF UndoFails, counters
  <2>6. ASSUME NEW m \in MostWork \ {tip}, Diverged(t, m) PROVE IndexInv'
    BY <2>6, SweepKept DEF Diverged, counters
  <2> QED
    BY <1>1, <2>1, <2>2, <2>3, <2>4, <2>5, <2>6 DEF Activate
<1>2. ASSUME NEW t \in Threads, Aborting(t) PROVE IndexInv'
  BY <1>2, SweepKept DEF Aborting, ActivateAborts, Stepping
<1>3. ASSUME NEW t \in Threads, NEW b \in Blocks, Receive(t, b) PROVE IndexInv'
  <2>1. CASE AcceptBlockHeader(t, b)
    BY <2>1 DEF AcceptBlockHeader, counters, IndexInv, HeldBack, Distinct,
                FailedHaveFailedAncestor, Waiting, Failed, Clear
  <2>2. CASE ProcessNewBlock(t, b)
    <3>1. CASE b \in haveData
      BY <2>2, <3>1 DEF ProcessNewBlock, AcceptBlock, counters, IndexInv, HeldBack, Distinct,
                        FailedHaveFailedAncestor, Waiting, Failed, Clear
    <3>2. CASE b \notin haveData
      BY <2>2, <3>2, StoredKept DEF ProcessNewBlock, AcceptBlock, counters
    <3> QED
      BY <3>1, <3>2
  <2>3. CASE RejectBlock(t, b)
    <3>1. reconsiders = 0 => \A x \in failedChild' : Ancestors[x] \intersect failedValid' # {}
      BY <2>3 DEF RejectBlock, IndexInv, FailedHaveFailedAncestor, Failed
    <3>2. failedValid' \subseteq Blocks
      BY <2>3 DEF RejectBlock, IInv, TypeOK
    <3> QED
      BY <2>3, <3>1, <3>2, MarksKept DEF RejectBlock, counters
  <2> QED
    BY <1>3, <2>1, <2>2, <2>3 DEF Receive
<1>4. ASSUME NEW t \in Threads, NEW b \in Blocks, Rpc(t, b) PROVE IndexInv'
  <2>1. CASE InvalidateBlock(t, b)
    BY <2>1, CommandKept DEF InvalidateBlock
  <2>2. CASE InvalidateFails(t, b)
    <3>1. PICK x \in Walked(b) : failedValid' = failedValid \union {b}
                                 /\ failedChild' = failedChild \union Walked(x)
      BY <2>2 DEF InvalidateFails
    <3>2. Walked(x) \subseteq Walked(b)
      BY TreeFacts DEF Walked, IInv, TypeOK
    <3> QED
      BY <2>2, <3>1, <3>2, CommandKept DEF InvalidateFails
  <2>3. CASE InvalidateCrashes(t, b)
    <3>1. tip \in Walked(b)
      BY <2>3, WalkedFacts, TreeFacts DEF InvalidateCrashes, Walked, IInv, TypeOK
    <3> QED
      BY <2>3, <3>1, CommandKept DEF InvalidateCrashes
  <2>4. CASE ReconsiderBlock(t, b)
    <3>1. reconsiders' # 0 /\ UNCHANGED indexVars
      BY <2>4 DEF ReconsiderBlock, IInv, TypeOK
    <3> QED
      BY <3>1 DEF indexVars, IndexInv, HeldBack, Distinct, FailedHaveFailedAncestor, Waiting
  <2> QED
    BY <1>4, <2>1, <2>2, <2>3, <2>4 DEF Rpc
<1>5. CASE UNCHANGED vars
  BY <1>5 DEF vars, IndexInv, HeldBack, Distinct, FailedHaveFailedAncestor, Waiting, Failed, Clear
<1> QED
  BY <1>1, <1>2, <1>3, <1>4, <1>5 DEF Next, Terminated

-----------------------------------------------------------------------------
(***************************************************************************)
(* The choice: CBlockIndexWorkComparator, FindMostWorkChain and the        *)
(* candidates.                                                             *)
(***************************************************************************)
\* CBlockIndexWorkComparator is a strict weak ordering.
LEMMA WorseOrder ==
    ASSUME NEW seq \in [Blocks -> Nat], NEW x \in Blocks, NEW y \in Blocks, NEW z \in Blocks
    PROVE  /\ ~Worse(x, x, seq)
           /\ Worse(x, y, seq) => ~Worse(y, x, seq)
           /\ ~Worse(x, y, seq) /\ ~Worse(y, z, seq) => ~Worse(x, z, seq)
           /\ Worse(x, y, seq) /\ Worse(y, z, seq) => Worse(x, z, seq)
<1>1. /\ ChainWork[x] \in Nat /\ ChainWork[y] \in Nat /\ ChainWork[z] \in Nat
      /\ seq[x] \in Nat /\ seq[y] \in Nat /\ seq[z] \in Nat
  BY WorkAssumption
<1> QED
  BY <1>1 DEF Worse

\* A block sorts before all blocks above it.
LEMMA AncestorWorse ==
    ASSUME NEW seq \in [Blocks -> Nat], NEW y \in Blocks, NEW x \in Ancestors[y]
    PROVE  ~Worse(y, x, seq)
<1>1. x \in Blocks /\ y \in Ancestors[y]
  BY TreeFacts
<1>2. ChainWork[x] <= ChainWork[y] /\ (ChainWork[x] = ChainWork[y] => x = y)
  BY <1>1, WorkAssumption
<1>3. ChainWork[x] \in Nat /\ ChainWork[y] \in Nat /\ seq[x] \in Nat /\ seq[y] \in Nat
  BY <1>1, WorkAssumption
<1> QED
  BY <1>2, <1>3 DEF Worse

\* Of two linked blocks one sorts before the other.
LEMMA WorseTotal ==
    ASSUME TypeOK, Distinct, NEW x \in chainTx, NEW y \in chainTx,
           ~Worse(x, y, nSequenceId), ~Worse(y, x, nSequenceId)
    PROVE  x = y
<1>1. /\ ChainWork[x] \in Nat /\ ChainWork[y] \in Nat
      /\ nSequenceId[x] \in Nat /\ nSequenceId[y] \in Nat
  BY WorkAssumption DEF TypeOK
<1>2. nSequenceId[x] = nSequenceId[y]
  BY <1>1 DEF Worse
<1> QED
  BY <1>2 DEF Distinct

\* setBlockIndexCandidates.rbegin(): linked blocks have a best one.
LEMMA BestExists ==
    ASSUME TypeOK, Distinct, NEW S \in SUBSET chainTx, S # {}
    PROVE  Best(S) # {}
<1> DEFINE Above(x) == {y \in Blocks : Worse(x, y, nSequenceId)}
           T == {Above(x) : x \in S}
<1>1. S \subseteq Blocks /\ nSequenceId \in [Blocks -> Nat]
  BY DEF TypeOK
<1>2. T \subseteq FiniteSubsetsOf(Blocks) /\ T # {}
  <2>1. FiniteSubsetsOf(Blocks) = SUBSET Blocks
    BY TreeAssumption, FS_FiniteSubsetsOfFinite
  <2>2. T \subseteq SUBSET Blocks
    OBVIOUS
  <2>3. PICK x \in S : Above(x) \in T
    OBVIOUS
  <2> QED
    BY <2>1, <2>2, <2>3
<1>3. PICK t \in T : \A u \in T : ~(<<u, t>> \in StrictSubsetOrdering(Blocks))
  <2>1. IsWellFoundedOn(StrictSubsetOrdering(Blocks), FiniteSubsetsOf(Blocks))
    BY FS_StrictSubsetOrderingWellFounded
  <2> HIDE DEF T
  <2> QED
    BY <1>2, <2>1, WFMin
<1>4. PICK m \in S : t = Above(m)
  BY <1>3
<1>5. ASSUME NEW c \in S PROVE ~Worse(m, c, nSequenceId)
  <2>1. SUFFICES ASSUME Worse(m, c, nSequenceId) PROVE FALSE
    OBVIOUS
  <2>2. \A y \in Blocks : Worse(c, y, nSequenceId) => Worse(m, y, nSequenceId)
    BY <1>1, <2>1, WorseOrder
  <2>3. ~Worse(c, c, nSequenceId)
    BY <1>1, WorseOrder
  <2>4. Above(c) \subseteq Above(m) /\ c \in Above(m) /\ c \notin Above(c)
    BY <1>1, <2>1, <2>2, <2>3
  <2>5. Above(c) \in T /\ <<Above(c), t>> \in StrictSubsetOrdering(Blocks)
    BY <2>4, <1>4 DEF StrictSubsetOrdering
  <2> QED
    BY <2>5, <1>3
<1>6. ASSUME NEW c \in S, ~Worse(c, m, nSequenceId) PROVE c = m
  BY <1>5, <1>6, WorseTotal
<1>7. m \in Best(S)
  BY <1>6 DEF Best
<1> QED
  BY <1>7

\* No candidate sorts worse than the tip.
NoneWorse == \A c \in candidates : ~Worse(c, tip, nSequenceId)

\* From some valid block upwards, the candidates are complete.  It can be above the tip:
\* between the steps of a reorganisation the tip may have less work than before.
IsFloor(r) ==
    /\ Eligible(r) /\ Ancestors[r] \intersect Invalid = {}
    /\ ~Worse(r, tip, nSequenceId)
    /\ \A b \in chainTx : Eligible(b) /\ ~Worse(b, r, nSequenceId) => b \in candidates
Floor == reconsiders = 0 /\ aborts = 0 => \E r \in chainTx : IsFloor(r)

\* The tip is the best block, or a thread will look for a better one.
BestTip == \A b \in chainTx : Eligible(b) => b = tip \/ Worse(b, tip, nSequenceId)
Pending == \E t \in Threads : pc[t] = "step" \/ (pc[t] = "test" /\ mostWork[t] # tip)
Busy ==
    reconsiders = 0 /\ aborts = 0 /\ Ancestors[tip] \intersect Damaged = {} =>
        BestTip \/ Pending

ChoiceInv == NoneWorse /\ Floor /\ Busy

\* A block that could be the tip has no mark on its chain, and is not swept.
LEMMA EligibleClean ==
    ASSUME IInv, FailedHaveFailedAncestor, reconsiders = 0, NEW b \in chainTx, Eligible(b)
    PROVE  /\ Ancestors[b] \intersect Failed = {} /\ b \notin Failed
           /\ ~HasFailed(b) /\ b \notin SweptPath
<1> USE DEF IInv
<1>1. b \in Blocks /\ b \in Ancestors[b]
  BY TreeFacts DEF TypeOK
<1>2. Ancestors[b] \intersect Failed = {}
  <2>1. ASSUME NEW x \in Ancestors[b] PROVE Ancestors[x] \subseteq Ancestors[b]
    BY <1>1, TreeFacts
  <2> QED
    BY <2>1 DEF Eligible, FailedHaveFailedAncestor
<1>3. b \notin SweptPath
  BY <1>2, SweptAboveFailed
<1> QED
  BY <1>1, <1>2, <1>3 DEF HasFailed, NewPath

\* FindMostWorkChain returns the best of all blocks that could be the tip, although it
\* looks at the candidates only.
LEMMA TargetBest ==
    ASSUME IInv, IndexInv, Floor, reconsiders = 0, aborts = 0
    PROVE  /\ MostWork # {}
           /\ \A m \in MostWork : \A b \in chainTx :
                  Eligible(b) => b = m \/ Worse(b, m, nSequenceId)
<1> USE DEF IInv, IndexInv
<1> DEFINE S == {c \in candidates : ~HasFailed(c)}
<1>1. nSequenceId \in [Blocks -> Nat] /\ chainTx \subseteq Blocks /\ S \subseteq chainTx
  BY DEF TypeOK
<1>2. PICK r \in chainTx : IsFloor(r)
  BY DEF Floor
<1>3. r \in S
  <2>1. ~Worse(r, r, nSequenceId)
    BY <1>1, WorseOrder
  <2> QED
    BY <1>2, <2>1, EligibleClean DEF IsFloor
<1>4. MostWork # {}
  <2> HIDE DEF S
  <2>1. Best(S) # {}
    BY <1>1, <1>3, BestExists
  <2> QED
    BY <2>1 DEF MostWork, S
<1>5. ASSUME NEW m \in MostWork, NEW b \in chainTx, Eligible(b)
      PROVE  b = m \/ Worse(b, m, nSequenceId)
  <2>1. m \in chainTx /\ \A c \in S : c = m \/ Worse(c, m, nSequenceId)
    BY <1>1 DEF MostWork, Best
  <2>2. CASE Worse(b, r, nSequenceId)
    BY <1>1, <1>3, <2>1, <2>2, WorseOrder
  <2>3. CASE ~Worse(b, r, nSequenceId)
    <3>1. b \in S
      BY <1>2, <1>5, <2>3, EligibleClean DEF IsFloor
    <3> QED
      BY <2>1, <3>1
  <2> QED
    BY <2>2, <2>3
<1> QED
  BY <1>4, <1>5

\* A step keeps the candidates in order with respect to the tip.
LEMMA NoneWorseKept ==
    ASSUME IInv, NoneWorse, nSequenceId' = nSequenceId,
           tip' \in Blocks, candidates' \subseteq Blocks,
           \A c \in candidates' : ~Worse(c, tip', nSequenceId) \/ c \in candidates,
           tip' \in Ancestors[tip] \/ \A c \in candidates' : ~Worse(c, tip', nSequenceId)
    PROVE  NoneWorse'
<1>1. nSequenceId \in [Blocks -> Nat] /\ tip \in Blocks
  BY DEF IInv, TypeOK
<1>2. ASSUME NEW c \in candidates', c \in candidates, tip' \in Ancestors[tip]
      PROVE  ~Worse(c, tip', nSequenceId)
  <2>1. ~Worse(c, tip, nSequenceId) /\ ~Worse(tip, tip', nSequenceId)
    BY <1>1, <1>2, AncestorWorse DEF NoneWorse
  <2> QED
    BY <1>1, <1>2, <2>1, WorseOrder
<1> QED
  BY <1>2 DEF NoneWorse

\* A step that keeps the valid candidates that are not worse than its tip.
LEMMA FloorKept ==
    ASSUME IInv, IInv', UNCHANGED <<chainTx, nSequenceId>>, aborts' = 0,
           failedValid \subseteq failedValid',
           NEW r \in chainTx, IsFloor(r), Ancestors[r] \intersect failedValid' = {},
           \A b \in candidates : Eligible(b)' /\ ~Worse(b, tip', nSequenceId) => b \in candidates'
    PROVE  Floor'
<1>1. /\ nSequenceId \in [Blocks -> Nat] /\ chainTx \subseteq Blocks /\ tip' \in chainTx
      /\ tip' \in Blocks /\ r \in Blocks
  BY DEF IInv, TypeOK
<1>2. Eligible(tip)' /\ Ancestors[tip'] \intersect Invalid = {}
  BY <1>1 DEF IInv, ActiveChainSound, Eligible, Failed
<1>3. Eligible(r)' /\ Ancestors[r] \intersect Invalid = {}
  BY DEF Eligible, IsFloor
<1>4. \A b \in chainTx : Eligible(b)' => Eligible(b)
  BY DEF Eligible
<1>5. CASE Worse(r, tip', nSequenceId)
  <2>1. ~Worse(tip', tip', nSequenceId) /\ ~Worse(tip', r, nSequenceId)
    BY <1>1, <1>5, WorseOrder
  <2>2. ASSUME NEW b \in chainTx, Eligible(b)', ~Worse(b, tip', nSequenceId)
        PROVE  b \in candidates'
    <3>1. ~Worse(b, r, nSequenceId)
      BY <1>1, <2>1, <2>2, WorseOrder
    <3> QED
      BY <1>4, <2>2, <3>1 DEF IsFloor
  <2>3. IsFloor(tip)'
    BY <1>2, <2>1, <2>2 DEF IsFloor
  <2> QED
    BY <1>1, <2>3 DEF Floor
<1>6. CASE ~Worse(r, tip', nSequenceId)
  <2>1. ASSUME NEW b \in chainTx, Eligible(b)', ~Worse(b, r, nSequenceId)
        PROVE  b \in candidates'
    <3>1. ~Worse(b, tip', nSequenceId)
      BY <1>1, <1>6, <2>1, WorseOrder
    <3> QED
      BY <1>4, <2>1, <3>1 DEF IsFloor
  <2>2. IsFloor(r)'
    BY <1>3, <1>6, <2>1 DEF IsFloor
  <2> QED
    BY <2>2 DEF Floor
<1> QED
  BY <1>5, <1>6

LEMMA InitChoice == Init => ChoiceInv
<1> SUFFICES ASSUME Init PROVE ChoiceInv
  OBVIOUS
<1>1. Ancestors[Genesis] = {Genesis} /\ Genesis \in Blocks /\ Genesis \notin Invalid
      /\ nSequenceId \in [Blocks -> Nat]
  BY TreeAssumption, ContentAssumption DEF Init
<1>2. ~Worse(Genesis, Genesis, nSequenceId)
  BY <1>1, WorseOrder
<1>3. IsFloor(Genesis)
  BY <1>1, <1>2 DEF Init, IsFloor, Eligible
<1> QED
  BY <1>2, <1>3 DEF Init, ChoiceInv, NoneWorse, Floor, Busy, BestTip

\* A step that only marks blocks without data, if any.
LEMMA ChoiceSame ==
    ASSUME IInv, ChoiceInv,
           UNCHANGED <<chainTx, nSequenceId, candidates, tip, pc, mostWork, reconsiders, aborts>>,
           failedValid \subseteq failedValid', failedValid' \intersect haveData \subseteq failedValid
    PROVE  ChoiceInv'
<1> USE DEF ChoiceInv
<1>1. \A b \in chainTx : Ancestors[b] \subseteq haveData
  BY DEF IInv, TypeOK, ChainTxClosed
<1>2. \A b \in chainTx : Eligible(b)' <=> Eligible(b)
  BY <1>1 DEF Eligible
<1>3. NoneWorse'
  BY DEF NoneWorse
<1>4. Floor'
  <2>1. ASSUME NEW r \in chainTx, IsFloor(r) PROVE IsFloor(r)'
    BY <1>2, <2>1 DEF IsFloor
  <2> QED
    BY <2>1 DEF Floor
<1>5. Busy'
  BY <1>2 DEF Busy, BestTip, Pending
<1> QED
  BY <1>3, <1>4, <1>5

\* Storing a block: what it links and is not worse than the tip becomes a candidate, and the
\* thread goes on to activate.
LEMMA ProcessChoice ==
    ASSUME IInv, IndexInv, ChoiceInv, IInv', NEW t \in Threads, NEW b \in Blocks,
           ProcessNewBlock(t, b)
    PROVE  ChoiceInv'
<1> USE DEF ChoiceInv
<1>1. /\ UNCHANGED <<failedValid, tip, reconsiders, aborts>> /\ tip \in chainTx
      /\ chainTx \subseteq Blocks /\ candidates \subseteq chainTx
      /\ nSequenceId' \in [Blocks -> Nat] /\ chainTx' \subseteq Blocks
  BY DEF ProcessNewBlock, AcceptBlock, counters, IInv, TypeOK
<1>2. PICK linked \in SUBSET Blocks :
          /\ linked \intersect chainTx = {} /\ chainTx' = chainTx \union linked
          /\ \A x \in chainTx : nSequenceId'[x] = nSequenceId[x]
          /\ candidates' = candidates \union {x \in linked : ~Worse(x, tip, nSequenceId')}
  <2>1. CASE b \in haveData \/ Parent[b] \notin chainTx
    <3>1. UNCHANGED <<chainTx, nSequenceId, candidates>>
      BY <2>1 DEF ProcessNewBlock, AcceptBlock, ReceivedBlockTransactions
    <3>2. WITNESS {} \in SUBSET Blocks
    <3> QED
      BY <3>1
  <2>2. CASE b \notin haveData /\ Parent[b] \in chainTx
    <3> DEFINE linked == NewlyLinked(b)
    <3>1. ReceivedBlockTransactions(b) /\ b \notin Failed /\ b # Genesis
          /\ UNCHANGED <<failedValid, failedChild, invalidates, reconsiders>>
      BY <2>2, GenesisStored DEF ProcessNewBlock, AcceptBlock, counters
    <3>2. PICK order \in LinkOrders(linked) :
              /\ chainTx' = chainTx \union linked
              /\ nSequenceId' = [x \in Blocks |->
                     IF x \in linked THEN nBlockSequenceId + order[x] - 1
                                     ELSE nSequenceId[x]]
              /\ nBlockSequenceId' = nBlockSequenceId + Cardinality(linked)
              /\ candidates' = candidates \union {x \in linked : ~Worse(x, tip, nSequenceId')}
              /\ unlinked' = unlinked \ linked
              /\ haveData' = haveData \union {b}
      BY <2>2, <3>1 DEF ReceivedBlockTransactions
    <3>3. linked \intersect chainTx = {}
      BY <2>2, <3>1, <3>2, LinkedKept
    <3>4. linked \in SUBSET Blocks
      BY DEF NewlyLinked, IInv, TypeOK
    <3> HIDE DEF linked
    <3>5. \A x \in chainTx : nSequenceId'[x] = nSequenceId[x]
      BY <1>1, <3>2, <3>3
    <3> WITNESS linked \in SUBSET Blocks
    <3> QED
      BY <3>2, <3>3, <3>5
  <2> QED
    BY <2>1, <2>2
<1>3. \A x, y \in chainTx : Worse(x, y, nSequenceId') <=> Worse(x, y, nSequenceId)
  BY <1>2 DEF Worse
<1>4. NoneWorse'
  BY <1>1, <1>2, <1>3 DEF NoneWorse
<1>5. Floor'
  <2>1. SUFFICES ASSUME reconsiders = 0, aborts = 0 PROVE \E r \in chainTx' : IsFloor(r)'
    BY <1>1 DEF Floor
  <2>2. PICK r \in chainTx : IsFloor(r)
    BY <2>1 DEF Floor
  <2>3. ~Worse(r, tip, nSequenceId') /\ Eligible(r)' /\ Ancestors[r] \intersect Invalid = {}
    BY <1>1, <1>2, <1>3, <2>2 DEF IsFloor, Eligible
  <2>4. ASSUME NEW x \in chainTx', Eligible(x)', ~Worse(x, r, nSequenceId')
        PROVE  x \in candidates'
    <3>1. CASE x \in chainTx
      BY <1>1, <1>2, <1>3, <2>2, <2>4, <3>1 DEF IsFloor, Eligible
    <3>2. CASE x \in linked
      <4>1. ~Worse(x, tip, nSequenceId')
        BY <1>1, <2>3, <2>4, WorseOrder
      <4> QED
        BY <1>2, <3>2, <4>1
    <3> QED
      BY <1>2, <3>1, <3>2
  <2>5. IsFloor(r)' /\ r \in chainTx'
    BY <1>1, <1>2, <2>3, <2>4 DEF IsFloor
  <2> QED
    BY <2>5
<1>6. pc'[t] = "step"
  BY DEF ProcessNewBlock, IInv, TypeOK
<1>7. Busy'
  BY <1>6 DEF Busy, Pending
<1> QED
  BY <1>4, <1>5, <1>7

\* ActivateBestChain has nothing to do only when the tip is the best block.
LEMMA NothingChoice ==
    ASSUME IInv, IndexInv, ChoiceInv, IInv', NEW t \in Threads, ActivateNothing(t)
    PROVE  ChoiceInv'
<1> USE DEF ChoiceInv
<1>1. /\ UNCHANGED <<chainTx, nSequenceId, failedValid, tip, reconsiders, aborts>>
      /\ candidates' = Swept /\ Swept \subseteq candidates /\ MostWork \subseteq {tip}
      /\ candidates \subseteq chainTx
  BY DEF ActivateNothing, indexVars, counters, IInv, TypeOK, Swept
<1>2. NoneWorse'
  BY <1>1 DEF NoneWorse
<1>3. Floor'
  <2>1. SUFFICES ASSUME reconsiders = 0, aborts = 0 PROVE Floor'
    BY <1>1 DEF Floor
  <2>2. PICK r \in chainTx : IsFloor(r)
    BY <2>1 DEF Floor
  <2>3. \A b \in candidates : Eligible(b)' => b \in candidates'
    BY <1>1, <2>1, EligibleClean DEF Eligible, Swept, IndexInv
  <2> QED
    BY <1>1, <2>1, <2>2, <2>3, FloorKept DEF IsFloor, Eligible
<1>4. Busy'
  <2>1. SUFFICES ASSUME reconsiders = 0, aborts = 0 PROVE BestTip'
    BY <1>1 DEF Busy
  <2>2. \A b \in chainTx : Eligible(b) => b = tip \/ Worse(b, tip, nSequenceId)
    BY <1>1, <2>1, TargetBest
  <2> QED
    BY <1>1, <2>2 DEF BestTip, Eligible
<1> QED
  BY <1>2, <1>3, <1>4

\* The loop ends only for a thread that has reached its target.
LEMMA LoopChoice ==
    ASSUME IInv, ChoiceInv, NEW t \in Threads, LoopTest(t)
    PROVE  ChoiceInv'
<1> USE DEF ChoiceInv
<1>1. /\ UNCHANGED <<chainTx, nSequenceId, failedValid, candidates, tip, reconsiders, aborts>>
      /\ pc \in [Threads -> {"idle", "step", "test", "dead"}]
      /\ mostWork \in [Threads -> Blocks \union {NoBlock}]
  BY DEF LoopTest, indexVars, counters, IInv, TypeOK
<1>2. NoneWorse' /\ Floor'
  BY <1>1 DEF NoneWorse, Floor, IsFloor, Eligible
<1>3. Pending => Pending'
  <2>1. ASSUME NEW u \in Threads, pc[u] = "step" \/ (pc[u] = "test" /\ mostWork[u] # tip)
        PROVE  pc'[u] = "step" \/ (pc'[u] = "test" /\ mostWork'[u] # tip)
    <3>1. CASE u = t
      BY <1>1, <2>1, <3>1 DEF LoopTest
    <3>2. CASE u # t
      BY <1>1, <2>1, <3>2 DEF LoopTest, Return
    <3> QED
      BY <3>1, <3>2
  <2> QED
    BY <1>1, <2>1 DEF Pending
<1>4. Busy'
  BY <1>1, <1>3 DEF Busy, BestTip, Eligible
<1> QED
  BY <1>2, <1>4

\* A step that reaches its target has reached the best block; another goes on.
LEMMA StepChoice ==
    ASSUME IInv, IndexInv, ChoiceInv, IInv', NEW t \in Threads, NEW m \in MostWork,
           ActivateStep(t, m)
    PROVE  ChoiceInv'
<1> USE DEF ChoiceInv
<1>1. /\ UNCHANGED <<chainTx, nSequenceId, failedValid, reconsiders, aborts>>
      /\ candidates' = (IF ToConnect(m) = {} THEN Swept ELSE Prune(Swept, tip'))
      /\ Swept \subseteq candidates /\ candidates \subseteq chainTx /\ chainTx \subseteq Blocks
      /\ tip' \in StopAt(m) /\ tip' \in chainTx /\ m \in Blocks
  BY TargetLinked DEF ActivateStep, Stepping, indexVars, counters, IInv, TypeOK, Swept
<1>2. NoneWorse'
  <2>1. CASE ToConnect(m) = {}
    <3>1. tip' \in Ancestors[tip]
      BY <1>1, <2>1, StopClosed, TreeFacts
    <3> QED
      BY <1>1, <2>1, <3>1, NoneWorseKept
  <2>2. CASE ToConnect(m) # {}
    BY <1>1, <2>2 DEF NoneWorse, Prune
  <2> QED
    BY <2>1, <2>2
<1>3. Floor'
  <2>1. SUFFICES ASSUME reconsiders = 0, aborts = 0 PROVE Floor'
    BY <1>1 DEF Floor
  <2>2. PICK r \in chainTx : IsFloor(r)
    BY <2>1 DEF Floor
  <2>3. \A b \in candidates : Eligible(b)' => b \in Swept
    BY <1>1, <2>1, EligibleClean DEF Eligible, Swept, IndexInv
  <2>4. \A b \in candidates : Eligible(b)' /\ ~Worse(b, tip', nSequenceId) => b \in candidates'
    BY <1>1, <2>3 DEF Prune
  <2> QED
    BY <1>1, <2>1, <2>2, <2>4, FloorKept DEF IsFloor, Eligible
<1>4. Busy'
  <2>1. SUFFICES ASSUME reconsiders = 0, aborts = 0 PROVE BestTip' \/ Pending'
    BY <1>1 DEF Busy
  <2>2. pc'[t] = "test" /\ mostWork'[t] = m
    BY DEF ActivateStep, IInv, TypeOK
  <2>3. CASE tip' # m
    BY <2>2, <2>3 DEF Pending
  <2>4. CASE tip' = m
    <3>1. \A b \in chainTx : Eligible(b) => b = m \/ Worse(b, m, nSequenceId)
      BY <2>1, TargetBest
    <3> QED
      BY <1>1, <2>4, <3>1 DEF BestTip, Eligible
  <2> QED
    BY <2>3, <2>4
<1> QED
  BY <1>2, <1>3, <1>4

\* A step that meets an invalid block gives up that block only, and goes on.
LEMMA InvalidChoice ==
    ASSUME IInv, IndexInv, ChoiceInv, IInv', NEW t \in Threads, NEW m \in MostWork,
           ActivateInvalid(t, m)
    PROVE  ChoiceInv'
<1> USE DEF ChoiceInv
<1>1. PICK f \in BadOnPath(t, m) :
          /\ tip' = Parent[f]
          /\ LET kept == IF Parent[f] \in ToConnect(m) THEN Prune(Swept, Parent[f]) ELSE Swept
             IN  IF ReadsDamaged(t, m, f)
                 THEN candidates' = kept /\ UNCHANGED failedValid
                 ELSE InvalidBlockFound(f, kept)
  BY DEF ActivateInvalid
<1>2. /\ UNCHANGED <<chainTx, nSequenceId, reconsiders, aborts>>
      /\ Swept \subseteq candidates /\ candidates \subseteq chainTx /\ chainTx \subseteq Blocks
      /\ tip' \in chainTx /\ m \in Blocks /\ tip \in Blocks
  BY TargetLinked DEF ActivateInvalid, Stepping, indexVars, counters, IInv, TypeOK, Swept
<1>3. /\ f \in ToConnect(m) /\ f \in Ancestors[m] /\ f \notin Ancestors[tip]
      /\ Ancestors[f] \subseteq Ancestors[tip] \union ToConnect(m)
      /\ f \in Invalid \/ ReadsDamaged(t, m, f)
  BY <1>2, ConnectClosed DEF BadOnPath
<1>4. f \in Blocks /\ f # Genesis
  BY <1>2, <1>3, TreeFacts
<1>5. /\ Ancestors[f] = Ancestors[Parent[f]] \union {f} /\ f \notin Ancestors[Parent[f]]
      /\ Parent[f] \in Ancestors[Parent[f]]
  BY <1>4, TreeFacts
<1>6. NoneWorse'
  <2>1. candidates' \subseteq candidates
    BY <1>1, <1>2 DEF Prune, InvalidBlockFound
  <2>2. CASE Parent[f] \in ToConnect(m)
    BY <1>1, <1>2, <2>2 DEF NoneWorse, Prune, InvalidBlockFound
  <2>3. CASE Parent[f] \notin ToConnect(m)
    <3>1. tip' \in Ancestors[tip]
      BY <1>1, <1>3, <1>5, <2>3
    <3> QED
      BY <1>2, <2>1, <3>1, NoneWorseKept
  <2> QED
    BY <2>2, <2>3
<1>7. Floor'
  <2>1. SUFFICES ASSUME reconsiders = 0, aborts = 0 PROVE Floor'
    BY <1>2 DEF Floor
  <2>2. PICK r \in chainTx : IsFloor(r)
    BY <2>1 DEF Floor
  <2>3. failedValid' = failedValid \/ (f \in Invalid /\ failedValid' = failedValid \union {f})
    BY <1>1, <1>3 DEF InvalidBlockFound
  <2>4. Ancestors[r] \intersect failedValid' = {}
    BY <2>2, <2>3 DEF IsFloor, Eligible
  <2>5. \A b \in candidates : Eligible(b)' => Eligible(b) /\ b \in Swept
    BY <1>2, <2>1, <2>3, EligibleClean DEF Eligible, Swept, IndexInv
  <2>6. \A b \in candidates : Eligible(b)' => b \notin failedValid'
    BY <1>2, TreeFacts DEF Eligible
  <2>7. \A b \in candidates : Eligible(b)' /\ ~Worse(b, tip', nSequenceId) => b \in candidates'
    BY <1>1, <2>5, <2>6 DEF Prune, InvalidBlockFound
  <2> QED
    BY <1>2, <2>1, <2>2, <2>3, <2>4, <2>7, FloorKept
<1>8. Busy'
  <2>1. pc'[t] = "test" /\ mostWork'[t] = m
    BY DEF ActivateInvalid, IInv, TypeOK
  <2>2. tip' # m
    BY <1>1, <1>3, <1>5
  <2> QED
    BY <2>1, <2>2 DEF Busy, Pending
<1> QED
  BY <1>6, <1>7, <1>8

\* A block that cannot be disconnected stays active.
LEMMA UndoChoice ==
    ASSUME IInv, IndexInv, ChoiceInv, IInv', NEW t \in Threads, NEW m \in MostWork,
           UndoFails(t, m)
    PROVE  ChoiceInv'
<1> USE DEF ChoiceInv
<1>1. /\ UNCHANGED <<chainTx, nSequenceId, failedValid, reconsiders, aborts>>
      /\ candidates' = Swept /\ Swept \subseteq candidates
      /\ candidates \subseteq chainTx /\ chainTx \subseteq Blocks
      /\ tip' \in Ancestors[tip] /\ tip' \in Damaged /\ tip' \in chainTx
  BY DEF UndoFails, indexVars, counters, IInv, TypeOK, Swept
<1>2. NoneWorse'
  BY <1>1, NoneWorseKept
<1>3. Floor'
  <2>1. SUFFICES ASSUME reconsiders = 0, aborts = 0 PROVE Floor'
    BY <1>1 DEF Floor
  <2>2. PICK r \in chainTx : IsFloor(r)
    BY <2>1 DEF Floor
  <2>3. \A b \in candidates : Eligible(b)' => b \in candidates'
    BY <1>1, <2>1, EligibleClean DEF Eligible, Swept, IndexInv
  <2> QED
    BY <1>1, <2>1, <2>2, <2>3, FloorKept DEF IsFloor, Eligible
<1>4. Busy'
  BY <1>1, TreeFacts DEF Busy
<1> QED
  BY <1>2, <1>3, <1>4

\* After a system error only the order of candidates and tip is left to show.
LEMMA ErrorChoice ==
    ASSUME IInv, NoneWorse, nSequenceId' = nSequenceId, reconsiders' # 0 \/ aborts' # 0,
           tip' \in Blocks, candidates' \subseteq Blocks,
           \A c \in candidates' : ~Worse(c, tip', nSequenceId) \/ c \in candidates,
           tip' \in Ancestors[tip] \/ \A c \in candidates' : ~Worse(c, tip', nSequenceId)
    PROVE  ChoiceInv'
BY NoneWorseKept DEF ChoiceInv, Floor, Busy

\* An aborted step has gone down from the tip, or connected a block and pruned.
LEMMA AbortsChoice ==
    ASSUME IInv, ChoiceInv, IInv', NEW t \in Threads, NEW m \in MostWork, ActivateAborts(t, m)
    PROVE  ChoiceInv'
<1>1. /\ nSequenceId' = nSequenceId /\ aborts' = aborts + 1 /\ aborts \in Nat
      /\ candidates' = (IF tip' \in ToConnect(m) THEN Prune(Swept, tip') ELSE Swept)
      /\ Swept \subseteq candidates /\ candidates \subseteq Blocks /\ tip' \in Blocks
      /\ m \in Blocks /\ tip \in Blocks
  BY TargetLinked DEF ActivateAborts, Stepping, indexVars, IInv, TypeOK, Swept
<1>2. CASE tip' \in ToConnect(m)
  BY <1>1, <1>2, ErrorChoice DEF ChoiceInv, Prune
<1>3. CASE tip' \notin ToConnect(m)
  <2>1. tip' \in Ancestors[tip]
    <3>1. CASE \E x \in DownTo(m) : tip' = x
      BY <3>1 DEF DownTo
    <3>2. CASE \E x \in UpTo(t, m) : tip' = Parent[x]
      <4>1. PICK x \in ToConnect(m) : tip' = Parent[x]
        BY <3>2 DEF UpTo
      <4>2. /\ x \in Ancestors[m] /\ x \notin Ancestors[tip]
            /\ Ancestors[x] \subseteq Ancestors[tip] \union ToConnect(m)
        BY <1>1, ConnectClosed
      <4>3. x \in Blocks /\ x # Genesis
        BY <1>1, <4>2, TreeFacts
      <4>4. Parent[x] \in Ancestors[x]
        BY <4>3, TreeFacts
      <4> QED
        BY <1>3, <4>1, <4>2, <4>4
    <3> QED
      BY <3>1, <3>2 DEF ActivateAborts
  <2> QED
    BY <1>1, <1>3, <2>1, ErrorChoice DEF ChoiceInv
<1> QED
  BY <1>2, <1>3

\* InvalidateBlock puts every block that could be the new tip back among the candidates.
LEMMA InvalidateChoice ==
    ASSUME IInv, IndexInv, ChoiceInv, IInv', IndexInv', NEW t \in Threads, NEW b \in Blocks,
           InvalidateBlock(t, b)
    PROVE  ChoiceInv'
<1> USE DEF ChoiceInv
<1>1. /\ UNCHANGED <<chainTx, haveData, nSequenceId, reconsiders, aborts>>
      /\ candidates' = (candidates \ (Walked(b) \union {b}))
                           \union Restored(tip', failedValid' \union failedChild')
      /\ candidates \subseteq chainTx /\ chainTx \subseteq Blocks /\ chainTx \subseteq haveData
      /\ tip' \in chainTx /\ tip \in Blocks /\ b # Genesis
      /\ nSequenceId \in [Blocks -> Nat] /\ candidates' \subseteq chainTx
  BY DEF InvalidateBlock, indexVars, IInv, TypeOK
<1>2. tip' \in Ancestors[tip]
  <2>1. CASE Walked(b) = {}
    BY <1>1, <2>1, TreeFacts DEF InvalidateBlock
  <2>2. CASE Walked(b) # {}
    <3>1. tip' = Parent[b] /\ Ancestors[b] \subseteq Ancestors[tip]
      BY <1>1, <2>2, WalkedFacts DEF InvalidateBlock, IInv
    <3>2. Parent[b] \in Ancestors[b]
      BY <1>1, TreeFacts
    <3> QED
      BY <3>1, <3>2
  <2> QED
    BY <2>1, <2>2
<1>3. NoneWorse'
  <2>1. \A c \in candidates' : ~Worse(c, tip', nSequenceId) \/ c \in candidates
    BY <1>1 DEF Restored
  <2> QED
    BY <1>1, <1>2, <2>1, NoneWorseKept
<1>4. Floor'
  <2>1. SUFFICES ASSUME reconsiders' = 0, aborts' = 0 PROVE IsFloor(tip)'
    BY <1>1 DEF Floor
  <2>2. Eligible(tip)' /\ Ancestors[tip'] \intersect Invalid = {}
    BY <1>1, <2>1 DEF IInv, ActiveChainSound, Eligible, Failed
  <2>3. ~Worse(tip', tip', nSequenceId)
    BY <1>1, WorseOrder
  <2>4. ASSUME NEW x \in chainTx, Eligible(x)', ~Worse(x, tip', nSequenceId)
        PROVE  x \in candidates'
    <3>1. Ancestors[x] \intersect failedValid' = {} /\ x \in Ancestors[x]
      BY <1>1, <2>4, TreeFacts DEF Eligible
    <3>2. x \notin failedValid' \union failedChild'
      BY <2>1, <3>1 DEF IndexInv, FailedHaveFailedAncestor, Failed
    <3> QED
      BY <1>1, <2>4, <3>2 DEF Restored
  <2> QED
    BY <1>1, <2>2, <2>3, <2>4 DEF IsFloor
<1>5. pc'[t] = "step"
  BY DEF InvalidateBlock, ThenActivate, IInv, TypeOK
<1>6. Busy'
  BY <1>5 DEF Busy, Pending
<1> QED
  BY <1>3, <1>4, <1>6

\* Every step of every thread keeps the choice sound.
LEMMA NextChoice == IInv /\ IndexInv /\ ChoiceInv /\ IInv' /\ IndexInv' /\ [Next]_vars => ChoiceInv'
<1> SUFFICES ASSUME IInv, IndexInv, ChoiceInv, IInv', IndexInv', [Next]_vars PROVE ChoiceInv'
  OBVIOUS
<1>0. /\ tip \in Blocks /\ tip \in Ancestors[tip] /\ candidates \subseteq Blocks
      /\ nSequenceId \in [Blocks -> Nat] /\ tip' \in Blocks /\ candidates' \subseteq Blocks
      /\ aborts \in Nat /\ reconsiders \in Nat
  BY TreeFacts DEF IInv, TypeOK
<1>1. ASSUME NEW t \in Threads, Activate(t) PROVE ChoiceInv'
  <2>1. ASSUME NEW m \in MostWork, Diverged(t, m) PROVE ChoiceInv'
    <3>1. aborts' # 0 /\ tip' = tip /\ candidates' \subseteq candidates /\ nSequenceId' = nSequenceId
      BY <1>0, <2>1 DEF Diverged, indexVars, counters, Swept, IInv, CoinsFollowTip
    <3> QED
      BY <1>0, <3>1, ErrorChoice DEF ChoiceInv
  <2> QED
    BY <1>1, <2>1, NothingChoice, LoopChoice, StepChoice, InvalidChoice, UndoChoice DEF Activate
<1>2. ASSUME NEW t \in Threads, Aborting(t) PROVE ChoiceInv'
  BY <1>2, AbortsChoice DEF Aborting
<1>3. ASSUME NEW t \in Threads, NEW b \in Blocks, Receive(t, b) PROVE ChoiceInv'
  <2>1. CASE AcceptBlockHeader(t, b)
    BY <2>1, ChoiceSame DEF AcceptBlockHeader, threadVars, counters
  <2>2. CASE RejectBlock(t, b)
    BY <2>2, ChoiceSame DEF RejectBlock, threadVars, counters
  <2> QED
    BY <1>3, <2>1, <2>2, ProcessChoice DEF Receive
<1>4. ASSUME NEW t \in Threads, NEW b \in Blocks, Rpc(t, b) PROVE ChoiceInv'
  <2>1. CASE InvalidateFails(t, b)
    <3>1. /\ aborts' # 0 /\ tip' \in Ancestors[tip] /\ candidates' \subseteq candidates
          /\ nSequenceId' = nSequenceId
      BY <1>0, <2>1 DEF InvalidateFails, Walked, indexVars
    <3> QED
      BY <1>0, <3>1, ErrorChoice DEF ChoiceInv
  <2>2. CASE InvalidateCrashes(t, b)
    <3>1. /\ aborts' # 0 /\ tip' = tip /\ candidates' \subseteq candidates
          /\ nSequenceId' = nSequenceId
      BY <1>0, <2>2 DEF InvalidateCrashes, indexVars, IInv, CoinsFollowTip
    <3> QED
      BY <1>0, <3>1, ErrorChoice DEF ChoiceInv
  <2>3. CASE ReconsiderBlock(t, b)
    <3>1. /\ reconsiders' # 0 /\ tip' = tip /\ nSequenceId' = nSequenceId
          /\ \A c \in candidates' : c \in candidates \/ Worse(tip, c, nSequenceId)
      BY <1>0, <2>3 DEF ReconsiderBlock, indexVars
    <3>2. \A c \in candidates' : Worse(tip, c, nSequenceId) => ~Worse(c, tip, nSequenceId)
      BY <1>0, WorseOrder
    <3> QED
      BY <1>0, <3>1, <3>2, ErrorChoice DEF ChoiceInv
  <2> QED
    BY <1>4, <2>1, <2>2, <2>3, InvalidateChoice DEF Rpc
<1>5. CASE UNCHANGED vars
  BY <1>5, ChoiceSame DEF vars
<1> QED
  BY <1>1, <1>2, <1>3, <1>4, <1>5 DEF Next, Terminated

-----------------------------------------------------------------------------
\* Every step of every thread preserves the invariant.
LEMMA NextInv == IInv /\ [Next]_vars => IInv'
<1> SUFFICES ASSUME IInv, [Next]_vars PROVE IInv'
  OBVIOUS
<1>1. ASSUME NEW t \in Threads, Activate(t) PROVE IInv'
  BY <1>1, NothingInv, LoopInv, StepInv, InvalidInv, UndoInv, DivergedInv DEF Activate
<1>2. ASSUME NEW t \in Threads, Aborting(t) PROVE IInv'
  BY <1>2, AbortsInv DEF Aborting
<1>3. ASSUME NEW t \in Threads, NEW b \in Blocks, Receive(t, b) PROVE IInv'
  BY <1>3, HeaderInv, ProcessInv, RejectInv DEF Receive
<1>4. ASSUME NEW t \in Threads, NEW b \in Blocks, Rpc(t, b) PROVE IInv'
  BY <1>4, InvalidateInv, InvalidateFailsInv, InvalidateCrashesInv, ReconsiderInv DEF Rpc
<1>5. CASE UNCHANGED vars
  BY <1>5 DEF vars, IInv, TypeOK, ChainTxClosed, ActiveChainSound, CoinsFollowTip, Failed
<1> QED
  BY <1>1, <1>2, <1>3, <1>4, <1>5 DEF Next, Terminated

\* The invariant holds in every reachable state of the block index.
THEOREM Invariance == Spec => []IInv
BY InitInv, NextInv, PTL DEF Spec

\* The variables of main.cpp's block index keep their types: candidates are linked,
\* linked entries have their data, flags are set on entries of the index only.
THEOREM TypeCorrect == Spec => []TypeOK
<1>1. IInv => TypeOK
  BY DEF IInv
<1> QED
  BY <1>1, Invariance, PTL

\* ActivateBestChain, InvalidateBlock and ReconsiderBlock, interleaved by any number
\* of threads, never leave an invalid block in the active chain.
THEOREM ActiveChainIsSound == Spec => []ActiveChainSound
<1>1. IInv => ActiveChainSound
  BY DEF IInv
<1> QED
  BY <1>1, Invariance, PTL

\* The asserts of FindMostWorkChain never fail: the path of each candidate is linked.
THEOREM CandidatesAreLinked == Spec => []CandidatesLinked
<1>1. IInv => CandidatesLinked
  BY DEF IInv, TypeOK, ChainTxClosed, CandidatesLinked
<1> QED
  BY <1>1, Invariance, PTL

\* ConnectTip and DisconnectTip keep pcoinsTip and chainActive within one block.
THEOREM CoinsFollow == Spec => []CoinsFollowTip
<1>1. IInv => CoinsFollowTip
  BY DEF IInv
<1> QED
  BY <1>1, Invariance, PTL

\* ... and with it the order of the index and of the candidates.
THEOREM ChoiceInvariance == Spec => [](IInv /\ IndexInv /\ ChoiceInv)
BY InitInv, InitIndex, InitChoice, NextInv, NextIndex, NextChoice, PTL DEF Spec

\* CheckBlockIndex and ReceivedBlockTransactions: nChainTx is set exactly when a block and
\* all blocks below it are stored, in whatever order threads receive them.
THEOREM LinkedWhenStored == Spec => []LinkedIffStored
<1>1. IInv /\ IndexInv => LinkedIffStored
  <2> SUFFICES ASSUME IInv, IndexInv, NEW b \in mapBlockIndex
               PROVE  /\ b \in chainTx => Ancestors[b] \subseteq haveData
                      /\ reconsiders = 0 /\ (invalidates = 0 \/ Ancestors[b] \intersect failedValid = {}) =>
                            (Ancestors[b] \subseteq haveData => b \in chainTx)
    BY DEF LinkedIffStored
  <2>1. b \in Blocks
    BY DEF IInv, TypeOK
  <2> QED
    BY <2>1 DEF IInv, IndexInv, TypeOK, ChainTxClosed, Waiting, Clear
<1> QED
  BY <1>1, ChoiceInvariance, PTL

\* The assertion of PruneBlockIndexCandidates never fails: the floor is a candidate that is
\* not worse than the tip.
THEOREM CandidateIsLeft == Spec => []CandidateLeft
<1>1. IInv /\ ChoiceInv => CandidateLeft
  <2> SUFFICES ASSUME IInv, ChoiceInv, aborts = 0, reconsiders = 0
               PROVE  \E c \in candidates : ~Worse(c, tip, nSequenceId)
    BY DEF CandidateLeft
  <2>1. PICK r \in chainTx : IsFloor(r)
    BY DEF ChoiceInv, Floor
  <2>2. ~Worse(r, r, nSequenceId)
    BY WorseOrder DEF IInv, TypeOK
  <2> QED
    BY <2>1, <2>2 DEF IsFloor
<1> QED
  BY <1>1, ChoiceInvariance, PTL

\* ActivateBestChain: however the steps of the threads interleave, the last one to return
\* leaves the best block as the tip.
THEOREM BestAtRest == Spec => []BestChainAtRest
<1>1. ChoiceInv => BestChainAtRest
  BY DEF ChoiceInv, Busy, BestTip, Pending, AtRest, BestChainAtRest, Eligible
<1> QED
  BY <1>1, ChoiceInvariance, PTL

\* The assertions of CheckBlockIndex on mapBlocksUnlinked, setBlockIndexCandidates and the
\* failure flags.
THEOREM IndexChecks == Spec => []CheckBlockIndex
<1>1. IInv /\ IndexInv => UnlinkedExact
  <2> SUFFICES ASSUME IInv, IndexInv, reconsiders = 0, NEW b \in mapBlockIndex
               PROVE  LET waits == b \in haveData /\ ~(Ancestors[b] \subseteq haveData)
                      IN  /\ invalidates = 0 => (b \in unlinked => waits)
                          /\ Ancestors[b] \intersect failedValid = {} => (b \in unlinked <=> waits)
    BY DEF UnlinkedExact
  <2>1. b \in Blocks /\ (b \in unlinked => b \in haveData /\ b \notin chainTx)
    BY DEF IInv, TypeOK, IndexInv, HeldBack
  <2>2. b \in chainTx => Ancestors[b] \subseteq haveData
    BY DEF IInv, TypeOK, ChainTxClosed
  <2>3. Clear(b) => /\ b \in haveData \ chainTx => b \in unlinked
                    /\ Ancestors[b] \subseteq haveData => b \in chainTx
    BY <2>1 DEF IndexInv, Waiting
  <2> QED
    BY <2>1, <2>2, <2>3 DEF Clear
<1>2. IInv /\ IndexInv /\ ChoiceInv => CandidatesExactBefore
  <2> SUFFICES ASSUME IInv, IndexInv, ChoiceInv PROVE CandidatesExactBefore
    OBVIOUS
  <2>1. ASSUME reconsiders = 0, aborts = 0, Ancestors[tip] \intersect Damaged = {}, AtRest
        PROVE  CandidatesExact
    <3>1. BestTip
      BY <2>1 DEF ChoiceInv, Busy, Pending, AtRest
    <3>2. PICK r \in chainTx : IsFloor(r)
      BY <2>1 DEF ChoiceInv, Floor
    <3>3. ~Worse(r, r, nSequenceId)
      BY WorseOrder DEF IInv, TypeOK
    <3>4. tip \in candidates
      BY <3>1, <3>2, <3>3 DEF IsFloor, BestTip
    <3>5. ASSUME NEW b \in mapBlockIndex, ~Worse(b, tip, nSequenceId),
                 Ancestors[b] \subseteq haveData, Ancestors[b] \intersect failedValid = {}
          PROVE  b \in candidates
      <4>1. b \in chainTx
        BY <2>1, <3>5 DEF IInv, TypeOK, IndexInv, Waiting, Clear
      <4> QED
        BY <3>1, <3>4, <3>5, <4>1 DEF BestTip, Eligible
    <3>6. ASSUME NEW b \in mapBlockIndex,
                 Worse(b, tip, nSequenceId) \/ ~(Ancestors[b] \subseteq haveData)
          PROVE  b \notin candidates
      BY <3>6 DEF ChoiceInv, NoneWorse, IInv, TypeOK, ChainTxClosed
    <3> QED
      BY <3>5, <3>6 DEF CandidatesExact
  <2> QED
    BY <2>1 DEF CandidatesExactBefore, CandidatesExactAtRest, ChoiceInv, NoneWorse
<1>3. IInv /\ IndexInv /\ ChoiceInv => CheckBlockIndex
  BY <1>1, <1>2 DEF CheckBlockIndex, IndexInv
<1> QED
  BY <1>3, ChoiceInvariance, PTL
=============================================================================
