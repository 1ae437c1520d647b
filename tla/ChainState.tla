----------------------------- MODULE ChainState -----------------------------
(***************************************************************************)
(* The block index and the choice of the active chain (src/src/main.cpp):  *)
(* AcceptBlockHeader, AcceptBlock, ReceivedBlockTransactions,              *)
(* FindMostWorkChain, ActivateBestChain(Step), ConnectTip, DisconnectTip,  *)
(* PruneBlockIndexCandidates, InvalidateBlock and ReconsiderBlock.         *)
(*                                                                         *)
(* cs_main is held from the start to the end of each action below.         *)
(* ActivateBestChain releases it after every step, so the calls of several *)
(* threads (message handler, RPC, miner) interleave between steps.         *)
(*                                                                         *)
(* The tree of blocks that exist is a constant.  What a block contains is  *)
(* abstracted to how far it gets: its header passes (all blocks), its      *)
(* content passes ContextualCheckBlock (all but BadContext), it connects   *)
(* (all but Invalid), its stored copy reads back intact (all but Damaged). *)
(* pindexBestInvalid, pindexBestHeader, mapBlockSource and the mempool are *)
(* written here but never read by these operations, and are left out.      *)
(***************************************************************************)
EXTENDS BlockTree

CONSTANTS
    BadContext,   \* blocks that pass CheckBlock and fail ContextualCheckBlock
    Invalid,      \* blocks that break a consensus rule in ConnectBlock
    Damaged,      \* blocks whose copy on disk has a wrong merkle root
    Threads,      \* callers of ProcessNewBlock and of the RPC commands
    MaxInvalidate, MaxReconsider, \* bounds: calls of the two RPC commands
    MaxAborts     \* bound: system errors (disk full, database error)

ASSUME ContentAssumption ==
    /\ BadContext \subseteq Blocks /\ Invalid \subseteq Blocks /\ Damaged \subseteq Blocks
    /\ Genesis \notin BadContext \union Invalid \union Damaged
    /\ MaxInvalidate \in Nat /\ MaxReconsider \in Nat /\ MaxAborts \in Nat

VARIABLES
    mapBlockIndex,   \* the blocks that have an index entry
    failedValid,     \* entries with BLOCK_FAILED_VALID
    failedChild,     \* entries with BLOCK_FAILED_CHILD
    haveData,        \* entries with BLOCK_HAVE_DATA (and BLOCK_VALID_TRANSACTIONS)
    chainTx,         \* entries with nChainTx # 0
    nSequenceId,     \* order in which the entries were linked
    nBlockSequenceId,
    candidates,      \* setBlockIndexCandidates
    unlinked,        \* mapBlocksUnlinked: its values; the key is the parent
    tip,             \* chainActive.Tip(); chainActive is Ancestors[tip]
    coinsTip,        \* pcoinsTip->GetBestBlock()
    pc,              \* idle; step: top of ActivateBestChain's loop; test: its end
    mostWork,        \* ActivateBestChain's local pindexMostWork
    pblock,          \* ActivateBestChain's argument pblock
    invalidates, reconsiders, aborts \* counters of the bounds

indexVars == <<mapBlockIndex, haveData, chainTx, nSequenceId, nBlockSequenceId, unlinked>>
threadVars == <<pc, mostWork, pblock>>
counters == <<invalidates, reconsiders, aborts>>
vars == <<mapBlockIndex, failedValid, failedChild, haveData, chainTx, nSequenceId,
          nBlockSequenceId, candidates, unlinked, tip, coinsTip, pc, mostWork, pblock,
          invalidates, reconsiders, aborts>>

Failed == failedValid \union failedChild

\* InitBlockIndex has added and connected the genesis block.
Init ==
    /\ mapBlockIndex = {Genesis}
    /\ failedValid = {} /\ failedChild = {}
    /\ haveData = {Genesis}
    /\ chainTx = {Genesis}
    /\ nSequenceId = [b \in Blocks |-> IF b = Genesis THEN 1 ELSE 0]
    /\ nBlockSequenceId = 2
    /\ candidates = {Genesis}
    /\ unlinked = {}
    /\ tip = Genesis /\ coinsTip = Genesis
    /\ pc = [t \in Threads |-> "idle"]
    /\ mostWork = [t \in Threads |-> NoBlock]
    /\ pblock = [t \in Threads |-> NoBlock]
    /\ invalidates = 0 /\ reconsiders = 0 /\ aborts = 0

\* CBlockIndexWorkComparator: a sorts before b.  seq is nSequenceId; it is
\* never 0 for two different blocks that are compared.
Worse(a, b, seq) ==
    \/ ChainWork[a] < ChainWork[b]
    \/ ChainWork[a] = ChainWork[b] /\ seq[a] > seq[b]

-----------------------------------------------------------------------------
(***************************************************************************)
(* Receiving headers and blocks.                                           *)
(***************************************************************************)
\* AcceptBlockHeader's checks for a header that is not in the index yet.
HeaderAcceptable(b) ==
    /\ b \notin mapBlockIndex
    /\ Parent[b] \in mapBlockIndex
    /\ Parent[b] \notin Failed

\* A "headers" message brings a new header: AddToBlockIndex.
AcceptBlockHeader(t, b) ==
    /\ pc[t] = "idle"
    /\ HeaderAcceptable(b)
    /\ mapBlockIndex' = mapBlockIndex \union {b}
    /\ UNCHANGED <<failedValid, failedChild, haveData, chainTx, nSequenceId,
                   nBlockSequenceId, candidates, unlinked, tip, coinsTip>>
    /\ UNCHANGED threadVars /\ UNCHANGED counters

\* Mutants: the walk up from b is missing; or skips over blocks without data.
NewlyLinkedAlone(b) == {b}
NewlyLinkedOverGaps(b) == {x \in unlinked \union {b} : b \in Ancestors[x]}

\* The blocks that ReceivedBlockTransactions(b) links: b, and what waits above it.
NewlyLinked(b) ==
    {x \in unlinked \union {b} :
        b \in Ancestors[x] /\ Ancestors[x] \ Ancestors[b] \subseteq unlinked}

\* The breadth-first walk gives sequence ids to parents before children; the
\* order of siblings is mapBlocksUnlinked's.
LinkOrders(S) ==
    {f \in [S -> 1..Cardinality(S)] :
        \A x, y \in S :
            /\ f[x] = f[y] => x = y
            /\ Cardinality(Ancestors[x]) < Cardinality(Ancestors[y]) => f[x] < f[y]}

\* mapBlocksUnlinked with b put under its parent, if the parent is not failed.
Queued(b) == IF Parent[b] \in Failed THEN unlinked ELSE unlinked \union {b}

ReceivedBlockTransactions(b) ==
    /\ haveData' = haveData \union {b}
    /\ \/ /\ Parent[b] \in chainTx
          /\ LET linked == NewlyLinked(b)
             IN  \E order \in LinkOrders(linked) :
                    /\ chainTx' = chainTx \union linked
                    /\ nSequenceId' = [x \in Blocks |->
                           IF x \in linked THEN nBlockSequenceId + order[x] - 1
                                           ELSE nSequenceId[x]]
                    /\ nBlockSequenceId' = nBlockSequenceId + Cardinality(linked)
                    /\ candidates' = candidates \union
                           {x \in linked : ~Worse(x, tip, nSequenceId')}
                    /\ unlinked' = unlinked \ linked
       \/ /\ Parent[b] \notin chainTx
          /\ unlinked' = Queued(b)
          /\ UNCHANGED <<chainTx, nSequenceId, nBlockSequenceId, candidates>>

\* AcceptBlock when the header is, or can be put, in the index.
AcceptBlock(b) ==
    /\ b \in mapBlockIndex \/ HeaderAcceptable(b)
    /\ b \notin Failed
    /\ mapBlockIndex' = mapBlockIndex \union {b}
    /\ \/ b \in haveData
          /\ UNCHANGED <<failedValid, haveData, chainTx, nSequenceId, nBlockSequenceId,
                         candidates, unlinked>>
       \/ b \notin haveData /\ b \notin BadContext
          /\ ReceivedBlockTransactions(b)
          /\ UNCHANGED failedValid

\* ProcessNewBlock: store the block, then activate the best chain.
ProcessNewBlock(t, b) ==
    /\ pc[t] = "idle"
    /\ AcceptBlock(b)
    /\ pc' = [pc EXCEPT ![t] = "step"]
    /\ pblock' = [pblock EXCEPT ![t] = b]
    /\ UNCHANGED <<failedChild, tip, coinsTip, mostWork>> /\ UNCHANGED counters

\* ProcessNewBlock of a block whose content is bad: AcceptBlock marks the entry.
RejectBlock(t, b) ==
    /\ pc[t] = "idle"
    /\ b \in mapBlockIndex \/ HeaderAcceptable(b)
    /\ b \in BadContext \ (Failed \union haveData)
    /\ mapBlockIndex' = mapBlockIndex \union {b}
    /\ failedValid' = failedValid \union {b}
    /\ UNCHANGED <<failedChild, haveData, chainTx, nSequenceId, nBlockSequenceId,
                   candidates, unlinked, tip, coinsTip>>
    /\ UNCHANGED threadVars /\ UNCHANGED counters

-----------------------------------------------------------------------------
(***************************************************************************)
(* Choosing and activating the best chain.                                 *)
(***************************************************************************)
\* The part of b's chain that is not active.
NewPath(b) == Ancestors[b] \ Ancestors[tip]

Best(S) == {b \in S : \A c \in S : c = b \/ Worse(c, b, nSequenceId)}

\* Mutant: only the candidate itself is tested, not the path below it.
HasFailedItself(c) == c \in Failed

\* FindMostWorkChain goes down the candidates until it meets one without a
\* failed block on its path; that one is in MostWork, which is empty for NULL.
HasFailed(c) == NewPath(c) \intersect Failed # {}
MostWork == Best({c \in candidates : ~HasFailed(c)})

\* The failed candidates it meets on the way, and for each the entries from the
\* candidate down to the first failed one.
FailedMet ==
    {c \in candidates : HasFailed(c) /\ \A m \in MostWork : Worse(m, c, nSequenceId)}
FailedPath(c) ==
    {x \in NewPath(c) : \A y \in NewPath(c) :
        x # y /\ x \in Ancestors[y] => y \notin Failed}
SweptPath == UNION {FailedPath(c) : c \in FailedMet}

\* FindMostWorkChain's side effects.
Swept == candidates \ SweptPath
SweptChild == failedChild \union (SweptPath \ Failed)

\* Mutant: the new tip itself is pruned.
PruneTip(S, newTip) == {c \in S : Worse(newTip, c, nSequenceId)}

\* PruneBlockIndexCandidates with `newTip` as the tip.
Prune(S, newTip) == {c \in S : ~Worse(c, newTip, nSequenceId)}

\* ActivateBestChainStep stops at the first block with more work than the old tip.
StopAt(m) ==
    LET better == {x \in NewPath(m) : ChainWork[x] > ChainWork[tip]}
    IN  {x \in Ancestors[m] : IF better = {} THEN x = m
                              ELSE x \in better /\ \A y \in better : x \in Ancestors[y]}

\* What it has to connect, and the blocks of it that do not connect.  The block
\* that was just received is used from memory, all others are read back.
ToConnect(m) == {x \in NewPath(m) : \A s \in StopAt(m) : x \in Ancestors[s]}
ReadsDamaged(t, m, x) == x \in Damaged /\ ~(x = m /\ pblock[t] = m)
BadOnPath(t, m) == {x \in ToConnect(m) : x \in Invalid \/ ReadsDamaged(t, m, x)}

\* ActivateBestChain returns.
Return(t) ==
    /\ pc' = [pc EXCEPT ![t] = "idle"]
    /\ mostWork' = [mostWork EXCEPT ![t] = NoBlock]
    /\ pblock' = [pblock EXCEPT ![t] = NoBlock]

\* Nothing to do: it returns true.
ActivateNothing(t) ==
    /\ pc[t] = "step"
    /\ MostWork \subseteq {tip}
    /\ candidates' = Swept
    /\ failedChild' = SweptChild
    /\ Return(t)
    /\ UNCHANGED <<failedValid, tip, coinsTip>>
    /\ UNCHANGED indexVars /\ UNCHANGED counters

\* A step with a target: DisconnectTip down to the fork, ConnectTip upwards.
Stepping(t, m) ==
    /\ pc[t] = "step"
    /\ coinsTip = tip                                     \* else see Diverged
    /\ (Ancestors[tip] \ Ancestors[m]) \intersect Damaged = {}  \* else see UndoFails
    /\ failedChild' = SweptChild
    /\ UNCHANGED indexVars

\* All blocks up to the stopping point connect.
ActivateStep(t, m) ==
    /\ Stepping(t, m)
    /\ BadOnPath(t, m) = {}
    /\ tip' \in StopAt(m)
    /\ coinsTip' = tip'
    /\ candidates' = IF ToConnect(m) = {} THEN Swept ELSE Prune(Swept, tip')
    /\ pc' = [pc EXCEPT ![t] = "test"]
    /\ mostWork' = [mostWork EXCEPT ![t] = m]
    /\ UNCHANGED <<failedValid, pblock>> /\ UNCHANGED counters

\* Mutant: the invalid block is neither marked nor erased.
InvalidBlockForgotten(f, kept) == candidates' = kept /\ UNCHANGED failedValid

\* The block is marked and leaves the candidates.
InvalidBlockFound(f, kept) ==
    candidates' = kept \ {f} /\ failedValid' = failedValid \union {f}

\* Mutant: the coins of the block that failed are flushed.
ActivateInvalidApplied(t, m) ==
    /\ Stepping(t, m)
    /\ \E f \in BadOnPath(t, m) :
          /\ \A y \in BadOnPath(t, m) : f \in Ancestors[y]
          /\ tip' = Parent[f]
          /\ coinsTip' = f
          /\ InvalidBlockFound(f, Swept)
    /\ pc' = [pc EXCEPT ![t] = "test"]
    /\ mostWork' = [mostWork EXCEPT ![t] = m]
    /\ UNCHANGED pblock /\ UNCHANGED counters

\* The first bad block breaks a consensus rule.  The step ends below that block, with a tip that can have less
\* work than the one it started from.
ActivateInvalid(t, m) ==
    /\ Stepping(t, m)
    /\ \E f \in BadOnPath(t, m) :
          /\ \A y \in BadOnPath(t, m) : f \in Ancestors[y]
          /\ tip' = Parent[f]
          /\ coinsTip' = Parent[f]
          /\ LET kept == IF Parent[f] \in ToConnect(m) THEN Prune(Swept, Parent[f])
                                                       ELSE Swept
             IN  IF ReadsDamaged(t, m, f)
                 THEN candidates' = kept /\ UNCHANGED failedValid
                 ELSE InvalidBlockFound(f, kept)
    /\ pc' = [pc EXCEPT ![t] = "test"]
    /\ mostWork' = [mostWork EXCEPT ![t] = m]
    /\ UNCHANGED pblock /\ UNCHANGED counters

\* Mutant: ActivateBestChain makes a single step.
LoopOnce(t) ==
    /\ pc[t] = "test"
    /\ Return(t)
    /\ UNCHANGED <<failedValid, failedChild, candidates, tip, coinsTip>>
    /\ UNCHANGED indexVars /\ UNCHANGED counters

\* The loop's condition reads chainActive.Tip() without cs_main.
LoopTest(t) ==
    /\ pc[t] = "test"
    /\ \/ mostWork[t] # tip
          /\ pc' = [pc EXCEPT ![t] = "step"]
          /\ UNCHANGED <<mostWork, pblock>>
       \/ mostWork[t] = tip /\ Return(t)
    /\ UNCHANGED <<failedValid, failedChild, candidates, tip, coinsTip>>
    /\ UNCHANGED indexVars /\ UNCHANGED counters

-----------------------------------------------------------------------------
(***************************************************************************)
(* System errors.  view.Flush() moves coinsTip first, FlushStateToDisk may *)
(* fail next, and only then UpdateTip moves the tip.                       *)
(***************************************************************************)
\* The tips a step towards m passes through on its way down and up.
DownTo(m) == {x \in Ancestors[tip] : Ancestors[tip] \intersect Ancestors[m] \subseteq Ancestors[x]}
UpTo(t, m) == {x \in ToConnect(m) : \A f \in BadOnPath(t, m) : x \in Ancestors[f] /\ x # f}

\* ActivateBestChainStep returns false: AbortNode has asked for a shutdown.
ActivateAborts(t, m) ==
    /\ aborts < MaxAborts
    /\ Stepping(t, m)
    /\ \/ \E x \in DownTo(m) \ Ancestors[m] : tip' = x /\ coinsTip' \in {x, Parent[x]}
       \/ \E x \in UpTo(t, m) : tip' = Parent[x] /\ coinsTip' \in {x, Parent[x]}
    /\ candidates' = IF tip' \in ToConnect(m) THEN Prune(Swept, tip') ELSE Swept
    /\ Return(t)
    /\ aborts' = aborts + 1
    /\ UNCHANGED <<failedValid, invalidates, reconsiders>>

\* The stored copy of a block to disconnect does not match its undo data.
UndoFails(t, m) ==
    /\ pc[t] = "step" /\ coinsTip = tip
    /\ \E x \in (Ancestors[tip] \ Ancestors[m]) \intersect Damaged :
          /\ \A y \in (Ancestors[tip] \ Ancestors[m]) \intersect Damaged : y \in Ancestors[x]
          /\ tip' = x /\ coinsTip' = x
    /\ candidates' = Swept /\ failedChild' = SweptChild
    /\ Return(t)
    /\ UNCHANGED failedValid
    /\ UNCHANGED indexVars /\ UNCHANGED counters

\* After a failed flush the next step meets the mismatch: ConnectBlock, once the
\* block has been read and checked, calls AbortNode; DisconnectBlock's assert ends
\* the process.
FirstUnreadable(t, m) == \E x \in ToConnect(m) : Parent[x] = tip /\ ReadsDamaged(t, m, x)

Diverged(t, m) ==
    /\ pc[t] = "step" /\ coinsTip # tip
    /\ candidates' = Swept /\ failedChild' = SweptChild
    /\ \/ tip \in Ancestors[m] /\ ~FirstUnreadable(t, m) /\ Return(t)
       \/ tip \in Ancestors[m] /\ FirstUnreadable(t, m)
          /\ pc' = [pc EXCEPT ![t] = "test"]
          /\ mostWork' = [mostWork EXCEPT ![t] = m]
          /\ UNCHANGED pblock
       \/ tip \notin Ancestors[m] /\ pc' = [u \in Threads |-> "dead"]
          /\ UNCHANGED <<mostWork, pblock>>
    /\ UNCHANGED <<failedValid, tip, coinsTip>>
    /\ UNCHANGED indexVars /\ UNCHANGED counters

-----------------------------------------------------------------------------
(***************************************************************************)
(* The RPC commands invalidateblock and reconsiderblock (test networks).   *)
(***************************************************************************)
\* Both commands end with ActivateBestChain(state).
ThenActivate(t) ==
    /\ pc[t] = "idle"
    /\ pc' = [pc EXCEPT ![t] = "step"]
    /\ UNCHANGED <<mostWork, pblock>>

\* Mutant: InvalidateBlock does not look for other tips.
NoneRestored(newTip, failed) == {}

\* "The resulting new best tip may not be in setBlockIndexCandidates anymore, so
\* add them again."
Restored(newTip, failed) ==
    {x \in (haveData \intersect chainTx) \ failed : ~Worse(x, newTip, nSequenceId)}

\* The part of the active chain that invalidating b disconnects.
Walked(b) == {x \in Ancestors[tip] : b \in Ancestors[x]}

InvalidateBlock(t, b) ==
    /\ ThenActivate(t)
    /\ invalidates < MaxInvalidate /\ invalidates' = invalidates + 1
    /\ b \in mapBlockIndex \ {Genesis}
    /\ Walked(b) # {} => coinsTip = tip /\ Walked(b) \intersect Damaged = {}
    /\ failedValid' = failedValid \union {b}
    /\ failedChild' = failedChild \union Walked(b)
    /\ tip' = IF Walked(b) = {} THEN tip ELSE Parent[b]
    /\ coinsTip' = IF Walked(b) = {} THEN coinsTip ELSE Parent[b]
    /\ candidates' = (candidates \ (Walked(b) \union {b}))
                         \union Restored(tip', failedValid' \union failedChild')
    /\ UNCHANGED indexVars /\ UNCHANGED <<reconsiders, aborts>>

\* DisconnectTip fails at x and leaves x, marked as failed, as the tip.  With unfit
\* undo data the state stays valid and the command goes on to activate; with a
\* failed write it does not.
InvalidateFails(t, b) ==
    /\ pc[t] = "idle" /\ coinsTip = tip
    /\ invalidates < MaxInvalidate /\ invalidates' = invalidates + 1
    /\ aborts < MaxAborts /\ aborts' = aborts + 1
    /\ b # Genesis
    /\ \E x \in Walked(b) :
          /\ (Walked(x) \ {x}) \intersect Damaged = {}
          /\ failedValid' = failedValid \union {b}
          /\ failedChild' = failedChild \union Walked(x)
          /\ candidates' = candidates \ (Walked(x) \union {b})
          /\ tip' = x
          /\ \/ x \in Damaged /\ coinsTip' = x /\ pc' = [pc EXCEPT ![t] = "step"]
             \/ x \notin Damaged /\ coinsTip' \in {x, Parent[x]} /\ UNCHANGED pc
    /\ UNCHANGED indexVars /\ UNCHANGED <<mostWork, pblock, reconsiders>>

\* DisconnectBlock's assert fails when the coins are not those of the tip.
InvalidateCrashes(t, b) ==
    /\ pc[t] = "idle" /\ coinsTip # tip
    /\ invalidates < MaxInvalidate /\ invalidates' = invalidates + 1
    /\ b # Genesis /\ Walked(b) # {}
    /\ failedValid' = failedValid \union {b}
    /\ failedChild' = failedChild \union {tip}
    /\ candidates' = candidates \ {tip, b}
    /\ pc' = [u \in Threads |-> "dead"]
    /\ UNCHANGED <<tip, coinsTip, mostWork, pblock, reconsiders, aborts>>
    /\ UNCHANGED indexVars

ReconsiderBlock(t, b) ==
    /\ ThenActivate(t)
    /\ reconsiders < MaxReconsider /\ reconsiders' = reconsiders + 1
    /\ b \in mapBlockIndex
    /\ LET above == {x \in mapBlockIndex : b \in Ancestors[x] /\ (x \in Failed \/ x \notin haveData)}
       IN  /\ failedValid' = failedValid \ (above \union Ancestors[b])
           /\ failedChild' = failedChild \ (above \union Ancestors[b])
           /\ candidates' = candidates \union
                  {x \in above \intersect haveData \intersect chainTx :
                      Worse(tip, x, nSequenceId)}
    /\ UNCHANGED <<tip, coinsTip, invalidates, aborts>>
    /\ UNCHANGED indexVars

-----------------------------------------------------------------------------
Activate(t) ==
    \/ ActivateNothing(t)
    \/ LoopTest(t)
    \/ \E m \in MostWork \ {tip} :
          ActivateStep(t, m) \/ ActivateInvalid(t, m) \/ UndoFails(t, m) \/ Diverged(t, m)

Aborting(t) == \E m \in MostWork \ {tip} : ActivateAborts(t, m)

Receive(t, b) == AcceptBlockHeader(t, b) \/ ProcessNewBlock(t, b) \/ RejectBlock(t, b)

Rpc(t, b) ==
    \/ InvalidateBlock(t, b) \/ InvalidateFails(t, b) \/ InvalidateCrashes(t, b)
    \/ ReconsiderBlock(t, b)

\* An assertion has ended the process.
Terminated == (\A t \in Threads : pc[t] = "dead") /\ UNCHANGED vars

Next ==
    \/ \E t \in Threads : Activate(t) \/ Aborting(t)
    \/ \E t \in Threads, b \in Blocks : Receive(t, b) \/ Rpc(t, b)
    \/ Terminated

Spec == Init /\ [][Next]_vars

\* A thread inside ActivateBestChain gets cs_main again.
FairSpec == Spec /\ \A t \in Threads : WF_vars(Activate(t))
-----------------------------------------------------------------------------
\* Types.
TypeOK ==
    /\ mapBlockIndex \subseteq Blocks
    /\ failedValid \subseteq mapBlockIndex /\ failedChild \subseteq mapBlockIndex
    /\ haveData \subseteq mapBlockIndex /\ chainTx \subseteq haveData
    /\ nSequenceId \in [Blocks -> Nat] /\ nBlockSequenceId \in Nat
    /\ candidates \subseteq chainTx /\ unlinked \subseteq haveData
    /\ tip \in chainTx /\ coinsTip \in chainTx
    /\ pc \in [Threads -> {"idle", "step", "test", "dead"}]
    /\ mostWork \in [Threads -> Blocks \union {NoBlock}]
    /\ pblock \in [Threads -> Blocks \union {NoBlock}]
    /\ invalidates \in 0..MaxInvalidate /\ reconsiders \in 0..MaxReconsider
    /\ aborts \in 0..MaxAborts

\* Every block of the active chain is stored and connects, and, as long as no
\* system error stops a command half way, is not marked as failed: through every
\* interleaving of reorganisations and RPC commands.
ActiveChainSound ==
    /\ Ancestors[tip] \subseteq haveData
    /\ Ancestors[tip] \intersect Invalid = {}
    /\ aborts = 0 => Ancestors[tip] \intersect Failed = {}

\* The asserts in FindMostWorkChain: every candidate's path down to the active
\* chain is stored and linked.
CandidatesLinked == \A c \in candidates : Ancestors[c] \subseteq chainTx

\* PruneBlockIndexCandidates: "Either the current tip or a successor of it we're
\* working towards is left in setBlockIndexCandidates", unless an error stops the node, or
\* reconsiderblock has let blocks become active that are not among the candidates.
CandidateLeft ==
    aborts = 0 /\ reconsiders = 0 => \E c \in candidates : ~Worse(c, tip, nSequenceId)

\* The coins database and the active chain differ by at most one block, and only
\* after a failed write.
CoinsFollowTip ==
    \/ coinsTip = tip
    \/ aborts > 0 /\ (\/ tip # Genesis /\ coinsTip = Parent[tip]
                      \/ coinsTip # Genesis /\ tip = Parent[coinsTip])

AtRest == \A t \in Threads : pc[t] = "idle"

\* A block that could be the tip as far as the node knows.
Eligible(b) == b \in chainTx /\ Ancestors[b] \intersect failedValid = {}

\* When no thread is activating, the tip is the eligible block that sorts best:
\* most work, first received among equals.  Not after reconsiderblock, which does not put
\* all that is valid again among the candidates, and not when a block of the active chain
\* is damaged on disk, which keeps it from being disconnected.
BestChainAtRest ==
    AtRest /\ aborts = 0 /\ reconsiders = 0 /\ Ancestors[tip] \intersect Damaged = {} =>
        \A b \in mapBlockIndex : Eligible(b) => b = tip \/ Worse(b, tip, nSequenceId)

\* CheckBlockIndex: "nChainTx == 0 is used to signal that all parent block's
\* transaction data is available", that is, nChainTx # 0 exactly when it is.  Above a block
\* that a command has marked this is not sure: what waits there may have been dropped.
LinkedIffStored ==
    \A b \in mapBlockIndex :
        /\ b \in chainTx => Ancestors[b] \subseteq haveData
        /\ reconsiders = 0 /\ (invalidates = 0 \/ Ancestors[b] \intersect failedValid = {}) =>
              (Ancestors[b] \subseteq haveData => b \in chainTx)

\* CheckBlockIndex: a block without invalid ancestors is in mapBlocksUnlinked exactly when it
\* is stored and some ancestor is not; one with an invalid ancestor may be there or not, and
\* only if it waits (as long as none was marked by invalidateblock: what was dropped above
\* that one does not wait any more when it is linked, and its children do not know).  Until
\* reconsiderblock makes an invalid ancestor valid again.
UnlinkedExact ==
    reconsiders = 0 => \A b \in mapBlockIndex :
        LET waits == b \in haveData /\ ~(Ancestors[b] \subseteq haveData)
        IN  /\ invalidates = 0 => (b \in unlinked => waits)
            /\ Ancestors[b] \intersect failedValid = {} => (b \in unlinked <=> waits)

\* CheckBlockIndex: "If this block sorts at least as good as the current tip and
\* is valid, it must be in setBlockIndexCandidates", else it cannot be.
CandidatesExact ==
    \A b \in mapBlockIndex :
        IF ~Worse(b, tip, nSequenceId) /\ Ancestors[b] \subseteq haveData
        THEN Ancestors[b] \intersect failedValid = {} => b \in candidates
        ELSE b \notin candidates

\* ... whenever no thread is between two steps of ActivateBestChain.
CandidatesExactAtRest == AtRest => CandidatesExact

\* ... which holds until reconsiderblock is used, a system error cuts a step short, or a
\* damaged block of the active chain cannot be disconnected; and what sorts worse than the
\* tip is never a candidate.
CandidatesExactBefore ==
    /\ reconsiders = 0 /\ aborts = 0 /\ Ancestors[tip] \intersect Damaged = {} =>
          CandidatesExactAtRest
    /\ \A c \in candidates : ~Worse(c, tip, nSequenceId)

\* CheckBlockIndex: "The failed mask cannot be set for blocks without invalid parents",
\* until reconsiderblock clears the parents of a block and not the block.
FailedHaveFailedAncestor ==
    reconsiders = 0 => \A b \in Failed : Ancestors[b] \intersect failedValid # {}

\* The assertions of CheckBlockIndex on what can be set together, while threads receive
\* blocks and commands mark them.
CheckBlockIndex == UnlinkedExact /\ CandidatesExactBefore /\ FailedHaveFailedAncestor

\* ActivateBestChain returns: "The result is either failure or an activated best
\* chain."
ActivationEnds == \A t \in Threads : pc[t] = "step" ~> pc[t] \in {"idle", "dead"}
=============================================================================
