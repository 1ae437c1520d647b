----------------------------- MODULE OrphanTxs -----------------------------
(***************************************************************************)
(* The "tx" message (ProcessMessage in src/src/main.cpp) on top of the     *)
(* memory pool: transactions whose parents are missing wait in             *)
(* mapOrphanTransactions, indexed by parent, and are tried again when a    *)
(* parent is accepted.  The handler's loop over its work queue is          *)
(* unrolled; it runs under cs_main, so that nothing else happens meanwhile.*)
(*                                                                         *)
(* The size limit on one orphan, relaying and scores are left out: a peer  *)
(* that misbehaves may be disconnected at any time.                        *)
(***************************************************************************)
EXTENDS MemPool, FiniteSets

CONSTANTS
    Peers, NoPeer,
    MaxOrphanTxs          \* -maxorphantx

ASSUME OrphanAssumption == NoPeer \notin Peers /\ MaxOrphanTxs \in Nat

VARIABLES
    peers,               \* NodeIds between InitializeNode and FinalizeNode
    orphans,             \* mapOrphanTransactions: fromPeer
    byPrev,              \* mapOrphanTransactionsByPrev
    work, i, left,       \* vWorkQueue, the index in it, the orphans still to come at this index
    eraseQueue,          \* vEraseQueue
    setMisbehaving,
    before               \* history: the pool when the handler was entered

jobVars == <<work, i, left, eraseQueue, setMisbehaving, before>>
orphanVars == <<peers, orphans, byPrev, jobVars>>
allVars == <<vars, orphanVars>>

Parents(t) == {o[1] : o \in Vin[t]}
OrphanSet == {t \in Txs : orphans[t] # NoPeer}

OrphanInit ==
    /\ Init
    /\ peers = {} /\ orphans = [t \in Txs |-> NoPeer] /\ byPrev = [id \in Txids |-> {}]
    /\ work = <<>> /\ i = 0 /\ left = {} /\ eraseQueue = {} /\ setMisbehaving = {} /\ before = {}

\* cs_main is free.
Idle == pc = "idle" /\ work = <<>>
-----------------------------------------------------------------------------
\* Mutant: the index keeps its entries.
EraseKeepsIndex(E) ==
    /\ orphans' = [t \in Txs |-> IF t \in E THEN NoPeer ELSE orphans[t]]
    /\ byPrev' = byPrev

\* EraseOrphanTx of each in E.
Erase(E) ==
    /\ orphans' = [t \in Txs |-> IF t \in E THEN NoPeer ELSE orphans[t]]
    /\ byPrev' = [id \in Txids |-> byPrev[id] \ {t \in E \intersect OrphanSet : id \in Parents(t)}]

InitializeNode(p) ==
    /\ Idle /\ p \notin peers /\ peers' = peers \union {p}
    /\ UNCHANGED <<vars, orphans, byPrev, jobVars>>

\* FinalizeNode, with EraseOrphansFor.
FinalizeNode(p) ==
    /\ Idle /\ p \in peers /\ peers' = peers \ {p}
    /\ Erase({t \in OrphanSet : orphans[t] = p})
    /\ UNCHANGED <<vars, jobVars>>

\* LimitOrphanTxSize evicts a random orphan while there are too many: one at most, as it
\* is called after each addition.
Evictions(S) == IF Cardinality(S) > MaxOrphanTxs THEN {{t} : t \in S} ELSE {{}}

\* A "tx" whose inputs are missing: AddOrphanTx and LimitOrphanTxSize.
TxMissing(t, p) ==
    /\ Idle /\ p \in peers /\ Missing(t) /\ t \notin OrphanSet
    /\ \E E \in Evictions(OrphanSet \union {t}) :
        /\ orphans' = [u \in Txs |-> IF u \in E THEN NoPeer ELSE IF u = t THEN p ELSE orphans[u]]
        /\ byPrev' = [id \in Txids |->
                        (IF id \in Parents(t) THEN byPrev[id] \union {t} ELSE byPrev[id])
                            \ {u \in E : id \in Parents(u)}]
    /\ UNCHANGED <<vars, peers, jobVars>>

\* A "tx" that is accepted; the orphans that spend from it come next.
TxAccepted(t, p) ==
    /\ Idle /\ p \in peers /\ Acceptable(t) /\ addUnchecked(t)
    /\ work' = <<t>> /\ i' = 1 /\ left' = byPrev[t] /\ eraseQueue' = {t}
    /\ setMisbehaving' = {} /\ before' = mapTx
    /\ UNCHANGED <<coins, chain, loopVars, peers, orphans, byPrev>>

\* CheckInputs finds the scripts wrong.
Punishable(t) ==
    LET c == [id \in Txids |-> PoolCoins(id)]
    IN  Fresh(t) /\ HaveInputs(c, t) /\ Mature(c, t, NextHeight) /\ t \in BadTxs

\* Mutant: the descendants of an accepted orphan are not looked for.
OrphanTurnShallow(t) ==
    /\ t \in left /\ left' = left \ {t} /\ eraseQueue' = eraseQueue \union {t}
    /\ \/ orphans[t] \notin setMisbehaving /\ Acceptable(t) /\ addUnchecked(t)
       \/ UNCHANGED poolVars
    /\ UNCHANGED <<coins, chain, loopVars, peers, orphans, byPrev, work, i, setMisbehaving, before>>

\* One orphan of the set at this index: queued for erasure in any case, and tried unless its
\* peer has sent an invalid one.  It may also be refused for its fee.
OrphanTurn(t) ==
    /\ t \in left /\ left' = left \ {t} /\ eraseQueue' = eraseQueue \union {t}
    /\ \/ /\ orphans[t] \notin setMisbehaving /\ Acceptable(t) /\ addUnchecked(t)
          /\ work' = Append(work, t) /\ UNCHANGED setMisbehaving
       \/ /\ orphans[t] \notin setMisbehaving /\ Punishable(t)
          /\ setMisbehaving' = setMisbehaving \union {orphans[t]} /\ UNCHANGED <<poolVars, work>>
       \/ UNCHANGED <<poolVars, work, setMisbehaving>>
    /\ UNCHANGED <<coins, chain, loopVars, peers, orphans, byPrev, i, before>>

NextInQueue ==
    /\ i < Len(work) /\ left = {}
    /\ i' = i + 1 /\ left' = byPrev[work[i + 1]]
    /\ UNCHANGED <<vars, peers, orphans, byPrev, work, eraseQueue, setMisbehaving, before>>

\* The queue is done: the erase queue is carried out.
EndOfQueue ==
    /\ work # <<>> /\ i = Len(work) /\ left = {}
    /\ Erase(eraseQueue)
    /\ work' = <<>> /\ i' = 0 /\ eraseQueue' = {} /\ setMisbehaving' = {} /\ before' = {}
    /\ UNCHANGED <<vars, peers, left>>

OrphanNext ==
    \/ work = <<>> /\ Next /\ UNCHANGED orphanVars
    \/ \E p \in Peers : InitializeNode(p) \/ FinalizeNode(p)
    \/ \E p \in Peers, t \in Txs : TxMissing(t, p) \/ TxAccepted(t, p)
    \/ \E t \in Txs : OrphanTurn(t)
    \/ NextInQueue \/ EndOfQueue

OrphanSpec == OrphanInit /\ [][OrphanNext]_allVars
-----------------------------------------------------------------------------
OrphanTypeOK ==
    /\ TypeOK
    /\ peers \subseteq Peers /\ orphans \in [Txs -> Peers \union {NoPeer}]
    /\ byPrev \in [Txids -> SUBSET Txs]
    /\ work \in Seq(Txs) /\ i \in 0..Len(work) /\ left \subseteq Txs
    /\ eraseQueue \subseteq Txs /\ setMisbehaving \subseteq Peers \union {NoPeer} /\ before \subseteq Txs

\* The index lists exactly the stored orphans under each of their parents, so that
\* mapOrphanTransactions[orphanHash] never creates an entry; and each came from a peer that
\* is still there.  LimitOrphanTxSize keeps the map within -maxorphantx.
OrphansExact ==
    /\ \A id \in Txids : byPrev[id] = {t \in OrphanSet : id \in Parents(t)}
    /\ \A t \in OrphanSet : orphans[t] \in peers
    /\ Cardinality(OrphanSet) <= MaxOrphanTxs

\* When the handler of an accepted "tx" returns, no orphan waits that spends from a
\* transaction it has brought into the pool, however long the chain of orphans.
DependentsReconsidered ==
    [][work # <<>> /\ work' = <<>> =>
        \A t \in Txs : orphans'[t] # NoPeer => Parents(t) \intersect (mapTx \ before) = {}]_allVars
=============================================================================
