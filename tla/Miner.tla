------------------------------- MODULE Miner -------------------------------
(***************************************************************************)
(* CreateNewBlock (src/src/miner.cpp): a block is put together from the    *)
(* memory pool, parents before children.  It holds cs_main and mempool.cs; *)
(* its loop over the priority queue is unrolled, and the order of the      *)
(* queue, which depends on amounts and sizes, is a free choice, as is a    *)
(* transaction being passed over for a limit of the block.  Lock times     *)
(* are left out.  What becomes of the block afterwards is in MemPool: any  *)
(* valid block may be connected.                                           *)
(***************************************************************************)
EXTENDS OrphanTxs

VARIABLES
    creating,             \* CreateNewBlock is under way
    vecPriority,          \* the queue
    setDependsOn,         \* what each transaction of the pool still waits for
    included, mview,      \* the transactions of the block, and its view
    passedOver            \* history: left out for a limit

minerVars == <<creating, vecPriority, setDependsOn, included, mview, passedOver>>

MinerInit ==
    /\ OrphanInit
    /\ creating = FALSE /\ vecPriority = {} /\ setDependsOn = [t \in Txs |-> {}]
    /\ included = {} /\ mview = NoCoins /\ passedOver = {}

\* The first loop.  One that misses an input in the chain and in the pool would never leave
\* setDependsOn, as the code drops it; PoolFollowsChain says that there is none.
BeginBlock ==
    /\ Idle /\ ~creating /\ creating' = TRUE
    /\ setDependsOn' = [t \in Txs |->
                          IF t \in mapTx THEN {id \in Parents(t) : coins[id].vout = {}} ELSE {}]
    /\ vecPriority' = {t \in mapTx : setDependsOn'[t] = {}}
    /\ mview' = coins /\ UNCHANGED <<allVars, included, passedOver>>

\* Mutant: one parent in the block is enough.
IncludeTxEarly(t) ==
    /\ creating /\ t \in vecPriority
    /\ IF HaveInputs(mview, t) /\ Mature(mview, t, NextHeight) /\ t \notin BadTxs
       THEN /\ included' = included \union {t} /\ mview' = UpdateCoins(mview, t, NextHeight)
            /\ setDependsOn' = [u \in Txs |-> IF t \in setDependsOn[u] THEN {} ELSE setDependsOn[u]]
            /\ vecPriority' = (vecPriority \ {t}) \union {u \in mapTx : t \in setDependsOn[u]}
       ELSE vecPriority' = vecPriority \ {t} /\ UNCHANGED <<setDependsOn, included, mview>>
    /\ UNCHANGED <<allVars, creating, passedOver>>

\* A turn of the second loop; the last parent in the block releases its dependers.
IncludeTx(t) ==
    /\ creating /\ t \in vecPriority
    /\ IF HaveInputs(mview, t) /\ Mature(mview, t, NextHeight) /\ t \notin BadTxs
       THEN /\ included' = included \union {t} /\ mview' = UpdateCoins(mview, t, NextHeight)
            /\ setDependsOn' = [u \in Txs |-> setDependsOn[u] \ {t}]
            /\ vecPriority' = (vecPriority \ {t}) \union {u \in mapTx : setDependsOn[u] = {t}}
       ELSE vecPriority' = vecPriority \ {t} /\ UNCHANGED <<setDependsOn, included, mview>>
    /\ UNCHANGED <<allVars, creating, passedOver>>

\* A turn that ends with a limit of the block: size, signature operations, free transactions.
PassOver(t) ==
    /\ creating /\ t \in vecPriority /\ vecPriority' = vecPriority \ {t}
    /\ passedOver' = passedOver \union {t}
    /\ UNCHANGED <<allVars, creating, setDependsOn, included, mview>>

EndBlock ==
    /\ creating /\ vecPriority = {} /\ creating' = FALSE
    /\ setDependsOn' = [t \in Txs |-> {}]
    /\ included' = {} /\ mview' = NoCoins /\ passedOver' = {}
    /\ UNCHANGED <<allVars, vecPriority>>

MinerNext ==
    \/ ~creating /\ OrphanNext /\ UNCHANGED minerVars
    \/ BeginBlock \/ EndBlock \/ \E t \in Txs : IncludeTx(t) \/ PassOver(t)

MinerSpec == MinerInit /\ [][MinerNext]_<<allVars, minerVars>>
-----------------------------------------------------------------------------
\* "CreateNewBlock() : TestBlockValidity failed" is never thrown: whatever the order of the
\* queue, the next transaction of the block is new to the chain, finds its inputs unspent and
\* mature and is not refused; and no transaction of the pool stays out of the block without a
\* reason, a limit or a parent that is not in the block.
TemplateSound ==
    creating =>
        /\ \A t \in vecPriority :
            /\ coins[t].vout = {} /\ t \notin included
            /\ HaveInputs(mview, t) /\ Mature(mview, t, NextHeight) /\ t \notin BadTxs
        /\ vecPriority = {} =>
            \A t \in mapTx \ (included \union passedOver) : Parents(t) \intersect (mapTx \ included) # {}
=============================================================================
