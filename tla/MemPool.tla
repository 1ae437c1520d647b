------------------------------ MODULE MemPool ------------------------------
(***************************************************************************)
(* The memory pool (src/src/txmempool.cpp) under the active chain          *)
(* (ConnectTip, DisconnectTip, AcceptToMemoryPool in src/src/main.cpp):    *)
(* which transactions wait for a block, which outputs they mark as spent,  *)
(* and the coins that ConnectBlock and DisconnectBlock leave them.         *)
(*                                                                         *)
(* Everything here runs under cs_main.  The loops over a block's           *)
(* transactions are unrolled: pc names the loop and k counts in it; no     *)
(* other operation starts before pc is idle again.                         *)
(*                                                                         *)
(* A transaction is a name; Vin and Vout say what it spends and which      *)
(* spendable outputs it has.  Amounts, fees, sizes and the fee estimator   *)
(* are left out: whether a transaction pays enough, and whether a block    *)
(* is valid in other ways, is a free choice.  A coinbase is tied to its    *)
(* height by ContextualCheckBlock.                                         *)
(***************************************************************************)
EXTENDS Naturals, Sequences

CONSTANTS
    Txs, Coinbases,       \* two kinds of transaction
    Vin, Vout,            \* their inputs (a set of outpoints) and outputs (a set of positions)
    Height,               \* the height in a coinbase
    BadTxs,               \* transactions whose scripts do not verify
    NoTx,                 \* mapNextTx has no entry
    COINBASE_MATURITY,
    MaxHeight, MaxBlockTxs   \* bounds on the chain and on the transactions of a block

Txids == Txs \union Coinbases
Outpoints == Txids \X Nat

ASSUME TxAssumption ==
    /\ Txs \intersect Coinbases = {}
    /\ Vin \in [Txs -> SUBSET Outpoints] /\ \A t \in Txs : Vin[t] # {}
    /\ \A t \in Txs : \A o \in Vin[t] : o[1] # t
    /\ Vout \in [Txids -> SUBSET Nat]
    /\ Height \in [Coinbases -> Nat \ {0}]
    /\ BadTxs \subseteq Txs /\ NoTx \notin Txs
    /\ COINBASE_MATURITY \in Nat /\ MaxHeight \in Nat /\ MaxBlockTxs \in Nat

VARIABLES
    mapTx, mapNextTx,    \* the pool: its transactions; outpoint -> the transaction that spends it
    coins,               \* pcoinsTip
    chain,               \* the blocks above genesis up to its best block, with their undo data
    pc, k, blk, view     \* the loop under way, its index, its block, and ConnectBlock's view

vars == <<mapTx, mapNextTx, coins, chain, pc, k, blk, view>>

poolVars == <<mapTx, mapNextTx>>
loopVars == <<pc, k, blk, view>>

\* The outpoints that some transaction spends: the possible keys of mapNextTx.
Prevouts == UNION {Vin[t] : t \in Txs}
Out(t) == {<<t, n>> : n \in Vout[t]}

\* A CCoins; one without outputs is pruned, and all of those are equal.
CCoins == [vout : SUBSET Nat, nHeight : Nat, fCoinBase : BOOLEAN]
Pruned == [vout |-> {}, nHeight |-> 0, fCoinBase |-> FALSE]
CoinsMaps == [Txids -> CCoins]
NoCoins == [t \in Txids |-> Pruned]

\* A block: its coinbase, its other transactions, for each of these the undo data, and
\* (history) the coins before it, after the coinbase and after each transaction.
Blocks == [cb : Coinbases, vtx : Seq(Txs), undo : Seq([Txids -> CCoins]), snaps : Seq(CoinsMaps)]
NoBlock == [cb |-> NoTx, vtx |-> <<>>, undo |-> <<>>, snaps |-> <<>>]

\* nHeight of the block that would come next; chainActive follows at the end of a loop.
NextHeight == Len(chain) + 1

Init ==
    /\ mapTx = {} /\ mapNextTx = [o \in Prevouts |-> NoTx]
    /\ coins = NoCoins /\ chain = <<>>
    /\ pc = "idle" /\ k = 0 /\ blk = NoBlock /\ view = NoCoins
-----------------------------------------------------------------------------
(***************************************************************************)
(* Coins.                                                                  *)
(***************************************************************************)
Cleaned(c) == IF c.vout = {} THEN Pruned ELSE c

\* FromTx: the coins of a transaction at a height.
FromTx(t, h) == Cleaned([vout |-> Vout[t], nHeight |-> h, fCoinBase |-> t \in Coinbases])

\* The outputs of id that t spends.
Spent(t, id) == {o[2] : o \in {p \in Vin[t] : p[1] = id}}

HaveInputs(c, t) == \A o \in Vin[t] : o[2] \in c[o[1]].vout

\* CheckInputs, apart from the scripts, for a block at height h.
Mature(c, t, h) ==
    \A o \in Vin[t] : c[o[1]].fCoinBase => h - c[o[1]].nHeight >= COINBASE_MATURITY

\* Spend: what t takes from each transaction; the one that takes the last output also
\* keeps the height and the flag.
TxUndo(c, t) ==
    [id \in Txids |-> IF Spent(t, id) = {} THEN Pruned
                      ELSE IF c[id].vout \subseteq Spent(t, id)
                           THEN [c[id] EXCEPT !.vout = Spent(t, id)]
                           ELSE [vout |-> Spent(t, id), nHeight |-> 0, fCoinBase |-> FALSE]]

UpdateCoins(c, t, h) ==
    [id \in Txids |-> IF id = t THEN FromTx(t, h)
                      ELSE IF t \in Coinbases \/ Spent(t, id) = {} THEN c[id]
                      ELSE Cleaned([c[id] EXCEPT !.vout = @ \ Spent(t, id)])]

\* One turn of DisconnectBlock: the outputs of t go, its inputs come back.
RestoreCoins(c, t, u) ==
    [id \in Txids |-> IF id = t THEN Pruned
                      ELSE IF u[id].vout = {} THEN c[id]
                      ELSE IF u[id].nHeight # 0 THEN u[id]
                      ELSE [c[id] EXCEPT !.vout = @ \union u[id].vout]]

\* fClean stays true in this turn.
CleanTurn(c, t, u, h) ==
    /\ c[t] = FromTx(t, h)
    /\ \A id \in Txids : u[id].vout # {} => /\ (u[id].nHeight # 0) <=> (c[id].vout = {})
                                            /\ c[id].vout \intersect u[id].vout = {}
-----------------------------------------------------------------------------
(***************************************************************************)
(* CTxMemPool.                                                             *)
(***************************************************************************)
\* CCoinsViewMemPool on pcoinsTip: an entry of the pool hides the coins.
PoolCoins(id) == IF id \in mapTx THEN FromTx(id, MaxHeight) ELSE coins[id]

Children(t) == {mapNextTx[o] : o \in Out(t) \intersect Prevouts} \ {NoTx}

\* The least part of the pool that holds roots and all that spend from it.
Descendants(roots) ==
    {t \in mapTx : \A S \in SUBSET mapTx :
        (roots \intersect mapTx \subseteq S /\ \A s \in S : Children(s) \intersect mapTx \subseteq S) => t \in S}

\* Mutant: the marks of the removed transactions stay.
RemovingKeepsMarks(R) ==
    /\ mapTx' = mapTx \ R
    /\ mapNextTx' = mapNextTx

\* What remove leaves when it takes out the transactions R.
Removing(R) ==
    /\ mapTx' = mapTx \ R
    /\ mapNextTx' = [o \in Prevouts |-> IF \E t \in R : o \in Vin[t] THEN NoTx ELSE mapNextTx[o]]

\* remove(t, removed, true); t itself may not be in the pool.
Recursively(t) == Descendants(IF t \in mapTx THEN {t} ELSE Children(t))

\* Mutant: only the direct conflicts.
ConflictsFlat(t) == {mapNextTx[o] : o \in Vin[t]} \ {NoTx, t}

\* removeConflicts, after t has left the pool.
Conflicts(t) == Descendants({mapNextTx[o] : o \in Vin[t]} \ {NoTx, t})

\* removeCoinbaseSpends at height h.
CoinbaseSpends(h) ==
    Descendants({t \in mapTx : \E o \in Vin[t] :
        /\ o[1] \notin mapTx
        /\ \/ coins[o[1]].vout = {}
           \/ coins[o[1]].fCoinBase /\ h - coins[o[1]].nHeight < COINBASE_MATURITY})

addUnchecked(t) ==
    /\ mapTx' = mapTx \union {t}
    /\ mapNextTx' = [o \in Prevouts |-> IF o \in Vin[t] THEN t ELSE mapNextTx[o]]

\* AcceptToMemoryPool: not there yet and no conflict in the pool or with the chain ...
Fresh(t) == t \notin mapTx /\ (\A o \in Vin[t] : mapNextTx[o] = NoTx) /\ PoolCoins(t).vout = {}
\* ... *pfMissingInputs ...
Missing(t) == Fresh(t) /\ \E o \in Vin[t] : PoolCoins(o[1]).vout = {}
\* ... and the inputs are unspent and mature and the scripts verify.
Acceptable(t) ==
    LET c == [id \in Txids |-> PoolCoins(id)]
    IN  Fresh(t) /\ HaveInputs(c, t) /\ Mature(c, t, NextHeight) /\ t \notin BadTxs

\* Sent by an RPC command or by the wallet.
AcceptToMemoryPool(t) ==
    /\ pc = "idle" /\ Acceptable(t) /\ addUnchecked(t)
    /\ UNCHANGED <<coins, chain, loopVars>>
-----------------------------------------------------------------------------
(***************************************************************************)
(* ConnectTip.  The block is any that ConnectBlock accepts.                *)
(***************************************************************************)
\* The coinbase; BIP30 is enforced on every transaction of the block.
BeginConnect(cb) ==
    /\ pc = "idle" /\ NextHeight <= MaxHeight
    /\ Height[cb] = NextHeight /\ coins[cb].vout = {}
    /\ pc' = "connect" /\ view' = UpdateCoins(coins, cb, NextHeight)
    /\ blk' = [cb |-> cb, vtx |-> <<>>, undo |-> <<>>, snaps |-> <<coins, view'>>]
    /\ UNCHANGED <<poolVars, coins, chain, k>>

ConnectTx(t) ==
    /\ pc = "connect" /\ Len(blk.vtx) < MaxBlockTxs
    /\ coins[t].vout = {} /\ \A i \in DOMAIN blk.vtx : blk.vtx[i] # t
    /\ HaveInputs(view, t) /\ Mature(view, t, NextHeight) /\ t \notin BadTxs
    /\ view' = UpdateCoins(view, t, NextHeight)
    /\ blk' = [blk EXCEPT !.vtx = Append(@, t), !.undo = Append(@, TxUndo(view, t)),
                          !.snaps = Append(@, view')]
    /\ UNCHANGED <<poolVars, coins, chain, pc, k>>

\* The block is found to be invalid: the view is dropped.
ConnectFails ==
    /\ pc = "connect"
    /\ pc' = "idle" /\ blk' = NoBlock /\ view' = NoCoins
    /\ UNCHANGED <<poolVars, coins, chain, k>>

\* The undo data are written and the view flushed.
FlushConnect ==
    /\ pc = "connect"
    /\ coins' = view /\ chain' = Append(chain, blk)
    /\ pc' = "remove" /\ k' = 1 /\ view' = NoCoins
    /\ UNCHANGED <<poolVars, blk>>

\* Mutant: a transaction of the block is removed with its descendants.
RemoveRecursive ==
    /\ pc = "remove" /\ k <= Len(blk.vtx)
    /\ LET t == blk.vtx[k] IN Removing(IF t \in mapTx THEN Recursively(t) ELSE Conflicts(t))
    /\ k' = k + 1 /\ UNCHANGED <<coins, chain, pc, blk, view>>

\* A turn of removeForBlock: remove takes t's own marks, so that conflicts are found only
\* when t was not in the pool.
RemoveForBlock ==
    /\ pc = "remove" /\ k <= Len(blk.vtx)
    /\ LET t == blk.vtx[k] IN Removing(IF t \in mapTx THEN {t} ELSE Conflicts(t))
    /\ k' = k + 1 /\ UNCHANGED <<coins, chain, pc, blk, view>>

\* UpdateTip.
EndConnect ==
    /\ pc = "remove" /\ k > Len(blk.vtx)
    /\ pc' = "idle" /\ k' = 0 /\ blk' = NoBlock
    /\ UNCHANGED <<poolVars, coins, chain, view>>
-----------------------------------------------------------------------------
(***************************************************************************)
(* DisconnectTip.                                                          *)
(***************************************************************************)
DisconnectTip ==
    /\ pc = "idle" /\ chain # <<>>
    /\ pc' = "disconnect" /\ view' = coins
    /\ blk' = chain[Len(chain)] /\ k' = Len(chain[Len(chain)].vtx)
    /\ UNCHANGED <<poolVars, coins, chain>>

\* Mutant: first to last.
DisconnectForward ==
    /\ pc = "disconnect" /\ k > 0
    /\ LET i == Len(blk.vtx) + 1 - k IN view' = RestoreCoins(view, blk.vtx[i], blk.undo[i])
    /\ k' = k - 1 /\ UNCHANGED <<poolVars, coins, chain, pc, blk>>

\* DisconnectBlock, last to first.
DisconnectTx ==
    /\ pc = "disconnect" /\ k > 0
    /\ CleanTurn(view, blk.vtx[k], blk.undo[k], Len(chain))
    /\ view' = RestoreCoins(view, blk.vtx[k], blk.undo[k])
    /\ k' = k - 1 /\ UNCHANGED <<poolVars, coins, chain, pc, blk>>

\* At the coinbase; the view is flushed.
FlushDisconnect ==
    /\ pc = "disconnect" /\ k = 0
    /\ view[blk.cb] = FromTx(blk.cb, Len(chain))
    /\ coins' = [view EXCEPT ![blk.cb] = Pruned]
    /\ chain' = SubSeq(chain, 1, Len(chain) - 1)
    /\ pc' = "resurrect" /\ view' = NoCoins
    /\ UNCHANGED <<poolVars, k, blk>>

\* The loop over block.vtx: accepted again, or removed with all that spends from it.
Resurrect ==
    /\ pc = "resurrect" /\ k <= Len(blk.vtx)
    /\ \/ k = 0 /\ Removing(Recursively(blk.cb))
       \/ k > 0 /\ Acceptable(blk.vtx[k]) /\ addUnchecked(blk.vtx[k])
       \/ k > 0 /\ Removing(Recursively(blk.vtx[k]))
    /\ k' = k + 1 /\ UNCHANGED <<coins, chain, pc, blk, view>>

\* removeCoinbaseSpends and UpdateTip.
EndDisconnect ==
    /\ pc = "resurrect" /\ k > Len(blk.vtx)
    /\ Removing(CoinbaseSpends(NextHeight))
    /\ pc' = "idle" /\ k' = 0 /\ blk' = NoBlock
    /\ UNCHANGED <<coins, chain, view>>

Next ==
    \/ \E t \in Txs : AcceptToMemoryPool(t) \/ ConnectTx(t)
    \/ \E cb \in Coinbases : BeginConnect(cb)
    \/ ConnectFails \/ FlushConnect \/ RemoveForBlock \/ EndConnect
    \/ DisconnectTip \/ DisconnectTx \/ FlushDisconnect \/ Resurrect \/ EndDisconnect

Spec == Init /\ [][Next]_vars
-----------------------------------------------------------------------------
(***************************************************************************)
(* Properties.                                                             *)
(***************************************************************************)
TypeOK ==
    /\ mapTx \subseteq Txs /\ mapNextTx \in [Prevouts -> Txs \union {NoTx}]
    /\ coins \in CoinsMaps /\ view \in CoinsMaps
    /\ chain \in Seq(Blocks) /\ blk \in Blocks \union {NoBlock}
    /\ pc \in {"idle", "connect", "remove", "disconnect", "resurrect"} /\ k \in Nat

\* CTxMemPool::check: mapNextTx marks exactly the inputs of the transactions in the pool,
\* so that no two of them spend the same output.
NextTxExact == \A o \in Prevouts, t \in Txs : mapNextTx[o] = t <=> t \in mapTx /\ o \in Vin[t]

\* CTxMemPool::check: between blocks every input of a transaction in the pool is an output
\* of another one in the pool or an unspent and mature coin: the whole pool could be mined.
PoolSpendable ==
    pc = "idle" =>
        \A t \in mapTx : \A o \in Vin[t] :
            IF o[1] \in mapTx THEN o[2] \in Vout[o[1]]
            ELSE /\ o[2] \in coins[o[1]].vout
                 /\ coins[o[1]].fCoinBase => NextHeight - coins[o[1]].nHeight >= COINBASE_MATURITY

\* "guaranteed to never conflict with the underlying cache" (CCoinsViewMemPool::GetCoins).
PoolNotInChain == pc = "idle" => \A t \in mapTx : coins[t].vout = {}

\* Both: the pool stays a possible continuation of the chain through every reorganisation.
PoolFollowsChain == PoolSpendable /\ PoolNotInChain

\* DisconnectBlock is the inverse of ConnectBlock: turn by turn it finds the coins as the
\* block had made them, heights and coinbase flags included, with fClean true.
UndoExact ==
    /\ pc = "disconnect" => /\ view = blk.snaps[k + 2]
                            /\ k > 0 => CleanTurn(view, blk.vtx[k], blk.undo[k], Len(chain))
    /\ pc = "resurrect" => coins = blk.snaps[1]

\* A transaction leaves the pool only for a block that has it, or when an input of it cannot
\* be spent any more: nothing is lost in a reorganisation without a reason.
LeavesForCause ==
    [][\A t \in mapTx \ mapTx' :
        \/ pc = "remove" /\ t = blk.vtx[k]
        \/ \E o \in Vin[t] :
            /\ o[1] \notin mapTx'
            /\ \/ o[2] \notin coins[o[1]].vout
               \/ coins[o[1]].fCoinBase /\ NextHeight - coins[o[1]].nHeight < COINBASE_MATURITY]_vars
=============================================================================
