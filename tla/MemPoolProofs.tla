--------------------------- MODULE MemPoolProofs ---------------------------
(***************************************************************************)
(* The memory pool, the coins under it and the orphan transactions, for    *)
(* any set of transactions, any chain and any number of peers.             *)
(*                                                                         *)
(* That DisconnectBlock undoes ConnectBlock rests on what every block of   *)
(* the chain keeps in its history (BlockGood): each turn of ConnectBlock   *)
(* started from coins in which the new transaction was pruned and all its  *)
(* inputs were there, and left the undo data of exactly those coins; and   *)
(* each block started where the one before it had ended.                   *)
(***************************************************************************)
EXTENDS Miner, TLAPS, FiniteSetTheorems, SequenceTheorems

\* pcoinsTip and the views: a pruned entry has nothing left, another one has a height.
CoinsGood(c) ==
    /\ c \in CoinsMaps
    /\ \A id \in Txids : IF c[id].vout = {} THEN c[id] = Pruned ELSE c[id].nHeight # 0

\* The coins after a block.
After(b) == b.snaps[Len(b.snaps)]

\* A turn of ConnectBlock at height h, from coins c: what it demands and what it leaves.
TurnGood(c, t, u, d, h) ==
    /\ CoinsGood(c) /\ c[t] = Pruned /\ HaveInputs(c, t)
    /\ u = TxUndo(c, t) /\ d = UpdateCoins(c, t, h)

BlockGood(b, h) ==
    /\ b \in Blocks /\ Len(b.undo) = Len(b.vtx) /\ Len(b.snaps) = Len(b.vtx) + 2
    /\ CoinsGood(b.snaps[1]) /\ b.snaps[1][b.cb] = Pruned
    /\ b.snaps[2] = UpdateCoins(b.snaps[1], b.cb, h)
    /\ \A j \in 1..Len(b.vtx) : TurnGood(b.snaps[j + 1], b.vtx[j], b.undo[j], b.snaps[j + 2], h)

\* Every block is good and starts where the one below ends; pcoinsTip is the last end.
ChainGood ==
    /\ \A h \in 1..Len(chain) :
        /\ BlockGood(chain[h], h)
        /\ chain[h].snaps[1] = IF h = 1 THEN NoCoins ELSE After(chain[h - 1])
    /\ coins = IF chain = <<>> THEN NoCoins ELSE After(chain[Len(chain)])

\* ConnectBlock under way.
ConnectGood ==
    pc = "connect" =>
        /\ BlockGood(blk, Len(chain) + 1)
        /\ blk.snaps[1] = coins /\ view = After(blk) /\ CoinsGood(view)
        /\ \A t \in Txs : coins[t].vout = {} /\ (\A j \in DOMAIN blk.vtx : blk.vtx[j] # t)
                            => view[t].vout = {}

\* DisconnectBlock under way: the view is what the turn before had found.
DisconnectGood ==
    /\ pc = "disconnect" => /\ chain # <<>> /\ blk = chain[Len(chain)]
                            /\ k \in 0..Len(blk.vtx) /\ view = blk.snaps[k + 2]
    /\ pc = "resurrect" => blk \in Blocks /\ coins = blk.snaps[1]

\* The parts of TypeOK.
CoinsType ==
    /\ coins \in CoinsMaps /\ view \in CoinsMaps
    /\ chain \in Seq(Blocks) /\ blk \in Blocks \union {NoBlock}
    /\ pc \in {"idle", "connect", "remove", "disconnect", "resurrect"} /\ k \in Nat
PoolType == mapTx \subseteq Txs /\ mapNextTx \in [Prevouts -> Txs \union {NoTx}]

CoinsInv == CoinsType /\ ChainGood /\ CoinsGood(coins) /\ ConnectGood /\ DisconnectGood
PoolInv == PoolType /\ NextTxExact
OrphanInv ==
    /\ peers \subseteq Peers /\ orphans \in [Txs -> Peers \union {NoPeer}]
    /\ byPrev \in [Txids -> SUBSET Txs]
    /\ work \in Seq(Txs) /\ i \in 0..Len(work) /\ left \subseteq Txs
    /\ eraseQueue \subseteq Txs /\ setMisbehaving \subseteq Peers \union {NoPeer} /\ before \subseteq Txs
    /\ IsFiniteSet(OrphanSet) /\ OrphansExact
IInv == CoinsInv /\ PoolInv /\ OrphanInv

USE TxAssumption, OrphanAssumption
-----------------------------------------------------------------------------
(***************************************************************************)
(* Coins: UpdateCoins and its undo data.                                   *)
(***************************************************************************)
LEMMA SpentType ==
    ASSUME NEW t \in Txs
    PROVE  /\ Vin[t] \subseteq Outpoints /\ Vin[t] \subseteq Prevouts
           /\ \A o \in Vin[t] : o[1] \in Txids /\ o[2] \in Nat /\ o[1] # t
           /\ \A id : Spent(t, id) \subseteq Nat
           /\ Spent(t, t) = {}
<1>1. Vin[t] \subseteq Outpoints /\ Vin[t] \subseteq Prevouts
  BY DEF TxAssumption, Prevouts
<1>2. \A o \in Vin[t] : o[1] \in Txids /\ o[2] \in Nat /\ o[1] # t
  BY <1>1 DEF TxAssumption, Outpoints
<1> QED
  BY <1>1, <1>2 DEF Spent

LEMMA GoodType ==
    ASSUME NEW c, CoinsGood(c)
    PROVE  c \in CoinsMaps /\ \A id \in Txids : c[id].vout = {} => c[id] = Pruned
BY DEF CoinsGood

LEMMA Appended ==
    ASSUME NEW S, NEW s \in Seq(S), NEW x \in S
    PROVE  /\ Append(s, x) \in Seq(S) /\ Len(Append(s, x)) = Len(s) + 1 /\ Len(s) \in Nat
           /\ \A j \in 1..Len(s) : Append(s, x)[j] = s[j]
           /\ Append(s, x)[Len(s) + 1] = x
           /\ DOMAIN s = 1..Len(s) /\ DOMAIN Append(s, x) = 1..(Len(s) + 1)
OBVIOUS

LEMMA WithoutLast ==
    ASSUME NEW S, NEW s \in Seq(S), Len(s) \in Nat \ {0}
    PROVE  /\ SubSeq(s, 1, Len(s) - 1) \in Seq(S)
           /\ Len(SubSeq(s, 1, Len(s) - 1)) = Len(s) - 1
           /\ \A j \in 1..(Len(s) - 1) : SubSeq(s, 1, Len(s) - 1)[j] = s[j]
<1>1. PICK e : e = Len(s) - 1
  OBVIOUS
<1>2. e \in Nat /\ \A j \in 1..e : s[j] \in S
  BY <1>1
<1>3. /\ SubSeq(s, 1, e) \in Seq(S) /\ Len(SubSeq(s, 1, e)) = IF 1 <= e THEN e - 1 + 1 ELSE 0
      /\ \A j \in 1..(e - 1 + 1) : SubSeq(s, 1, e)[j] = s[1 + j - 1]
  BY <1>2, SubSeqProperties
<1>4. (e - 1 + 1 = e) /\ (1 <= e \/ e = 0) /\ \A j \in 1..e : 1 + j - 1 = j
  BY <1>2
<1> QED
  BY <1>1, <1>3, <1>4

LEMMA NoCoinsGood == CoinsGood(NoCoins)
BY DEF CoinsGood, NoCoins, CoinsMaps, Pruned, CCoins

LEMMA FromTxGood ==
    ASSUME NEW t \in Txids, NEW h \in Nat \ {0}
    PROVE  /\ FromTx(t, h) \in CCoins
           /\ FromTx(t, h).vout = {} => FromTx(t, h) = Pruned
           /\ FromTx(t, h).vout # {} => FromTx(t, h).nHeight = h
<1>1. Vout[t] \in SUBSET Nat
  BY DEF TxAssumption
<1>2. [vout |-> Vout[t], nHeight |-> h, fCoinBase |-> t \in Coinbases] \in CCoins
  BY <1>1 DEF CCoins
<1> QED
  BY <1>2 DEF FromTx, Cleaned, Pruned, CCoins

LEMMA UndoType ==
    ASSUME NEW c, CoinsGood(c), NEW t \in Txs
    PROVE  TxUndo(c, t) \in CoinsMaps
<1> SUFFICES ASSUME NEW id \in Txids PROVE TxUndo(c, t)[id] \in CCoins
  BY DEF TxUndo, CoinsMaps
<1>1. c[id] \in CCoins /\ Spent(t, id) \in SUBSET Nat
  BY SpentType DEF CoinsGood, CoinsMaps
<1>2. /\ Pruned \in CCoins /\ [c[id] EXCEPT !.vout = Spent(t, id)] \in CCoins
      /\ [vout |-> Spent(t, id), nHeight |-> 0, fCoinBase |-> FALSE] \in CCoins
  BY <1>1 DEF CCoins, Pruned
<1> QED
  BY <1>2 DEF TxUndo

\* UpdateCoins of a transaction whose inputs are all there.
LEMMA UpdateGood ==
    ASSUME NEW c, CoinsGood(c), NEW t \in Txids, NEW h \in Nat \ {0}
    PROVE  CoinsGood(UpdateCoins(c, t, h))
<1>1. ASSUME NEW id \in Txids
      PROVE  /\ UpdateCoins(c, t, h)[id] \in CCoins
             /\ IF UpdateCoins(c, t, h)[id].vout = {} THEN UpdateCoins(c, t, h)[id] = Pruned
                ELSE UpdateCoins(c, t, h)[id].nHeight # 0
  <2>1. c[id] \in CCoins /\ IF c[id].vout = {} THEN c[id] = Pruned ELSE c[id].nHeight # 0
    BY DEF CoinsGood, CoinsMaps
  <2>2. CASE id = t
    BY <2>2, FromTxGood DEF UpdateCoins
  <2>3. CASE id # t /\ (t \in Coinbases \/ Spent(t, id) = {})
    BY <2>1, <2>3 DEF UpdateCoins
  <2>4. CASE id # t /\ ~(t \in Coinbases \/ Spent(t, id) = {})
    <3>1. PICK e : e = [c[id] EXCEPT !.vout = @ \ Spent(t, id)]
      OBVIOUS
    <3>2. e \in CCoins /\ e.nHeight = c[id].nHeight /\ e.vout = c[id].vout \ Spent(t, id)
      BY <2>1, <3>1 DEF CCoins
    <3>3. UpdateCoins(c, t, h)[id] = Cleaned(e)
      BY <2>4, <3>1 DEF UpdateCoins
    <3>4. c[id].vout = {} => e.vout = {}
      BY <3>2
    <3> QED
      BY <2>1, <3>2, <3>3, <3>4 DEF Cleaned, Pruned, CCoins
  <2> QED
    BY <2>2, <2>3, <2>4
<1>2. UpdateCoins(c, t, h) \in CoinsMaps
  BY <1>1 DEF UpdateCoins, CoinsMaps
<1> QED
  BY <1>1, <1>2 DEF CoinsGood

\* What t does not touch stays pruned.
LEMMA PrunedStays ==
    ASSUME NEW c, CoinsGood(c), NEW t \in Txids, NEW h, NEW id \in Txids, id # t, c[id].vout = {},
           t \in Txs => HaveInputs(c, t)
    PROVE  UpdateCoins(c, t, h)[id].vout = {}
<1>1. CASE t \in Coinbases
  BY <1>1 DEF UpdateCoins
<1>2. CASE t \in Txs
  <2>1. Spent(t, id) = {}
    BY <1>2 DEF HaveInputs, Spent
  <2> QED
    BY <2>1 DEF UpdateCoins
<1> QED
  BY <1>1, <1>2 DEF Txids

\* One turn of DisconnectBlock undoes one turn of ConnectBlock, and finds it clean.
LEMMA TurnUndone ==
    ASSUME NEW c, NEW t \in Txs, NEW u, NEW d, NEW h \in Nat \ {0}, TurnGood(c, t, u, d, h)
    PROVE  CleanTurn(d, t, u, h) /\ RestoreCoins(d, t, u) = c
<1>1. t \in Txids /\ t \notin Coinbases
  BY DEF Txids, TxAssumption
<1>2. c \in CoinsMaps /\ c[t] = Pruned
  BY DEF TurnGood, CoinsGood
<1>3. ASSUME NEW id \in Txids
      PROVE  /\ u[id].vout = {} <=> Spent(t, id) = {}
             /\ u[id].vout # {} => /\ (u[id].nHeight # 0) <=> (d[id].vout = {})
                                   /\ d[id].vout \intersect u[id].vout = {}
             /\ RestoreCoins(d, t, u)[id] = c[id]
  <2>1. c[id] \in CCoins /\ IF c[id].vout = {} THEN c[id] = Pruned ELSE c[id].nHeight # 0
    BY DEF TurnGood, CoinsGood, CoinsMaps
  <2>2. Spent(t, id) \subseteq c[id].vout
    BY DEF TurnGood, HaveInputs, Spent
  <2>3. /\ u[id] = IF Spent(t, id) = {} THEN Pruned
                   ELSE IF c[id].vout \subseteq Spent(t, id) THEN [c[id] EXCEPT !.vout = Spent(t, id)]
                   ELSE [vout |-> Spent(t, id), nHeight |-> 0, fCoinBase |-> FALSE]
        /\ d[id] = IF id = t THEN FromTx(t, h)
                   ELSE IF Spent(t, id) = {} THEN c[id]
                   ELSE Cleaned([c[id] EXCEPT !.vout = @ \ Spent(t, id)])
    BY <1>1 DEF TurnGood, TxUndo, UpdateCoins
  <2>4. CASE Spent(t, id) = {}
    BY <1>2, <2>3, <2>4 DEF RestoreCoins, Pruned
  <2>5. CASE Spent(t, id) # {} /\ c[id].vout = Spent(t, id)
    <3>1. id # t
      BY <2>5, SpentType
    <3>2. u[id] = c[id]
      BY <2>1, <2>3, <2>5 DEF CCoins
    <3>3. d[id].vout = {}
      <4>1. [c[id] EXCEPT !.vout = @ \ Spent(t, id)].vout = {}
        BY <2>1, <2>5 DEF CCoins
      <4> QED
        BY <2>3, <2>5, <3>1, <4>1 DEF Cleaned, Pruned
    <3> QED
      BY <2>1, <2>5, <3>1, <3>2, <3>3 DEF RestoreCoins
  <2>6. CASE Spent(t, id) # {} /\ c[id].vout # Spent(t, id)
    <3>1. id # t
      BY <2>6, SpentType
    <3>2. u[id] = [vout |-> Spent(t, id), nHeight |-> 0, fCoinBase |-> FALSE]
      BY <2>2, <2>3, <2>6
    <3>3. PICK e : e = [c[id] EXCEPT !.vout = @ \ Spent(t, id)]
      OBVIOUS
    <3>4. e \in CCoins /\ e.vout = c[id].vout \ Spent(t, id) /\ e.vout # {}
      BY <2>1, <2>2, <2>6, <3>3 DEF CCoins
    <3>5. d[id] = e
      BY <2>3, <2>6, <3>1, <3>3, <3>4 DEF Cleaned
    <3>6. [e EXCEPT !.vout = @ \union Spent(t, id)] = c[id]
      <4>1. (c[id].vout \ Spent(t, id)) \union Spent(t, id) = c[id].vout
        BY <2>2
      <4> QED
        BY <2>1, <3>3, <4>1 DEF CCoins
    <3>7. u[id].vout = Spent(t, id) /\ u[id].nHeight = 0
      BY <3>2
    <3>8. RestoreCoins(d, t, u)[id] = c[id]
      <4>1. RestoreCoins(d, t, u)[id] = [d[id] EXCEPT !.vout = @ \union u[id].vout]
        BY <2>6, <3>1, <3>7 DEF RestoreCoins
      <4> QED
        BY <3>5, <3>6, <3>7, <4>1
    <3> QED
      BY <2>6, <3>4, <3>5, <3>7, <3>8
  <2> QED
    BY <2>2, <2>4, <2>5, <2>6
<1>4. d[t] = FromTx(t, h)
  BY <1>1 DEF TurnGood, UpdateCoins
<1>5. RestoreCoins(d, t, u) = c
  BY <1>2, <1>3 DEF RestoreCoins, CoinsMaps
<1> QED
  BY <1>3, <1>4, <1>5 DEF CleanTurn
-----------------------------------------------------------------------------
(***************************************************************************)
(* The steps of ConnectTip and DisconnectTip on the coins.                 *)
(***************************************************************************)
LEMMA CoinsSame ==
    ASSUME CoinsInv, UNCHANGED <<coins, chain, pc, k, blk, view>>
    PROVE  CoinsInv'
BY DEF CoinsInv, CoinsType, ChainGood, ConnectGood, DisconnectGood

\* A loop is left, or goes on over the pool only.
LEMMA CoinsIdle ==
    ASSUME CoinsInv, ConnectFails \/ RemoveForBlock \/ EndConnect \/ Resurrect \/ EndDisconnect
    PROVE  CoinsInv'
<1>1. CASE ConnectFails \/ EndConnect \/ EndDisconnect
  <2>1. CoinsType'
    BY <1>1, NoCoinsGood DEF CoinsInv, CoinsType, ConnectFails, EndConnect, EndDisconnect, CoinsGood
  <2>2. pc' = "idle" /\ coins' = coins /\ chain' = chain
    BY <1>1 DEF ConnectFails, EndConnect, EndDisconnect
  <2> QED
    BY <2>1, <2>2 DEF CoinsInv, ChainGood, ConnectGood, DisconnectGood
<1>2. CASE RemoveForBlock \/ Resurrect
  <2>1. pc \in {"remove", "resurrect"} /\ k' = k + 1 /\ UNCHANGED <<coins, chain, pc, blk, view>>
    BY <1>2 DEF RemoveForBlock, Resurrect
  <2>2. CoinsType'
    BY <2>1 DEF CoinsInv, CoinsType
  <2> QED
    BY <2>1, <2>2 DEF CoinsInv, ChainGood, ConnectGood, DisconnectGood
<1> QED
  BY <1>1, <1>2

LEMMA CoinsBegin ==
    ASSUME CoinsInv, NEW c \in Coinbases, BeginConnect(c)
    PROVE  CoinsInv'
<1>1. /\ coins[c].vout = {} /\ pc' = "connect" /\ view' = UpdateCoins(coins, c, NextHeight)
      /\ blk' = [cb |-> c, vtx |-> <<>>, undo |-> <<>>, snaps |-> <<coins, view'>>]
      /\ UNCHANGED <<coins, chain, k>>
  BY DEF BeginConnect
<1>2. NextHeight \in Nat \ {0} /\ NextHeight = Len(chain) + 1 /\ c \in Txids /\ c \notin Txs
  BY DEF CoinsInv, CoinsType, NextHeight, Txids, TxAssumption
<1>3. CoinsGood(view') /\ view' \in CoinsMaps /\ coins \in CoinsMaps
  BY <1>1, <1>2, UpdateGood, GoodType DEF CoinsInv
<1>4. /\ blk'.cb = c /\ blk'.vtx = <<>> /\ blk'.undo = <<>> /\ blk'.snaps = <<coins, view'>>
      /\ blk' \in Blocks
  <2>1. <<coins, view'>> \in Seq(CoinsMaps) /\ <<>> \in Seq(Txs) /\ <<>> \in Seq([Txids -> CCoins])
    BY <1>3
  <2> QED
    BY <1>1, <2>1 DEF Blocks
<1>5. coins[c] = Pruned
  BY <1>1, <1>2 DEF CoinsInv, CoinsGood
<1>6. BlockGood(blk', Len(chain) + 1) /\ blk'.snaps[1] = coins /\ After(blk') = view'
  BY <1>1, <1>2, <1>4, <1>5 DEF BlockGood, After, CoinsInv
<1>7. ASSUME NEW t \in Txs, coins[t].vout = {} PROVE view'[t].vout = {}
  BY <1>1, <1>2, <1>7, PrunedStays DEF CoinsInv, Txids
<1>8. CoinsType'
  BY <1>1, <1>3, <1>4 DEF CoinsInv, CoinsType
<1>9. ChainGood' /\ CoinsGood(coins)' /\ DisconnectGood'
  BY <1>1 DEF CoinsInv, ChainGood, DisconnectGood
<1>10. ConnectGood'
  BY <1>1, <1>3, <1>6, <1>7 DEF ConnectGood
<1> QED
  BY <1>8, <1>9, <1>10 DEF CoinsInv

LEMMA CoinsConnectTx ==
    ASSUME CoinsInv, NEW t \in Txs, ConnectTx(t)
    PROVE  CoinsInv'
<1>1. /\ pc = "connect" /\ pc' = "connect" /\ UNCHANGED <<coins, chain, k>>
      /\ coins[t].vout = {} /\ \A j \in DOMAIN blk.vtx : blk.vtx[j] # t
      /\ HaveInputs(view, t)
      /\ view' = UpdateCoins(view, t, NextHeight)
      /\ blk' = [blk EXCEPT !.vtx = Append(@, t), !.undo = Append(@, TxUndo(view, t)),
                            !.snaps = Append(@, view')]
  BY DEF ConnectTx
<1>2. NextHeight \in Nat \ {0} /\ NextHeight = Len(chain) + 1 /\ t \in Txids
  BY DEF CoinsInv, CoinsType, NextHeight, Txids
<1>3. /\ BlockGood(blk, Len(chain) + 1)
      /\ blk.snaps[1] = coins /\ view = After(blk) /\ CoinsGood(view)
      /\ \A u \in Txs : coins[u].vout = {} /\ (\A j \in DOMAIN blk.vtx : blk.vtx[j] # u)
                            => view[u].vout = {}
  BY <1>1 DEF CoinsInv, ConnectGood
<1>4. CoinsGood(view') /\ view' \in CoinsMaps /\ TxUndo(view, t) \in [Txids -> CCoins]
  <2>1. CoinsGood(view')
    BY <1>1, <1>2, <1>3, UpdateGood
  <2>2. TxUndo(view, t) \in CoinsMaps
    BY <1>3, UndoType
  <2> QED
    BY <2>1, <2>2, GoodType DEF CoinsMaps
<1>5. /\ blk \in Blocks /\ blk.vtx \in Seq(Txs) /\ blk.undo \in Seq([Txids -> CCoins])
      /\ blk.snaps \in Seq(CoinsMaps)
      /\ Len(blk.undo) = Len(blk.vtx) /\ Len(blk.snaps) = Len(blk.vtx) + 2
  BY <1>3 DEF BlockGood, Blocks
<1>6. /\ blk'.cb = blk.cb /\ blk'.vtx = Append(blk.vtx, t)
      /\ blk'.undo = Append(blk.undo, TxUndo(view, t)) /\ blk'.snaps = Append(blk.snaps, view')
      /\ blk' \in Blocks
  <2>1. /\ Append(blk.vtx, t) \in Seq(Txs) /\ Append(blk.undo, TxUndo(view, t)) \in Seq([Txids -> CCoins])
        /\ Append(blk.snaps, view') \in Seq(CoinsMaps)
    BY <1>4, <1>5, Appended
  <2> QED
    BY <1>1, <1>5, <2>1 DEF Blocks
<1>7. view[t] = Pruned
  BY <1>1, <1>2, <1>3 DEF CoinsGood
<1>8. TurnGood(view, t, TxUndo(view, t), view', Len(chain) + 1)
  BY <1>1, <1>2, <1>3, <1>7 DEF TurnGood
<1> DEFINE L == Len(blk.vtx)
<1>9. /\ L \in Nat /\ Len(blk'.vtx) = L + 1 /\ Len(blk'.undo) = L + 1 /\ Len(blk'.snaps) = L + 3
      /\ \A j \in 1..L : blk'.vtx[j] = blk.vtx[j] /\ blk'.undo[j] = blk.undo[j]
      /\ blk'.vtx[L + 1] = t /\ blk'.undo[L + 1] = TxUndo(view, t)
      /\ \A j \in 1..(L + 2) : blk'.snaps[j] = blk.snaps[j]
      /\ blk'.snaps[L + 3] = view' /\ blk.snaps[L + 2] = view
      /\ DOMAIN blk.vtx = 1..L /\ DOMAIN blk'.vtx = 1..(L + 1)
  <2>1. /\ L \in Nat /\ Len(blk'.vtx) = L + 1 /\ blk'.vtx[L + 1] = t
        /\ \A j \in 1..L : blk'.vtx[j] = blk.vtx[j]
        /\ DOMAIN blk.vtx = 1..L /\ DOMAIN blk'.vtx = 1..(L + 1)
    BY <1>5, <1>6, Appended
  <2>2. /\ Len(blk'.undo) = L + 1 /\ blk'.undo[L + 1] = TxUndo(view, t)
        /\ \A j \in 1..L : blk'.undo[j] = blk.undo[j]
    BY <1>4, <1>5, <1>6, Appended
  <2>3. /\ Len(blk'.snaps) = L + 3 /\ blk'.snaps[L + 3] = view'
        /\ \A j \in 1..(L + 2) : blk'.snaps[j] = blk.snaps[j]
    <3>1. /\ Len(blk'.snaps) = Len(blk.snaps) + 1 /\ blk'.snaps[Len(blk.snaps) + 1] = view'
          /\ \A j \in 1..Len(blk.snaps) : blk'.snaps[j] = blk.snaps[j]
      BY <1>4, <1>5, <1>6, Appended
    <3>2. Len(blk.snaps) = L + 2 /\ Len(blk.snaps) + 1 = L + 3
      BY <1>5, <2>1
    <3> QED
      BY <3>1, <3>2
  <2>4. blk.snaps[L + 2] = view
    BY <1>3, <1>5 DEF After
  <2> QED
    BY <2>1, <2>2, <2>3, <2>4
<1> HIDE DEF L
<1>10. BlockGood(blk', Len(chain) + 1)
  <2>1. ASSUME NEW j \in 1..(L + 1)
        PROVE  TurnGood(blk'.snaps[j + 1], blk'.vtx[j], blk'.undo[j], blk'.snaps[j + 2], Len(chain) + 1)
    <3>1. CASE j = L + 1
      <4>1. blk'.snaps[j + 1] = view /\ blk'.snaps[j + 2] = view'
        BY <1>9, <3>1
      <4> QED
        BY <1>8, <1>9, <3>1, <4>1
    <3>2. CASE j # L + 1
      <4>1. j \in 1..L /\ j + 1 \in 1..(L + 2) /\ j + 2 \in 1..(L + 2)
        BY <1>9, <3>2
      <4>2. TurnGood(blk.snaps[j + 1], blk.vtx[j], blk.undo[j], blk.snaps[j + 2], Len(chain) + 1)
        BY <1>3, <4>1 DEF BlockGood, L
      <4> QED
        BY <1>9, <4>1, <4>2
    <3> QED
      BY <3>1, <3>2
  <2>2. blk'.snaps[1] = blk.snaps[1] /\ blk'.snaps[2] = blk.snaps[2]
    BY <1>9
  <2>3. /\ CoinsGood(blk.snaps[1]) /\ blk.snaps[1][blk.cb] = Pruned
        /\ blk.snaps[2] = UpdateCoins(blk.snaps[1], blk.cb, Len(chain) + 1)
    BY <1>3 DEF BlockGood
  <2>4. /\ blk' \in Blocks /\ Len(blk'.undo) = Len(blk'.vtx) /\ Len(blk'.snaps) = Len(blk'.vtx) + 2
        /\ CoinsGood(blk'.snaps[1]) /\ blk'.snaps[1][blk'.cb] = Pruned
        /\ blk'.snaps[2] = UpdateCoins(blk'.snaps[1], blk'.cb, Len(chain) + 1)
    BY <1>6, <1>9, <2>2, <2>3
  <2>5. \A j \in 1..Len(blk'.vtx) :
          TurnGood(blk'.snaps[j + 1], blk'.vtx[j], blk'.undo[j], blk'.snaps[j + 2], Len(chain) + 1)
    BY <1>9, <2>1
  <2> QED
    BY <2>4, <2>5 DEF BlockGood
<1>11. ASSUME NEW u \in Txs, coins[u].vout = {}, \A j \in DOMAIN blk'.vtx : blk'.vtx[j] # u
       PROVE  view'[u].vout = {}
  <2>1. u # t /\ \A j \in DOMAIN blk.vtx : blk.vtx[j] # u
    BY <1>9, <1>11
  <2>2. view[u].vout = {} /\ u \in Txids
    BY <1>3, <1>11, <2>1 DEF Txids
  <2> QED
    BY <1>1, <1>2, <1>3, <2>1, <2>2, PrunedStays
<1>12. CoinsType'
  BY <1>1, <1>4, <1>6 DEF CoinsInv, CoinsType
<1>13. ChainGood' /\ CoinsGood(coins)' /\ DisconnectGood'
  BY <1>1 DEF CoinsInv, ChainGood, DisconnectGood
<1>14. After(blk') = view' /\ blk'.snaps[1] = coins
  BY <1>3, <1>9 DEF After
<1>15. ConnectGood'
  BY <1>1, <1>4, <1>10, <1>11, <1>14 DEF ConnectGood
<1> QED
  BY <1>12, <1>13, <1>15 DEF CoinsInv

\* The block is linked to the one below by its first snapshot.
LEMMA CoinsFlushConnect ==
    ASSUME CoinsInv, FlushConnect
    PROVE  CoinsInv'
<1>1. /\ pc = "connect" /\ pc' = "remove" /\ coins' = view /\ chain' = Append(chain, blk)
      /\ k' = 1 /\ view' = NoCoins /\ blk' = blk
  BY DEF FlushConnect
<1>2. /\ BlockGood(blk, Len(chain) + 1) /\ blk \in Blocks
      /\ blk.snaps[1] = coins /\ view = After(blk) /\ CoinsGood(view)
  BY <1>1 DEF CoinsInv, ConnectGood, BlockGood
<1>3. /\ chain \in Seq(Blocks) /\ chain' \in Seq(Blocks) /\ Len(chain') = Len(chain) + 1
      /\ Len(chain) \in Nat /\ \A h \in 1..Len(chain) : chain'[h] = chain[h]
      /\ chain'[Len(chain) + 1] = blk
  BY <1>1, <1>2, Appended DEF CoinsInv, CoinsType
<1>4. CoinsType' /\ CoinsGood(coins)'
  BY <1>1, <1>2, <1>3, NoCoinsGood, GoodType DEF CoinsInv, CoinsType
<1>5. ASSUME NEW h \in 1..Len(chain')
      PROVE  /\ BlockGood(chain'[h], h)
             /\ chain'[h].snaps[1] = IF h = 1 THEN NoCoins ELSE After(chain'[h - 1])
  <2>1. CASE h = Len(chain) + 1
    <3>1. coins = IF h = 1 THEN NoCoins ELSE After(chain[h - 1])
      BY <1>3, <2>1 DEF CoinsInv, ChainGood
    <3>2. h # 1 => chain'[h - 1] = chain[h - 1]
      BY <1>3, <2>1
    <3> QED
      BY <1>2, <1>3, <2>1, <3>1, <3>2
  <2>2. CASE h # Len(chain) + 1
    <3>1. h \in 1..Len(chain) /\ (h # 1 => h - 1 \in 1..Len(chain))
      BY <1>3, <2>2
    <3>2. /\ BlockGood(chain[h], h)
          /\ chain[h].snaps[1] = IF h = 1 THEN NoCoins ELSE After(chain[h - 1])
      BY <3>1 DEF CoinsInv, ChainGood
    <3> QED
      BY <1>3, <3>1, <3>2
  <2> QED
    BY <2>1, <2>2
<1>6. chain' # <<>> /\ coins' = After(chain'[Len(chain')])
  BY <1>1, <1>2, <1>3
<1>7. ChainGood'
  BY <1>5, <1>6 DEF ChainGood
<1> QED
  BY <1>1, <1>4, <1>7 DEF CoinsInv, ConnectGood, DisconnectGood

\* The block that is disconnected, and its height.
LEMMA TopBlock ==
    ASSUME CoinsInv, chain # <<>>
    PROVE  /\ Len(chain) \in Nat \ {0} /\ BlockGood(chain[Len(chain)], Len(chain))
           /\ coins = After(chain[Len(chain)])
           /\ chain[Len(chain)] \in Blocks /\ chain[Len(chain)].vtx \in Seq(Txs)
<1>1. Len(chain) \in Nat \ {0}
  BY DEF CoinsInv, CoinsType
<1>2. BlockGood(chain[Len(chain)], Len(chain))
  BY <1>1 DEF CoinsInv, ChainGood
<1> QED
  BY <1>1, <1>2 DEF CoinsInv, ChainGood, BlockGood, Blocks

LEMMA CoinsDisconnectTip ==
    ASSUME CoinsInv, DisconnectTip
    PROVE  CoinsInv'
<1>1. /\ chain # <<>> /\ pc' = "disconnect" /\ view' = coins
      /\ blk' = chain[Len(chain)] /\ k' = Len(chain[Len(chain)].vtx) /\ UNCHANGED <<coins, chain>>
  BY DEF DisconnectTip
<1>2. /\ blk' \in Blocks /\ coins = After(blk') /\ k' = Len(blk'.vtx) /\ k' \in Nat
      /\ Len(blk'.snaps) = k' + 2
  BY <1>1, TopBlock DEF BlockGood
<1>3. CoinsType'
  BY <1>1, <1>2 DEF CoinsInv, CoinsType
<1>4. DisconnectGood'
  BY <1>1, <1>2 DEF DisconnectGood, After
<1> QED
  BY <1>1, <1>3, <1>4 DEF CoinsInv, ChainGood, ConnectGood

\* The turn that is undone.
LEMMA DisconnectTurn ==
    ASSUME CoinsInv, pc = "disconnect", k > 0
    PROVE  /\ Len(chain) \in Nat \ {0} /\ blk.vtx[k] \in Txs
           /\ TurnGood(blk.snaps[k + 1], blk.vtx[k], blk.undo[k], view, Len(chain))
<1>1. chain # <<>> /\ blk = chain[Len(chain)] /\ k \in 0..Len(blk.vtx) /\ view = blk.snaps[k + 2]
  BY DEF CoinsInv, DisconnectGood
<1>2. Len(chain) \in Nat \ {0} /\ BlockGood(blk, Len(chain)) /\ blk.vtx \in Seq(Txs)
  BY <1>1, TopBlock
<1>3. k \in 1..Len(blk.vtx)
  BY <1>1, <1>2
<1> QED
  BY <1>1, <1>2, <1>3 DEF BlockGood

LEMMA CoinsDisconnectTx ==
    ASSUME CoinsInv, DisconnectTx
    PROVE  CoinsInv'
<1>1. /\ pc = "disconnect" /\ k > 0 /\ view' = RestoreCoins(view, blk.vtx[k], blk.undo[k])
      /\ k' = k - 1 /\ UNCHANGED <<coins, chain, pc, blk>>
  BY DEF DisconnectTx
<1>2. /\ Len(chain) \in Nat \ {0} /\ blk.vtx[k] \in Txs
      /\ TurnGood(blk.snaps[k + 1], blk.vtx[k], blk.undo[k], view, Len(chain))
  BY <1>1, DisconnectTurn
<1>3. view' = blk.snaps[k + 1]
  BY <1>1, <1>2, TurnUndone
<1>4. view' \in CoinsMaps
  BY <1>2, <1>3, GoodType DEF TurnGood
<1>5. chain # <<>> /\ blk = chain[Len(chain)] /\ k \in 0..Len(blk.vtx)
  BY <1>1 DEF CoinsInv, DisconnectGood
<1>6. k' \in 0..Len(blk.vtx) /\ k' + 2 = k + 1 /\ k' \in Nat
  BY <1>1, <1>5 DEF CoinsInv, CoinsType
<1>7. CoinsType'
  BY <1>1, <1>4, <1>6 DEF CoinsInv, CoinsType
<1>8. DisconnectGood'
  BY <1>1, <1>3, <1>5, <1>6 DEF DisconnectGood
<1> QED
  BY <1>1, <1>7, <1>8 DEF CoinsInv, ChainGood, ConnectGood

LEMMA CoinsFlushDisconnect ==
    ASSUME CoinsInv, FlushDisconnect
    PROVE  CoinsInv'
<1>1. /\ pc = "disconnect" /\ k = 0 /\ coins' = [view EXCEPT ![blk.cb] = Pruned]
      /\ chain' = SubSeq(chain, 1, Len(chain) - 1) /\ pc' = "resurrect" /\ view' = NoCoins
      /\ UNCHANGED <<k, blk>>
  BY DEF FlushDisconnect
<1>2. chain # <<>> /\ blk = chain[Len(chain)] /\ view = blk.snaps[2]
  BY <1>1 DEF CoinsInv, DisconnectGood
<1>3. Len(chain) \in Nat \ {0} /\ BlockGood(blk, Len(chain)) /\ blk \in Blocks
  BY <1>2, TopBlock
<1>4. /\ CoinsGood(blk.snaps[1]) /\ blk.snaps[1][blk.cb] = Pruned /\ blk.cb \in Coinbases
      /\ view = UpdateCoins(blk.snaps[1], blk.cb, Len(chain))
  BY <1>2, <1>3 DEF BlockGood, Blocks
<1>5. coins' = blk.snaps[1]
  <2>1. PICK c : c = blk.snaps[1]
    OBVIOUS
  <2>2. c \in [Txids -> CCoins] /\ c[blk.cb] = Pruned /\ blk.cb \in Coinbases
    BY <1>4, <2>1, GoodType DEF CoinsMaps
  <2>3. /\ coins' = [UpdateCoins(c, blk.cb, Len(chain)) EXCEPT ![blk.cb] = Pruned]
        /\ UpdateCoins(c, blk.cb, Len(chain)) =
            [id \in Txids |-> IF id = blk.cb THEN FromTx(blk.cb, Len(chain)) ELSE c[id]]
    BY <1>1, <1>4, <2>1, <2>2 DEF UpdateCoins
  <2> QED
    BY <2>1, <2>2, <2>3
<1>6. /\ chain' \in Seq(Blocks) /\ Len(chain') = Len(chain) - 1 /\ chain \in Seq(Blocks)
      /\ \A h \in 1..(Len(chain) - 1) : chain'[h] = chain[h]
  BY <1>1, <1>3, WithoutLast DEF CoinsInv, CoinsType
<1>7. CoinsType' /\ CoinsGood(coins)'
  BY <1>1, <1>4, <1>5, <1>6, NoCoinsGood, GoodType DEF CoinsInv, CoinsType
<1>8. ASSUME NEW h \in 1..Len(chain')
      PROVE  /\ BlockGood(chain'[h], h)
             /\ chain'[h].snaps[1] = IF h = 1 THEN NoCoins ELSE After(chain'[h - 1])
  <2>1. h \in 1..Len(chain) /\ h \in 1..(Len(chain) - 1) /\ (h # 1 => h - 1 \in 1..(Len(chain) - 1))
    BY <1>3, <1>6
  <2>2. /\ BlockGood(chain[h], h)
        /\ chain[h].snaps[1] = IF h = 1 THEN NoCoins ELSE After(chain[h - 1])
    BY <2>1 DEF CoinsInv, ChainGood
  <2> QED
    BY <1>6, <2>1, <2>2
<1>9. coins' = IF chain' = <<>> THEN NoCoins ELSE After(chain'[Len(chain')])
  <2>1. blk.snaps[1] = IF Len(chain) = 1 THEN NoCoins ELSE After(chain[Len(chain) - 1])
    <3>1. Len(chain) \in 1..Len(chain)
      BY <1>3
    <3>2. chain[Len(chain)].snaps[1] =
            IF Len(chain) = 1 THEN NoCoins ELSE After(chain[Len(chain) - 1])
      BY <3>1 DEF CoinsInv, ChainGood
    <3> QED
      BY <1>2, <3>2
  <2>2. chain' = <<>> <=> Len(chain) = 1
    <3>1. Len(chain') = Len(chain) - 1 /\ Len(chain) \in Nat
      BY <1>3, <1>6
    <3>2. ASSUME NEW s \in Seq(Blocks) PROVE s = <<>> <=> Len(s) = 0
      OBVIOUS
    <3>3. chain' = <<>> <=> Len(chain') = 0
      BY <1>6, <3>2
    <3> QED
      BY <3>1, <3>3
  <2>3. Len(chain) # 1 => Len(chain') \in 1..(Len(chain) - 1) /\ chain'[Len(chain')] = chain[Len(chain) - 1]
    BY <1>3, <1>6
  <2> QED
    BY <1>5, <2>1, <2>2, <2>3
<1>10. ChainGood'
  BY <1>8, <1>9 DEF ChainGood
<1> QED
  BY <1>1, <1>3, <1>5, <1>7, <1>10 DEF CoinsInv, ConnectGood, DisconnectGood

LEMMA CoinsStep ==
    ASSUME CoinsInv, Next
    PROVE  CoinsInv'
<1>1. ASSUME NEW t \in Txs, AcceptToMemoryPool(t) PROVE CoinsInv'
  BY <1>1, CoinsSame DEF AcceptToMemoryPool, loopVars
<1> QED
  BY <1>1, CoinsIdle, CoinsBegin, CoinsConnectTx, CoinsFlushConnect, CoinsDisconnectTip,
     CoinsDisconnectTx, CoinsFlushDisconnect DEF Next
-----------------------------------------------------------------------------
(***************************************************************************)
(* The steps on the pool.                                                  *)
(***************************************************************************)
LEMMA PoolSame ==
    ASSUME PoolInv, UNCHANGED poolVars
    PROVE  PoolInv'
BY DEF PoolInv, PoolType, NextTxExact, poolVars

\* remove takes out transactions of the pool with all their marks, and no other mark: an
\* output is marked by one transaction only.
LEMMA PoolRemoving ==
    ASSUME PoolInv, NEW R, R \subseteq mapTx, Removing(R)
    PROVE  PoolInv'
<1>1. /\ mapTx' = mapTx \ R
      /\ mapNextTx' = [o \in Prevouts |-> IF \E t \in R : o \in Vin[t] THEN NoTx ELSE mapNextTx[o]]
  BY DEF Removing
<1>2. PoolType'
  BY <1>1 DEF PoolInv, PoolType
<1>3. ASSUME NEW o \in Prevouts, NEW t \in Txs
      PROVE  mapNextTx'[o] = t <=> t \in mapTx' /\ o \in Vin[t]
  <2>1. \A u \in Txs : mapNextTx[o] = u <=> u \in mapTx /\ o \in Vin[u]
    BY DEF PoolInv, NextTxExact
  <2>2. R \subseteq Txs /\ NoTx # t
    BY DEF PoolInv, PoolType, TxAssumption
  <2>3. CASE \E u \in R : o \in Vin[u]
    <3>1. PICK u \in R : o \in Vin[u]
      BY <2>3
    <3>2. mapNextTx[o] = u /\ mapNextTx'[o] = NoTx
      BY <1>1, <2>1, <2>2, <3>1
    <3> QED
      BY <1>1, <2>1, <2>2, <3>1, <3>2
  <2>4. CASE ~ \E u \in R : o \in Vin[u]
    BY <1>1, <2>1, <2>4
  <2> QED
    BY <2>3, <2>4
<1> QED
  BY <1>2, <1>3 DEF PoolInv, NextTxExact

LEMMA PoolAdd ==
    ASSUME PoolInv, NEW t \in Txs, Acceptable(t), addUnchecked(t)
    PROVE  PoolInv'
<1>1. /\ mapTx' = mapTx \union {t}
      /\ mapNextTx' = [o \in Prevouts |-> IF o \in Vin[t] THEN t ELSE mapNextTx[o]]
      /\ t \notin mapTx /\ \A o \in Vin[t] : mapNextTx[o] = NoTx
  BY DEF addUnchecked, Acceptable, Fresh
<1>2. PoolType'
  BY <1>1 DEF PoolInv, PoolType
<1>3. ASSUME NEW o \in Prevouts, NEW u \in Txs
      PROVE  mapNextTx'[o] = u <=> u \in mapTx' /\ o \in Vin[u]
  <2>1. mapNextTx[o] = u <=> u \in mapTx /\ o \in Vin[u]
    BY DEF PoolInv, NextTxExact
  <2>2. NoTx # u
    BY DEF TxAssumption
  <2> QED
    BY <1>1, <2>1, <2>2
<1> QED
  BY <1>2, <1>3 DEF PoolInv, NextTxExact

LEMMA PoolStep ==
    ASSUME CoinsInv, PoolInv, Next
    PROVE  PoolInv'
<1>1. \A S : Descendants(S) \subseteq mapTx
  BY DEF Descendants
<1>2. ASSUME NEW t \in Txs, AcceptToMemoryPool(t) \/ ConnectTx(t) PROVE PoolInv'
  BY <1>2, PoolAdd, PoolSame DEF AcceptToMemoryPool, ConnectTx
<1>3. ASSUME NEW c \in Coinbases, BeginConnect(c) PROVE PoolInv'
  BY <1>3, PoolSame DEF BeginConnect
<1>4. CASE ConnectFails \/ FlushConnect \/ EndConnect
  BY <1>4, PoolSame DEF ConnectFails, FlushConnect, EndConnect
<1>5. CASE DisconnectTip \/ DisconnectTx \/ FlushDisconnect
  BY <1>5, PoolSame DEF DisconnectTip, DisconnectTx, FlushDisconnect
<1>6. CASE RemoveForBlock
  <2>1. PICK R : Removing(R) /\ R \subseteq mapTx
    BY <1>1, <1>6 DEF RemoveForBlock, Conflicts
  <2> QED
    BY <2>1, PoolRemoving
<1>7. CASE Resurrect
  <2>1. CASE \E t : Removing(Recursively(t))
    BY <1>1, <2>1, PoolRemoving DEF Recursively
  <2>2. CASE k > 0 /\ Acceptable(blk.vtx[k]) /\ addUnchecked(blk.vtx[k])
    <3>1. blk.vtx \in Seq(Txs) /\ k \in 1..Len(blk.vtx)
      BY <1>7, <2>2 DEF Resurrect, CoinsInv, CoinsType, DisconnectGood, Blocks
    <3> QED
      BY <2>2, <3>1, PoolAdd
  <2> QED
    BY <1>7, <2>1, <2>2 DEF Resurrect
<1>8. CASE EndDisconnect
  BY <1>1, <1>8, PoolRemoving DEF EndDisconnect, CoinbaseSpends
<1> QED
  BY <1>2, <1>3, <1>4, <1>5, <1>6, <1>7, <1>8 DEF Next
-----------------------------------------------------------------------------
(***************************************************************************)
(* The orphans.                                                            *)
(***************************************************************************)
\* EraseOrphanTx leaves the index as exact as it was.
LEMMA ErasedOrphans ==
    ASSUME OrphanInv, NEW E, Erase(E)
    PROVE  /\ orphans' \in [Txs -> Peers \union {NoPeer}] /\ byPrev' \in [Txids -> SUBSET Txs]
           /\ OrphanSet' = OrphanSet \ E /\ \A t \in OrphanSet' : orphans'[t] = orphans[t]
           /\ \A id \in Txids : byPrev'[id] = {t \in OrphanSet' : id \in Parents(t)}
           /\ IsFiniteSet(OrphanSet') /\ Cardinality(OrphanSet') <= MaxOrphanTxs
<1>1. /\ orphans' = [t \in Txs |-> IF t \in E THEN NoPeer ELSE orphans[t]]
      /\ byPrev' = [id \in Txids |-> byPrev[id] \ {t \in E \intersect OrphanSet : id \in Parents(t)}]
  BY DEF Erase
<1>2. /\ orphans' \in [Txs -> Peers \union {NoPeer}] /\ byPrev' \in [Txids -> SUBSET Txs]
  BY <1>1 DEF OrphanInv
<1>3. OrphanSet' = OrphanSet \ E /\ \A t \in OrphanSet' : orphans'[t] = orphans[t]
  BY <1>1 DEF OrphanSet
<1>4. \A id \in Txids : byPrev'[id] = {t \in OrphanSet' : id \in Parents(t)}
  BY <1>1, <1>3 DEF OrphanInv, OrphansExact
<1>5. /\ IsFiniteSet(OrphanSet') /\ Cardinality(OrphanSet') <= Cardinality(OrphanSet)
      /\ Cardinality(OrphanSet) \in Nat /\ Cardinality(OrphanSet') \in Nat
      /\ Cardinality(OrphanSet) <= MaxOrphanTxs
  <2>1. IsFiniteSet(OrphanSet) /\ OrphanSet' \subseteq OrphanSet
    BY <1>3 DEF OrphanInv
  <2>2. Cardinality(OrphanSet) <= MaxOrphanTxs
    BY DEF OrphanInv, OrphansExact
  <2> QED
    BY <2>1, <2>2, FS_Subset, FS_CardinalityType
<1>6. MaxOrphanTxs \in Nat
  BY DEF OrphanAssumption
<1>7. Cardinality(OrphanSet') <= MaxOrphanTxs
  BY <1>5, <1>6
<1> QED
  BY <1>2, <1>3, <1>4, <1>5, <1>7

\* AddOrphanTx and LimitOrphanTxSize: one comes, and one goes when there were enough.
LEMMA AddedOrphan ==
    ASSUME OrphanInv, NEW t \in Txs, NEW p \in Peers, TxMissing(t, p)
    PROVE  OrphanInv'
<1>1. t \notin OrphanSet /\ p \in peers /\ UNCHANGED <<peers, work, i, left, eraseQueue, setMisbehaving, before>>
  BY DEF TxMissing, jobVars
<1>2. PICK E \in Evictions(OrphanSet \union {t}) :
        /\ orphans' = [u \in Txs |-> IF u \in E THEN NoPeer ELSE IF u = t THEN p ELSE orphans[u]]
        /\ byPrev' = [id \in Txids |->
                        (IF id \in Parents(t) THEN byPrev[id] \union {t} ELSE byPrev[id])
                            \ {u \in E : id \in Parents(u)}]
  BY DEF TxMissing
<1>3. p # NoPeer /\ MaxOrphanTxs \in Nat
  BY DEF OrphanAssumption
<1>4. OrphanSet' = (OrphanSet \union {t}) \ E
  BY <1>2, <1>3 DEF OrphanSet
<1>5. orphans' \in [Txs -> Peers \union {NoPeer}] /\ byPrev' \in [Txids -> SUBSET Txs]
  BY <1>2 DEF OrphanInv
<1>6. \A id \in Txids : byPrev'[id] = {u \in OrphanSet' : id \in Parents(u)}
  BY <1>1, <1>2, <1>4 DEF OrphanInv, OrphansExact
<1>7. \A u \in OrphanSet' : orphans'[u] \in peers'
  <2>1. ASSUME NEW u \in OrphanSet' PROVE orphans'[u] \in peers'
    <3>1. u \in Txs /\ u \notin E /\ (u = t \/ u \in OrphanSet)
      BY <1>4 DEF OrphanSet
    <3> QED
      BY <1>1, <1>2, <3>1 DEF OrphanInv, OrphansExact
  <2> QED
    BY <2>1
<1>8. IsFiniteSet(OrphanSet') /\ Cardinality(OrphanSet') <= MaxOrphanTxs
  <2>1. PICK S : S = OrphanSet \union {t}
    OBVIOUS
  <2>2. IsFiniteSet(OrphanSet) /\ Cardinality(OrphanSet) <= MaxOrphanTxs /\ Cardinality(OrphanSet) \in Nat
    BY FS_CardinalityType DEF OrphanInv, OrphansExact
  <2>3. IsFiniteSet(S) /\ Cardinality(S) = Cardinality(OrphanSet) + 1
    BY <1>1, <2>1, <2>2, FS_AddElement
  <2>4. CASE Cardinality(S) > MaxOrphanTxs
    <3>1. PICK u \in S : E = {u}
      BY <1>2, <2>1, <2>4 DEF Evictions
    <3>2. IsFiniteSet(S \ {u}) /\ Cardinality(S \ {u}) = Cardinality(S) - 1
      BY <2>3, <3>1, FS_RemoveElement
    <3>3. OrphanSet' = S \ {u}
      BY <1>4, <2>1, <3>1
    <3> QED
      BY <1>3, <2>2, <2>3, <3>2, <3>3
  <2>5. CASE ~(Cardinality(S) > MaxOrphanTxs)
    <3>1. OrphanSet' = S
      BY <1>2, <1>4, <2>1, <2>5 DEF Evictions
    <3> QED
      BY <1>3, <2>2, <2>3, <2>5, <3>1
  <2> QED
    BY <2>4, <2>5
<1> QED
  BY <1>1, <1>5, <1>6, <1>7, <1>8 DEF OrphanInv, OrphansExact

\* What a step that leaves the map and its index alone has to keep.
LEMMA OrphansSame ==
    ASSUME OrphanInv, UNCHANGED <<orphans, byPrev>>, peers \subseteq peers', peers' \subseteq Peers,
           work' \in Seq(Txs), i' \in 0..Len(work'), left' \subseteq Txs, eraseQueue' \subseteq Txs,
           setMisbehaving' \subseteq Peers \union {NoPeer}, before' \subseteq Txs
    PROVE  OrphanInv'
<1>1. OrphanSet' = OrphanSet
  BY DEF OrphanSet
<1> QED
  BY <1>1 DEF OrphanInv, OrphansExact

LEMMA OrphanStep ==
    ASSUME PoolInv, OrphanInv, OrphanNext
    PROVE  OrphanInv'
<1>1. CASE UNCHANGED orphanVars
  BY <1>1, OrphansSame DEF orphanVars, jobVars, OrphanInv
<1>2. ASSUME NEW p \in Peers, InitializeNode(p) PROVE OrphanInv'
  BY <1>2, OrphansSame DEF InitializeNode, jobVars, OrphanInv
<1>3. ASSUME NEW p \in Peers, FinalizeNode(p) PROVE OrphanInv'
  <2>1. /\ peers' = peers \ {p} /\ Erase({t \in OrphanSet : orphans[t] = p})
        /\ UNCHANGED <<work, i, left, eraseQueue, setMisbehaving, before>>
    BY <1>3 DEF FinalizeNode, jobVars
  <2>2. /\ orphans' \in [Txs -> Peers \union {NoPeer}] /\ byPrev' \in [Txids -> SUBSET Txs]
        /\ OrphanSet' = OrphanSet \ {t \in OrphanSet : orphans[t] = p}
        /\ \A t \in OrphanSet' : orphans'[t] = orphans[t]
        /\ \A id \in Txids : byPrev'[id] = {t \in OrphanSet' : id \in Parents(t)}
        /\ IsFiniteSet(OrphanSet') /\ Cardinality(OrphanSet') <= MaxOrphanTxs
    BY <2>1, ErasedOrphans
  <2>3. \A t \in OrphanSet' : orphans'[t] \in peers'
    BY <2>1, <2>2 DEF OrphanInv, OrphansExact
  <2> QED
    BY <2>1, <2>2, <2>3 DEF OrphanInv, OrphansExact
<1>4. ASSUME NEW p \in Peers, NEW t \in Txs, TxMissing(t, p) PROVE OrphanInv'
  BY <1>4, AddedOrphan
<1>5. ASSUME NEW p \in Peers, NEW t \in Txs, TxAccepted(t, p) PROVE OrphanInv'
  <2>1. /\ work' = <<t>> /\ i' = 1 /\ left' = byPrev[t] /\ eraseQueue' = {t}
        /\ setMisbehaving' = {} /\ before' = mapTx /\ UNCHANGED <<peers, orphans, byPrev>>
    BY <1>5 DEF TxAccepted
  <2>2. left' \subseteq Txs /\ peers \subseteq Peers /\ mapTx \subseteq Txs
    BY <2>1 DEF OrphanInv, PoolInv, PoolType, Txids
  <2>3. work' \in Seq(Txs) /\ i' \in 0..Len(work')
    BY <2>1
  <2> QED
    BY <2>1, <2>2, <2>3, OrphansSame
<1>6. ASSUME NEW t \in Txs, OrphanTurn(t) PROVE OrphanInv'
  <2>1. /\ left' \subseteq left /\ eraseQueue' = eraseQueue \union {t}
        /\ UNCHANGED <<peers, orphans, byPrev, i, before>>
        /\ work' = work \/ work' = Append(work, t)
        /\ setMisbehaving' \subseteq setMisbehaving \union {orphans[t]}
    BY <1>6 DEF OrphanTurn
  <2>2. /\ work \in Seq(Txs) /\ i \in 0..Len(work) /\ orphans[t] \in Peers \union {NoPeer}
        /\ peers \subseteq Peers /\ left \subseteq Txs /\ eraseQueue \subseteq Txs
        /\ setMisbehaving \subseteq Peers \union {NoPeer} /\ before \subseteq Txs
    BY DEF OrphanInv
  <2>3. work' \in Seq(Txs) /\ i' \in 0..Len(work')
    <3>1. CASE work' = work
      BY <2>1, <2>2, <3>1
    <3>2. CASE work' = Append(work, t)
      <4>1. work' \in Seq(Txs) /\ Len(work') = Len(work) + 1 /\ Len(work) \in Nat
        BY <2>2, <3>2, Appended
      <4> QED
        BY <2>1, <2>2, <4>1
    <3> QED
      BY <2>1, <3>1, <3>2
  <2> QED
    BY <2>1, <2>2, <2>3, OrphansSame
<1>7. CASE NextInQueue
  <2>1. /\ i < Len(work) /\ i' = i + 1 /\ left' = byPrev[work[i + 1]]
        /\ UNCHANGED <<peers, orphans, byPrev, work, eraseQueue, setMisbehaving, before>>
    BY <1>7 DEF NextInQueue
  <2>2. i' \in 1..Len(work) /\ work \in Seq(Txs) /\ byPrev \in [Txids -> SUBSET Txs]
    BY <2>1 DEF OrphanInv
  <2>3. left' \subseteq Txs
    BY <2>1, <2>2 DEF Txids
  <2> QED
    BY <2>1, <2>2, <2>3, OrphansSame DEF OrphanInv
<1>8. CASE EndOfQueue
  <2>1. /\ work' = <<>> /\ i' = 0 /\ eraseQueue' = {} /\ setMisbehaving' = {} /\ before' = {}
        /\ peers' = peers /\ left' = left /\ Erase(eraseQueue)
    BY <1>8 DEF EndOfQueue
  <2>2. /\ orphans' \in [Txs -> Peers \union {NoPeer}] /\ byPrev' \in [Txids -> SUBSET Txs]
        /\ OrphanSet' = OrphanSet \ eraseQueue
        /\ \A t \in OrphanSet' : orphans'[t] = orphans[t]
        /\ \A id \in Txids : byPrev'[id] = {t \in OrphanSet' : id \in Parents(t)}
        /\ IsFiniteSet(OrphanSet') /\ Cardinality(OrphanSet') <= MaxOrphanTxs
    BY <2>1, ErasedOrphans
  <2>3. \A t \in OrphanSet' : orphans'[t] \in peers'
    BY <2>1, <2>2 DEF OrphanInv, OrphansExact
  <2>4. work' \in Seq(Txs) /\ i' \in 0..Len(work')
    BY <2>1
  <2> QED
    BY <2>1, <2>2, <2>3, <2>4 DEF OrphanInv, OrphansExact
<1> QED
  BY <1>1, <1>2, <1>3, <1>4, <1>5, <1>6, <1>7, <1>8 DEF OrphanNext
-----------------------------------------------------------------------------
(***************************************************************************)
(* What the chain remembers.  BIP30 looks only at coins that are left; no  *)
(* transaction comes twice all the same, as its inputs stay spent.         *)
(***************************************************************************)
Body(b) == {b.vtx[j] : j \in 1..Len(b.vtx)}
Ids(b) == {b.cb} \union Body(b)
Mined(h) == UNION {Ids(chain[g]) : g \in 1..h}

\* The coins c after the transactions M: they are outputs of M; what M spends is gone, and
\* was spent once.
History(M, c) ==
    /\ \A id \in Txids : c[id].vout # {} => id \in M /\ c[id].vout \subseteq Vout[id]
    /\ \A t \in M \intersect Txs : \A o \in Vin[t] : o[1] \in M /\ o[2] \notin c[o[1]].vout
    /\ \A t, u \in M \intersect Txs : t # u => Vin[t] \intersect Vin[u] = {}

\* The transactions of a block are different and spend from earlier ones only.
InOrder(b) ==
    \A e, j \in 1..Len(b.vtx) :
        /\ b.vtx[e] = b.vtx[j] => e = j
        /\ \A o \in Vin[b.vtx[j]] : o[1] = b.vtx[e] => e < j

\* From coins c the block makes d: what it does not spend stays as it was.
Effect(b, c, d) ==
    /\ \A id \in Ids(b) : c[id].vout = {}
    /\ \A id \in Txids \ Ids(b) :
        /\ d[id].vout \subseteq c[id].vout
        /\ \A n \in c[id].vout : n \in d[id].vout \/ \E u \in Body(b) : <<id, n>> \in Vin[u]
        /\ d[id].vout # {} => d[id].nHeight = c[id].nHeight /\ d[id].fCoinBase = c[id].fCoinBase
    /\ \A t \in Body(b) :
        /\ ~d[t].fCoinBase
        /\ \A n \in Vout[t] : n \in d[t].vout \/ \E u \in Body(b) : <<t, n>> \in Vin[u]

\* Every block of the chain, the block that is being connected, and the one that the loops
\* over the pool go through.
MinedGood(h) ==
    /\ InOrder(chain[h]) /\ Effect(chain[h], chain[h].snaps[1], After(chain[h]))
    /\ History(Mined(h), After(chain[h])) /\ Height[chain[h].cb] = h
HistInv ==
    /\ \A h \in 1..Len(chain) : MinedGood(h)
    /\ pc = "connect" => /\ InOrder(blk) /\ Effect(blk, coins, view) /\ Height[blk.cb] = NextHeight
                         /\ History(Mined(Len(chain)) \union Ids(blk), view)
    /\ pc = "remove" => chain # <<>> /\ blk = chain[Len(chain)]
    /\ pc = "resurrect" => InOrder(blk) /\ \A id \in Ids(blk) : coins[id].vout = {}

LEMMA SpentIs ==
    ASSUME NEW t \in Txs
    PROVE  /\ \A o \in Vin[t] : o = <<o[1], o[2]>> /\ o[1] \in Txids /\ o[2] \in Nat
           /\ \A id, n : n \in Spent(t, id) <=> <<id, n>> \in Vin[t]
<1>1. Vin[t] \subseteq Txids \X Nat
  BY DEF TxAssumption, Outpoints
<1>2. \A o \in Vin[t] : o = <<o[1], o[2]>> /\ o[1] \in Txids /\ o[2] \in Nat
  BY <1>1
<1> QED
  BY <1>2 DEF Spent

LEMMA UpdateType ==
    ASSUME NEW c, c \in CoinsMaps, NEW t \in Txs, NEW h \in Nat
    PROVE  UpdateCoins(c, t, h) \in CoinsMaps
<1>1. \A r \in CCoins : Cleaned(r) \in CCoins
  BY DEF Cleaned, CCoins, Pruned
<1>2. \A id \in Txids : c[id] \in CCoins
  BY DEF CoinsMaps
<1>3. FromTx(t, h) \in CCoins
  <2>1. [vout |-> Vout[t], nHeight |-> h, fCoinBase |-> t \in Coinbases] \in CCoins
    BY DEF CCoins, TxAssumption, Txids
  <2> QED
    BY <1>1, <2>1 DEF FromTx
<1>4. \A id \in Txids : [c[id] EXCEPT !.vout = @ \ Spent(t, id)] \in CCoins
  BY <1>2 DEF CCoins
<1> QED
  BY <1>1, <1>2, <1>3, <1>4 DEF UpdateCoins, CoinsMaps

\* UpdateCoins, output by output.
LEMMA UpdateShape ==
    ASSUME NEW c, c \in CoinsMaps, NEW t \in Txs, NEW h \in Nat
    PROVE  /\ UpdateCoins(c, t, h)[t].vout = Vout[t] /\ ~UpdateCoins(c, t, h)[t].fCoinBase
           /\ \A id \in Txids : id # t =>
                /\ UpdateCoins(c, t, h)[id].vout = c[id].vout \ Spent(t, id)
                /\ UpdateCoins(c, t, h)[id].vout # {} =>
                      /\ UpdateCoins(c, t, h)[id].nHeight = c[id].nHeight
                      /\ UpdateCoins(c, t, h)[id].fCoinBase = c[id].fCoinBase
                /\ ~c[id].fCoinBase => ~UpdateCoins(c, t, h)[id].fCoinBase
<1>1. t \in Txids /\ t \notin Coinbases
  BY DEF Txids, TxAssumption
<1>2. UpdateCoins(c, t, h)[t] = FromTx(t, h)
  BY <1>1 DEF UpdateCoins
<1>3. FromTx(t, h).vout = Vout[t] /\ ~FromTx(t, h).fCoinBase
  BY <1>1 DEF FromTx, Cleaned, Pruned
<1>4. ASSUME NEW id \in Txids, id # t
      PROVE  LET d == UpdateCoins(c, t, h)
             IN  /\ d[id].vout = c[id].vout \ Spent(t, id)
                 /\ d[id].vout # {} => d[id].nHeight = c[id].nHeight /\ d[id].fCoinBase = c[id].fCoinBase
                 /\ ~c[id].fCoinBase => ~d[id].fCoinBase
  <2>1. c[id] \in CCoins
    BY DEF CoinsMaps
  <2>2. CASE Spent(t, id) = {}
    BY <1>1, <1>4, <2>2 DEF UpdateCoins
  <2>3. CASE Spent(t, id) # {}
    <3>1. UpdateCoins(c, t, h)[id] = Cleaned([c[id] EXCEPT !.vout = @ \ Spent(t, id)])
      BY <1>1, <1>4, <2>3 DEF UpdateCoins
    <3>2. PICK r : r = [c[id] EXCEPT !.vout = @ \ Spent(t, id)]
      OBVIOUS
    <3>3. /\ r.vout = c[id].vout \ Spent(t, id) /\ r.nHeight = c[id].nHeight
          /\ r.fCoinBase = c[id].fCoinBase
      BY <2>1, <3>2 DEF CCoins
    <3>4. UpdateCoins(c, t, h)[id] = IF r.vout = {} THEN Pruned ELSE r
      BY <3>1, <3>2 DEF Cleaned
    <3>5. CASE r.vout = {}
      <4>1. Pruned.vout = {} /\ ~Pruned.fCoinBase
        BY DEF Pruned
      <4>2. UpdateCoins(c, t, h)[id] = Pruned
        BY <3>4, <3>5
      <4> QED
        BY <3>3, <3>5, <4>1, <4>2
    <3>6. CASE r.vout # {}
      BY <3>3, <3>4, <3>6
    <3> QED
      BY <3>5, <3>6
  <2> QED
    BY <2>2, <2>3
<1> QED
  BY <1>2, <1>3, <1>4

\* A transaction that finds its inputs is new, and the history goes on with it.
LEMMA HistoryTx ==
    ASSUME NEW M, NEW c, c \in CoinsMaps, History(M, c), NEW t \in Txs, HaveInputs(c, t),
           NEW h \in Nat
    PROVE  t \notin M /\ History(M \union {t}, UpdateCoins(c, t, h))
<1> DEFINE d == UpdateCoins(c, t, h)
<1>1. /\ Vin[t] # {} /\ \A o \in Vin[t] : o = <<o[1], o[2]>> /\ o[1] \in Txids /\ o[1] # t
      /\ t \in Txids
  BY SpentIs, SpentType DEF TxAssumption, Txids
<1>2. \A o \in Vin[t] : o[2] \in c[o[1]].vout /\ o[1] \in M
  BY <1>1 DEF HaveInputs, History
<1>3. t \notin M
  BY <1>1, <1>2 DEF History
<1>4. /\ d[t].vout = Vout[t]
      /\ \A id \in Txids : id # t => d[id].vout = c[id].vout \ Spent(t, id)
  BY UpdateShape
<1>5. \A o \in Vin[t] : o[2] \in Spent(t, o[1])
  BY <1>1, SpentIs
<1> HIDE DEF d
<1>6. ASSUME NEW id \in Txids, d[id].vout # {}
      PROVE  id \in M \union {t} /\ d[id].vout \subseteq Vout[id]
  BY <1>4, <1>6 DEF History
<1>7. ASSUME NEW u \in (M \union {t}) \intersect Txs, NEW o \in Vin[u]
      PROVE  o[1] \in M \union {t} /\ o[2] \notin d[o[1]].vout
  <2>1. CASE u = t
    BY <1>1, <1>2, <1>4, <1>5, <1>7, <2>1
  <2>2. CASE u # t
    <3>1. o[1] \in M /\ o[2] \notin c[o[1]].vout /\ o[1] \in Txids
      BY <1>7, <2>2, SpentIs DEF History
    <3> QED
      BY <1>3, <1>4, <3>1
  <2> QED
    BY <2>1, <2>2
<1>8. ASSUME NEW u \in M \intersect Txs PROVE Vin[t] \intersect Vin[u] = {}
  BY <1>2 DEF History
<1>9. ASSUME NEW u \in (M \union {t}) \intersect Txs, NEW w \in (M \union {t}) \intersect Txs, u # w
      PROVE  Vin[u] \intersect Vin[w] = {}
  BY <1>8, <1>9 DEF History
<1>10. History(M \union {t}, d)
  BY <1>6, <1>7, <1>9 DEF History
<1> QED
  BY <1>3, <1>10 DEF d

\* ... as it does with a coinbase that is new.
LEMMA HistoryCoinbase ==
    ASSUME coins \in CoinsMaps, History(Mined(Len(chain)), coins),
           NEW cb \in Coinbases, cb \notin Mined(Len(chain))
    PROVE  /\ History(Mined(Len(chain)) \union {cb}, UpdateCoins(coins, cb, NextHeight))
           /\ \A id \in Txids : id # cb => UpdateCoins(coins, cb, NextHeight)[id] = coins[id]
<1> DEFINE M == Mined(Len(chain))
           d == UpdateCoins(coins, cb, NextHeight)
<1>1. cb \in Txids /\ cb \notin Txs
  BY DEF Txids, TxAssumption
<1>2. d[cb].vout = Vout[cb] /\ \A id \in Txids : id # cb => d[id] = coins[id]
  BY <1>1 DEF UpdateCoins, FromTx, Cleaned, Pruned
<1>3. History(M, coins) /\ cb \notin M
  OBVIOUS
<1> HIDE DEF d, M
<1>4. ASSUME NEW u \in M \intersect Txs, NEW o \in Vin[u]
      PROVE  o[1] \in M /\ o[2] \notin d[o[1]].vout
  <2>1. o[1] \in M /\ o[2] \notin coins[o[1]].vout /\ o[1] \in Txids
    BY <1>3, <1>4, SpentIs DEF History
  <2> QED
    BY <1>2, <1>3, <2>1
<1>5. (M \union {cb}) \intersect Txs = M \intersect Txs
  BY <1>1
<1>6. History(M \union {cb}, d)
  BY <1>2, <1>3, <1>4, <1>5 DEF History
<1> QED
  BY <1>2, <1>6 DEF d, M

\* A turn of ConnectBlock extends the effect of the block.
LEMMA EffectTx ==
    ASSUME NEW a, NEW b, NEW c, NEW d, d \in CoinsMaps, Effect(a, c, d), NEW t \in Txs, NEW h \in Nat,
           c[t].vout = {}, t \notin Ids(a), Body(b) = Body(a) \union {t}, b.cb = a.cb,
           Body(a) \subseteq Txs
    PROVE  Effect(b, c, UpdateCoins(d, t, h))
<1> DEFINE e == UpdateCoins(d, t, h)
<1>1. /\ e[t].vout = Vout[t] /\ ~e[t].fCoinBase
      /\ \A id \in Txids : id # t =>
            /\ e[id].vout = d[id].vout \ Spent(t, id)
            /\ e[id].vout # {} => e[id].nHeight = d[id].nHeight /\ e[id].fCoinBase = d[id].fCoinBase
            /\ ~d[id].fCoinBase => ~e[id].fCoinBase
      /\ \A id, n : n \in Spent(t, id) => <<id, n>> \in Vin[t]
  BY UpdateShape, SpentIs
<1> HIDE DEF e
<1>2. Ids(b) = Ids(a) \union {t} /\ Body(a) \subseteq Txids
  BY DEF Ids, Txids
<1>3. \A id \in Ids(b) : c[id].vout = {}
  BY <1>2 DEF Effect
<1>4. ASSUME NEW id \in Txids \ Ids(b)
      PROVE  /\ e[id].vout \subseteq c[id].vout
             /\ \A n \in c[id].vout : n \in e[id].vout \/ \E u \in Body(b) : <<id, n>> \in Vin[u]
             /\ e[id].vout # {} => e[id].nHeight = c[id].nHeight /\ e[id].fCoinBase = c[id].fCoinBase
  <2>1. /\ id \in Txids \ Ids(a) /\ id # t
    BY <1>2
  <2>2. /\ d[id].vout \subseteq c[id].vout
        /\ \A n \in c[id].vout : n \in d[id].vout \/ \E u \in Body(a) : <<id, n>> \in Vin[u]
        /\ d[id].vout # {} => d[id].nHeight = c[id].nHeight /\ d[id].fCoinBase = c[id].fCoinBase
    BY <2>1 DEF Effect
  <2> QED
    BY <1>1, <2>1, <2>2
<1>5. ASSUME NEW u \in Body(b)
      PROVE  /\ ~e[u].fCoinBase
             /\ \A n \in Vout[u] : n \in e[u].vout \/ \E w \in Body(b) : <<u, n>> \in Vin[w]
  <2>1. CASE u = t
    BY <1>1, <2>1
  <2>2. CASE u # t
    <3>1. u \in Body(a) /\ u \in Txids
      BY <1>2, <2>2
    <3>2. /\ ~d[u].fCoinBase
          /\ \A n \in Vout[u] : n \in d[u].vout \/ \E w \in Body(a) : <<u, n>> \in Vin[w]
      BY <3>1 DEF Effect
    <3> QED
      BY <1>1, <2>2, <3>1, <3>2
  <2> QED
    BY <2>1, <2>2
<1>6. Effect(b, c, e)
  BY <1>3, <1>4, <1>5 DEF Effect
<1> QED
  BY <1>6 DEF e

LEMMA BlockParts ==
    ASSUME NEW b \in Blocks
    PROVE  /\ b.vtx \in Seq(Txs) /\ Len(b.vtx) \in Nat /\ DOMAIN b.vtx = 1..Len(b.vtx)
           /\ b.cb \in Coinbases /\ Body(b) \subseteq Txs /\ Ids(b) \subseteq Txids
           /\ Ids(b) \intersect Txs = Body(b)
<1>1. b.vtx \in Seq(Txs) /\ b.cb \in Coinbases
  BY DEF Blocks
<1>2. \A j \in 1..Len(b.vtx) : b.vtx[j] \in Txs
  BY <1>1
<1> QED
  BY <1>1, <1>2 DEF Body, Ids, Txids, TxAssumption

\* What was mined depends on the chain only.
LEMMA MinedSame ==
    ASSUME UNCHANGED chain
    PROVE  /\ \A h \in Nat : Mined(h)' = Mined(h)
           /\ Mined(Len(chain))' = Mined(Len(chain)) /\ NextHeight' = NextHeight
           /\ \A h \in 1..Len(chain) : MinedGood(h) => MinedGood(h)'
<1>1. \A h \in Nat : Mined(h)' = Mined(h)
  BY DEF Mined
<1>2. Mined(Len(chain))' = Mined(Len(chain)) /\ NextHeight' = NextHeight
  BY DEF Mined, NextHeight
<1>3. ASSUME NEW h \in 1..Len(chain), MinedGood(h) PROVE MinedGood(h)'
  <2>1. Mined(h)' = Mined(h) /\ chain'[h] = chain[h]
    BY <1>1
  <2> QED
    BY <1>3, <2>1 DEF MinedGood
<1> QED
  BY <1>1, <1>2, <1>3

\* pcoinsTip is the last of the history.
LEMMA TopHistory ==
    ASSUME CoinsInv, HistInv
    PROVE  History(Mined(Len(chain)), coins) /\ Mined(Len(chain)) \subseteq Txids
<1>1. chain \in Seq(Blocks) /\ Len(chain) \in Nat /\ \A g \in 1..Len(chain) : chain[g] \in Blocks
  BY DEF CoinsInv, CoinsType
<1>2. Mined(Len(chain)) \subseteq Txids
  BY <1>1, BlockParts DEF Mined
<1>3. CASE chain = <<>>
  <2>1. Mined(Len(chain)) = {}
    BY <1>1, <1>3 DEF Mined
  <2>2. coins = NoCoins
    BY <1>3 DEF CoinsInv, ChainGood
  <2>3. \A id \in Txids : coins[id].vout = {}
    BY <2>2 DEF NoCoins, Pruned
  <2> QED
    BY <1>2, <2>1, <2>3 DEF History
<1>4. CASE chain # <<>>
  <2>1. Len(chain) \in 1..Len(chain)
    BY <1>1, <1>4
  <2>2. coins = After(chain[Len(chain)])
    BY <1>4, TopBlock
  <2> QED
    BY <1>2, <2>1, <2>2 DEF HistInv, MinedGood
<1> QED
  BY <1>3, <1>4

\* ContextualCheckBlock ties a coinbase to its height: it is not in the chain below.
LEMMA NewCoinbase ==
    ASSUME CoinsInv, HistInv, NEW cb \in Coinbases, Height[cb] = NextHeight
    PROVE  cb \notin Mined(Len(chain))
<1>1. SUFFICES ASSUME NEW g \in 1..Len(chain), cb \in Ids(chain[g]) PROVE FALSE
  BY DEF Mined
<1>2. chain \in Seq(Blocks) /\ Len(chain) \in Nat /\ chain[g] \in Blocks
  BY DEF CoinsInv, CoinsType
<1>3. cb \notin Body(chain[g])
  BY <1>2, BlockParts DEF TxAssumption
<1>4. cb = chain[g].cb
  BY <1>1, <1>3 DEF Ids
<1>5. Height[cb] = g
  BY <1>4 DEF HistInv, MinedGood
<1> QED
  BY <1>2, <1>5 DEF NextHeight

LEMMA HistBegin ==
    ASSUME CoinsInv, HistInv, NEW c \in Coinbases, BeginConnect(c)
    PROVE  HistInv'
<1>1. /\ coins[c].vout = {} /\ pc' = "connect" /\ view' = UpdateCoins(coins, c, NextHeight)
      /\ blk' = [cb |-> c, vtx |-> <<>>, undo |-> <<>>, snaps |-> <<coins, view'>>]
      /\ UNCHANGED <<coins, chain>> /\ Height[c] = NextHeight
  BY DEF BeginConnect
<1>2. NextHeight \in Nat /\ coins \in CoinsMaps
  BY DEF CoinsInv, CoinsType, NextHeight
<1>3. /\ History(Mined(Len(chain)) \union {c}, view')
      /\ \A id \in Txids : id # c => view'[id] = coins[id]
  <2>1. History(Mined(Len(chain)), coins) /\ c \notin Mined(Len(chain))
    BY <1>1, TopHistory, NewCoinbase
  <2>2. /\ History(Mined(Len(chain)) \union {c}, UpdateCoins(coins, c, NextHeight))
        /\ \A id \in Txids : id # c => UpdateCoins(coins, c, NextHeight)[id] = coins[id]
    BY <1>2, <2>1, HistoryCoinbase, Zenon
  <2> QED
    BY <1>1, <2>2, Zenon
<1>4. blk'.cb = c /\ blk'.vtx = <<>> /\ Body(blk') = {} /\ Ids(blk') = {c}
  BY <1>1 DEF Body, Ids
<1>5. InOrder(blk') /\ Effect(blk', coins, view')
  <2>1. Len(blk'.vtx) = 0
    BY <1>4
  <2>2. InOrder(blk')
    BY <1>4, <2>1 DEF InOrder
  <2>3. Effect(blk', coins, view')
    BY <1>1, <1>3, <1>4 DEF Effect
  <2> QED
    BY <2>2, <2>3
<1>6. Mined(Len(chain))' = Mined(Len(chain)) /\ NextHeight' = NextHeight
  BY <1>1 DEF Mined, NextHeight
<1>7. \A h \in 1..Len(chain) : MinedGood(h)'
  BY <1>1, MinedSame DEF HistInv
<1> QED
  BY <1>1, <1>3, <1>4, <1>5, <1>6, <1>7 DEF HistInv

LEMMA HistConnectTx ==
    ASSUME CoinsInv, HistInv, NEW t \in Txs, ConnectTx(t)
    PROVE  HistInv'
<1>1. /\ pc = "connect" /\ pc' = "connect" /\ UNCHANGED <<coins, chain>>
      /\ coins[t].vout = {} /\ \A j \in DOMAIN blk.vtx : blk.vtx[j] # t
      /\ HaveInputs(view, t) /\ view' = UpdateCoins(view, t, NextHeight)
      /\ blk' = [blk EXCEPT !.vtx = Append(@, t), !.undo = Append(@, TxUndo(view, t)),
                            !.snaps = Append(@, view')]
  BY DEF ConnectTx
<1>2. NextHeight \in Nat /\ view \in CoinsMaps /\ coins \in CoinsMaps /\ blk \in Blocks
  BY <1>1 DEF CoinsInv, CoinsType, NextHeight, ConnectGood, BlockGood
<1>3. /\ InOrder(blk) /\ Effect(blk, coins, view) /\ Height[blk.cb] = NextHeight
      /\ History(Mined(Len(chain)) \union Ids(blk), view)
  BY <1>1 DEF HistInv
<1> DEFINE M == Mined(Len(chain)) \union Ids(blk)
           L == Len(blk.vtx)
<1>4. t \notin M /\ History(M \union {t}, view')
  BY <1>1, <1>2, <1>3, HistoryTx
<1>5. /\ blk'.cb = blk.cb /\ blk'.vtx = Append(blk.vtx, t) /\ L \in Nat /\ Len(blk'.vtx) = L + 1
      /\ \A j \in 1..L : blk'.vtx[j] = blk.vtx[j] /\ blk.vtx[j] \in Txs
      /\ blk'.vtx[L + 1] = t
  <2>1. blk'.cb = blk.cb /\ blk'.vtx = Append(blk.vtx, t)
    BY <1>1, <1>2 DEF Blocks
  <2>2. blk.vtx \in Seq(Txs)
    BY <1>2, BlockParts
  <2> QED
    BY <2>1, <2>2, Appended
<1>6. Body(blk') = Body(blk) \union {t} /\ Ids(blk') = Ids(blk) \union {t}
  <2>1. \A j \in 1..(L + 1) : j \in 1..L \/ j = L + 1
    BY <1>5
  <2>2. L + 1 \in 1..(L + 1) /\ 1..L \subseteq 1..(L + 1)
    BY <1>5
  <2>3. Body(blk') = {blk'.vtx[j] : j \in 1..(L + 1)} /\ Body(blk) = {blk.vtx[j] : j \in 1..L}
    BY <1>5 DEF Body
  <2> HIDE DEF L
  <2>4. Body(blk') = Body(blk) \union {t}
    BY <1>5, <2>1, <2>2, <2>3
  <2> QED
    BY <1>5, <2>4 DEF Ids
<1>7. Effect(blk', coins, view')
  <2>1. t \notin Ids(blk) /\ Body(blk) \subseteq Txs
    BY <1>2, <1>4, BlockParts
  <2>2. /\ NextHeight \in Nat /\ view \in CoinsMaps /\ Effect(blk, coins, view)
        /\ view' = UpdateCoins(view, t, NextHeight) /\ coins[t].vout = {}
    BY <1>1, <1>2, <1>3
  <2>3. Body(blk') = Body(blk) \union {t} /\ blk'.cb = blk.cb
    BY <1>5, <1>6
  <2> QED
    BY <2>1, <2>2, <2>3, EffectTx
<1>8. InOrder(blk')
  <2> SUFFICES ASSUME NEW e \in 1..(L + 1), NEW j \in 1..(L + 1)
               PROVE  /\ blk'.vtx[e] = blk'.vtx[j] => e = j
                      /\ \A o \in Vin[blk'.vtx[j]] : o[1] = blk'.vtx[e] => e < j
    BY <1>5 DEF InOrder
  <2>1. DOMAIN blk.vtx = 1..L
    BY <1>2, BlockParts
  <2>2. \A x \in 1..L : blk.vtx[x] # t /\ blk.vtx[x] \in M \intersect Txs
    BY <1>1, <1>5, <2>1 DEF Body, Ids
  <2>3. \A x \in 1..L : \A o \in Vin[blk.vtx[x]] : o[1] # t
    BY <1>3, <1>4, <2>2 DEF History
  <2>4. \A o \in Vin[t] : o[1] # t
    BY SpentType
  <2>5. CASE e \in 1..L /\ j \in 1..L
    BY <1>3, <1>5, <2>5 DEF InOrder
  <2>6. CASE e = L + 1 /\ j \in 1..L
    BY <1>5, <2>2, <2>3, <2>6
  <2>7. CASE e \in 1..L /\ j = L + 1
    BY <1>5, <2>2, <2>7
  <2>8. CASE e = L + 1 /\ j = L + 1
    BY <1>5, <2>4, <2>8
  <2> QED
    BY <1>5, <2>5, <2>6, <2>7, <2>8
<1>9. Mined(Len(chain))' = Mined(Len(chain)) /\ NextHeight' = NextHeight
  BY <1>1 DEF Mined, NextHeight
<1>10. \A h \in 1..Len(chain) : MinedGood(h)'
  BY <1>1, MinedSame DEF HistInv
<1>11. M \union {t} = Mined(Len(chain)) \union Ids(blk')
  BY <1>6
<1> QED
  BY <1>1, <1>3, <1>4, <1>5, <1>7, <1>8, <1>9, <1>10, <1>11 DEF HistInv

\* The chain gets longer or shorter by one block: what was mined below does not change.
LEMMA MinedAppend ==
    ASSUME NEW b \in Blocks, chain \in Seq(Blocks), chain' = Append(chain, b)
    PROVE  /\ Len(chain) \in Nat /\ Len(chain') = Len(chain) + 1 /\ chain'[Len(chain) + 1] = b
           /\ \A h \in 1..Len(chain) : chain'[h] = chain[h]
           /\ \A h \in 0..Len(chain) : Mined(h)' = Mined(h)
           /\ Mined(Len(chain))' = Mined(Len(chain)) \union Ids(b)
<1>1. /\ Len(chain) \in Nat /\ Len(chain') = Len(chain) + 1 /\ chain'[Len(chain) + 1] = b
      /\ \A h \in 1..Len(chain) : chain'[h] = chain[h]
  BY Appended
<1>2. ASSUME NEW h \in 0..Len(chain) PROVE Mined(h)' = Mined(h)
  <2>1. \A g \in 1..h : chain'[g] = chain[g]
    BY <1>1
  <2> QED
    BY <2>1 DEF Mined
<1>3. Mined(Len(chain))' = Mined(Len(chain)) \union Ids(b)
  <2>1. \A g \in 1..(Len(chain) + 1) : g \in 1..Len(chain) \/ g = Len(chain) + 1
    BY <1>1
  <2>2. Len(chain) + 1 \in 1..(Len(chain) + 1) /\ 1..Len(chain) \subseteq 1..(Len(chain) + 1)
    BY <1>1
  <2>3. Mined(Len(chain))' = UNION {Ids(chain'[g]) : g \in 1..(Len(chain) + 1)}
    BY <1>1 DEF Mined
  <2>4. Mined(Len(chain)) = UNION {Ids(chain[g]) : g \in 1..Len(chain)}
    BY DEF Mined
  <2>5. PICK L : L = Len(chain)
    OBVIOUS
  <2>6. UNION {Ids(chain'[g]) : g \in 1..(L + 1)} = (UNION {Ids(chain[g]) : g \in 1..L}) \union Ids(b)
    BY <1>1, <2>1, <2>2, <2>5
  <2> QED
    BY <2>3, <2>4, <2>5, <2>6
<1> QED
  BY <1>1, <1>2, <1>3

LEMMA HistFlushConnect ==
    ASSUME CoinsInv, HistInv, FlushConnect
    PROVE  HistInv'
<1>1. /\ pc = "connect" /\ pc' = "remove" /\ coins' = view /\ chain' = Append(chain, blk) /\ blk' = blk
  BY DEF FlushConnect
<1>2. blk \in Blocks /\ blk.snaps[1] = coins /\ view = After(blk) /\ chain \in Seq(Blocks)
  BY <1>1 DEF CoinsInv, ConnectGood, BlockGood, CoinsType
<1>3. /\ Len(chain) \in Nat /\ Len(chain') = Len(chain) + 1 /\ chain'[Len(chain) + 1] = blk
      /\ \A h \in 1..Len(chain) : chain'[h] = chain[h]
      /\ \A h \in 0..Len(chain) : Mined(h)' = Mined(h)
      /\ Mined(Len(chain))' = Mined(Len(chain)) \union Ids(blk)
  BY <1>1, <1>2, MinedAppend
<1>4. ASSUME NEW h \in 1..Len(chain') PROVE MinedGood(h)'
  <2>1. CASE h = Len(chain) + 1
    <3>1. /\ InOrder(blk) /\ Effect(blk, coins, view) /\ Height[blk.cb] = NextHeight
          /\ History(Mined(Len(chain)) \union Ids(blk), view)
      BY <1>1 DEF HistInv
    <3>2. Mined(h)' = Mined(Len(chain)) \union Ids(blk) /\ chain'[h] = blk
      <4>1. h = Len(chain')
        BY <1>3, <2>1
      <4> QED
        BY <1>3, <2>1, <4>1
    <3> QED
      BY <1>2, <2>1, <3>1, <3>2 DEF MinedGood, NextHeight
  <2>2. CASE h # Len(chain) + 1
    <3>1. h \in 1..Len(chain) /\ h \in 0..Len(chain)
      BY <1>3, <2>2
    <3>2. MinedGood(h) /\ chain'[h] = chain[h] /\ Mined(h)' = Mined(h)
      BY <1>3, <3>1 DEF HistInv
    <3> QED
      BY <3>2 DEF MinedGood
  <2> QED
    BY <2>1, <2>2
<1>5. chain' # <<>> /\ blk' = chain'[Len(chain')]
  BY <1>1, <1>3
<1> QED
  BY <1>1, <1>4, <1>5 DEF HistInv

LEMMA HistFlushDisconnect ==
    ASSUME CoinsInv, HistInv, FlushDisconnect, CoinsInv'
    PROVE  /\ HistInv' /\ \A h \in 0..Len(chain') : Mined(h)' = Mined(h)
           /\ chain # <<>> /\ blk = chain[Len(chain)] /\ coins' = blk.snaps[1] /\ blk' = blk
           /\ Len(chain) \in Nat /\ Len(chain') = Len(chain) - 1 /\ blk \in Blocks
<1>1. /\ pc = "disconnect" /\ chain' = SubSeq(chain, 1, Len(chain) - 1) /\ pc' = "resurrect"
      /\ blk' = blk
  BY DEF FlushDisconnect
<1>2. chain # <<>> /\ blk = chain[Len(chain)]
  BY <1>1 DEF CoinsInv, DisconnectGood
<1>3. Len(chain) \in Nat \ {0} /\ chain \in Seq(Blocks) /\ blk \in Blocks
  BY <1>2, TopBlock DEF CoinsInv, CoinsType
<1>4. coins' = blk.snaps[1]
  BY <1>1 DEF CoinsInv, DisconnectGood
<1>5. /\ Len(chain') = Len(chain) - 1
      /\ \A h \in 1..(Len(chain) - 1) : chain'[h] = chain[h]
  BY <1>1, <1>3, WithoutLast
<1>6. ASSUME NEW h \in 0..(Len(chain) - 1) PROVE Mined(h)' = Mined(h)
  <2>1. \A g \in 1..h : chain'[g] = chain[g]
    BY <1>3, <1>5
  <2> QED
    BY <2>1 DEF Mined
<1>7. ASSUME NEW h \in 1..(Len(chain) - 1) PROVE MinedGood(h)'
  <2>1. h \in 1..Len(chain) /\ h \in 0..(Len(chain) - 1)
    BY <1>3
  <2>2. MinedGood(h) /\ chain'[h] = chain[h] /\ Mined(h)' = Mined(h)
    BY <1>5, <1>6, <2>1 DEF HistInv
  <2> QED
    BY <2>2 DEF MinedGood
<1>8. MinedGood(Len(chain))
  BY <1>3 DEF HistInv
<1>9. InOrder(blk) /\ \A id \in Ids(blk) : coins'[id].vout = {}
  BY <1>2, <1>4, <1>8 DEF MinedGood, Effect
<1>10. HistInv'
  BY <1>1, <1>5, <1>7, <1>9 DEF HistInv
<1> QED
  BY <1>1, <1>2, <1>3, <1>4, <1>5, <1>6, <1>10

\* The other steps leave the chain and the block of the loop alone.
LEMMA HistSame ==
    ASSUME HistInv, UNCHANGED <<coins, chain>>,
           pc' \in {"idle", "disconnect"} \/ UNCHANGED <<pc, blk, view>>
    PROVE  HistInv'
<1>1. \A h \in 1..Len(chain) : MinedGood(h)'
  BY MinedSame DEF HistInv
<1>2. Mined(Len(chain))' = Mined(Len(chain)) /\ NextHeight' = NextHeight
  BY DEF Mined, NextHeight
<1> QED
  BY <1>1, <1>2 DEF HistInv

LEMMA HistStep ==
    ASSUME CoinsInv, HistInv, Next, CoinsInv'
    PROVE  HistInv'
<1>1. ASSUME NEW t \in Txs, AcceptToMemoryPool(t) PROVE HistInv'
  BY <1>1, HistSame DEF AcceptToMemoryPool, loopVars
<1>2. CASE ConnectFails \/ RemoveForBlock \/ EndConnect \/ DisconnectTip \/ DisconnectTx \/ Resurrect
           \/ EndDisconnect
  <2>1. DisconnectTx => pc = "disconnect" /\ pc' = "disconnect"
    BY DEF DisconnectTx
  <2> QED
    BY <1>2, <2>1, HistSame DEF ConnectFails, RemoveForBlock, EndConnect, DisconnectTip, DisconnectTx,
       Resurrect, EndDisconnect
<1> QED
  BY <1>1, <1>2, HistBegin, HistConnectTx, HistFlushConnect, HistFlushDisconnect DEF Next

-----------------------------------------------------------------------------
(***************************************************************************)
(* The pool under the chain.  While removeForBlock is under way some       *)
(* inputs are spent by the rest of the block; while DisconnectTip goes     *)
(* through the block's transactions some inputs are outputs of the rest.   *)
(***************************************************************************)
MatureCoin(id) == coins[id].fCoinBase => NextHeight - coins[id].nHeight >= COINBASE_MATURITY

\* o is not an output of the pool: where it comes from.
Covered(o) ==
    \/ o[2] \in coins[o[1]].vout /\ (pc # "resurrect" => MatureCoin(o[1]))
    \/ pc = "remove" /\ \E j \in k..Len(blk.vtx) : o \in Vin[blk.vtx[j]]
    \/ /\ pc = "resurrect" /\ o[2] \in Vout[o[1]]
       /\ \/ k = 0 /\ o[1] = blk.cb
          \/ \E j \in 1..Len(blk.vtx) : j >= k /\ o[1] = blk.vtx[j]

NoneBad == mapTx \intersect BadTxs = {}
NoneMined ==
    \A t \in mapTx : t \in Mined(Len(chain)) =>
        pc = "remove" /\ \E j \in k..Len(blk.vtx) : t = blk.vtx[j]
AllCovered ==
    \A t \in mapTx : \A o \in Vin[t] : IF o[1] \in mapTx THEN o[2] \in Vout[o[1]] ELSE Covered(o)
LoopGood ==
    /\ pc = "remove" => k >= 1
    /\ pc = "resurrect" => \A j \in 1..Len(blk.vtx) : j >= k => blk.vtx[j] \notin mapTx
FollowInv == NoneBad /\ NoneMined /\ AllCovered /\ LoopGood

\* The loop over the orphans runs between the operations on the chain.
QueueInv == (work # <<>> => pc = "idle") /\ (work = <<>> => left = {})

\* remove works through mapNextTx: what it finds is closed, and the least such set.
LEMMA DescendantsClosed ==
    ASSUME NEW roots
    PROVE  /\ Descendants(roots) \subseteq mapTx /\ roots \intersect mapTx \subseteq Descendants(roots)
           /\ \A s \in Descendants(roots) : Children(s) \intersect mapTx \subseteq Descendants(roots)
BY DEF Descendants

LEMMA DescendantsWithin ==
    ASSUME NEW roots, NEW S, S \subseteq mapTx, roots \intersect mapTx \subseteq S,
           \A s \in S : Children(s) \intersect mapTx \subseteq S
    PROVE  Descendants(roots) \subseteq S
BY DEF Descendants

LEMMA ChildrenAre ==
    ASSUME PoolInv, NEW s \in Txids
    PROVE  \A t : t \in Children(s) <=>
                t \in mapTx /\ \E o \in Vin[t] : o[1] = s /\ o[2] \in Vout[s]
<1>1. ASSUME NEW t \in Children(s)
      PROVE  t \in mapTx /\ \E o \in Vin[t] : o[1] = s /\ o[2] \in Vout[s]
  <2>1. PICK o \in Out(s) \intersect Prevouts : t = mapNextTx[o] /\ t # NoTx
    BY DEF Children
  <2>2. o[1] = s /\ o[2] \in Vout[s]
    BY <2>1 DEF Out
  <2>3. t \in Txs
    BY <2>1 DEF PoolInv, PoolType
  <2> QED
    BY <2>1, <2>2, <2>3 DEF PoolInv, NextTxExact
<1>2. ASSUME NEW t \in mapTx, NEW o \in Vin[t], o[1] = s, o[2] \in Vout[s]
      PROVE  t \in Children(s)
  <2>1. t \in Txs /\ t # NoTx
    BY DEF PoolInv, PoolType, TxAssumption
  <2>2. o = <<s, o[2]>>
    BY <1>2, <2>1, SpentIs
  <2>3. o \in Out(s) \intersect Prevouts
    BY <1>2, <2>1, <2>2 DEF Out, Prevouts
  <2>4. mapNextTx[o] = t
    BY <2>1, <2>3 DEF PoolInv, NextTxExact
  <2> QED
    BY <2>1, <2>3, <2>4 DEF Children
<1> QED
  BY <1>1, <1>2

\* When a closed part of the pool goes, the inputs of the rest are where they were.
LEMMA ClosedRemoval ==
    ASSUME PoolInv, AllCovered, NEW R, Removing(R),
           \A s \in R : Children(s) \intersect mapTx \subseteq R
    PROVE  \A t \in mapTx' : \A o \in Vin[t] :
                IF o[1] \in mapTx' THEN o[2] \in Vout[o[1]] ELSE o[1] \notin mapTx /\ Covered(o)
<1> SUFFICES ASSUME NEW t \in mapTx', NEW o \in Vin[t]
             PROVE  IF o[1] \in mapTx' THEN o[2] \in Vout[o[1]] ELSE o[1] \notin mapTx /\ Covered(o)
  OBVIOUS
<1>1. mapTx' = mapTx \ R /\ t \in mapTx /\ t \notin R /\ t \in Txs
  BY DEF Removing, PoolInv, PoolType
<1>2. o[1] \in Txids
  BY <1>1, SpentIs
<1>3. IF o[1] \in mapTx THEN o[2] \in Vout[o[1]] ELSE Covered(o)
  BY <1>1 DEF AllCovered
<1>4. ASSUME o[1] \in R, o[1] \in mapTx PROVE FALSE
  BY <1>1, <1>2, <1>3, <1>4, ChildrenAre
<1> QED
  BY <1>1, <1>3, <1>4

\* Nothing that the chain has mined is accepted again: its inputs are spent.
LEMMA AcceptedIsNew ==
    ASSUME CoinsInv, HistInv, FollowInv, pc # "remove", NEW t \in Txs, Acceptable(t)
    PROVE  /\ t \notin Mined(Len(chain)) /\ t \notin mapTx /\ t \notin BadTxs /\ coins[t].vout = {}
           /\ \A o \in Vin[t] : /\ o[1] # t
                                /\ IF o[1] \in mapTx THEN o[2] \in Vout[o[1]]
                                   ELSE o[2] \in coins[o[1]].vout /\ MatureCoin(o[1])
<1>1. /\ t \notin mapTx /\ t \notin BadTxs /\ t \in Txids /\ coins[t].vout = {}
  BY DEF Acceptable, Fresh, PoolCoins, Txids
<1>2. ASSUME NEW o \in Vin[t]
      PROVE  /\ o[1] # t /\ o[1] \in Txids
             /\ IF o[1] \in mapTx THEN o[2] \in Vout[o[1]]
                ELSE o[2] \in coins[o[1]].vout /\ MatureCoin(o[1])
  <2>1. o[1] \in Txids /\ o[1] # t
    BY SpentIs DEF TxAssumption
  <2>2. /\ o[2] \in PoolCoins(o[1]).vout
        /\ PoolCoins(o[1]).fCoinBase => NextHeight - PoolCoins(o[1]).nHeight >= COINBASE_MATURITY
    BY <2>1 DEF Acceptable, HaveInputs, Mature
  <2>3. CASE o[1] \in mapTx
    BY <2>1, <2>2, <2>3 DEF PoolCoins, FromTx, Cleaned, Pruned
  <2>4. CASE o[1] \notin mapTx
    BY <2>1, <2>2, <2>4 DEF PoolCoins, MatureCoin
  <2> QED
    BY <2>1, <2>3, <2>4
<1>3. ASSUME t \in Mined(Len(chain)) PROVE FALSE
  <2>1. PICK o \in Vin[t] : TRUE
    BY DEF TxAssumption
  <2>2. o[1] \in Mined(Len(chain)) /\ o[2] \notin coins[o[1]].vout
    BY <1>3, <2>1, TopHistory DEF History
  <2>3. o[1] \notin mapTx
    BY <2>2 DEF FollowInv, NoneMined
  <2> QED
    BY <1>2, <2>1, <2>2, <2>3
<1> QED
  BY <1>1, <1>2, <1>3

\* Between the loops over the pool every input is an output of the pool or a mature coin.
LEMMA Rest ==
    ASSUME FollowInv, CoinsInv, pc \in {"idle", "connect", "disconnect"} \/ (pc = "remove" /\ k > Len(blk.vtx))
    PROVE  /\ \A t \in mapTx : t \notin Mined(Len(chain))
           /\ \A t \in mapTx : \A o \in Vin[t] :
                IF o[1] \in mapTx THEN o[2] \in Vout[o[1]]
                ELSE o[2] \in coins[o[1]].vout /\ MatureCoin(o[1])
<1>1. blk.vtx \in Seq(Txs) /\ Len(blk.vtx) \in Nat /\ k \in Nat
  <2>1. blk.vtx \in Seq(Txs) /\ k \in Nat
    <3>1. CASE blk \in Blocks
      BY <3>1 DEF CoinsInv, CoinsType, Blocks
    <3>2. CASE blk = NoBlock
      BY <3>2 DEF CoinsInv, CoinsType, NoBlock
    <3> QED
      BY <3>1, <3>2 DEF CoinsInv, CoinsType
  <2> QED
    BY <2>1
<1>2. pc = "remove" => k..Len(blk.vtx) = {}
  BY <1>1
<1> QED
  BY <1>2 DEF FollowInv, NoneMined, AllCovered, Covered

LEMMA FollowCalm ==
    ASSUME FollowInv, CoinsInv, UNCHANGED <<mapTx, coins, chain>>,
           pc \in {"idle", "connect", "disconnect"} \/ (pc = "remove" /\ k > Len(blk.vtx)),
           pc' \in {"idle", "connect", "disconnect"}
    PROVE  FollowInv'
<1>1. /\ Mined(Len(chain))' = Mined(Len(chain))
      /\ \A id \in Txids : MatureCoin(id)' = MatureCoin(id)
  BY MinedSame DEF MatureCoin
<1>2. NoneMined'
  BY <1>1, Rest DEF NoneMined
<1>3. AllCovered'
  <2> SUFFICES ASSUME NEW t \in mapTx', NEW o \in Vin[t]
               PROVE  IF o[1] \in mapTx' THEN o[2] \in Vout[o[1]] ELSE Covered(o)'
    BY DEF AllCovered
  <2>1. IF o[1] \in mapTx THEN o[2] \in Vout[o[1]] ELSE o[2] \in coins[o[1]].vout /\ MatureCoin(o[1])
    BY Rest
  <2> QED
    BY <2>1 DEF Covered, MatureCoin, NextHeight
<1> QED
  BY <1>2, <1>3 DEF FollowInv, NoneBad, LoopGood

LEMMA FollowAccept ==
    ASSUME FollowInv, CoinsInv, HistInv, NEW t \in Txs, Acceptable(t), addUnchecked(t), pc = "idle",
           UNCHANGED <<coins, chain, pc>>
    PROVE  FollowInv'
<1>1. mapTx' = mapTx \union {t}
  BY DEF addUnchecked
<1>2. /\ t \notin Mined(Len(chain)) /\ t \notin mapTx /\ t \notin BadTxs /\ coins[t].vout = {}
      /\ \A o \in Vin[t] : /\ o[1] # t
                           /\ IF o[1] \in mapTx THEN o[2] \in Vout[o[1]]
                              ELSE o[2] \in coins[o[1]].vout /\ MatureCoin(o[1])
  BY AcceptedIsNew
<1>3. Mined(Len(chain))' = Mined(Len(chain))
  BY MinedSame
<1>4. NoneMined'
  BY <1>1, <1>2, <1>3, Rest DEF NoneMined
<1>5. AllCovered'
  <2> SUFFICES ASSUME NEW u \in mapTx', NEW o \in Vin[u]
               PROVE  IF o[1] \in mapTx' THEN o[2] \in Vout[o[1]] ELSE Covered(o)'
    BY DEF AllCovered
  <2>1. IF o[1] \in mapTx THEN o[2] \in Vout[o[1]] ELSE o[2] \in coins[o[1]].vout /\ MatureCoin(o[1])
    BY <1>1, <1>2, Rest
  <2>2. o[1] = t => o[2] \in Vout[o[1]]
    BY <1>2, <2>1
  <2> QED
    BY <1>1, <2>1, <2>2 DEF Covered, MatureCoin, NextHeight
<1> QED
  BY <1>1, <1>2, <1>4, <1>5 DEF FollowInv, NoneBad, LoopGood

\* The block of the loop.
LEMMA LoopBlock ==
    ASSUME CoinsInv, pc \in {"connect", "disconnect", "resurrect"} \/ (HistInv /\ pc = "remove")
    PROVE  /\ blk \in Blocks /\ blk.vtx \in Seq(Txs) /\ Len(blk.vtx) \in Nat /\ k \in Nat
           /\ blk.cb \in Coinbases /\ blk.cb \in Txids /\ blk.cb \notin Txs
           /\ \A j \in 1..Len(blk.vtx) : blk.vtx[j] \in Txs /\ blk.vtx[j] \in Body(blk)
           /\ \A t \in Body(blk) : \E j \in 1..Len(blk.vtx) : t = blk.vtx[j]
<1>1. blk \in Blocks /\ k \in Nat
  BY TopBlock DEF CoinsInv, CoinsType, ConnectGood, BlockGood, DisconnectGood, HistInv
<1>2. blk.vtx \in Seq(Txs) /\ Len(blk.vtx) \in Nat /\ blk.cb \in Coinbases
  BY <1>1, BlockParts
<1> QED
  BY <1>1, <1>2 DEF Body, Txids, TxAssumption

\* The block's effect on the coins: an input of the pool is still there or spent by the block.
LEMMA FollowFlushConnect ==
    ASSUME FollowInv, CoinsInv, PoolInv, HistInv, FlushConnect
    PROVE  FollowInv'
<1>1. /\ pc = "connect" /\ pc' = "remove" /\ k' = 1 /\ coins' = view /\ chain' = Append(chain, blk)
      /\ blk' = blk /\ mapTx' = mapTx
  BY DEF FlushConnect, poolVars
<1>2. /\ blk \in Blocks /\ chain \in Seq(Blocks) /\ \A id \in Txids : coins[id].nHeight \in Nat
      /\ Effect(blk, coins, view) /\ Len(blk.vtx) \in Nat
  BY <1>1, LoopBlock DEF CoinsInv, CoinsType, HistInv, CoinsMaps, CCoins
<1>3. Mined(Len(chain))' = Mined(Len(chain)) \union Ids(blk) /\ Len(chain) \in Nat
      /\ Len(chain') = Len(chain) + 1
  BY <1>1, <1>2, MinedAppend
<1>4. NoneMined'
  <2> SUFFICES ASSUME NEW t \in mapTx, t \in Mined(Len(chain))'
               PROVE  \E j \in 1..Len(blk.vtx) : t = blk.vtx[j]
    BY <1>1 DEF NoneMined
  <2>1. t \in Ids(blk) /\ t \in Txs
    BY <1>1, <1>3, Rest DEF PoolInv, PoolType
  <2>2. t \in Body(blk)
    BY <1>2, <2>1, BlockParts
  <2> QED
    BY <1>1, <2>2, LoopBlock
<1>5. AllCovered'
  <2> SUFFICES ASSUME NEW u \in mapTx', NEW o \in Vin[u]
               PROVE  IF o[1] \in mapTx' THEN o[2] \in Vout[o[1]] ELSE Covered(o)'
    BY DEF AllCovered
  <2>1. u \in Txs /\ o = <<o[1], o[2]>> /\ o[1] \in Txids
    BY <1>1, SpentIs DEF PoolInv, PoolType
  <2>2. IF o[1] \in mapTx THEN o[2] \in Vout[o[1]] ELSE o[2] \in coins[o[1]].vout /\ MatureCoin(o[1])
    BY <1>1, Rest
  <2>3. ASSUME o[1] \notin mapTx PROVE Covered(o)'
    <3>1. o[1] \in Txids \ Ids(blk)
      BY <1>2, <2>1, <2>2, <2>3 DEF Effect
    <3>2. CASE o[2] \in view[o[1]].vout
      <4>1. view[o[1]].nHeight = coins[o[1]].nHeight /\ view[o[1]].fCoinBase = coins[o[1]].fCoinBase
        BY <1>2, <3>1, <3>2 DEF Effect
      <4>2. coins[o[1]].fCoinBase => NextHeight - coins[o[1]].nHeight >= COINBASE_MATURITY
        BY <2>2, <2>3, Zenon DEF MatureCoin
      <4>3. coins[o[1]].nHeight \in Nat
        BY <1>2, <2>1
      <4>4. coins[o[1]].fCoinBase => NextHeight' - coins[o[1]].nHeight >= COINBASE_MATURITY
        BY <1>3, <4>2, <4>3 DEF TxAssumption, NextHeight
      <4>5. MatureCoin(o[1])'
        BY <1>1, <4>1, <4>4, Zenon DEF MatureCoin
      <4> QED
        BY <1>1, <3>2, <4>5 DEF Covered
    <3>3. CASE o[2] \notin view[o[1]].vout
      <4>1. \E w \in Body(blk) : o \in Vin[w]
        BY <1>2, <2>1, <2>2, <2>3, <3>1, <3>3 DEF Effect
      <4>2. \E j \in 1..Len(blk.vtx) : o \in Vin[blk.vtx[j]]
        BY <1>1, <4>1, LoopBlock
      <4> QED
        BY <1>1, <4>2 DEF Covered
    <3> QED
      BY <3>2, <3>3
  <2> QED
    BY <1>1, <2>2, <2>3
<1>6. NoneBad' /\ LoopGood'
  BY <1>1 DEF FollowInv, NoneBad, LoopGood
<1> QED
  BY <1>4, <1>5, <1>6 DEF FollowInv

\* A turn of removeForBlock.  A transaction that leaves the pool for the block leaves its
\* outputs in the chain; one that was not in the pool takes the conflicts out.
LEMMA FollowRemove ==
    ASSUME FollowInv, CoinsInv, PoolInv, HistInv, RemoveForBlock
    PROVE  FollowInv'
<1> DEFINE t == blk.vtx[k]
<1>1. /\ pc = "remove" /\ pc' = "remove" /\ k <= Len(blk.vtx) /\ k' = k + 1
      /\ UNCHANGED <<coins, chain, blk>> /\ Removing(IF t \in mapTx THEN {t} ELSE Conflicts(t))
  BY DEF RemoveForBlock
<1>2. PICK R : R = IF t \in mapTx THEN {t} ELSE Conflicts(t)
  OBVIOUS
<1>3. mapTx' = mapTx \ R /\ Removing(R) /\ mapTx \subseteq Txs
  BY <1>1, <1>2 DEF Removing, PoolInv, PoolType
<1>4. k \in Nat /\ Len(blk.vtx) \in Nat /\ k >= 1 /\ k \in 1..Len(blk.vtx) /\ t \in Txs /\ t \in Body(blk)
  BY <1>1, LoopBlock DEF FollowInv, LoopGood
<1>5. \A j \in k..Len(blk.vtx) : j = k \/ j \in (k + 1)..Len(blk.vtx)
  BY <1>4
<1>6. \A j \in (k + 1)..Len(blk.vtx) : j \in k..Len(blk.vtx)
  BY <1>4
<1>7. t \notin mapTx'
  BY <1>2, <1>3
<1>8. NoneMined'
  <2> SUFFICES ASSUME NEW u \in mapTx', u \in Mined(Len(chain))'
               PROVE  \E j \in (k + 1)..Len(blk.vtx) : u = blk.vtx[j]
    BY <1>1 DEF NoneMined
  <2>1. PICK j \in k..Len(blk.vtx) : u = blk.vtx[j]
    BY <1>1, <1>3, MinedSame DEF FollowInv, NoneMined
  <2> QED
    BY <1>5, <1>7, <2>1
\* What is covered and not by this transaction stays so.
<1>9. ASSUME NEW o, Covered(o), o \notin Vin[t] PROVE Covered(o)'
  <2>1. CASE o[2] \in coins[o[1]].vout /\ MatureCoin(o[1])
    BY <1>1, <2>1 DEF Covered, MatureCoin, NextHeight
  <2>2. CASE \E j \in k..Len(blk.vtx) : o \in Vin[blk.vtx[j]]
    BY <1>1, <1>5, <1>9, <2>2 DEF Covered
  <2> QED
    BY <1>1, <1>9, <2>1, <2>2 DEF Covered
<1>10. AllCovered'
  <2> SUFFICES ASSUME NEW u \in mapTx', NEW o \in Vin[u]
               PROVE  IF o[1] \in mapTx' THEN o[2] \in Vout[o[1]] ELSE Covered(o)'
    BY DEF AllCovered
  <2>1. u \in mapTx /\ u \in Txs /\ u # t /\ o = <<o[1], o[2]>> /\ o[1] \in Txids /\ o \in Prevouts
    BY <1>3, <1>7, SpentIs DEF Prevouts
  <2>2. IF o[1] \in mapTx THEN o[2] \in Vout[o[1]] ELSE Covered(o)
    BY <2>1 DEF FollowInv, AllCovered
  <2>3. CASE t \in mapTx
    <3>1. o \notin Vin[t]
      BY <1>4, <2>1, <2>3 DEF PoolInv, NextTxExact
    <3>2. ASSUME o[1] = t PROVE Covered(o)'
      <4>1. Effect(blk, blk.snaps[1], coins) /\ InOrder(blk)
        <5>1. chain # <<>> /\ blk = chain[Len(chain)]
          BY <1>1 DEF HistInv
        <5>2. Len(chain) \in 1..Len(chain) /\ coins = After(blk)
          BY <5>1, TopBlock
        <5> QED
          BY <5>1, <5>2 DEF HistInv, MinedGood
      <4>2. ~coins[t].fCoinBase
        BY <1>4, <4>1 DEF Effect
      <4>3. o[2] \in coins[t].vout \/ \E w \in Body(blk) : o \in Vin[w]
        BY <1>4, <2>1, <2>2, <2>3, <3>2, <4>1 DEF Effect
      <4>4. CASE o[2] \in coins[t].vout
        BY <1>1, <3>2, <4>2, <4>4 DEF Covered, MatureCoin
      <4>5. CASE \E w \in Body(blk) : o \in Vin[w]
        <5>1. PICK j \in 1..Len(blk.vtx) : o \in Vin[blk.vtx[j]]
          BY <1>1, <4>5, LoopBlock
        <5>2. k < j
          BY <1>4, <3>2, <4>1, <5>1 DEF InOrder
        <5>3. j \in (k + 1)..Len(blk.vtx)
          BY <1>4, <5>2
        <5> QED
          BY <1>1, <5>1, <5>3 DEF Covered
      <4> QED
        BY <4>3, <4>4, <4>5
    <3>3. o[1] # t => (o[1] \in mapTx <=> o[1] \in mapTx')
      BY <1>2, <1>3, <2>3
    <3> QED
      BY <1>7, <1>9, <2>2, <3>1, <3>2, <3>3
  <2>4. CASE t \notin mapTx
    <3>1. R = Descendants({mapNextTx[p] : p \in Vin[t]} \ {NoTx, t})
      BY <1>2, <2>4 DEF Conflicts
    <3>2. /\ \A s \in R : Children(s) \intersect mapTx \subseteq R
          /\ ({mapNextTx[p] : p \in Vin[t]} \ {NoTx, t}) \intersect mapTx \subseteq R
      BY <3>1, DescendantsClosed
    <3>3. IF o[1] \in mapTx' THEN o[2] \in Vout[o[1]] ELSE o[1] \notin mapTx /\ Covered(o)
      BY <1>3, <3>2, ClosedRemoval DEF FollowInv
    <3>4. o \notin Vin[t]
      <4>1. mapNextTx[o] = u /\ u # NoTx
        BY <2>1 DEF PoolInv, NextTxExact, TxAssumption
      <4> QED
        BY <1>3, <2>1, <3>2, <4>1
    <3> QED
      BY <1>9, <3>3, <3>4
  <2> QED
    BY <2>3, <2>4
<1>11. NoneBad' /\ LoopGood'
  BY <1>1, <1>3, <1>4 DEF FollowInv, NoneBad, LoopGood
<1> QED
  BY <1>8, <1>10, <1>11 DEF FollowInv

\* The block is undone: inputs of the pool that it had made are gone from the coins.
LEMMA FollowFlushDisconnect ==
    ASSUME FollowInv, CoinsInv, PoolInv, HistInv, FlushDisconnect, CoinsInv'
    PROVE  FollowInv'
<1>1. pc = "disconnect" /\ pc' = "resurrect" /\ k = 0 /\ k' = k /\ mapTx' = mapTx
  BY DEF FlushDisconnect, poolVars
<1>2. /\ \A h \in 0..Len(chain') : Mined(h)' = Mined(h)
      /\ chain # <<>> /\ blk = chain[Len(chain)] /\ coins' = blk.snaps[1] /\ blk' = blk
      /\ Len(chain) \in Nat /\ Len(chain') = Len(chain) - 1 /\ blk \in Blocks
  BY HistFlushDisconnect
<1>3. Len(chain) \in 1..Len(chain) /\ Len(chain') \in Nat /\ coins = After(blk)
  BY <1>2, TopBlock
<1>4. Effect(blk, coins', coins) /\ History(Mined(Len(chain)), coins)
  BY <1>2, <1>3, TopHistory DEF HistInv, MinedGood
<1>5. Ids(blk) \subseteq Mined(Len(chain))
  BY <1>2, <1>3 DEF Mined
<1>6. Mined(Len(chain))' \subseteq Mined(Len(chain))
  <2>1. ASSUME NEW h, h = Len(chain') PROVE Mined(h)' \subseteq Mined(Len(chain))
    <3>1. Mined(h)' = Mined(h) /\ h \in 0..Len(chain)
      BY <1>2, <1>3, <2>1
    <3>2. 1..h \subseteq 1..Len(chain)
      BY <1>2, <3>1
    <3> QED
      BY <3>1, <3>2 DEF Mined
  <2>2. \A h : h = Len(chain') => Mined(h)' = Mined(Len(chain))'
    BY DEF Mined
  <2> QED
    BY <2>1, <2>2
<1>7. \A t \in mapTx : t \notin Mined(Len(chain))
  BY <1>1, Rest
<1>8. NoneMined' /\ NoneBad'
  BY <1>1, <1>6, <1>7 DEF NoneMined, FollowInv, NoneBad
<1>9. LoopGood'
  <2>1. \A j \in 1..Len(blk.vtx) : blk.vtx[j] \in Ids(blk)
    BY DEF Ids, Body
  <2> QED
    BY <1>1, <1>2, <1>5, <1>7, <2>1 DEF LoopGood
<1>10. AllCovered'
  <2> SUFFICES ASSUME NEW u \in mapTx', NEW o \in Vin[u]
               PROVE  IF o[1] \in mapTx' THEN o[2] \in Vout[o[1]] ELSE Covered(o)'
    BY DEF AllCovered
  <2>1. u \in Txs /\ o[1] \in Txids
    BY <1>1, SpentIs DEF PoolInv, PoolType
  <2>2. IF o[1] \in mapTx THEN o[2] \in Vout[o[1]] ELSE o[2] \in coins[o[1]].vout
    BY <1>1, Rest
  <2>3. ASSUME o[1] \notin mapTx, o[1] \notin Ids(blk) PROVE Covered(o)'
    <3>1. o[2] \in coins'[o[1]].vout
      BY <1>4, <2>1, <2>2, <2>3 DEF Effect
    <3> QED
      BY <1>1, <3>1 DEF Covered
  <2>4. ASSUME o[1] \notin mapTx, o[1] \in Ids(blk) PROVE Covered(o)'
    <3>1. o[2] \in Vout[o[1]]
      BY <1>4, <2>1, <2>2, <2>4 DEF History
    <3>2. o[1] = blk.cb \/ \E j \in 1..Len(blk.vtx) : o[1] = blk.vtx[j]
      BY <2>4 DEF Ids, Body
    <3>3. \A j \in 1..Len(blk.vtx) : j >= 0
      BY <1>1, LoopBlock
    <3> QED
      BY <1>1, <1>2, <3>1, <3>2, <3>3 DEF Covered
  <2> QED
    BY <1>1, <2>2, <2>3, <2>4
<1> QED
  BY <1>8, <1>9, <1>10 DEF FollowInv

\* A turn of the loop in DisconnectTip: what the transaction's outputs had covered is an
\* output of the pool again, or has left it.
LEMMA FollowResurrect ==
    ASSUME FollowInv, CoinsInv, PoolInv, HistInv, Resurrect
    PROVE  FollowInv'
<1> DEFINE t == IF k = 0 THEN blk.cb ELSE blk.vtx[k]
<1>1. /\ pc = "resurrect" /\ pc' = "resurrect" /\ k <= Len(blk.vtx) /\ k' = k + 1
      /\ UNCHANGED <<coins, chain, blk>>
      /\ \/ Removing(Recursively(t))
         \/ k > 0 /\ Acceptable(t) /\ addUnchecked(t)
  <2>1. k \in Nat /\ (k > 0 => k # 0)
    BY DEF CoinsInv, CoinsType
  <2> QED
    BY <2>1 DEF Resurrect
<1>2. /\ k \in Nat /\ Len(blk.vtx) \in Nat /\ blk.cb \in Coinbases /\ blk.cb \notin Txs
      /\ \A j \in 1..Len(blk.vtx) : blk.vtx[j] \in Txs
      /\ k # 0 => k \in 1..Len(blk.vtx)
  BY <1>1, LoopBlock
<1>3. t \in Txids /\ t \notin mapTx /\ (k # 0 => t \in Txs)
  BY <1>1, <1>2 DEF FollowInv, LoopGood, PoolInv, PoolType, Txids
<1>4. \A j \in 1..Len(blk.vtx) : j >= k => (k # 0 /\ j = k) \/ j >= k + 1
  BY <1>2
<1>5. ASSUME NEW o, Covered(o), o[1] # t PROVE Covered(o)'
  <2>1. o[2] \in coins[o[1]].vout => Covered(o)'
    BY <1>1 DEF Covered
  <2> QED
    BY <1>1, <1>2, <1>4, <1>5, <2>1 DEF Covered
<1>6. ASSUME NEW o, Covered(o), o[1] = t PROVE o[2] \in Vout[t]
  <2>1. t \in Ids(blk)
    BY <1>2 DEF Ids, Body
  <2>2. coins[t].vout = {}
    BY <1>1, <2>1 DEF HistInv
  <2> QED
    BY <1>1, <1>6, <2>2 DEF Covered
<1>7. CASE Removing(Recursively(t))
  <2> DEFINE R == Recursively(t)
  <2>1. /\ \A s \in R : Children(s) \intersect mapTx \subseteq R
        /\ Children(t) \intersect mapTx \subseteq R
    BY <1>3, DescendantsClosed DEF Recursively
  <2>2. mapTx' = mapTx \ R /\ mapTx \subseteq Txs
    BY <1>7 DEF Removing, PoolInv, PoolType
  <2> HIDE DEF R, t
  <2>3. AllCovered'
    <3> SUFFICES ASSUME NEW u \in mapTx', NEW o \in Vin[u]
                 PROVE  IF o[1] \in mapTx' THEN o[2] \in Vout[o[1]] ELSE Covered(o)'
      BY DEF AllCovered
    <3>1. IF o[1] \in mapTx' THEN o[2] \in Vout[o[1]] ELSE o[1] \notin mapTx /\ Covered(o)
      BY <1>7, <2>1, ClosedRemoval DEF FollowInv, R
    <3>2. ASSUME o[1] = t, Covered(o) PROVE FALSE
      <4>1. u \in Children(t)
        BY <1>3, <1>6, <2>2, <3>2, ChildrenAre
      <4> QED
        BY <2>1, <2>2, <4>1
    <3> QED
      BY <1>5, <3>1, <3>2
  <2>4. NoneMined'
    BY <1>1, <2>2, MinedSame DEF FollowInv, NoneMined
  <2>5. NoneBad' /\ LoopGood'
    BY <1>1, <1>2, <2>2 DEF FollowInv, NoneBad, LoopGood
  <2> QED
    BY <2>3, <2>4, <2>5 DEF FollowInv
<1>8. CASE k > 0 /\ Acceptable(t) /\ addUnchecked(t)
  <2>1. k # 0 /\ t = blk.vtx[k] /\ t \in Txs /\ mapTx' = mapTx \union {t}
    BY <1>2, <1>3, <1>8 DEF addUnchecked
  <2>2. /\ t \notin Mined(Len(chain)) /\ t \notin BadTxs
        /\ \A o \in Vin[t] : /\ o[1] # t
                             /\ IF o[1] \in mapTx THEN o[2] \in Vout[o[1]]
                                ELSE o[2] \in coins[o[1]].vout
    BY <1>1, <1>8, <2>1, AcceptedIsNew
  <2> HIDE DEF t
  <2>3. AllCovered'
    <3> SUFFICES ASSUME NEW u \in mapTx', NEW o \in Vin[u]
                 PROVE  IF o[1] \in mapTx' THEN o[2] \in Vout[o[1]] ELSE Covered(o)'
      BY DEF AllCovered
    <3>1. CASE u = t
      BY <1>1, <2>1, <2>2, <3>1 DEF Covered
    <3>2. CASE u # t
      <4>1. IF o[1] \in mapTx THEN o[2] \in Vout[o[1]] ELSE Covered(o)
        BY <2>1, <3>2 DEF FollowInv, AllCovered
      <4> QED
        BY <1>5, <1>6, <2>1, <4>1
    <3> QED
      BY <3>1, <3>2
  <2>4. NoneMined'
    BY <1>1, <2>1, <2>2, MinedSame DEF FollowInv, NoneMined
  <2>5. LoopGood'
    <3> SUFFICES ASSUME NEW j \in 1..Len(blk.vtx), j >= k + 1 PROVE blk.vtx[j] \notin mapTx'
      BY <1>1 DEF LoopGood
    <3>1. j >= k /\ j # k /\ k \in 1..Len(blk.vtx)
      BY <1>2, <2>1
    <3>2. blk.vtx[j] # blk.vtx[k]
      BY <1>1, <3>1 DEF HistInv, InOrder
    <3>3. blk.vtx[j] \notin mapTx
      BY <1>1, <3>1 DEF FollowInv, LoopGood
    <3> QED
      BY <2>1, <3>2, <3>3
  <2> QED
    BY <2>1, <2>2, <2>3, <2>4, <2>5 DEF FollowInv, NoneBad
<1> QED
  BY <1>1, <1>7, <1>8

\* removeCoinbaseSpends: the coins that are too young once more.
LEMMA FollowEndDisconnect ==
    ASSUME FollowInv, CoinsInv, PoolInv, HistInv, EndDisconnect
    PROVE  FollowInv'
<1> DEFINE S == {t \in mapTx : \E o \in Vin[t] :
                    /\ o[1] \notin mapTx
                    /\ \/ coins[o[1]].vout = {}
                       \/ coins[o[1]].fCoinBase /\ NextHeight - coins[o[1]].nHeight < COINBASE_MATURITY}
           R == Descendants(S)
<1>1. /\ pc = "resurrect" /\ pc' = "idle" /\ k > Len(blk.vtx) /\ UNCHANGED <<coins, chain>>
      /\ Removing(R)
  BY DEF EndDisconnect, CoinbaseSpends
<1>2. S \subseteq R /\ (\A s \in R : Children(s) \intersect mapTx \subseteq R) /\ R \subseteq mapTx
  <2>1. S \intersect mapTx = S
    OBVIOUS
  <2> HIDE DEF S
  <2> QED
    BY <2>1, DescendantsClosed
<1>3. mapTx' = mapTx \ R /\ mapTx \subseteq Txs
  BY <1>1 DEF Removing, PoolInv, PoolType
<1> HIDE DEF R
<1>4. AllCovered'
  <2> SUFFICES ASSUME NEW u \in mapTx', NEW o \in Vin[u]
               PROVE  IF o[1] \in mapTx' THEN o[2] \in Vout[o[1]] ELSE Covered(o)'
    BY DEF AllCovered
  <2>1. IF o[1] \in mapTx' THEN o[2] \in Vout[o[1]] ELSE o[1] \notin mapTx /\ Covered(o)
    BY <1>1, <1>2, ClosedRemoval DEF FollowInv
  <2>2. ASSUME o[1] \notin mapTx, Covered(o) PROVE Covered(o)'
    <3>1. k \in Nat /\ Len(blk.vtx) \in Nat /\ k # 0 /\ ~ \E j \in 1..Len(blk.vtx) : j >= k
      BY <1>1, LoopBlock
    <3>2. o[2] \in coins[o[1]].vout
      BY <1>1, <2>2, <3>1 DEF Covered
    <3>3. u \in mapTx /\ u \notin S
      BY <1>2, <1>3
    <3>4. ~(coins[o[1]].fCoinBase /\ NextHeight - coins[o[1]].nHeight < COINBASE_MATURITY)
      BY <2>2, <3>3, Zenon
    <3>5. coins[o[1]].nHeight \in Nat /\ NextHeight \in Nat
      <4>1. o[1] \in Txids
        BY <1>3, <3>3, SpentIs
      <4> QED
        BY <4>1 DEF CoinsInv, CoinsType, CoinsMaps, CCoins, NextHeight
    <3>6. MatureCoin(o[1])
      BY <3>4, <3>5 DEF MatureCoin, TxAssumption
    <3>7. MatureCoin(o[1])'
      BY <1>1, <3>6 DEF MatureCoin, NextHeight
    <3> QED
      BY <1>1, <3>2, <3>7 DEF Covered
  <2> QED
    BY <2>1, <2>2
<1>5. NoneMined'
  BY <1>1, <1>3, MinedSame DEF FollowInv, NoneMined
<1> QED
  BY <1>1, <1>3, <1>4, <1>5 DEF FollowInv, NoneBad, LoopGood

LEMMA FollowStep ==
    ASSUME FollowInv, CoinsInv, PoolInv, HistInv, Next, CoinsInv'
    PROVE  FollowInv'
<1>1. ASSUME NEW t \in Txs, AcceptToMemoryPool(t) PROVE FollowInv'
  BY <1>1, FollowAccept DEF AcceptToMemoryPool, loopVars
<1>2. CASE \/ \E t \in Txs : ConnectTx(t)
           \/ \E cb \in Coinbases : BeginConnect(cb)
           \/ ConnectFails \/ EndConnect \/ DisconnectTip \/ DisconnectTx
  BY <1>2, FollowCalm DEF ConnectTx, BeginConnect, ConnectFails, EndConnect, DisconnectTip, DisconnectTx,
     poolVars
<1> QED
  BY <1>1, <1>2, FollowFlushConnect, FollowRemove, FollowFlushDisconnect, FollowResurrect,
     FollowEndDisconnect DEF Next

LEMMA QueueStep ==
    ASSUME QueueInv, OrphanInv, OrphanNext
    PROVE  QueueInv'
<1>1. CASE work = <<>> /\ Next /\ UNCHANGED orphanVars
  BY <1>1 DEF QueueInv, orphanVars, jobVars
<1>2. CASE \/ \E p \in Peers : InitializeNode(p) \/ FinalizeNode(p)
           \/ \E p \in Peers, t \in Txs : TxMissing(t, p)
  BY <1>2 DEF InitializeNode, FinalizeNode, TxMissing, QueueInv, jobVars, vars
<1>3. ASSUME NEW p \in Peers, NEW t \in Txs, TxAccepted(t, p) PROVE QueueInv'
  BY <1>3 DEF TxAccepted, QueueInv, loopVars, Idle
<1>4. ASSUME NEW t \in Txs, OrphanTurn(t) PROVE QueueInv'
  <2>1. work # <<>> /\ pc = "idle" /\ pc' = pc
    BY <1>4 DEF OrphanTurn, QueueInv, loopVars
  <2>2. work' = work \/ work' = Append(work, t)
    BY <1>4 DEF OrphanTurn
  <2>3. Append(work, t) # <<>>
    BY DEF OrphanInv
  <2> QED
    BY <2>1, <2>2, <2>3 DEF QueueInv
<1>5. CASE NextInQueue
  <2>1. work # <<>>
    BY <1>5 DEF NextInQueue, OrphanInv
  <2> QED
    BY <1>5, <2>1 DEF NextInQueue, QueueInv, vars
<1>6. CASE EndOfQueue
  BY <1>6 DEF EndOfQueue, QueueInv, vars
<1> QED
  BY <1>1, <1>2, <1>3, <1>4, <1>5, <1>6 DEF OrphanNext

-----------------------------------------------------------------------------
(***************************************************************************)
(* The theorems.                                                           *)
(***************************************************************************)
LEMMA InitGood == OrphanInit => IInv
<1> SUFFICES ASSUME OrphanInit PROVE IInv
  OBVIOUS
<1>1. CoinsInv
  <2>1. CoinsType
    BY NoCoinsGood, GoodType DEF OrphanInit, Init, CoinsType
  <2> QED
    BY <2>1, NoCoinsGood DEF OrphanInit, Init, CoinsInv, ChainGood, ConnectGood, DisconnectGood
<1>2. PoolInv
  <2>1. NoTx \notin Txs
    BY DEF TxAssumption
  <2> QED
    BY <2>1 DEF OrphanInit, Init, PoolInv, PoolType, NextTxExact
<1>3. OrphanInv
  <2>1. OrphanSet = {}
    BY DEF OrphanInit, OrphanSet
  <2>2. IsFiniteSet(OrphanSet) /\ Cardinality(OrphanSet) = 0 /\ MaxOrphanTxs \in Nat
    BY <2>1, FS_EmptySet DEF OrphanAssumption
  <2>3. work \in Seq(Txs) /\ i \in 0..Len(work)
    BY DEF OrphanInit
  <2>4. OrphansExact
    BY <2>1, <2>2 DEF OrphanInit, OrphansExact
  <2> QED
    BY <2>2, <2>3, <2>4 DEF OrphanInit, OrphanInv
<1> QED
  BY <1>1, <1>2, <1>3 DEF IInv

LEMMA StepGood == IInv /\ [OrphanNext]_allVars => IInv'
<1> SUFFICES ASSUME IInv, [OrphanNext]_allVars PROVE IInv'
  OBVIOUS
<1>1. CASE UNCHANGED allVars
  <2>1. UNCHANGED <<coins, chain, pc, k, blk, view>> /\ UNCHANGED poolVars
    BY <1>1 DEF allVars, vars, poolVars
  <2>2. OrphanInv'
    BY <1>1, OrphansSame DEF allVars, orphanVars, jobVars, IInv, OrphanInv
  <2> QED
    BY <2>1, <2>2, CoinsSame, PoolSame DEF IInv
<1>2. CASE OrphanNext
  <2>1. OrphanInv'
    BY <1>2, OrphanStep DEF IInv
  <2>2. CASE Next
    BY <2>1, <2>2, CoinsStep, PoolStep DEF IInv
  <2>3. CASE ~Next
    <3>1. UNCHANGED <<coins, chain, pc, k, blk, view>>
      BY <1>2, <2>3 DEF OrphanNext, vars, loopVars, InitializeNode, FinalizeNode, TxMissing,
         TxAccepted, OrphanTurn, NextInQueue, EndOfQueue
    <3>2. \/ UNCHANGED poolVars
          \/ \E t \in Txs : Acceptable(t) /\ addUnchecked(t)
      BY <1>2, <2>3 DEF OrphanNext, vars, poolVars, InitializeNode, FinalizeNode, TxMissing,
         TxAccepted, OrphanTurn, NextInQueue, EndOfQueue
    <3> QED
      BY <2>1, <3>1, <3>2, CoinsSame, PoolSame, PoolAdd DEF IInv
  <2> QED
    BY <2>2, <2>3
<1> QED
  BY <1>1, <1>2

LEMMA Invariance == OrphanSpec => []IInv
BY InitGood, StepGood, PTL DEF OrphanSpec

\* The pool, the coins, the chain with its undo data and the map of orphans stay well formed.
THEOREM TypeCorrect == OrphanSpec => []OrphanTypeOK
<1>1. IInv => OrphanTypeOK
  BY DEF IInv, CoinsInv, CoinsType, PoolInv, PoolType, OrphanInv, OrphanTypeOK, TypeOK
<1> QED
  BY <1>1, Invariance, PTL

\* mapNextTx is exact through any sequence of acceptances, blocks, conflicts and
\* reorganisations: no two transactions of the pool spend the same output.
THEOREM MarksAreExact == OrphanSpec => []NextTxExact
<1>1. IInv => NextTxExact
  BY DEF IInv, PoolInv
<1> QED
  BY <1>1, Invariance, PTL

\* DisconnectBlock restores from the undo data exactly the coins that ConnectBlock found, for
\* blocks of any length and any pattern of spending, and never reports an unclean block.
THEOREM UndoIsExact == OrphanSpec => []UndoExact
<1>1. ASSUME IInv PROVE UndoExact
  <2>1. CASE pc = "disconnect"
    <3>1. view = blk.snaps[k + 2]
      BY <1>1, <2>1 DEF IInv, CoinsInv, DisconnectGood
    <3>2. k > 0 => CleanTurn(view, blk.vtx[k], blk.undo[k], Len(chain))
      BY <1>1, <2>1, DisconnectTurn, TurnUndone DEF IInv
    <3> QED
      BY <2>1, <3>1, <3>2 DEF UndoExact
  <2>2. CASE pc # "disconnect"
    BY <1>1, <2>2 DEF IInv, CoinsInv, DisconnectGood, UndoExact
  <2> QED
    BY <2>1, <2>2
<1> QED
  BY <1>1, Invariance, PTL

\* The index by parent lists exactly the stored orphans, each from a connected peer, and
\* there are never more of them than -maxorphantx.
THEOREM OrphansAreExact == OrphanSpec => []OrphansExact
<1>1. IInv => OrphansExact
  BY DEF IInv, OrphanInv
<1> QED
  BY <1>1, Invariance, PTL

\* The whole of the invariant: the coins, the marks, the orphans, the history of the chain
\* and the pool under it.
FullInv == IInv /\ HistInv /\ FollowInv /\ QueueInv

LEMMA FullStep == FullInv /\ [OrphanNext]_allVars => FullInv'
<1> SUFFICES ASSUME FullInv, [OrphanNext]_allVars PROVE FullInv'
  OBVIOUS
<1>1. IInv' /\ CoinsInv /\ PoolInv /\ OrphanInv /\ CoinsInv'
  BY StepGood DEF FullInv, IInv
<1>2. CASE UNCHANGED allVars
  <2>1. UNCHANGED <<mapTx, coins, chain, pc, k, blk, view, work, left>>
    BY <1>2 DEF allVars, vars, orphanVars, jobVars
  <2>2. HistInv'
    BY <2>1, HistSame DEF FullInv
  <2>3. /\ Mined(Len(chain))' = Mined(Len(chain)) /\ \A o : Covered(o)' <=> Covered(o)
    BY <2>1, MinedSame DEF Covered, MatureCoin, NextHeight
  <2>4. FollowInv'
    BY <2>1, <2>3 DEF FullInv, FollowInv, NoneBad, NoneMined, AllCovered, LoopGood
  <2> QED
    BY <1>1, <2>1, <2>2, <2>4 DEF FullInv, QueueInv
<1>3. CASE OrphanNext
  <2>1. QueueInv'
    BY <1>1, <1>3, QueueStep DEF FullInv
  <2>2. CASE Next
    BY <1>1, <2>1, <2>2, HistStep, FollowStep DEF FullInv
  <2>3. CASE ~Next
    <3>1. UNCHANGED <<coins, chain, pc, k, blk, view>>
      BY <1>3, <2>3 DEF OrphanNext, vars, loopVars, InitializeNode, FinalizeNode, TxMissing,
         TxAccepted, OrphanTurn, NextInQueue, EndOfQueue
    <3>2. pc = "idle"
      <4>1. Idle => pc = "idle"
        BY DEF Idle
      <4>2. left # {} \/ work # <<>> => pc = "idle"
        BY DEF FullInv, QueueInv
      <4>3. NextInQueue => work # <<>>
        BY <1>1 DEF NextInQueue, OrphanInv
      <4> QED
        BY <1>3, <2>3, <4>1, <4>2, <4>3 DEF OrphanNext, InitializeNode, FinalizeNode, TxMissing,
           TxAccepted, OrphanTurn, EndOfQueue
    <3>3. \/ UNCHANGED mapTx
          \/ \E t \in Txs : Acceptable(t) /\ addUnchecked(t)
      BY <1>3, <2>3 DEF OrphanNext, vars, poolVars, InitializeNode, FinalizeNode, TxMissing,
         TxAccepted, OrphanTurn, NextInQueue, EndOfQueue
    <3>4. HistInv'
      BY <3>1, HistSame DEF FullInv
    <3>5. FollowInv'
      BY <1>1, <3>1, <3>2, <3>3, FollowCalm, FollowAccept DEF FullInv
    <3> QED
      BY <1>1, <2>1, <3>4, <3>5 DEF FullInv
  <2> QED
    BY <2>2, <2>3
<1> QED
  BY <1>2, <1>3

LEMMA FullInvariance == OrphanSpec => []FullInv
<1>1. OrphanInit => FullInv
  <2> SUFFICES ASSUME OrphanInit PROVE HistInv /\ FollowInv /\ QueueInv
    BY InitGood DEF FullInv
  <2>1. mapTx = {} /\ chain = <<>> /\ pc = "idle" /\ work = <<>> /\ left = {}
    BY DEF OrphanInit, Init
  <2>2. 1..Len(chain) = {}
    BY <2>1
  <2> QED
    BY <2>1, <2>2 DEF HistInv, FollowInv, NoneBad, NoneMined, AllCovered, LoopGood, QueueInv
<1> QED
  BY <1>1, FullStep, PTL DEF OrphanSpec

\* Between blocks the whole pool could be mined: its inputs are outputs of the pool or
\* unspent and mature coins, and nothing of it is in the chain, through blocks with
\* conflicting transactions and reorganisations of any depth.
THEOREM PoolCouldBeMined == OrphanSpec => []PoolFollowsChain
<1>1. ASSUME FullInv PROVE PoolFollowsChain
  <2>1. CoinsInv /\ PoolInv /\ HistInv /\ FollowInv
    BY <1>1 DEF FullInv, IInv
  <2>2. ASSUME pc = "idle", NEW t \in mapTx PROVE coins[t].vout = {}
    <3>1. t \in Txids /\ t \notin Mined(Len(chain))
      BY <2>1, <2>2, Rest DEF PoolInv, PoolType, Txids
    <3> QED
      BY <2>1, <3>1, TopHistory DEF History
  <2>3. PoolSpendable
    BY <2>1, Rest DEF PoolSpendable, MatureCoin
  <2> QED
    BY <2>2, <2>3 DEF PoolFollowsChain, PoolNotInChain
<1> QED
  BY <1>1, FullInvariance, PTL

\* Why a transaction cannot stay: an input that nothing provides any more.
Cause(t) ==
    \E o \in Vin[t] :
        /\ o[1] \notin mapTx'
        /\ \/ o[2] \notin coins[o[1]].vout
           \/ coins[o[1]].fCoinBase /\ NextHeight - coins[o[1]].nHeight < COINBASE_MATURITY

\* What remove finds is a root or spends from something it has found.
LEMMA DescendantHasCause ==
    ASSUME PoolInv, NEW roots, Removing(Descendants(roots)), NEW t \in Descendants(roots),
           \A s \in Descendants(roots) : coins[s].vout = {},
           \A u \in roots \intersect mapTx : Cause(u)
    PROVE  Cause(t)
<1> DEFINE R == Descendants(roots)
<1>1. mapTx' = mapTx \ R /\ R \subseteq mapTx /\ mapTx \subseteq Txs
  BY DescendantsClosed DEF Removing, PoolInv, PoolType
<1>2. t \in roots \/ \E s \in R : t \in Children(s)
  <2> SUFFICES ASSUME t \notin roots, \A s \in R : t \notin Children(s) PROVE FALSE
    OBVIOUS
  <2>1. roots \intersect mapTx \subseteq R \ {t}
    BY DescendantsClosed
  <2>2. \A s \in R \ {t} : Children(s) \intersect mapTx \subseteq R \ {t}
    BY DescendantsClosed
  <2>3. R \subseteq R \ {t}
    <3>1. R \ {t} \subseteq mapTx
      BY <1>1
    <3> QED
      BY <2>1, <2>2, <3>1, DescendantsWithin
  <2> QED
    BY <2>3
<1>3. CASE t \in roots
  BY <1>1, <1>3
<1>4. ASSUME NEW s \in R, t \in Children(s) PROVE Cause(t)
  <2>1. s \in Txids /\ coins[s].vout = {} /\ s \notin mapTx'
    BY <1>1 DEF Txids
  <2>2. PICK o \in Vin[t] : o[1] = s
    BY <1>4, <2>1, ChildrenAre
  <2> QED
    BY <2>1, <2>2 DEF Cause
<1> QED
  BY <1>2, <1>3, <1>4

\* No transaction of the chain is among the conflicts of another one.
LEMMA ConflictsNotMined ==
    ASSUME FollowInv, CoinsInv, PoolInv, HistInv, pc = "remove", NEW t \in Txs,
           t \in Mined(Len(chain)), t \notin mapTx
    PROVE  \A s \in Conflicts(t) : s \notin Mined(Len(chain))
<1> DEFINE M == Mined(Len(chain))
           roots == {mapNextTx[o] : o \in Vin[t]} \ {NoTx, t}
           R == Descendants(roots)
<1>1. History(M, coins) /\ mapTx \subseteq Txs
  BY TopHistory DEF PoolInv, PoolType
<1>2. R \subseteq mapTx /\ roots \intersect mapTx \subseteq R
      /\ \A s \in R : Children(s) \intersect mapTx \subseteq R
  BY DescendantsClosed
<1>3. ASSUME NEW u \in roots \intersect mapTx PROVE u \notin M
  <2>1. PICK o \in Vin[t] : u = mapNextTx[o] /\ u # t
    BY <1>3
  <2>2. u \in Txs /\ o \in Prevouts
    BY <1>1, <2>1 DEF Prevouts
  <2>3. o \in Vin[u]
    BY <2>1, <2>2 DEF PoolInv, NextTxExact
  <2> QED
    BY <1>1, <2>1, <2>2, <2>3 DEF History
<1>4. ASSUME NEW s \in R \ M, NEW c \in Children(s) \intersect mapTx PROVE c \notin M
  <2>1. s \in Txids
    BY <1>1, <1>2 DEF Txids
  <2>2. PICK o \in Vin[c] : o[1] = s
    BY <2>1, ChildrenAre
  <2> QED
    BY <1>1, <1>4, <2>2 DEF History
<1> HIDE DEF M, roots
<1>5. R \subseteq R \ M
  <2>1. R \ M \subseteq mapTx /\ roots \intersect mapTx \subseteq R \ M
    BY <1>2, <1>3
  <2>2. \A s \in R \ M : Children(s) \intersect mapTx \subseteq R \ M
    BY <1>2, <1>4
  <2> QED
    BY <2>1, <2>2, DescendantsWithin
<1> QED
  BY <1>5 DEF R, roots, M, Conflicts

LEMMA RemoveCause ==
    ASSUME FollowInv, CoinsInv, PoolInv, HistInv, RemoveForBlock, NEW t \in mapTx \ mapTx', t # blk.vtx[k]
    PROVE  Cause(t)
<1> DEFINE b == blk.vtx[k]
           roots == {mapNextTx[o] : o \in Vin[b]} \ {NoTx, b}
<1>1. pc = "remove" /\ k <= Len(blk.vtx) /\ Removing(IF b \in mapTx THEN {b} ELSE Conflicts(b))
  BY DEF RemoveForBlock
<1>2. b \notin mapTx /\ Removing(Conflicts(b)) /\ t \in Conflicts(b) /\ mapTx \subseteq Txs
  BY <1>1 DEF Removing, PoolInv, PoolType
<1>3. k \in 1..Len(blk.vtx) /\ b \in Txs /\ b \in Body(blk) /\ k \in Nat
  BY <1>1, LoopBlock DEF FollowInv, LoopGood
<1>4. chain # <<>> /\ blk = chain[Len(chain)] /\ Len(chain) \in 1..Len(chain)
  BY <1>1, TopBlock DEF HistInv
<1>5. b \in Mined(Len(chain))
  BY <1>3, <1>4 DEF Mined, Ids
<1>6. InOrder(blk) /\ History(Mined(Len(chain)), coins)
  BY <1>4, TopHistory DEF HistInv, MinedGood
<1>7. \A s \in Conflicts(b) : coins[s].vout = {}
  <2>1. Conflicts(b) \subseteq Txids
    BY <1>2, DescendantsClosed DEF Conflicts, Txids
  <2> QED
    BY <1>1, <1>2, <1>3, <1>5, <1>6, <2>1, ConflictsNotMined DEF History
<1>8. ASSUME NEW u \in roots \intersect mapTx PROVE Cause(u)
  <2>1. PICK o \in Vin[b] : u = mapNextTx[o]
    BY <1>8
  <2>2. u \in Txs /\ o \in Prevouts
    BY <1>2, <1>3, <2>1 DEF Prevouts
  <2>3. o \in Vin[u]
    BY <2>1, <2>2 DEF PoolInv, NextTxExact
  <2>4. o[2] \notin coins[o[1]].vout /\ o[1] \in Mined(Len(chain))
    BY <1>3, <1>5, <1>6, <2>1 DEF History
  <2>5. o[1] \notin mapTx
    <3> SUFFICES ASSUME o[1] \in mapTx PROVE FALSE
      OBVIOUS
    <3>1. PICK j \in k..Len(blk.vtx) : o[1] = blk.vtx[j]
      BY <2>4 DEF FollowInv, NoneMined
    <3>2. j \in 1..Len(blk.vtx)
      BY <1>3
    <3>3. j < k
      BY <1>3, <1>6, <2>1, <3>1, <3>2 DEF InOrder
    <3> QED
      BY <1>3, <3>3
  <2>6. o[1] \notin mapTx'
    BY <1>2, <2>5 DEF Removing
  <2> QED
    BY <2>3, <2>4, <2>6 DEF Cause
<1> QED
  BY <1>2, <1>7, <1>8, DescendantHasCause DEF Conflicts

LEMMA ResurrectCause ==
    ASSUME FollowInv, CoinsInv, PoolInv, HistInv, Resurrect \/ EndDisconnect, NEW t \in mapTx \ mapTx'
    PROVE  Cause(t)
<1>1. pc = "resurrect" /\ mapTx \subseteq Txs /\ Txs \subseteq Txids
  BY DEF Resurrect, EndDisconnect, PoolInv, PoolType, Txids
<1>2. \A s \in mapTx : coins[s].vout = {}
  <2>1. \A s \in mapTx : s \notin Mined(Len(chain))
    BY <1>1 DEF FollowInv, NoneMined
  <2> QED
    BY <1>1, <2>1, TopHistory DEF History
<1>3. \A S : Descendants(S) \subseteq mapTx
  BY DescendantsClosed
<1>4. CASE Resurrect
  <2> DEFINE b == IF k = 0 THEN blk.cb ELSE blk.vtx[k]
  <2>1. k \in Nat /\ k <= Len(blk.vtx) /\ (Removing(Recursively(b)) \/ mapTx \subseteq mapTx')
    <3>1. k \in Nat /\ (k > 0 => k # 0)
      BY DEF CoinsInv, CoinsType
    <3> QED
      BY <1>4, <3>1 DEF Resurrect, addUnchecked
  <2>2. b \in Ids(blk) /\ b \in Txids /\ b \notin mapTx
    BY <1>1, <2>1, LoopBlock DEF FollowInv, LoopGood, Ids, Txids
  <2>3. coins[b].vout = {}
    BY <1>1, <2>2 DEF HistInv
  <2>4. Recursively(b) = Descendants(Children(b)) /\ Removing(Descendants(Children(b)))
    BY <2>1, <2>2 DEF Recursively
  <2>5. t \in Descendants(Children(b)) /\ b \notin mapTx'
    BY <2>2, <2>4 DEF Removing
  <2> HIDE DEF b
  <2>6. ASSUME NEW u \in Children(b) \intersect mapTx PROVE Cause(u)
    <3>1. PICK o \in Vin[u] : o[1] = b
      BY <2>2, ChildrenAre
    <3> QED
      BY <2>3, <2>5, <3>1 DEF Cause
  <2> QED
    BY <1>2, <1>3, <2>4, <2>5, <2>6, DescendantHasCause
<1>5. CASE EndDisconnect
  <2> DEFINE S == {u \in mapTx : \E o \in Vin[u] :
                    /\ o[1] \notin mapTx
                    /\ \/ coins[o[1]].vout = {}
                       \/ coins[o[1]].fCoinBase /\ NextHeight - coins[o[1]].nHeight < COINBASE_MATURITY}
  <2>1. Removing(Descendants(S))
    BY <1>5 DEF EndDisconnect, CoinbaseSpends
  <2>2. mapTx' \subseteq mapTx /\ t \in Descendants(S)
    BY <2>1 DEF Removing
  <2>3. ASSUME NEW u \in S PROVE Cause(u)
    <3>1. PICK o \in Vin[u] :
            /\ o[1] \notin mapTx
            /\ \/ coins[o[1]].vout = {}
               \/ coins[o[1]].fCoinBase /\ NextHeight - coins[o[1]].nHeight < COINBASE_MATURITY
      BY <2>3
    <3> QED
      BY <2>2, <3>1 DEF Cause
  <2> HIDE DEF S
  <2> QED
    BY <1>2, <1>3, <2>1, <2>2, <2>3, DescendantHasCause
<1> QED
  BY <1>4, <1>5

\* Every transaction that a block or a reorganisation takes out of the pool is in the block
\* or has lost an input, though remove takes whole families out at a time.
THEOREM NothingLeavesInVain == OrphanSpec => LeavesForCause
<1>1. FullInv /\ [OrphanNext]_allVars =>
        [\A t \in mapTx \ mapTx' :
            \/ pc = "remove" /\ t = blk.vtx[k]
            \/ \E o \in Vin[t] :
                /\ o[1] \notin mapTx'
                /\ \/ o[2] \notin coins[o[1]].vout
                   \/ coins[o[1]].fCoinBase /\ NextHeight - coins[o[1]].nHeight < COINBASE_MATURITY]_vars
  <2> SUFFICES ASSUME FullInv, [OrphanNext]_allVars, NEW t \in mapTx \ mapTx',
                      ~(pc = "remove" /\ t = blk.vtx[k])
               PROVE  Cause(t)
    BY DEF Cause
  <2>1. FollowInv /\ CoinsInv /\ PoolInv /\ HistInv
    BY DEF FullInv, IInv
  <2>2. OrphanNext
    BY DEF allVars, vars
  <2>3. Next
    BY <2>2 DEF OrphanNext, vars, poolVars, InitializeNode, FinalizeNode, TxMissing, TxAccepted,
       OrphanTurn, NextInQueue, EndOfQueue, addUnchecked
  <2>4. RemoveForBlock \/ Resurrect \/ EndDisconnect
    BY <2>3 DEF Next, AcceptToMemoryPool, ConnectTx, BeginConnect, ConnectFails, FlushConnect,
       EndConnect, DisconnectTip, DisconnectTx, FlushDisconnect, poolVars, addUnchecked
  <2>5. RemoveForBlock => t # blk.vtx[k]
    BY DEF RemoveForBlock
  <2> QED
    BY <2>1, <2>4, <2>5, RemoveCause, ResurrectCause
<1> QED
  BY <1>1, FullInvariance, PTL DEF OrphanSpec, LeavesForCause

\* The loop over the orphans: what the handler has brought into the pool is in vWorkQueue, and
\* the orphans that spend from the part behind the index are queued for erasure or come now.
TurnsGood ==
    work # <<>> =>
        /\ i >= 1 /\ \A t \in mapTx \ before : \E j \in 1..Len(work) : t = work[j]
        /\ \A j \in 1..i : byPrev[work[j]] \subseteq eraseQueue \union left

LEMMA TurnsStep ==
    ASSUME OrphanInv, QueueInv, TurnsGood, [OrphanNext]_allVars
    PROVE  TurnsGood'
<1>1. i \in Nat /\ Len(work) \in Nat /\ i <= Len(work) /\ work \in Seq(Txs)
  BY DEF OrphanInv
<1>2. CASE UNCHANGED <<mapTx, orphanVars>>
  BY <1>2 DEF TurnsGood, orphanVars, jobVars
<1>3. CASE work = <<>> /\ work' = <<>>
  BY <1>3 DEF TurnsGood
<1>4. ASSUME NEW p \in Peers, NEW t \in Txs, TxAccepted(t, p) PROVE TurnsGood'
  <2>1. /\ work' = <<t>> /\ i' = 1 /\ left' = byPrev[t] /\ before' = mapTx /\ byPrev' = byPrev
        /\ mapTx' = mapTx \union {t}
    BY <1>4 DEF TxAccepted, addUnchecked
  <2>2. Len(<<t>>) = 1 /\ <<t>>[1] = t
    OBVIOUS
  <2> QED
    BY <2>1, <2>2 DEF TurnsGood
<1>5. ASSUME NEW t \in Txs, OrphanTurn(t), work # <<>> PROVE TurnsGood'
  <2>1. /\ left' = left \ {t} /\ eraseQueue' = eraseQueue \union {t} /\ UNCHANGED <<byPrev, i, before>>
        /\ \/ mapTx' = mapTx \union {t} /\ work' = Append(work, t)
           \/ UNCHANGED <<mapTx, work>>
    BY <1>5 DEF OrphanTurn, addUnchecked, poolVars
  <2>2. \A j \in 1..Len(work) : work'[j] = work[j] /\ j \in 1..Len(work')
    BY <1>1, <2>1, Appended
  <2>3. work' # work => Len(work') \in 1..Len(work') /\ work'[Len(work')] = t
    BY <1>1, <2>1, Appended
  <2>4. \A j \in 1..i : j \in 1..Len(work)
    BY <1>1
  <2>5. ASSUME NEW u \in mapTx' \ before' PROVE \E j \in 1..Len(work') : u = work'[j]
    <3>1. CASE u \in mapTx
      BY <1>5, <2>1, <2>2, <2>5, <3>1 DEF TurnsGood
    <3>2. CASE u \notin mapTx
      <4>1. u = t /\ work' = Append(work, t)
        BY <2>1, <2>5, <3>2
      <4>2. work' # work
        BY <1>1, <4>1
      <4> QED
        BY <2>3, <4>1, <4>2
    <3> QED
      BY <3>1, <3>2
  <2>6. ASSUME NEW j \in 1..i' PROVE byPrev'[work'[j]] \subseteq eraseQueue' \union left'
    BY <1>5, <2>1, <2>2, <2>4 DEF TurnsGood
  <2> QED
    BY <1>5, <2>1, <2>5, <2>6 DEF TurnsGood
<1>6. CASE NextInQueue
  <2>1. /\ i < Len(work) /\ left = {} /\ i' = i + 1 /\ left' = byPrev[work[i + 1]]
        /\ UNCHANGED <<mapTx, byPrev, work, eraseQueue, before>>
    BY <1>6 DEF NextInQueue, vars
  <2>2. work # <<>>
    BY <1>1, <2>1
  <2>3. \A j \in 1..i' : j \in 1..i \/ j = i + 1
    BY <1>1, <2>1
  <2>4. \A j \in 1..i' : byPrev'[work'[j]] \subseteq eraseQueue' \union left'
    BY <2>1, <2>2, <2>3 DEF TurnsGood
  <2> QED
    BY <1>1, <2>1, <2>2, <2>4 DEF TurnsGood
<1>7. CASE EndOfQueue
  BY <1>7 DEF EndOfQueue, TurnsGood
<1>8. ASSUME NEW t \in Txs, OrphanTurn(t) PROVE work # <<>>
  BY <1>8 DEF OrphanTurn, QueueInv
<1>9. CASE \/ \E p \in Peers : InitializeNode(p) \/ FinalizeNode(p)
           \/ \E p \in Peers, t \in Txs : TxMissing(t, p)
  BY <1>3, <1>9 DEF InitializeNode, FinalizeNode, TxMissing, Idle, jobVars
<1>10. CASE work = <<>> /\ Next /\ UNCHANGED orphanVars
  BY <1>3, <1>10 DEF orphanVars, jobVars
<1>11. CASE UNCHANGED allVars
  BY <1>2, <1>11 DEF allVars, vars
<1> QED
  BY <1>4, <1>5, <1>6, <1>7, <1>8, <1>9, <1>10, <1>11 DEF OrphanNext

\* The handler of a "tx" leaves no orphan behind that could be tried: every orphan that
\* spends from what it has brought into the pool was tried, however long the chain of them.
THEOREM OrphansAreReconsidered == OrphanSpec => DependentsReconsidered
<1>1. FullInv /\ TurnsGood /\ [OrphanNext]_allVars =>
        [work # <<>> /\ work' = <<>> =>
            \A t \in Txs : orphans'[t] # NoPeer => Parents(t) \intersect (mapTx \ before) = {}]_allVars
  <2> SUFFICES ASSUME FullInv, TurnsGood, [OrphanNext]_allVars, work # <<>>, work' = <<>>,
                      NEW t \in Txs, orphans'[t] # NoPeer,
                      NEW id \in Parents(t), id \in mapTx, id \notin before
               PROVE  FALSE
    OBVIOUS
  <2>1. OrphanInv /\ work \in Seq(Txs)
    BY DEF FullInv, IInv, OrphanInv
  <2>2. EndOfQueue
    <3>1. OrphanNext
      BY DEF allVars, orphanVars, jobVars
    <3>2. \A u \in Txs : Append(work, u) # <<>> /\ <<u>> # <<>>
      BY <2>1
    <3> QED
      BY <3>1, <3>2 DEF OrphanNext, Idle, InitializeNode, FinalizeNode, TxMissing, TxAccepted,
         OrphanTurn, NextInQueue
  <2>3. /\ i = Len(work) /\ left = {}
        /\ orphans' = [u \in Txs |-> IF u \in eraseQueue THEN NoPeer ELSE orphans[u]]
    BY <2>2 DEF EndOfQueue, Erase
  <2>4. t \in OrphanSet /\ t \notin eraseQueue
    BY <2>3 DEF OrphanSet
  <2>5. t \in byPrev[id]
    <3>1. id \in Txids
      BY SpentIs DEF Parents
    <3> QED
      BY <2>1, <2>4, <3>1 DEF OrphanInv, OrphansExact
  <2>6. PICK j \in 1..Len(work) : id = work[j]
    BY DEF TurnsGood
  <2> QED
    BY <2>3, <2>4, <2>5, <2>6 DEF TurnsGood
<1>2. OrphanInit => TurnsGood
  BY DEF OrphanInit, TurnsGood
<1>3. FullInv /\ TurnsGood /\ [OrphanNext]_allVars => TurnsGood'
  BY TurnsStep DEF FullInv, IInv
<1> QED
  BY <1>1, <1>2, <1>3, FullInvariance, PTL DEF OrphanSpec, DependentsReconsidered

\* CreateNewBlock only reads the pool, the chain and the orphans: with the miner the system
\* behaves as without it, and all of the above holds of it too.
THEOREM MinerOnlyReads == MinerSpec => OrphanSpec
<1>1. MinerInit => OrphanInit
  BY DEF MinerInit
<1>2. [MinerNext]_<<allVars, minerVars>> => [OrphanNext]_allVars
  BY DEF MinerNext, BeginBlock, EndBlock, IncludeTx, PassOver
<1> QED
  BY <1>1, <1>2, PTL DEF MinerSpec, OrphanSpec
(***************************************************************************)
(* CreateNewBlock.  Its view is the coins without what the block spends,   *)
(* with what the block makes.                                              *)
(***************************************************************************)
ViewGood ==
    /\ mview \in CoinsMaps
    /\ \A id \in Txids \ included :
        /\ \A n \in coins[id].vout : n \in mview[id].vout \/ \E u \in included : <<id, n>> \in Vin[u]
        /\ mview[id].vout # {} => /\ mview[id].nHeight = coins[id].nHeight
                                  /\ mview[id].fCoinBase = coins[id].fCoinBase
    /\ \A t \in included :
        /\ ~mview[t].fCoinBase
        /\ \A n \in Vout[t] : n \in mview[t].vout \/ \E u \in included : <<t, n>> \in Vin[u]

\* What each transaction waits for, and who is in the queue.
DependsGood ==
    /\ included \subseteq mapTx /\ vecPriority \subseteq mapTx \ included
    /\ \A t \in mapTx : setDependsOn[t] = {id \in Parents(t) : coins[id].vout = {}} \ included
    /\ \A t \in included \union vecPriority : setDependsOn[t] = {}
    /\ \A t \in mapTx \ (included \union passedOver \union vecPriority) : setDependsOn[t] # {}

MinerInv ==
    /\ creating => Idle /\ DependsGood /\ ViewGood
    /\ ~creating => included = {} /\ passedOver = {}

LEMMA TemplateSteps ==
    ASSUME FullInv, MinerInv
    PROVE  TemplateSound
<1> SUFFICES ASSUME creating PROVE TemplateSound
  BY DEF TemplateSound
<1>1. FollowInv /\ CoinsInv /\ PoolInv /\ HistInv /\ pc = "idle" /\ DependsGood /\ ViewGood
  BY DEF FullInv, IInv, MinerInv, Idle
<1>2. mapTx \subseteq Txs /\ Txs \subseteq Txids
  BY <1>1 DEF PoolInv, PoolType, Txids
<1>3. \A t \in mapTx : coins[t].vout = {}
  <2>1. \A t \in mapTx : t \notin Mined(Len(chain))
    BY <1>1, Rest
  <2> QED
    BY <1>1, <1>2, <2>1, TopHistory DEF History
<1>4. \A t \in mapTx : \A o \in Vin[t] :
            IF o[1] \in mapTx THEN o[2] \in Vout[o[1]]
            ELSE o[2] \in coins[o[1]].vout /\ MatureCoin(o[1])
  BY <1>1, Rest
<1>5. ASSUME NEW t \in vecPriority
      PROVE  /\ coins[t].vout = {} /\ t \notin included
             /\ HaveInputs(mview, t) /\ Mature(mview, t, NextHeight) /\ t \notin BadTxs
  <2>1. t \in mapTx /\ t \in Txs /\ t \notin included /\ t \notin BadTxs
    BY <1>1, <1>2 DEF DependsGood, FollowInv, NoneBad
  <2>2. {id \in Parents(t) : coins[id].vout = {}} \subseteq included
    BY <1>1, <2>1 DEF DependsGood
  <2>3. ASSUME NEW o \in Vin[t]
        PROVE  /\ o[2] \in mview[o[1]].vout
               /\ mview[o[1]].fCoinBase => NextHeight - mview[o[1]].nHeight >= COINBASE_MATURITY
    <3>1. o = <<o[1], o[2]>> /\ o[1] \in Txids /\ o[1] \in Parents(t) /\ o \in Prevouts
      BY <2>1, SpentIs DEF Parents, Prevouts
    <3>2. ~ \E u \in included : <<o[1], o[2]>> \in Vin[u]
      <4> SUFFICES ASSUME NEW u \in included, o \in Vin[u] PROVE FALSE
        BY <3>1
      <4>1. u \in mapTx /\ u \in Txs
        BY <1>1, <1>2 DEF DependsGood
      <4> QED
        BY <1>1, <2>1, <3>1, <4>1 DEF PoolInv, NextTxExact
    <3>3. CASE o[1] \in mapTx
      <4>1. o[1] \in included /\ o[2] \in Vout[o[1]]
        BY <1>3, <1>4, <2>1, <2>2, <3>1, <3>3
      <4> QED
        BY <1>1, <3>2, <4>1 DEF ViewGood
    <3>4. CASE o[1] \notin mapTx
      <4>1. o[1] \in Txids \ included /\ o[2] \in coins[o[1]].vout /\ MatureCoin(o[1])
        BY <1>1, <1>4, <2>1, <3>1, <3>4 DEF DependsGood
      <4>2. o[2] \in mview[o[1]].vout
        BY <1>1, <3>2, <4>1 DEF ViewGood
      <4>3. mview[o[1]].nHeight = coins[o[1]].nHeight /\ mview[o[1]].fCoinBase = coins[o[1]].fCoinBase
        BY <1>1, <4>1, <4>2 DEF ViewGood
      <4>4. mview[o[1]].fCoinBase => NextHeight - mview[o[1]].nHeight >= COINBASE_MATURITY
        BY <4>1, <4>3, Zenon DEF MatureCoin
      <4> QED
        BY <4>2, <4>4
    <3> QED
      BY <3>3, <3>4
  <2> QED
    BY <1>3, <2>1, <2>3 DEF HaveInputs, Mature
<1>6. ASSUME vecPriority = {}, NEW t \in mapTx \ (included \union passedOver)
      PROVE  Parents(t) \intersect (mapTx \ included) # {}
  <2>1. setDependsOn[t] # {} /\ setDependsOn[t] = {id \in Parents(t) : coins[id].vout = {}} \ included
    BY <1>1, <1>6 DEF DependsGood
  <2>2. PICK id \in Parents(t) : coins[id].vout = {} /\ id \notin included
    BY <2>1
  <2>3. PICK o \in Vin[t] : o[1] = id
    BY <2>2 DEF Parents
  <2>4. id \in mapTx
    BY <1>4, <2>2, <2>3
  <2> QED
    BY <2>2, <2>4
<1> QED
  BY <1>5, <1>6 DEF TemplateSound

LEMMA MinerInclude ==
    ASSUME FullInv, MinerInv, NEW t \in Txs, IncludeTx(t)
    PROVE  MinerInv'
<1>1. creating /\ t \in vecPriority /\ DependsGood /\ ViewGood /\ Idle
  BY DEF IncludeTx, MinerInv
<1>2. HaveInputs(mview, t) /\ Mature(mview, t, NextHeight) /\ t \notin BadTxs /\ t \notin included
  BY <1>1, TemplateSteps DEF TemplateSound
<1>3. /\ included' = included \union {t} /\ mview' = UpdateCoins(mview, t, NextHeight)
      /\ setDependsOn' = [u \in Txs |-> setDependsOn[u] \ {t}]
      /\ vecPriority' = (vecPriority \ {t}) \union {u \in mapTx : setDependsOn[u] = {t}}
      /\ UNCHANGED <<mapTx, coins, pc, work, creating, passedOver>>
  BY <1>2 DEF IncludeTx, allVars, vars, orphanVars, jobVars
<1>4. NextHeight \in Nat /\ mview \in CoinsMaps /\ mapTx \subseteq Txs /\ t \in mapTx /\ t \in Txids
  BY <1>1 DEF FullInv, IInv, CoinsInv, CoinsType, NextHeight, ViewGood, PoolInv, PoolType, DependsGood, Txids
<1>5. DependsGood'
  <2>1. included' \subseteq mapTx' /\ setDependsOn[t] = {}
    BY <1>1, <1>3, <1>4 DEF DependsGood
  <2>2. ASSUME NEW u \in vecPriority' PROVE u \in mapTx \ included'
    BY <1>1, <1>3, <2>1 DEF DependsGood
  <2>3. ASSUME NEW u \in mapTx
        PROVE  setDependsOn'[u] = {id \in Parents(u) : coins'[id].vout = {}} \ included'
    <3>1. setDependsOn[u] = {id \in Parents(u) : coins[id].vout = {}} \ included
      BY <1>1 DEF DependsGood
    <3>2. setDependsOn'[u] = setDependsOn[u] \ {t}
      BY <1>3, <1>4
    <3> QED
      BY <1>3, <3>1, <3>2
  <2>4. ASSUME NEW u \in included' \union vecPriority' PROVE setDependsOn'[u] = {}
    <3>1. u \in Txs /\ (setDependsOn[u] = {} \/ setDependsOn[u] = {t})
      BY <1>1, <1>3, <1>4, <2>1 DEF DependsGood
    <3> QED
      BY <1>3, <3>1
  <2>5. ASSUME NEW u \in mapTx \ (included' \union passedOver' \union vecPriority')
        PROVE  setDependsOn'[u] # {}
    <3>1. u \in mapTx \ (included \union passedOver \union vecPriority) /\ setDependsOn[u] # {t} /\ u \in Txs
      BY <1>3, <1>4
    <3>2. setDependsOn[u] # {}
      BY <1>1, <3>1 DEF DependsGood
    <3> QED
      BY <1>3, <3>1, <3>2
  <2> QED
    BY <1>3, <2>1, <2>2, <2>3, <2>4, <2>5 DEF DependsGood
<1>6. ViewGood'
  <2> DEFINE e == UpdateCoins(mview, t, NextHeight)
  <2>1. /\ e[t].vout = Vout[t] /\ ~e[t].fCoinBase
        /\ \A id \in Txids : id # t =>
              /\ e[id].vout = mview[id].vout \ Spent(t, id)
              /\ e[id].vout # {} => e[id].nHeight = mview[id].nHeight /\ e[id].fCoinBase = mview[id].fCoinBase
              /\ ~mview[id].fCoinBase => ~e[id].fCoinBase
        /\ \A id, n : n \in Spent(t, id) => <<id, n>> \in Vin[t]
    BY <1>4, UpdateShape, SpentIs
  <2>2. e \in CoinsMaps
    BY <1>4, UpdateType
  <2> HIDE DEF e
  <2>3. ASSUME NEW id \in Txids \ included'
        PROVE  /\ \A n \in coins[id].vout : n \in e[id].vout \/ \E u \in included' : <<id, n>> \in Vin[u]
               /\ e[id].vout # {} => e[id].nHeight = coins[id].nHeight /\ e[id].fCoinBase = coins[id].fCoinBase
    <3>1. id \in Txids \ included /\ id # t
      BY <1>3
    <3>2. /\ \A n \in coins[id].vout : n \in mview[id].vout \/ \E u \in included : <<id, n>> \in Vin[u]
          /\ mview[id].vout # {} => /\ mview[id].nHeight = coins[id].nHeight
                                    /\ mview[id].fCoinBase = coins[id].fCoinBase
      BY <1>1, <3>1 DEF ViewGood
    <3> QED
      BY <1>3, <2>1, <3>1, <3>2
  <2>4. ASSUME NEW w \in included'
        PROVE  /\ ~e[w].fCoinBase
               /\ \A n \in Vout[w] : n \in e[w].vout \/ \E u \in included' : <<w, n>> \in Vin[u]
    <3>1. CASE w = t
      BY <2>1, <3>1
    <3>2. CASE w # t
      <4>1. w \in included /\ w \in Txids
        BY <1>1, <1>3, <1>4, <3>2 DEF DependsGood, Txids
      <4>2. /\ ~mview[w].fCoinBase
            /\ \A n \in Vout[w] : n \in mview[w].vout \/ \E u \in included : <<w, n>> \in Vin[u]
        BY <1>1, <4>1 DEF ViewGood
      <4> QED
        BY <1>3, <2>1, <3>2, <4>1, <4>2
    <3> QED
      BY <3>1, <3>2
  <2>5. mview' = e /\ coins' = coins
    BY <1>3 DEF e
  <2> QED
    BY <2>2, <2>3, <2>4, <2>5 DEF ViewGood
<1> QED
  BY <1>1, <1>3, <1>5, <1>6 DEF MinerInv, Idle

LEMMA MinerStep ==
    ASSUME FullInv, MinerInv, [MinerNext]_<<allVars, minerVars>>
    PROVE  MinerInv'
<1>1. CASE UNCHANGED <<allVars, minerVars>>
  BY <1>1 DEF MinerInv, Idle, DependsGood, ViewGood, allVars, vars, orphanVars, jobVars, minerVars
<1>2. CASE ~creating /\ OrphanNext /\ UNCHANGED minerVars
  BY <1>2 DEF MinerInv, minerVars
<1>3. CASE BeginBlock
  <2>1. /\ Idle /\ ~creating /\ creating' /\ included = {} /\ passedOver = {} /\ mview' = coins
        /\ setDependsOn' = [t \in Txs |->
                             IF t \in mapTx THEN {id \in Parents(t) : coins[id].vout = {}} ELSE {}]
        /\ vecPriority' = {t \in mapTx : setDependsOn'[t] = {}}
        /\ UNCHANGED <<mapTx, coins, pc, work, included, passedOver>>
    BY <1>3 DEF BeginBlock, MinerInv, allVars, vars, orphanVars, jobVars
  <2>2. mapTx \subseteq Txs /\ coins \in CoinsMaps
    BY DEF FullInv, IInv, PoolInv, PoolType, CoinsInv, CoinsType
  <2>3. \A t \in mapTx : setDependsOn'[t] = {id \in Parents(t) : coins[id].vout = {}}
    BY <2>1, <2>2
  <2>4. DependsGood'
    BY <2>1, <2>3 DEF DependsGood
  <2>5. ViewGood'
    BY <2>1, <2>2 DEF ViewGood
  <2> QED
    BY <2>1, <2>4, <2>5 DEF MinerInv, Idle
<1>4. CASE EndBlock
  BY <1>4 DEF EndBlock, MinerInv
<1>5. ASSUME NEW t \in Txs, PassOver(t) PROVE MinerInv'
  <2>1. /\ creating /\ Idle /\ DependsGood /\ ViewGood /\ creating' /\ t \in vecPriority
        /\ vecPriority' = vecPriority \ {t} /\ passedOver' = passedOver \union {t}
        /\ UNCHANGED <<mapTx, coins, pc, work, setDependsOn, included, mview>>
    BY <1>5 DEF PassOver, MinerInv, allVars, vars, orphanVars, jobVars
  <2>2. DependsGood'
    BY <2>1 DEF DependsGood
  <2>3. ViewGood'
    BY <2>1 DEF ViewGood
  <2> QED
    BY <2>1, <2>2, <2>3 DEF MinerInv, Idle
<1> QED
  BY <1>1, <1>2, <1>3, <1>4, <1>5, MinerInclude DEF MinerNext

\* Whatever order the queue takes and wherever the limits cut, the block that CreateNewBlock
\* puts together is one that ConnectBlock accepts, and leaves nothing out without a reason.
THEOREM TemplateIsSound == MinerSpec => []TemplateSound
<1>1. MinerInit => MinerInv
  BY DEF MinerInit, MinerInv
<1>2. MinerSpec => []FullInv
  BY MinerOnlyReads, FullInvariance, PTL
<1>3. MinerSpec => []MinerInv
  BY <1>1, <1>2, MinerStep, PTL DEF MinerSpec
<1> QED
  BY <1>2, <1>3, TemplateSteps, PTL
=============================================================================
