# A TLA+ verification of the Anoncoin node

This directory holds TLA+ specifications of the parts of the Anoncoin node in which a
wrong order of events, a crash or a stale value could do lasting damage: the choice of
the active chain, its storage, the coin database, the download of blocks, the pool of
script verification threads, the memory pool with its orphans and the blocks made of it,
the address manager, the wallet's key pool and the life of a connection. The modules are translated from the C++ code under
`src/src/` (a descendant of Bitcoin Core 0.10), TLC checks them on small instances, and
TLAPS proves the central properties for instances of any size. `PROJECT.json` lists the
runs, the source lines that every definition stands for, the hazards in the code, the
findings and the theorems.

To run TLC: `tlc -config MCChainReorg.cfg MCChainState`; to check proofs:
`tlapm ChainStateProofs.tla`. The other runs are in `PROJECT.json`, with their `.cfg`.

## 1. The system

### 1.1 Threads and locks

| thread | what it does | locks |
|---|---|---|
| message handler (`ThreadMessageHandler`, net.cpp) | `ProcessMessages` and `SendMessages` for every peer in turn | `cs_main` for most messages |
| socket handler (`ThreadSocketHandler`) | sockets, disconnects and deletes nodes | `cs_vNodes`, the node's buffers |
| RPC and REST workers | commands; `submitblock`, `invalidateblock`, `reconsiderblock`, wallet commands | `cs_main`, `cs_wallet` |
| miners (`AnoncoinMiner`) | build templates, submit blocks | `cs_main` in parts |
| script checkers (`ThreadScriptCheck`) | verify scripts for `ConnectBlock` | the mutex of `CCheckQueue` |
| import (`ThreadImport`) | reindexing, bootstrap files | `cs_main` in parts |
| address, DNS, I2P and outbound threads | connect to peers | `cs_vNodes`, `CAddrMan::cs` |

`cs_main` protects the block index, the chain, the coins, `CNodeState` and the orphan
transactions. It is a recursive mutex that `ActivateBestChain` gives up after each step,
so the calls of different threads interleave there. Signals (`SyncTransaction`,
`SetBestChain`, `UpdatedBlockTip`) run in the thread that changes the chain.

### 1.2 Components

| component | state | operations | interacts with | hard behaviour | what makes it correct |
|---|---|---|---|---|---|
| script check queue | queue, `nIdle`, `nTotal`, `nTodo`, `fAllOk` | `Add`, `Loop`, `Wait`, RAII control | `ConnectBlock` | condition variables, batches outside the mutex, interruption | exact counters, verdict = conjunction of all checks, `Wait` returns, no check outlives its block |
| block index and active chain | `mapBlockIndex`, status flags, `setBlockIndexCandidates`, `mapBlocksUnlinked`, `chainActive` | headers, blocks, activation, `invalidateblock`, `reconsiderblock` | all others | blocks out of order, `cs_main` given up between steps, failed reorganisations | best valid chain active, index as `CheckBlockIndex` demands, activation ends |
| block download | `CNodeState`, `mapBlocksInFlight`, counters | `inv`, `headers`, `block`, `SendMessages`, timeouts | chain, connections | silent, slow, reorganising and leaving peers | consistent books, limits, every block of a good peer's chain arrives |
| storage of the chain | block and undo files, index database, coins database | `AcceptBlock`, `ConnectBlock`, `FlushStateToDisk`, `LoadBlockIndexDB` | chain, coins | crash between any two writes | what the coins refer to is on disk; the node starts again |
| coins cache | `cacheCoins`, DIRTY and FRESH, `hashBlock` of each layer, database | `GetCoins`, `ModifyCoins`, `SetBestBlock`, `Flush`, `BatchWrite` | `ConnectBlock`, mempool | flags over many merges, failed writes | layers show the same as plain sets of coins |
| memory pool | `mapTx`, `mapNextTx`, priorities, fee estimator | `AcceptToMemoryPool`, `remove`, `removeForBlock`, `removeConflicts`, `removeCoinbaseSpends` | chain, wallet, miner | reorganisations, conflicts | the conditions of `CTxMemPool::check` |
| orphan transactions | `mapOrphanTransactions`, `mapOrphanTransactionsByPrev` | `AddOrphanTx`, `EraseOrphanTx`, `EraseOrphansFor`, `LimitOrphanTxSize`, `tx` | memory pool, peers | eviction, peers leaving | maps in step, limit kept, accepted when the parents are there |
| relay containers | `mruset`, `limitedmap`, `mapAskFor` | insert, erase, update | message processing | at their limit | as a reference definition |
| message processing | `vRecvMsg`, `vRecvGetData`, send buffers | `ProcessMessages`, `ProcessGetData`, `SendMessages` | all | full buffers | order of answers, progress |
| connections | `vNodes`, reference counts, `grantOutbound`, bans | connect, accept, disconnect, delete | I2P, address manager | deletion while in use | no use after delete, limits |
| address manager | new and tried tables, `vRandom`, `mapI2pHashes` | `Add_`, `Good_`, `Attempt_`, `Select_` | connections | eviction chains | `Check_` |
| wallet | `mapWallet`, `mapTxSpends`, key pool, keys | add, commit, sync, reserve, encrypt | chain, memory pool, database | crash between writes, conflicts | no key twice, balances follow the chain |
| keys and encryption | `CCryptoKeyStore` | lock, unlock, encrypt | wallet | | |
| miner | templates, `nExtraNonce` | `CreateNewBlock`, miner loop, `getwork`, `getblocktemplate` | chain, memory pool, wallet | tip moves meanwhile | template belongs to the tip |
| proof of work and retargeting | retarget filter | `GetNextWorkRequired` | chain | 256-bit arithmetic | |
| checkpoints | constants | lookup | chain | | |
| network time | offsets, median filter | `AddTimeData` | miner, chain | filter full | offset is the median |
| alerts | `mapAlerts` | `ProcessAlert` | user interface | order of arrival | the last word wins |
| I2P transport | sessions and streams | `i2psam`, wrappers | connections | lost bridge | |
| wallet database environment | use counts, open files | open, flush, rewrite | wallet | flush while in use | |
| locks, start and shutdown, RPC/REST server, RPC queries, scripts and transactions, serialization, hash functions, graphical interface, vendored libraries | | | | | see section 9 |

## 2. Modules

| module | models | source |
|---|---|---|
| `CheckQueue` | `CCheckQueue`, `CCheckQueueControl` | checkqueue.h |
| `BlockTree` | the constant facts of `CBlockIndex`: parent, ancestors, work, height | chain.h, chain.cpp |
| `ChainState` | block index and activation | main.cpp, rpcblockchain.cpp |
| `BlockDownload` | which peer is asked for which block | main.cpp |
| `ChainPersistence` | files, databases, flush, crash and start | main.cpp, txdb.cpp |
| `CoinsViews` | what the stack of coin views promises (abstract) | coins.h |
| `CoinsCache` | the caches that implement it | coins.cpp, txdb.cpp |
| `MemPool` | the memory pool, `UpdateCoins` and its undo data, under a chain that moves | txmempool.cpp, main.cpp, coins.cpp |
| `OrphanTxs` | the `tx` message and the orphan transactions; extends `MemPool` | main.cpp |
| `Miner` | `CreateNewBlock`; extends `OrphanTxs` | miner.cpp |
| `AddrMan` | the tables of addresses, and their reload from `peers.dat` | addrman.cpp, addrman.h |
| `KeyPool` | reserved keys, `CommitTransaction`, encryption, over the wallet's database | wallet.cpp, walletdb.cpp |
| `NodeLifetime` | reference counts and slots of a `CNode` | net.cpp, net.h |
| `*Proofs` | the theorems on the module of that name; `MemPoolProofs` is on `MemPool`, `OrphanTxs` and `Miner` together, `NetworkProofs` on `NodeLifetime` and `AddrMan` | |
| `MC*` | trees and small sets for TLC | |

`ChainState`, `BlockDownload` and `ChainPersistence` extend `BlockTree`. They look at the
same chain from three sides: the first keeps all of the control of the choice of the
chain and no disk, the second reduces that choice to "a linked block with the most work",
the third to "a step towards a stored block with more work" and keeps all writes.
`CoinsCache` instantiates `CoinsViews` with a refinement mapping. `MemPool`, `OrphanTxs`
and `Miner` are one composed system: the miner reads the pool that the orphans and the
chain change.

### CheckQueue

One action per critical section of the mutex: entering `Loop`, reporting a batch and
taking the next, waking up, `Add`, the constructor and destructor of the control. A
thread executes its batch in an action of its own. `cond.wait()` may wake without a
signal and is the interruption point of `interrupt_all()` at shutdown. `queue` is a set:
which of the queued checks a thread takes is left open. `added` is a history variable.

### ChainState

Each action holds `cs_main` from start to end. `ProcessNewBlock` and `RejectBlock` are
`AcceptBlock` with everything it calls; one step of `ActivateBestChain` is
`ActivateStep` (blocks connect), `ActivateInvalid` (one does not), `ActivateNothing`, or
one of the errors; `LoopTest` is the loop condition, read without the lock.
`InvalidateBlock` and `ReconsiderBlock` are the RPC commands; `InvalidateFails` and
`InvalidateCrashes` end the first half way. What a block contains is reduced to how far
it gets: `BadContext`, `Invalid`, `Damaged` (stored, but it no longer reads back).
`FindMostWorkChain` is not executed as a loop; `MostWork`, `FailedMet` and `Swept` say
which candidate it returns and what it has marked and erased by then.

### BlockDownload

`flight` holds the books: owner (`mapBlocksInFlight`), the list and count of each peer,
the validated headers and the stalling timers. Time is abstracted: a timer that runs may
expire (`SendMessagesTimeout`). `FindNextBlocksToDownload` is `Start`, `Path`, `Visited`,
`ToFetch`, `Advance` and `Staller`, which describe the walk by sets of blocks.
`IsInitialBlockDownload` is a flag that goes off once at any moment. `StartSync` has the
limit of two peers that are asked for headers, which a recent best header lifts (a
choice).

### ChainPersistence

Memory, files with what `FileCommit` has forced out (`blkSafe`, `revSafe`), and databases
with what a `Sync` has (`dbSafe`, `lastSafe`, `coinsOld`). `FlushStateToDisk` is
`FlushBlockFile`, one `WriteBlockIndex` per entry, `Sync`, `FlushCoins`, in this order,
with a `Crash` possible after each. After `ProcessEnds` the operating system still has all
that was written, and a second crash may lose it; `MachineStops` loses any of it. What was
in memory is gone with both. `Restart` is `LoadBlockIndexDB`, including the ways in
which it stops. Assumed of the outside: LevelDB keeps the order of its log, and `Sync`
and `FileCommit` do what they say.

### CoinsViews and CoinsCache

`CoinsViews` has whole sets of coins: the database, the tip and one open view; flushing
copies a set. `CoinsCache` has the entries that were looked at with their flags. A coin
is an opaque value, `Pruned` the one without outputs. What a block does to the coins is
arbitrary, but the state after a block is a function of the block (`state`).

### MemPool, OrphanTxs and Miner

A transaction is a name with the outputs it spends and has; a block is a coinbase and a
sequence of transactions. Everything runs under `cs_main`; the loops over a block are
unrolled (`pc` names the loop, `k` counts), so that invariants are also checked between
two turns. Connecting is `BeginConnect`, `ConnectTx` for each transaction (on a view),
`ConnectFails` or `FlushConnect`, then `RemoveForBlock` per transaction (the transaction,
and what conflicts with it). Disconnecting is `DisconnectTip`, `DisconnectTx` from the last
transaction to the first, with the undo data, `FlushDisconnect`, `Resurrect` per
transaction (back into the pool, or out with its descendants) and `EndDisconnect`, which
includes `removeCoinbaseSpends`. `TxUndo`, `UpdateCoins`,
`RestoreCoins` and `CleanTurn` are translated coin by coin: a coin that is spent completely
is pruned, and its height and coinbase flag are in the undo data of the last spend only.
The fields `snaps` of a block are a history of the coins, against which `UndoExact` compares.

`OrphanTxs` adds the `tx` message: `TxAccepted` starts the work queue, `OrphanTurn` tries
one dependent orphan, `NextInQueue` and `EndOfQueue` end a level and the handler.
`TxMissing` is `AddOrphanTx` with `LimitOrphanTxSize`; `FinalizeNode` erases the orphans of
a peer. `Miner` adds `BeginBlock` (which transactions of the pool wait for which others),
`IncludeTx`, `PassOver` (a limit of the block) and `EndBlock`. A block of two chains or of
another miner is any that `ConnectBlock` accepts.

### AddrMan

`am` is a record of the members of `CAddrMan`; an operation is a function on it. Bucket and
position are keyed hashes in the code and constant operators here. `Restart` is the
serialization and `Unserialize`: places are found anew, an entry that finds its place taken
loses it, and new ones without a place are pruned. Where the code asserts, `Assert` sets `am.ok` to
false: the process ends there. `moved` is a history variable of an entry: its port has
changed while it was in the tables, so that it may not be where `Check_` looks for it.
`b32` says of each I2P destination whether `mapI2pHashes` has no hash of it, its hash with
the nId of the present entry, or with that of an earlier one (`"stale"`).

### KeyPool

`pc` is where the thread in `cs_wallet` stands; `log` has the states of the database since
the last checkpoint, and a crash (`Restart`) brings back any of them. `KeepKey` and
`LockWallet` need no `cs_wallet`, as in the code, and come between the steps of a thread
that has it; `Unlock` takes it. The database may refuse any write. `TopUpKeyPool` and
`GenerateNewKey` then throw (`FillRefused`, `GenerateFails`); `KeepKey`, `AddToWallet`, as
`CommitTransaction` calls it, and `NewKeyPool` go on, and the history variables `unerased`,
`unrecorded` and `unwritten` say for which key or index. When the record of a reserved
index cannot be read, `Take` leaves the index, without a key, with the `CReserveKey`, whose
destructor returns it. `clash` is a history variable: an index was put into the set while a
thread held it (section 6).

### NodeLifetime

One critical section of `cs_vNodes` is one step. What `ConnectNode` and
`OpenNetworkConnection` do to a node outside it is one step per access, with the increment
of the count as a read and a write: `MoveGrant` (only if the caller passes a slot),
`SetNetworkNode` and, for a one-shot, `SetOneShot`. `late` is a history variable: the nodes
that got their slot when they had already left `vNodes`. An operation of `CSemaphoreGrant` is
one step, so that `MoveTo` racing `Release` of the same grant, which needs a node that is
found again, is not split further. `refs` is an integer, so that a count below zero would
show.

## 3. Runs

| run | instance | shows |
|---|---|---|
| `check_queue` | 2 workers and the master, blocks of up to 4 checks of which one is bad, batches of at most 2, interruption at any moment | `Accounting`: the counters are exact in every interleaving; `BlocksApart`: the assertion of the control's constructor, and no check outlives its block; `VerdictExact`: `Wait` returns the conjunction of all checks; `WaitReturns` (liveness): `Wait` returns or the thread is interrupted |
| `chain_reorg` | branches g-a1-a2-a3 and g-b1-b2-b3, a3 with bad content, b2 does not connect; 2 threads | `BestChainAtRest`: when no thread is activating, the tip is the best eligible block; `LinkedIffStored`: `nChainTx` is set exactly when all below is stored; `CandidatesLinked`: the path of a candidate is linked; `ActivationEnds` (liveness) |
| `chain_commands` | g-a1-{a2,b2} and g-b1, b1 damaged on disk; one `invalidateblock`, one `reconsiderblock`, one system error; 2 threads | `ActiveChainSound`; `CandidateLeft`: a candidate as good as the tip is left, until a system error or `reconsiderblock`; `CoinsFollowTip`; `CheckBlockIndex`: the conditions of the function of that name on `mapBlocksUnlinked`, the candidates and the failure marks, each until the command or error after which the code does not keep it (section 6) |
| `download` | g-a1-a2 and g-b1, b1 bad; one peer moves between the branches and is not preferred, one is steady; window and transit limit 1 | `InFlightExact`: owner, lists and counts agree, within the limit; `StallersOweBlocks`, `PeerCountersExact`, `LastCommonFull` |
| `download_live` | g-a1-a2; three preferred peers, two that never send a block, one of them without a chain of its own, and a steady one | `ChainArrives` (liveness): the chain of the steady peer is downloaded, whatever was asked from the others, unless these two hold the headers sync (section 6) |
| `store` | g-a1-a2 and g-b1, a2 does not connect; 2 files, two crashes, one `invalidateblock` | `CoinsIndexed`, `FilesOnDisk`: whatever a crash leaves, the chain of the coins is there with its blocks, and the undo data of the last file; `CandidateAtStart`: the start finds a candidate |
| `coins` | 2 transactions, 3 values, 3 blocks, one failed write | `FlagsRight`: FRESH and clean entries against the base; `ParentHasEntry`, `StateOfBest`, and `RefinesViews`: the caches implement `CoinsViews` |
| `tx_pool` | 6 transactions that chain, join and conflict, one with a bad script; two coinbases compete at height 1, chains of up to 5 blocks with 3 transactions, maturity 2; 2 peers, 2 orphans | `NextTxExact`: the marks are exactly the inputs of the pool; `PoolFollowsChain`: the pool can be mined on the active chain, and has nothing that is in it; `UndoExact`: disconnecting brings back the coins as they were; `OrphansExact`: the index and the owners of the orphans; `TemplateSound`; `LeavesForCause` and `DependentsReconsidered` (action properties): nothing leaves the pool without a cause, and the handler leaves no orphan behind whose parents it has accepted |
| `addrman` | 3 addresses, one of I2P, 2 ports, 2 new buckets and a tried one of size 2, at most 2 references | `Check`: as long as no assertion has failed, the conditions of `Check_` but for those on times and on nKey (-1, -6, -8, -16), and for the positions (-17 to -19) of clearnet entries whose port has changed; `OnlyGoodFails` (action property): an assertion fails only in `Good_` of such an entry |
| `wallet_keys` | 2 threads (symmetric), `-keypool` 1, 3 keys and indexes, any write refused | `PoolSound`: a key in the pool has its private key on disk and is known to nobody else, unless the database refused to erase its record; `ReservedApart`: until an index is reused (section 6), a reserved key belongs to one thread, and every index in the pool has its record; `RelayedRecorded`: what was relayed is in the wallet after any crash, unless the database refused to record it |
| `nodes` | 2 nodes at one address, 1 opener, 1 slot | `RefsExact`, `NoUseAfterDelete`: until `ConnectNode` finds a node again, the counts are right and no deleted node is used, but for one write (section 6); `SlotsExact`: every slot is free, with a thread or with a node in `vNodes`, or was moved to a node that had left it; `ReleasedAreDeleted` (liveness): a node that is released is deleted |
| `v_parent` | as `store` | a disagreement of the code with its comment, section 6 |

`AddrMan!Check` and `NodeLifetime!RefsExact` include the type invariants of their modules. In
the other modules `TypeOK` is a theorem (`TypeCorrect`), for any instance; it also says what
may not become negative (`nTodo`, `nPreferredDownload`, `nBlocksInFlight` are unsigned or
counts).

### Bounds, and why they are enough

* Two threads: `cs_main` serializes the steps, so what a thread can meet is a change made
  by another between two of its own; a third adds more of the same changes.
* The trees have two branches that overtake each other, siblings below and above a block
  that fails, and a branch long enough for a reorganisation to fail half way. The
  properties compare at most two branches.
* Window and transit limit 1 put both limits within reach of a chain of two blocks, and
  make stalling possible; with larger values it would take longer chains.
* Two files: the last one, and one that was left. Two crashes: the second, of the machine,
  may lose what the first, of the process only, had left to the operating system.
* Two transactions: one to be changed and one that must stay. Three values: pruned and
  two that can be told apart.
* Six transactions: a split, a join, a conflict at each end, and a chain that is longer than
  the orphan limit. Two coinbases at one height make the pool lose an input for good.
* Addresses: two that exchange places by changing the port, and an I2P destination, whose
  place does not depend on it. A bucket of size 2 is full with two.
* Keys: with a pool of one key, each reservation empties it, so that an index is used again
  soon. Three keys are one for each thread and one that takes the index of another.
* Nodes: two pointers for one address, so that one is found again while the first is going.
  One slot, so that a slot that is not given back blocks the next connection.
* Peers: three, so that two can take the two places of the headers sync from the third.
* The counters `MaxInvalidate`, `MaxReconsider`, `MaxAborts`, `MaxCrashes`, `MaxFailures`
  bound commands and failures only; they occur in guards, and theorems hold for any value.

Deadlock is checked in `check_queue`, the chain runs and `coins`, where `Terminated`
stands for the intended end, and in `tx_pool`, `wallet_keys` and `nodes`. In `download` the
peers may all be gone for good (a NodeId is used once), in `store` a start may fail after a crash, and in `addrman` a
failed assertion ends the process: these runs say `CHECK_DEADLOCK FALSE`.

## 4. Fairness

* `CheckQueue`: every thread that can take the mutex, or runs a check, is scheduled (weak
  fairness of its step). Signals at shutdown and new blocks need not come.
* `ChainState`: a thread inside `ActivateBestChain` gets `cs_main` again. Nothing says
  that a block arrives.
* `BlockDownload`: a running timer expires and a closed connection is finalized. Only for the
  peers in `Steady` it is assumed that they connect, are visited by the message handler, send the
  headers that follow once the sync with them has started, and deliver what they are asked
  for. That the best header is a recent one, which lifts the limit on the headers sync, is
  assumed of no visit. `ChainArrives` is about such peers only.
* `NodeLifetime`: the socket thread and the message thread loop for ever (weak fairness of
  each). Nothing says that a connection is opened, accepted or closed.

## 5. Proofs

All theorems are checked by TLAPS for every value of the constants that satisfies the
assumptions in the modules: finite sets, a tree whose ancestors are closed, work that
grows along a chain.

**CheckQueue.** `Accounting` alone is not inductive: a step that takes a batch needs
`HoldsWhileBusy` (a thread holds checks exactly from taking to reporting them), and
`IdleCount` says that `nIdle` covers the waiting threads, so that it is never
decremented below zero. The verdict is carried from batch to batch by `VerdictSoFar` (a
positive result vouches for every check that is neither queued nor in a thread's hands),
and `Quiet` says that nothing is pending when the master is outside or `Wait` has
returned. Theorems: `TypeCorrect`,
`CountersExact`, `BlocksAreApart`, `VerdictCorrect`. The
argument is about cardinalities of disjoint unions (`HandUpdate`, `HandDrop`), one lemma
per critical section.

**ChainState.** `IInv` is `TypeOK`, `ChainTxClosed` (a linked block has linked ancestors),
`ActiveChainSound`, `CoinsFollowTip`. `ChainTxClosed` is what makes a reorganisation
towards a candidate pass over stored blocks only. `SweptElsewhere` shows that
`FindMostWorkChain` never marks a block of the active chain or of the way to the block it
returns. `IndexInv` is about the entries: what waits is not linked (`HeldBack`), sequence
ids are different (`Distinct`), a marked block has one marked as invalid below it, and `Waiting`, the
strengthening of `LinkedIffStored` and `UnlinkedExact`: a stored block that is not linked is
in `mapBlocksUnlinked` unless a mark below it may have dropped it. `ChoiceInv` is about
the candidates. They are not complete from the tip upwards: between two steps of a
reorganisation the tip has less work than before, and what lies between the old and the new
tip has been pruned. What holds is `Floor`: there is a valid block, not worse than the tip, from
which upwards the candidates are complete. A step that connects moves the floor to the new
tip once that is as good; a block that turns out invalid leaves it where it is, for the floor has no such block
below it; `invalidateblock` moves it down to the tip that it leaves. `Busy` says that the tip
is the best block or some thread will look for a better one, whatever it has read without the
lock. Theorems: `TypeCorrect`, `ActiveChainIsSound`, `CandidatesAreLinked`, `CoinsFollow`,
`LinkedWhenStored`, `CandidateIsLeft`, `BestAtRest`, `IndexChecks`, for any tree and any number
of threads.

**BlockDownload.** `IInv` is `TypeOK`, `Books` (the three views of the blocks in flight
agree, within the limit, owned by connected peers, stallers owe), `PeerCountersExact`,
`NotYetPreferred` (a peer is counted once), `LastCommonFull`, `TipFull`. `FetchBound`
shows that the walk returns no more blocks than there is room for, `StartIsFull` and
`AdvanceIsFull` that the last common block stays above stored blocks only, through
reorganisations of the peer and of the node. Theorems: `TypeCorrect`, `InFlightIsExact`,
`StallersOwe`, `PeersAreCounted`, `LastCommonIsFull`.

**ChainPersistence.** `IInv` is `TypeOK`, `CoinsIndexed`, `Database` (what was synced is
not lost, and the index is synced before the coins are written), `Memory` (what differs
between memory and database is dirty) and `Files` (a block that may be lost is in the
last file and not in the database). The hard step is the crash, after which any mixture of old and new entries may
be read (`Mixed`). `UndoFile` is added for the undo data. For the start, `OnlyInvalid` says that without a
command only blocks that do not connect are marked, in memory and in both states of the
database, and `Connected` that no chain that the coins may come back to has one: so their own
block is always a candidate. Theorems: `TypeCorrect`, `CoinsAreIndexed`, `FilesAreOnDisk`,
`StartFindsCandidate`, and `UndoIsOnDisk`: if there is one file only, all undo data is safe.

**CoinsCache.** `IInv` has `CacheOK` for both caches (flags against the base), the
assertion of `BatchWrite`, `ViewPhase` and `StateOfBest`. `BatchWrittenOK` is the core:
after merging, the tip shows what the view showed. From it `Refinement` follows, which
maps each step to a step of `CoinsViews` or to a stutter. The others are `TypeCorrect`,
`FlagsAreRight`, `AssertionHolds`, `BestBlockIsRight`.

**MemPool, OrphanTxs, Miner.** `IInv` is `CoinsInv /\ PoolInv /\ OrphanInv`. The core is
`TurnUndone`: what `DisconnectBlock` makes of the undo data of a transaction gives back the
coins before `UpdateCoins`, also when an input was spent completely, when several inputs come from
one transaction, and when its outputs are pruned at once. It needs that coins are cleaned
(`CoinsGood`: an empty one is `Pruned`) and that a transaction does not spend from itself.
`ChainGood` carries it through a chain: each block has the coins before and after each of
its transactions, and these fit together. From it `UndoIsExact` follows for any number of
blocks and transactions. `MarksAreExact` rests on acceptance finding no mark and on
`Removing` taking the marks of what it takes; `OrphansAreExact` on the same of both maps of
the orphans, with the limit. `MinerOnlyReads` is a step simulation: `MinerSpec` implements
`OrphanSpec`, so that the theorems hold with the miner too.

That the pool follows the chain (`PoolCouldBeMined`) needs a history. `HistInv` says of each block
which coins it has made and spent and that it holds no transaction before its parents, so that a coin
exists exactly when its transaction is mined and an output is not spent. `FollowInv` is
`PoolFollowsChain` in the middle of the loops: an input is covered by the pool, by a coin, or
by a transaction that the loop has still to put back or take out with its descendants. The set
`Descendants` is the least one closed under children; the two facts that its definition
gives at once (`DescendantsClosed`, `DescendantsWithin`) are enough, and no induction is
needed. `DescendantsWithin` is also the argument of `NothingLeavesInVain`: the transactions that
have a cause to leave are such a set. `OrphansAreReconsidered` carries, through the turns of
the handler, what of the work queue and of the current level is still to be tried (`TurnsGood`).
`TemplateIsSound` has `ViewGood` (the view of the block is what its transactions make of
the coins) and `DependsGood` (a transaction waits exactly for those of its parents that are neither coins
nor in the block).

**KeyPool.** A crash may bring back any state of the log, so that what holds of the database
must hold of all of its states since the last checkpoint (`LogGood`): every key in the pool
is known to it, no key is at two indexes, no used key is in the pool (`Given`: unless its
erasure was refused), and what was relayed is recorded (`Told`: unless that was refused). `Hands` relates the latest state to what the threads hold: a held key is at
no other index, a new key is nowhere yet, a committed one is not in the pool. That
a used key never comes back rests on `KeepKey` closing its `CWalletDB`, which makes the
checkpoint, before the key is shown to anybody. A key whose record stayed may be handed out
again and committed; `LeftKept` keeps it out of the claims from the moment of the refusal. Theorems: `TypeCorrect`, `PoolIsSound`,
`ReservedKeysAreApart`, `RelayedAreRecorded`, for any number of threads, keys and crashes.

**NodeLifetime.** `IInv` is `Types`, `Places` (who can have a pointer at which point of its
loop), `SlotsExact` and, until `ConnectNode` finds a node again, `Counts` (the count is the number of
users), `Held` (what a thread has copied is alive, what is listed is not released) and
`Opening` (a node that is being opened has one thread, and cannot be released as `fNetworkNode` is not yet
set; `Maker` names that thread, and no longer once it has only `fOneShot` to write).
`SlotsExact` is inductive with `Places`: `Disconnect` empties the grants of the nodes it takes out of
`vNodes`, and `MoveGrant` is the only step that fills one. The deletion reads the count without `cs_vNodes`; `Held` and `Counts` show that a
count of zero cannot become positive again. Theorems: `ReferencesAreExact`,
`NoneUsedAfterDelete`, `SlotsAreExact`, for any number of nodes, threads and slots (in
`NetworkProofs`).

**AddrMan.** `Add_`, `Good_` and the reload are compositions of functions on one record, and the
conditions of `Check_` do not hold between their stages: an entry that was just created or evicted has no
place yet, and `nNew` has been counted before or after the entry has moved. `Consistent(s, F, d)`
says what does hold there: the conditions, except that the entries in `F` may be without a place and
that `nNew` is off by `d`. Each stage has a lemma that says how it moves `F` and `d`
(`CreateIs`, `PlaceIs`, `ClearNewIs`, `DeleteIs`, `LosePlaces`, `EvictIs`, `MakeTriedIs`); an
operation starts and ends with `Consistent(am, {}, 0)`. `PositionsRight` says that an entry is where
its address and port put it, if its port has not changed or, as for an I2P destination, does not matter
(`Fixed`); for such an entry `MakeTried` finds all places, and its assertion holds. For the reload, the entry that keeps a place
is the first of its bucket that belongs there (`FirstAt`); that there is a first
(`LeastExists`) is proved from the well-foundedness of the finite subsets, which the library
has, since induction is out of reach. `AddrInv` keeps only the types
once an assertion has failed, where the process ends. Theorems: `AddrManIsConsistent`
(`Check`), `HashesAreExact` (the index of hashes, for destinations without a hash of an earlier
entry), and `AssertionsHold`: an assertion fails only in `Good_` of a clearnet entry whose port
has changed (`OnlyGoodFails`). They hold for any set of addresses,
any buckets and any hash functions (in `NetworkProofs`).

Only model-checked: the liveness properties (`WaitReturns`, `ActivationEnds`, `ChainArrives`,
`ReleasedAreDeleted`), since the prover does not handle fairness and ENABLED. All other
properties of the runs are theorems. No module
that is proved about has RECURSIVE operators; what a recursive definition computes for
every input is out of the prover's reach, which is why ancestors are a constant.

## 6. Findings

| run | the code | says |
|---|---|---|
| `v_parent` | index entries are written one by one in the order of addresses; after a crash a child may be there without its parent, and the start fails | the parent "should already be in the mapBlockIndex" |

Some properties have a condition because the code does not keep them without it. These
are known deviations, each reproduced with TLC while the model was written unless it says
otherwise. Where a definition is named that is in no `.cfg`, adding it there as an INVARIANT
(`ChainAlwaysArrives` as a PROPERTY) shows the counterexample.

Chain, download and coins:

* `ReconsiderBlock` clears the failure marks of the ancestors without putting them back
  among the candidates, although `CheckBlockIndex` asserts that a valid block that sorts at
  least as good as the tip is one (`CandidatesExactAtRest`).
* `FinalizeNode` (main.cpp:426) erases blocks in flight and leaves
  `nQueuedValidatedHeaders` as it is, the "Number of blocks in flight with validated
  headers"; timeouts are computed from it (`QueuedExact`).
* `FlushBlockFile` commits only the last undo file before the coins are written, and undo
  data may be in an older one: "First make sure all block and undo data is flushed to disk"
  (`UndoOnDisk`).
* A failed write of the coins empties the cache and keeps its best block; the flush at
  shutdown writes the new best block without its coins (`DBStateOfBest`).
* `reconsiderblock` on one child leaves its sibling marked `BLOCK_FAILED_CHILD` although
  no ancestor has failed (hence the condition of `FailedHaveFailedAncestor`), and a block that
  was dropped from `mapBlocksUnlinked` under a failed parent is not linked any more once the
  parent is valid again (`UnlinkedExact`, `LinkedIffStored`).
* `reconsiderblock` of a2 after `invalidateblock` of a1 makes a2 a candidate and a1 valid, but not a candidate. If
  a2 then fails to connect, no candidate is left on a1, and the assertion of
  `PruneBlockIndexCandidates` fails (`CandidateLeft`, `BestChainAtRest`).
* On a chain g-a1-a2-a3-a4 with a1 missing, let a2 be stored and invalidated by the command.
  a3 then arrives and is not put into `mapBlocksUnlinked`, since its parent has failed; a4 is.
  When a1 arrives, a2 is linked and a3 is not found, so a4 stays there although all below it
  is stored, which `CheckBlockIndex` excludes (`UnlinkedExact`).
* A damaged block of the active chain cannot be disconnected: the node stays on it although a
  better chain is stored (`BestChainAtRest`).
* `CheckBlockIndex`, called between the steps of another thread's `ActivateBestChain`,
  can find a candidate missing: hence `CandidatesExactAtRest`.
* The headers sync is started with two peers at most (main.cpp:5364) as long as the best header is
  older than a day, and there is no timeout for the headers: two preferred peers that do not answer,
  and stay connected, keep the node from asking any other, although the limit is said "to
  minimize the likelihood of downtime" (`ChainAlwaysArrives`; `ChainArrives` excepts `NotAsked`).
* A stored block that no longer reads back is not marked as failed: `ActivateBestChain`
  tries it again for ever. `chain_reorg`, which checks `ActivationEnds`, has none.
* `invalidateblock` with a crash after a flush inside it leaves an index in which all
  that sorts as good as the coins' block is marked, and the start fails
  (`CandidateAtStart`).

Addresses, keys, connections, miner:

* `Add_` (addrman.cpp:466) and `Good_` (addrman.cpp:352) change the port of an entry, and
  `CService::GetKey` (netbase.cpp:1443) puts the port into the position in a bucket: the
  entry is not found at its old place any more. `Check_` then finds it at a wrong position
  (-17 to -19, addrman.cpp:630-645), which `PositionsExact` excepts by `moved`, until the
  next reload; and `assert(info.nRefCount == 0)` (addrman.cpp:290) fails after an `Add`, an
  `Add` on another port and a `Good` (`NoAssertFails`). The theorem `AssertionsHold` says that
  no other operation fails one, and that `Good_` of an I2P destination does not.
* `Delete` inside `Add_` and the pruning in `Unserialize` leave an nId in `mapI2pHashes` that
  is no longer in use. When the destination is told again, `Create` (addrman.cpp:192) keeps
  that hash, and `LookupB32addr` returns NULL for an entry that is there, although "we should
  be able to look them up here" (addrman.cpp:107); the assertion in `CopyDestinationStats`
  (addrman.cpp:173) counts the hash as well (`LookupFinds`). It lasts until the next reload;
  `HashesExact` is about the other destinations.
* `TopUpKeyPool` and `NewKeyPool` use the index after the largest in `setKeyPool`, which may
  be one that a thread holds (`clash`): when the key is kept, the record of the new one is
  erased, and "read failed" is thrown later; when it is returned, two reservations have one
  index. `HandsApart` and `PoolReadable` hold until then.
* `AddToWallet` returns false when the transaction cannot be written (wallet.cpp:788-790),
  `CommitTransaction` ignores it (wallet.cpp:1522) and relays: "The transaction has already been
  signed and recorded" (wallet.cpp:1545). After a restart the wallet does not know it
  (`SignedAndRecorded`; `RelayedRecorded` excepts `unrecorded`).
* `KeepKey` ignores that `ErasePool` failed (wallet.cpp:1797): after a restart the key is in
  the pool again, against "so it won't be used again" (`NeverUsedAgain`; `UsedOnce` excepts
  `unerased`). `NewKeyPool` ignores that `WritePool` failed (wallet.cpp:1708): the index is in
  the set, and its reservation throws "read failed" (`PoolReadable` excepts `unwritten`).
* `ConnectNode` finds a node and counts its reference without `cs_vNodes` (net.cpp:597-600):
  a node may be deleted in between (`found`). `NoUseAfterDelete` and `RefsExact` hold until
  it does so.
* `OpenNetworkConnection` sets `fNetworkNode` after the node is in `vNodes`
  (net.cpp:1892). One that is disconnected in between is never released and never deleted, and
  if its slot is moved to it after that (net.cpp:1891), the slot is never free again
  (`SlotsInUse`; `SlotsExact` excepts `late`). `ReleasedAreDeleted` is about the nodes that are
  released.
* `OpenNetworkConnection` writes `fOneShot` (net.cpp:1894) after `fNetworkNode`, from which on
  the socket thread may give the reference of the node back and delete it (`PointersLive`;
  `NoUseAfterDelete` excepts this write).
* `AnoncoinMiner` reads the tip (miner.cpp:759) before `CreateNewBlock` does, and
  `IncrementExtraNonce` puts the height of the first into the coinbase: when the tip moves in
  between, the block found is refused (by reading; the miner threads are not modelled).

## 7. Abstractions

* The set of blocks that can exist, their work and their validity are constants. Proof of
  work, timestamps, scripts and amounts decide validity and are not modelled.
* `nChainTx` is a flag in `ChainState`; `BlockDownload` and `ChainPersistence` use
  `Linked`, which is what `LinkedIffStored` shows it to mean.
* Time is a choice: timers may expire, `IsInitialBlockDownload` may end, a flush may be
  due at any call of `FlushStateToDisk`.
* A failed LevelDB batch leaves the database as it was (LevelDB's batches are atomic).
* Wording, logging, statistics, user interface signals and misbehaviour scores are left
  out.

## 8. Plan

Done, in the order of importance: the chain (`ChainState`), the thread pool
(`CheckQueue`), the download (`BlockDownload`), storage (`ChainPersistence`), coins
(`CoinsViews`, `CoinsCache`), memory pool and undo data (`MemPool`), orphans (`OrphanTxs`),
block assembly (`Miner`), addresses (`AddrMan`), keys (`KeyPool`), connections
(`NodeLifetime`). Left:

1. `AskFor`: `mapAskFor` and `mapAlreadyAskedFor` (net.cpp:2569). Liveness: an announced
   transaction is asked from another peer when the first does not answer.
2. `Wallet`: `mapTxSpends` and the depth of a transaction over reorganisations
   (wallet.cpp:530); it follows the chain through `SyncTransaction`.
3. The miner threads against a moving tip (miner.cpp:759).
4. `MessageQueues`: buffers and `vRecvGetData`.
5. `LimitedMap`, `MruSet`, `TimeData` (timedata.cpp:142), `Alerts`: small modules against
   reference definitions, bounds 2 to 4 entries.
6. `I2pSam`: sessions and streams of the SAM client.

Every invariant and action property of the runs is a theorem; a module that is added brings
its own.

## 9. Not modelled

* Scripts, transactions, serialization, base58, compression: sequential functions on
  large data, covered by the unit tests and vectors of the repository.
* Hash functions and elliptic curves: out of TLC's reach.
* Proof of work and retargeting: 256-bit arithmetic over thousands of blocks; the control
  of the retarget filter may follow.
* Checkpoints: constant data.
* RPC and REST servers, RPC queries: parsing and formatting; the commands that change the
  chain are in `ChainState`.
* Locks (`sync.h`): locking is in the atomicity of the actions; the lock order checks are
  a debug option.
* Start and shutdown (`init.cpp`): mostly arguments; the restart is in
  `ChainPersistence`, the interruption of threads in `CheckQueue`.
* Graphical interface, vendored libraries (LevelDB, JSON, zerocoin).
* Of the modelled parts: reindexing and `VerifyDB`, the transaction index, fork warnings,
  the skip list of `CBlockIndex`, `pindexBestInvalid` (written, never read here).
* Amounts, fees, priorities, the fee estimator, lock times and the limits of a block in the
  memory pool and the miner: a choice in the model. `prioritisetransaction` changes
  priorities only.
* Sockets and buffers of a connection, bans, `semOutbound`'s waiting, the interruption of the
  threads that open connections at shutdown; balances, rescans and
  the spent outputs of the wallet; the derivation of the encryption keys.
