-------------------------- MODULE ChainPersistence --------------------------
(***************************************************************************)
(* What of the block index, the block and undo files and the coins         *)
(* database survives a crash (src/src/main.cpp): AcceptBlock and           *)
(* ConnectBlock write to files, FlushStateToDisk writes the rest in its    *)
(* fixed order, LoadBlockIndexDB reads it back.                            *)
(*                                                                         *)
(* A crash may come between any two writes.  It may be the end of the      *)
(* process only, and then nothing is lost, or of the machine: then a file  *)
(* keeps what FileCommit has forced out, and a database what Sync has; of  *)
(* the rest anything may be there.  The writes of a database arrive in     *)
(* their order, but since setDirtyBlockIndex is ordered by address any     *)
(* part of them may come first.  Which chain is chosen is ChainState's     *)
(* subject; here the tip moves towards a stored block with more work.      *)
(***************************************************************************)
EXTENDS BlockTree

CONSTANTS
    Invalid,         \* blocks that AcceptBlock or ConnectBlock refuses
    MaxFile,         \* the last block file
    MaxCrashes,      \* bound on the number of crashes
    MaxInvalidate    \* bound on the number of invalidateblock commands

ASSUME StoreAssumption ==
    /\ Invalid \subseteq Blocks \ {Genesis}
    /\ MaxFile \in Nat /\ MaxCrashes \in Nat /\ MaxInvalidate \in Nat

VARIABLES
    pc,              \* up, invalidating, disconnected, index, coins, down, or how the start failed
    back,            \* where FlushStateToDisk returns to
    index, data, undo, failed,    \* mapBlockIndex and its nStatus flags
    file, nLastBlockFile,         \* nFile of each block
    dirty,           \* setDirtyBlockIndex
    tip,             \* chainActive.Tip(), and the best block of pcoinsTip
    invalidating,    \* the block of the invalidateblock command
    blk, blkSafe,    \* blocks in the blk files; those that FileCommit forced out
    rev, revSafe,    \* the same for the undo data in the rev files
    db, dbSafe,      \* the block index database; its state at the last Sync
    lastDB, lastSafe,    \* its last block file, the same two
    coinsDB, coinsOld,   \* best block in the coins database; values a crash may bring back
    crashes, invalidations

memVars == <<index, data, undo, failed, file, nLastBlockFile, dirty, tip, invalidating>>
fileVars == <<blk, blkSafe, rev, revSafe>>
dbVars == <<db, dbSafe, lastDB, lastSafe, coinsDB, coinsOld>>
vars == <<pc, back, index, data, undo, failed, file, nLastBlockFile, dirty, tip, invalidating,
          blk, blkSafe, rev, revSafe, db, dbSafe, lastDB, lastSafe, coinsDB, coinsOld,
          crashes, invalidations>>

NoEntry == [data |-> FALSE, undo |-> FALSE, failed |-> FALSE, known |-> FALSE]
Entry(b) == [data |-> b \in data, undo |-> b \in undo, failed |-> b \in failed, known |-> TRUE]
Entries == [data : BOOLEAN, undo : BOOLEAN, failed : BOOLEAN, known : BOOLEAN]
Known(d) == {b \in Blocks : d[b].known}
Stored(d) == {b \in Blocks : d[b].data}
Undoable(d) == {b \in Blocks : d[b].undo}
Marked(d) == {b \in Blocks : d[b].failed}

\* InitBlockIndex, with its final flush, has stored the genesis block, which has no undo data.
GenesisOnly == [b \in Blocks |-> IF b = Genesis THEN [NoEntry EXCEPT !.data = TRUE, !.known = TRUE]
                                                ELSE NoEntry]
Init ==
    /\ pc = "up" /\ back = "up"
    /\ index = {Genesis} /\ data = {Genesis} /\ undo = {} /\ failed = {}
    /\ file = [b \in Blocks |-> 0] /\ nLastBlockFile = 0
    /\ dirty = {} /\ tip = Genesis /\ invalidating = NoBlock
    /\ blk = {Genesis} /\ blkSafe = {Genesis} /\ rev = {} /\ revSafe = {}
    /\ db = GenesisOnly /\ dbSafe = GenesisOnly /\ lastDB = 0 /\ lastSafe = 0
    /\ coinsDB = Genesis /\ coinsOld = {}
    /\ crashes = 0 /\ invalidations = 0

Linked(have) == {x \in have : Ancestors[x] \subseteq have}
-----------------------------------------------------------------------------
(***************************************************************************)
(* Blocks.                                                                 *)
(***************************************************************************)
\* AddToBlockIndex.
AcceptBlockHeader(b) ==
    /\ pc = "up"
    /\ b \notin index /\ Parent[b] \in index \ failed
    /\ index' = index \union {b}
    /\ dirty' = dirty \union {b}
    /\ UNCHANGED <<pc, back, data, undo, failed, file, nLastBlockFile, tip, invalidating,
                   crashes, invalidations>>
    /\ UNCHANGED fileVars /\ UNCHANGED dbVars

\* FlushBlockFile: FileCommit of the last blk and rev file.
Committed(S, last) == {b \in S : file[b] = last}

\* Mutant: the file that is left is not flushed.
FindBlockPosUnflushed(n) ==
    /\ n <= MaxFile
    /\ nLastBlockFile' = n
    /\ UNCHANGED <<blkSafe, revSafe>>

\* FindBlockPos: in the last file or, when that is full, in the next.
FindBlockPos(n) ==
    /\ n <= MaxFile
    /\ nLastBlockFile' = n
    /\ \/ n = nLastBlockFile /\ UNCHANGED <<blkSafe, revSafe>>
       \/ /\ n # nLastBlockFile
          /\ blkSafe' = blkSafe \union Committed(blk, nLastBlockFile)
          /\ revSafe' = revSafe \union Committed(rev, nLastBlockFile)

\* AcceptBlock: WriteBlockToDisk and ReceivedBlockTransactions.
AcceptBlock(b) ==
    /\ pc = "up"
    /\ b \in index \ (data \union failed)
    /\ \E n \in {nLastBlockFile, nLastBlockFile + 1} :
          FindBlockPos(n) /\ file' = [file EXCEPT ![b] = n]
    /\ blk' = blk \union {b}
    /\ data' = data \union {b}
    /\ dirty' = dirty \union {b}
    /\ UNCHANGED <<pc, back, index, undo, failed, tip, invalidating, rev, crashes, invalidations>>
    /\ UNCHANGED dbVars

\* ... or its failed checks.
RejectBlock(b) ==
    /\ pc = "up"
    /\ b \in Invalid /\ b \in index \ (data \union failed)
    /\ failed' = failed \union {b}
    /\ dirty' = dirty \union {b}
    /\ UNCHANGED <<pc, back, index, data, undo, file, nLastBlockFile, tip, invalidating,
                   crashes, invalidations>>
    /\ UNCHANGED fileVars /\ UNCHANGED dbVars

\* A stored block with more work that no failed block is below.
Better(y) ==
    /\ y \in Linked(data) /\ ChainWork[y] > ChainWork[tip]
    /\ Ancestors[y] \intersect failed = {}

\* ConnectTip: ConnectBlock writes the undo data if there is none.
ConnectTip(b) ==
    /\ pc = "up"
    /\ b # Genesis /\ b \notin Invalid /\ Parent[b] = tip /\ b \in blk
    /\ \E y \in Blocks : Better(y) /\ b \in Ancestors[y]
    /\ undo' = undo \union {b}
    /\ \/ b \notin undo /\ rev' = rev \union {b} /\ dirty' = dirty \union {b}
       \/ b \in undo /\ UNCHANGED <<rev, dirty>>
    /\ tip' = b
    /\ UNCHANGED <<pc, back, index, data, failed, file, nLastBlockFile, invalidating,
                   blk, blkSafe, revSafe, crashes, invalidations>>
    /\ UNCHANGED dbVars

\* ConnectTip of a bad block: InvalidBlockFound.
ConnectFails(b) ==
    /\ pc = "up"
    /\ b \in Invalid /\ Parent[b] = tip /\ b \in blk
    /\ \E y \in Blocks : Better(y) /\ b \in Ancestors[y]
    /\ failed' = failed \union {b}
    /\ dirty' = dirty \union {b}
    /\ UNCHANGED <<pc, back, index, data, undo, file, nLastBlockFile, tip, invalidating,
                   crashes, invalidations>>
    /\ UNCHANGED fileVars /\ UNCHANGED dbVars

\* DisconnectTip reads the block and its undo data.
Disconnectable == tip # Genesis /\ tip \in blk /\ tip \in rev

DisconnectTip ==
    /\ pc = "up" /\ Disconnectable
    /\ \E y \in Blocks : Better(y) /\ tip \notin Ancestors[y]
    /\ tip' = Parent[tip]
    /\ UNCHANGED <<pc, back, index, data, undo, failed, file, nLastBlockFile, dirty, invalidating,
                   crashes, invalidations>>
    /\ UNCHANGED fileVars /\ UNCHANGED dbVars
-----------------------------------------------------------------------------
(***************************************************************************)
(* InvalidateBlock: it holds cs_main, but each DisconnectTip may flush.    *)
(***************************************************************************)
InvalidateBlock(b) ==
    /\ pc = "up" /\ invalidations < MaxInvalidate
    /\ b \in index \ {Genesis}
    /\ invalidations' = invalidations + 1
    /\ failed' = failed \union {b} /\ dirty' = dirty \union {b}
    /\ invalidating' = b /\ pc' = "invalidating"
    /\ UNCHANGED <<back, index, data, undo, file, nLastBlockFile, tip, crashes>>
    /\ UNCHANGED fileVars /\ UNCHANGED dbVars

\* One turn of its loop.
InvalidateStep ==
    /\ pc \in {"invalidating", "disconnected"} /\ pc' = "disconnected"
    /\ invalidating \in Ancestors[tip] /\ Disconnectable
    /\ failed' = failed \union {tip} /\ dirty' = dirty \union {tip}
    /\ tip' = Parent[tip]
    /\ UNCHANGED <<back, index, data, undo, file, nLastBlockFile, invalidating, crashes,
                   invalidations>>
    /\ UNCHANGED fileVars /\ UNCHANGED dbVars

\* The end of the loop, or the return because DisconnectTip failed.
InvalidateEnds ==
    /\ pc \in {"invalidating", "disconnected"}
    /\ invalidating \notin Ancestors[tip] \/ ~Disconnectable
    /\ pc' = "up" /\ invalidating' = NoBlock
    /\ UNCHANGED <<back, index, data, undo, failed, file, nLastBlockFile, dirty, tip, crashes,
                   invalidations>>
    /\ UNCHANGED fileVars /\ UNCHANGED dbVars
-----------------------------------------------------------------------------
(***************************************************************************)
(* FlushStateToDisk.                                                       *)
(***************************************************************************)
\* First the files, and which is the last: when a chain step, the timer or Shutdown
\* (stop) calls it.
FlushBlockFile(stop) ==
    /\ pc \in {"up", "disconnected"}
    /\ stop => pc = "up"
    /\ pc' = "index"
    /\ back' = IF stop THEN "down" ELSE pc
    /\ blkSafe' = blkSafe \union Committed(blk, nLastBlockFile)
    /\ revSafe' = revSafe \union Committed(rev, nLastBlockFile)
    /\ lastDB' = nLastBlockFile
    /\ UNCHANGED <<blk, rev, db, dbSafe, lastSafe, coinsDB, coinsOld, crashes, invalidations>>
    /\ UNCHANGED memVars

\* Then the dirty entries of the index, one by one,
WriteBlockIndex(b) ==
    /\ pc = "index" /\ b \in dirty
    /\ db' = [db EXCEPT ![b] = Entry(b)]
    /\ dirty' = dirty \ {b}
    /\ UNCHANGED <<pc, back, index, data, undo, failed, file, nLastBlockFile, tip, invalidating,
                   dbSafe, lastDB, lastSafe, coinsDB, coinsOld, crashes, invalidations>>
    /\ UNCHANGED fileVars

\* Mutant: without Sync.
SyncNothing ==
    /\ pc = "index" /\ dirty = {}
    /\ pc' = "coins"
    /\ UNCHANGED <<back, crashes, invalidations>> /\ UNCHANGED dbVars
    /\ UNCHANGED memVars /\ UNCHANGED fileVars

\* Sync,
Sync ==
    /\ pc = "index" /\ dirty = {}
    /\ dbSafe' = db /\ lastSafe' = lastDB
    /\ pc' = "coins"
    /\ UNCHANGED <<back, db, lastDB, coinsDB, coinsOld, crashes, invalidations>>
    /\ UNCHANGED memVars /\ UNCHANGED fileVars

\* and the coins, in one batch that nothing forces out.
FlushCoins ==
    /\ pc = "coins"
    /\ coinsOld' = coinsOld \union {coinsDB}
    /\ coinsDB' = tip
    /\ pc' = back /\ back' = "up"
    /\ UNCHANGED <<db, dbSafe, lastDB, lastSafe, crashes, invalidations>>
    /\ UNCHANGED memVars /\ UNCHANGED fileVars
-----------------------------------------------------------------------------
(***************************************************************************)
(* Crash and restart.                                                      *)
(***************************************************************************)
\* The process ends: nothing is lost, and nothing is forced out.
ProcessEnds == UNCHANGED fileVars /\ UNCHANGED <<db, lastDB, coinsDB>>

\* The machine stops: what is left of a file is what the disk has.
MachineStops ==
    /\ \E lost \in SUBSET (blk \ blkSafe) : blk' = blk \ lost
    /\ \E lost \in SUBSET (rev \ revSafe) : rev' = rev \ lost
    /\ blkSafe' = blk' /\ revSafe' = rev'
    /\ \E lost \in SUBSET {b \in Blocks : db[b] # dbSafe[b]} :
          db' = [b \in Blocks |-> IF b \in lost THEN dbSafe[b] ELSE db[b]]
    /\ lastDB' \in IF db' = dbSafe THEN {lastDB, lastSafe} ELSE {lastDB}
    /\ coinsDB' \in coinsOld \union {coinsDB}

\* What was in memory is gone: of the index only the genesis block, which is a constant, is
\* left.  file and nLastBlockFile still say where the last file ends.
Crash ==
    /\ pc \in {"up", "invalidating", "disconnected", "index", "coins"} /\ crashes < MaxCrashes
    /\ crashes' = crashes + 1
    /\ pc' = "down" /\ back' = "up"
    /\ ProcessEnds \/ MachineStops
    /\ index' = {Genesis} /\ data' = {Genesis} /\ undo' = {} /\ failed' = {} /\ dirty' = {}
    /\ tip' = Genesis /\ invalidating' = NoBlock
    /\ UNCHANGED <<file, nLastBlockFile, dbSafe, lastSafe, coinsOld, invalidations>>

\* Mutant: only blocks with more work than the tip.
CandidatesAbove(ties) ==
    {b \in Linked(Stored(db)) \ Marked(db) : ChainWork[b] > ChainWork[coinsDB]}

\* The candidates that LoadBlockIndexDB finds, and PruneBlockIndexCandidates leaves: of
\* those with the tip's work, the ones whose address is higher (ties).
LoadedCandidates(ties) ==
    {b \in Linked(Stored(db)) \ Marked(db) :
        ChainWork[b] > ChainWork[coinsDB] \/ b \in ties \union {coinsDB}}

\* How LoadBlockIndexDB ends.
LoadResult(ties) ==
    IF \E b \in Known(db) \ {Genesis} : Parent[b] \notin Known(db) THEN "no parent"
    ELSE IF coinsDB \notin Known(db) THEN "no tip"
    ELSE IF LoadedCandidates(ties) = {} THEN "no candidate"
    ELSE "up"

\* What is not in the databases is overwritten: the sizes of the files are there too.  Opening
\* a database forces out what it has; the files stay as they were left.
Restart ==
    /\ pc = "down"
    /\ \E ties \in SUBSET {b \in Blocks : ChainWork[b] = ChainWork[coinsDB]} : pc' = LoadResult(ties)
    /\ index' = Known(db) /\ data' = Stored(db) /\ undo' = Undoable(db) /\ failed' = Marked(db)
    /\ dirty' = {} /\ tip' = coinsDB /\ nLastBlockFile' = lastDB
    /\ blk' = blk \intersect Stored(db) /\ blkSafe' = blkSafe \intersect Stored(db)
    /\ rev' = rev \intersect Undoable(db) /\ revSafe' = revSafe \intersect Undoable(db)
    /\ file' = [b \in Blocks |-> IF b \in Stored(db) THEN file[b] ELSE 0]
    /\ dbSafe' = db /\ lastSafe' = lastDB /\ coinsOld' = {}
    /\ UNCHANGED <<back, invalidating, db, lastDB, coinsDB, crashes, invalidations>>
-----------------------------------------------------------------------------
Next ==
    \/ \E b \in Blocks \ {Genesis} :
          \/ AcceptBlockHeader(b) \/ AcceptBlock(b) \/ RejectBlock(b)
          \/ ConnectTip(b) \/ ConnectFails(b) \/ InvalidateBlock(b)
    \/ \E b \in Blocks : WriteBlockIndex(b)
    \/ DisconnectTip \/ InvalidateStep \/ InvalidateEnds
    \/ \E stop \in BOOLEAN : FlushBlockFile(stop)
    \/ Sync \/ FlushCoins
    \/ Crash \/ Restart

Spec == Init /\ [][Next]_vars
-----------------------------------------------------------------------------
\* Types.
TypeOK ==
    /\ pc \in {"up", "invalidating", "disconnected", "index", "coins", "down",
               "no parent", "no tip", "no candidate"}
    /\ back \in {"up", "disconnected", "down"}
    /\ index \subseteq Blocks /\ data \subseteq index /\ undo \subseteq data
    /\ failed \subseteq index /\ dirty \subseteq index /\ tip \in data
    /\ file \in [Blocks -> 0 .. MaxFile] /\ nLastBlockFile \in 0 .. MaxFile
    /\ invalidating \in Blocks \union {NoBlock}
    /\ blk \subseteq Blocks /\ blkSafe \subseteq blk
    /\ rev \subseteq Blocks /\ revSafe \subseteq rev
    /\ db \in [Blocks -> Entries] /\ dbSafe \in [Blocks -> Entries]
    /\ lastDB \in 0 .. MaxFile /\ lastSafe \in 0 .. MaxFile
    /\ coinsDB \in Blocks /\ coinsOld \subseteq Blocks
    /\ crashes \in 0 .. MaxCrashes /\ invalidations \in 0 .. MaxInvalidate

\* "Finally flush the chainstate (which may refer to block index entries)": whatever
\* state of the databases a crash leaves, every block of the chain that the coins
\* stand for is in the index, with its data and undo data.
CoinsIndexed ==
    \A c \in coinsOld \union {coinsDB} :
        Ancestors[c] \subseteq Stored(dbSafe) /\ Ancestors[c] \ {Genesis} \subseteq Undoable(dbSafe)

\* ... and its data is in the files, whatever a crash takes away.
BlocksOnDisk == \A c \in coinsOld \union {coinsDB} : Ancestors[c] \subseteq blkSafe

\* "First make sure all block and undo data is flushed to disk": the same for the undo
\* data, without which DisconnectTip cannot leave that chain.
UndoOnDisk == \A c \in coinsOld \union {coinsDB} : Ancestors[c] \ {Genesis} \subseteq revSafe

\* ... which holds for the blocks of the last file.
UndoInLastFile ==
    \A c \in coinsOld \union {coinsDB} : \A b \in Ancestors[c] \ {Genesis} :
        file[b] = lastSafe => b \in revSafe

\* What FlushStateToDisk makes sure of in the files before the coins refer to it.
FilesOnDisk == BlocksOnDisk /\ UndoInLastFile

\* "Either the current tip or a successor of it we're working towards is left in
\* setBlockIndexCandidates": the assertion holds when LoadBlockIndexDB prunes, unless
\* invalidateblock has marked blocks of the active chain.
CandidateAtStart == invalidations = 0 => pc # "no candidate"

\* The previous block "should already be in the mapBlockIndex" when LoadBlockIndexDB
\* looks for it.
ParentsLoaded == pc # "no parent"
=============================================================================
