----------------------- MODULE ChainPersistenceProofs -----------------------
(***************************************************************************)
(* For every block tree, any number of files, crashes and commands: the    *)
(* order of the writes in FlushStateToDisk makes the coins database refer  *)
(* to blocks that are in the index and in the files, with the undo data in *)
(* the last of them, and a start finds a candidate for the tip.            *)
(***************************************************************************)
EXTENDS ChainPersistence, FiniteSetTheorems, TLAPS

\* A block with undo data has data, one with data is known.
WellFormed(d) ==
    Undoable(d) \subseteq Stored(d) /\ Stored(d) \subseteq Known(d) /\ Marked(d) \subseteq Known(d)

\* The database never loses what was synced, and is synced before the coins are written.
Database ==
    /\ WellFormed(db) /\ WellFormed(dbSafe)
    /\ Stored(dbSafe) \subseteq Stored(db) /\ Undoable(dbSafe) \subseteq Undoable(db)
    /\ pc = "coins" => dirty = {} /\ dbSafe = db

\* What differs between memory and the database is dirty; the active chain is stored.
Memory ==
    pc # "down" =>
        /\ Stored(db) \subseteq data /\ Undoable(db) \subseteq undo
        /\ data \ dirty \subseteq Stored(db) /\ undo \ dirty \subseteq Undoable(db)
        /\ Ancestors[tip] \subseteq data /\ Ancestors[tip] \ {Genesis} \subseteq undo

\* Blocks that may be lost are in the last file, and not in the database.
Files ==
    /\ Stored(db) \subseteq blkSafe
    /\ \A b \in blk \ blkSafe : file[b] = nLastBlockFile
    /\ pc # "down" => data \subseteq blk
    /\ pc \in {"index", "coins"} => blkSafe = blk

\* The inductive invariant.
IInv == TypeOK /\ CoinsIndexed /\ Database /\ Memory /\ Files

\* The index d knows no file beyond last, and what it says of the undo data there is true.
LastFile(d, last) ==
    /\ \A b \in Stored(d) : file[b] <= last
    /\ \A b \in Undoable(d) : file[b] = last => b \in revSafe

\* What has to be added for the undo data of the last file.
UndoFile ==
    /\ LastFile(db, lastDB) /\ LastFile(dbSafe, lastSafe)
    /\ pc # "down" => /\ \A b \in data : file[b] <= nLastBlockFile
                      /\ \A b \in undo : file[b] = nLastBlockFile => b \in rev
    /\ pc \in {"index", "coins"} =>
          lastDB = nLastBlockFile /\ Committed(rev, nLastBlockFile) \subseteq revSafe

-----------------------------------------------------------------------------
(***************************************************************************)
(* The database as sets of blocks.                                         *)
(***************************************************************************)
\* WriteBlockIndex replaces what the database says of one block.
LEMMA Written ==
    ASSUME NEW b \in Blocks, db \in [Blocks -> Entries], NEW d,
           d = [db EXCEPT ![b] = Entry(b)]
    PROVE  /\ d \in [Blocks -> Entries]
           /\ Known(d) = Known(db) \union {b}
           /\ Stored(d) = (Stored(db) \ {b}) \union ({b} \intersect data)
           /\ Undoable(d) = (Undoable(db) \ {b}) \union ({b} \intersect undo)
           /\ Marked(d) = (Marked(db) \ {b}) \union ({b} \intersect failed)
<1>1. /\ Entry(b) \in Entries /\ Entry(b).known
      /\ Entry(b).data <=> b \in data
      /\ Entry(b).undo <=> b \in undo
      /\ Entry(b).failed <=> b \in failed
  <2>1. Entry(b) \in Entries
    BY DEF Entry, Entries
  <2>2. Entry(b).known /\ (Entry(b).data <=> b \in data)
    BY DEF Entry
  <2>3. (Entry(b).undo <=> b \in undo) /\ (Entry(b).failed <=> b \in failed)
    BY DEF Entry
  <2> QED
    BY <2>1, <2>2, <2>3
<1>2. d \in [Blocks -> Entries] /\ d[b] = Entry(b) /\ \A c \in Blocks \ {b} : d[c] = db[c]
  BY <1>1
<1> QED
  BY <1>1, <1>2 DEF Known, Stored, Undoable, Marked

\* A crash leaves for each block what the database says of it, or what was synced.
LEMMA Mixed ==
    ASSUME NEW lost \in SUBSET Blocks, db \in [Blocks -> Entries], dbSafe \in [Blocks -> Entries],
           NEW d, d = [b \in Blocks |-> IF b \in lost THEN dbSafe[b] ELSE db[b]]
    PROVE  /\ d \in [Blocks -> Entries]
           /\ Known(d) = (Known(db) \ lost) \union (Known(dbSafe) \intersect lost)
           /\ Stored(d) = (Stored(db) \ lost) \union (Stored(dbSafe) \intersect lost)
           /\ Undoable(d) = (Undoable(db) \ lost) \union (Undoable(dbSafe) \intersect lost)
           /\ Marked(d) = (Marked(db) \ lost) \union (Marked(dbSafe) \intersect lost)
BY DEF Known, Stored, Undoable, Marked

\* InitBlockIndex stores the genesis block alone.
LEMMA AtFirst ==
    /\ GenesisOnly \in [Blocks -> Entries]
    /\ Known(GenesisOnly) = {Genesis} /\ Stored(GenesisOnly) = {Genesis}
    /\ Undoable(GenesisOnly) = {} /\ Marked(GenesisOnly) = {}
<1>1. GenesisOnly \in [Blocks -> Entries]
  BY DEF GenesisOnly, NoEntry, Entries
<1>2. \A b \in Blocks : /\ GenesisOnly[b].known <=> b = Genesis
                        /\ GenesisOnly[b].data <=> b = Genesis
                        /\ ~GenesisOnly[b].undo /\ ~GenesisOnly[b].failed
  BY DEF GenesisOnly, NoEntry
<1> QED
  BY <1>1, <1>2, TreeAssumption DEF Known, Stored, Undoable, Marked

\* The sets hold blocks.
LEMMA InBlocks ==
    ASSUME NEW d
    PROVE  /\ Known(d) \subseteq Blocks /\ Stored(d) \subseteq Blocks
           /\ Undoable(d) \subseteq Blocks /\ Marked(d) \subseteq Blocks
BY DEF Known, Stored, Undoable, Marked

-----------------------------------------------------------------------------
(***************************************************************************)
(* The invariant.                                                          *)
(***************************************************************************)
LEMMA InitInv == Init => IInv
<1> SUFFICES ASSUME Init PROVE IInv
  OBVIOUS
<1>1. Ancestors[Genesis] = {Genesis} /\ Genesis \in Blocks
  BY TreeAssumption
<1>2. TypeOK
  BY <1>1, AtFirst, StoreAssumption DEF Init, TypeOK
<1>3. CoinsIndexed /\ Database /\ Memory /\ Files
  BY <1>1, AtFirst DEF Init, CoinsIndexed, Database, Memory, Files, WellFormed
<1> QED
  BY <1>2, <1>3 DEF IInv

\* What the block acceptance and the chain steps write.
LEMMA BlockSteps ==
    ASSUME IInv, NEW b \in Blocks \ {Genesis},
           \/ AcceptBlockHeader(b) \/ AcceptBlock(b) \/ RejectBlock(b)
           \/ ConnectTip(b) \/ ConnectFails(b)
    PROVE  IInv'
<1> USE DEF IInv
<1>1. CASE AcceptBlockHeader(b)
  <2>1. TypeOK'
    BY <1>1 DEF AcceptBlockHeader, TypeOK, fileVars, dbVars
  <2>2. CoinsIndexed' /\ Database' /\ Memory' /\ Files'
    BY <1>1 DEF AcceptBlockHeader, fileVars, dbVars, TypeOK, CoinsIndexed, Database, Memory, Files
  <2> QED
    BY <2>1, <2>2
<1>2. CASE AcceptBlock(b)
  <2>1. PICK n \in {nLastBlockFile, nLastBlockFile + 1} :
            FindBlockPos(n) /\ file' = [file EXCEPT ![b] = n]
    BY <1>2 DEF AcceptBlock
  <2>2. n \in 0 .. MaxFile
    <3>1. nLastBlockFile \in 0 .. MaxFile /\ n <= MaxFile
      BY <2>1 DEF FindBlockPos, TypeOK
    <3> QED
      BY <3>1, StoreAssumption
  <2>3. blkSafe \subseteq blkSafe' /\ blkSafe' \subseteq blk /\ revSafe' \subseteq rev
    BY <2>1 DEF FindBlockPos, Committed, TypeOK
  <2>4. TypeOK'
    BY <1>2, <2>1, <2>2, <2>3 DEF AcceptBlock, FindBlockPos, TypeOK, dbVars
  <2>5. CoinsIndexed' /\ Database' /\ Memory'
    BY <1>2 DEF AcceptBlock, dbVars, TypeOK, CoinsIndexed, Database, Memory
  <2>6. \A x \in blk' \ blkSafe' : file'[x] = nLastBlockFile'
    BY <1>2, <2>1, <2>2 DEF AcceptBlock, FindBlockPos, Committed, TypeOK, Files
  <2>7. Files'
    BY <1>2, <2>3, <2>6 DEF AcceptBlock, dbVars, Files
  <2> QED
    BY <2>4, <2>5, <2>7
<1>3. CASE ConnectTip(b)
  <2>1. tip \in Blocks /\ Parent[b] = tip /\ Ancestors[b] = Ancestors[tip] \union {b}
    BY <1>3, TreeAssumption DEF ConnectTip
  <2>2. b \in data
    <3>1. PICK y \in Blocks : Better(y) /\ b \in Ancestors[y]
      BY <1>3 DEF ConnectTip
    <3> QED
      BY <3>1 DEF Better, Linked
  <2>3. TypeOK'
    BY <1>3, <2>2 DEF ConnectTip, TypeOK, dbVars
  <2>4. CoinsIndexed' /\ Database' /\ Files'
    BY <1>3 DEF ConnectTip, dbVars, CoinsIndexed, Database, Files
  <2>5. Memory'
    BY <1>3, <2>1, <2>2 DEF ConnectTip, dbVars, Memory
  <2> QED
    BY <2>3, <2>4, <2>5
<1>4. CASE ConnectFails(b)
  <2>1. b \in index
    <3>1. PICK y \in Blocks : Better(y) /\ b \in Ancestors[y]
      BY <1>4 DEF ConnectFails
    <3> QED
      BY <3>1 DEF Better, Linked, TypeOK
  <2>2. TypeOK'
    BY <1>4, <2>1 DEF ConnectFails, TypeOK, fileVars, dbVars
  <2>3. CoinsIndexed' /\ Database' /\ Memory' /\ Files'
    BY <1>4 DEF ConnectFails, fileVars, dbVars, CoinsIndexed, Database, Memory, Files
  <2> QED
    BY <2>2, <2>3
<1>5. CASE RejectBlock(b)
  <2>1. TypeOK'
    BY <1>5 DEF RejectBlock, TypeOK, fileVars, dbVars
  <2>2. CoinsIndexed' /\ Database' /\ Memory' /\ Files'
    BY <1>5 DEF RejectBlock, fileVars, dbVars, CoinsIndexed, Database, Memory, Files
  <2> QED
    BY <2>1, <2>2
<1> QED
  BY <1>1, <1>2, <1>3, <1>4, <1>5

\* The steps back, by a reorganisation or a command.
LEMMA StepsBack ==
    ASSUME IInv, DisconnectTip \/ InvalidateStep \/ InvalidateEnds
                 \/ \E b \in Blocks \ {Genesis} : InvalidateBlock(b)
    PROVE  IInv'
<1> USE DEF IInv
<1>1. ASSUME Disconnectable, tip' = Parent[tip], pc # "down"
      PROVE  /\ tip' \in data /\ Ancestors[tip'] \subseteq data
             /\ Ancestors[tip'] \ {Genesis} \subseteq undo
  <2>1. tip \in Blocks \ {Genesis}
    BY <1>1 DEF Disconnectable, TypeOK
  <2>2. Parent[tip] \in Ancestors[Parent[tip]] /\ Ancestors[Parent[tip]] \subseteq Ancestors[tip]
    BY <2>1, TreeAssumption
  <2> QED
    BY <1>1, <2>2 DEF Memory
<1>2. CASE DisconnectTip
  <2>1. TypeOK' /\ Memory'
    BY <1>1, <1>2 DEF DisconnectTip, TypeOK, Memory, fileVars, dbVars
  <2>2. CoinsIndexed' /\ Database' /\ Files'
    BY <1>2 DEF DisconnectTip, fileVars, dbVars, CoinsIndexed, Database, Files
  <2> QED
    BY <2>1, <2>2
<1>3. CASE InvalidateStep
  <2>1. TypeOK' /\ Memory'
    BY <1>1, <1>3 DEF InvalidateStep, TypeOK, Memory, fileVars, dbVars
  <2>2. CoinsIndexed' /\ Database' /\ Files'
    BY <1>3 DEF InvalidateStep, fileVars, dbVars, CoinsIndexed, Database, Files
  <2> QED
    BY <2>1, <2>2
<1>4. CASE InvalidateEnds
  <2>1. TypeOK' /\ Memory'
    BY <1>4 DEF InvalidateEnds, TypeOK, Memory, fileVars, dbVars
  <2>2. CoinsIndexed' /\ Database' /\ Files'
    BY <1>4 DEF InvalidateEnds, fileVars, dbVars, CoinsIndexed, Database, Files
  <2> QED
    BY <2>1, <2>2
<1>5. ASSUME NEW b \in Blocks \ {Genesis}, InvalidateBlock(b) PROVE IInv'
  <2>1. TypeOK' /\ Memory'
    BY <1>5, StoreAssumption DEF InvalidateBlock, TypeOK, Memory, fileVars, dbVars
  <2>2. CoinsIndexed' /\ Database' /\ Files'
    BY <1>5 DEF InvalidateBlock, fileVars, dbVars, CoinsIndexed, Database, Files
  <2> QED
    BY <2>1, <2>2
<1> QED
  BY <1>2, <1>3, <1>4, <1>5

\* FlushStateToDisk.
LEMMA FlushSteps ==
    ASSUME IInv, \/ \E stop \in BOOLEAN : FlushBlockFile(stop)
                 \/ \E b \in Blocks : WriteBlockIndex(b)
                 \/ Sync \/ FlushCoins
    PROVE  IInv'
<1> USE DEF IInv
<1>1. ASSUME NEW stop \in BOOLEAN, FlushBlockFile(stop) PROVE IInv'
  <2>1. blkSafe' = blk /\ revSafe \subseteq revSafe' /\ revSafe' \subseteq rev
    BY <1>1 DEF FlushBlockFile, Committed, Files, TypeOK
  <2>2. TypeOK'
    BY <1>1, <2>1 DEF FlushBlockFile, TypeOK, memVars
  <2>3. CoinsIndexed' /\ Database' /\ Memory'
    BY <1>1 DEF FlushBlockFile, memVars, CoinsIndexed, Database, Memory
  <2>4. Files'
    BY <1>1, <2>1 DEF FlushBlockFile, memVars, Files, TypeOK
  <2> QED
    BY <2>2, <2>3, <2>4
<1>2. ASSUME NEW b \in Blocks, WriteBlockIndex(b) PROVE IInv'
  <2>1. /\ db' \in [Blocks -> Entries]
        /\ Known(db') = Known(db) \union {b}
        /\ Stored(db') = (Stored(db) \ {b}) \union ({b} \intersect data)
        /\ Undoable(db') = (Undoable(db) \ {b}) \union ({b} \intersect undo)
        /\ Marked(db') = (Marked(db) \ {b}) \union ({b} \intersect failed)
    BY <1>2, Written DEF WriteBlockIndex, TypeOK
  <2>2. TypeOK'
    BY <1>2, <2>1 DEF WriteBlockIndex, TypeOK, fileVars
  <2>3. CoinsIndexed'
    BY <1>2 DEF WriteBlockIndex, CoinsIndexed
  <2>4. Database' /\ Memory'
    BY <1>2, <2>1 DEF WriteBlockIndex, TypeOK, Database, Memory, WellFormed
  <2>5. Files'
    BY <1>2, <2>1 DEF WriteBlockIndex, fileVars, TypeOK, Files, Memory
  <2> QED
    BY <2>2, <2>3, <2>4, <2>5
<1>3. CASE Sync
  <2>1. TypeOK' /\ Memory' /\ Files'
    BY <1>3 DEF Sync, TypeOK, Memory, Files, memVars, fileVars
  <2>2. CoinsIndexed' /\ Database'
    BY <1>3 DEF Sync, CoinsIndexed, Database, memVars
  <2> QED
    BY <2>1, <2>2
<1>4. CASE FlushCoins
  <2>1. tip \in Blocks
    BY DEF TypeOK
  <2>2. TypeOK' /\ Memory' /\ Files' /\ Database'
    BY <1>4, <2>1 DEF FlushCoins, TypeOK, Memory, Files, Database, memVars, fileVars
  <2>3. Ancestors[tip] \subseteq Stored(dbSafe) /\ Ancestors[tip] \ {Genesis} \subseteq Undoable(dbSafe)
    BY <1>4 DEF FlushCoins, Database, Memory
  <2>4. CoinsIndexed'
    BY <1>4, <2>3 DEF FlushCoins, CoinsIndexed
  <2> QED
    BY <2>2, <2>4
<1> QED
  BY <1>1, <1>2, <1>3, <1>4

\* Either way, the database has for each block what it had, or what was there at the last Sync.
LEMMA CrashDatabase ==
    ASSUME Crash, db \in [Blocks -> Entries]
    PROVE  \E lost \in SUBSET {b \in Blocks : db[b] # dbSafe[b]} :
              db' = [b \in Blocks |-> IF b \in lost THEN dbSafe[b] ELSE db[b]]
<1>1. CASE ProcessEnds
  <2>1. db' = [b \in Blocks |-> IF b \in {} THEN dbSafe[b] ELSE db[b]]
    BY <1>1 DEF ProcessEnds
  <2>2. {} \in SUBSET {b \in Blocks : db[b] # dbSafe[b]}
    OBVIOUS
  <2> QED
    BY <2>1, <2>2, Zenon
<1>2. CASE MachineStops
  BY <1>2 DEF MachineStops
<1> QED
  BY <1>1, <1>2 DEF Crash

\* The end of the process and the next start.
LEMMA CrashSteps ==
    ASSUME IInv, Crash \/ Restart
    PROVE  IInv'
<1> USE DEF IInv
<1>1. CASE Crash
  <2>1. PICK lost \in SUBSET {b \in Blocks : db[b] # dbSafe[b]} :
            db' = [b \in Blocks |-> IF b \in lost THEN dbSafe[b] ELSE db[b]]
    BY <1>1, CrashDatabase DEF TypeOK
  <2>2. /\ db' \in [Blocks -> Entries]
        /\ Known(db') = (Known(db) \ lost) \union (Known(dbSafe) \intersect lost)
        /\ Stored(db') = (Stored(db) \ lost) \union (Stored(dbSafe) \intersect lost)
        /\ Undoable(db') = (Undoable(db) \ lost) \union (Undoable(dbSafe) \intersect lost)
        /\ Marked(db') = (Marked(db) \ lost) \union (Marked(dbSafe) \intersect lost)
    BY <2>1, Mixed DEF TypeOK
  <2>3. /\ blk' \subseteq blk /\ blkSafe \subseteq blkSafe' /\ blkSafe' \subseteq blk'
        /\ rev' \subseteq rev /\ revSafe \subseteq revSafe' /\ revSafe' \subseteq rev'
        /\ blk' \ blkSafe' \subseteq blk \ blkSafe
        /\ lastDB' \in 0 .. MaxFile
        /\ coinsDB' \in coinsOld \union {coinsDB}
        /\ crashes' \in 0 .. MaxCrashes
    <3>1. /\ blk' \subseteq blk /\ blk \ blk' \subseteq blk \ blkSafe
          /\ rev' \subseteq rev /\ rev \ rev' \subseteq rev \ revSafe
      BY <1>1 DEF Crash, ProcessEnds, MachineStops, fileVars
    <3>2. /\ lastDB' \in {lastDB, lastSafe} /\ coinsDB' \in coinsOld \union {coinsDB}
          /\ \/ UNCHANGED <<blk, rev, blkSafe, revSafe>>
             \/ blkSafe' = blk' /\ revSafe' = rev'
      BY <1>1 DEF Crash, ProcessEnds, MachineStops, fileVars
    <3>3. crashes' \in 0 .. MaxCrashes
      <4>1. crashes \in 0 .. MaxCrashes /\ crashes < MaxCrashes /\ crashes' = crashes + 1
        BY <1>1 DEF Crash, TypeOK
      <4> QED
        BY <4>1, StoreAssumption
    <3> QED
      BY <3>1, <3>2, <3>3 DEF TypeOK
  <2>4. TypeOK'
    BY <1>1, <2>2, <2>3, TreeAssumption DEF Crash, TypeOK
  <2>5. CoinsIndexed'
    BY <1>1, <2>3 DEF Crash, CoinsIndexed
  <2>6. Database' /\ Memory'
    BY <1>1, <2>2 DEF Crash, Database, Memory, WellFormed
  <2>7. Files'
    BY <1>1, <2>2, <2>3 DEF Crash, Database, Files
  <2> QED
    BY <2>4, <2>5, <2>6, <2>7
<1>2. CASE Restart
  <2>1. pc' \in {"up", "no parent", "no tip", "no candidate"}
    BY <1>2 DEF Restart, LoadResult
  <2>2. Ancestors[coinsDB] \subseteq Stored(db) /\ Ancestors[coinsDB] \ {Genesis} \subseteq Undoable(db)
    BY DEF CoinsIndexed, Database
  <2>3. coinsDB \in Stored(db)
    BY <2>2, TreeAssumption DEF TypeOK
  <2>4. TypeOK'
    <3>1. file' \in [Blocks -> 0 .. MaxFile]
      BY <1>2, StoreAssumption DEF Restart, TypeOK
    <3> QED
      BY <1>2, <2>1, <2>3, <3>1, InBlocks DEF Restart, TypeOK, Database, WellFormed
  <2>5. CoinsIndexed'
    BY <1>2, <2>2 DEF Restart, CoinsIndexed
  <2>6. Database' /\ Memory'
    BY <1>2, <2>1, <2>2 DEF Restart, Database, Memory, WellFormed
  <2>7. Files'
    BY <1>2, <2>1 DEF Restart, Files, TypeOK
  <2> QED
    BY <2>4, <2>5, <2>6, <2>7
<1> QED
  BY <1>1, <1>2

LEMMA NextInv == IInv /\ [Next]_vars => IInv'
<1> SUFFICES ASSUME IInv, [Next]_vars PROVE IInv'
  OBVIOUS
<1>1. CASE UNCHANGED vars
  BY <1>1 DEF vars, IInv, TypeOK, CoinsIndexed, Database, Memory, Files
<1>2. CASE Next
  BY <1>2, BlockSteps, StepsBack, FlushSteps, CrashSteps DEF Next
<1> QED
  BY <1>1, <1>2

\* The invariant of the writes holds in every state, also after any number of crashes.
THEOREM Invariance == Spec => []IInv
BY InitInv, NextInv, PTL DEF Spec

-----------------------------------------------------------------------------
\* Types: in particular the active chain's tip is stored after every start.
THEOREM TypeCorrect == Spec => []TypeOK
<1>1. IInv => TypeOK
  BY DEF IInv
<1> QED
  BY <1>1, Invariance, PTL

\* FlushStateToDisk syncs the index before it writes the coins: whichever state a crash
\* leaves, the chain of the coins is in the index with data and undo data.
THEOREM CoinsAreIndexed == Spec => []CoinsIndexed
<1>1. IInv => CoinsIndexed
  BY DEF IInv
<1> QED
  BY <1>1, Invariance, PTL

\* FlushBlockFile, in FlushStateToDisk and in FindBlockPos, is enough for the blocks: the
\* chain of the coins is in the files, however many there are.
THEOREM BlocksAreOnDisk == Spec => []BlocksOnDisk
<1>1. IInv => BlocksOnDisk
  BY DEF IInv, CoinsIndexed, Database, Files, BlocksOnDisk
<1> QED
  BY <1>1, Invariance, PTL

\* The undo data of the last file.
LEMMA UndoInit == Init => UndoFile
<1> SUFFICES ASSUME Init PROVE UndoFile
  OBVIOUS
<1>1. \A b \in Blocks : file[b] <= 0
  BY DEF Init
<1>2. LastFile(db, lastDB) /\ LastFile(dbSafe, lastSafe)
  BY <1>1, AtFirst, InBlocks DEF Init, LastFile
<1> QED
  BY <1>1, <1>2, TreeAssumption DEF Init, UndoFile

\* Steps that leave the files of the blocks and the databases alone.
LEMMA UndoKept ==
    ASSUME UndoFile, UNCHANGED <<file, nLastBlockFile, db, dbSafe, lastDB, lastSafe, revSafe, data>>,
           pc # "down", pc' \notin {"index", "coins"},
           \A b \in undo' : file[b] = nLastBlockFile => b \in undo \/ b \in rev',
           rev \subseteq rev'
    PROVE  UndoFile'
BY DEF UndoFile, LastFile, Stored, Undoable, Committed

LEMMA UndoNext ==
    ASSUME IInv, UndoFile, [Next]_vars
    PROVE  UndoFile'
<1>0. /\ Undoable(dbSafe) \subseteq Undoable(db) /\ Stored(dbSafe) \subseteq Stored(db)
      /\ Undoable(db) \subseteq Stored(db)
      /\ pc # "down" => Stored(db) \subseteq data /\ Undoable(db) \subseteq undo
      /\ undo \subseteq data /\ data \subseteq Blocks /\ revSafe \subseteq rev
      /\ file \in [Blocks -> 0 .. MaxFile] /\ nLastBlockFile \in 0 .. MaxFile
  BY DEF IInv, TypeOK, Database, Memory, WellFormed
<1>1. ASSUME NEW b \in Blocks \ {Genesis},
             \/ AcceptBlockHeader(b) \/ RejectBlock(b) \/ ConnectTip(b) \/ ConnectFails(b)
             \/ InvalidateBlock(b)
      PROVE  UndoFile'
  <2>1. CASE ConnectTip(b)
    BY <2>1, UndoKept DEF ConnectTip, dbVars
  <2>2. CASE AcceptBlockHeader(b) \/ RejectBlock(b) \/ ConnectFails(b) \/ InvalidateBlock(b)
    BY <2>2, UndoKept
    DEF AcceptBlockHeader, RejectBlock, ConnectFails, InvalidateBlock, fileVars, dbVars
  <2> QED
    BY <1>1, <2>1, <2>2
<1>2. ASSUME NEW b \in Blocks \ {Genesis}, AcceptBlock(b) PROVE UndoFile'
  <2>1. PICK n \in {nLastBlockFile, nLastBlockFile + 1} :
            FindBlockPos(n) /\ file' = [file EXCEPT ![b] = n]
    BY <1>2 DEF AcceptBlock
  <2>2. /\ nLastBlockFile' = n /\ revSafe \subseteq revSafe'
        /\ file'[b] = n /\ \A x \in Blocks \ {b} : file'[x] = file[x]
        /\ b \notin data /\ pc = "up" /\ pc' = "up"
        /\ data' = data \union {b}
        /\ UNCHANGED <<db, dbSafe, lastDB, lastSafe, undo, rev>>
    BY <1>0, <1>2, <2>1 DEF AcceptBlock, FindBlockPos, dbVars
  <2>3. LastFile(db, lastDB)' /\ LastFile(dbSafe, lastSafe)'
    BY <1>0, <2>2 DEF UndoFile, LastFile, Stored, Undoable
  <2>4. \A x \in data' : file'[x] <= nLastBlockFile'
    <3>1. \A x \in data : file[x] \in Nat /\ file[x] <= nLastBlockFile
      BY <1>0, <2>2 DEF UndoFile
    <3> QED
      BY <1>0, <2>2, <3>1
  <2>5. \A x \in undo' : file'[x] = nLastBlockFile' => x \in rev'
    <3>1. \A x \in undo : /\ file'[x] = file[x] /\ file[x] <= nLastBlockFile
                          /\ file[x] \in Nat
                          /\ file[x] = nLastBlockFile => x \in rev
      BY <1>0, <2>2 DEF UndoFile
    <3> QED
      BY <1>0, <2>2, <3>1
  <2> QED
    BY <2>2, <2>3, <2>4, <2>5 DEF UndoFile
<1>3. CASE DisconnectTip \/ InvalidateStep \/ InvalidateEnds
  BY <1>3, UndoKept DEF DisconnectTip, InvalidateStep, InvalidateEnds, fileVars, dbVars
<1>4. ASSUME NEW stop \in BOOLEAN, FlushBlockFile(stop) PROVE UndoFile'
  <2>1. /\ pc # "down" /\ lastDB' = nLastBlockFile
        /\ revSafe' = revSafe \union Committed(rev, nLastBlockFile)
        /\ UNCHANGED <<file, nLastBlockFile, db, dbSafe, lastSafe, data, undo, rev>>
    BY <1>4 DEF FlushBlockFile, memVars
  <2>2. LastFile(db, lastDB)' /\ LastFile(dbSafe, lastSafe)'
    BY <1>0, <2>1 DEF UndoFile, LastFile, Stored, Undoable, Committed
  <2> QED
    BY <2>1, <2>2 DEF UndoFile, Committed
<1>5. ASSUME NEW b \in Blocks, WriteBlockIndex(b) PROVE UndoFile'
  <2>1. /\ Stored(db') = (Stored(db) \ {b}) \union ({b} \intersect data)
        /\ Undoable(db') = (Undoable(db) \ {b}) \union ({b} \intersect undo)
    BY <1>5, Written DEF WriteBlockIndex, IInv, TypeOK
  <2>2. /\ pc = "index"
        /\ UNCHANGED <<pc, file, nLastBlockFile, dbSafe, lastDB, lastSafe, data, undo, rev, revSafe>>
    BY <1>5 DEF WriteBlockIndex, fileVars
  <2>3. LastFile(db, lastDB)'
    BY <1>0, <2>1, <2>2 DEF UndoFile, LastFile, Committed
  <2>4. LastFile(dbSafe, lastSafe)'
    BY <2>2 DEF UndoFile, LastFile
  <2> QED
    BY <2>2, <2>3, <2>4 DEF UndoFile, Committed
<1>6. CASE Sync \/ FlushCoins
  <2>1. /\ UNCHANGED <<db, lastDB, file, nLastBlockFile, data, undo, rev, revSafe>>
        /\ UNCHANGED <<dbSafe, lastSafe>> \/ (dbSafe' = db /\ lastSafe' = lastDB)
        /\ pc \in {"index", "coins"}
    BY <1>6 DEF Sync, FlushCoins, memVars, fileVars
  <2>2. LastFile(db, lastDB)' /\ LastFile(dbSafe, lastSafe)'
    BY <2>1 DEF UndoFile, LastFile
  <2> QED
    BY <2>1, <2>2 DEF UndoFile, Committed
<1>7. CASE Crash
  <2>1. PICK lost \in SUBSET {b \in Blocks : db[b] # dbSafe[b]} :
            db' = [b \in Blocks |-> IF b \in lost THEN dbSafe[b] ELSE db[b]]
    BY <1>7, CrashDatabase DEF IInv, TypeOK
  <2>2. /\ Stored(db') = (Stored(db) \ lost) \union (Stored(dbSafe) \intersect lost)
        /\ Undoable(db') = (Undoable(db) \ lost) \union (Undoable(dbSafe) \intersect lost)
    BY <2>1, Mixed DEF IInv, TypeOK
  <2>3. /\ pc' = "down" /\ UNCHANGED <<dbSafe, lastSafe, file>> /\ revSafe \subseteq revSafe'
        /\ lastDB' = lastDB \/ (lastDB' = lastSafe /\ db' = dbSafe)
    BY <1>7 DEF Crash, ProcessEnds, MachineStops, fileVars, IInv, TypeOK
  <2>4. LastFile(db, lastDB)'
    BY <1>0, <2>2, <2>3 DEF UndoFile, LastFile
  <2>5. LastFile(dbSafe, lastSafe)'
    BY <2>3 DEF UndoFile, LastFile
  <2> QED
    BY <2>3, <2>4, <2>5 DEF UndoFile
<1>8. CASE Restart
  <2>1. /\ pc' \in {"up", "no parent", "no tip", "no candidate"}
        /\ UNCHANGED <<db, lastDB>> /\ \A b \in Stored(db) : file'[b] = file[b]
        /\ dbSafe' = db /\ lastSafe' = lastDB /\ nLastBlockFile' = lastDB
        /\ data' = Stored(db) /\ undo' = Undoable(db)
        /\ rev' = rev \intersect Undoable(db) /\ revSafe' = revSafe \intersect Undoable(db)
    BY <1>8 DEF Restart, LoadResult, Stored
  <2>2. Undoable(db) \subseteq Stored(db)
    BY <1>0 DEF IInv, Database, WellFormed
  <2>3. \A b \in Undoable(db) : file'[b] = lastDB => b \in rev' /\ b \in revSafe'
    BY <1>0, <2>1, <2>2 DEF UndoFile, LastFile, IInv, TypeOK
  <2>4. \A b \in Stored(db) : file'[b] <= lastDB
    BY <2>1 DEF UndoFile, LastFile
  <2>5. LastFile(db, lastDB)' /\ LastFile(dbSafe, lastSafe)'
    BY <2>1, <2>3, <2>4 DEF LastFile
  <2> QED
    BY <2>1, <2>3, <2>4, <2>5 DEF UndoFile
<1>9. CASE UNCHANGED vars
  BY <1>9 DEF vars, UndoFile, LastFile, Stored, Undoable, Committed
<1> QED
  BY <1>1, <1>2, <1>3, <1>4, <1>5, <1>6, <1>7, <1>8, <1>9 DEF Next

\* FlushBlockFile and the order of the writes are enough for the undo data of the last
\* block file: whatever a crash leaves, it is there for the chain of the coins.
THEOREM UndoOfLastFile == Spec => []UndoInLastFile
<1>1. UndoFile /\ IInv /\ [Next]_vars => UndoFile'
  BY UndoNext
<1>2. IInv /\ UndoFile => UndoInLastFile
  BY DEF IInv, UndoFile, LastFile, CoinsIndexed, UndoInLastFile
<1> QED
  BY <1>1, <1>2, UndoInit, Invariance, PTL DEF Spec

\* Together: what the coins refer to in the files is there whenever they can refer to it.
THEOREM FilesAreOnDisk == Spec => []FilesOnDisk
<1>1. BlocksOnDisk /\ UndoInLastFile => FilesOnDisk
  BY DEF FilesOnDisk
<1> QED
  BY <1>1, BlocksAreOnDisk, UndoOfLastFile, PTL

\* So as long as there is one block file, DisconnectTip can leave the chain of the coins
\* after any crash.
THEOREM UndoIsOnDisk == MaxFile = 0 => (Spec => []UndoOnDisk)
<1> SUFFICES ASSUME MaxFile = 0 PROVE Spec => []UndoOnDisk
  OBVIOUS
<1>1. IInv /\ UndoInLastFile => UndoOnDisk
  <2> SUFFICES ASSUME IInv, UndoInLastFile PROVE UndoOnDisk
    OBVIOUS
  <2>1. (\A b \in Blocks : file[b] \in 0 .. 0) /\ lastSafe \in 0 .. 0
    BY DEF IInv, TypeOK
  <2>2. \A b \in Blocks : file[b] = lastSafe
    BY <2>1
  <2>3. \A c \in coinsOld \union {coinsDB} : Ancestors[c] \subseteq Blocks
    BY TreeAssumption DEF IInv, TypeOK
  <2> QED
    BY <2>2, <2>3 DEF UndoInLastFile, UndoOnDisk
<1> QED
  BY <1>1, UndoOfLastFile, Invariance, PTL

-----------------------------------------------------------------------------
(***************************************************************************)
(* The candidates at a start.                                              *)
(***************************************************************************)
\* Only a command marks a block that connects, and no chain that was ever active or
\* written holds one that does not.
OnlyInvalid ==
    invalidations = 0 =>
        /\ failed \subseteq Invalid /\ Marked(db) \subseteq Invalid /\ Marked(dbSafe) \subseteq Invalid
        /\ pc \notin {"invalidating", "disconnected"} /\ back # "disconnected"
Connected ==
    \A c \in coinsOld \union {coinsDB, tip} : Ancestors[c] \intersect Invalid = {}

LEMMA CleanInit == Init => OnlyInvalid /\ Connected /\ CandidateAtStart
BY AtFirst, TreeAssumption, StoreAssumption DEF Init, OnlyInvalid, Connected, CandidateAtStart

LEMMA ConnectedNext ==
    ASSUME IInv, Connected, [Next]_vars
    PROVE  Connected'
<1>1. ASSUME NEW b \in Blocks \ {Genesis}, ConnectTip(b) PROVE Connected'
  <2>1. Ancestors[b] = Ancestors[tip] \union {b} /\ b \notin Invalid
    BY <1>1, TreeAssumption DEF ConnectTip
  <2> QED
    BY <1>1, <2>1 DEF ConnectTip, dbVars, Connected
<1>2. CASE DisconnectTip \/ InvalidateStep
  <2>1. tip \in Blocks \ {Genesis} /\ tip' = Parent[tip] /\ UNCHANGED <<coinsOld, coinsDB>>
    BY <1>2 DEF DisconnectTip, InvalidateStep, Disconnectable, dbVars, IInv, TypeOK
  <2>2. Ancestors[tip'] \subseteq Ancestors[tip]
    BY <2>1, TreeAssumption
  <2> QED
    BY <2>1, <2>2 DEF Connected
<1>3. ASSUME NEW b \in Blocks \ {Genesis},
             \/ AcceptBlockHeader(b) \/ AcceptBlock(b) \/ RejectBlock(b) \/ ConnectFails(b)
             \/ InvalidateBlock(b)
      PROVE  Connected'
  BY <1>3 DEF AcceptBlockHeader, AcceptBlock, RejectBlock, ConnectFails, InvalidateBlock, dbVars, Connected
<1>4. ASSUME NEW b \in Blocks, WriteBlockIndex(b) PROVE Connected'
  BY <1>4 DEF WriteBlockIndex, Connected
<1>0. Ancestors[Genesis] \intersect Invalid = {}
  BY AtFirst, TreeAssumption, StoreAssumption
<1>5. CASE InvalidateEnds \/ Sync \/ FlushCoins \/ Crash \/ Restart
  BY <1>0, <1>5 DEF InvalidateEnds, Sync, FlushCoins, Crash, ProcessEnds, MachineStops, Restart, dbVars,
     memVars, Connected
<1>6. ASSUME NEW stop \in BOOLEAN, FlushBlockFile(stop) PROVE Connected'
  BY <1>6 DEF FlushBlockFile, memVars, Connected
<1>7. CASE UNCHANGED vars
  BY <1>7 DEF vars, Connected
<1> QED
  BY <1>1, <1>2, <1>3, <1>4, <1>5, <1>6, <1>7 DEF Next

LEMMA OnlyInvalidNext ==
    ASSUME IInv, OnlyInvalid, [Next]_vars
    PROVE  OnlyInvalid'
<1>0. invalidations \in Nat
  <2>1. invalidations \in 0 .. MaxInvalidate
    BY DEF IInv, TypeOK
  <2> QED
    BY <2>1
<1>1. ASSUME NEW b \in Blocks \ {Genesis}, InvalidateBlock(b) PROVE OnlyInvalid'
  <2>1. invalidations' # 0
    BY <1>0, <1>1 DEF InvalidateBlock
  <2> QED
    BY <2>1 DEF OnlyInvalid
<1>2. SUFFICES ASSUME invalidations' = 0, ~\E b \in Blocks \ {Genesis} : InvalidateBlock(b)
               PROVE  OnlyInvalid'
  BY <1>1 DEF OnlyInvalid
<1>3. /\ invalidations = 0
      /\ failed \subseteq Invalid /\ Marked(db) \subseteq Invalid /\ Marked(dbSafe) \subseteq Invalid
      /\ pc \notin {"invalidating", "disconnected"} /\ back # "disconnected"
  <2>1. invalidations' = invalidations
    BY <1>2 DEF Next, vars, AcceptBlockHeader, AcceptBlock, RejectBlock, ConnectTip, ConnectFails,
       WriteBlockIndex, DisconnectTip, InvalidateStep, InvalidateEnds, FlushBlockFile, Sync, FlushCoins,
       Crash, Restart
  <2> QED
    BY <1>2, <2>1 DEF OnlyInvalid
<1>4. ASSUME NEW b \in Blocks \ {Genesis},
             \/ AcceptBlockHeader(b) \/ AcceptBlock(b) \/ RejectBlock(b) \/ ConnectTip(b)
             \/ ConnectFails(b)
      PROVE  OnlyInvalid'
  BY <1>3, <1>4 DEF AcceptBlockHeader, AcceptBlock, RejectBlock, ConnectTip, ConnectFails, dbVars,
     OnlyInvalid
<1>5. ASSUME NEW b \in Blocks, WriteBlockIndex(b) PROVE OnlyInvalid'
  <2>1. Marked(db') = (Marked(db) \ {b}) \union ({b} \intersect failed)
    BY <1>5, Written DEF WriteBlockIndex, IInv, TypeOK
  <2> QED
    BY <1>3, <1>5, <2>1 DEF WriteBlockIndex, OnlyInvalid
<1>6. ASSUME NEW stop \in BOOLEAN, FlushBlockFile(stop) PROVE OnlyInvalid'
  BY <1>3, <1>6 DEF FlushBlockFile, memVars, OnlyInvalid
<1>7. CASE Sync \/ FlushCoins \/ DisconnectTip
  <2>1. /\ UNCHANGED <<failed, db>> /\ dbSafe' \in {dbSafe, db}
        /\ pc' \notin {"invalidating", "disconnected"} /\ back' # "disconnected"
    <3>1. CASE Sync
      BY <1>3, <3>1 DEF Sync, memVars
    <3>2. CASE FlushCoins
      BY <1>3, <3>2 DEF FlushCoins, memVars, IInv, TypeOK
    <3>3. CASE DisconnectTip
      BY <1>3, <3>3 DEF DisconnectTip, dbVars
    <3> QED
      BY <1>7, <3>1, <3>2, <3>3
  <2> QED
    BY <1>3, <2>1 DEF OnlyInvalid
<1>8. CASE Crash
  <2>1. PICK lost \in SUBSET {b \in Blocks : db[b] # dbSafe[b]} :
            db' = [b \in Blocks |-> IF b \in lost THEN dbSafe[b] ELSE db[b]]
    BY <1>8, CrashDatabase DEF IInv, TypeOK
  <2>2. Marked(db') = (Marked(db) \ lost) \union (Marked(dbSafe) \intersect lost)
    BY <2>1, Mixed DEF IInv, TypeOK
  <2> QED
    BY <1>3, <1>8, <2>2 DEF Crash, OnlyInvalid
<1>9. CASE Restart
  <2>1. pc' \in {"up", "no parent", "no tip", "no candidate"}
    BY <1>9 DEF Restart, LoadResult
  <2> QED
    BY <1>3, <1>9, <2>1 DEF Restart, OnlyInvalid
<1>10. CASE InvalidateStep \/ InvalidateEnds
  BY <1>3, <1>10 DEF InvalidateStep, InvalidateEnds
<1>11. CASE UNCHANGED vars
  BY <1>3, <1>11 DEF vars, OnlyInvalid
<1> QED
  BY <1>2, <1>4, <1>5, <1>6, <1>7, <1>8, <1>9, <1>10, <1>11 DEF Next

LEMMA CandidateNext ==
    ASSUME IInv, OnlyInvalid, Connected, CandidateAtStart, [Next]_vars
    PROVE  CandidateAtStart'
<1> SUFFICES ASSUME invalidations' = 0 PROVE pc' # "no candidate"
  BY DEF CandidateAtStart
<1>1. CASE Restart
  <2>1. PICK ties \in SUBSET {b \in Blocks : ChainWork[b] = ChainWork[coinsDB]} :
            pc' = LoadResult(ties)
    BY <1>1 DEF Restart
  <2>2. Ancestors[coinsDB] \subseteq Stored(db) /\ coinsDB \in Ancestors[coinsDB]
    BY TreeAssumption DEF IInv, TypeOK, CoinsIndexed, Database
  <2>3. coinsDB \notin Marked(db)
    BY <1>1, <2>2 DEF Restart, OnlyInvalid, Connected
  <2>4. coinsDB \in LoadedCandidates(ties)
    BY <2>2, <2>3 DEF LoadedCandidates, Linked
  <2> QED
    BY <2>1, <2>4 DEF LoadResult
<1>2. CASE UNCHANGED vars
  BY <1>2 DEF vars, CandidateAtStart
<1>3. CASE Next /\ ~Restart
  <2>1. pc' # "no candidate" \/ UNCHANGED <<pc, invalidations>>
    BY <1>3 DEF Next, AcceptBlockHeader, AcceptBlock, RejectBlock, ConnectTip, ConnectFails,
       InvalidateBlock, WriteBlockIndex, DisconnectTip, InvalidateStep, InvalidateEnds, FlushBlockFile,
       Sync, FlushCoins, Crash, IInv, TypeOK
  <2> QED
    BY <2>1 DEF CandidateAtStart
<1> QED
  BY <1>1, <1>2, <1>3

\* The assertion of PruneBlockIndexCandidates holds when LoadBlockIndexDB calls it, after
\* any number of crashes, unless invalidateblock was used: the block of the coins itself is
\* linked in the index and not marked, whichever older states the two databases come back to.
THEOREM StartFindsCandidate == Spec => []CandidateAtStart
<1> DEFINE Inv == OnlyInvalid /\ Connected /\ CandidateAtStart
<1>1. IInv /\ Inv /\ [Next]_vars => Inv'
  BY ConnectedNext, OnlyInvalidNext, CandidateNext
<1>2. Init => Inv
  BY CleanInit
<1> QED
  BY <1>1, <1>2, Invariance, PTL DEF Spec
=============================================================================
