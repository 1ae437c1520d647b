------------------------------ MODULE KeyPool ------------------------------
(***************************************************************************)
(* The wallet's pool of keys (src/src/wallet.cpp, CReserveKey) over the    *)
(* wallet's database: keys are generated ahead, reserved by a thread, and  *)
(* kept or returned later; CommitTransaction keeps the key of the change   *)
(* and records the transaction before it is relayed.                       *)
(*                                                                         *)
(* pc is where the thread that holds cs_wallet stands; keeping a key and   *)
(* locking need no cs_wallet and happen at any time, and the node may      *)
(* crash at any time.  Closing a CWalletDB makes a checkpoint of the       *)
(* database environment (CDB::Flush): log has the states of the database   *)
(* since the last one, and a crash brings back any of them.  The database  *)
(* may refuse any write; then TopUpKeyPool and GenerateNewKey throw, and   *)
(* the others go on as if it had been made.                                *)
(*                                                                         *)
(* Keys are numbers in the order of their generation.  A GetKeyFromPool is *)
(* a GetReservedKey and a KeepKey here, a GetOldestKeyPoolTime one and a   *)
(* ReturnKey.  A caller that finds the pool empty falls back on the        *)
(* wallet's default key or fails: it holds nothing of the pool.            *)
(***************************************************************************)
EXTENDS Integers, Sequences, FiniteSets

CONSTANTS
    Threads, NoThread,
    KeyPoolSize,          \* -keypool
    RefillSizes,          \* sizes given to keypoolrefill
    MaxKeys, MaxIndex     \* bounds on the keys generated and on the indexes

ASSUME KeyAssumption ==
    /\ NoThread \notin Threads /\ KeyPoolSize \in Nat /\ RefillSizes \subseteq Nat
    /\ MaxKeys \in Nat /\ MaxIndex \in Nat

VARIABLES
    setKeyPool, log,
    held,                 \* what the CReserveKey of each thread holds
    pc, who, target, n,   \* of the thread in cs_wallet: its place, the size it wants, its index
    newKey, nextKey,      \* the key just generated, and the next one
    crypted, locked,
    used, relayed,        \* history: keys that others know; those in relayed transactions
    clash,                \* history: an index was put into the set while a thread held it
    unerased, unrecorded, \* history: keys whose record the database refused to erase when they
                          \* were kept, and whose transaction it refused to record
    unwritten             \* history: indexes whose record it refused to NewKeyPool

csVars == <<pc, who, target, n>>
keyVars == <<newKey, nextKey>>
lockVars == <<crypted, locked>>
refusals == <<unerased, unrecorded, unwritten>>
history == <<used, relayed, clash, refusals>>
vars == <<setKeyPool, log, held, csVars, keyVars, lockVars, history>>

Keys == 1..MaxKeys
Indexes == 1..MaxIndex
NoKey == 0

\* wallet.dat: the keys, the records of the pool and the change keys of the transactions.
DBs == [keys : SUBSET Keys, pool : [Indexes -> Keys \union {NoKey}], txs : SUBSET Keys]
EmptyDB == [keys |-> {}, pool |-> [i \in Indexes |-> NoKey], txs |-> {}]
db == log[Len(log)]

Nothing == [index |-> 0, key |-> NoKey]
Places == {"free", "fill", "fillWrite", "take", "erase", "renew", "renewWrite", "record", "relay"}

Init ==
    /\ setKeyPool = {} /\ log = <<EmptyDB>>
    /\ held = [t \in Threads |-> Nothing]
    /\ pc = "free" /\ who = NoThread /\ target = 0 /\ n = 0
    /\ newKey = NoKey /\ nextKey = 1
    /\ crypted = FALSE /\ locked = FALSE
    /\ used = {} /\ relayed = {} /\ clash = FALSE
    /\ unerased = {} /\ unrecorded = {} /\ unwritten = {}
-----------------------------------------------------------------------------
(***************************************************************************)
(* Writes.                                                                 *)
(***************************************************************************)
\* A write, and a write whose CWalletDB is closed at once.
Write(d) == log' = Append(log, d)
WriteThrough(d) == log' = <<d>>

\* Where TopUpKeyPool puts the next key.
NextIndex == IF setKeyPool = {} THEN 1 ELSE 1 + CHOOSE i \in setKeyPool : \A j \in setKeyPool : j <= i

\* An index enters the set, and its record the database.
Insert(i) ==
    /\ setKeyPool' = setKeyPool \union {i}
    /\ clash' = (clash \/ \E t \in Threads : held[t].index = i)
WritePool(i) ==
    /\ Write([db EXCEPT !.pool[i] = newKey]) /\ unwritten' = unwritten \ {i} /\ Insert(i)

ErasePool(i) == [db EXCEPT !.pool[i] = NoKey]

\* KeepKey and CommitTransaction ignore what ErasePool returns.
EraseKept(t) ==
    \/ WriteThrough(ErasePool(held[t].index)) /\ UNCHANGED unerased
    \/ WriteThrough(db) /\ unerased' = unerased \union {held[t].key}

\* In a turn of TopUpKeyPool or of NewKeyPool; the key is saved through its own CWalletDB.
GenerateNewKey ==
    /\ pc \in {"fill", "renew"} /\ nextKey <= MaxKeys /\ ~locked
    /\ IF pc = "fill" THEN Cardinality(setKeyPool) < target + 1 ELSE n <= target
    /\ newKey' = nextKey /\ nextKey' = nextKey + 1
    /\ WriteThrough([db EXCEPT !.keys = @ \union {nextKey}])
    /\ pc' = IF pc = "fill" THEN "fillWrite" ELSE "renewWrite"
    /\ UNCHANGED <<setKeyPool, held, who, target, n, lockVars, history>>

\* The wallet was locked meanwhile, or the database refuses the key: AddKey fails, and the
\* exception ends the call.
GenerateFails ==
    /\ pc \in {"fill", "renew"}
    /\ IF pc = "fill" THEN Cardinality(setKeyPool) < target + 1 ELSE n <= target
    /\ WriteThrough(db)
    /\ pc' = "free" /\ who' = NoThread
    /\ UNCHANGED <<setKeyPool, held, target, n, keyVars, lockVars, history>>
-----------------------------------------------------------------------------
(***************************************************************************)
(* TopUpKeyPool and ReserveKeyFromKeyPool.                                 *)
(***************************************************************************)
\* keypoolrefill, and walletpassphrase after it has unlocked.
Refill(size) ==
    /\ pc = "free" /\ ~locked
    /\ pc' = "fill" /\ target' = size
    /\ UNCHANGED <<setKeyPool, log, held, who, n, keyVars, lockVars, history>>

GetReservedKey(t) ==
    /\ pc = "free" /\ held[t] = Nothing
    /\ pc' = (IF locked THEN "take" ELSE "fill") /\ who' = t /\ target' = KeyPoolSize
    /\ UNCHANGED <<setKeyPool, log, held, n, keyVars, lockVars, history>>

FillWrite ==
    /\ pc = "fillWrite" /\ NextIndex \in Indexes /\ WritePool(NextIndex)
    /\ pc' = "fill"
    /\ UNCHANGED <<held, who, target, n, keyVars, lockVars, used, relayed, unerased, unrecorded>>

\* "writing generated key failed": the exception ends the call.
FillRefused ==
    /\ pc = "fillWrite" /\ NextIndex \in Indexes
    /\ WriteThrough(db)
    /\ pc' = "free" /\ who' = NoThread
    /\ UNCHANGED <<setKeyPool, held, target, n, keyVars, lockVars, history>>

FillDone ==
    /\ pc = "fill" /\ Cardinality(setKeyPool) >= target + 1
    /\ WriteThrough(db)
    /\ pc' = IF who = NoThread THEN "free" ELSE "take"
    /\ UNCHANGED <<setKeyPool, held, who, target, n, keyVars, lockVars, history>>

\* Mutant: the index stays in the set.
TakeAndLeave ==
    /\ pc = "take" /\ pc' = "free" /\ who' = NoThread
    /\ \/ setKeyPool = {} /\ UNCHANGED <<setKeyPool, held>>
       \/ \E i \in setKeyPool :
            /\ \A j \in setKeyPool : i <= j
            /\ held' = [held EXCEPT ![who] = [index |-> i, key |-> db.pool[i]]]
            /\ UNCHANGED setKeyPool
    /\ UNCHANGED <<log, target, n, keyVars, lockVars, history>>

\* The oldest key, if there is one.  When ReadPool or HaveKey fails, the exception leaves the
\* thread without a key; a CReserveKey still has the index, which its destructor returns, and
\* the other callers lose it.
Take ==
    /\ pc = "take" /\ pc' = "free" /\ who' = NoThread
    /\ \/ setKeyPool = {} /\ UNCHANGED <<setKeyPool, held>>
       \/ \E i \in setKeyPool :
            /\ \A j \in setKeyPool : i <= j
            /\ setKeyPool' = setKeyPool \ {i}
            /\ \/ /\ db.pool[i] \in db.keys
                  /\ held' = [held EXCEPT ![who] = [index |-> i, key |-> db.pool[i]]]
               \/ /\ db.pool[i] \notin db.keys
                  /\ held' = [held EXCEPT ![who] = [index |-> i, key |-> NoKey]] \/ held' = held
    /\ UNCHANGED <<log, target, n, keyVars, lockVars, history>>
-----------------------------------------------------------------------------
(***************************************************************************)
(* CReserveKey: a reserved key is kept or returned.                        *)
(***************************************************************************)
\* Mutant: the record stays.
KeepKeyInPool(t) ==
    /\ held[t].key # NoKey /\ ~(pc \in {"record", "relay"} /\ who = t)
    /\ WriteThrough(db)
    /\ used' = used \union {held[t].key} /\ held' = [held EXCEPT ![t] = Nothing]
    /\ UNCHANGED <<setKeyPool, csVars, keyVars, lockVars, relayed, clash, refusals>>

\* The record is erased, and then the key is shown to the user or put into a block.
KeepKey(t) ==
    /\ held[t].key # NoKey /\ ~(pc \in {"record", "relay"} /\ who = t)
    /\ EraseKept(t)
    /\ used' = used \union {held[t].key} /\ held' = [held EXCEPT ![t] = Nothing]
    /\ UNCHANGED <<setKeyPool, csVars, keyVars, lockVars, relayed, clash, unrecorded, unwritten>>

ReturnKey(t) ==
    /\ pc = "free" /\ held[t] # Nothing
    /\ setKeyPool' = setKeyPool \union {held[t].index} /\ held' = [held EXCEPT ![t] = Nothing]
    /\ UNCHANGED <<log, csVars, keyVars, lockVars, history>>

\* CommitTransaction begins with KeepKey ...
CommitTransaction(t) ==
    /\ pc = "free" /\ held[t].key # NoKey
    /\ EraseKept(t)
    /\ pc' = "record" /\ who' = t
    /\ UNCHANGED <<setKeyPool, held, target, n, keyVars, lockVars, used, relayed, clash,
                   unrecorded, unwritten>>

\* Mutant: relayed before the database is closed.
AddToWalletRelays ==
    /\ pc = "record"
    /\ Write([db EXCEPT !.txs = @ \union {held[who].key}])
    /\ pc' = "relay" /\ relayed' = relayed \union {held[who].key}
    /\ UNCHANGED <<setKeyPool, held, who, target, n, keyVars, lockVars, used, clash, refusals>>

\* ... then the transaction is recorded; CommitTransaction ignores a refusal ...
AddToWallet ==
    /\ pc = "record"
    /\ \/ Write([db EXCEPT !.txs = @ \union {held[who].key}]) /\ UNCHANGED unrecorded
       \/ UNCHANGED log /\ unrecorded' = unrecorded \union {held[who].key}
    /\ pc' = "relay"
    /\ UNCHANGED <<setKeyPool, held, who, target, n, keyVars, lockVars, used, relayed, clash,
                   unerased, unwritten>>

\* ... the database is closed, and the transaction is relayed unless the memory pool
\* refuses it.
Relay ==
    /\ pc = "relay"
    /\ WriteThrough(db)
    /\ \/ used' = used \union {held[who].key} /\ relayed' = relayed \union {held[who].key}
       \/ UNCHANGED <<used, relayed>>
    /\ held' = [held EXCEPT ![who] = Nothing] /\ pc' = "free" /\ who' = NoThread
    /\ UNCHANGED <<setKeyPool, target, n, keyVars, lockVars, clash, refusals>>
-----------------------------------------------------------------------------
(***************************************************************************)
(* EncryptWallet, from its NewKeyPool on; locking.                         *)
(***************************************************************************)
EncryptWallet ==
    /\ pc = "free" /\ ~crypted
    /\ crypted' = TRUE /\ pc' = "erase" /\ target' = KeyPoolSize /\ n' = 1
    /\ UNCHANGED <<setKeyPool, log, held, who, keyVars, locked, history>>

\* The loop of ErasePool in order, whatever it returns; nobody sees the set before it is
\* cleared.
EraseOld ==
    /\ pc = "erase"
    /\ \/ setKeyPool = {} /\ pc' = "renew" /\ UNCHANGED <<setKeyPool, log>>
       \/ \E i \in setKeyPool :
            /\ \A j \in setKeyPool : i <= j
            /\ setKeyPool' = setKeyPool \ {i} /\ pc' = pc
            /\ Write(ErasePool(i)) \/ UNCHANGED log
    /\ UNCHANGED <<held, who, target, n, keyVars, lockVars, history>>

\* The index enters the set whether or not its record is written.
RenewWrite ==
    /\ pc = "renewWrite" /\ n \in Indexes
    /\ \/ WritePool(n)
       \/ UNCHANGED log /\ unwritten' = unwritten \union {n} /\ Insert(n)
    /\ pc' = "renew" /\ n' = n + 1
    /\ UNCHANGED <<held, who, target, keyVars, lockVars, used, relayed, unerased, unrecorded>>

RenewDone ==
    /\ pc = "renew" /\ n > target
    /\ WriteThrough(db) /\ pc' = "free" /\ locked' = TRUE
    /\ UNCHANGED <<setKeyPool, held, who, target, n, keyVars, crypted, history>>

LockWallet ==
    /\ crypted /\ ~locked /\ locked' = TRUE
    /\ UNCHANGED <<setKeyPool, log, held, csVars, keyVars, crypted, history>>

Unlock ==
    /\ pc = "free" /\ crypted /\ locked /\ locked' = FALSE
    /\ UNCHANGED <<setKeyPool, log, held, csVars, keyVars, crypted, history>>

\* LoadWallet from what a crash has left.
Restart ==
    \E m \in DOMAIN log :
        /\ WriteThrough(log[m]) /\ setKeyPool' = {i \in Indexes : log[m].pool[i] # NoKey}
        /\ held' = [t \in Threads |-> Nothing]
        /\ pc' = "free" /\ who' = NoThread /\ target' = 0 /\ n' = 0
        /\ locked' = crypted /\ unwritten' = {}
        /\ UNCHANGED <<keyVars, crypted, used, relayed, clash, unerased, unrecorded>>

Next ==
    \/ \E size \in RefillSizes : Refill(size)
    \/ GenerateNewKey \/ GenerateFails \/ FillWrite \/ FillRefused \/ FillDone \/ Take
    \/ \E t \in Threads : GetReservedKey(t) \/ KeepKey(t) \/ ReturnKey(t) \/ CommitTransaction(t)
    \/ AddToWallet \/ Relay
    \/ EncryptWallet \/ EraseOld \/ RenewWrite \/ RenewDone \/ LockWallet \/ Unlock \/ Restart

Spec == Init /\ [][Next]_vars
-----------------------------------------------------------------------------
(***************************************************************************)
(* Properties.                                                             *)
(***************************************************************************)
TypeOK ==
    /\ setKeyPool \subseteq Indexes /\ log \in Seq(DBs) /\ log # <<>>
    /\ held \in [Threads -> [index : Indexes, key : Keys \union {NoKey}] \union {Nothing}]
    /\ pc \in Places /\ who \in Threads \union {NoThread} /\ target \in Nat /\ n \in Nat
    /\ newKey \in Keys \union {NoKey} /\ nextKey \in 1..(MaxKeys + 1)
    /\ \A m \in DOMAIN log : \A key \in log[m].keys : key < nextKey
    /\ crypted \in BOOLEAN /\ locked \in BOOLEAN
    /\ used \subseteq Keys /\ relayed \subseteq Keys /\ clash \in BOOLEAN
    /\ unerased \subseteq Keys /\ unrecorded \subseteq Keys /\ unwritten \subseteq Indexes

\* Whatever a crash brings back, the private key of every record of the pool is there: the
\* exception "unknown key in key pool" is never thrown.
PoolKeysKnown ==
    \A m \in DOMAIN log : \A i \in Indexes : log[m].pool[i] # NoKey => log[m].pool[i] \in log[m].keys

\* "Take key pair from key pool so it won't be used again": whatever a crash brings back, a
\* key that others know is in the wallet, and no longer in the pool unless the database
\* refused to erase its record.
UsedOnce ==
    \A key \in used : \A m \in DOMAIN log :
        /\ key \in log[m].keys
        /\ key \notin unerased => \A i \in Indexes : log[m].pool[i] # key

\* Both: the pool that a crash brings back has only keys that are known and, but for those
\* that it would not give up, unused.
PoolSound == PoolKeysKnown /\ UsedOnce

\* As long as no index is given away twice, no two threads hold the same key, and none holds
\* a key that is still in the pool or, unless its record could not be erased, known to others.
HandsApart ==
    ~clash => \A t \in Threads : held[t] # Nothing =>
        /\ held[t].index \notin setKeyPool /\ held[t].key \notin used \ unerased
        /\ \A u \in Threads \ {t} : held[u] # Nothing =>
                held[u].index # held[t].index /\ (held[t].key # NoKey => held[u].key # held[t].key)

\* As long as no index is given away twice, every index in setKeyPool has its record, unless
\* the database refused it to NewKeyPool: the exception "read failed" is thrown for no other.
PoolReadable == ~clash => \A i \in setKeyPool \ unwritten : db.pool[i] # NoKey

\* Both: a reserved key belongs to one thread, and the others are in the pool.
ReservedApart == HandsApart /\ PoolReadable

\* A transaction is relayed only when no crash can take it from the wallet any more, unless
\* the database refused to record it: AddToWallet then returns false, which CommitTransaction
\* ignores.
RelayedRecorded == \A key \in relayed \ unrecorded : \A m \in DOMAIN log : key \in log[m].txs

\* "The transaction has already been signed and recorded" when it is relayed.  It does not
\* hold (README, section 6).
SignedAndRecorded == \A key \in relayed : \A m \in DOMAIN log : key \in log[m].txs

\* "so it won't be used again", whatever the database refuses.  It does not hold (README,
\* section 6).
NeverUsedAgain ==
    \A key \in used : \A m \in DOMAIN log : \A i \in Indexes : log[m].pool[i] # key
=============================================================================
