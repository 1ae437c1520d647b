--------------------------- MODULE KeyPoolProofs ---------------------------
(***************************************************************************)
(* The wallet's key pool, for any number of threads, keys and crashes.     *)
(*                                                                         *)
(* The inductive invariant says of every state of the database that a      *)
(* crash can bring back that it is good (DBGood), and of the present one   *)
(* how it relates to the keys in the hands of the threads: a key that is   *)
(* held is in the pool at most at the index it was taken from, which is    *)
(* why erasing that index is enough to use the key only once, and a key    *)
(* that was just generated is nowhere else.  What the database refused to  *)
(* erase, to record or to write is remembered, and excepted by name.       *)
(***************************************************************************)
EXTENDS KeyPool, TLAPS

\* The used keys whose records were erased, and the relayed transactions that were recorded.
Given == used \ unerased
Told == relayed \ unrecorded

\* A state of the database: the keys it has are below nk, and those of us are among them; the
\* pool has only known keys, each at one index, and none of out; the transactions of re are
\* there.
DBGood(d, nk, us, out, re) ==
    /\ d \in DBs
    /\ \A key \in d.keys : key < nk
    /\ \A i \in Indexes : d.pool[i] # NoKey => d.pool[i] \in d.keys
    /\ \A i, j \in Indexes : d.pool[i] = d.pool[j] /\ d.pool[i] # NoKey => i = j
    /\ us \subseteq d.keys /\ out \subseteq us
    /\ \A key \in out : \A i \in Indexes : d.pool[i] # key
    /\ re \subseteq d.txs

LogGood == \A m \in DOMAIN log : DBGood(log[m], nextKey, used, Given, Told)

Hand == [index : Indexes, key : Keys \union {NoKey}] \union {Nothing}

\* TypeOK without the bound on the keys in the log, which is in LogGood.
Frame ==
    /\ setKeyPool \subseteq Indexes /\ log \in Seq(DBs) /\ log # <<>>
    /\ held \in [Threads -> Hand]
    /\ pc \in Places /\ who \in Threads \union {NoThread} /\ target \in Nat /\ n \in Nat
    /\ newKey \in Keys \union {NoKey} /\ nextKey \in 1..(MaxKeys + 1)
    /\ crypted \in BOOLEAN /\ locked \in BOOLEAN
    /\ used \subseteq Keys /\ relayed \subseteq Keys /\ clash \in BOOLEAN
    /\ unerased \subseteq Keys /\ unrecorded \subseteq Keys /\ unwritten \subseteq Indexes

\* A key that a thread holds, in a database d, is known and at no other index.
HeldGood(d) ==
    \A t \in Threads : held[t].key # NoKey =>
        /\ held[t].key \in d.keys
        /\ \A i \in Indexes : d.pool[i] = held[t].key => i = held[t].index

\* Between its generation and its record the new key is nowhere else.
NewGood(d) ==
    pc \in {"fillWrite", "renewWrite"} =>
        /\ newKey \in d.keys /\ newKey \notin used
        /\ \A i \in Indexes : d.pool[i] # newKey
        /\ \A t \in Threads : held[t].key # newKey

\* In CommitTransaction the change key has left the pool, and the transaction is recorded
\* before it is relayed, unless the database refused it.
Committing(t) == pc \in {"record", "relay"} /\ who = t
CommitGood(d) ==
    pc \in {"record", "relay"} =>
        /\ who \in Threads /\ held[who].key # NoKey
        /\ held[who].key \notin unerased => \A i \in Indexes : d.pool[i] # held[who].key
        /\ pc = "relay" /\ held[who].key \notin unrecorded => held[who].key \in d.txs

\* As long as no index is written while it is held, the record of a held key is its own, and
\* an index without a record is one whose record the database refused.
ApartGood(d) ==
    ~clash =>
        /\ \A i \in setKeyPool \ unwritten : d.pool[i] # NoKey
        /\ \A t \in Threads : held[t] # Nothing =>
            /\ held[t].index \notin setKeyPool /\ held[t].key \notin Given
            /\ held[t].key = NoKey => held[t].index \in unwritten
            /\ held[t].key # NoKey /\ ~Committing(t) => d.pool[held[t].index] = held[t].key
            /\ \A u \in Threads \ {t} : held[u] # Nothing =>
                    held[u].index # held[t].index /\ (held[t].key # NoKey => held[u].key # held[t].key)

Hands(d) == HeldGood(d) /\ NewGood(d) /\ CommitGood(d) /\ ApartGood(d)

IInv == Frame /\ LogGood /\ Hands(db)

USE KeyAssumption
-----------------------------------------------------------------------------
(***************************************************************************)
(* What a write does to one state of the database.                         *)
(***************************************************************************)
\* The latest state is one of the log.
LEMMA Latest ==
    ASSUME Frame
    PROVE  /\ Len(log) \in DOMAIN log /\ db \in DBs
           /\ LogGood => DBGood(db, nextKey, used, Given, Told)
<1>1. Len(log) \in 1..Len(log)
  BY DEF Frame
<1> QED
  BY <1>1 DEF Frame, db, LogGood

\* A write leaves good states when the new one is good.
LEMMA Written ==
    ASSUME Frame, NEW d \in DBs, Write(d) \/ WriteThrough(d)
    PROVE  /\ log' \in Seq(DBs) /\ log' # <<>> /\ db' = d
           /\ /\ DBGood(d, nextKey', used', Given', Told')
              /\ \A m \in DOMAIN log : DBGood(log[m], nextKey', used', Given', Told')
              => LogGood'
<1>1. CASE Write(d)
  <2>1. log' = Append(log, d) /\ log \in Seq(DBs)
    BY <1>1 DEF Write, Frame
  <2>2. /\ Len(log') = Len(log) + 1 /\ DOMAIN log' = 1..(Len(log) + 1)
        /\ \A m \in 1..Len(log) : log'[m] = log[m]
        /\ log'[Len(log) + 1] = d /\ log' \in Seq(DBs) /\ DOMAIN log = 1..Len(log)
    BY <2>1
  <2>3. ASSUME NEW m \in DOMAIN log', m # Len(log) + 1 PROVE m \in DOMAIN log /\ log'[m] = log[m]
    BY <2>2, <2>3
  <2> QED
    BY <2>2, <2>3 DEF db, LogGood
<1>2. CASE WriteThrough(d)
  BY <1>2 DEF WriteThrough, db, LogGood
<1> QED
  BY <1>1, <1>2

\* ErasePool.
LEMMA GoodErase ==
    ASSUME NEW d, NEW nk, NEW us, NEW out, NEW re, DBGood(d, nk, us, out, re), NEW i \in Indexes
    PROVE  DBGood([d EXCEPT !.pool[i] = NoKey], nk, us, out, re)
<1> DEFINE e == [d EXCEPT !.pool[i] = NoKey]
<1>1. d \in DBs
  BY DEF DBGood
<1>2. /\ e \in DBs /\ e.keys = d.keys /\ e.txs = d.txs
      /\ \A j \in Indexes : e.pool[j] = IF j = i THEN NoKey ELSE d.pool[j]
  BY <1>1 DEF DBs, NoKey
<1> HIDE DEF e
<1>3. \A key \in out : key # NoKey
  BY <1>1 DEF DBGood, DBs, NoKey, Keys
<1> QED
  BY <1>2, <1>3 DEF DBGood, e

\* A key is generated.
LEMMA GoodKey ==
    ASSUME NEW d, NEW nk \in Keys, NEW us, NEW out, NEW re, DBGood(d, nk, us, out, re)
    PROVE  DBGood([d EXCEPT !.keys = @ \union {nk}], nk + 1, us, out, re)
<1> DEFINE e == [d EXCEPT !.keys = @ \union {nk}]
<1>1. d \in DBs
  BY DEF DBGood
<1>2. e \in DBs /\ e.keys = d.keys \union {nk} /\ e.txs = d.txs /\ e.pool = d.pool
  BY <1>1 DEF DBs
<1> HIDE DEF e
<1>3. \A key \in e.keys : key < nk + 1
  BY <1>1, <1>2 DEF DBGood, DBs, Keys
<1>4. DBGood(e, nk + 1, us, out, re)
  BY <1>2, <1>3 DEF DBGood
<1> QED
  BY <1>4 DEF e

LEMMA GoodLater ==
    ASSUME NEW d, NEW nk \in Keys, NEW us, NEW out, NEW re, DBGood(d, nk, us, out, re)
    PROVE  DBGood(d, nk + 1, us, out, re)
<1>1. \A key \in d.keys : key < nk + 1
  BY DEF DBGood, DBs, Keys
<1> QED
  BY <1>1 DEF DBGood

\* WritePool of a key that is known and nowhere else.
LEMMA GoodPool ==
    ASSUME NEW d, NEW nk, NEW us, NEW out, NEW re, DBGood(d, nk, us, out, re), NEW i \in Indexes,
           NEW key \in d.keys, key \notin out, \A j \in Indexes : d.pool[j] # key
    PROVE  DBGood([d EXCEPT !.pool[i] = key], nk, us, out, re)
<1> DEFINE e == [d EXCEPT !.pool[i] = key]
<1>1. d \in DBs /\ key \in Keys
  BY DEF DBGood, DBs
<1>2. /\ e \in DBs /\ e.keys = d.keys /\ e.txs = d.txs
      /\ \A j \in Indexes : e.pool[j] = IF j = i THEN key ELSE d.pool[j]
  BY <1>1 DEF DBs
<1> HIDE DEF e
<1>3. DBGood(e, nk, us, out, re)
  BY <1>2 DEF DBGood
<1> QED
  BY <1>3 DEF e

\* WriteTx.
LEMMA GoodTx ==
    ASSUME NEW d, NEW nk, NEW us, NEW out, NEW re, DBGood(d, nk, us, out, re), NEW key \in Keys
    PROVE  DBGood([d EXCEPT !.txs = @ \union {key}], nk, us, out, re)
<1> DEFINE e == [d EXCEPT !.txs = @ \union {key}]
<1>1. d \in DBs
  BY DEF DBGood
<1>2. e \in DBs /\ e.keys = d.keys /\ e.txs = d.txs \union {key} /\ e.pool = d.pool
  BY <1>1 DEF DBs
<1> HIDE DEF e
<1>3. DBGood(e, nk, us, out, re)
  BY <1>2 DEF DBGood
<1> QED
  BY <1>3 DEF e

\* Keys that are in the wallet become known to others, those of out2 being in no record of the
\* pool, and transactions that are recorded are relayed.
LEMMA GoodUse ==
    ASSUME NEW d, NEW nk, NEW us, NEW out, NEW re, DBGood(d, nk, us, out, re),
           NEW us2, NEW out2, NEW re2, us2 \subseteq d.keys, out2 \subseteq us2, re2 \subseteq d.txs,
           \A key \in out2 : key \in out \/ \A j \in Indexes : d.pool[j] # key
    PROVE  DBGood(d, nk, us2, out2, re2)
BY DEF DBGood
-----------------------------------------------------------------------------
(***************************************************************************)
(* One lemma per group of actions.                                         *)
(***************************************************************************)
\* The steps that neither write to the database nor move a key.
LEMMA QuietStep ==
    ASSUME IInv, Frame', log' = log \/ WriteThrough(db),
           UNCHANGED <<setKeyPool, held, newKey, nextKey, used, relayed, clash,
                       unerased, unrecorded, unwritten>>,
           \/ pc' = pc /\ who' = who
           \/ pc \notin {"record", "relay"} /\ pc' \notin {"fillWrite", "renewWrite", "record", "relay"}
    PROVE  IInv'
<1>1. db \in DBs /\ DBGood(db, nextKey, used, Given, Told)
  BY Latest DEF IInv
<1>2. db' = db /\ LogGood'
  <2>1. CASE log' = log
    BY <2>1 DEF IInv, db, LogGood, Given, Told
  <2>2. CASE WriteThrough(db)
    BY <2>2, <1>1, Written DEF IInv, LogGood, Given, Told
  <2> QED
    BY <2>1, <2>2
<1>3. Hands(db)'
  <2>1. CASE pc' = pc /\ who' = who
    BY <1>2, <2>1 DEF IInv, Hands, HeldGood, NewGood, CommitGood, ApartGood, Committing, Given
  <2>2. CASE pc \notin {"record", "relay"} /\ pc' \notin {"fillWrite", "renewWrite", "record", "relay"}
    BY <1>2, <2>2 DEF IInv, Hands, HeldGood, NewGood, CommitGood, ApartGood, Committing, Given
  <2> QED
    BY <2>1, <2>2
<1> QED
  BY <1>2, <1>3 DEF IInv

LEMMA QuietActions ==
    ASSUME IInv,
           \/ \E size \in RefillSizes : Refill(size)
           \/ \E t \in Threads : GetReservedKey(t)
           \/ GenerateFails \/ FillRefused \/ FillDone
           \/ EncryptWallet \/ RenewDone \/ LockWallet \/ Unlock
    PROVE  IInv'
<1>1. db \in DBs
  BY Latest DEF IInv
<1>2. log \in Seq(DBs) /\ <<db>> \in Seq(DBs) /\ <<db>> # <<>>
  BY <1>1 DEF IInv, Frame
<1>3. CASE \E size \in RefillSizes : Refill(size)
  <2>1. Frame'
    BY <1>2, <1>3 DEF IInv, Frame, Refill, Places, keyVars, lockVars, history, refusals
  <2> QED
    BY <1>3, <2>1, QuietStep DEF Refill, keyVars, history, refusals
<1>4. CASE \E t \in Threads : GetReservedKey(t)
  <2>1. Frame'
    BY <1>2, <1>4 DEF IInv, Frame, GetReservedKey, Places, keyVars, lockVars, history, refusals
  <2> QED
    BY <1>4, <2>1, QuietStep DEF GetReservedKey, keyVars, history, refusals
<1>5. CASE GenerateFails
  <2>1. Frame'
    BY <1>2, <1>5 DEF IInv, Frame, GenerateFails, WriteThrough, Places, keyVars, lockVars, history, refusals
  <2> QED
    BY <1>5, <2>1, QuietStep DEF GenerateFails, keyVars, history, refusals
<1>6. CASE FillDone
  <2>1. Frame'
    BY <1>2, <1>6 DEF IInv, Frame, FillDone, WriteThrough, Places, keyVars, lockVars, history, refusals
  <2> QED
    BY <1>6, <2>1, QuietStep DEF FillDone, keyVars, history, refusals
<1>7. CASE EncryptWallet
  <2>1. Frame'
    BY <1>2, <1>7 DEF IInv, Frame, EncryptWallet, Places, keyVars, history, refusals
  <2> QED
    BY <1>7, <2>1, QuietStep DEF EncryptWallet, keyVars, history, refusals
<1>8. CASE RenewDone
  <2>1. Frame'
    BY <1>2, <1>8 DEF IInv, Frame, RenewDone, WriteThrough, Places, keyVars, history, refusals
  <2> QED
    BY <1>8, <2>1, QuietStep DEF RenewDone, keyVars, history, refusals
<1>9. CASE LockWallet \/ Unlock
  <2>1. Frame'
    BY <1>2, <1>9 DEF IInv, Frame, LockWallet, Unlock, csVars, keyVars, history, refusals
  <2> QED
    BY <1>9, <2>1, QuietStep DEF LockWallet, Unlock, csVars, keyVars, history, refusals
<1>10. CASE FillRefused
  <2>1. Frame'
    BY <1>2, <1>10 DEF IInv, Frame, FillRefused, WriteThrough, Places, keyVars, lockVars, history, refusals
  <2> QED
    BY <1>10, <2>1, QuietStep DEF FillRefused, keyVars, history, refusals
<1> QED
  BY <1>3, <1>4, <1>5, <1>6, <1>7, <1>8, <1>9, <1>10

\* A new key is known to nobody: every key of the database is older.
LEMMA GenerateStep ==
    ASSUME IInv, GenerateNewKey
    PROVE  IInv'
<1>0. PICK e : e = [db EXCEPT !.keys = @ \union {nextKey}]
  OBVIOUS
<1>1. db \in DBs /\ DBGood(db, nextKey, used, Given, Told) /\ nextKey \in Keys
  BY Latest DEF IInv, Frame, GenerateNewKey, Keys
<1>2. DBGood(e, nextKey + 1, used, Given, Told)
  BY <1>0, <1>1, GoodKey
<1>3. /\ e \in DBs /\ e.keys = db.keys \union {nextKey} /\ e.pool = db.pool /\ e.txs = db.txs
  BY <1>0, <1>1 DEF DBs
<1>4. WriteThrough(e) /\ nextKey' = nextKey + 1 /\ newKey' = nextKey
  BY <1>0 DEF GenerateNewKey
<1>5. /\ UNCHANGED <<setKeyPool, held, who, used, relayed, clash, unerased, unrecorded, unwritten>>
      /\ pc' \in {"fillWrite", "renewWrite"} /\ Given' = Given /\ Told' = Told
  BY DEF GenerateNewKey, history, refusals, Given, Told
<1>6. \A m \in DOMAIN log : DBGood(log[m], nextKey + 1, used, Given, Told)
  BY <1>1, GoodLater DEF IInv, LogGood
<1>7. log' \in Seq(DBs) /\ log' # <<>> /\ db' = e /\ LogGood'
  BY <1>2, <1>3, <1>4, <1>5, <1>6, Written DEF IInv
<1>8. Frame'
  BY <1>1, <1>4, <1>7 DEF IInv, Frame, GenerateNewKey, Places, Keys, lockVars, history, refusals
<1>9. /\ nextKey \notin db.keys /\ nextKey # NoKey
      /\ \A i \in Indexes : db.pool[i] # nextKey
      /\ nextKey \notin used
  BY <1>1 DEF DBGood, Keys, NoKey, DBs
<1>10. \A t \in Threads : held[t].key # nextKey
  BY <1>9 DEF IInv, Hands, HeldGood
<1>11. pc \notin {"record", "relay"} /\ pc' \notin {"record", "relay"}
  BY <1>5 DEF GenerateNewKey
<1>12. Hands(e)'
  <2>1. HeldGood(e)'
    BY <1>3, <1>5 DEF IInv, Hands, HeldGood
  <2>2. NewGood(e)'
    BY <1>3, <1>4, <1>5, <1>9, <1>10 DEF NewGood
  <2>3. CommitGood(e)'
    BY <1>11 DEF CommitGood
  <2>4. ApartGood(e)'
    BY <1>3, <1>5, <1>11 DEF IInv, Hands, ApartGood, Committing
  <2> QED
    BY <2>1, <2>2, <2>3, <2>4 DEF Hands
<1>13. Hands(db)'
  BY <1>7, <1>12 DEF Hands, HeldGood, NewGood, CommitGood, ApartGood
<1> QED
  BY <1>7, <1>8, <1>13 DEF IInv

\* A record is written for the new key; unless the index is held, it is nobody's.
LEMMA WriteStep ==
    ASSUME IInv, Frame', NEW i \in Indexes, WritePool(i), pc \in {"fillWrite", "renewWrite"},
           pc' \in {"fill", "renew"},
           UNCHANGED <<held, keyVars, used, relayed, unerased, unrecorded>>
    PROVE  IInv'
<1>0. PICK e : e = [db EXCEPT !.pool[i] = newKey]
  OBVIOUS
<1>1. db \in DBs /\ DBGood(db, nextKey, used, Given, Told)
  BY Latest DEF IInv
<1>2. /\ newKey \in db.keys /\ newKey \notin used
      /\ \A j \in Indexes : db.pool[j] # newKey
      /\ \A t \in Threads : held[t].key # newKey
  BY DEF IInv, Hands, NewGood
<1>3. DBGood(e, nextKey, used, Given, Told)
  <2>1. newKey \notin Given
    BY <1>2 DEF Given
  <2> QED
    BY <1>0, <1>1, <1>2, <2>1, GoodPool
<1>4. /\ e \in DBs /\ e.keys = db.keys
      /\ \A j \in Indexes : e.pool[j] = IF j = i THEN newKey ELSE db.pool[j]
  BY <1>0, <1>1, <1>2 DEF DBs
<1>5. /\ Write(e) /\ setKeyPool' = setKeyPool \union {i} /\ unwritten' = unwritten \ {i}
      /\ clash' = (clash \/ \E t \in Threads : held[t].index = i)
  BY <1>0 DEF WritePool, Insert
<1>6. UNCHANGED <<held, newKey, nextKey, used, relayed>> /\ Given' = Given /\ Told' = Told
  BY DEF keyVars, Given, Told
<1>7. db' = e /\ LogGood'
  BY <1>3, <1>4, <1>5, <1>6, Written DEF IInv, LogGood
<1>8. Hands(e)'
  <2>1. HeldGood(e)'
    BY <1>2, <1>4, <1>6 DEF IInv, Hands, HeldGood
  <2>2. NewGood(e)' /\ CommitGood(e)'
    BY DEF NewGood, CommitGood
  <2>3. ApartGood(e)'
    <3>1. SUFFICES ASSUME ~clash' PROVE ApartGood(e)'
      BY DEF ApartGood
    <3>2. ~clash /\ \A t \in Threads : held[t].index # i
      BY <1>5, <3>1
    <3>3. newKey # NoKey
      BY <1>1, <1>2 DEF DBs, Keys, NoKey
    <3>4. \A t \in Threads : held[t] # Nothing => held[t].index \in Indexes
      BY DEF IInv, Frame, Hand
    <3>5. setKeyPool \subseteq Indexes
      BY DEF IInv, Frame
    <3> QED
      BY <1>4, <1>5, <1>6, <3>2, <3>3, <3>4, <3>5 DEF IInv, Hands, ApartGood, Committing
  <2> QED
    BY <2>1, <2>2, <2>3 DEF Hands
<1> QED
  BY <1>7, <1>8 DEF IInv

\* NewKeyPool goes on without the record: the index is in the set, and is remembered.
LEMMA UnwrittenStep ==
    ASSUME IInv, Frame', NEW i \in Indexes, UNCHANGED log, unwritten' = unwritten \union {i}, Insert(i),
           pc \in {"fillWrite", "renewWrite"}, pc' \in {"fill", "renew"},
           UNCHANGED <<held, keyVars, used, relayed, unerased, unrecorded>>
    PROVE  IInv'
<1>1. /\ UNCHANGED <<held, newKey, nextKey, used, relayed>> /\ Given' = Given /\ Told' = Told /\ db' = db
      /\ setKeyPool' = setKeyPool \union {i}
      /\ clash' = (clash \/ \E t \in Threads : held[t].index = i)
  BY DEF Insert, keyVars, Given, Told, db
<1>2. LogGood'
  BY <1>1 DEF IInv, LogGood
<1>3. HeldGood(db)' /\ NewGood(db)' /\ CommitGood(db)'
  BY <1>1 DEF IInv, Hands, HeldGood, NewGood, CommitGood
<1>4. ApartGood(db)'
  <2>1. SUFFICES ASSUME ~clash' PROVE ApartGood(db)'
    BY DEF ApartGood
  <2>2. ~clash /\ \A t \in Threads : held[t].index # i
    BY <1>1, <2>1
  <2> QED
    BY <1>1, <2>2 DEF IInv, Hands, ApartGood, Committing
<1> QED
  BY <1>2, <1>3, <1>4 DEF IInv, Hands

LEMMA WriteActions ==
    ASSUME IInv, FillWrite \/ RenewWrite
    PROVE  IInv'
<1>1. CASE FillWrite
  <2>1. db \in DBs /\ newKey \in Keys
    BY <1>1, Latest DEF IInv, Frame, Hands, NewGood, FillWrite, DBs
  <2>2. [db EXCEPT !.pool[NextIndex] = newKey] \in DBs
    BY <2>1 DEF DBs
  <2>3. log' \in Seq(DBs) /\ log' # <<>>
    BY <1>1, <2>2, Written DEF FillWrite, WritePool, IInv
  <2>4. Frame'
    BY <1>1, <2>3 DEF IInv, Frame, FillWrite, WritePool, Insert, Places, keyVars, lockVars
  <2> QED
    BY <1>1, <2>4, WriteStep DEF FillWrite
<1>2. CASE RenewWrite
  <2>1. db \in DBs /\ newKey \in Keys
    BY <1>2, Latest DEF IInv, Frame, Hands, NewGood, RenewWrite, DBs
  <2>2. [db EXCEPT !.pool[n] = newKey] \in DBs
    BY <2>1 DEF DBs
  <2>3. CASE WritePool(n)
    <3>1. log' \in Seq(DBs) /\ log' # <<>>
      BY <2>2, <2>3, Written DEF WritePool, IInv
    <3>2. Frame'
      BY <1>2, <2>3, <3>1 DEF IInv, Frame, RenewWrite, WritePool, Insert, Places, keyVars, lockVars
    <3> QED
      BY <1>2, <2>3, <3>2, WriteStep DEF RenewWrite
  <2>4. CASE UNCHANGED log /\ unwritten' = unwritten \union {n} /\ Insert(n)
    <3>1. Frame'
      BY <1>2, <2>4 DEF IInv, Frame, RenewWrite, Insert, Places, keyVars, lockVars
    <3> QED
      BY <1>2, <2>4, <3>1, UnwrittenStep DEF RenewWrite
  <2> QED
    BY <1>2, <2>3, <2>4 DEF RenewWrite
<1> QED
  BY <1>1, <1>2

\* The key that is taken is at no other index, and nobody holds it.
LEMMA TakeStep ==
    ASSUME IInv, Take
    PROVE  IInv'
<1>1. db \in DBs /\ DBGood(db, nextKey, used, Given, Told)
  BY Latest DEF IInv
<1>2. /\ UNCHANGED <<log, newKey, nextKey, used, relayed, clash, unerased, unrecorded, unwritten>>
      /\ pc = "take" /\ pc' = "free" /\ db' = db /\ Given' = Given /\ Told' = Told
  BY DEF Take, keyVars, history, refusals, db, Given, Told
<1>3. LogGood'
  BY <1>2 DEF IInv, LogGood
<1>4. CASE UNCHANGED <<setKeyPool, held>>
  <2>1. Frame'
    BY <1>4 DEF IInv, Frame, Take, Places, keyVars, lockVars, history, refusals
  <2> QED
    BY <1>2, <1>4, <2>1, QuietStep
<1>5. ASSUME NEW i \in setKeyPool, setKeyPool' = setKeyPool \ {i},
             NEW key, held' = [held EXCEPT ![who] = [index |-> i, key |-> key]],
             key = (IF db.pool[i] \in db.keys THEN db.pool[i] ELSE NoKey)
      PROVE  IInv'
  <2> DEFINE h == [index |-> i, key |-> key]
  <2>1. i \in Indexes
    BY DEF IInv, Frame
  <2>2. \A t \in Threads : held'[t] = held[t] \/ (t = who /\ held'[t] = h)
    BY <1>5 DEF IInv, Frame
  <2>3. key = db.pool[i] /\ key \in Keys \union {NoKey} /\ (key # NoKey => key \in db.keys)
    BY <1>1, <1>5, <2>1 DEF DBGood, DBs
  <2>4. held' \in [Threads -> Hand]
    BY <1>5, <2>1, <2>3 DEF IInv, Frame, Hand
  <2>5. Frame'
    BY <1>5, <2>4 DEF IInv, Frame, Take, Places, keyVars, lockVars, history, refusals
  <2>6. h.index = i /\ h.key = key /\ h # Nothing
    BY <2>1 DEF Nothing, Indexes
  <2> HIDE DEF h
  <2>7. HeldGood(db)'
    <3>1. \A j \in Indexes : db.pool[j] = db.pool[i] /\ db.pool[i] # NoKey => j = i
      BY <1>1, <2>1 DEF DBGood
    <3> QED
      BY <1>2, <2>2, <2>3, <2>6, <3>1 DEF IInv, Hands, HeldGood
  <2>8. NewGood(db)' /\ CommitGood(db)'
    BY <1>2 DEF NewGood, CommitGood
  <2>9. ApartGood(db)'
    <3>1. SUFFICES ASSUME ~clash PROVE ApartGood(db)'
      BY <1>2 DEF ApartGood
    <3>2. /\ \A j \in setKeyPool \ unwritten : db.pool[j] # NoKey
          /\ \A t \in Threads : held[t] # Nothing =>
              /\ held[t].index \notin setKeyPool /\ held[t].key \notin Given
              /\ held[t].key = NoKey => held[t].index \in unwritten
              /\ held[t].key # NoKey => db.pool[held[t].index] = held[t].key
              /\ \A u \in Threads \ {t} : held[u] # Nothing =>
                      /\ held[u].index # held[t].index
                      /\ held[t].key # NoKey => held[u].key # held[t].key
      BY <1>2, <3>1 DEF IInv, Hands, ApartGood, Committing
    <3>3. \A t \in Threads : held[t] # Nothing =>
            held[t].index \in Indexes /\ held[t].index # i /\ (key # NoKey => held[t].key # key)
      BY <1>1, <2>1, <2>3, <3>2 DEF IInv, Frame, Hand, DBGood
    <3>4. key \notin Given /\ (key = NoKey => i \in unwritten)
      BY <1>1, <2>1, <2>3, <3>2 DEF DBGood
    <3>5. ASSUME NEW t \in Threads, held'[t] # Nothing
          PROVE  /\ held'[t].index \notin setKeyPool' /\ held'[t].key \notin Given
                 /\ held'[t].key = NoKey => held'[t].index \in unwritten
                 /\ held'[t].key # NoKey => db.pool[held'[t].index] = held'[t].key
                 /\ \A u \in Threads \ {t} : held'[u] # Nothing =>
                        /\ held'[u].index # held'[t].index
                        /\ held'[t].key # NoKey => held'[u].key # held'[t].key
      BY <1>5, <2>2, <2>3, <2>6, <3>2, <3>3, <3>4, <3>5
    <3> QED
      BY <1>2, <1>5, <3>2, <3>5 DEF ApartGood
  <2> QED
    BY <1>3, <2>5, <2>7, <2>8, <2>9 DEF IInv, Hands
<1>6. ASSUME NEW i \in setKeyPool, setKeyPool' = setKeyPool \ {i}, held' = held
      PROVE  IInv'
  <2>1. Frame'
    BY <1>6 DEF IInv, Frame, Take, Places, keyVars, lockVars, history, refusals
  <2>2. HeldGood(db)' /\ NewGood(db)' /\ CommitGood(db)' /\ ApartGood(db)'
    BY <1>2, <1>6 DEF IInv, Hands, HeldGood, NewGood, CommitGood, ApartGood, Committing
  <2> QED
    BY <1>3, <2>1, <2>2 DEF IInv, Hands
<1>7. CASE setKeyPool # {} /\ ~UNCHANGED <<setKeyPool, held>>
  <2>1. PICK i \in setKeyPool :
          /\ setKeyPool' = setKeyPool \ {i}
          /\ \/ /\ db.pool[i] \in db.keys
                /\ held' = [held EXCEPT ![who] = [index |-> i, key |-> db.pool[i]]]
             \/ /\ db.pool[i] \notin db.keys
                /\ held' = [held EXCEPT ![who] = [index |-> i, key |-> NoKey]] \/ held' = held
    BY <1>7 DEF Take
  <2>2. CASE db.pool[i] \in db.keys
    BY <2>1, <2>2, <1>5
  <2>3. CASE db.pool[i] \notin db.keys
    BY <2>1, <2>3, <1>5, <1>6
  <2> QED
    BY <2>2, <2>3
<1> QED
  BY <1>4, <1>7 DEF Take

\* What erasing an index leaves of the present state.
LEMMA Erased ==
    ASSUME IInv, NEW i \in Indexes
    PROVE  /\ ErasePool(i) \in DBs /\ DBGood(ErasePool(i), nextKey, used, Given, Told)
           /\ ErasePool(i).keys = db.keys /\ ErasePool(i).txs = db.txs
           /\ \A j \in Indexes : ErasePool(i).pool[j] = IF j = i THEN NoKey ELSE db.pool[j]
<1>1. db \in DBs /\ DBGood(db, nextKey, used, Given, Told)
  BY Latest DEF IInv
<1> QED
  BY <1>1, GoodErase DEF DBs, ErasePool, NoKey

\* The one state e that is left when a thread keeps its key: the record at the index it was
\* taken from, its only one, is gone, or the refusal is remembered.
LeftKept(t, e) ==
    /\ log' = <<e>> /\ e \in DBs /\ DBGood(e, nextKey, used, Given, Told)
    /\ e.keys = db.keys /\ e.txs = db.txs
    /\ \A j \in Indexes : e.pool[j] = db.pool[j] \/ (j = held[t].index /\ e.pool[j] = NoKey)
    /\ unerased' = unerased \/ unerased' = unerased \union {held[t].key}
    /\ held[t].key \notin unerased' => \A j \in Indexes : e.pool[j] # held[t].key

LEMMA KeptState ==
    ASSUME IInv, NEW t \in Threads, held[t].key # NoKey, EraseKept(t)
    PROVE  /\ \E e : LeftKept(t, e)
           /\ held[t].index \in Indexes /\ held[t].key \in Keys /\ held[t] # Nothing
<1>1. held[t].index \in Indexes /\ held[t].key \in Keys /\ held[t] # Nothing
  BY DEF IInv, Frame, Hand, Nothing
<1>2. CASE WriteThrough(ErasePool(held[t].index)) /\ UNCHANGED unerased
  <2>0. PICK e : e = ErasePool(held[t].index)
    OBVIOUS
  <2>1. /\ e \in DBs /\ DBGood(e, nextKey, used, Given, Told) /\ e.keys = db.keys /\ e.txs = db.txs
        /\ \A j \in Indexes : e.pool[j] = IF j = held[t].index THEN NoKey ELSE db.pool[j]
    BY <2>0, <1>1, Erased
  <2>2. \A j \in Indexes : e.pool[j] # held[t].key
    BY <1>1, <2>1 DEF IInv, Hands, HeldGood
  <2>3. LeftKept(t, e)
    BY <1>2, <2>0, <2>1, <2>2 DEF LeftKept, WriteThrough
  <2> QED
    BY <1>1, <2>3
<1>3. CASE WriteThrough(db) /\ unerased' = unerased \union {held[t].key}
  <2>1. db \in DBs /\ DBGood(db, nextKey, used, Given, Told)
    BY Latest DEF IInv
  <2>2. LeftKept(t, db)
    BY <1>3, <2>1 DEF LeftKept, WriteThrough
  <2> QED
    BY <1>1, <2>2
<1> QED
  BY <1>2, <1>3 DEF EraseKept

\* What the other threads hold is as good in e, and they hold other keys.
LEMMA KeptHands ==
    ASSUME IInv, NEW t \in Threads, held[t].key # NoKey, NEW e, LeftKept(t, e),
           e.pool \in [Indexes -> Keys \union {NoKey}]
    PROVE  /\ HeldGood(e) /\ NewGood(e)
           /\ ~clash => /\ \A i \in setKeyPool \ unwritten : e.pool[i] # NoKey
                        /\ \A u \in Threads \ {t} : held[u] # Nothing =>
                            /\ held[u].key # NoKey /\ ~Committing(u) => e.pool[held[u].index] = held[u].key
<1>1. HeldGood(e)
  BY DEF LeftKept, IInv, Hands, HeldGood
<1>2. NewGood(e)
  <2>1. SUFFICES ASSUME pc \in {"fillWrite", "renewWrite"} PROVE NewGood(e)
    BY DEF NewGood
  <2>2. /\ newKey \in db.keys /\ newKey \notin used
        /\ \A i \in Indexes : db.pool[i] # newKey
        /\ \A u \in Threads : held[u].key # newKey
    BY <2>1 DEF IInv, Hands, NewGood
  <2>3. newKey # NoKey
    BY <2>2, Latest DEF IInv, DBs, Keys, NoKey
  <2> QED
    BY <2>2, <2>3 DEF LeftKept, NewGood
<1>3. held[t] # Nothing /\ setKeyPool \subseteq Indexes
  BY DEF IInv, Frame, Nothing
<1>4. \A u \in Threads : held[u] # Nothing => held[u].index \in Indexes
  BY DEF IInv, Frame, Hand
<1>5. ASSUME ~clash
      PROVE  /\ \A i \in setKeyPool \ unwritten : e.pool[i] # NoKey
             /\ \A u \in Threads \ {t} : held[u] # Nothing =>
                 /\ held[u].key # NoKey /\ ~Committing(u) => e.pool[held[u].index] = held[u].key
  BY <1>3, <1>4, <1>5 DEF LeftKept, IInv, Hands, ApartGood
<1> QED
  BY <1>1, <1>2, <1>5

\* KeepKey: the key is known to others only with its record gone, or the refusal remembered.
LEMMA KeepStep ==
    ASSUME IInv, NEW t \in Threads, KeepKey(t)
    PROVE  IInv'
<1>1. PICK e : LeftKept(t, e)
  BY KeptState DEF KeepKey
<1>2. held[t].index \in Indexes /\ held[t].key \in Keys /\ held[t].key # NoKey /\ held[t] # Nothing
  BY KeptState DEF KeepKey
<1>3. /\ used' = used \union {held[t].key} /\ ~Committing(t)
      /\ held' = [held EXCEPT ![t] = Nothing]
      /\ UNCHANGED <<setKeyPool, pc, who, newKey, nextKey, relayed, clash, unrecorded, unwritten>>
  BY DEF KeepKey, csVars, keyVars, Committing
<1>4. e.pool \in [Indexes -> Keys \union {NoKey}]
  BY <1>1 DEF LeftKept, DBs
<1>5. /\ HeldGood(e) /\ NewGood(e)
      /\ ~clash => /\ \A i \in setKeyPool \ unwritten : e.pool[i] # NoKey
                   /\ \A u \in Threads \ {t} : held[u] # Nothing =>
                       /\ held[u].key # NoKey /\ ~Committing(u) => e.pool[held[u].index] = held[u].key
  BY <1>1, <1>2, <1>4, KeptHands
<1>6. Given' \subseteq Given \union {held[t].key} /\ Told' = Told /\ Given' \subseteq used'
  BY <1>1, <1>3 DEF Given, Told, LeftKept
<1>7. DBGood(e, nextKey', used', Given', Told')
  <2>1. DBGood(e, nextKey, used, Given, Told) /\ nextKey' = nextKey
    BY <1>1, <1>3 DEF LeftKept
  <2>2. used' \subseteq e.keys /\ Told' \subseteq e.txs
    BY <1>2, <1>3, <1>5, <1>6, <2>1 DEF HeldGood, DBGood
  <2>3. \A key \in Given' : key \in Given \/ \A j \in Indexes : e.pool[j] # key
    BY <1>1, <1>6 DEF LeftKept, Given
  <2> QED
    BY <1>6, <2>1, <2>2, <2>3, GoodUse
<1>8. log' \in Seq(DBs) /\ log' # <<>> /\ db' = e /\ LogGood'
  BY <1>1, <1>7 DEF LeftKept, db, LogGood
<1>9. held' \in [Threads -> Hand] /\ \A u \in Threads : held'[u] = IF u = t THEN Nothing ELSE held[u]
  BY <1>3 DEF IInv, Frame, Hand
<1>10. Frame'
  <2>1. unerased' \subseteq Keys
    BY <1>1, <1>2 DEF LeftKept, IInv, Frame
  <2> QED
    BY <1>2, <1>3, <1>8, <1>9, <2>1 DEF IInv, Frame, KeepKey, csVars, lockVars
<1>11. Nothing.key = NoKey
  BY DEF Nothing
<1>12. HeldGood(e)'
  BY <1>5, <1>9, <1>11 DEF HeldGood
<1>13. NewGood(e)'
  <2>1. SUFFICES ASSUME pc \in {"fillWrite", "renewWrite"} PROVE NewGood(e)'
    BY <1>3 DEF NewGood
  <2>2. newKey # NoKey
    BY <1>1, <1>5, <2>1 DEF NewGood, LeftKept, DBs, Keys, NoKey
  <2> QED
    BY <1>2, <1>3, <1>5, <1>9, <1>11, <2>1, <2>2 DEF NewGood
<1>14. CommitGood(e)'
  <2>1. SUFFICES ASSUME pc \in {"record", "relay"} PROVE CommitGood(e)'
    BY <1>3 DEF CommitGood
  <2>2. /\ who \in Threads /\ held[who].key # NoKey /\ who # t
        /\ held[who].key \notin unerased => \A i \in Indexes : db.pool[i] # held[who].key
        /\ pc = "relay" /\ held[who].key \notin unrecorded => held[who].key \in db.txs
    BY <1>3, <2>1 DEF IInv, Hands, CommitGood, Committing
  <2>3. held'[who] = held[who] /\ unerased \subseteq unerased'
    BY <1>1, <1>9, <2>2 DEF LeftKept
  <2>4. held[who].key \notin unerased' => \A i \in Indexes : e.pool[i] # held[who].key
    BY <1>1, <2>2, <2>3 DEF LeftKept
  <2> QED
    BY <1>1, <1>3, <2>2, <2>3, <2>4 DEF CommitGood, LeftKept
<1>15. ApartGood(e)'
  <2>1. SUFFICES ASSUME ~clash PROVE ApartGood(e)'
    BY <1>3 DEF ApartGood
  <2>2. \A u \in Threads : held[u] # Nothing =>
          /\ held[u].index \notin setKeyPool /\ held[u].key \notin Given
          /\ held[u].key = NoKey => held[u].index \in unwritten
          /\ \A v \in Threads \ {u} : held[v] # Nothing =>
                /\ held[v].index # held[u].index
                /\ held[u].key # NoKey => held[v].key # held[u].key
    BY <2>1 DEF IInv, Hands, ApartGood
  <2>3. \A u \in Threads \ {t} : held[u] # Nothing => held[u].key \notin Given'
    BY <1>2, <1>6, <2>2
  <2> QED
    BY <1>3, <1>5, <1>9, <2>1, <2>2, <2>3 DEF ApartGood, Committing
<1> QED
  BY <1>8, <1>10, <1>12, <1>13, <1>14, <1>15 DEF IInv, Hands

LEMMA ReturnStep ==
    ASSUME IInv, NEW t \in Threads, ReturnKey(t)
    PROVE  IInv'
<1>1. /\ pc = "free" /\ held[t] # Nothing
      /\ setKeyPool' = setKeyPool \union {held[t].index} /\ held' = [held EXCEPT ![t] = Nothing]
      /\ UNCHANGED <<log, pc, who, newKey, nextKey, used, relayed, clash, unerased, unrecorded, unwritten>>
      /\ db' = db /\ Given' = Given /\ Told' = Told
  BY DEF ReturnKey, csVars, keyVars, history, refusals, db, Given, Told
<1>2. /\ held' \in [Threads -> Hand]
      /\ \A u \in Threads : held'[u] = IF u = t THEN Nothing ELSE held[u]
      /\ held[t].index \in Indexes /\ Nothing.key = NoKey
  BY <1>1 DEF IInv, Frame, Hand, Nothing
<1>3. Frame' /\ LogGood'
  BY <1>1, <1>2 DEF IInv, Frame, LogGood, ReturnKey, csVars, lockVars
<1>4. HeldGood(db)' /\ NewGood(db)' /\ CommitGood(db)'
  BY <1>1, <1>2 DEF IInv, Hands, HeldGood, NewGood, CommitGood
<1>5. ApartGood(db)'
  BY <1>1, <1>2 DEF IInv, Hands, ApartGood, Committing
<1> QED
  BY <1>3, <1>4, <1>5 DEF IInv, Hands

\* CommitTransaction begins: the change key is in no record any more, or the refusal is
\* remembered.
LEMMA CommitStep ==
    ASSUME IInv, NEW t \in Threads, CommitTransaction(t)
    PROVE  IInv'
<1>1. PICK e : LeftKept(t, e)
  BY KeptState DEF CommitTransaction
<1>2. held[t].index \in Indexes /\ held[t].key \in Keys /\ held[t].key # NoKey /\ held[t] # Nothing
  BY KeptState DEF CommitTransaction
<1>3. /\ pc = "free" /\ pc' = "record" /\ who' = t
      /\ UNCHANGED <<setKeyPool, held, newKey, nextKey, used, relayed, clash, unrecorded, unwritten>>
  BY DEF CommitTransaction, keyVars
<1>4. e.pool \in [Indexes -> Keys \union {NoKey}]
  BY <1>1 DEF LeftKept, DBs
<1>5. /\ HeldGood(e) /\ NewGood(e)
      /\ ~clash => /\ \A i \in setKeyPool \ unwritten : e.pool[i] # NoKey
                   /\ \A u \in Threads \ {t} : held[u] # Nothing =>
                       /\ held[u].key # NoKey /\ ~Committing(u) => e.pool[held[u].index] = held[u].key
  BY <1>1, <1>2, <1>4, KeptHands
<1>6. Given' \subseteq Given /\ Told' = Told
  BY <1>1, <1>3 DEF Given, Told, LeftKept
<1>7. DBGood(e, nextKey', used', Given', Told')
  <2>1. DBGood(e, nextKey, used, Given, Told) /\ nextKey' = nextKey /\ used' = used
    BY <1>1, <1>3 DEF LeftKept
  <2> QED
    BY <1>6, <2>1 DEF DBGood
<1>8. log' \in Seq(DBs) /\ log' # <<>> /\ db' = e /\ LogGood'
  BY <1>1, <1>7 DEF LeftKept, db, LogGood
<1>9. Frame'
  <2>1. unerased' \subseteq Keys
    BY <1>1, <1>2 DEF LeftKept, IInv, Frame
  <2> QED
    BY <1>3, <1>8, <2>1 DEF IInv, Frame, CommitTransaction, Places, lockVars
<1>10. HeldGood(e)' /\ NewGood(e)' /\ CommitGood(e)'
  BY <1>1, <1>2, <1>3, <1>5 DEF HeldGood, NewGood, CommitGood, LeftKept
<1>11. ApartGood(e)'
  <2>1. SUFFICES ASSUME ~clash PROVE ApartGood(e)'
    BY <1>3 DEF ApartGood
  <2>2. \A u \in Threads : held[u] # Nothing =>
          /\ held[u].index \notin setKeyPool /\ held[u].key \notin Given
          /\ held[u].key = NoKey => held[u].index \in unwritten
          /\ \A v \in Threads \ {u} : held[v] # Nothing =>
                /\ held[v].index # held[u].index
                /\ held[u].key # NoKey => held[v].key # held[u].key
    BY <2>1 DEF IInv, Hands, ApartGood
  <2> QED
    BY <1>3, <1>5, <1>6, <2>1, <2>2 DEF ApartGood, Committing
<1> QED
  BY <1>8, <1>9, <1>10, <1>11 DEF IInv, Hands

LEMMA RecordStep ==
    ASSUME IInv, AddToWallet
    PROVE  IInv'
<1>1. /\ pc = "record" /\ pc' = "relay"
      /\ UNCHANGED <<setKeyPool, held, who, newKey, nextKey, used, relayed, clash, unerased, unwritten>>
      /\ Given' = Given
  BY DEF AddToWallet, keyVars, Given
<1>2. held[who].key \in Keys
  BY <1>1 DEF IInv, Hands, CommitGood, Frame, Hand, Nothing
<1>3. db \in DBs /\ DBGood(db, nextKey, used, Given, Told)
  BY Latest DEF IInv
<1>4. CASE Write([db EXCEPT !.txs = @ \union {held[who].key}]) /\ UNCHANGED unrecorded
  <2>0. PICK e : e = [db EXCEPT !.txs = @ \union {held[who].key}]
    OBVIOUS
  <2>1. /\ e \in DBs /\ DBGood(e, nextKey, used, Given, Told)
        /\ e.keys = db.keys /\ e.pool = db.pool /\ e.txs = db.txs \union {held[who].key}
    BY <2>0, <1>2, <1>3, GoodTx DEF DBs
  <2>2. Write(e) /\ Told' = Told /\ UNCHANGED unrecorded
    BY <1>1, <1>4, <2>0 DEF Told
  <2>3. log' \in Seq(DBs) /\ log' # <<>> /\ db' = e /\ LogGood'
    BY <1>1, <2>1, <2>2, Written DEF IInv, LogGood
  <2>4. Frame'
    BY <1>1, <2>2, <2>3 DEF IInv, Frame, AddToWallet, Places, lockVars
  <2>5. HeldGood(e)' /\ NewGood(e)' /\ CommitGood(e)' /\ ApartGood(e)'
    BY <1>1, <2>1, <2>2 DEF IInv, Hands, HeldGood, NewGood, CommitGood, ApartGood, Committing
  <2> QED
    BY <2>3, <2>4, <2>5 DEF IInv, Hands
<1>5. CASE UNCHANGED log /\ unrecorded' = unrecorded \union {held[who].key}
  <2>1. Told' \subseteq Told /\ db' = db
    BY <1>1, <1>5 DEF Told, db
  <2>2. LogGood'
    BY <1>1, <1>5, <2>1 DEF IInv, LogGood, DBGood
  <2>3. Frame'
    BY <1>1, <1>2, <1>5 DEF IInv, Frame, AddToWallet, Places, lockVars
  <2>4. HeldGood(db)' /\ NewGood(db)' /\ CommitGood(db)' /\ ApartGood(db)'
    BY <1>1, <1>5, <2>1 DEF IInv, Hands, HeldGood, NewGood, CommitGood, ApartGood, Committing
  <2> QED
    BY <2>2, <2>3, <2>4 DEF IInv, Hands
<1> QED
  BY <1>4, <1>5 DEF AddToWallet

\* The transaction that is relayed is in the only state a crash can bring back, unless the
\* database refused it.
LEMMA RelayStep ==
    ASSUME IInv, Relay
    PROVE  IInv'
<1>0. PICK e : e = db
  OBVIOUS
<1>1. e \in DBs /\ DBGood(e, nextKey, used, Given, Told)
  BY <1>0, Latest DEF IInv
<1>2. /\ WriteThrough(e) /\ pc = "relay" /\ pc' = "free"
      /\ held' = [held EXCEPT ![who] = Nothing]
      /\ UNCHANGED <<setKeyPool, newKey, nextKey, clash, unerased, unrecorded, unwritten>>
  BY <1>0 DEF Relay, keyVars, refusals
<1>3. /\ who \in Threads /\ held[who].key # NoKey /\ held[who].key \in Keys
      /\ held[who].key \in e.keys /\ held[who] # Nothing
      /\ held[who].key \notin unrecorded => held[who].key \in e.txs
      /\ held[who].key \notin unerased => \A i \in Indexes : e.pool[i] # held[who].key
  BY <1>0, <1>2 DEF IInv, Frame, Hand, Nothing, Hands, HeldGood, CommitGood
<1>4. \/ used' = used \union {held[who].key} /\ relayed' = relayed \union {held[who].key}
      \/ UNCHANGED <<used, relayed>>
  BY DEF Relay
<1>5. DBGood(e, nextKey', used', Given', Told') /\ Given' \subseteq Given \union {held[who].key}
  <2>1. CASE UNCHANGED <<used, relayed>>
    BY <1>1, <1>2, <2>1 DEF Given, Told
  <2>2. CASE used' = used \union {held[who].key} /\ relayed' = relayed \union {held[who].key}
    <3>1. nextKey' = nextKey /\ used' \subseteq e.keys /\ Given' \subseteq used' /\ Told' \subseteq e.txs
      BY <1>1, <1>2, <1>3, <2>2 DEF DBGood, Given, Told
    <3>2. \A key \in Given' : key \in Given \/ \A j \in Indexes : e.pool[j] # key
      BY <1>2, <1>3, <2>2 DEF Given
    <3>3. Given' \subseteq Given \union {held[who].key}
      BY <1>2, <2>2 DEF Given
    <3> QED
      BY <1>1, <3>1, <3>2, <3>3, GoodUse
  <2> QED
    BY <1>4, <2>1, <2>2
<1>6. log' = <<e>> /\ log' \in Seq(DBs) /\ log' # <<>> /\ db' = e /\ LogGood'
  BY <1>1, <1>2, <1>5 DEF WriteThrough, db, LogGood
<1>7. /\ held' \in [Threads -> Hand] /\ Nothing.key = NoKey
      /\ \A u \in Threads : held'[u] = IF u = who THEN Nothing ELSE held[u]
  BY <1>2 DEF IInv, Frame, Hand, Nothing
<1>8. Frame'
  BY <1>2, <1>3, <1>4, <1>6, <1>7 DEF IInv, Frame, Relay, Places, lockVars
<1>9. HeldGood(e)' /\ NewGood(e)' /\ CommitGood(e)'
  BY <1>0, <1>2, <1>7 DEF IInv, Hands, HeldGood, NewGood, CommitGood
<1>10. ApartGood(e)'
  BY <1>0, <1>2, <1>3, <1>5, <1>7 DEF IInv, Hands, ApartGood, Committing
<1> QED
  BY <1>6, <1>8, <1>9, <1>10 DEF IInv, Hands

LEMMA EraseOldStep ==
    ASSUME IInv, EraseOld
    PROVE  IInv'
<1>1. CASE UNCHANGED <<setKeyPool, log>> /\ pc' = "renew"
  <2>1. Frame'
    BY <1>1 DEF IInv, Frame, EraseOld, Places, keyVars, lockVars, history, refusals
  <2> QED
    BY <1>1, <2>1, QuietStep DEF EraseOld, keyVars, history, refusals
<1>2. ASSUME NEW i \in setKeyPool, setKeyPool' = setKeyPool \ {i}, NEW e, Write(e) \/ UNCHANGED log,
             Write(e) => e = ErasePool(i), pc' = pc
      PROVE  IInv'
  <2>1. i \in Indexes
    BY DEF IInv, Frame
  <2>2. /\ pc = "erase" /\ pc' = "erase"
        /\ UNCHANGED <<held, who, newKey, nextKey, used, relayed, clash, unerased, unrecorded, unwritten>>
        /\ Given' = Given /\ Told' = Told
    BY <1>2 DEF EraseOld, keyVars, history, refusals, Given, Told
  <2>3. CASE UNCHANGED log
    <3>1. Frame'
      BY <1>2, <2>2, <2>3 DEF IInv, Frame, EraseOld, keyVars, lockVars, history, refusals
    <3>2. db' = db /\ LogGood'
      BY <2>2, <2>3 DEF IInv, LogGood, db
    <3>3. HeldGood(db)' /\ NewGood(db)' /\ CommitGood(db)' /\ ApartGood(db)'
      BY <1>2, <2>2, <3>2 DEF IInv, Hands, HeldGood, NewGood, CommitGood, ApartGood, Committing
    <3> QED
      BY <3>1, <3>2, <3>3 DEF IInv, Hands
  <2>4. CASE Write(e)
    <3>1. /\ e \in DBs /\ DBGood(e, nextKey, used, Given, Told) /\ e.keys = db.keys /\ e.txs = db.txs
          /\ \A j \in Indexes : e.pool[j] = IF j = i THEN NoKey ELSE db.pool[j]
      BY <1>2, <2>1, <2>4, Erased
    <3>2. log' \in Seq(DBs) /\ log' # <<>> /\ db' = e /\ LogGood'
      BY <2>2, <2>4, <3>1, Written DEF IInv, LogGood
    <3>3. Frame'
      BY <1>2, <2>2, <3>2 DEF IInv, Frame, EraseOld, keyVars, lockVars, history, refusals
    <3>4. HeldGood(e)' /\ NewGood(e)' /\ CommitGood(e)'
      BY <2>2, <3>1 DEF IInv, Hands, HeldGood, NewGood, CommitGood
    <3>5. ApartGood(e)'
      <4>1. SUFFICES ASSUME ~clash PROVE ApartGood(e)'
        BY <2>2 DEF ApartGood
      <4>2. \A u \in Threads : held[u] # Nothing => held[u].index \in Indexes
        BY DEF IInv, Frame, Hand
      <4>3. setKeyPool \subseteq Indexes
        BY DEF IInv, Frame
      <4> QED
        BY <1>2, <2>2, <3>1, <4>1, <4>2, <4>3 DEF IInv, Hands, ApartGood, Committing
    <3> QED
      BY <3>2, <3>3, <3>4, <3>5 DEF IInv, Hands
  <2> QED
    BY <1>2, <2>3, <2>4
<1>3. ASSUME NEW i \in setKeyPool, setKeyPool' = setKeyPool \ {i}, pc' = pc,
             Write(ErasePool(i)) \/ UNCHANGED log
      PROVE  IInv'
  BY <1>2, <1>3
<1> QED
  BY <1>1, <1>3 DEF EraseOld

\* A crash: every state of the log is good, and the threads hold nothing.
LEMMA RestartStep ==
    ASSUME IInv, Restart
    PROVE  IInv'
<1>1. PICK m \in DOMAIN log :
        /\ WriteThrough(log[m]) /\ setKeyPool' = {i \in Indexes : log[m].pool[i] # NoKey}
        /\ held' = [t \in Threads |-> Nothing]
        /\ pc' = "free" /\ who' = NoThread /\ target' = 0 /\ n' = 0
        /\ locked' = crypted /\ unwritten' = {}
        /\ UNCHANGED <<keyVars, crypted, used, relayed, clash, unerased, unrecorded>>
  BY DEF Restart
<1>2. PICK e : e = log[m]
  OBVIOUS
<1>3. e \in DBs /\ DBGood(e, nextKey, used, Given, Told)
  BY <1>2 DEF IInv, Frame, LogGood
<1>4. /\ UNCHANGED <<newKey, nextKey, used, relayed, clash, unerased, unrecorded>>
      /\ Given' = Given /\ Told' = Told
  BY <1>1 DEF keyVars, Given, Told
<1>5. log' = <<e>> /\ log' \in Seq(DBs) /\ log' # <<>> /\ db' = e /\ LogGood'
  BY <1>1, <1>2, <1>3, <1>4 DEF WriteThrough, db, LogGood
<1>6. Frame'
  BY <1>1, <1>4, <1>5 DEF IInv, Frame, Places, Hand
<1>7. HeldGood(e)' /\ NewGood(e)' /\ CommitGood(e)' /\ ApartGood(e)'
  BY <1>1, <1>2 DEF HeldGood, NewGood, CommitGood, ApartGood, Nothing
<1> QED
  BY <1>5, <1>6, <1>7 DEF IInv, Hands
-----------------------------------------------------------------------------
(***************************************************************************)
(* The theorems.                                                           *)
(***************************************************************************)
LEMMA InitGood == Init => IInv
<1> SUFFICES ASSUME Init PROVE IInv
  OBVIOUS
<1>1. EmptyDB \in DBs /\ EmptyDB.keys = {} /\ EmptyDB.txs = {} /\ \A i \in Indexes : EmptyDB.pool[i] = NoKey
  BY DEF EmptyDB, DBs
<1>2. log = <<EmptyDB>> /\ log \in Seq(DBs) /\ log # <<>> /\ DOMAIN log = {1} /\ db = EmptyDB
  BY <1>1 DEF Init, db
<1>3. Frame
  <2>1. held \in [Threads -> Hand]
    BY DEF Init, Hand
  <2>2. pc \in Places /\ nextKey \in 1..(MaxKeys + 1)
    BY DEF Init, Places
  <2> QED
    BY <1>2, <2>1, <2>2 DEF Init, Frame
<1>4. DBGood(EmptyDB, nextKey, used, Given, Told)
  BY <1>1 DEF Init, DBGood, Given, Told
<1>5. LogGood
  BY <1>2, <1>4 DEF LogGood
<1>6. Hands(db)
  BY <1>1, <1>2 DEF Init, Hands, HeldGood, NewGood, CommitGood, ApartGood, Nothing
<1> QED
  BY <1>3, <1>5, <1>6 DEF IInv

LEMMA StepGood == IInv /\ [Next]_vars => IInv'
<1> SUFFICES ASSUME IInv, [Next]_vars PROVE IInv'
  OBVIOUS
<1>1. CASE \E size \in RefillSizes : Refill(size)
  BY <1>1, QuietActions
<1>2. CASE GenerateFails \/ FillRefused \/ FillDone \/ EncryptWallet \/ RenewDone \/ LockWallet \/ Unlock
  BY <1>2, QuietActions
<1>3. CASE GenerateNewKey
  BY <1>3, GenerateStep
<1>4. CASE FillWrite \/ RenewWrite
  BY <1>4, WriteActions
<1>5. CASE Take
  BY <1>5, TakeStep
<1>6. ASSUME NEW t \in Threads,
             GetReservedKey(t) \/ KeepKey(t) \/ ReturnKey(t) \/ CommitTransaction(t)
      PROVE  IInv'
  BY <1>6, QuietActions, KeepStep, ReturnStep, CommitStep
<1>7. CASE AddToWallet
  BY <1>7, RecordStep
<1>8. CASE Relay
  BY <1>8, RelayStep
<1>9. CASE EraseOld
  BY <1>9, EraseOldStep
<1>10. CASE Restart
  BY <1>10, RestartStep
<1>11. CASE UNCHANGED vars
  <2>1. /\ UNCHANGED <<setKeyPool, log, held, pc, who, newKey, nextKey, used, relayed, clash,
                       unerased, unrecorded, unwritten>>
        /\ Frame'
    BY <1>11 DEF vars, csVars, keyVars, lockVars, history, refusals, IInv, Frame
  <2> QED
    BY <2>1, QuietStep
<1> QED
  BY <1>1, <1>2, <1>3, <1>4, <1>5, <1>6, <1>7, <1>8, <1>9, <1>10, <1>11 DEF Next

LEMMA Invariance == Spec => []IInv
BY InitGood, StepGood, PTL DEF Spec

\* The wallet's state stays well formed; no database that a crash can bring back has a key
\* that GenerateNewKey would generate again.
THEOREM TypeCorrect == Spec => []TypeOK
<1>1. IInv => TypeOK
  BY DEF IInv, Frame, Hand, LogGood, DBGood, TypeOK
<1> QED
  BY <1>1, Invariance, PTL

\* Whatever a crash brings back, ReserveKeyFromKeyPool never meets a record whose private
\* key is unknown, every key that others know is in the wallet, and it is in the pool only if
\* the database refused to erase its record when the key was kept: KeepKey erases the only
\* record of a key before it is used, even if an index was given away twice.
THEOREM PoolIsSound == Spec => []PoolSound
<1>1. IInv => PoolSound
  BY DEF IInv, LogGood, DBGood, Given, PoolKeysKnown, UsedOnce, PoolSound
<1> QED
  BY <1>1, Invariance, PTL

\* Unless TopUpKeyPool or NewKeyPool puts an index into the set that a thread holds, no two
\* threads hold the same key, none holds one that others know unless its record could not be
\* erased, and the pool has the record of every index it offers that was not refused.
THEOREM ReservedKeysAreApart == Spec => []ReservedApart
<1>1. IInv => ReservedApart
  BY DEF IInv, Hands, ApartGood, Given, ReservedApart, HandsApart, PoolReadable
<1> QED
  BY <1>1, Invariance, PTL

\* CommitTransaction relays a transaction that a crash can take out of the wallet only if the
\* database refused to record it, which CommitTransaction does not look at.
THEOREM RelayedAreRecorded == Spec => []RelayedRecorded
<1>1. IInv => RelayedRecorded
  BY DEF IInv, LogGood, DBGood, Told, RelayedRecorded
<1> QED
  BY <1>1, Invariance, PTL
=============================================================================
