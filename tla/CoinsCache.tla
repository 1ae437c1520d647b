----------------------------- MODULE CoinsCache -----------------------------
(***************************************************************************)
(* The stack of coin views (src/src/coins.cpp, src/src/txdb.cpp): the      *)
(* chainstate database, the cache pcoinsTip on it, and on that the         *)
(* CCoinsViewCache that ConnectTip, DisconnectTip and others work in.  A   *)
(* cache holds the entries that were looked at, with their flags, and      *)
(* Flush hands the dirty ones down.                                        *)
(*                                                                         *)
(* CCoins are abstracted to values that can be told apart; Pruned is the   *)
(* one without outputs, which the database does not store.  What a block   *)
(* writes is arbitrary, but its state is a function of the block.          *)
(***************************************************************************)
EXTENDS Naturals

CONSTANTS
    Txids, Coins, Pruned,
    Hashes, Genesis, NoHash,     \* blocks; uint256(0)
    MaxFailures                  \* bound on the number of failed writes

ASSUME CoinsAssumption ==
    /\ Pruned \in Coins
    /\ Genesis \in Hashes /\ NoHash \notin Hashes
    /\ MaxFailures \in Nat

VARIABLES
    db, dbBest,      \* 'c' and 'B' of the chainstate database
    tip, tipHash,    \* cacheCoins and hashBlock of pcoinsTip
    view, viewHash,  \* of the view on top of it
    pc,              \* none: there is no view; open; read: its best block was read; set
    state,           \* the coins after each block, {} while they are not known
    failures

vars == <<db, dbBest, tip, tipHash, view, viewHash, pc, state, failures>>

Contents == [Txids -> Coins]
NoCoins == [t \in Txids |-> Pruned]

\* A CCoinsMap: entries, the flags DIRTY and FRESH, and the coins.
Caches == [have : SUBSET Txids, dirty : SUBSET Txids, fresh : SUBSET Txids, coins : Contents]
EmptyCache == [have |-> {}, dirty |-> {}, fresh |-> {}, coins |-> NoCoins]

\* What a cache shows on top of a base.
Shown(cache, base) == [t \in Txids |-> IF t \in cache.have THEN cache.coins[t] ELSE base[t]]
TipShown == Shown(tip, db)
ViewShown == Shown(view, TipShown)

\* After InitBlockIndex.
Init ==
    /\ db = NoCoins /\ dbBest = Genesis
    /\ tip = EmptyCache /\ tipHash = NoHash
    /\ view = EmptyCache /\ viewHash = NoHash /\ pc = "none"
    /\ state = [h \in Hashes |-> IF h = Genesis THEN {NoCoins} ELSE {}]
    /\ failures = 0
-----------------------------------------------------------------------------
(***************************************************************************)
(* Operations of a CCoinsViewCache.                                        *)
(***************************************************************************)
\* FetchCoins, when the base's GetCoins returns found and c.
Entered(cache, t, c) ==
    [have  |-> cache.have \union {t},
     dirty |-> cache.dirty,
     fresh |-> IF c = Pruned THEN cache.fresh \union {t} ELSE cache.fresh,
     coins |-> [cache.coins EXCEPT ![t] = c]]
Fetched(cache, t, found, c) == IF t \in cache.have \/ ~found THEN cache ELSE Entered(cache, t, c)

\* GetCoins of the tip and of the view; the latter asks the former.
TipFetched(t) == Fetched(tip, t, db[t] # Pruned, db[t])
ViewFetched(t) == Fetched(view, t, t \in TipFetched(t).have, TipFetched(t).coins[t])

\* Mutant: the parent's entry is not looked at.
FreshenedBlindly(cache, t, c) ==
    IF t \notin cache.have THEN cache.fresh \union {t} ELSE cache.fresh

\* A new entry is FRESH if the base has none (c is Pruned) or a pruned one.
Freshened(cache, t, c) ==
    IF t \notin cache.have /\ c = Pruned THEN cache.fresh \union {t} ELSE cache.fresh

\* ModifyCoins of an entry for which the base shows c, the assignment of new to it, and
\* ~CCoinsModifier.
Modified(cache, t, c, new) ==
    IF new = Pruned /\ t \in Freshened(cache, t, c)
    THEN [have  |-> cache.have \ {t},
          dirty |-> cache.dirty \ {t},
          fresh |-> cache.fresh \ {t},
          coins |-> [cache.coins EXCEPT ![t] = Pruned]]
    ELSE [have  |-> cache.have \union {t},
          dirty |-> cache.dirty \union {t},
          fresh |-> Freshened(cache, t, c),
          coins |-> [cache.coins EXCEPT ![t] = new]]

\* BatchWrite of a child's entries: those that are new to the parent, those that need
\* not go further down, the others.
Added(child, parent) == {t \in child.dirty \ parent.have : child.coins[t] # Pruned}
Erased(child, parent) == {t \in child.dirty \intersect parent.fresh : child.coins[t] = Pruned}
Overwritten(child, parent) == (child.dirty \intersect parent.have) \ Erased(child, parent)

\* Mutant: every written entry is FRESH.
BatchWrittenFresh(child, parent) ==
    LET added == Added(child, parent)
        erased == Erased(child, parent)
        overwritten == Overwritten(child, parent)
    IN [have  |-> (parent.have \union added) \ erased,
        dirty |-> (parent.dirty \union added \union overwritten) \ erased,
        fresh |-> (parent.fresh \union added \union overwritten) \ erased,
        coins |-> [t \in Txids |-> IF t \in child.dirty THEN child.coins[t] ELSE parent.coins[t]]]

BatchWritten(child, parent) ==
    LET added == Added(child, parent)
        erased == Erased(child, parent)
        overwritten == Overwritten(child, parent)
    IN [have  |-> (parent.have \union added) \ erased,
        dirty |-> (parent.dirty \union added \union overwritten) \ erased,
        fresh |-> (parent.fresh \union added) \ erased,
        coins |-> [t \in Txids |-> IF t \in child.dirty THEN child.coins[t] ELSE parent.coins[t]]]

\* GetBestBlock keeps what it reads from the base.
Best(hash, base) == IF hash = NoHash THEN base ELSE hash
TipBest == Best(tipHash, dbBest)
ViewBest == Best(viewHash, TipBest)
-----------------------------------------------------------------------------
(***************************************************************************)
(* Readers of pcoinsTip.                                                   *)
(***************************************************************************)
ReadTip(t) ==
    /\ tip' = TipFetched(t)
    /\ UNCHANGED <<db, dbBest, tipHash, view, viewHash, pc, state, failures>>

ReadTipBest ==
    /\ tipHash' = TipBest
    /\ UNCHANGED <<db, dbBest, tip, view, viewHash, pc, state, failures>>
-----------------------------------------------------------------------------
(***************************************************************************)
(* A view on pcoinsTip.                                                    *)
(***************************************************************************)
OpenView ==
    /\ pc = "none" /\ pc' = "open"
    /\ UNCHANGED <<db, dbBest, tip, tipHash, view, viewHash, state, failures>>

ReadView(t) ==
    /\ pc # "none"
    /\ tip' = IF t \in view.have THEN tip ELSE TipFetched(t)
    /\ view' = ViewFetched(t)
    /\ UNCHANGED <<db, dbBest, tipHash, viewHash, pc, state, failures>>

\* ConnectBlock and DisconnectBlock first compare the best block.
ReadViewBest ==
    /\ pc = "open" /\ pc' = "read"
    /\ tipHash' = IF viewHash = NoHash THEN TipBest ELSE tipHash
    /\ viewHash' = ViewBest
    /\ UNCHANGED <<db, dbBest, tip, view, state, failures>>

\* UpdateCoins, and the changes of DisconnectBlock.  Only a new entry asks the tip.
ModifyView(t, c) ==
    /\ pc \in {"open", "read"}
    /\ tip' = IF t \in view.have THEN tip ELSE TipFetched(t)
    /\ view' = Modified(view, t, TipFetched(t).coins[t], c)
    /\ UNCHANGED <<db, dbBest, tipHash, viewHash, pc, state, failures>>

\* Their last step: the view is the state of block h.
SetBestBlock(h) ==
    /\ pc = "read" /\ pc' = "set"
    /\ state[h] \subseteq {ViewShown} /\ state' = [state EXCEPT ![h] = {ViewShown}]
    /\ viewHash' = h
    /\ UNCHANGED <<db, dbBest, tip, tipHash, view, failures>>

\* Mutant: the best block is not handed down.
FlushViewKeepsBest ==
    /\ pc = "set" /\ pc' = "none"
    /\ tip' = BatchWritten(view, tip)
    /\ view' = EmptyCache /\ viewHash' = NoHash
    /\ UNCHANGED <<db, dbBest, tipHash, state, failures>>

\* Flush of the view, which then goes out of scope.
FlushView ==
    /\ pc = "set" /\ pc' = "none"
    /\ tip' = BatchWritten(view, tip) /\ tipHash' = viewHash
    /\ view' = EmptyCache /\ viewHash' = NoHash
    /\ UNCHANGED <<db, dbBest, state, failures>>

\* It goes out of scope without: the block was bad, or only tested.
CloseView ==
    /\ pc # "none" /\ pc' = "none"
    /\ view' = EmptyCache /\ viewHash' = NoHash
    /\ UNCHANGED <<db, dbBest, tip, tipHash, state, failures>>
-----------------------------------------------------------------------------
(***************************************************************************)
(* The database.                                                           *)
(***************************************************************************)
\* Mutant: a view is open.
FlushTipUnderView ==
    /\ db' = [t \in Txids |-> IF t \in tip.dirty THEN tip.coins[t] ELSE db[t]]
    /\ dbBest' = TipBest
    /\ tip' = EmptyCache
    /\ UNCHANGED <<tipHash, view, viewHash, pc, state, failures>>

\* Flush of pcoinsTip in FlushStateToDisk: one batch of the dirty entries and, unless it
\* is 0, the best block.  The cache is emptied, the best block kept.
FlushTip ==
    /\ pc = "none"
    /\ db' = [t \in Txids |-> IF t \in tip.dirty THEN tip.coins[t] ELSE db[t]]
    /\ dbBest' = TipBest
    /\ tip' = EmptyCache
    /\ UNCHANGED <<tipHash, view, viewHash, pc, state, failures>>

\* WriteBatch throws: by then BatchWrite has erased the entries.
FlushTipFails ==
    /\ pc = "none" /\ failures < MaxFailures
    /\ failures' = failures + 1
    /\ tip' = EmptyCache
    /\ UNCHANGED <<db, dbBest, tipHash, view, viewHash, pc, state>>

\* The process ends, here or anywhere, and starts again.
Restart ==
    /\ tip' = EmptyCache /\ tipHash' = NoHash
    /\ view' = EmptyCache /\ viewHash' = NoHash /\ pc' = "none"
    /\ UNCHANGED <<db, dbBest, state, failures>>
-----------------------------------------------------------------------------
Next ==
    \/ \E t \in Txids : ReadTip(t) \/ ReadView(t) \/ (\E c \in Coins : ModifyView(t, c))
    \/ ReadTipBest \/ ReadViewBest
    \/ \E h \in Hashes : SetBestBlock(h)
    \/ OpenView \/ FlushView \/ CloseView
    \/ FlushTip \/ FlushTipFails \/ Restart

Spec == Init /\ [][Next]_vars
-----------------------------------------------------------------------------
\* Types; an entry that is not there has no flags.
TypeOK ==
    /\ db \in Contents /\ dbBest \in Hashes
    /\ tip \in Caches /\ tip.dirty \subseteq tip.have /\ tip.fresh \subseteq tip.have
    /\ view \in Caches /\ view.dirty \subseteq view.have /\ view.fresh \subseteq view.have
    /\ tipHash \in Hashes \union {NoHash} /\ viewHash \in Hashes \union {NoHash}
    /\ pc \in {"none", "open", "read", "set"}
    /\ state \in [Hashes -> SUBSET Contents]
    /\ failures \in 0 .. MaxFailures

\* FRESH: "The parent view does not have this entry (or it is pruned)."  BatchWrite drops
\* the deletion of such an entry, so a wrong flag would bring back spent coins.
FreshAbsentBelow ==
    /\ \A t \in tip.fresh : db[t] = Pruned
    /\ \A t \in view.fresh : TipShown[t] = Pruned

\* DIRTY: what is not is not different from the version in the parent view, which is
\* what allows Flush to leave it out.
CleanEqualsBase ==
    /\ \A t \in tip.have \ tip.dirty : tip.coins[t] = db[t]
    /\ \A t \in view.have \ view.dirty : view.coins[t] = TipShown[t]

\* Both flags say what they mean after every sequence of reads, changes and merges.
FlagsRight == FreshAbsentBelow /\ CleanEqualsBase

\* "if the grandparent did have it, we would have pulled it in at first GetCoins": the
\* assertion in BatchWrite holds whenever the view is flushed, and no deletion is lost.
ParentHasEntry == view.have \ view.fresh \subseteq tip.have

\* "the block hash whose state this CCoinsView currently represents": as long as no write
\* has failed, the coins of the database and of pcoinsTip are the state of their best block.
StateOfBest == failures = 0 => state[dbBest] = {db} /\ state[TipBest] = {TipShown}

\* ... and for the database it should hold in any case.
DBStateOfBest == state[dbBest] = {db}

\* The caches only save reads and writes: what is seen through them is CoinsViews.
Views == INSTANCE CoinsViews WITH
    tip <- TipShown, tipBest <- TipBest,
    view <- ViewShown, viewBest <- ViewBest, open <- pc # "none"
RefinesViews == Views!Spec
=============================================================================
