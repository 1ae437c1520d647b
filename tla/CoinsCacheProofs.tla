-------------------------- MODULE CoinsCacheProofs --------------------------
(***************************************************************************)
(* For any number of transactions, values and blocks: the flags of the     *)
(* caches are right, and what is seen through them is CoinsViews.          *)
(***************************************************************************)
EXTENDS CoinsCache, TLAPS

\* A cache on top of a base: absent entries are blank, the flags tell the truth.
CacheOK(cache, base) ==
    /\ cache \in Caches
    /\ cache.dirty \subseteq cache.have /\ cache.fresh \subseteq cache.have
    /\ \A t \in Txids \ cache.have : cache.coins[t] = Pruned
    /\ \A t \in cache.fresh : base[t] = Pruned
    /\ \A t \in cache.have \ cache.dirty : cache.coins[t] = base[t]

\* The variables other than the caches.
FrameOK ==
    /\ db \in Contents /\ dbBest \in Hashes
    /\ tipHash \in Hashes \union {NoHash} /\ viewHash \in Hashes \union {NoHash}
    /\ pc \in {"none", "open", "read", "set"}
    /\ state \in [Hashes -> SUBSET Contents]
    /\ failures \in 0 .. MaxFailures

\* What a view still has to be merged, and what is left when there is none.
ViewPhase ==
    /\ pc = "none" => view = EmptyCache /\ viewHash = NoHash
    /\ pc = "set" => viewHash \in Hashes /\ state[viewHash] = {ViewShown}

\* The inductive invariant.
IInv ==
    /\ FrameOK
    /\ CacheOK(tip, db) /\ CacheOK(view, TipShown) /\ ParentHasEntry
    /\ ViewPhase /\ StateOfBest
-----------------------------------------------------------------------------
(***************************************************************************)
(* Operations of a cache.                                                  *)
(***************************************************************************)
LEMMA EmptyOK ==
    ASSUME NEW base \in Contents
    PROVE  CacheOK(EmptyCache, base) /\ Shown(EmptyCache, base) = base
BY CoinsAssumption DEF CacheOK, EmptyCache, Caches, Contents, NoCoins, Shown

LEMMA ShownContents ==
    ASSUME NEW cache \in Caches, NEW base \in Contents
    PROVE  Shown(cache, base) \in Contents
BY DEF Shown, Contents, Caches

\* FetchCoins changes nothing that can be seen.
LEMMA EnteredOK ==
    ASSUME NEW base \in Contents, NEW cache, CacheOK(cache, base),
           NEW t \in Txids \ cache.have
    PROVE  LET new == Entered(cache, t, base[t])
           IN /\ CacheOK(new, base) /\ Shown(new, base) = Shown(cache, base)
              /\ new.have = cache.have \union {t}
              /\ new.coins[t] = base[t]
              /\ new.have \ new.fresh \subseteq (cache.have \ cache.fresh) \union {t}
              /\ base[t] = Pruned => t \in new.fresh
<1> DEFINE new == Entered(cache, t, base[t])
<1>0. /\ cache.have \subseteq Txids /\ cache.coins \in [Txids -> Coins] /\ base[t] \in Coins
      /\ cache.dirty \subseteq cache.have /\ cache.fresh \subseteq cache.have
  BY DEF CacheOK, Caches, Contents
<1>1. /\ new.have = cache.have \union {t} /\ new.dirty = cache.dirty
      /\ new.fresh = IF base[t] = Pruned THEN cache.fresh \union {t} ELSE cache.fresh
      /\ new.coins = [cache.coins EXCEPT ![t] = base[t]]
  BY DEF Entered
<1>2. new \in Caches
  BY <1>0 DEF Entered, Caches, Contents
<1> HIDE DEF new
<1>3. new.coins[t] = base[t] /\ \A x \in Txids \ {t} : new.coins[x] = cache.coins[x]
  BY <1>0, <1>1
<1>4. CacheOK(new, base)
  <2>1. new.dirty \subseteq new.have /\ new.fresh \subseteq new.have
    BY <1>0, <1>1
  <2>2. \A x \in Txids \ new.have : new.coins[x] = Pruned
    BY <1>1, <1>3 DEF CacheOK
  <2>3. \A x \in new.fresh : base[x] = Pruned
    BY <1>1 DEF CacheOK
  <2>4. \A x \in new.have \ new.dirty : new.coins[x] = base[x]
    <3>1. \A x \in cache.have \ cache.dirty : x \in Txids \ {t} /\ cache.coins[x] = base[x]
      BY <1>0 DEF CacheOK
    <3> QED
      BY <1>1, <1>3, <3>1
  <2> QED
    BY <1>2, <2>1, <2>2, <2>3, <2>4 DEF CacheOK
<1>5. Shown(new, base) = Shown(cache, base)
  BY <1>1, <1>3 DEF Shown
<1> QED
  BY <1>1, <1>3, <1>4, <1>5 DEF new

\* ModifyCoins and its destructor change what is seen of one transaction.
LEMMA ModifiedOK ==
    ASSUME NEW base \in Contents, NEW cache, CacheOK(cache, base),
           NEW t \in Txids, NEW c \in Coins
    PROVE  LET new == Modified(cache, t, base[t], c)
           IN /\ CacheOK(new, base)
              /\ Shown(new, base) = [Shown(cache, base) EXCEPT ![t] = c]
              /\ new.have \ new.fresh \subseteq (cache.have \ cache.fresh) \union {t}
              /\ t \in new.have \ new.fresh =>
                    t \in cache.have \ cache.fresh \/ (t \notin cache.have /\ base[t] # Pruned)
<1> DEFINE new == Modified(cache, t, base[t], c)
           fresh == Freshened(cache, t, base[t])
<1>0. cache \in Caches /\ cache.have \subseteq Txids /\ cache.coins \in [Txids -> Coins]
  BY DEF CacheOK, Caches, Contents
<1>1. /\ cache.fresh \subseteq fresh /\ fresh \subseteq cache.fresh \union {t}
      /\ t \in fresh <=> t \in cache.fresh \/ (t \notin cache.have /\ base[t] = Pruned)
      /\ t \in fresh => base[t] = Pruned
  BY DEF Freshened, CacheOK
<1> HIDE DEF fresh
<1>2. CASE c = Pruned /\ t \in fresh
  <2>1. /\ new.have = cache.have \ {t} /\ new.dirty = cache.dirty \ {t}
        /\ new.fresh = cache.fresh \ {t}
        /\ new.coins = [cache.coins EXCEPT ![t] = Pruned]
    BY <1>2 DEF Modified, fresh
  <2>2. new \in Caches
    BY <1>0, <1>2, CoinsAssumption DEF Modified, fresh, Caches, Contents
  <2>3. new.coins[t] = Pruned /\ \A x \in Txids \ {t} : new.coins[x] = cache.coins[x]
    BY <1>0, <2>1
  <2>4. CacheOK(new, base)
    BY <2>1, <2>2, <2>3 DEF CacheOK
  <2>5. Shown(new, base) = [Shown(cache, base) EXCEPT ![t] = c]
    BY <1>1, <1>2, <2>1, <2>3 DEF Shown
  <2> QED
    BY <2>1, <2>4, <2>5
<1>3. CASE ~(c = Pruned /\ t \in fresh)
  <2>1. /\ new.have = cache.have \union {t} /\ new.dirty = cache.dirty \union {t}
        /\ new.fresh = fresh
        /\ new.coins = [cache.coins EXCEPT ![t] = c]
    BY <1>3 DEF Modified, fresh
  <2>2. new \in Caches
    <3>1. fresh \subseteq Txids
      BY <1>0, <1>1 DEF Caches
    <3> QED
      BY <1>0, <1>3, <3>1 DEF Modified, fresh, Caches, Contents
  <2>3. new.coins[t] = c /\ \A x \in Txids \ {t} : new.coins[x] = cache.coins[x]
    BY <1>0, <2>1
  <2>4. CacheOK(new, base)
    BY <1>0, <1>1, <2>1, <2>2, <2>3 DEF CacheOK
  <2>5. Shown(new, base) = [Shown(cache, base) EXCEPT ![t] = c]
    BY <2>1, <2>3 DEF Shown
  <2> QED
    BY <1>1, <2>1, <2>4, <2>5
<1> QED
  BY <1>2, <1>3

\* BatchWrite: the parent shows what the child showed, and its flags stay right.
LEMMA BatchWrittenOK ==
    ASSUME NEW base \in Contents, NEW parent, CacheOK(parent, base),
           NEW child, CacheOK(child, Shown(parent, base)),
           child.have \ child.fresh \subseteq parent.have
    PROVE  /\ CacheOK(BatchWritten(child, parent), base)
           /\ Shown(BatchWritten(child, parent), base) = Shown(child, Shown(parent, base))
<1> DEFINE new == BatchWritten(child, parent)
           added == Added(child, parent)
           erased == Erased(child, parent)
           overwritten == Overwritten(child, parent)
<1>0. /\ parent.have \subseteq Txids /\ parent.coins \in [Txids -> Coins]
      /\ child.have \subseteq Txids /\ child.coins \in [Txids -> Coins]
      /\ parent.dirty \subseteq parent.have /\ parent.fresh \subseteq parent.have
      /\ child.dirty \subseteq child.have
  BY DEF CacheOK, Caches, Contents
<1>1. /\ added = {t \in child.dirty \ parent.have : child.coins[t] # Pruned}
      /\ erased = {t \in child.dirty \intersect parent.fresh : child.coins[t] = Pruned}
      /\ overwritten = (child.dirty \intersect parent.have) \ erased
  BY DEF Added, Erased, Overwritten
<1> HIDE DEF added, erased, overwritten
<1>2. /\ new.have = (parent.have \union added) \ erased
      /\ new.dirty = (parent.dirty \union added \union overwritten) \ erased
      /\ new.fresh = (parent.fresh \union added) \ erased
      /\ new.coins = [t \in Txids |-> IF t \in child.dirty THEN child.coins[t] ELSE parent.coins[t]]
  BY DEF BatchWritten, added, erased, overwritten
<1>3. new \in Caches
  <2>1. /\ new.have \subseteq Txids /\ new.dirty \subseteq Txids /\ new.fresh \subseteq Txids
        /\ new.coins \in Contents
    BY <1>0, <1>1, <1>2 DEF Contents
  <2> QED
    BY <2>1 DEF BatchWritten, Caches
<1>4. \A t \in added : base[t] = Pruned
  <2> SUFFICES ASSUME NEW t \in added PROVE base[t] = Pruned
    OBVIOUS
  <2>1. t \in child.fresh /\ t \notin parent.have /\ t \in Txids
    BY <1>0, <1>1
  <2>2. Shown(parent, base)[t] = Pruned
    BY <2>1 DEF CacheOK
  <2> QED
    BY <2>1, <2>2 DEF Shown
<1>5. CacheOK(new, base)
  <2>1. new.dirty \subseteq new.have /\ new.fresh \subseteq new.have
    BY <1>0, <1>1, <1>2
  <2>2. \A t \in Txids \ new.have : new.coins[t] = Pruned
    BY <1>0, <1>1, <1>2 DEF CacheOK
  <2>3. \A t \in new.fresh : base[t] = Pruned
    BY <1>2, <1>4 DEF CacheOK
  <2>4. \A t \in new.have \ new.dirty : new.coins[t] = base[t]
    BY <1>0, <1>1, <1>2 DEF CacheOK
  <2> QED
    BY <1>3, <2>1, <2>2, <2>3, <2>4 DEF CacheOK
<1>6. \A t \in Txids : Shown(new, base)[t] = Shown(child, Shown(parent, base))[t]
  <2> SUFFICES ASSUME NEW t \in Txids
               PROVE  Shown(new, base)[t] = Shown(child, Shown(parent, base))[t]
    OBVIOUS
  <2>1. /\ Shown(new, base)[t] = IF t \in new.have THEN new.coins[t] ELSE base[t]
        /\ Shown(parent, base)[t] = IF t \in parent.have THEN parent.coins[t] ELSE base[t]
        /\ Shown(child, Shown(parent, base))[t] =
              IF t \in child.have THEN child.coins[t] ELSE Shown(parent, base)[t]
    BY DEF Shown
  <2>2. CASE t \in child.dirty
    <3>1. CASE t \in new.have
      BY <1>0, <1>2, <2>1, <2>2, <3>1
    <3>2. CASE t \notin new.have /\ t \in parent.have
      <4>1. t \in erased
        BY <1>2, <3>2
      <4> QED
        BY <1>0, <1>1, <2>1, <2>2, <3>2, <4>1 DEF CacheOK
    <3>3. CASE t \notin new.have /\ t \notin parent.have
      <4>1. child.coins[t] = Pruned
        BY <1>0, <1>1, <1>2, <2>2, <3>3
      <4>2. t \in child.fresh
        BY <1>0, <2>2, <3>3
      <4> QED
        BY <1>0, <2>1, <2>2, <3>3, <4>1, <4>2 DEF CacheOK
    <3> QED
      BY <3>1, <3>2, <3>3
  <2>3. CASE t \notin child.dirty
    <3>1. Shown(child, Shown(parent, base))[t] = Shown(parent, base)[t]
      BY <2>1, <2>3 DEF CacheOK
    <3>2. t \in new.have <=> t \in parent.have
      BY <1>1, <1>2, <2>3
    <3> QED
      BY <1>2, <2>1, <2>3, <3>1, <3>2
  <2> QED
    BY <2>2, <2>3
<1> QED
  BY <1>5, <1>6 DEF Shown
-----------------------------------------------------------------------------
(***************************************************************************)
(* The invariant, and what each step is for CoinsViews.                    *)
(***************************************************************************)
\* GetCoins of the tip, on behalf of a reader or of the view.
LEMMA TipFetchedOK ==
    ASSUME IInv, NEW t \in Txids
    PROVE  /\ CacheOK(TipFetched(t), db) /\ Shown(TipFetched(t), db) = TipShown
           /\ tip.have \subseteq TipFetched(t).have
           /\ TipFetched(t).coins[t] = TipShown[t]
           /\ TipShown[t] # Pruned => t \in TipFetched(t).have
<1>1. db \in Contents /\ CacheOK(tip, db)
  BY DEF IInv, FrameOK
<1>2. TipShown[t] = IF t \in tip.have THEN tip.coins[t] ELSE db[t]
  BY DEF TipShown, Shown
<1>3. CASE t \in tip.have \/ db[t] = Pruned
  <2>1. TipFetched(t) = tip
    BY <1>3 DEF TipFetched, Fetched
  <2>2. tip.coins[t] = TipShown[t]
    BY <1>1, <1>2, <1>3 DEF CacheOK
  <2> QED
    BY <1>1, <1>2, <1>3, <2>1, <2>2 DEF TipShown
<1>4. CASE t \notin tip.have /\ db[t] # Pruned
  <2>1. TipFetched(t) = Entered(tip, t, db[t])
    BY <1>4 DEF TipFetched, Fetched
  <2>2. t \in Txids \ tip.have
    BY <1>4
  <2> QED
    BY <1>1, <1>2, <1>4, <2>1, <2>2, EnteredOK DEF TipShown
<1> QED
  BY <1>3, <1>4

LEMMA InitInv == Init => IInv
<1> SUFFICES ASSUME Init PROVE IInv
  OBVIOUS
<1>1. NoCoins \in Contents
  BY CoinsAssumption DEF NoCoins, Contents
<1>2. CacheOK(tip, db) /\ TipShown = NoCoins /\ CacheOK(view, TipShown) /\ ViewShown = NoCoins
  BY <1>1, EmptyOK DEF Init, TipShown, ViewShown
<1>3. FrameOK
  BY <1>1, CoinsAssumption DEF Init, FrameOK
<1>4. ViewPhase /\ StateOfBest /\ ParentHasEntry
  BY <1>2, CoinsAssumption DEF Init, ViewPhase, StateOfBest, ParentHasEntry, EmptyCache, TipBest, Best
<1> QED
  BY <1>2, <1>3, <1>4 DEF IInv

\* What is seen through the caches has the right type.
LEMMA Seen ==
    ASSUME IInv
    PROVE  TipShown \in Contents /\ ViewShown \in Contents /\ TipBest \in Hashes /\ ViewBest \in Hashes
<1>1. TipShown \in Contents
  BY ShownContents DEF IInv, FrameOK, CacheOK, TipShown
<1>2. ViewShown \in Contents
  BY <1>1, ShownContents DEF IInv, CacheOK, ViewShown
<1> QED
  BY <1>1, <1>2 DEF IInv, FrameOK, TipBest, ViewBest, Best

\* Reads fill the caches and change nothing that is seen.
LEMMA Reads ==
    ASSUME IInv, NEW t \in Txids, ReadTip(t) \/ ReadView(t)
    PROVE  IInv' /\ UNCHANGED Views!vars
<1>1. /\ CacheOK(tip', db) /\ Shown(tip', db) = TipShown /\ tip.have \subseteq tip'.have
      /\ UNCHANGED <<db, dbBest, tipHash, viewHash, pc, state, failures>>
  BY TipFetchedOK DEF ReadTip, ReadView, IInv, TipShown
<1>2. TipShown' = TipShown /\ TipBest' = TipBest
  BY <1>1 DEF TipShown, TipBest
<1>3. /\ CacheOK(view', TipShown) /\ Shown(view', TipShown) = ViewShown
      /\ view'.have \ view'.fresh \subseteq tip'.have
      /\ pc = "none" => view' = view
  <2>1. CASE view' = view
    BY <1>1, <2>1 DEF IInv, ParentHasEntry, ViewShown
  <2>2. CASE view' # view
    <3>1. ReadView(t) /\ t \notin view.have /\ t \in TipFetched(t).have
      BY <2>2 DEF ReadTip, ReadView, ViewFetched, Fetched
    <3>2. view' = Entered(view, t, TipShown[t]) /\ t \in tip'.have
      BY <3>1, TipFetchedOK DEF ReadView, ViewFetched, Fetched
    <3>3. TipShown \in Contents /\ CacheOK(view, TipShown) /\ t \in Txids \ view.have
      BY <3>1, Seen DEF IInv
    <3>4. /\ CacheOK(view', TipShown) /\ Shown(view', TipShown) = Shown(view, TipShown)
          /\ view'.have \ view'.fresh \subseteq (view.have \ view.fresh) \union {t}
      BY <3>2, <3>3, EnteredOK
    <3> QED
      BY <1>1, <3>1, <3>2, <3>4 DEF IInv, ParentHasEntry, ViewShown, ReadView
  <2> QED
    BY <2>1, <2>2
<1>4. ViewShown' = ViewShown /\ ViewBest' = ViewBest
  BY <1>1, <1>2, <1>3 DEF ViewShown, ViewBest
<1>5. FrameOK' /\ CacheOK(tip, db)' /\ CacheOK(view, TipShown)' /\ ParentHasEntry'
  BY <1>1, <1>2, <1>3 DEF IInv, FrameOK, ParentHasEntry
<1>6. ViewPhase' /\ StateOfBest'
  BY <1>1, <1>2, <1>3, <1>4 DEF IInv, ViewPhase, StateOfBest
<1> QED
  BY <1>1, <1>2, <1>4, <1>5, <1>6 DEF IInv, Views!vars

\* GetBestBlock keeps what it returns.
LEMMA BestReads ==
    ASSUME IInv, ReadTipBest \/ ReadViewBest \/ OpenView
    PROVE  /\ IInv'
           /\ UNCHANGED <<db, dbBest, TipShown, TipBest, ViewShown, ViewBest, state>>
<1>1. /\ UNCHANGED <<db, dbBest, tip, view, state, failures>>
      /\ TipShown' = TipShown /\ ViewShown' = ViewShown
  BY DEF ReadTipBest, ReadViewBest, OpenView, TipShown, ViewShown
<1>2. /\ tipHash' \in {tipHash, TipBest} /\ (tipHash # NoHash => tipHash' = tipHash)
      /\ viewHash' \in {viewHash, ViewBest}
      /\ viewHash # NoHash => viewHash' = viewHash
      /\ viewHash' # viewHash => pc' = "read"
      /\ pc' \in {"none", "open", "read", "set"} /\ (pc' = "none" => pc = "none")
      /\ pc' = "set" => pc = "set"
  BY Seen, CoinsAssumption
  DEF ReadTipBest, ReadViewBest, OpenView, IInv, FrameOK, TipBest, ViewBest, Best
<1>3. TipBest' = TipBest
  BY <1>1, <1>2, Seen, CoinsAssumption DEF TipBest, Best
<1>4. ViewBest' = ViewBest
  BY <1>1, <1>2, <1>3, Seen, CoinsAssumption DEF ViewBest, Best
<1>5. FrameOK'
  BY <1>1, <1>2, Seen DEF IInv, FrameOK
<1>6. ViewPhase' /\ StateOfBest' /\ ParentHasEntry'
  BY <1>1, <1>2, <1>3 DEF IInv, ViewPhase, StateOfBest, ParentHasEntry
<1> QED
  BY <1>1, <1>3, <1>4, <1>5, <1>6 DEF IInv

\* A change in the view is a change of what it shows.
LEMMA Changes ==
    ASSUME IInv, NEW t \in Txids, NEW c \in Coins, ModifyView(t, c)
    PROVE  IInv' /\ Views!Modify(t, c)
<1>1. /\ CacheOK(tip', db) /\ Shown(tip', db) = TipShown /\ tip.have \subseteq tip'.have
      /\ pc \in {"open", "read"}
      /\ UNCHANGED <<db, dbBest, tipHash, viewHash, pc, state, failures>>
  BY TipFetchedOK DEF ModifyView, IInv, TipShown
<1>2. TipShown' = TipShown /\ TipBest' = TipBest
  BY <1>1 DEF TipShown, TipBest
<1>3. view' = Modified(view, t, TipShown[t], c)
  BY TipFetchedOK DEF ModifyView
<1>4. TipShown \in Contents /\ CacheOK(view, TipShown)
  BY Seen DEF IInv
<1>5. /\ CacheOK(view', TipShown)
      /\ Shown(view', TipShown) = [Shown(view, TipShown) EXCEPT ![t] = c]
      /\ view'.have \ view'.fresh \subseteq (view.have \ view.fresh) \union {t}
      /\ t \in view'.have \ view'.fresh =>
            t \in view.have \ view.fresh \/ (t \notin view.have /\ TipShown[t] # Pruned)
  BY <1>3, <1>4, ModifiedOK
<1>6. view'.have \ view'.fresh \subseteq tip'.have
  <2>1. t \notin view.have /\ TipShown[t] # Pruned => t \in tip'.have
    BY TipFetchedOK DEF ModifyView
  <2> QED
    BY <1>1, <1>5, <2>1 DEF IInv, ParentHasEntry
<1>7. ViewShown' = [ViewShown EXCEPT ![t] = c] /\ ViewBest' = ViewBest
  BY <1>1, <1>2, <1>5 DEF ViewShown, ViewBest
<1>8. FrameOK' /\ CacheOK(tip, db)' /\ CacheOK(view, TipShown)' /\ ParentHasEntry'
  BY <1>1, <1>2, <1>5, <1>6 DEF IInv, FrameOK, ParentHasEntry
<1>9. ViewPhase' /\ StateOfBest'
  BY <1>1, <1>2 DEF IInv, ViewPhase, StateOfBest
<1> QED
  BY <1>1, <1>2, <1>7, <1>8, <1>9 DEF IInv, Views!Modify

\* SetBestBlock says whose state the view is.
LEMMA SetsBest ==
    ASSUME IInv, NEW h \in Hashes, SetBestBlock(h)
    PROVE  IInv' /\ Views!SetBest(h)
<1>1. /\ pc = "read" /\ pc' = "set" /\ viewHash' = h
      /\ state[h] \subseteq {ViewShown} /\ state' = [state EXCEPT ![h] = {ViewShown}]
      /\ UNCHANGED <<db, dbBest, tip, tipHash, view, failures>>
  BY DEF SetBestBlock
<1>2. TipShown' = TipShown /\ ViewShown' = ViewShown /\ TipBest' = TipBest /\ ViewBest' = h
  BY <1>1, CoinsAssumption DEF TipShown, ViewShown, TipBest, ViewBest, Best
<1>3. \A x \in Hashes : \A m : state[x] = {m} => state'[x] = {m}
  BY <1>1 DEF IInv, FrameOK
<1>4. FrameOK' /\ state'[h] = {ViewShown}
  BY <1>1, Seen DEF IInv, FrameOK
<1>5. StateOfBest'
  BY <1>1, <1>2, <1>3, Seen DEF IInv, FrameOK, StateOfBest
<1>6. ViewPhase' /\ ParentHasEntry'
  BY <1>1, <1>2, <1>4 DEF IInv, ViewPhase, ParentHasEntry
<1> QED
  BY <1>1, <1>2, <1>4, <1>5, <1>6 DEF IInv, Views!SetBest

\* The view is handed down, or dropped.
LEMMA ViewEnds ==
    ASSUME IInv, FlushView \/ CloseView
    PROVE  IInv' /\ (Views!Merge \/ Views!Drop)
<1>0. /\ db \in Contents /\ CacheOK(tip, db) /\ CacheOK(view, TipShown)
      /\ view.have \ view.fresh \subseteq tip.have
  BY DEF IInv, FrameOK, ParentHasEntry
<1>1. /\ pc # "none" /\ pc' = "none" /\ view' = EmptyCache /\ viewHash' = NoHash
      /\ UNCHANGED <<db, dbBest, state, failures>>
  BY DEF FlushView, CloseView
<1>2. ASSUME TipShown' \in Contents
      PROVE  ViewShown' = TipShown' /\ ViewBest' = TipBest' /\ CacheOK(view', TipShown')
  BY <1>1, <1>2, EmptyOK DEF ViewShown, ViewBest, Best
<1>3. CASE FlushView
  <2>1. /\ pc = "set" /\ tip' = BatchWritten(view, tip) /\ tipHash' = viewHash
        /\ viewHash \in Hashes /\ state[viewHash] = {ViewShown}
    BY <1>3 DEF FlushView, IInv, ViewPhase
  <2>2. CacheOK(tip', db) /\ Shown(tip', db) = ViewShown
    BY <1>0, <2>1, BatchWrittenOK DEF TipShown, ViewShown
  <2>3. TipShown' = ViewShown /\ TipBest' = viewHash /\ ViewBest = viewHash
    BY <1>1, <2>1, <2>2, CoinsAssumption DEF TipShown, TipBest, ViewBest, Best
  <2>4. FrameOK' /\ ViewPhase' /\ StateOfBest' /\ ParentHasEntry'
    BY <1>1, <2>1, <2>3
    DEF IInv, FrameOK, ViewPhase, StateOfBest, ParentHasEntry, EmptyCache
  <2>5. ViewShown' = ViewShown /\ ViewBest' = ViewBest /\ CacheOK(view', TipShown')
    BY <1>2, <2>3, Seen
  <2> QED
    BY <1>1, <2>1, <2>2, <2>3, <2>4, <2>5 DEF IInv, Views!Merge
<1>4. CASE CloseView
  <2>1. tip' = tip /\ tipHash' = tipHash
    BY <1>4 DEF CloseView
  <2>2. TipShown' = TipShown /\ TipBest' = TipBest
    BY <1>1, <2>1 DEF TipShown, TipBest
  <2>3. FrameOK' /\ ViewPhase' /\ StateOfBest' /\ ParentHasEntry'
    BY <1>1, <2>1, <2>2
    DEF IInv, FrameOK, ViewPhase, StateOfBest, ParentHasEntry, EmptyCache
  <2>4. ViewShown' = TipShown /\ ViewBest' = TipBest /\ CacheOK(view', TipShown')
    BY <1>2, <2>2, Seen
  <2> QED
    BY <1>0, <1>1, <2>1, <2>2, <2>3, <2>4 DEF IInv, Views!Drop
<1> QED
  BY <1>3, <1>4

\* The tip is written, with or without success, or lost with the process.
LEMMA TipEnds ==
    ASSUME IInv, FlushTip \/ FlushTipFails \/ Restart
    PROVE  IInv' /\ (Views!Write \/ Views!WriteFails \/ Views!Restart)
<1>0. db \in Contents /\ CacheOK(tip, db)
  BY DEF IInv, FrameOK
<1>1. /\ tip' = EmptyCache /\ view' = EmptyCache /\ viewHash' = NoHash /\ pc' = "none"
      /\ state' = state
  BY DEF FlushTip, FlushTipFails, Restart, IInv, ViewPhase
<1>2. ASSUME db' \in Contents
      PROVE  /\ TipShown' = db' /\ ViewShown' = db' /\ ViewBest' = TipBest'
             /\ CacheOK(tip', db') /\ CacheOK(view', TipShown')
  <2>1. Shown(EmptyCache, db') = db' /\ CacheOK(EmptyCache, db')
    BY <1>2, EmptyOK
  <2> QED
    BY <1>1, <2>1 DEF TipShown, ViewShown, ViewBest, Best
<1>3. ViewPhase' /\ ParentHasEntry'
  BY <1>1 DEF ViewPhase, ParentHasEntry, EmptyCache
<1>4. CASE FlushTip
  <2>1. /\ db' = [t \in Txids |-> IF t \in tip.dirty THEN tip.coins[t] ELSE db[t]]
        /\ dbBest' = TipBest /\ pc = "none"
        /\ UNCHANGED <<tipHash, view, viewHash, failures>>
    BY <1>4 DEF FlushTip
  <2>2. \A t \in Txids : (IF t \in tip.dirty THEN tip.coins[t] ELSE db[t])
                       = (IF t \in tip.have THEN tip.coins[t] ELSE db[t])
    BY <1>0 DEF CacheOK
  <2>3. db' = TipShown
    BY <2>1, <2>2 DEF TipShown, Shown
  <2>4. TipShown' = TipShown /\ TipBest' = TipBest
    BY <1>2, <2>1, <2>3, Seen DEF TipBest, Best
  <2>5. view = EmptyCache /\ viewHash = NoHash
    BY <2>1 DEF IInv, ViewPhase
  <2>6. ViewShown = TipShown /\ ViewBest = TipBest
    BY <2>5, EmptyOK, Seen DEF ViewShown, ViewBest, Best
  <2>7. FrameOK' /\ StateOfBest'
    BY <1>1, <2>1, <2>3, <2>4, Seen DEF IInv, FrameOK, StateOfBest
  <2> QED
    BY <1>1, <1>2, <1>3, <2>1, <2>3, <2>4, <2>6, <2>7, Seen DEF IInv, Views!Write
<1>5. CASE FlushTipFails
  <2>1. /\ pc = "none" /\ failures < MaxFailures /\ failures' = failures + 1
        /\ UNCHANGED <<db, dbBest, tipHash, view, viewHash>>
    BY <1>5 DEF FlushTipFails
  <2>2. view = EmptyCache /\ viewHash = NoHash /\ failures \in 0 .. MaxFailures
    BY <2>1 DEF IInv, ViewPhase, FrameOK
  <2>3. failures' \in 0 .. MaxFailures /\ failures' # 0
    BY <2>1, <2>2, CoinsAssumption
  <2>4. TipBest' = TipBest /\ ViewBest = TipBest
    BY <2>1, <2>2 DEF TipBest, ViewBest, Best
  <2>5. FrameOK' /\ StateOfBest'
    BY <1>1, <2>1, <2>3 DEF IInv, FrameOK, StateOfBest
  <2> QED
    BY <1>0, <1>1, <1>2, <1>3, <2>1, <2>4, <2>5 DEF IInv, Views!WriteFails, Views!Contents, Contents
<1>6. CASE Restart
  <2>1. tipHash' = NoHash /\ UNCHANGED <<db, dbBest, failures>>
    BY <1>6 DEF Restart
  <2>2. TipBest' = dbBest
    BY <2>1 DEF TipBest, Best
  <2>3. FrameOK' /\ StateOfBest'
    BY <1>0, <1>1, <1>2, <2>1, <2>2 DEF IInv, FrameOK, StateOfBest
  <2> QED
    BY <1>0, <1>1, <1>2, <1>3, <2>1, <2>2, <2>3 DEF IInv, Views!Restart
<1> QED
  BY <1>4, <1>5, <1>6

LEMMA NextInv ==
    ASSUME IInv, [Next]_vars
    PROVE  IInv' /\ [Views!Next]_(Views!vars)
<1>1. CASE UNCHANGED vars
  <2>1. IInv'
    BY <1>1
    DEF vars, IInv, FrameOK, CacheOK, ParentHasEntry, ViewPhase, StateOfBest, TipShown, ViewShown,
        Shown, TipBest, Best
  <2>2. UNCHANGED Views!vars
    BY <1>1 DEF vars, Views!vars, TipShown, ViewShown, Shown, TipBest, ViewBest, Best
  <2> QED
    BY <2>1, <2>2
<1>2. ASSUME NEW t \in Txids, ReadTip(t) \/ ReadView(t) PROVE IInv' /\ UNCHANGED Views!vars
  BY <1>2, Reads
<1>3. ASSUME NEW t \in Txids, NEW c \in Coins, ModifyView(t, c) PROVE IInv' /\ Views!Next
  BY <1>3, Changes DEF Views!Next
<1>4. CASE ReadTipBest \/ ReadViewBest
  <2>1. IInv' /\ UNCHANGED <<db, dbBest, TipShown, TipBest, ViewShown, ViewBest, state>>
    BY <1>4, BestReads
  <2>2. (pc # "none")' = (pc # "none")
    BY <1>4 DEF ReadTipBest, ReadViewBest
  <2> QED
    BY <2>1, <2>2 DEF Views!vars
<1>5. CASE OpenView
  <2>1. IInv' /\ UNCHANGED <<db, dbBest, TipShown, TipBest, ViewShown, ViewBest, state>>
    BY <1>5, BestReads
  <2>2. Views!Open
    BY <1>5, <2>1 DEF OpenView, Views!Open
  <2> QED
    BY <2>1, <2>2 DEF Views!Next
<1>6. ASSUME NEW h \in Hashes, SetBestBlock(h) PROVE IInv' /\ Views!Next
  BY <1>6, SetsBest DEF Views!Next
<1>7. CASE FlushView \/ CloseView
  BY <1>7, ViewEnds DEF Views!Next
<1>8. CASE FlushTip \/ FlushTipFails \/ Restart
  BY <1>8, TipEnds DEF Views!Next
<1> QED
  BY <1>1, <1>2, <1>3, <1>4, <1>5, <1>6, <1>7, <1>8 DEF Next

\* The invariant of the caches holds in every state.
THEOREM Invariance == Spec => []IInv
<1>1. IInv /\ [Next]_vars => IInv'
  BY NextInv
<1> QED
  BY <1>1, InitInv, PTL DEF Spec
-----------------------------------------------------------------------------
\* Types, and entries that are not there have no flags.
THEOREM TypeCorrect == Spec => []TypeOK
<1>1. IInv => TypeOK
  BY DEF IInv, FrameOK, CacheOK, TypeOK
<1> QED
  BY <1>1, Invariance, PTL

\* The flags FRESH and DIRTY mean what CCoinsCacheEntry says, in both caches.
THEOREM FlagsAreRight == Spec => []FlagsRight
<1>1. IInv => FlagsRight
  BY DEF IInv, CacheOK, FreshAbsentBelow, CleanEqualsBase, FlagsRight
<1> QED
  BY <1>1, Invariance, PTL

\* The assertion in BatchWrite never fails.
THEOREM AssertionHolds == Spec => []ParentHasEntry
<1>1. IInv => ParentHasEntry
  BY DEF IInv
<1> QED
  BY <1>1, Invariance, PTL

\* As long as no write fails, database and tip are the states of their best blocks.
THEOREM BestBlockIsRight == Spec => []StateOfBest
<1>1. IInv => StateOfBest
  BY DEF IInv
<1> QED
  BY <1>1, Invariance, PTL

\* The caches with their flags implement the views as whole sets of coins.
THEOREM Refinement == Spec => RefinesViews
<1>1. Init => Views!Init
  <2> SUFFICES ASSUME Init PROVE Views!Init
    OBVIOUS
  <2>1. NoCoins \in Contents /\ Views!NoCoins = NoCoins
    BY CoinsAssumption DEF NoCoins, Contents, Views!NoCoins
  <2>2. TipShown = NoCoins /\ ViewShown = NoCoins
    BY <2>1, EmptyOK DEF Init, TipShown, ViewShown
  <2>3. TipBest = Genesis /\ ViewBest = Genesis
    BY DEF Init, TipBest, ViewBest, Best
  <2> QED
    BY <2>1, <2>2, <2>3 DEF Init, Views!Init
<1>2. IInv /\ [Next]_vars => [Views!Next]_(Views!vars)
  BY NextInv
<1> QED
  BY <1>1, <1>2, Invariance, PTL DEF Spec, RefinesViews, Views!Spec
=============================================================================
