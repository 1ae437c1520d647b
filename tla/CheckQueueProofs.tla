-------------------------- MODULE CheckQueueProofs --------------------------
(***************************************************************************)
(* Proofs, for any number of threads and checks and any batch size, that   *)
(* the script-check queue of CheckQueue.tla keeps its counters exact, is   *)
(* idle between two blocks, holds no check after Wait() and returns the    *)
(* right verdict.                                                          *)
(***************************************************************************)
EXTENDS CheckQueue, FiniteSetTheorems, TLAPS

(***************************************************************************)
(* The inductive invariant.                                                *)
(***************************************************************************)
Typed ==
    /\ queue \subseteq Checks
    /\ nIdle \in Nat /\ nTotal \in Int /\ nTodo \in Int
    /\ fAllOk \in BOOLEAN /\ shutdown \in BOOLEAN /\ inDestructor \in BOOLEAN
    /\ result \in BOOLEAN
    /\ batch \in [Threads -> SUBSET Checks]
    /\ fOk \in [Threads -> BOOLEAN]
    /\ pc \in [Threads -> WorkerPCs \union MasterPCs]
    /\ pc[Master] \in MasterPCs
    /\ \A w \in Workers : pc[w] \in WorkerPCs
    /\ notified \subseteq Threads
    /\ interrupt \subseteq Threads
    /\ added \subseteq Checks

\* nIdle counts the threads in cond.wait(), and those an interruption removed.
Waiting == {t \in Threads : pc[t] = "wait"}
IdleCount == nIdle >= Cardinality(Waiting)

\* A thread holds checks exactly from taking them to reporting them.
HoldsWhileBusy == \A t \in Threads : batch[t] # {} <=> t \in Busy

\* A negative result, global or local, comes from a bad check; a positive one
\* vouches for every check that has been accounted for.
VerdictSoFar ==
    /\ queue \union InHand \subseteq added
    /\ ~fAllOk => added \intersect Bad # {}
    /\ fAllOk /\ pc[Master] # "returned" =>
          (added \ (queue \union InHand)) \intersect Bad = {}
    /\ \A t \in Busy : ~fOk[t] => added \intersect Bad # {}
    /\ \A t \in Threads : pc[t] = "done" /\ fOk[t] => batch[t] \intersect Bad = {}

\* Nothing is pending without a control object, or after its Wait().
Quiet ==
    /\ pc[Master] \in {"outside", "returned"} => nTodo = 0 /\ fAllOk
    /\ pc[Master] = "returned" => (result <=> added \intersect Bad = {})

IInv == Typed /\ IdleCount /\ Accounting /\ HoldsWhileBusy /\ VerdictSoFar /\ Quiet
-----------------------------------------------------------------------------
(***************************************************************************)
(* Finite sets.                                                            *)
(***************************************************************************)
LEMMA ThreadsFinite == IsFiniteSet(Threads) /\ Master \in Threads
  BY CheckQueueAssumption, FS_AddElement DEF Threads

\* Subsets of the threads and of the checks have a size.
LEMMA FiniteParts ==
  /\ \A S \in SUBSET Threads : IsFiniteSet(S) /\ Cardinality(S) \in Nat
  /\ \A S \in SUBSET Checks : IsFiniteSet(S) /\ Cardinality(S) \in Nat
  BY CheckQueueAssumption, ThreadsFinite, FS_Subset, FS_CardinalityType

\* Cardinality of the union of two disjoint finite sets.
LEMMA DisjointUnion ==
  ASSUME NEW S, NEW T, IsFiniteSet(S), IsFiniteSet(T), S \intersect T = {}
  PROVE  Cardinality(S \union T) = Cardinality(S) + Cardinality(T)
  <1>1. Cardinality(S) \in Nat /\ Cardinality(T) \in Nat
    BY FS_CardinalityType
  <1>2. Cardinality(S \union T)
          = Cardinality(S) + Cardinality(T) - Cardinality(S \intersect T)
    BY FS_Union
  <1> QED BY <1>1, <1>2, FS_EmptySet

\* The checks in the hands of the threads other than t.
Others(t) == UNION {batch[u] : u \in Threads \ {t}}

\* The hands are t's own batch and the others', which are disjoint.
LEMMA HandSplit ==
  ASSUME Typed, NEW t \in Threads,
         \A u, v \in Threads : u # v => batch[u] \intersect batch[v] = {}
  PROVE  /\ InHand = Others(t) \union batch[t]
         /\ Others(t) \intersect batch[t] = {}
         /\ Others(t) \subseteq Checks /\ InHand \subseteq Checks
         /\ Cardinality(InHand) = Cardinality(Others(t)) + Cardinality(batch[t])
  <1>1. InHand = Others(t) \union batch[t]
    BY DEF InHand, Others
  <1>2. Others(t) \intersect batch[t] = {}
    BY DEF Others
  <1>3. Others(t) \subseteq Checks /\ InHand \subseteq Checks /\ batch[t] \subseteq Checks
    BY DEF Others, InHand, Typed
  <1> QED BY <1>1, <1>2, <1>3, FiniteParts, DisjointUnion

\* Giving t a new batch leaves the others' batches alone.
LEMMA HandUpdate ==
  ASSUME Typed, NEW t \in Threads, NEW b \in SUBSET Checks,
         \A u, v \in Threads : u # v => batch[u] \intersect batch[v] = {},
         b \intersect Others(t) = {},
         batch' = [batch EXCEPT ![t] = b]
  PROVE  /\ batch' \in [Threads -> SUBSET Checks]
         /\ InHand' = Others(t) \union b
         /\ Cardinality(InHand') = Cardinality(Others(t)) + Cardinality(b)
         /\ \A u, v \in Threads : u # v => batch'[u] \intersect batch'[v] = {}
  <1>1. batch' \in [Threads -> SUBSET Checks]
    BY DEF Typed
  <1>2. batch'[t] = b /\ \A u \in Threads \ {t} : batch'[u] = batch[u]
    BY DEF Typed
  <1>3. InHand' = Others(t) \union b
    BY <1>2 DEF InHand, Others
  <1>4. \A u \in Threads \ {t} : batch[u] \subseteq Others(t)
    BY DEF Others
  <1>5. \A u, v \in Threads : u # v => batch'[u] \intersect batch'[v] = {}
    BY <1>2, <1>4
  <1>6. Others(t) \subseteq Checks
    BY DEF Others, Typed
  <1> QED BY <1>1, <1>3, <1>5, <1>6, FiniteParts, DisjointUnion

\* ... in particular when it is the empty batch.
LEMMA HandDrop ==
  ASSUME Typed, NEW t \in Threads,
         \A u, v \in Threads : u # v => batch[u] \intersect batch[v] = {},
         batch' = [batch EXCEPT ![t] = {}]
  PROVE  /\ batch' \in [Threads -> SUBSET Checks]
         /\ InHand' = Others(t)
         /\ \A u, v \in Threads : u # v => batch'[u] \intersect batch'[v] = {}
  <1>1. PICK b \in SUBSET Checks : b = {}
    OBVIOUS
  <1>2. b \intersect Others(t) = {} /\ batch' = [batch EXCEPT ![t] = b]
    BY <1>1
  <1>3. InHand' = Others(t) \union b
    BY <1>2, HandUpdate
  <1> QED BY <1>1, <1>2, <1>3, HandUpdate
-----------------------------------------------------------------------------
(***************************************************************************)
(* The state inside a critical section, once the clean-up of the previous  *)
(* iteration is done and t counts neither as busy nor as idle.             *)
(***************************************************************************)
Clean(t, todo, allOk, total, idle, notif) ==
    /\ pc[t] \in {"start", "done", "wait"}
    /\ todo = Cardinality(queue) + Cardinality(Others(t))
    /\ total = idle + 1 + Cardinality(Busy \ {t})
    /\ idle \in Nat /\ idle >= Cardinality(Waiting \ {t})
    /\ allOk \in BOOLEAN
    /\ notif \subseteq Threads
    /\ ~allOk => added \intersect Bad # {}
    /\ allOk /\ pc[Master] # "returned" =>
          (added \ (queue \union Others(t))) \intersect Bad = {}
    /\ pc[Master] \in {"outside", "returned"} => todo = 0 /\ allOk

\* Facts about t and the sets it belongs to that all three outcomes need.
LEMMA CleanFacts ==
  ASSUME IInv, NEW t \in Threads, NEW todo, NEW allOk, NEW total, NEW idle, NEW notif,
         Clean(t, todo, allOk, total, idle, notif)
  PROVE  /\ todo \in Nat /\ total \in Nat
         /\ Others(t) \intersect queue = {}
         /\ queue \union Others(t) \subseteq added
         /\ Others(t) \subseteq Checks
         /\ todo = 0 => queue = {} /\ Others(t) = {}
         /\ t = Master => pc[Master] \notin {"outside", "returned"}
         /\ Cardinality(Busy \ {t}) \in Nat
         /\ Cardinality(Waiting \ {t}) \in Nat
  <1>1. Others(t) \subseteq InHand /\ Others(t) \subseteq Checks
    BY DEF IInv, Typed, Others, InHand
  <1>2. Cardinality(queue) \in Nat /\ Cardinality(Others(t)) \in Nat
    BY <1>1, FiniteParts DEF IInv, Typed
  <1>3. Busy \ {t} \in SUBSET Threads /\ Waiting \ {t} \in SUBSET Threads
    BY DEF Busy, Waiting
  <1>4. Cardinality(Busy \ {t}) \in Nat /\ Cardinality(Waiting \ {t}) \in Nat
    BY <1>3, FiniteParts
  <1>5. todo \in Nat /\ total \in Nat
    BY <1>2, <1>4 DEF Clean
  <1>6. todo = 0 => queue = {} /\ Others(t) = {}
    <2>1. todo = 0 => Cardinality(queue) = 0 /\ Cardinality(Others(t)) = 0
      BY <1>2 DEF Clean
    <2>2. IsFiniteSet(queue) /\ IsFiniteSet(Others(t))
      BY <1>1, FiniteParts DEF IInv, Typed
    <2> QED BY <2>1, <2>2, FS_EmptySet
  <1>7. Others(t) \intersect queue = {} /\ queue \union Others(t) \subseteq added
    BY <1>1 DEF IInv, Accounting, VerdictSoFar
  <1> QED BY <1>1, <1>4, <1>5, <1>6, <1>7 DEF Clean

\* t takes a batch: it becomes busy, and the checks change hands.
LEMMA TakeBatchInv ==
  ASSUME IInv, NEW t \in Threads, NEW todo, NEW allOk, NEW total, NEW idle, NEW notif,
         Clean(t, todo, allOk, total, idle, notif),
         TakeBatch(t, todo, allOk, total, idle, notif)
  PROVE  IInv'
  <1> USE CleanFacts
  <1>1. PICK b \in SUBSET queue :
          /\ Cardinality(b) = BatchSize(total, idle)
          /\ queue' = queue \ b
          /\ batch' = [batch EXCEPT ![t] = b]
    BY DEF TakeBatch
  <1>2. b \subseteq Checks /\ queue \subseteq Checks /\ b \intersect Others(t) = {}
    BY DEF IInv, Typed
  <1>3. /\ InHand' = Others(t) \union b
        /\ Cardinality(InHand') = Cardinality(Others(t)) + Cardinality(b)
        /\ \A u, v \in Threads : u # v => batch'[u] \intersect batch'[v] = {}
        /\ batch' \in [Threads -> SUBSET Checks]
    BY <1>1, <1>2, HandUpdate DEF IInv, Accounting
  <1>4. b # {}
    <2>1. Cardinality(queue) \in Nat
      BY <1>2, FiniteParts
    <2>2. BatchSize(total, idle) # 0
      BY <2>1, CheckQueueAssumption DEF BatchSize, Clean
    <2> QED BY <1>1, <2>2, FS_EmptySet
  <1>5. Cardinality(queue') + Cardinality(b) = Cardinality(queue)
    <2>1. (queue \ b) \union b = queue /\ (queue \ b) \intersect b = {}
      OBVIOUS
    <2>2. IsFiniteSet(queue \ b) /\ IsFiniteSet(b)
      BY <1>2, FiniteParts
    <2> QED BY <1>1, <2>1, <2>2, DisjointUnion
  <1>6. pc' = [pc EXCEPT ![t] = "work"] /\ fOk' = [fOk EXCEPT ![t] = allOk]
    BY DEF TakeBatch
  <1>7. Busy' = (Busy \ {t}) \union {t} /\ Waiting' = Waiting \ {t}
    BY <1>6 DEF Busy, Waiting, IInv, Typed
  <1>8. Cardinality(Busy') = Cardinality(Busy \ {t}) + 1
    <2>1. IsFiniteSet(Busy \ {t})
      BY FiniteParts DEF Busy
    <2> QED BY <1>7, <2>1, FS_AddElement
  <1>9. Typed'
    BY <1>1, <1>2, <1>3, <1>6, ThreadsFinite
    DEF Typed, IInv, TakeBatch, Clean, WorkerPCs, MasterPCs, Threads
  <1>10. IdleCount'
    BY <1>7 DEF IdleCount, TakeBatch, Clean
  <1>11. Accounting'
    <2>1. nTodo' = Cardinality(queue') + Cardinality(InHand')
      <3>1. Cardinality(queue') \in Nat /\ Cardinality(b) \in Nat
              /\ Cardinality(Others(t)) \in Nat /\ Cardinality(queue) \in Nat
        BY <1>1, <1>2, FiniteParts
      <3> QED BY <3>1, <1>3, <1>5 DEF TakeBatch, Clean
    <2>2. queue' \intersect InHand' = {}
      BY <1>1, <1>3
    <2>3. nTotal' = nIdle' + Cardinality(Busy')
      BY <1>8 DEF TakeBatch, Clean
    <2> QED BY <1>3, <2>1, <2>2, <2>3 DEF Accounting
  <1>12. HoldsWhileBusy'
    BY <1>1, <1>4, <1>7 DEF HoldsWhileBusy, IInv, Typed
  <1>13. VerdictSoFar'
    <2>1. queue' \union InHand' = queue \union Others(t)
      BY <1>1, <1>3
    <2>2. added' = added /\ fAllOk' = allOk
      BY DEF TakeBatch
    <2>3. pc'[Master] # "returned" => pc[Master] # "returned"
      BY <1>6, ThreadsFinite DEF IInv, Typed
    <2>4. \A u \in Busy' : ~fOk'[u] => added' \intersect Bad # {}
      BY <1>6, <1>7, <2>2 DEF Clean, IInv, VerdictSoFar, Typed
    <2>5. \A u \in Threads : pc'[u] = "done" /\ fOk'[u] => batch'[u] \intersect Bad = {}
      BY <1>1, <1>6 DEF IInv, VerdictSoFar, Typed
    <2> QED BY <2>1, <2>2, <2>3, <2>4, <2>5 DEF Clean, VerdictSoFar
  <1>14. Quiet'
    <2>1. queue # {}
      BY DEF TakeBatch
    <2>2. pc[Master] \notin {"outside", "returned"}
      BY <2>1 DEF Clean
    <2> QED BY <1>6, <2>2, ThreadsFinite DEF Quiet, IInv, Typed
  <1> QED BY <1>9, <1>10, <1>11, <1>12, <1>13, <1>14 DEF IInv

\* The master leaves the loop with the verdict.
LEMMA ReturnResultInv ==
  ASSUME IInv, NEW t \in Threads, NEW todo, NEW allOk, NEW total, NEW idle, NEW notif,
         Clean(t, todo, allOk, total, idle, notif),
         ReturnResult(t, todo, allOk, total, idle, notif)
  PROVE  IInv'
  <1> USE CleanFacts
  <1>1. t = Master /\ todo = 0 /\ queue = {} /\ Others(t) = {}
    BY DEF ReturnResult
  <1>2. pc' = [pc EXCEPT ![t] = "returned"] /\ batch' = [batch EXCEPT ![t] = {}]
    BY DEF ReturnResult
  <1>3. /\ InHand' = Others(t)
        /\ \A u, v \in Threads : u # v => batch'[u] \intersect batch'[v] = {}
        /\ batch' \in [Threads -> SUBSET Checks]
    BY <1>2, HandDrop DEF IInv, Accounting
  <1>4. InHand' = {} /\ queue' = {}
    BY <1>1, <1>3 DEF ReturnResult
  <1>5. Busy' = Busy \ {t} /\ Waiting' = Waiting \ {t}
    BY <1>2 DEF Busy, Waiting, IInv, Typed
  <1>6. Typed'
    BY <1>1, <1>2, <1>3, ThreadsFinite, CheckQueueAssumption
    DEF Typed, IInv, ReturnResult, Clean, MasterPCs, Threads
  <1>7. IdleCount'
    BY <1>5 DEF IdleCount, ReturnResult, Clean
  <1>8. Accounting'
    <2>1. nTodo' = 0
      BY <1>1 DEF ReturnResult
    <2>2. nTotal' = nIdle' + Cardinality(Busy')
      <3>1. nTotal' = total - 1 /\ nIdle' = idle
        BY DEF ReturnResult
      <3>2. total = idle + 1 + Cardinality(Busy \ {t}) /\ idle \in Nat
              /\ Cardinality(Busy \ {t}) \in Nat
        BY DEF Clean
      <3> QED BY <3>1, <3>2, <1>5
    <2> QED BY <1>3, <1>4, <2>1, <2>2, FS_EmptySet DEF Accounting
  <1>9. HoldsWhileBusy'
    BY <1>2, <1>5 DEF HoldsWhileBusy, IInv, Typed
  <1>10. VerdictSoFar'
    <2>1. fAllOk' = TRUE /\ pc'[Master] = "returned"
      BY <1>1, <1>2 DEF ReturnResult, IInv, Typed
    <2>2. \A u \in Busy' : ~fOk'[u] => added' \intersect Bad # {}
      BY <1>5 DEF ReturnResult, IInv, VerdictSoFar
    <2>3. \A u \in Threads : pc'[u] = "done" /\ fOk'[u] => batch'[u] \intersect Bad = {}
      BY <1>2 DEF ReturnResult, IInv, VerdictSoFar, Typed
    <2> QED BY <1>4, <2>1, <2>2, <2>3 DEF VerdictSoFar
  <1>11. Quiet'
    <2>1. pc[Master] # "returned"
      BY <1>1
    <2>2. result' = allOk /\ added' = added /\ nTodo' = todo /\ fAllOk' = TRUE
      BY DEF ReturnResult
    <2>3. allOk <=> added \intersect Bad = {}
      BY <1>1, <2>1 DEF Clean
    <2> QED BY <1>1, <2>2, <2>3 DEF Quiet
  <1> QED BY <1>6, <1>7, <1>8, <1>9, <1>10, <1>11 DEF IInv

\* t has nothing to do: it waits, or an interruption takes it out of the loop.
LEMMA SleepInv ==
  ASSUME IInv, NEW t \in Threads, NEW todo, NEW allOk, NEW total, NEW idle, NEW notif,
         Clean(t, todo, allOk, total, idle, notif),
         Sleep(t, todo, allOk, total, idle, notif)
  PROVE  IInv'
  <1> USE CleanFacts
  <1> DEFINE p == IF t \in interrupt THEN ThrownTo(t) ELSE "wait"
  <1>1. /\ pc' = [pc EXCEPT ![t] = p]
        /\ p \in {"wait", "dead", "terminated", "unwind"}
        /\ t = Master => p # "dead"
        /\ t # Master => p \in {"wait", "dead"}
    <2>1. pc' = [pc EXCEPT ![t] = p]
      BY DEF Sleep
    <2>2. /\ p \in {"wait", "dead", "terminated", "unwind"}
          /\ t = Master => p # "dead"
          /\ t # Master => p \in {"wait", "dead"}
      BY DEF ThrownTo
    <2> QED BY <2>1, <2>2
  <1> HIDE DEF p
  <1>2. batch' = [batch EXCEPT ![t] = {}] /\ queue' = queue /\ queue = {}
    BY DEF Sleep
  <1>3. /\ InHand' = Others(t)
        /\ \A u, v \in Threads : u # v => batch'[u] \intersect batch'[v] = {}
        /\ batch' \in [Threads -> SUBSET Checks]
    BY <1>2, HandDrop DEF IInv, Accounting
  <1>4. InHand' = Others(t)
    BY <1>3
  <1>5. /\ Busy' = Busy \ {t}
        /\ Waiting' \subseteq (Waiting \ {t}) \union {t}
        /\ Waiting' \subseteq Threads
    BY <1>1 DEF Busy, Waiting, IInv, Typed
  <1>6. Typed'
    <2>1. /\ pc' \in [Threads -> WorkerPCs \union MasterPCs]
          /\ pc'[Master] \in MasterPCs
          /\ \A w \in Workers : pc'[w] \in WorkerPCs
      BY <1>1, ThreadsFinite, CheckQueueAssumption
      DEF Typed, IInv, MasterPCs, WorkerPCs, Threads
    <2>2. /\ queue' \subseteq Checks /\ added' \subseteq Checks
          /\ nIdle' \in Nat /\ nTotal' \in Int /\ nTodo' \in Int
          /\ notified' \subseteq Threads /\ interrupt' \subseteq Threads
      <3>1. todo \in Nat /\ total \in Nat /\ idle \in Nat
        BY DEF Clean
      <3>2. nIdle' = idle + 1 /\ nTotal' = total /\ nTodo' = todo
        BY DEF Sleep
      <3>3. queue' = queue /\ added' = added /\ notified' = notif
              /\ interrupt' = interrupt \ {t}
        BY DEF Sleep
      <3>4. notif \subseteq Threads
        BY DEF Clean
      <3> QED BY ONLY <3>1, <3>2, <3>3, <3>4, IInv DEF IInv, Typed
    <2>3. /\ fAllOk' \in BOOLEAN /\ shutdown' \in BOOLEAN /\ inDestructor' \in BOOLEAN
          /\ result' \in BOOLEAN /\ fOk' \in [Threads -> BOOLEAN]
      BY Zenon DEF Sleep, Clean, IInv, Typed
    <2> QED BY <1>3, <2>1, <2>2, <2>3 DEF Typed
  <1>7. IdleCount'
    <2>1. /\ IsFiniteSet((Waiting \ {t}) \union {t})
          /\ Cardinality((Waiting \ {t}) \union {t}) = Cardinality(Waiting \ {t}) + 1
      <3>1. IsFiniteSet(Waiting \ {t})
        BY FiniteParts DEF Waiting
      <3> QED BY <3>1, FS_AddElement
    <2>2. Cardinality(Waiting') <= Cardinality(Waiting \ {t}) + 1
      BY <1>5, <2>1, FS_Subset
    <2>3. Cardinality(Waiting') \in Nat
      BY <1>5, FiniteParts
    <2>4. nIdle' = idle + 1 /\ idle \in Nat /\ idle >= Cardinality(Waiting \ {t})
            /\ Cardinality(Waiting \ {t}) \in Nat
      BY DEF Sleep, Clean
    <2> QED BY <2>2, <2>3, <2>4 DEF IdleCount
  <1>8. Accounting'
    <2>1. nTodo' = Cardinality(queue') + Cardinality(InHand')
      BY <1>2, <1>4 DEF Sleep, Clean
    <2>2. nTotal' = nIdle' + Cardinality(Busy')
      BY <1>5 DEF Sleep, Clean
    <2> QED BY <1>2, <1>3, <2>1, <2>2 DEF Accounting
  <1>9. HoldsWhileBusy'
    BY <1>2, <1>5 DEF HoldsWhileBusy, IInv, Typed
  <1>10. VerdictSoFar'
    <2>1. fAllOk' = allOk /\ added' = added /\ fOk' = fOk
      BY DEF Sleep
    <2>2. pc'[Master] # "returned" => pc[Master] # "returned"
      BY <1>1, ThreadsFinite DEF IInv, Typed
    <2>3. \A u \in Busy' : ~fOk'[u] => added' \intersect Bad # {}
      BY <1>5, <2>1 DEF IInv, VerdictSoFar
    <2>4. \A u \in Threads : pc'[u] = "done" /\ fOk'[u] => batch'[u] \intersect Bad = {}
      BY <1>1, <1>2, <2>1 DEF IInv, VerdictSoFar, Typed
    <2> QED BY <1>2, <1>4, <2>1, <2>2, <2>3, <2>4 DEF VerdictSoFar, Clean
  <1>11. Quiet'
    BY <1>1, ThreadsFinite DEF Quiet, Sleep, Clean, IInv, Typed
  <1> QED BY <1>6, <1>7, <1>8, <1>9, <1>10, <1>11 DEF IInv

\* What follows the clean-up of CCheckQueue::Loop, given what the clean-up leaves.
LEMMA ProceedInv ==
  ASSUME IInv, NEW t \in Threads, NEW todo, NEW allOk, NEW total, NEW idle, NEW notif,
         Clean(t, todo, allOk, total, idle, notif),
         Proceed(t, todo, allOk, total, idle, notif)
  PROVE  IInv'
  BY TakeBatchInv, ReturnResultInv, SleepInv DEF Proceed

-----------------------------------------------------------------------------
(***************************************************************************)
(* The three ways into a critical section of the loop reach a clean state. *)
(***************************************************************************)
LEMMA EnterLoopInv ==
  ASSUME IInv, NEW t \in Threads, EnterLoop(t)
  PROVE  IInv'
  <1>1. t \notin Busy /\ batch[t] = {} /\ t \notin Waiting
    BY DEF EnterLoop, Busy, Waiting, IInv, HoldsWhileBusy
  <1>2. InHand = Others(t) /\ Busy \ {t} = Busy /\ Waiting \ {t} = Waiting
    BY <1>1, HandSplit DEF IInv, Accounting
  <1>3. Cardinality(Busy) \in Nat
    BY FiniteParts DEF Busy
  <1>4. nTotal + 1 = nIdle + 1 + Cardinality(Busy \ {t})
    BY <1>2, <1>3 DEF IInv, Typed, Accounting
  <1>5. Clean(t, nTodo, fAllOk, nTotal + 1, nIdle, notified)
    BY <1>2, <1>4
    DEF Clean, EnterLoop, IInv, Typed, IdleCount, Accounting, VerdictSoFar, Quiet
  <1> QED BY <1>5, ProceedInv DEF EnterLoop

\* A thread returns from cond.wait().
LEMMA WakeUpInv ==
  ASSUME IInv, NEW t \in Threads, WakeUp(t)
  PROVE  IInv'
  <1>1. t \notin Busy /\ batch[t] = {} /\ t \in Waiting
    BY DEF WakeUp, Busy, Waiting, IInv, HoldsWhileBusy
  <1>2. InHand = Others(t) /\ Busy \ {t} = Busy
    <2>1. InHand = Others(t) \union batch[t]
      BY HandSplit DEF IInv, Accounting
    <2> QED BY <1>1, <2>1
  <1>3. Cardinality(Busy) \in Nat
    BY FiniteParts DEF Busy
  <1>4. Cardinality(Waiting \ {t}) = Cardinality(Waiting) - 1
          /\ Cardinality(Waiting \ {t}) \in Nat /\ Cardinality(Waiting) \in Nat
    <2>1. IsFiniteSet(Waiting) /\ Waiting \in SUBSET Threads
      BY FiniteParts DEF Waiting
    <2> QED BY <1>1, <2>1, FS_RemoveElement, FiniteParts
  <1>5. /\ nTotal = (nIdle - 1) + 1 + Cardinality(Busy \ {t})
        /\ nIdle - 1 \in Nat /\ nIdle - 1 >= Cardinality(Waiting \ {t})
    BY <1>2, <1>3, <1>4 DEF IInv, Typed, IdleCount, Accounting
  <1>6. Clean(t, nTodo, fAllOk, nTotal, nIdle - 1, notified \ {t})
    BY <1>2, <1>5
    DEF Clean, WakeUp, IInv, Typed, Accounting, VerdictSoFar, Quiet
  <1> QED BY <1>6, ProceedInv DEF WakeUp

\* A thread reports the batch it has executed.
LEMMA ReportBatchInv ==
  ASSUME IInv, NEW t \in Threads, ReportBatch(t)
  PROVE  IInv'
  <1> DEFINE todo == nTodo - Cardinality(batch[t])
             allOk == fAllOk /\ fOk[t]
             notif == IF todo = 0 /\ t # Master THEN notified \union NotifyMaster
                                                 ELSE notified
  <1>1. t \in Busy /\ batch[t] # {} /\ t \notin Waiting /\ pc[t] = "done"
    BY DEF ReportBatch, Busy, Waiting, IInv, HoldsWhileBusy
  <1>2. /\ InHand = Others(t) \union batch[t]
        /\ Cardinality(InHand) = Cardinality(Others(t)) + Cardinality(batch[t])
        /\ Others(t) \subseteq Checks
    BY HandSplit DEF IInv, Accounting
  <1>3. Cardinality(Busy \ {t}) = Cardinality(Busy) - 1 /\ Cardinality(Busy) \in Nat
    <2>1. IsFiniteSet(Busy) /\ Busy \in SUBSET Threads
      BY FiniteParts DEF Busy
    <2> QED BY <1>1, <2>1, FS_RemoveElement, FiniteParts
  <1>4. Cardinality(Waiting \ {t}) = Cardinality(Waiting)
    <2>1. Waiting \ {t} = Waiting
      BY <1>1
    <2> QED BY <2>1
  <1>5. pc[Master] \notin {"outside", "returned"}
    <2>1. nTodo # 0
      <3>1. Cardinality(batch[t]) # 0 /\ Cardinality(batch[t]) \in Nat
        <4>1. batch[t] \subseteq Checks
          BY DEF IInv, Typed
        <4>2. IsFiniteSet(batch[t]) /\ Cardinality(batch[t]) \in Nat
          BY <4>1, FiniteParts
        <4> QED BY <1>1, <4>2, FS_EmptySet
      <3>2. Cardinality(queue) \in Nat /\ Cardinality(Others(t)) \in Nat
        BY <1>2, FiniteParts DEF IInv, Typed
      <3> QED BY <3>1, <3>2, <1>2 DEF IInv, Accounting
    <2> QED BY <2>1 DEF IInv, Quiet
  <1>6. todo = Cardinality(queue) + Cardinality(Others(t))
    <2>1. batch[t] \subseteq Checks /\ queue \subseteq Checks
      BY DEF IInv, Typed
    <2>2. Cardinality(queue) \in Nat /\ Cardinality(Others(t)) \in Nat
            /\ Cardinality(batch[t]) \in Nat
      BY <1>2, <2>1, FiniteParts
    <2> QED BY <1>2, <2>2 DEF IInv, Accounting
  <1>7. /\ allOk \in BOOLEAN
        /\ ~allOk => added \intersect Bad # {}
        /\ allOk => (added \ (queue \union Others(t))) \intersect Bad = {}
    BY <1>1, <1>2, <1>5 DEF IInv, Typed, VerdictSoFar
  <1>8. notif \subseteq Threads
    BY ThreadsFinite DEF NotifyMaster, IInv, Typed
  <1>9. /\ nTotal = nIdle + 1 + Cardinality(Busy \ {t})
        /\ nIdle \in Nat /\ nIdle >= Cardinality(Waiting \ {t})
    <2>1. nTotal = nIdle + Cardinality(Busy) /\ nIdle \in Nat
            /\ nIdle >= Cardinality(Waiting)
      BY DEF IInv, Typed, IdleCount, Accounting
    <2> QED BY <1>3, <1>4, <2>1
  <1>10. Clean(t, todo, allOk, nTotal, nIdle, notif)
    BY <1>1, <1>5, <1>6, <1>7, <1>8, <1>9 DEF Clean
  <1>11. Proceed(t, todo, allOk, nTotal, nIdle, notif)
    BY DEF ReportBatch
  <1> HIDE DEF todo, allOk, notif
  <1> QED BY <1>10, <1>11, ProceedInv

-----------------------------------------------------------------------------
(***************************************************************************)
(* The other steps.                                                        *)
(***************************************************************************)
\* Executing a batch: the local result now speaks for the batch.
LEMMA ExecuteInv ==
  ASSUME IInv, NEW t \in Threads, Execute(t)
  PROVE  IInv'
  <1>1. pc[t] = "work" /\ pc' = [pc EXCEPT ![t] = "done"]
    BY DEF Execute
  <1>2. Busy' = Busy /\ Waiting' = Waiting /\ InHand' = InHand /\ t \in Busy
    BY <1>1 DEF Busy, Waiting, InHand, Execute, IInv, Typed
  <1>3. batch[t] \subseteq added
    BY DEF IInv, VerdictSoFar, InHand
  <1>4. fOk' \in [Threads -> BOOLEAN]
    BY Zenon DEF Execute, IInv, Typed
  <1>5. Typed'
    BY <1>1, <1>4, ThreadsFinite DEF Execute, IInv, Typed, WorkerPCs, MasterPCs, Threads
  <1>6. IdleCount' /\ Accounting' /\ HoldsWhileBusy'
    BY <1>2 DEF Execute, IInv, IdleCount, Accounting, HoldsWhileBusy
  <1>7. /\ fOk'[t] <=> fOk[t] /\ batch[t] \intersect Bad = {}
        /\ \A u \in Threads \ {t} : fOk'[u] = fOk[u] /\ pc'[u] = pc[u]
    BY <1>1 DEF Execute, IInv, Typed
  <1>8. VerdictSoFar'
    <2>1. \A u \in Busy' : ~fOk'[u] => added' \intersect Bad # {}
      BY <1>2, <1>3, <1>7 DEF Execute, IInv, VerdictSoFar, Busy
    <2>2. \A u \in Threads : pc'[u] = "done" /\ fOk'[u] => batch'[u] \intersect Bad = {}
      BY <1>7 DEF Execute, IInv, VerdictSoFar
    <2>3. pc'[Master] = "returned" <=> pc[Master] = "returned"
      BY <1>1, ThreadsFinite DEF IInv, Typed
    <2> QED BY <1>2, <2>1, <2>2, <2>3 DEF Execute, IInv, VerdictSoFar
  <1>9. Quiet'
    BY <1>1, ThreadsFinite DEF Execute, IInv, Quiet, Typed
  <1> QED BY <1>5, <1>6, <1>8, <1>9 DEF IInv

\* A thread leaves cond.wait() by an exception: nIdle and nTotal keep it.
LEMMA InterruptedInv ==
  ASSUME IInv, NEW t \in Threads, Interrupted(t)
  PROVE  IInv'
  <1> DEFINE p == ThrownTo(t)
  <1>1. /\ pc[t] = "wait" /\ pc' = [pc EXCEPT ![t] = p]
        /\ p \in {"dead", "terminated", "unwind"}
        /\ t = Master => p # "dead"
        /\ t # Master => p = "dead"
    <2>1. pc[t] = "wait" /\ pc' = [pc EXCEPT ![t] = p]
      BY DEF Interrupted
    <2>2. /\ p \in {"dead", "terminated", "unwind"}
          /\ t = Master => p # "dead"
          /\ t # Master => p = "dead"
      BY DEF ThrownTo
    <2> QED BY <2>1, <2>2
  <1> HIDE DEF p
  <1>2. Busy' = Busy /\ Waiting' \subseteq Waiting /\ InHand' = InHand
    BY <1>1 DEF Busy, Waiting, InHand, Interrupted, IInv, Typed
  <1>3. Typed'
    BY <1>1, ThreadsFinite, CheckQueueAssumption
    DEF Interrupted, IInv, Typed, WorkerPCs, MasterPCs, Threads
  <1>4. IdleCount'
    <2>1. Waiting \in SUBSET Threads /\ Waiting' \in SUBSET Threads
      BY DEF Waiting
    <2>2. Cardinality(Waiting') <= Cardinality(Waiting)
            /\ Cardinality(Waiting') \in Nat /\ Cardinality(Waiting) \in Nat
      BY <1>2, <2>1, FiniteParts, FS_Subset
    <2> QED BY <2>2 DEF IdleCount, IInv, Typed, Interrupted
  <1>5. Accounting' /\ HoldsWhileBusy'
    BY <1>2 DEF Interrupted, IInv, Accounting, HoldsWhileBusy
  <1>6. VerdictSoFar'
    BY <1>1, <1>2, ThreadsFinite DEF Interrupted, IInv, VerdictSoFar, Typed
  <1>7. Quiet'
    BY <1>1, ThreadsFinite DEF Interrupted, IInv, Quiet, Typed
  <1> QED BY <1>3, <1>4, <1>5, <1>6, <1>7 DEF IInv

\* ConnectBlock adds checks: they are new, so the hands and the queue grow apart.
LEMMA AddInv ==
  ASSUME IInv, NEW v \in SUBSET Checks, Add(v)
  PROVE  IInv'
  <1>1. /\ pc[Master] = "adding" /\ queue' = queue \union v /\ added' = added \union v
        /\ v \intersect added = {} /\ nTodo' = nTodo + Cardinality(v)
        /\ UNCHANGED <<nIdle, nTotal, fAllOk, batch, fOk, pc, interrupt, shutdown,
                       inDestructor, result>>
    BY DEF Add
  <1>2. Busy' = Busy /\ Waiting' = Waiting /\ InHand' = InHand
    BY <1>1 DEF Busy, Waiting, InHand
  <1>3. notified' \subseteq Threads
    BY DEF Add, Sleepers, IInv, Typed, Threads
  <1>4. Cardinality(v) \in Nat
    BY FiniteParts
  <1>5. Typed'
    BY <1>1, <1>3, <1>4 DEF IInv, Typed
  <1>6. IdleCount' /\ HoldsWhileBusy'
    BY <1>1, <1>2 DEF IInv, IdleCount, HoldsWhileBusy
  <1>7. Cardinality(queue') = Cardinality(queue) + Cardinality(v)
    <2>1. queue \intersect v = {}
      BY <1>1 DEF IInv, VerdictSoFar
    <2>2. IsFiniteSet(queue) /\ IsFiniteSet(v)
      BY FiniteParts DEF IInv, Typed
    <2> QED BY <1>1, <2>1, <2>2, DisjointUnion
  <1>8. Accounting'
    <2>1. queue \subseteq Checks /\ InHand \subseteq Checks
      BY DEF IInv, Typed, InHand
    <2>2. Cardinality(queue) \in Nat /\ Cardinality(InHand) \in Nat
      BY <2>1, FiniteParts
    <2>3. nTodo = Cardinality(queue) + Cardinality(InHand)
      BY DEF IInv, Accounting
    <2>4. nTodo' = Cardinality(queue') + Cardinality(InHand')
      BY <1>1, <1>2, <1>4, <1>7, <2>2, <2>3
    <2>5. queue' \intersect InHand' = {}
      BY <1>1, <1>2 DEF IInv, Accounting, VerdictSoFar
    <2>6. nTotal' = nIdle' + Cardinality(Busy')
      BY <1>1, <1>2 DEF IInv, Accounting
    <2>7. \A t, u \in Threads : t # u => batch'[t] \intersect batch'[u] = {}
      BY <1>1 DEF IInv, Accounting
    <2> QED BY <2>4, <2>5, <2>6, <2>7 DEF Accounting
  <1>9. VerdictSoFar'
    BY <1>1, <1>2 DEF IInv, VerdictSoFar
  <1>10. Quiet'
    BY <1>1 DEF Quiet
  <1> QED BY <1>5, <1>6, <1>8, <1>9, <1>10 DEF IInv

\* The steps of the control object that only move the master.
LEMMA ControlInv ==
  ASSUME IInv, CreateControl \/ (\E d \in BOOLEAN : StartWait(d)) \/ MasterStep
  PROVE  IInv'
  <1> USE ThreadsFinite
  <1>1. PICK p \in {"adding", "start", "outside"} :
          /\ pc' = [pc EXCEPT ![Master] = p]
          /\ pc[Master] \in {"outside", "adding", "unwind", "returned"}
          /\ p = "outside" => pc[Master] = "returned"
          /\ pc[Master] = "returned" => p = "outside"
          /\ UNCHANGED <<queue, nIdle, nTotal, fAllOk, nTodo, batch, fOk,
                         notified, interrupt, shutdown, result>>
          /\ inDestructor' \in BOOLEAN
          /\ \/ added' = added /\ pc[Master] \in {"adding", "unwind"}
             \/ added' = {} /\ pc[Master] \in {"outside", "returned"}
    BY DEF CreateControl, StartWait, MasterStep, DestructorWait, DestroyControl, IInv, Typed
  <1>2. Busy' = Busy /\ Waiting' = Waiting /\ InHand' = InHand
    BY <1>1 DEF Busy, Waiting, InHand, IInv, Typed
  <1>3. Typed'
    BY <1>1, CheckQueueAssumption DEF IInv, Typed, MasterPCs, WorkerPCs, Threads
  <1>4. IdleCount' /\ Accounting' /\ HoldsWhileBusy'
    BY <1>1, <1>2 DEF IInv, IdleCount, Accounting, HoldsWhileBusy
  <1>5. pc[Master] \in {"outside", "returned"} => queue = {} /\ InHand = {} /\ Busy = {}
    <2>1. pc[Master] \in {"outside", "returned"}
            => Cardinality(queue) + Cardinality(InHand) = 0
      BY DEF IInv, Quiet, Accounting
    <2>2. queue \subseteq Checks /\ InHand \subseteq Checks
      BY DEF IInv, Typed, InHand
    <2>3. /\ IsFiniteSet(queue) /\ Cardinality(queue) \in Nat
          /\ IsFiniteSet(InHand) /\ Cardinality(InHand) \in Nat
      BY <2>2, FiniteParts
    <2>4. pc[Master] \in {"outside", "returned"} => queue = {} /\ InHand = {}
      BY <2>1, <2>3, FS_EmptySet
    <2>5. InHand = {} => Busy = {}
      BY DEF InHand, IInv, HoldsWhileBusy, Busy
    <2> QED BY <2>4, <2>5
  <1>6. VerdictSoFar'
    <2>1. CASE added' = added /\ pc[Master] \in {"adding", "unwind"}
      BY <1>1, <1>2, <2>1 DEF IInv, VerdictSoFar, Typed
    <2>2. CASE added' = {} /\ pc[Master] \in {"outside", "returned"}
      <3>1. fAllOk' /\ queue' = {} /\ InHand' = {} /\ Busy' = {}
        BY <1>1, <1>2, <1>5, <2>2 DEF IInv, Quiet
      <3>2. \A u \in Threads : pc'[u] # "done"
        BY <3>1 DEF Busy
      <3> QED BY <2>2, <3>1, <3>2 DEF VerdictSoFar
    <2> QED BY <1>1, <2>1, <2>2
  <1>7. Quiet'
    BY <1>1 DEF IInv, Quiet, Typed
  <1> QED BY <1>3, <1>4, <1>6, <1>7 DEF IInv

\* Signals and interruption requests change neither counters nor checks.
LEMMA SignalInv ==
  ASSUME IInv, InterruptAll \/ (\E t \in Threads : SpuriousWakeUp(t)) \/ UNCHANGED vars
  PROVE  IInv'
  <1>1. /\ UNCHANGED <<queue, nIdle, nTotal, fAllOk, nTodo, batch, fOk, pc, added,
                       inDestructor, result>>
        /\ notified' \subseteq Threads /\ interrupt' \subseteq Threads
        /\ shutdown' \in BOOLEAN
    BY ThreadsFinite DEF InterruptAll, SpuriousWakeUp, vars, IInv, Typed, Threads
  <1>2. Busy' = Busy /\ Waiting' = Waiting /\ InHand' = InHand
    BY <1>1 DEF Busy, Waiting, InHand
  <1>3. Typed' /\ IdleCount' /\ Accounting'
    BY <1>1, <1>2 DEF IInv, Typed, IdleCount, Accounting
  <1>4. HoldsWhileBusy' /\ VerdictSoFar' /\ Quiet'
    BY <1>1, <1>2 DEF IInv, HoldsWhileBusy, VerdictSoFar, Quiet
  <1> QED BY <1>3, <1>4 DEF IInv

-----------------------------------------------------------------------------
\* The invariant holds when the queue is created.
LEMMA InitInv == Init => IInv
  <1> SUFFICES ASSUME Init PROVE IInv
    OBVIOUS
  <1>1. InHand = {} /\ Busy = {} /\ Waiting = {} /\ queue = {} /\ nTodo = 0
    BY DEF Init, InHand, Busy, Waiting
  <1>2. Typed
    <2>1. /\ pc \in [Threads -> WorkerPCs \union MasterPCs]
          /\ pc[Master] \in MasterPCs /\ \A w \in Workers : pc[w] \in WorkerPCs
      BY ThreadsFinite, CheckQueueAssumption DEF Init, Threads, WorkerPCs, MasterPCs
    <2>2. batch \in [Threads -> SUBSET Checks]
      BY DEF Init
    <2>3. fOk \in [Threads -> BOOLEAN]
      BY DEF Init
    <2>4. /\ fAllOk \in BOOLEAN /\ shutdown \in BOOLEAN /\ inDestructor \in BOOLEAN
          /\ result \in BOOLEAN
      BY Zenon DEF Init
    <2>5. /\ queue \subseteq Checks /\ added \subseteq Checks
          /\ notified \subseteq Threads /\ interrupt \subseteq Threads
          /\ nIdle \in Nat /\ nTotal \in Int /\ nTodo \in Int
      BY DEF Init
    <2> QED BY ONLY <2>1, <2>2, <2>3, <2>4, <2>5 DEF Typed
  <1>3. IdleCount /\ Accounting /\ HoldsWhileBusy
    BY <1>1, FS_EmptySet DEF Init, IdleCount, Accounting, HoldsWhileBusy
  <1>4. VerdictSoFar
    <2>1. \A u \in Threads : pc[u] # "done"
      BY DEF Init
    <2> QED BY <1>1, <2>1 DEF Init, VerdictSoFar
  <1>5. Quiet
    BY DEF Init, Quiet, Threads
  <1> QED BY <1>2, <1>3, <1>4, <1>5 DEF IInv

\* Every critical section and every step outside it preserves the invariant.
LEMMA NextInv == IInv /\ [Next]_vars => IInv'
  <1> SUFFICES ASSUME IInv, [Next]_vars PROVE IInv'
    OBVIOUS
  <1>1. ASSUME NEW t \in Threads, LoopStep(t) PROVE IInv'
    BY <1>1, EnterLoopInv, ReportBatchInv, WakeUpInv, InterruptedInv, ExecuteInv
    DEF LoopStep
  <1>2. ASSUME NEW t \in Threads, SpuriousWakeUp(t) PROVE IInv'
    BY <1>2, SignalInv
  <1>3. CASE CreateControl
    BY <1>3, ControlInv
  <1>4. ASSUME NEW v \in SUBSET Checks, Add(v) PROVE IInv'
    BY <1>4, AddInv
  <1>5. ASSUME NEW d \in BOOLEAN, StartWait(d) PROVE IInv'
    BY <1>5, ControlInv
  <1>6. CASE MasterStep
    BY <1>6, ControlInv
  <1>7. CASE InterruptAll
    BY <1>7, SignalInv
  <1>8. CASE Terminated \/ UNCHANGED vars
    BY <1>8, SignalInv DEF Terminated
  <1> QED BY <1>1, <1>2, <1>3, <1>4, <1>5, <1>6, <1>7, <1>8 DEF Next

\* The inductive invariant holds in every reachable state of the check queue.
THEOREM Invariance == Spec => []IInv
  BY InitInv, NextInv, PTL DEF Spec

\* No counter of CCheckQueue ever goes below zero, whatever the number of
\* threads, the split into batches and the interruptions.
THEOREM TypeCorrect == Spec => []TypeOK
  <1>1. IInv => TypeOK
    <2> SUFFICES ASSUME IInv PROVE TypeOK
      OBVIOUS
    <2>1. queue \subseteq Checks /\ InHand \subseteq Checks /\ Busy \subseteq Threads
      BY DEF IInv, Typed, InHand, Busy
    <2>2. Cardinality(queue) \in Nat /\ Cardinality(InHand) \in Nat
            /\ Cardinality(Busy) \in Nat
      BY <2>1, FiniteParts
    <2>3. nTodo \in Nat /\ nTotal \in Nat /\ nIdle \in Nat
      BY <2>2 DEF IInv, Typed, Accounting
    <2> QED BY <2>3 DEF IInv, Typed, TypeOK
  <1> QED BY <1>1, Invariance, PTL

\* nTodo, nIdle and nTotal count what checkqueue.h says they count.
THEOREM CountersExact == Spec => []Accounting
  <1>1. IInv => Accounting
    BY DEF IInv
  <1> QED BY <1>1, Invariance, PTL

\* Without a control object, or after Wait(), no thread holds or can find a check.
LEMMA NothingPending ==
  ASSUME IInv, pc[Master] \in {"outside", "returned"}
  PROVE  queue = {} /\ (\A t \in Threads : batch[t] = {}) /\ Busy = {} /\ nTodo = 0 /\ fAllOk
  <1>1. nTodo = 0 /\ fAllOk
    BY DEF IInv, Quiet
  <1>2. queue \subseteq Checks /\ InHand \subseteq Checks
    BY DEF IInv, Typed, InHand
  <1>3. /\ IsFiniteSet(queue) /\ Cardinality(queue) \in Nat
        /\ IsFiniteSet(InHand) /\ Cardinality(InHand) \in Nat
    BY <1>2, FiniteParts
  <1>4. Cardinality(queue) = 0 /\ Cardinality(InHand) = 0
    BY <1>1, <1>3 DEF IInv, Accounting
  <1>5. queue = {} /\ InHand = {}
    BY <1>3, <1>4, FS_EmptySet
  <1>6. \A t \in Threads : batch[t] = {}
    BY <1>5 DEF InHand
  <1> QED BY <1>1, <1>5, <1>6 DEF IInv, HoldsWhileBusy, Busy

\* assert(isIdle) in CCheckQueueControl's constructor holds.
THEOREM QueueIdleBetweenBlocks == Spec => []IdleBetweenBlocks
  <1>1. IInv => IdleBetweenBlocks
    <2> SUFFICES ASSUME IInv, pc[Master] = "outside" PROVE IsIdle
      BY DEF IdleBetweenBlocks
    <2>1. Cardinality(Busy) = 0 /\ nTodo = 0 /\ fAllOk
      BY NothingPending, FS_EmptySet
    <2> QED BY <2>1 DEF IsIdle, IInv, Typed, Accounting
  <1> QED BY <1>1, Invariance, PTL

\* The RAII promise of CCheckQueueControl: no CScriptCheck, and so no pointer
\* into the block, survives Wait().
THEOREM ChecksEndWithBlock == Spec => []NoCheckOutlivesBlock
  <1>1. IInv => NoCheckOutlivesBlock
    BY NothingPending DEF NoCheckOutlivesBlock
  <1> QED BY <1>1, Invariance, PTL

\* So a block leaves nothing behind for the next one.
THEOREM BlocksAreApart == Spec => []BlocksApart
  <1>1. IdleBetweenBlocks /\ NoCheckOutlivesBlock => BlocksApart
    BY DEF BlocksApart
  <1> QED BY <1>1, QueueIdleBetweenBlocks, ChecksEndWithBlock, PTL

\* Wait() answers exactly whether all checks of the block succeed.
THEOREM VerdictCorrect == Spec => []VerdictExact
  <1>1. IInv => VerdictExact
    BY DEF IInv, Quiet, VerdictExact
  <1> QED BY <1>1, Invariance, PTL
=============================================================================
