----------------------------- MODULE CheckQueue -----------------------------
(***************************************************************************)
(* CCheckQueue and CCheckQueueControl (src/src/checkqueue.h): the pool of  *)
(* script-verification threads that ConnectBlock hands its CScriptChecks   *)
(* to.  Every critical section of the queue's mutex is one action; a       *)
(* thread executes its batch outside the mutex.  The order of the LIFO     *)
(* queue is abstracted: a thread takes any subset of the right size.       *)
(*                                                                         *)
(* boost::thread_group::interrupt_all() at shutdown makes cond.wait() the  *)
(* one interruption point of the loop: a thread leaves it by an exception, *)
(* without the nIdle-- and the nTotal-- of the normal path.                *)
(***************************************************************************)
EXTENDS Integers, FiniteSets

CONSTANTS
    Workers,      \* the ThreadScriptCheck threads
    Master,       \* the thread that runs ConnectBlock (it holds cs_main)
    Checks,       \* the CScriptChecks of a block
    Bad,          \* those of them whose operator() returns false
    nBatchSize    \* constructor argument, 128 for scriptcheckqueue

ASSUME CheckQueueAssumption ==
    /\ IsFiniteSet(Workers)
    /\ Master \notin Workers
    /\ IsFiniteSet(Checks)
    /\ Bad \subseteq Checks
    /\ nBatchSize \in Nat \ {0}

Threads == Workers \union {Master}

VARIABLES
    queue,        \* elements not yet taken by a thread
    nIdle,        \* threads blocked in cond.wait()
    nTotal,       \* threads inside Loop()
    fAllOk,       \* the temporary evaluation result
    nTodo,        \* verifications that have not completed yet
    batch,        \* batch[t]: the vChecks t took last (nNow is its size)
    fOk,          \* fOk[t]: t's local result
    pc,           \* where t is, see PCs
    notified,     \* threads in cond.wait() that have been signalled
    interrupt,    \* threads with an undelivered interruption request
    shutdown,     \* interrupt_all() has been called
    added,        \* history: the checks added under the current control
    inDestructor, \* the current Loop() call is made by ~CCheckQueueControl
    result        \* what Wait() last returned to ConnectBlock

vars == <<queue, nIdle, nTotal, fAllOk, nTodo, batch, fOk, pc, notified,
          interrupt, shutdown, added, inDestructor, result>>

(***************************************************************************)
(* start: about to lock the mutex for the first time in a Loop() call;     *)
(* work: runs its batch; done: about to lock the mutex to report it;       *)
(* wait: in cond.wait(); dead: left by an interruption.  The master also   *)
(* is outside (no control object), adding (between the constructor and     *)
(* Wait()), returned (Wait() gave a result, the destructor has not run),   *)
(* unwind (the interruption propagates to the destructor), and             *)
(* terminated (an exception left the destructor: the process is gone).     *)
(***************************************************************************)
WorkerPCs == {"start", "work", "done", "wait", "dead"}
MasterPCs == {"outside", "adding", "start", "work", "done", "wait",
              "returned", "unwind", "terminated"}

Alive == pc[Master] # "terminated"

Init ==
    /\ queue = {}
    /\ nIdle = 0
    /\ nTotal = 0
    /\ fAllOk = TRUE
    /\ nTodo = 0
    /\ batch = [t \in Threads |-> {}]
    /\ fOk = [t \in Threads |-> TRUE]
    /\ pc = [t \in Threads |-> IF t = Master THEN "outside" ELSE "start"]
    /\ notified = {}
    /\ interrupt = {}
    /\ shutdown = FALSE
    /\ added = {}
    /\ inDestructor = FALSE
    /\ result = TRUE

IsIdle == nTotal = nIdle /\ nTodo = 0 /\ fAllOk

(***************************************************************************)
(* How many elements a thread takes when `total` threads are in the loop   *)
(* and `idle` of them wait.                                                *)
(***************************************************************************)
BatchSize(total, idle) ==
    LET share == Cardinality(queue) \div (total + idle + 1)
        capped == IF share < nBatchSize THEN share ELSE nBatchSize
    IN  IF capped < 1 THEN 1 ELSE capped

(***************************************************************************)
(* The rest of a critical section once the clean-up is done: the values    *)
(* todo, allOk, total, idle and notif are those the clean-up left.         *)
(***************************************************************************)
TakeBatch(t, todo, allOk, total, idle, notif) ==
    /\ queue # {}
    /\ \E b \in SUBSET queue :
          /\ Cardinality(b) = BatchSize(total, idle)
          /\ queue' = queue \ b
          /\ batch' = [batch EXCEPT ![t] = b]
    /\ fOk' = [fOk EXCEPT ![t] = allOk]
    /\ pc' = [pc EXCEPT ![t] = "work"]
    /\ nTodo' = todo /\ fAllOk' = allOk /\ nTotal' = total /\ nIdle' = idle
    /\ notified' = notif
    /\ UNCHANGED <<interrupt, shutdown, added, inDestructor, result>>

\* Mutant: the master returns as soon as the queue is empty.
ReturnResultEarly(t, todo, allOk, total, idle, notif) ==
    /\ queue = {}
    /\ t = Master
    /\ result' = allOk
    /\ nTotal' = total - 1
    /\ fAllOk' = TRUE
    /\ nTodo' = todo /\ nIdle' = idle /\ notified' = notif
    /\ batch' = [batch EXCEPT ![t] = {}]
    /\ pc' = [pc EXCEPT ![t] = "returned"]
    /\ UNCHANGED <<queue, fOk, interrupt, shutdown, added, inDestructor>>

\* Only the master returns: fQuit is never set.
ReturnResult(t, todo, allOk, total, idle, notif) ==
    /\ queue = {}
    /\ t = Master /\ todo = 0
    /\ result' = allOk
    /\ nTotal' = total - 1
    /\ fAllOk' = TRUE
    /\ nTodo' = todo /\ nIdle' = idle /\ notified' = notif
    /\ batch' = [batch EXCEPT ![t] = {}]
    /\ pc' = [pc EXCEPT ![t] = "returned"]
    /\ UNCHANGED <<queue, fOk, interrupt, shutdown, added, inDestructor>>

\* cond.wait(lock) releases the mutex, or throws at once if t is interrupted.
\* An exception out of Wait() inside the destructor ends the process.
ThrownTo(t) == IF t # Master THEN "dead"
               ELSE IF inDestructor THEN "terminated" ELSE "unwind"

Sleep(t, todo, allOk, total, idle, notif) ==
    /\ queue = {}
    /\ ~(t = Master /\ todo = 0)
    /\ nIdle' = idle + 1
    /\ pc' = [pc EXCEPT ![t] = IF t \in interrupt THEN ThrownTo(t) ELSE "wait"]
    /\ interrupt' = interrupt \ {t}
    /\ nTodo' = todo /\ fAllOk' = allOk /\ nTotal' = total /\ notified' = notif
    /\ batch' = [batch EXCEPT ![t] = {}]
    /\ UNCHANGED <<queue, fOk, shutdown, added, inDestructor, result>>

Proceed(t, todo, allOk, total, idle, notif) ==
    \/ TakeBatch(t, todo, allOk, total, idle, notif)
    \/ ReturnResult(t, todo, allOk, total, idle, notif)
    \/ Sleep(t, todo, allOk, total, idle, notif)

\* First iteration: nTotal++.
EnterLoop(t) ==
    /\ pc[t] = "start"
    /\ Proceed(t, nTodo, fAllOk, nTotal + 1, nIdle, notified)

\* condMaster.notify_one(): the master is the only thread that waits on it.
NotifyMaster == IF pc[Master] = "wait" THEN {Master} ELSE {}

\* Mutant: fAllOk = fOk instead of fAllOk &= fOk.
ReportBatchAssigns(t) ==
    /\ pc[t] = "done"
    /\ LET todo == nTodo - Cardinality(batch[t])
       IN  Proceed(t, todo, fOk[t], nTotal, nIdle,
                   IF todo = 0 /\ t # Master THEN notified \union NotifyMaster
                                             ELSE notified)

\* Mutant: the thread that finishes the last check does not tell the master.
ReportBatchSilent(t) ==
    /\ pc[t] = "done"
    /\ Proceed(t, nTodo - Cardinality(batch[t]), fAllOk /\ fOk[t], nTotal, nIdle,
               notified)

\* A later iteration: account for the batch just executed.
ReportBatch(t) ==
    /\ pc[t] = "done"
    /\ LET todo == nTodo - Cardinality(batch[t])
       IN  Proceed(t, todo, fAllOk /\ fOk[t], nTotal, nIdle,
                   IF todo = 0 /\ t # Master THEN notified \union NotifyMaster
                                             ELSE notified)

\* Mutant: a thread that wakes up stays counted as idle.
WakeUpIdle(t) ==
    /\ pc[t] = "wait" /\ t \in notified /\ t \notin interrupt
    /\ Proceed(t, nTodo, fAllOk, nTotal, nIdle, notified \ {t})

\* cond.wait() returns: nIdle--, and the while loop looks at the queue again.
WakeUp(t) ==
    /\ pc[t] = "wait" /\ t \in notified /\ t \notin interrupt
    /\ Proceed(t, nTodo, fAllOk, nTotal, nIdle - 1, notified \ {t})

\* The interruption request reaches a thread that is already waiting.
Interrupted(t) ==
    /\ pc[t] = "wait" /\ t \in interrupt
    /\ pc' = [pc EXCEPT ![t] = ThrownTo(t)]
    /\ interrupt' = interrupt \ {t}
    /\ notified' = notified \ {t}
    /\ UNCHANGED <<queue, nIdle, nTotal, fAllOk, nTodo, batch, fOk, shutdown,
                   added, inDestructor, result>>

\* BOOST_FOREACH (T& check, vChecks) if (fOk) fOk = check();
Execute(t) ==
    /\ pc[t] = "work"
    /\ fOk' = [fOk EXCEPT ![t] = @ /\ batch[t] \intersect Bad = {}]
    /\ pc' = [pc EXCEPT ![t] = "done"]
    /\ UNCHANGED <<queue, nIdle, nTotal, fAllOk, nTodo, batch, notified,
                   interrupt, shutdown, added, inDestructor, result>>

\* A condition variable may wake up without a signal.
SpuriousWakeUp(t) ==
    /\ Alive
    /\ pc[t] = "wait" /\ t \notin notified
    /\ notified' = notified \union {t}
    /\ UNCHANGED <<queue, nIdle, nTotal, fAllOk, nTodo, batch, fOk, pc,
                   interrupt, shutdown, added, inDestructor, result>>

(***************************************************************************)
(* The master's side: CCheckQueueControl in ConnectBlock.                  *)
(***************************************************************************)
\* Constructor; its assert(isIdle) is the invariant IdleBetweenBlocks.
CreateControl ==
    /\ pc[Master] = "outside"
    /\ pc' = [pc EXCEPT ![Master] = "adding"]
    /\ added' = {}
    /\ inDestructor' = FALSE
    /\ UNCHANGED <<queue, nIdle, nTotal, fAllOk, nTodo, batch, fOk, notified,
                   interrupt, shutdown, result>>

Sleepers == {t \in Workers : pc[t] = "wait" /\ t \notin notified}

Add(vChecks) ==
    /\ pc[Master] = "adding"
    /\ vChecks \intersect added = {}
    /\ queue' = queue \union vChecks
    /\ added' = added \union vChecks
    /\ nTodo' = nTodo + Cardinality(vChecks)
    /\ \/ Cardinality(vChecks) = 1 /\ Sleepers # {}
          /\ \E t \in Sleepers : notified' = notified \union {t}
       \/ Cardinality(vChecks) = 1 /\ Sleepers = {} /\ UNCHANGED notified
       \/ Cardinality(vChecks) > 1 /\ notified' = notified \union Sleepers
    /\ UNCHANGED <<nIdle, nTotal, fAllOk, batch, fOk, pc, interrupt, shutdown,
                   inDestructor, result>>

\* control.Wait(), or ~CCheckQueueControl on an early return of ConnectBlock.
\* (fDone is still false then.)
StartWait(d) ==
    /\ pc[Master] = "adding"
    /\ pc' = [pc EXCEPT ![Master] = "start"]
    /\ inDestructor' = d
    /\ UNCHANGED <<queue, nIdle, nTotal, fAllOk, nTodo, batch, fOk, notified,
                   interrupt, shutdown, added, result>>

\* Wait() was interrupted: the destructor runs it again while unwinding.
DestructorWait ==
    /\ pc[Master] = "unwind"
    /\ pc' = [pc EXCEPT ![Master] = "start"]
    /\ inDestructor' = TRUE
    /\ UNCHANGED <<queue, nIdle, nTotal, fAllOk, nTodo, batch, fOk, notified,
                   interrupt, shutdown, added, result>>

DestroyControl ==
    /\ pc[Master] = "returned"
    /\ pc' = [pc EXCEPT ![Master] = "outside"]
    /\ added' = {}
    /\ UNCHANGED <<queue, nIdle, nTotal, fAllOk, nTodo, batch, fOk, notified,
                   interrupt, shutdown, inDestructor, result>>

\* threadGroup.interrupt_all(); after it, an RPC thread may be the master.
InterruptAll ==
    /\ Alive /\ ~shutdown
    /\ shutdown' = TRUE
    /\ \E m \in SUBSET {Master} :
          interrupt' = {t \in Workers : pc[t] # "dead"} \union m
    /\ UNCHANGED <<queue, nIdle, nTotal, fAllOk, nTodo, batch, fOk, pc,
                   notified, added, inDestructor, result>>

LoopStep(t) ==
    /\ Alive
    /\ EnterLoop(t) \/ ReportBatch(t) \/ WakeUp(t) \/ Interrupted(t) \/ Execute(t)

MasterStep == DestructorWait \/ DestroyControl

Terminated == ~Alive /\ UNCHANGED vars

Next ==
    \/ \E t \in Threads : LoopStep(t) \/ SpuriousWakeUp(t)
    \/ CreateControl
    \/ \E v \in SUBSET Checks : v # {} /\ Add(v)
    \/ \E d \in BOOLEAN : StartWait(d)
    \/ MasterStep
    \/ InterruptAll
    \/ Terminated

\* Every thread that holds or can take the mutex is eventually scheduled.
Fairness == (\A t \in Threads : WF_vars(LoopStep(t))) /\ WF_vars(MasterStep)

Spec == Init /\ [][Next]_vars
FairSpec == Spec /\ Fairness
-----------------------------------------------------------------------------
\* Types.  nTodo is an unsigned int and nIdle and nTotal are counts: none of
\* them is ever decremented below zero (nTodo would wrap round to 2^32 - 1 and
\* Wait() would never return).
TypeOK ==
    /\ queue \subseteq Checks
    /\ nIdle \in Nat /\ nTotal \in Nat /\ nTodo \in Nat
    /\ fAllOk \in BOOLEAN /\ shutdown \in BOOLEAN /\ inDestructor \in BOOLEAN
    /\ result \in BOOLEAN
    /\ batch \in [Threads -> SUBSET Checks]
    /\ fOk \in [Threads -> BOOLEAN]
    /\ pc \in [Threads -> WorkerPCs \union MasterPCs]
    /\ pc[Master] \in MasterPCs
    /\ \A w \in Workers : pc[w] \in WorkerPCs
    /\ notified \subseteq Threads
    /\ interrupt \subseteq Threads
    /\ added \subseteq Checks

InHand == UNION {batch[t] : t \in Threads}
Busy == {t \in Threads : pc[t] \in {"work", "done"}}

\* The counters are exact in every state: nTodo "includes elements that are no
\* longer queued, but still in the worker's own batches", no check is in two
\* places, and nTotal exceeds nIdle by the number of threads that are executing
\* a batch, the threads lost to an interruption being counted in both.
Accounting ==
    /\ nTodo = Cardinality(queue) + Cardinality(InHand)
    /\ queue \intersect InHand = {}
    /\ \A t, u \in Threads : t # u => batch[t] \intersect batch[u] = {}
    /\ nTotal = nIdle + Cardinality(Busy)

\* The assert(isIdle) of CCheckQueueControl's constructor never fails: when no
\* control object exists every thread of the pool is idle, nothing is left to
\* do, and the verdict of the previous block has been reset.  This also after
\* interruptions, which skip both the nIdle-- and the nTotal-- of a thread.
IdleBetweenBlocks == pc[Master] = "outside" => IsIdle

\* CCheckQueueControl "guarantees the passed queue is finished before
\* continuing": once Wait() has returned, no thread still holds a CScriptCheck,
\* whose ptxTo points into the block ConnectBlock is about to give up.
NoCheckOutlivesBlock ==
    pc[Master] \in {"outside", "returned"} =>
        queue = {} /\ \A t \in Threads : batch[t] = {}

\* Both: one block leaves nothing behind for the next.
BlocksApart == IdleBetweenBlocks /\ NoCheckOutlivesBlock

\* ConnectBlock's verdict: Wait() returns true exactly when every check added
\* under this control succeeds, however the checks were split over threads and
\* although a thread skips its checks once it has seen a failure.
VerdictExact == pc[Master] = "returned" => (result <=> added \intersect Bad = {})

\* Wait() returns: no wake-up is lost, and the master finishes the work alone
\* if shutdown takes the workers away.
WaitReturns == pc[Master] = "start" ~> (pc[Master] = "outside" \/ ~Alive)
=============================================================================
