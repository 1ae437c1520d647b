---------------------------- MODULE NodeLifetime ----------------------------
(***************************************************************************)
(* The life of a CNode (src/src/net.cpp): created by an accepted           *)
(* connection or by OpenNetworkConnection, used by the socket and the      *)
(* message thread, which count their references, taken out of vNodes when  *)
(* it is to be disconnected, and deleted by the socket thread when its     *)
(* reference count is 0.                                                   *)
(*                                                                         *)
(* A critical section of cs_vNodes is one step.  ConnectNode and           *)
(* OpenNetworkConnection go on with a node after it is in vNodes, and      *)
(* count a reference to one that they have found there, without that lock: *)
(* each access is a step; an operation of CSemaphoreGrant is one.  A CNode *)
(* is a pointer that is used once.  The locks that are tried before the    *)
(* deletion belong to threads that hold a reference or have found the node *)
(* in vNodes, and so are free then.                                        *)
(***************************************************************************)
EXTENDS Integers, FiniteSets

CONSTANTS
    Nodes, NoNode, Openers,    \* pointers; the threads that open connections
    Services, NoService, Addr, \* CServices; that of each node
    MaxOutbound                \* the slots of semOutbound

ASSUME NodeAssumption ==
    /\ IsFiniteSet(Nodes) /\ IsFiniteSet(Openers) /\ NoNode \notin Nodes
    /\ Addr \in [Nodes -> Services] /\ MaxOutbound \in Nat

VARIABLES
    state,                     \* in vNodes: "listed"; in vNodesDisconnected: "disconnected"
    refs, fDisconnect,
    counted,                   \* fNetworkNode or fInbound: Release is due at disconnection
    released,                  \* history: that Release has happened
    grant, sem,                \* grantOutbound holds a slot; the free slots
    sockPc, sockCopy,          \* ThreadSocketHandler and its vNodesCopy
    msgPc, msgCopy,            \* ThreadMessageHandler and its vNodesCopy
    open, call,                \* OpenNetworkConnection: place; "bare" without grantOutbound, "oneshot"
    dest, ptr, count,          \* address, pnode, nRefCount as read
    found,                     \* history: ConnectNode has found a node in vNodes
    late                       \* history: nodes that got a slot when they had left vNodes

nodeVars == <<state, refs, fDisconnect, counted, released, grant>>
sockVars == <<sockPc, sockCopy>>
msgVars == <<msgPc, msgCopy>>
openVars == <<open, call, dest, ptr, count>>
history == <<found, late>>
vars == <<nodeVars, sem, sockVars, msgVars, openVars, history>>

vNodes == {x \in Nodes : state[x] = "listed"}

Init ==
    /\ state = [x \in Nodes |-> "unborn"] /\ refs = [x \in Nodes |-> 0]
    /\ fDisconnect = [x \in Nodes |-> FALSE] /\ counted = [x \in Nodes |-> FALSE]
    /\ released = [x \in Nodes |-> FALSE] /\ grant = [x \in Nodes |-> FALSE] /\ sem = MaxOutbound
    /\ sockPc = "disconnect" /\ sockCopy = {} /\ msgPc = "copy" /\ msgCopy = {}
    /\ open = [t \in Openers |-> "idle"] /\ call = [t \in Openers |-> "none"] /\ dest = [t \in Openers |-> NoService]
    /\ ptr = [t \in Openers |-> NoNode] /\ count = [t \in Openers |-> 0]
    /\ found = FALSE /\ late = {}

\* A new node has one reference, for being in vNodes.
NewNode(x, inbound) ==
    /\ state[x] = "unborn" /\ state' = [state EXCEPT ![x] = "listed"]
    /\ refs' = [refs EXCEPT ![x] = 1] /\ counted' = [counted EXCEPT ![x] = inbound]
    /\ UNCHANGED <<fDisconnect, released, grant>>

\* An incoming connection.
Accept(x) ==
    /\ NewNode(x, TRUE)
    /\ UNCHANGED <<sem, sockVars, msgVars, openVars, history>>

\* CloseSocketDisconnect, a timeout, a ban, a command.
SetDisconnect(x) ==
    /\ state[x] = "listed" /\ ~fDisconnect[x] /\ fDisconnect' = [fDisconnect EXCEPT ![x] = TRUE]
    /\ UNCHANGED <<state, refs, counted, released, grant, sem, sockVars, msgVars, openVars, history>>
-----------------------------------------------------------------------------
(***************************************************************************)
(* ThreadSocketHandler.                                                    *)
(***************************************************************************)
Unused(x) == fDisconnect[x] \/ refs[x] <= 0

\* Mutant: the reference is given back whoever made the node.
DisconnectReleasesAll ==
    LET D == {x \in vNodes : Unused(x)}
    IN  /\ sockPc = "disconnect" /\ sockPc' = "delete"
        /\ state' = [x \in Nodes |-> IF x \in D THEN "disconnected" ELSE state[x]]
        /\ grant' = [x \in Nodes |-> grant[x] /\ x \notin D]
        /\ sem' = sem + Cardinality({x \in D : grant[x]})
        /\ refs' = [x \in Nodes |-> IF x \in D THEN refs[x] - 1 ELSE refs[x]]
        /\ released' = [x \in Nodes |-> released[x] \/ (x \in D /\ counted[x])]
        /\ UNCHANGED <<fDisconnect, counted, sockCopy, msgVars, openVars, history>>

\* Mutant: the slot stays with the node that leaves vNodes.
DisconnectKeepsGrant ==
    LET D == {x \in vNodes : Unused(x)}
    IN  /\ sockPc = "disconnect" /\ sockPc' = "delete"
        /\ state' = [x \in Nodes |-> IF x \in D THEN "disconnected" ELSE state[x]]
        /\ refs' = [x \in Nodes |-> IF x \in D /\ counted[x] THEN refs[x] - 1 ELSE refs[x]]
        /\ released' = [x \in Nodes |-> released[x] \/ (x \in D /\ counted[x])]
        /\ UNCHANGED <<fDisconnect, counted, grant, sem, sockCopy, msgVars, openVars, history>>

Disconnect ==
    LET D == {x \in vNodes : Unused(x)}
    IN  /\ sockPc = "disconnect" /\ sockPc' = "delete"
        /\ state' = [x \in Nodes |-> IF x \in D THEN "disconnected" ELSE state[x]]
        /\ grant' = [x \in Nodes |-> grant[x] /\ x \notin D]
        /\ sem' = sem + Cardinality({x \in D : grant[x]})
        /\ refs' = [x \in Nodes |-> IF x \in D /\ counted[x] THEN refs[x] - 1 ELSE refs[x]]
        /\ released' = [x \in Nodes |-> released[x] \/ (x \in D /\ counted[x])]
        /\ UNCHANGED <<fDisconnect, counted, sockCopy, msgVars, openVars, history>>

\* Mutant: a node is deleted as soon as it is out of vNodes.
DeleteAtOnce(x) ==
    /\ sockPc = "delete" /\ state[x] = "disconnected"
    /\ state' = [state EXCEPT ![x] = "deleted"]
    /\ grant' = [grant EXCEPT ![x] = FALSE] /\ sem' = sem + (IF grant[x] THEN 1 ELSE 0)
    /\ fDisconnect' = [fDisconnect EXCEPT ![x] = FALSE] /\ counted' = [counted EXCEPT ![x] = FALSE]
    /\ UNCHANGED <<refs, released, sockVars, msgVars, openVars, history>>

\* A turn of the second loop; the count is read without cs_vNodes.  The destructor gives a
\* slot back that the node still has.
DeleteNode(x) ==
    /\ sockPc = "delete" /\ state[x] = "disconnected" /\ refs[x] <= 0
    /\ state' = [state EXCEPT ![x] = "deleted"]
    /\ grant' = [grant EXCEPT ![x] = FALSE] /\ sem' = sem + (IF grant[x] THEN 1 ELSE 0)
    /\ fDisconnect' = [fDisconnect EXCEPT ![x] = FALSE] /\ counted' = [counted EXCEPT ![x] = FALSE]
    /\ UNCHANGED <<refs, released, sockVars, msgVars, openVars, history>>

\* The loop has seen all; later the sockets in vNodes are serviced ...
Service ==
    /\ sockPc = "delete" /\ \A x \in Nodes : state[x] = "disconnected" => refs[x] > 0
    /\ sockPc' = "service" /\ sockCopy' = vNodes
    /\ refs' = [x \in Nodes |-> IF x \in vNodes THEN refs[x] + 1 ELSE refs[x]]
    /\ UNCHANGED <<state, fDisconnect, counted, released, grant, sem, msgVars, openVars, history>>

\* ... and released.
ServiceDone ==
    /\ sockPc = "service" /\ sockPc' = "disconnect" /\ sockCopy' = {}
    /\ refs' = [x \in Nodes |-> IF x \in sockCopy THEN refs[x] - 1 ELSE refs[x]]
    /\ UNCHANGED <<state, fDisconnect, counted, released, grant, sem, msgVars, openVars, history>>
-----------------------------------------------------------------------------
(***************************************************************************)
(* ThreadMessageHandler.                                                   *)
(***************************************************************************)
MessagesBegin ==
    /\ msgPc = "copy" /\ msgPc' = "work" /\ msgCopy' = vNodes
    /\ refs' = [x \in Nodes |-> IF x \in vNodes THEN refs[x] + 1 ELSE refs[x]]
    /\ UNCHANGED <<state, fDisconnect, counted, released, grant, sem, sockVars, openVars, history>>

\* Mutant: a node that is to be disconnected is skipped here as well.
MessagesDoneSkips ==
    /\ msgPc = "work" /\ msgPc' = "copy" /\ msgCopy' = {}
    /\ refs' = [x \in Nodes |-> IF x \in msgCopy /\ ~fDisconnect[x] THEN refs[x] - 1 ELSE refs[x]]
    /\ UNCHANGED <<state, fDisconnect, counted, released, grant, sem, sockVars, openVars, history>>

MessagesDone ==
    /\ msgPc = "work" /\ msgPc' = "copy" /\ msgCopy' = {}
    /\ refs' = [x \in Nodes |-> IF x \in msgCopy THEN refs[x] - 1 ELSE refs[x]]
    /\ UNCHANGED <<state, fDisconnect, counted, released, grant, sem, sockVars, openVars, history>>
-----------------------------------------------------------------------------
(***************************************************************************)
(* OpenNetworkConnection: called with a slot by ThreadOpenConnections,     *)
(* ThreadOpenAddedConnections and ProcessOneShot ("oneshot"), without one  *)
(* for -connect and addnode onetry ("bare").                               *)
(***************************************************************************)
At(a) == {x \in vNodes : Addr[x] = a}

OpenNetworkConnection(t, a, c) ==
    /\ open[t] = "idle" /\ At(a) = {} /\ (c # "bare" => sem > 0)
    /\ open' = [open EXCEPT ![t] = "connect"] /\ call' = [call EXCEPT ![t] = c]
    /\ dest' = [dest EXCEPT ![t] = a] /\ sem' = sem - (IF c = "bare" THEN 0 ELSE 1)
    /\ UNCHANGED <<nodeVars, sockVars, msgVars, ptr, count, history>>

\* The call returns; ptr and call are cleared.
Return(t) ==
    /\ open' = [open EXCEPT ![t] = "idle"] /\ call' = [call EXCEPT ![t] = "none"]
    /\ ptr' = [ptr EXCEPT ![t] = NoNode]

\* ConnectNode: a new node ...
ConnectNode(t, x) ==
    /\ open[t] = "connect" /\ Addr[x] = dest[t] /\ NewNode(x, FALSE)
    /\ open' = [open EXCEPT ![t] = "opened"] /\ ptr' = [ptr EXCEPT ![t] = x]
    /\ dest' = [dest EXCEPT ![t] = NoService]
    /\ UNCHANGED <<sem, sockVars, msgVars, call, count, history>>

ConnectFails(t) ==
    /\ open[t] = "connect" /\ Return(t) /\ sem' = sem + (IF call[t] = "bare" THEN 0 ELSE 1)
    /\ dest' = [dest EXCEPT ![t] = NoService]
    /\ UNCHANGED <<nodeVars, sockVars, msgVars, count, history>>

\* ... or, when an equal address has come into vNodes meanwhile, that one; FindNode gives up
\* cs_vNodes before it returns.
FindNode(t) ==
    /\ open[t] = "connect"
    /\ \E x \in At(dest[t]) : ptr' = [ptr EXCEPT ![t] = x]
    /\ open' = [open EXCEPT ![t] = "found"] /\ found' = TRUE
    /\ dest' = [dest EXCEPT ![t] = NoService]
    /\ UNCHANGED <<nodeVars, sem, sockVars, msgVars, call, count, late>>

\* AddRef without the lock: nRefCount is read, and one more is written; another thread may
\* have changed it in between, or undo this.
AddRefRead(t) ==
    /\ open[t] = "found" /\ open' = [open EXCEPT ![t] = "read"]
    /\ count' = [count EXCEPT ![t] = refs[ptr[t]]]
    /\ UNCHANGED <<nodeVars, sem, sockVars, msgVars, call, dest, ptr, history>>

AddRefWrite(t) ==
    /\ open[t] = "read" /\ open' = [open EXCEPT ![t] = "opened"]
    /\ \/ refs' = [refs EXCEPT ![ptr[t]] = count[t] + 1]
       \/ refs' = refs
    /\ count' = [count EXCEPT ![t] = 0]
    /\ UNCHANGED <<state, fDisconnect, counted, released, grant, sem, sockVars, msgVars, call, dest,
                   ptr, history>>

\* grantOutbound->MoveTo: the slot goes to the node, and one that it had is free.
MoveGrant(t) ==
    /\ open[t] = "opened" /\ call[t] # "bare" /\ open' = [open EXCEPT ![t] = "moved"]
    /\ grant' = [grant EXCEPT ![ptr[t]] = TRUE] /\ sem' = sem + (IF grant[ptr[t]] THEN 1 ELSE 0)
    /\ late' = late \union ({ptr[t]} \ vNodes)
    /\ UNCHANGED <<state, refs, fDisconnect, counted, released, sockVars, msgVars, call, dest, ptr,
                   count, found>>

\* fNetworkNode: from here on the socket thread gives the reference of the node back.
SetNetworkNode(t) ==
    /\ open[t] = "moved" \/ (open[t] = "opened" /\ call[t] = "bare")
    /\ counted' = [counted EXCEPT ![ptr[t]] = TRUE]
    /\ IF call[t] = "oneshot"
       THEN open' = [open EXCEPT ![t] = "oneshot"] /\ UNCHANGED <<call, ptr>>
       ELSE Return(t)
    /\ UNCHANGED <<state, refs, fDisconnect, released, grant, sem, sockVars, msgVars, dest, count, history>>

\* fOneShot of the node is set.
SetOneShot(t) ==
    /\ open[t] = "oneshot" /\ Return(t)
    /\ UNCHANGED <<nodeVars, sem, sockVars, msgVars, dest, count, history>>

SocketThread == Disconnect \/ (\E x \in Nodes : DeleteNode(x)) \/ Service \/ ServiceDone
MessageThread == MessagesBegin \/ MessagesDone

Next ==
    \/ \E x \in Nodes : Accept(x) \/ SetDisconnect(x) \/ DeleteNode(x)
    \/ Disconnect \/ Service \/ ServiceDone \/ MessagesBegin \/ MessagesDone
    \/ \E t \in Openers, a \in Services, c \in {"bare", "slot", "oneshot"} : OpenNetworkConnection(t, a, c)
    \/ \E t \in Openers, x \in Nodes : ConnectNode(t, x)
    \/ \E t \in Openers : \/ ConnectFails(t) \/ FindNode(t) \/ AddRefRead(t) \/ AddRefWrite(t)
                         \/ MoveGrant(t) \/ SetNetworkNode(t) \/ SetOneShot(t)

\* The two threads run in endless loops, and each critical section ends.
Spec == Init /\ [][Next]_vars /\ WF_vars(SocketThread) /\ WF_vars(MessageThread)
-----------------------------------------------------------------------------
(***************************************************************************)
(* Properties.                                                             *)
(***************************************************************************)
TypeOK ==
    /\ state \in [Nodes -> {"unborn", "listed", "disconnected", "deleted"}]
    /\ refs \in [Nodes -> Int] /\ fDisconnect \in [Nodes -> BOOLEAN]
    /\ counted \in [Nodes -> BOOLEAN] /\ released \in [Nodes -> BOOLEAN]
    /\ grant \in [Nodes -> BOOLEAN] /\ sem \in 0..MaxOutbound
    /\ sockPc \in {"disconnect", "delete", "service"} /\ sockCopy \subseteq Nodes
    /\ msgPc \in {"copy", "work"} /\ msgCopy \subseteq Nodes
    /\ open \in [Openers -> {"idle", "connect", "found", "read", "opened", "moved", "oneshot"}]
    /\ call \in [Openers -> {"none", "bare", "slot", "oneshot"}]
    /\ dest \in [Openers -> Services \union {NoService}] /\ ptr \in [Openers -> Nodes \union {NoNode}]
    /\ count \in [Openers -> Int] /\ found \in BOOLEAN /\ late \subseteq Nodes

Bit(b) == IF b THEN 1 ELSE 0

\* nRefCount is the number of threads that use the node, and one more until it has left
\* vNodes and given that reference back; it never gets below 0 (GetRefCount).  All
\* variables keep their types.
RefsExact ==
    TypeOK /\ (~found => \A x \in Nodes : state[x] \in {"listed", "disconnected"} =>
        refs[x] = Bit(x \in sockCopy) + Bit(x \in msgCopy) + Bit(~released[x]))

\* As long as ConnectNode has not found a node in vNodes, no thread uses a deleted node,
\* except for the last write of OpenNetworkConnection: fOneShot is set when fNetworkNode has
\* already let the socket thread give the reference back.
NoUseAfterDelete ==
    ~found => /\ \A x \in sockCopy \union msgCopy : state[x] # "deleted"
              /\ \A t \in Openers : ptr[t] # NoNode /\ state[ptr[t]] = "deleted" => open[t] = "oneshot"

\* "wait until threads are done using it": what the deletion is meant to do.  It does not
\* hold (README, section 6).
PointersLive == \A t \in Openers : ptr[t] # NoNode => state[ptr[t]] # "deleted"

\* The threads whose grant has the slot still.
Holding == {t \in Openers : call[t] # "bare" /\ open[t] \in {"connect", "found", "read", "opened"}}

\* Every slot of semOutbound is free, with a thread that opens a connection, or with a node;
\* a node that leaves vNodes has given its slot back, and has one afterwards only if
\* OpenNetworkConnection moved it there too late.
SlotsExact ==
    /\ sem + Cardinality(Holding) + Cardinality({x \in Nodes : grant[x]}) = MaxOutbound
    /\ \A x \in Nodes : grant[x] => x \in vNodes \union late

\* Only the nodes in vNodes have slots.  It does not hold (README, section 6).
SlotsInUse == \A x \in Nodes : grant[x] => x \in vNodes

\* A node that has left vNodes and given its reference back is deleted in the end.
ReleasedAreDeleted ==
    \A x \in Nodes : (released[x] /\ ~found) ~> (state[x] = "deleted" \/ found)
=============================================================================
