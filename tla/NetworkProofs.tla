---------------------------- MODULE NetworkProofs ----------------------------
(***************************************************************************)
(* Connections and addresses.                                              *)
(*                                                                         *)
(* NodeLifetime, for any number of nodes and of threads that open          *)
(* connections: a node that leaves vNodes has given its slot back, and as  *)
(* long as ConnectNode has not found a node in vNodes the reference count  *)
(* of a node is the number of its users, so that no thread uses a deleted  *)
(* one before the last write of OpenNetworkConnection.                     *)
(*                                                                         *)
(* AddrMan, for any addresses, ports, bucket functions and sizes of the    *)
(* tables: of what CAddrMan::Check_ looks for, only a wrong position of a  *)
(* clearnet entry whose port has changed occurs before an assertion fails, *)
(* and one fails only in Good_ for such an entry.                          *)
(***************************************************************************)
EXTENDS NodeLifetime, AddrMan, FiniteSetTheorems, FunctionTheorems, SequenceTheorems,
        WellFoundedInduction, TLAPS

\* TypeOK without the bound on sem, which is a matter of the slots.
Types ==
    /\ state \in [Nodes -> {"unborn", "listed", "disconnected", "deleted"}]
    /\ refs \in [Nodes -> Int] /\ fDisconnect \in [Nodes -> BOOLEAN]
    /\ counted \in [Nodes -> BOOLEAN] /\ released \in [Nodes -> BOOLEAN]
    /\ grant \in [Nodes -> BOOLEAN] /\ sem \in Nat
    /\ sockPc \in {"disconnect", "delete", "service"} /\ sockCopy \subseteq Nodes
    /\ msgPc \in {"copy", "work"} /\ msgCopy \subseteq Nodes
    /\ open \in [Openers -> {"idle", "connect", "found", "read", "opened", "moved", "oneshot"}]
    /\ call \in [Openers -> {"none", "bare", "slot", "oneshot"}]
    /\ dest \in [Openers -> Services \union {NoService}] /\ ptr \in [Openers -> Nodes \union {NoNode}]
    /\ count \in [Openers -> Int] /\ found \in BOOLEAN /\ late \subseteq Nodes

\* Which thread has a copy of vNodes or a pointer.
Places ==
    /\ sockPc # "service" => sockCopy = {}
    /\ msgPc = "copy" => msgCopy = {}
    /\ \A t \in Openers : /\ ptr[t] = NoNode <=> open[t] \in {"idle", "connect"}
                          /\ open[t] \in {"found", "read"} => found

Users(x) == Bit(x \in sockCopy) + Bit(x \in msgCopy) + Bit(~released[x])
Live(x) == state[x] \in {"listed", "disconnected"}

\* Who uses a node keeps it from being deleted: the two threads by their count, the thread
\* that makes it, until fNetworkNode is set, as its reference is not yet one to give back.
Maker == [t \in Openers |-> IF open[t] = "oneshot" THEN NoNode ELSE ptr[t]]
Counts == \A x \in Nodes : Live(x) => refs[x] = Users(x)
Held ==
    /\ \A x \in Nodes : state[x] \in {"unborn", "listed"} => ~released[x]
    /\ \A x \in sockCopy \union msgCopy : Live(x)
Opening ==
    /\ \A t \in Openers : Maker[t] # NoNode =>
            Live(Maker[t]) /\ ~counted[Maker[t]] /\ ~released[Maker[t]]
    /\ \A t, u \in Openers : Maker[t] # NoNode /\ Maker[t] = Maker[u] => t = u

IInv == Types /\ Places /\ SlotsExact /\ (~found => Counts /\ Held /\ Opening)

USE NodeAssumption
-----------------------------------------------------------------------------
(***************************************************************************)
(* Types and places.                                                       *)
(***************************************************************************)
LEMMA BitType == \A b \in BOOLEAN : Bit(b) \in {0, 1} /\ (Bit(b) = 1 <=> b)
BY DEF Bit

\* A pointer that a thread has is one to a node.
LEMMA PtrIsNode ==
    ASSUME Types, Places, NEW t \in Openers, open[t] \in {"found", "read", "opened", "moved", "oneshot"}
    PROVE  ptr[t] \in Nodes /\ ptr[t] # NoNode
BY DEF Types, Places

LEMMA DisconnectSets ==
    ASSUME Types, Disconnect
    PROVE  \E D \in SUBSET vNodes :
            /\ state' = [x \in Nodes |-> IF x \in D THEN "disconnected" ELSE state[x]]
            /\ grant' = [x \in Nodes |-> grant[x] /\ x \notin D]
            /\ sem' = sem + Cardinality({x \in D : grant[x]})
            /\ refs' = [x \in Nodes |-> IF x \in D /\ counted[x] THEN refs[x] - 1 ELSE refs[x]]
            /\ released' = [x \in Nodes |-> released[x] \/ (x \in D /\ counted[x])]
BY DEF Disconnect

LEMMA TypesStep ==
    ASSUME Types, Places, Next
    PROVE  Types'
<1>1. ASSUME NEW x \in Nodes, Accept(x) \/ SetDisconnect(x) \/ DeleteNode(x) PROVE Types'
  <2>1. CASE Accept(x)
    BY <2>1 DEF Accept, NewNode, Types, sockVars, msgVars, openVars, history
  <2>2. CASE SetDisconnect(x)
    BY <2>2 DEF SetDisconnect, Types, sockVars, msgVars, openVars, history
  <2>3. CASE DeleteNode(x)
    BY <2>3 DEF DeleteNode, Types, sockVars, msgVars, openVars, history
  <2> QED
    BY <1>1, <2>1, <2>2, <2>3
<1>2. CASE Disconnect
  <2>1. PICK D \in SUBSET vNodes :
            /\ state' = [x \in Nodes |-> IF x \in D THEN "disconnected" ELSE state[x]]
            /\ grant' = [x \in Nodes |-> grant[x] /\ x \notin D]
            /\ sem' = sem + Cardinality({x \in D : grant[x]})
            /\ refs' = [x \in Nodes |-> IF x \in D /\ counted[x] THEN refs[x] - 1 ELSE refs[x]]
            /\ released' = [x \in Nodes |-> released[x] \/ (x \in D /\ counted[x])]
    BY <1>2, DisconnectSets
  <2>2. sem' \in Nat
    <3>1. IsFiniteSet({x \in D : grant[x]})
      BY FS_Subset DEF vNodes
    <3> QED
      BY <2>1, <3>1, FS_CardinalityType DEF Types
  <2>3. state' \in [Nodes -> {"unborn", "listed", "disconnected", "deleted"}] /\ refs' \in [Nodes -> Int]
    BY <2>1 DEF Types
  <2>4. grant' \in [Nodes -> BOOLEAN] /\ released' \in [Nodes -> BOOLEAN]
    BY <2>1 DEF Types
  <2> QED
    BY <1>2, <2>2, <2>3, <2>4 DEF Disconnect, Types, msgVars, openVars, history
<1>3. CASE Service \/ ServiceDone
  BY <1>3 DEF Service, ServiceDone, Types, vNodes, msgVars, openVars, history
<1>4. CASE MessagesBegin \/ MessagesDone
  BY <1>4 DEF MessagesBegin, MessagesDone, Types, vNodes, sockVars, openVars, history
<1>5. ASSUME NEW t \in Openers, NEW a \in Services, NEW c \in {"bare", "slot", "oneshot"},
             OpenNetworkConnection(t, a, c)
      PROVE  Types'
  BY <1>5 DEF OpenNetworkConnection, Types, nodeVars, sockVars, msgVars, history
<1>6. ASSUME NEW t \in Openers, NEW x \in Nodes, ConnectNode(t, x) PROVE Types'
  BY <1>6 DEF ConnectNode, NewNode, Types, sockVars, msgVars, history
<1>7. ASSUME NEW t \in Openers, ConnectFails(t) PROVE Types'
  BY <1>7 DEF ConnectFails, Return, Types, nodeVars, sockVars, msgVars, history
<1>8. ASSUME NEW t \in Openers, FindNode(t) PROVE Types'
  BY <1>8 DEF FindNode, At, vNodes, Types, nodeVars, sockVars, msgVars, history
<1>9. ASSUME NEW t \in Openers, AddRefRead(t) PROVE Types'
  <2>1. ptr[t] \in Nodes
    BY <1>9, PtrIsNode DEF AddRefRead
  <2> QED
    BY <1>9, <2>1 DEF AddRefRead, Types, nodeVars, sockVars, msgVars, history
<1>10. ASSUME NEW t \in Openers, AddRefWrite(t) PROVE Types'
  <2>1. ptr[t] \in Nodes /\ count[t] + 1 \in Int
    BY <1>10, PtrIsNode DEF AddRefWrite, Types
  <2> QED
    BY <1>10, <2>1 DEF AddRefWrite, Types, sockVars, msgVars, history
<1>11. ASSUME NEW t \in Openers, MoveGrant(t) PROVE Types'
  <2>1. ptr[t] \in Nodes
    BY <1>11, PtrIsNode DEF MoveGrant
  <2>2. late' \subseteq Nodes
    BY <1>11, <2>1 DEF MoveGrant, Types
  <2> QED
    BY <1>11, <2>1, <2>2 DEF MoveGrant, Types, sockVars, msgVars, history
<1>12. ASSUME NEW t \in Openers, SetNetworkNode(t) PROVE Types'
  <2>1. ptr[t] \in Nodes
    BY <1>12, PtrIsNode DEF SetNetworkNode
  <2> QED
    BY <1>12, <2>1 DEF SetNetworkNode, Return, Types, sockVars, msgVars, history
<1>13. ASSUME NEW t \in Openers, SetOneShot(t) PROVE Types'
  BY <1>13 DEF SetOneShot, Return, Types, nodeVars, sockVars, msgVars, history
<1> QED
  BY <1>1, <1>2, <1>3, <1>4, <1>5, <1>6, <1>7, <1>8, <1>9, <1>10, <1>11, <1>12, <1>13 DEF Next

LEMMA PlacesStep ==
    ASSUME Types, Places, Next
    PROVE  Places'
<1>1. ASSUME NEW x \in Nodes, Accept(x) \/ SetDisconnect(x) \/ DeleteNode(x) PROVE Places'
  <2>1. UNCHANGED <<sockPc, sockCopy, msgPc, msgCopy, open, ptr, found>>
    BY <1>1 DEF Accept, SetDisconnect, DeleteNode, sockVars, msgVars, openVars, history
  <2> QED
    BY <2>1 DEF Places
<1>2. CASE Disconnect \/ Service \/ ServiceDone
  BY <1>2 DEF Disconnect, Service, ServiceDone, Places, msgVars, openVars, history
<1>3. CASE MessagesBegin \/ MessagesDone
  BY <1>3 DEF MessagesBegin, MessagesDone, Places, Types, sockVars, openVars, history
<1>4. ASSUME NEW t \in Openers, NEW a \in Services, NEW c \in {"bare", "slot", "oneshot"},
             OpenNetworkConnection(t, a, c)
      PROVE  Places'
  BY <1>4 DEF OpenNetworkConnection, Places, Types, sockVars, msgVars, history
<1>5. ASSUME NEW t \in Openers, NEW x \in Nodes, ConnectNode(t, x) PROVE Places'
  BY <1>5 DEF ConnectNode, Places, Types, sockVars, msgVars, history
<1>6. ASSUME NEW t \in Openers, FindNode(t) PROVE Places'
  BY <1>6 DEF FindNode, At, vNodes, Places, Types, sockVars, msgVars, history
<1>7. ASSUME NEW t \in Openers, AddRefRead(t) \/ AddRefWrite(t) \/ MoveGrant(t) PROVE Places'
  BY <1>7 DEF AddRefRead, AddRefWrite, MoveGrant, Places, Types, sockVars, msgVars, history
<1>8. ASSUME NEW t \in Openers, ConnectFails(t) \/ SetNetworkNode(t) \/ SetOneShot(t) PROVE Places'
  BY <1>8 DEF ConnectFails, SetNetworkNode, SetOneShot, Return, Places, Types, sockVars, msgVars, history
<1> QED
  BY <1>1, <1>2, <1>3, <1>4, <1>5, <1>6, <1>7, <1>8 DEF Next

-----------------------------------------------------------------------------
(***************************************************************************)
(* The slots.                                                              *)
(***************************************************************************)
Granted == {x \in Nodes : grant[x]}
Total == sem + Cardinality(Holding) + Cardinality(Granted)
Kept == \A x \in Nodes : grant[x] => x \in vNodes \union late

LEMMA SlotsAre ==
    ASSUME Types
    PROVE  /\ SlotsExact <=> Total = MaxOutbound /\ Kept
           /\ IsFiniteSet(Holding) /\ Cardinality(Holding) \in Nat /\ sem \in Nat
           /\ IsFiniteSet(Granted) /\ Cardinality(Granted) \in Nat
<1>1. IsFiniteSet(Holding) /\ IsFiniteSet(Granted)
  BY FS_Subset DEF Holding, Granted
<1> QED
  BY <1>1, FS_CardinalityType DEF SlotsExact, Total, Kept, Granted, Types

\* A slot goes from the semaphore to a thread, from there to a node, and comes back.
LEMMA TotalStep ==
    ASSUME Types, Places, SlotsExact, Next, Types'
    PROVE  Total' = MaxOutbound
<1>1. /\ sem + Cardinality(Holding) + Cardinality(Granted) = MaxOutbound
      /\ IsFiniteSet(Holding) /\ Cardinality(Holding) \in Nat /\ sem \in Nat
      /\ IsFiniteSet(Granted) /\ Cardinality(Granted) \in Nat
  BY SlotsAre DEF Total
<1>2. SUFFICES sem' + Cardinality(Holding') + Cardinality(Granted') = MaxOutbound
  BY DEF Total
<1>3. ASSUME Holding' = Holding, Granted' = Granted, sem' = sem
      PROVE  sem' + Cardinality(Holding') + Cardinality(Granted') = MaxOutbound
  BY <1>1, <1>3
<1>4. ASSUME NEW x \in Nodes, Accept(x) \/ SetDisconnect(x)
      PROVE  Holding' = Holding /\ Granted' = Granted /\ sem' = sem
  BY <1>4 DEF Accept, NewNode, SetDisconnect, Holding, Granted, openVars
<1>5. CASE Service \/ ServiceDone \/ MessagesBegin \/ MessagesDone
  <2>1. Holding' = Holding /\ Granted' = Granted /\ sem' = sem
    BY <1>5 DEF Service, ServiceDone, MessagesBegin, MessagesDone, Holding, Granted, openVars
  <2> QED
    BY <1>3, <2>1
<1>6. ASSUME NEW t \in Openers,
             FindNode(t) \/ AddRefRead(t) \/ AddRefWrite(t) \/ \E x \in Nodes : ConnectNode(t, x)
      PROVE  Holding' = Holding /\ Granted' = Granted /\ sem' = sem
  BY <1>6 DEF FindNode, AddRefRead, AddRefWrite, ConnectNode, NewNode, Holding, Granted, nodeVars, Types
<1>7. ASSUME NEW x \in Nodes, DeleteNode(x)
      PROVE  sem' + Cardinality(Holding') + Cardinality(Granted') = MaxOutbound
  <2>1. /\ grant' = [grant EXCEPT ![x] = FALSE] /\ sem' = sem + (IF grant[x] THEN 1 ELSE 0)
        /\ open' = open /\ call' = call
    BY <1>7 DEF DeleteNode, openVars
  <2>2. Granted' = Granted \ {x} /\ (x \in Granted <=> grant[x]) /\ Holding' = Holding
    BY <2>1 DEF Granted, Holding, Types
  <2>3. Cardinality(Granted \ {x}) = IF x \in Granted THEN Cardinality(Granted) - 1 ELSE Cardinality(Granted)
    BY <1>1, FS_RemoveElement
  <2> QED
    BY <1>1, <2>1, <2>2, <2>3
<1>8. CASE Disconnect
  <2>1. PICK D \in SUBSET vNodes :
            /\ grant' = [x \in Nodes |-> grant[x] /\ x \notin D]
            /\ sem' = sem + Cardinality({x \in D : grant[x]})
    BY <1>8, DisconnectSets
  <2>2. Granted' = Granted \ D /\ {x \in D : grant[x]} = Granted \intersect D
    BY <2>1 DEF Granted, vNodes
  <2>3. Holding' = Holding
    BY <1>8 DEF Disconnect, Holding, openVars
  <2>4. /\ Cardinality(Granted \ D) = Cardinality(Granted) - Cardinality(Granted \intersect D)
        /\ Cardinality(Granted \intersect D) \in Nat
    <3>1. IsFiniteSet(Granted \intersect D)
      BY <1>1, FS_Subset
    <3> QED
      BY <1>1, <3>1, FS_Difference, FS_CardinalityType
  <2>5. sem' = sem + Cardinality(Granted \intersect D)
    BY <2>1, <2>2
  <2>6. Cardinality(Granted') = Cardinality(Granted) - Cardinality(Granted \intersect D)
    BY <2>2, <2>4
  <2> QED
    BY <1>1, <2>3, <2>4, <2>5, <2>6
<1>9. ASSUME NEW t \in Openers, NEW a \in Services, NEW c \in {"bare", "slot", "oneshot"},
             OpenNetworkConnection(t, a, c)
      PROVE  sem' + Cardinality(Holding') + Cardinality(Granted') = MaxOutbound
  <2>1. /\ t \notin Holding /\ Granted' = Granted /\ sem' = sem - (IF c = "bare" THEN 0 ELSE 1)
        /\ open' = [open EXCEPT ![t] = "connect"] /\ call' = [call EXCEPT ![t] = c]
    BY <1>9 DEF OpenNetworkConnection, Holding, Granted, nodeVars
  <2>2. Holding' = IF c = "bare" THEN Holding ELSE Holding \union {t}
    BY <2>1 DEF Holding, Types
  <2>3. Cardinality(Holding \union {t}) = Cardinality(Holding) + 1
    BY <1>1, <2>1, FS_AddElement
  <2> QED
    BY <1>1, <2>1, <2>2, <2>3
<1>10. ASSUME NEW t \in Openers, ConnectFails(t)
       PROVE  sem' + Cardinality(Holding') + Cardinality(Granted') = MaxOutbound
  <2>1. /\ open[t] = "connect" /\ Granted' = Granted /\ sem' = sem + (IF call[t] = "bare" THEN 0 ELSE 1)
        /\ open' = [open EXCEPT ![t] = "idle"] /\ call' = [call EXCEPT ![t] = "none"]
    BY <1>10 DEF ConnectFails, Return, Granted, nodeVars
  <2>2. Holding' = Holding \ {t} /\ (t \in Holding <=> call[t] # "bare")
    BY <2>1 DEF Holding, Types
  <2>3. Cardinality(Holding \ {t}) = IF t \in Holding THEN Cardinality(Holding) - 1 ELSE Cardinality(Holding)
    BY <1>1, FS_RemoveElement
  <2> QED
    BY <1>1, <2>1, <2>2, <2>3
<1>11. ASSUME NEW t \in Openers, MoveGrant(t)
       PROVE  sem' + Cardinality(Holding') + Cardinality(Granted') = MaxOutbound
  <2>1. /\ open[t] = "opened" /\ call[t] # "bare" /\ open' = [open EXCEPT ![t] = "moved"] /\ call' = call
        /\ ptr[t] \in Nodes
        /\ grant' = [grant EXCEPT ![ptr[t]] = TRUE] /\ sem' = sem + (IF grant[ptr[t]] THEN 1 ELSE 0)
    BY <1>11, PtrIsNode DEF MoveGrant
  <2>2. Holding' = Holding \ {t} /\ t \in Holding
    BY <2>1 DEF Holding, Types
  <2>3. Granted' = Granted \union {ptr[t]} /\ (ptr[t] \in Granted <=> grant[ptr[t]])
    BY <2>1 DEF Granted, Types
  <2>4. Cardinality(Holding \ {t}) = Cardinality(Holding) - 1
    BY <1>1, <2>2, FS_RemoveElement
  <2>5. Cardinality(Granted \union {ptr[t]})
            = IF ptr[t] \in Granted THEN Cardinality(Granted) ELSE Cardinality(Granted) + 1
    BY <1>1, FS_AddElement
  <2> QED
    BY <1>1, <2>1, <2>2, <2>3, <2>4, <2>5
<1>12. ASSUME NEW t \in Openers, SetNetworkNode(t) \/ SetOneShot(t)
       PROVE  Holding' = Holding /\ Granted' = Granted /\ sem' = sem
  <2>1. open[t] \in {"moved", "oneshot"} \/ call[t] = "bare"
    BY <1>12 DEF SetNetworkNode, SetOneShot
  <2>2. /\ \A u \in Openers \ {t} : open'[u] = open[u] /\ call'[u] = call[u]
        /\ open'[t] \in {"idle", "oneshot"} /\ UNCHANGED <<grant, sem>>
    BY <1>12 DEF SetNetworkNode, SetOneShot, Return, Types, nodeVars
  <2> QED
    BY <2>1, <2>2 DEF Holding, Granted
<1> QED
  BY <1>3, <1>4, <1>5, <1>6, <1>7, <1>8, <1>9, <1>10, <1>11, <1>12 DEF Next

\* The slot of a node that leaves vNodes is given back in the same step.
LEMMA KeptStep ==
    ASSUME Types, Places, Kept, Next
    PROVE  Kept'
<1>1. ASSUME NEW x \in Nodes, NEW b \in BOOLEAN, NewNode(x, b), late' = late PROVE Kept'
  BY <1>1 DEF NewNode, Kept, vNodes, Types
<1>2. ASSUME NEW x \in Nodes, Accept(x) \/ \E t \in Openers : ConnectNode(t, x) PROVE Kept'
  BY <1>1, <1>2 DEF Accept, ConnectNode, history
<1>3. ASSUME UNCHANGED <<state, grant, late>> PROVE Kept'
  BY <1>3 DEF Kept, vNodes
<1>4. ASSUME NEW x \in Nodes, SetDisconnect(x) PROVE Kept'
  BY <1>3, <1>4 DEF SetDisconnect, history
<1>5. ASSUME NEW x \in Nodes, DeleteNode(x) PROVE Kept'
  BY <1>5 DEF DeleteNode, Kept, vNodes, history, Types
<1>6. CASE Disconnect
  <2>1. PICK D \in SUBSET vNodes :
            /\ state' = [x \in Nodes |-> IF x \in D THEN "disconnected" ELSE state[x]]
            /\ grant' = [x \in Nodes |-> grant[x] /\ x \notin D]
    BY <1>6, DisconnectSets
  <2>2. late' = late
    BY <1>6 DEF Disconnect, history
  <2> QED
    BY <2>1, <2>2 DEF Kept, vNodes
<1>7. CASE Service \/ ServiceDone \/ MessagesBegin \/ MessagesDone
  BY <1>3, <1>7 DEF Service, ServiceDone, MessagesBegin, MessagesDone, history
<1>8. ASSUME NEW t \in Openers, ConnectFails(t) \/ FindNode(t) \/ AddRefRead(t) \/ AddRefWrite(t)
                                \/ SetNetworkNode(t) \/ SetOneShot(t)
      PROVE  Kept'
  BY <1>3, <1>8 DEF ConnectFails, FindNode, AddRefRead, AddRefWrite, SetNetworkNode, SetOneShot, nodeVars, history
<1>9. ASSUME NEW t \in Openers, NEW a \in Services, NEW c \in {"bare", "slot", "oneshot"},
             OpenNetworkConnection(t, a, c)
      PROVE  Kept'
  BY <1>3, <1>9 DEF OpenNetworkConnection, nodeVars, history
<1>10. ASSUME NEW t \in Openers, MoveGrant(t) PROVE Kept'
  <2>1. ptr[t] \in Nodes
    BY <1>10, PtrIsNode DEF MoveGrant
  <2> QED
    BY <1>10, <2>1 DEF MoveGrant, Kept, vNodes, Types
<1> QED
  BY <1>2, <1>4, <1>5, <1>6, <1>7, <1>8, <1>9, <1>10 DEF Next

LEMMA SlotsStep ==
    ASSUME Types, Places, SlotsExact, Next, Types'
    PROVE  SlotsExact'
<1>1. Total' = MaxOutbound
  BY TotalStep
<1>2. Kept'
  BY SlotsAre, KeptStep
<1> QED
  BY <1>1, <1>2 DEF SlotsExact, Total, Kept, Granted
-----------------------------------------------------------------------------
(***************************************************************************)
(* The references.                                                         *)
(***************************************************************************)
Life == Counts /\ Held /\ Opening

LEMMA MakerType == Types => Maker \in [Openers -> Nodes \union {NoNode}]
BY DEF Types, Maker

LEMMA LifeSame ==
    ASSUME Life, UNCHANGED <<state, refs, counted, released, sockCopy, msgCopy, Maker>>
    PROVE  Life'
BY DEF Life, Counts, Held, Opening, Live, Users

\* A node that is not yet there has no user.
LEMMA LifeNew ==
    ASSUME Types, Life, NEW x \in Nodes, NEW b \in BOOLEAN, NewNode(x, b), UNCHANGED <<sockCopy, msgCopy>>
    PROVE  /\ Counts' /\ Held'
           /\ \A t \in Openers : Maker[t] # x
           /\ \A y \in Nodes \ {x} : Live(y)' = Live(y) /\ counted'[y] = counted[y] /\ released'[y] = released[y]
           /\ Live(x)' /\ (counted'[x] <=> b) /\ ~released'[x]
<1>1. /\ state[x] = "unborn" /\ state' = [state EXCEPT ![x] = "listed"]
      /\ refs' = [refs EXCEPT ![x] = 1] /\ counted' = [counted EXCEPT ![x] = b]
      /\ released' = released
  BY DEF NewNode
<1>2. ~released[x] /\ x \notin sockCopy /\ x \notin msgCopy /\ \A t \in Openers : Maker[t] # x
  <2>1. ~Live(x) /\ x # NoNode
    BY <1>1 DEF Live
  <2> QED
    BY <1>1, <2>1 DEF Life, Held, Opening
<1>3. /\ Live(x)' /\ refs'[x] = 1
      /\ \A y \in Nodes \ {x} : (Live(y)' <=> Live(y)) /\ refs'[y] = refs[y] /\ state'[y] = state[y]
  BY <1>1 DEF Types, Live
<1>4. Users(x)' = 1 /\ \A y \in Nodes \ {x} : Users(y)' = Users(y)
  BY <1>1, <1>2 DEF Users, Bit
<1>5. Counts'
  BY <1>3, <1>4 DEF Life, Counts
<1>6. Held'
  <2>1. \A y \in Nodes : state'[y] \in {"unborn", "listed"} => ~released'[y]
    BY <1>1, <1>2, <1>3 DEF Life, Held
  <2>2. \A y \in (sockCopy \union msgCopy)' : Live(y)'
    BY <1>2, <1>3 DEF Life, Held, Types
  <2> QED
    BY <2>1, <2>2 DEF Held
<1>7. \A y \in Nodes \ {x} : counted'[y] = counted[y] /\ released'[y] = released[y]
  BY <1>1 DEF Types
<1>8. (counted'[x] <=> b) /\ ~released'[x]
  BY <1>1, <1>2 DEF Types
<1>9. \A y \in Nodes \ {x} : Live(y)' = Live(y)
  BY <1>3 DEF Live
<1> QED
  BY <1>2, <1>3, <1>5, <1>6, <1>7, <1>8, <1>9

LEMMA LifeAccept ==
    ASSUME Types, Life, NEW x \in Nodes, Accept(x)
    PROVE  Life'
<1>1. NewNode(x, TRUE) /\ UNCHANGED <<sockCopy, msgCopy, Maker>>
  BY DEF Accept, sockVars, msgVars, openVars, Maker
<1>2. /\ Counts' /\ Held'
      /\ \A t \in Openers : Maker[t] # x
      /\ \A y \in Nodes \ {x} : Live(y)' = Live(y) /\ counted'[y] = counted[y] /\ released'[y] = released[y]
  BY <1>1, LifeNew
<1>3. Opening'
  BY <1>1, <1>2, MakerType DEF Life, Opening
<1> QED
  BY <1>2, <1>3 DEF Life

LEMMA LifeConnect ==
    ASSUME Types, Places, Life, NEW t \in Openers, NEW x \in Nodes, ConnectNode(t, x)
    PROVE  Life'
<1>1. /\ NewNode(x, FALSE) /\ UNCHANGED <<sockCopy, msgCopy>>
      /\ open' = [open EXCEPT ![t] = "opened"] /\ ptr' = [ptr EXCEPT ![t] = x]
  BY DEF ConnectNode, sockVars, msgVars
<1>2. /\ Counts' /\ Held'
      /\ \A u \in Openers : Maker[u] # x
      /\ \A y \in Nodes \ {x} : Live(y)' = Live(y) /\ counted'[y] = counted[y] /\ released'[y] = released[y]
      /\ Live(x)' /\ ~counted'[x] /\ ~released'[x]
  BY <1>1, LifeNew
<1>3. Maker'[t] = x /\ \A u \in Openers \ {t} : Maker'[u] = Maker[u]
  BY <1>1 DEF Types, Maker
<1>4. ASSUME NEW u \in Openers, Maker'[u] # NoNode
      PROVE  state'[Maker'[u]] \in {"listed", "disconnected"} /\ ~counted'[Maker'[u]] /\ ~released'[Maker'[u]]
  <2>1. CASE u = t
    <3>1. state'[x] \in {"listed", "disconnected"}
      BY <1>2 DEF Live
    <3> QED
      BY <1>2, <1>3, <2>1, <3>1
  <2>2. CASE u # t
    <3>1. Maker'[u] = Maker[u] /\ Maker[u] \in Nodes \ {x}
      BY <1>2, <1>3, <1>4, <2>2, MakerType
    <3>2. Live(Maker[u]) /\ ~counted[Maker[u]] /\ ~released[Maker[u]]
      BY <1>4, <3>1 DEF Life, Opening
    <3>3. \A y \in Nodes \ {x} : Live(y) => state'[y] \in {"listed", "disconnected"}
      BY <1>2 DEF Live
    <3> QED
      BY <1>2, <3>1, <3>2, <3>3
  <2> QED
    BY <2>1, <2>2
<1>5. \A u, w \in Openers : Maker'[u] # NoNode /\ Maker'[u] = Maker'[w] => u = w
  BY <1>2, <1>3 DEF Life, Opening
<1>6. Opening'
  BY <1>4, <1>5 DEF Opening, Live
<1> QED
  BY <1>2, <1>6 DEF Life

\* The reference for being in vNodes is given back with the entry in it, once, and by a
\* node that no thread is still opening.
LEMMA LifeDisconnect ==
    ASSUME Types, Life, Disconnect
    PROVE  Life'
<1>1. PICK D \in SUBSET vNodes :
            /\ state' = [x \in Nodes |-> IF x \in D THEN "disconnected" ELSE state[x]]
            /\ refs' = [x \in Nodes |-> IF x \in D /\ counted[x] THEN refs[x] - 1 ELSE refs[x]]
            /\ released' = [x \in Nodes |-> released[x] \/ (x \in D /\ counted[x])]
  BY DisconnectSets
<1>2. UNCHANGED <<counted, sockCopy, msgCopy, Maker>>
  BY DEF Disconnect, msgVars, openVars, Maker
<1>3. \A x \in D : x \in Nodes /\ state[x] = "listed" /\ Live(x) /\ ~released[x]
  BY <1>1 DEF vNodes, Live, Life, Held
<1>4. \A x \in Nodes : Live(x)' <=> Live(x)
  BY <1>1, <1>3 DEF Live
<1>5. ASSUME NEW x \in Nodes, Live(x)' PROVE refs'[x] = Users(x)'
  <2>1. refs[x] = Users(x) /\ refs[x] \in Int
    BY <1>4, <1>5 DEF Life, Counts, Types
  <2>2. CASE x \in D /\ counted[x]
    <3>1. refs'[x] = refs[x] - 1 /\ released'[x] /\ ~released[x]
      BY <1>1, <1>3, <2>2
    <3>2. Users(x) = Bit(x \in sockCopy) + Bit(x \in msgCopy) + 1
      BY <3>1 DEF Users, Bit
    <3>3. Users(x)' = Bit(x \in sockCopy) + Bit(x \in msgCopy) + 0
      BY <1>2, <3>1 DEF Users, Bit
    <3>4. Bit(x \in sockCopy) \in Int /\ Bit(x \in msgCopy) \in Int
      BY DEF Bit
    <3> QED
      BY <2>1, <3>1, <3>2, <3>3, <3>4
  <2>3. CASE ~(x \in D /\ counted[x])
    <3>1. refs'[x] = refs[x] /\ (released'[x] <=> released[x])
      BY <1>1, <2>3
    <3>2. Users(x)' = Users(x)
      BY <1>2, <3>1 DEF Users, Bit
    <3> QED
      BY <2>1, <3>1, <3>2
  <2> QED
    BY <2>2, <2>3
<1>6. Counts'
  BY <1>5 DEF Counts
<1>7. Held'
  <2>1. ASSUME NEW x \in Nodes, state'[x] \in {"unborn", "listed"} PROVE ~released'[x]
    <3>1. x \notin D /\ state[x] \in {"unborn", "listed"}
      BY <1>1, <2>1
    <3> QED
      BY <1>1, <3>1 DEF Life, Held
  <2>2. \A x \in (sockCopy \union msgCopy)' : Live(x)'
    BY <1>2, <1>4 DEF Life, Held, Types
  <2> QED
    BY <2>1, <2>2 DEF Held
<1>8. Opening'
  <2>1. ASSUME NEW t \in Openers, Maker'[t] # NoNode
        PROVE  state'[Maker'[t]] \in {"listed", "disconnected"} /\ ~counted'[Maker'[t]] /\ ~released'[Maker'[t]]
    <3>1. /\ Maker'[t] = Maker[t] /\ Maker[t] \in Nodes
          /\ Live(Maker[t]) /\ ~counted[Maker[t]] /\ ~released[Maker[t]]
      BY <1>2, <2>1, MakerType DEF Life, Opening
    <3>2. state'[Maker'[t]] \in {"listed", "disconnected"}
      BY <1>2, <1>4, <3>1 DEF Live
    <3> QED
      BY <1>1, <1>2, <3>1, <3>2
  <2>2. \A t, u \in Openers : Maker'[t] # NoNode /\ Maker'[t] = Maker'[u] => t = u
    BY <1>2 DEF Life, Opening
  <2> QED
    BY <2>1, <2>2 DEF Opening, Live
<1> QED
  BY <1>6, <1>7, <1>8 DEF Life

\* A node whose count is 0 has no user, though the count is read without the lock.
LEMMA LifeDelete ==
    ASSUME Types, Life, NEW x \in Nodes, DeleteNode(x)
    PROVE  Life'
<1>1. /\ state[x] = "disconnected" /\ refs[x] <= 0 /\ state' = [state EXCEPT ![x] = "deleted"]
      /\ counted' = [counted EXCEPT ![x] = FALSE]
      /\ UNCHANGED <<refs, released, sockCopy, msgCopy, Maker>>
  BY DEF DeleteNode, sockVars, msgVars, openVars, Maker
<1>2. x \notin sockCopy /\ x \notin msgCopy /\ released[x]
  <2>1. refs[x] = Users(x) /\ refs[x] \in Int
    BY <1>1 DEF Life, Counts, Live, Types
  <2>2. /\ Bit(x \in sockCopy) \in {0, 1} /\ Bit(x \in msgCopy) \in {0, 1} /\ Bit(~released[x]) \in {0, 1}
    BY DEF Bit
  <2>3. Bit(x \in sockCopy) = 0 /\ Bit(x \in msgCopy) = 0 /\ Bit(~released[x]) = 0
    BY <1>1, <2>1, <2>2 DEF Users
  <2> QED
    BY <2>3 DEF Bit
<1>3. \A y \in Nodes : y # x => /\ state'[y] = state[y] /\ (counted'[y] <=> counted[y])
                                /\ (Live(y)' <=> Live(y))
  BY <1>1 DEF Live, Types
<1>4. ~Live(x)' /\ \A y \in Nodes : Users(y)' = Users(y)
  BY <1>1 DEF Live, Types, Users
<1>5. Counts'
  BY <1>1, <1>3, <1>4 DEF Life, Counts
<1>6. Held'
  <2>1. \A y \in Nodes : state'[y] \in {"unborn", "listed"} => ~released'[y]
    BY <1>1 DEF Life, Held, Types
  <2>2. \A y \in (sockCopy \union msgCopy)' : Live(y)'
    BY <1>1, <1>2, <1>3 DEF Life, Held, Types
  <2> QED
    BY <2>1, <2>2 DEF Held
<1>7. Opening'
  <2>1. ASSUME NEW t \in Openers, Maker'[t] # NoNode
        PROVE  state'[Maker'[t]] \in {"listed", "disconnected"} /\ ~counted'[Maker'[t]] /\ ~released'[Maker'[t]]
    <3>1. /\ Maker'[t] = Maker[t] /\ Maker[t] \in Nodes
          /\ Live(Maker[t]) /\ ~counted[Maker[t]] /\ ~released[Maker[t]]
      BY <1>1, <2>1, MakerType DEF Life, Opening
    <3>2. Maker[t] # x
      BY <1>2, <3>1
    <3>3. state'[Maker'[t]] \in {"listed", "disconnected"}
      BY <1>1, <1>3, <3>1, <3>2 DEF Live
    <3> QED
      BY <1>1, <1>3, <3>1, <3>2, <3>3
  <2>2. \A t, u \in Openers : Maker'[t] # NoNode /\ Maker'[t] = Maker'[u] => t = u
    BY <1>1 DEF Life, Opening
  <2> QED
    BY <2>1, <2>2 DEF Opening, Live
<1> QED
  BY <1>5, <1>6, <1>7 DEF Life
\* A copy of vNodes counts one reference to each node in it, and gives it back.
LEMMA LifeCopies ==
    ASSUME Types, Places, Life, Service \/ ServiceDone \/ MessagesBegin \/ MessagesDone
    PROVE  Life'
<1>1. UNCHANGED <<state, counted, released, Maker>>
  BY DEF Service, ServiceDone, MessagesBegin, MessagesDone, openVars, Maker
<1>2. \A x \in Nodes : /\ (Live(x)' <=> Live(x)) /\ (x \in vNodes => Live(x)) /\ refs[x] \in Int
                       /\ Live(x) => refs[x] = Users(x)
  BY <1>1 DEF Live, vNodes, Types, Life, Counts
<1>3. \A x \in Nodes : /\ Bit(x \in sockCopy) \in Int /\ Bit(x \in msgCopy) \in Int
                       /\ Bit(~released[x]) \in Int
  BY DEF Bit
<1>4. vNodes \subseteq Nodes
  BY DEF vNodes
<1>5. CASE Service
  <2>1. /\ sockCopy = {} /\ sockCopy' = vNodes /\ msgCopy' = msgCopy
        /\ refs' = [x \in Nodes |-> IF x \in vNodes THEN refs[x] + 1 ELSE refs[x]]
    BY <1>5 DEF Service, Places, msgVars
  <2>2. \A x \in Nodes : /\ Users(x) = 0 + Bit(x \in msgCopy) + Bit(~released[x])
                         /\ Users(x)' = (IF x \in vNodes THEN 1 ELSE 0) + Bit(x \in msgCopy) + Bit(~released[x])
    BY <1>1, <2>1 DEF Users, Bit
  <2>3. Counts'
    BY <1>2, <1>3, <2>1, <2>2 DEF Counts
  <2>4. \A x \in (sockCopy \union msgCopy)' : Live(x)'
    BY <1>2, <1>4, <2>1 DEF Life, Held, Types
  <2> QED
    BY <1>1, <2>3, <2>4 DEF Life, Held, Opening, Live
<1>6. CASE ServiceDone
  <2>1. /\ sockCopy' = {} /\ msgCopy' = msgCopy
        /\ refs' = [x \in Nodes |-> IF x \in sockCopy THEN refs[x] - 1 ELSE refs[x]]
    BY <1>6 DEF ServiceDone, msgVars
  <2>2. \A x \in Nodes : /\ Users(x)' = 0 + Bit(x \in msgCopy) + Bit(~released[x])
                         /\ Users(x) = (IF x \in sockCopy THEN 1 ELSE 0) + Bit(x \in msgCopy) + Bit(~released[x])
    BY <1>1, <2>1 DEF Users, Bit
  <2>3. Counts'
    BY <1>2, <1>3, <2>1, <2>2 DEF Counts
  <2>4. \A x \in (sockCopy \union msgCopy)' : Live(x)'
    BY <1>2, <2>1 DEF Life, Held, Types
  <2> QED
    BY <1>1, <2>3, <2>4 DEF Life, Held, Opening, Live
<1>7. CASE MessagesBegin
  <2>1. /\ msgCopy = {} /\ msgCopy' = vNodes /\ sockCopy' = sockCopy
        /\ refs' = [x \in Nodes |-> IF x \in vNodes THEN refs[x] + 1 ELSE refs[x]]
    BY <1>7 DEF MessagesBegin, Places, sockVars
  <2>2. \A x \in Nodes : /\ Users(x) = Bit(x \in sockCopy) + 0 + Bit(~released[x])
                         /\ Users(x)' = Bit(x \in sockCopy) + (IF x \in vNodes THEN 1 ELSE 0) + Bit(~released[x])
    BY <1>1, <2>1 DEF Users, Bit
  <2>3. Counts'
    BY <1>2, <1>3, <2>1, <2>2 DEF Counts
  <2>4. \A x \in (sockCopy \union msgCopy)' : Live(x)'
    BY <1>2, <1>4, <2>1 DEF Life, Held, Types
  <2> QED
    BY <1>1, <2>3, <2>4 DEF Life, Held, Opening, Live
<1>8. CASE MessagesDone
  <2>1. /\ msgCopy' = {} /\ sockCopy' = sockCopy
        /\ refs' = [x \in Nodes |-> IF x \in msgCopy THEN refs[x] - 1 ELSE refs[x]]
    BY <1>8 DEF MessagesDone, sockVars
  <2>2. \A x \in Nodes : /\ Users(x)' = Bit(x \in sockCopy) + 0 + Bit(~released[x])
                         /\ Users(x) = Bit(x \in sockCopy) + (IF x \in msgCopy THEN 1 ELSE 0) + Bit(~released[x])
    BY <1>1, <2>1 DEF Users, Bit
  <2>3. Counts'
    BY <1>2, <1>3, <2>1, <2>2 DEF Counts
  <2>4. \A x \in (sockCopy \union msgCopy)' : Live(x)'
    BY <1>2, <2>1 DEF Life, Held, Types
  <2> QED
    BY <1>1, <2>3, <2>4 DEF Life, Held, Opening, Live
<1> QED
  BY <1>5, <1>6, <1>7, <1>8

\* From here on the node is one whose reference is given back; its thread makes it no more.
LEMMA LifeNetworkNode ==
    ASSUME Types, Places, Life, NEW t \in Openers, SetNetworkNode(t)
    PROVE  Life'
<1>1. /\ ptr[t] \in Nodes /\ Maker[t] = ptr[t] /\ Maker[t] # NoNode
      /\ counted' = [counted EXCEPT ![ptr[t]] = TRUE]
      /\ UNCHANGED <<state, refs, released, sockCopy, msgCopy>>
  BY PtrIsNode DEF SetNetworkNode, sockVars, msgVars, Maker, Types
<1>2. Maker'[t] = NoNode /\ \A u \in Openers \ {t} : Maker'[u] = Maker[u]
  BY DEF SetNetworkNode, Return, Maker, Types
<1>3. ASSUME NEW u \in Openers, Maker'[u] # NoNode
      PROVE  /\ state'[Maker'[u]] \in {"listed", "disconnected"} /\ ~counted'[Maker'[u]] /\ ~released'[Maker'[u]]
  <2>1. u # t /\ Maker'[u] = Maker[u] /\ Maker[u] \in Nodes
    BY <1>2, <1>3, MakerType
  <2>2. Maker[u] # Maker[t]
    BY <1>1, <2>1 DEF Life, Opening
  <2>3. Live(Maker[u]) /\ ~counted[Maker[u]] /\ ~released[Maker[u]]
    BY <1>3, <2>1 DEF Life, Opening
  <2>4. ~counted'[Maker[u]]
    BY <1>1, <2>1, <2>2, <2>3 DEF Types
  <2> QED
    BY <1>1, <2>1, <2>3, <2>4 DEF Live
<1>4. \A u, w \in Openers : Maker'[u] # NoNode /\ Maker'[u] = Maker'[w] => u = w
  BY <1>2 DEF Life, Opening
<1>5. Opening'
  BY <1>3, <1>4 DEF Opening, Live
<1> QED
  BY <1>1, <1>5 DEF Life, Counts, Held, Live, Users

LEMMA LifeStep ==
    ASSUME Types, Places, ~found => Life, Next, ~found'
    PROVE  Life'
<1>1. found' = found \/ found' = TRUE
  BY DEF Next, Accept, SetDisconnect, DeleteNode, Disconnect, Service, ServiceDone, MessagesBegin, MessagesDone,
     OpenNetworkConnection, ConnectNode, ConnectFails, FindNode, AddRefRead, AddRefWrite, MoveGrant,
     SetNetworkNode, SetOneShot, history
<1>2. Life /\ ~found
  BY <1>1
<1>3. ASSUME NEW x \in Nodes, SetDisconnect(x) PROVE Life'
  BY <1>2, <1>3, LifeSame DEF SetDisconnect, sockVars, msgVars, openVars, Maker
<1>4. ASSUME NEW t \in Openers, NEW a \in Services, NEW c \in {"bare", "slot", "oneshot"},
             OpenNetworkConnection(t, a, c)
      PROVE  Life'
  <2>1. Maker' = Maker
    BY <1>4 DEF OpenNetworkConnection, Maker, Types
  <2> QED
    BY <1>2, <1>4, <2>1, LifeSame DEF OpenNetworkConnection, nodeVars, sockVars, msgVars
<1>5. ASSUME NEW t \in Openers, ConnectFails(t) \/ SetOneShot(t) PROVE Life'
  <2>1. \A u \in Openers : (IF open'[u] = "oneshot" THEN NoNode ELSE ptr'[u]) = Maker[u]
    BY <1>5 DEF ConnectFails, SetOneShot, Return, Places, Maker, Types
  <2>2. Maker' = Maker
    BY <2>1 DEF Maker
  <2> QED
    BY <1>2, <1>5, <2>2, LifeSame DEF ConnectFails, SetOneShot, nodeVars, sockVars, msgVars
<1>6. ASSUME NEW t \in Openers, MoveGrant(t) PROVE Life'
  <2>1. Maker' = Maker
    BY <1>6 DEF MoveGrant, Maker, Types
  <2> QED
    BY <1>2, <1>6, <2>1, LifeSame DEF MoveGrant, sockVars, msgVars
<1>7. ASSUME NEW t \in Openers, FindNode(t) \/ AddRefRead(t) \/ AddRefWrite(t) PROVE FALSE
  BY <1>2, <1>7 DEF FindNode, AddRefRead, AddRefWrite, Places
<1> QED
  BY <1>2, <1>3, <1>4, <1>5, <1>6, <1>7, LifeAccept, LifeConnect, LifeDisconnect, LifeDelete, LifeCopies,
     LifeNetworkNode DEF Next

-----------------------------------------------------------------------------
(***************************************************************************)
(* The theorems.                                                           *)
(***************************************************************************)
LEMMA Invariance == Spec => []IInv
<1>1. Init => IInv
  <2> SUFFICES ASSUME Init PROVE IInv
    OBVIOUS
  <2>1. Types /\ Places
    <3>2. \A t \in Openers : /\ open[t] = "idle" /\ ptr[t] = NoNode
                             /\ dest[t] = NoService /\ count[t] = 0
      BY DEF Init
    <3>3. sem \in Nat /\ found \in BOOLEAN
      BY NodeAssumption DEF Init
    <3>4. Types
      BY <3>3 DEF Init, Types
    <3>5. Places
      BY <3>2 DEF Init, Places
    <3> QED
      BY <3>4, <3>5
  <2>2. Holding = {} /\ Granted = {} /\ sem = MaxOutbound /\ MaxOutbound \in Nat /\ Kept
    BY DEF Init, Holding, Granted, Kept
  <2>3. SlotsExact
    BY <2>1, <2>2, SlotsAre, FS_EmptySet DEF Total
  <2>4. Counts /\ Held /\ Opening
    BY DEF Init, Counts, Held, Opening, Live, Maker
  <2> QED
    BY <2>1, <2>3, <2>4 DEF IInv
<1>2. IInv /\ [Next]_vars => IInv'
  <2> SUFFICES ASSUME IInv, [Next]_vars PROVE IInv'
    OBVIOUS
  <2>1. CASE Next
    <3>1. Types' /\ Places'
      BY <2>1, TypesStep, PlacesStep DEF IInv
    <3>2. SlotsExact'
      BY <2>1, <3>1, SlotsStep DEF IInv
    <3>3. ~found' => Life'
      BY <2>1, LifeStep DEF IInv, Life
    <3> QED
      BY <3>1, <3>2, <3>3 DEF IInv, Life
  <2>2. CASE UNCHANGED vars
    BY <2>2 DEF IInv, Types, Places, SlotsExact, Holding, Counts, Held, Opening, Maker, Live, Users, vNodes,
       vars, nodeVars, sockVars, msgVars, openVars, history
  <2> QED
    BY <2>1, <2>2
<1> QED
  BY <1>1, <1>2, PTL DEF Spec

\* nRefCount counts the users of a node, and the types, with the bound on the slots, hold.
THEOREM ReferencesAreExact == Spec => []RefsExact
<1>1. ASSUME IInv PROVE RefsExact
  <2>1. sem \in 0..MaxOutbound
    <3>1. Types /\ SlotsExact /\ MaxOutbound \in Nat
      BY <1>1 DEF IInv
    <3>2. /\ Total = MaxOutbound /\ sem \in Nat
          /\ Cardinality(Holding) \in Nat /\ Cardinality(Granted) \in Nat
      BY <3>1, SlotsAre
    <3> QED
      BY <3>1, <3>2 DEF Total
  <2> QED
    BY <1>1, <2>1 DEF IInv, Types, TypeOK, RefsExact, Counts, Live, Users
<1> QED
  BY <1>1, Invariance, PTL

\* As long as ConnectNode has found no node again, the socket thread deletes no node that it
\* or the message thread has a copy of, and none that OpenNetworkConnection still uses before
\* its last write, of fOneShot.
THEOREM NoneUsedAfterDelete == Spec => []NoUseAfterDelete
<1>1. ASSUME IInv PROVE NoUseAfterDelete
  BY <1>1 DEF IInv, NoUseAfterDelete, Held, Opening, Maker, Live
<1> QED
  BY <1>1, Invariance, PTL

\* No slot of semOutbound is made, and a node that leaves vNodes gives its slot back: after
\* that it has one only if OpenNetworkConnection moved it there too late.
THEOREM SlotsAreExact == Spec => []SlotsExact
<1>1. IInv => SlotsExact
  BY DEF IInv
<1> QED
  BY <1>1, Invariance, PTL
-----------------------------------------------------------------------------
(***************************************************************************)
(* The address manager.  Add_ and Good_ are made of operations that leave  *)
(* the members of CAddrMan in states no caller sees: an entry without a    *)
(* place, a counter that is one off.  What holds of those states s is said *)
(* with the set F of the entries that may be without a place, and with d,  *)
(* by which nNew is off.                                                   *)
(***************************************************************************)
\* The members between two operations: a counter may be below 0 there.
Members ==
    [info : [Addrs -> Infos], random : Seq(Addrs),
     new : [NewSlots -> Addrs \union {NoAddr}], tried : [TriedSlots -> Addrs \union {NoAddr}],
     nNew : Int, nTried : Int,
     b32 : [I2pAddrs -> {"none", "current", "stale"}], ok : BOOLEAN]

\* An entry is as it was, but for its place in the random order.
SameEntry(e, f) ==
    /\ e.known = f.known /\ e.port = f.port /\ e.source = f.source
    /\ e.refs = f.refs /\ e.tried = f.tried /\ e.moved = f.moved
Alike(r, s, a) == SameEntry(r.info[a], s.info[a])

\* What the tables say of an entry.
SameStatus(r, s, a) ==
    /\ r.info[a].known = s.info[a].known /\ r.info[a].refs = s.info[a].refs
    /\ r.info[a].tried = s.info[a].tried

PlacesOf(s, a) == {x \in NewSlots : s.new[x] = a}
NewOnes(s) == {a \in Addrs : s.info[a].known /\ ~s.info[a].tried}
TriedOnes(s) == {a \in Addrs : s.info[a].tried}

RefsRight(s) == \A a \in Addrs : s.info[a].refs = Cardinality(PlacesOf(s, a))

OrderRight(s) ==
    /\ \A i \in 1..Len(s.random) : s.info[s.random[i]].known /\ s.info[s.random[i]].pos = i
    /\ \A a \in Addrs : s.info[a].known =>
        s.info[a].pos \in 1..Len(s.random) /\ s.random[s.info[a].pos] = a

TriedRight(s) ==
    /\ \A t \in TriedSlots : s.tried[t] # NoAddr => s.info[s.tried[t]].tried
    /\ \A t, u \in TriedSlots : s.tried[t] = s.tried[u] /\ s.tried[t] # NoAddr => t = u
    /\ \A a \in Addrs : s.info[a].tried => \E t \in TriedSlots : s.tried[t] = a

\* An entry is where the hashes of its address and port put it, unless its port, on which
\* they depend, has changed.
Fixed(s, a) == s.info[a].moved => a \in I2pAddrs
InNewRight(s, a, x) == x[2] = GetBucketPosition(a, s.info[a].port, x[1])
PositionsRight(s) ==
    \A a \in Addrs : Fixed(s, a) =>
        /\ \A x \in NewSlots : s.new[x] = a => InNewRight(s, a, x)
        /\ \A t \in TriedSlots : s.tried[t] = a => t = TriedSlot(s, a)

EntriesRight(s, F) ==
    \A a \in Addrs :
        /\ s.info[a].tried => s.info[a].known /\ s.info[a].refs = 0
        /\ s.info[a].refs > 0 => s.info[a].known
        /\ s.info[a].refs <= MaxRefs
        /\ s.info[a].known /\ ~s.info[a].tried /\ a \notin F => s.info[a].refs > 0

NewCount(s, d) == s.nNew = Cardinality(NewOnes(s)) + d
TriedCount(s) == s.nTried = Cardinality(TriedOnes(s))

HashesRight(s) ==
    \A a \in I2pAddrs :
        /\ s.info[a].known => s.b32[a] # "none"
        /\ s.b32[a] = "current" => s.info[a].known

Consistent(s, F, d) ==
    /\ s \in Members
    /\ RefsRight(s) /\ OrderRight(s) /\ TriedRight(s) /\ EntriesRight(s, F)
    /\ NewCount(s, d) /\ TriedCount(s)

\* What every step keeps: a failed assertion ends the program, and only the types are left.
Sound(s) == HashesRight(s) /\ PositionsRight(s)
AddrInv == AddrTypeOK /\ (am.ok => Consistent(am, {}, 0) /\ Sound(am))
-----------------------------------------------------------------------------
LEMMA MemberTypes ==
    ASSUME NEW s \in Members
    PROVE  /\ s.info \in [Addrs -> Infos] /\ s.random \in Seq(Addrs)
           /\ s.new \in [NewSlots -> Addrs \union {NoAddr}]
           /\ s.tried \in [TriedSlots -> Addrs \union {NoAddr}]
           /\ s.nNew \in Int /\ s.nTried \in Int /\ s.ok \in BOOLEAN
           /\ s.b32 \in [I2pAddrs -> {"none", "current", "stale"}]
    BY DEF Members

LEMMA InfoTypes ==
    ASSUME NEW s \in Members, NEW a \in Addrs
    PROVE  /\ s.info[a] \in Infos
           /\ s.info[a].known \in BOOLEAN /\ s.info[a].tried \in BOOLEAN
           /\ s.info[a].port \in Ports /\ s.info[a].source \in Sources
           /\ s.info[a].refs \in Nat /\ s.info[a].pos \in Nat /\ s.info[a].moved \in BOOLEAN
    BY MemberTypes DEF Infos

LEMMA UnknownType ==
    /\ Unknown \in Infos /\ Unknown.known = FALSE /\ Unknown.tried = FALSE
    /\ Unknown.refs = 0 /\ Unknown.pos = 0
    <1>1. (CHOOSE p \in Ports : TRUE) \in Ports BY AddrAssumption
    <1>2. (CHOOSE a \in Sources : TRUE) \in Sources BY AddrAssumption
    <1>3. QED BY <1>1, <1>2 DEF Unknown, Infos

LEMMA FiniteSets ==
    /\ IsFiniteSet(NewSlots)
    /\ \A s, a : IsFiniteSet(PlacesOf(s, a)) /\ Cardinality(PlacesOf(s, a)) \in Nat
    /\ \A s : IsFiniteSet(NewOnes(s)) /\ Cardinality(NewOnes(s)) \in Nat
    /\ \A s : IsFiniteSet(TriedOnes(s)) /\ Cardinality(TriedOnes(s)) \in Nat
    <1>1. IsFiniteSet(1..BucketSize) BY FS_Interval, AddrAssumption
    <1>2. IsFiniteSet(NewSlots) BY <1>1, FS_Product, AddrAssumption DEF NewSlots
    <1>3. \A s, a : PlacesOf(s, a) \in SUBSET NewSlots BY DEF PlacesOf
    <1>4. \A s : NewOnes(s) \in SUBSET Addrs /\ TriedOnes(s) \in SUBSET Addrs
        BY DEF NewOnes, TriedOnes
    <1>5. IsFiniteSet(Addrs) BY AddrAssumption
    <1>6. QED BY <1>2, <1>3, <1>4, <1>5, FS_Subset, FS_CardinalityType

LEMMA SlotTypes ==
    ASSUME NEW s \in Members, NEW a \in Addrs
    PROVE  /\ \A src \in Sources : NewSlot(s, a, src) \in NewSlots
           /\ TriedSlot(s, a) \in TriedSlots
           /\ \A src \in Sources : InNewRight(s, a, NewSlot(s, a, src))
           /\ \A b \in NewBuckets :
                <<b, GetBucketPosition(a, s.info[a].port, b)>> \in NewSlots
    BY InfoTypes, AddrAssumption DEF NewSlot, TriedSlot, NewSlots, TriedSlots, InNewRight

\* What SwapRandom does, and what it leaves alone.
Swapped(r, s, i, j) ==
    /\ r \in Members
    /\ r.new = s.new /\ r.tried = s.tried /\ r.nNew = s.nNew /\ r.nTried = s.nTried
    /\ r.b32 = s.b32 /\ r.ok = s.ok /\ Len(r.random) = Len(s.random)
    /\ \A k \in 1..Len(s.random) :
         r.random[k] = IF k = j THEN s.random[i] ELSE IF k = i THEN s.random[j] ELSE s.random[k]
    /\ \A a \in Addrs :
         /\ Alike(r, s, a)
         /\ r.info[a].pos = IF a = s.random[j] THEN i
                            ELSE IF a = s.random[i] THEN j ELSE s.info[a].pos

LEMMA SwapIs ==
    ASSUME NEW s \in Members, NEW i \in 1..Len(s.random), NEW j \in 1..Len(s.random)
    PROVE  Swapped(SwapRandom(s, i, j), s, i, j)
    <1> DEFINE x == s.random[i]
               y == s.random[j]
               rnd == [s.random EXCEPT ![i] = y, ![j] = x]
               inf == [s.info EXCEPT ![x].pos = j, ![y].pos = i]
               r == SwapRandom(s, i, j)
    <1>1. s.random \in Seq(Addrs) /\ Len(s.random) \in Nat BY MemberTypes, LenProperties
    <1>2. x \in Addrs /\ y \in Addrs BY <1>1, ElementOfSeq
    <1>3. /\ rnd \in Seq(Addrs) /\ Len(rnd) = Len(s.random)
          /\ \A k \in 1..Len(s.random) : rnd[k] = IF k = j THEN x ELSE IF k = i THEN y ELSE s.random[k]
        <2> HIDE DEF x, y
        <2> DEFINE mid == [s.random EXCEPT ![i] = y]
        <2>1. /\ mid \in Seq(Addrs) /\ Len(mid) = Len(s.random)
              /\ \A k \in 1..Len(s.random) : mid[k] = IF k = i THEN y ELSE s.random[k]
            BY <1>1, <1>2, ExceptSeq
        <2>2. rnd = [mid EXCEPT ![j] = x] OBVIOUS
        <2> HIDE DEF mid, rnd
        <2>3. QED BY <2>1, <2>2, <1>2, ExceptSeq
    <1>4. /\ inf \in [Addrs -> Infos]
          /\ \A a \in Addrs :
                /\ SameEntry(inf[a], s.info[a])
                /\ inf[a].pos = IF a = y THEN i ELSE IF a = x THEN j ELSE s.info[a].pos
        <2> HIDE DEF x, y
        <2> DEFINE mid == [s.info EXCEPT ![x].pos = j]
        <2>1. s.info \in [Addrs -> Infos] BY MemberTypes
        <2>2. i \in Nat /\ j \in Nat BY <1>1
        <2>3. /\ mid \in [Addrs -> Infos]
              /\ \A a \in Addrs :
                    /\ SameEntry(mid[a], s.info[a])
                    /\ mid[a].pos = IF a = x THEN j ELSE s.info[a].pos
            BY <2>1, <2>2, <1>2 DEF Infos, SameEntry
        <2>4. inf = [mid EXCEPT ![y].pos = i] OBVIOUS
        <2> HIDE DEF mid, inf
        <2>5. /\ inf \in [Addrs -> Infos]
              /\ \A a \in Addrs :
                    /\ SameEntry(inf[a], mid[a])
                    /\ inf[a].pos = IF a = y THEN i ELSE mid[a].pos
            <3> DEFINE new == [mid[y] EXCEPT !.pos = i]
            <3>1. /\ new \in Infos /\ new.pos = i /\ SameEntry(new, mid[y])
                BY <2>2, <2>3, <1>2 DEF Infos, SameEntry
            <3>2. inf = [mid EXCEPT ![y] = new] BY <2>4
            <3> HIDE DEF new
            <3>3. inf \in [Addrs -> Infos] BY <3>1, <3>2, <2>3
            <3>4. inf[y] = new /\ \A a \in Addrs : a # y => inf[a] = mid[a] BY <3>2, <2>3, <1>2
            <3>5. \A a \in Addrs : SameEntry(mid[a], mid[a]) BY DEF SameEntry
            <3>6. QED BY <3>1, <3>3, <3>4, <3>5
        <2>6. QED BY <2>3, <2>5 DEF SameEntry
    <1>5. r = [s EXCEPT !.random = rnd, !.info = inf] BY DEF SwapRandom
    <1> HIDE DEF rnd, inf
    <1>6. /\ r \in Members /\ r.random = rnd /\ r.info = inf
          /\ r.new = s.new /\ r.tried = s.tried /\ r.nNew = s.nNew /\ r.nTried = s.nTried
          /\ r.b32 = s.b32 /\ r.ok = s.ok
        BY <1>3, <1>4, <1>5 DEF Members
    <1>7. QED BY <1>3, <1>4, <1>6 DEF Alike, Swapped

\* Without a change of the tables all but the order is kept.
LEMMA TablesKept ==
    ASSUME NEW s \in Members, NEW r \in Members, NEW F, NEW d, Consistent(s, F, d),
           r.new = s.new, r.tried = s.tried, r.nNew = s.nNew, r.nTried = s.nTried,
           \A a \in Addrs : SameStatus(r, s, a)
    PROVE  /\ RefsRight(r) /\ TriedRight(r) /\ EntriesRight(r, F)
           /\ NewCount(r, d) /\ TriedCount(r)
    <1>1. RefsRight(r) BY DEF Consistent, RefsRight, PlacesOf, SameStatus
    <1>2. TriedRight(r)
        <2>1. \A t \in TriedSlots : s.tried[t] # NoAddr => s.tried[t] \in Addrs BY MemberTypes
        <2>2. QED BY <2>1 DEF Consistent, TriedRight, SameStatus
    <1>3. EntriesRight(r, F) BY DEF Consistent, EntriesRight, SameStatus
    <1>4. NewOnes(r) = NewOnes(s) /\ TriedOnes(r) = TriedOnes(s)
        BY DEF NewOnes, TriedOnes, SameStatus
    <1>5. QED BY <1>1, <1>2, <1>3, <1>4 DEF Consistent, NewCount, TriedCount

LEMMA SwapKeeps ==
    ASSUME NEW s, NEW F, NEW d, Consistent(s, F, d),
           NEW i \in 1..Len(s.random), NEW j \in 1..Len(s.random)
    PROVE  Consistent(SwapRandom(s, i, j), F, d)
    <1> DEFINE r == SwapRandom(s, i, j)
    <1>1. s \in Members /\ OrderRight(s) BY DEF Consistent
    <1>2. /\ r \in Members
          /\ r.new = s.new /\ r.tried = s.tried /\ r.nNew = s.nNew /\ r.nTried = s.nTried
          /\ r.b32 = s.b32 /\ r.ok = s.ok /\ Len(r.random) = Len(s.random)
          /\ \A k \in 1..Len(s.random) :
               r.random[k] = IF k = j THEN s.random[i] ELSE IF k = i THEN s.random[j] ELSE s.random[k]
          /\ \A a \in Addrs :
               /\ Alike(r, s, a)
               /\ r.info[a].pos = IF a = s.random[j] THEN i
                                  ELSE IF a = s.random[i] THEN j ELSE s.info[a].pos
        <2>1. Swapped(r, s, i, j) BY <1>1, SwapIs
        <2> HIDE DEF r
        <2>2. QED BY <2>1 DEF Swapped
    <1> HIDE DEF r
    <1>3. \A a \in Addrs : SameStatus(r, s, a) BY <1>2 DEF Alike, SameEntry, SameStatus
    <1>4. \A k \in 1..Len(s.random) : s.random[k] \in Addrs
        BY <1>1, MemberTypes, ElementOfSeq
    <1>5. OrderRight(r)
        <2>1. ASSUME NEW k \in 1..Len(r.random)
              PROVE  r.info[r.random[k]].known /\ r.info[r.random[k]].pos = k
            <3>1. \A m, n \in 1..Len(s.random) : s.random[m] = s.random[n] => m = n
                BY <1>1 DEF OrderRight
            <3>2. r.random[k] \in Addrs BY <1>2, <1>4
            <3>3. r.info[r.random[k]].known
                <4>1. \E m \in 1..Len(s.random) : r.random[k] = s.random[m] BY <1>2
                <4>2. s.info[r.random[k]].known BY <4>1, <1>1 DEF OrderRight
                <4>3. QED BY <4>2, <3>2, <1>3 DEF SameStatus
            <3>4. r.info[r.random[k]].pos = k
                <4>1. \A m \in 1..Len(s.random) : s.info[s.random[m]].pos = m BY <1>1 DEF OrderRight
                <4>2. CASE k = j BY <4>2, <3>1, <3>2, <4>1, <1>2
                <4>3. CASE k # j /\ k = i BY <4>3, <3>1, <3>2, <4>1, <1>2
                <4>4. CASE k # j /\ k # i BY <4>4, <3>1, <3>2, <4>1, <1>2
                <4>5. QED BY <4>2, <4>3, <4>4
            <3>5. QED BY <3>3, <3>4
        <2>2. ASSUME NEW a \in Addrs, r.info[a].known
              PROVE  r.info[a].pos \in 1..Len(r.random) /\ r.random[r.info[a].pos] = a
            <3>1. s.info[a].known BY <2>2, <1>3 DEF SameStatus
            <3>2. s.info[a].pos \in 1..Len(s.random) /\ s.random[s.info[a].pos] = a
                BY <3>1, <1>1 DEF OrderRight
            <3>3. s.info[s.random[i]].pos = i /\ s.info[s.random[j]].pos = j BY <1>1 DEF OrderRight
            <3>4. r.info[a].pos = IF a = s.random[j] THEN i
                                  ELSE IF a = s.random[i] THEN j ELSE s.info[a].pos
                BY <1>2
            <3>5. \A k \in 1..Len(s.random) :
                    r.random[k] = IF k = j THEN s.random[i] ELSE IF k = i THEN s.random[j] ELSE s.random[k]
                BY <1>2
            <3>6. Len(r.random) = Len(s.random) BY <1>2
            <3>7. CASE a = s.random[j] BY <3>3, <3>4, <3>5, <3>6, <3>7
            <3>8. CASE a # s.random[j] /\ a = s.random[i] BY <3>3, <3>4, <3>5, <3>6, <3>8
            <3>9. CASE a # s.random[j] /\ a # s.random[i] BY <3>2, <3>4, <3>5, <3>6, <3>9
            <3>10. QED BY <3>7, <3>8, <3>9
        <2>3. QED BY <2>1, <2>2 DEF OrderRight
    <1>6. QED BY <1>1, <1>2, <1>3, <1>5, TablesKept DEF Consistent, r

LEMMA AssertIs ==
    ASSUME NEW s \in Members, NEW cond \in BOOLEAN
    PROVE  /\ Assert(s, cond) \in Members /\ Assert(s, cond).ok = (s.ok /\ cond)
           /\ Assert(s, cond).info = s.info /\ Assert(s, cond).random = s.random
           /\ Assert(s, cond).new = s.new /\ Assert(s, cond).tried = s.tried
           /\ Assert(s, cond).nNew = s.nNew /\ Assert(s, cond).nTried = s.nTried
           /\ Assert(s, cond).b32 = s.b32
    <1>1. (s.ok /\ cond) \in BOOLEAN BY MemberTypes
    <1>2. QED BY <1>1 DEF Assert, Members

\* ok, and the index of hashes, have no part in it.
LEMMA ConsistentSame ==
    ASSUME NEW s, NEW F, NEW d, Consistent(s, F, d), NEW r \in Members,
           r.info = s.info, r.random = s.random, r.new = s.new, r.tried = s.tried,
           r.nNew = s.nNew, r.nTried = s.nTried
    PROVE  Consistent(r, F, d)
    BY DEF Consistent, RefsRight, PlacesOf, OrderRight, TriedRight, EntriesRight,
           NewCount, NewOnes, TriedCount, TriedOnes

\* The positions stay right when an entry that is in the tables keeps its port and gets no
\* place but where the hashes put it.
SamePort(r, s, a) == r.info[a].port = s.info[a].port /\ r.info[a].moved = s.info[a].moved
Stays(r, s, a) ==
    /\ SamePort(r, s, a)
    /\ \A x \in NewSlots : r.new[x] = a => s.new[x] = a \/ InNewRight(r, a, x)
    /\ \A t \in TriedSlots : r.tried[t] = a => s.tried[t] = a \/ t = TriedSlot(r, a)
Nowhere(r, a) ==
    (\A x \in NewSlots : r.new[x] # a) /\ (\A t \in TriedSlots : r.tried[t] # a)

LEMMA PositionsKept ==
    ASSUME NEW s, NEW r, PositionsRight(s), \A a \in Addrs : Stays(r, s, a) \/ Nowhere(r, a)
    PROVE  PositionsRight(r)
    <1> SUFFICES ASSUME NEW a \in Addrs, Fixed(r, a)
                 PROVE  /\ \A x \in NewSlots : r.new[x] = a => InNewRight(r, a, x)
                        /\ \A t \in TriedSlots : r.tried[t] = a => t = TriedSlot(r, a)
        BY DEF PositionsRight
    <1>1. CASE Nowhere(r, a) BY <1>1 DEF Nowhere
    <1>2. CASE Stays(r, s, a)
        <2>1. /\ \A x \in NewSlots : s.new[x] = a => InNewRight(s, a, x)
              /\ \A t \in TriedSlots : s.tried[t] = a => t = TriedSlot(s, a)
            BY <1>2 DEF Fixed, Stays, SamePort, PositionsRight
        <2>2. TriedSlot(r, a) = TriedSlot(s, a) BY <1>2 DEF Stays, SamePort, TriedSlot
        <2>3. \A x \in NewSlots : InNewRight(s, a, x) => InNewRight(r, a, x)
            BY <1>2 DEF Stays, SamePort, InNewRight
        <2>4. QED BY <2>1, <2>2, <2>3, <1>2 DEF Stays
    <1>3. QED BY <1>1, <1>2

\* An entry that counts no place and is not tried is nowhere.
LEMMA NoPlace ==
    ASSUME NEW s, NEW F, NEW d, Consistent(s, F, d), NEW a \in Addrs,
           ~s.info[a].tried, s.info[a].refs = 0
    PROVE  Nowhere(s, a)
    <1>1. Cardinality(PlacesOf(s, a)) = 0 BY DEF Consistent, RefsRight
    <1>2. PlacesOf(s, a) = {} BY <1>1, FiniteSets, FS_EmptySet
    <1>3. \A t \in TriedSlots : s.tried[t] # a BY AddrAssumption DEF Consistent, TriedRight
    <1>4. QED BY <1>2, <1>3 DEF PlacesOf, Nowhere

\* Delete takes an entry without a place out of mapInfo, of the order and of the count.
LEMMA DeleteIs ==
    ASSUME NEW s, NEW F, NEW d \in Int, Consistent(s, F, d), NEW a \in Addrs,
           s.info[a].known, ~s.info[a].tried, s.info[a].refs = 0
    PROVE  LET r == Delete(s, a)
           IN  /\ Consistent(r, F \ {a}, d)
               /\ r.info[a] = Unknown /\ \A b \in Addrs : b # a => Alike(r, s, b)
               /\ r.new = s.new /\ r.tried = s.tried /\ r.ok = s.ok
               /\ r.b32 = [x \in I2pAddrs |-> IF x = a /\ s.b32[x] = "current" THEN "stale" ELSE s.b32[x]]
               /\ PositionsRight(s) => PositionsRight(r)
    <1> DEFINE cond == s.info[a].known /\ ~s.info[a].tried /\ s.info[a].refs = 0
               c == Assert(s, cond)
               i == s.info[a].pos
               n == Len(s.random)
               w == SwapRandom(c, i, n)
               hash == [x \in I2pAddrs |-> IF x = a /\ s.b32[x] = "current" THEN "stale" ELSE s.b32[x]]
               r == Delete(s, a)
    <1>1. s \in Members /\ OrderRight(s) BY DEF Consistent
    <1>2. cond = TRUE OBVIOUS
    <1>3. /\ c \in Members /\ c.ok = s.ok /\ c.info = s.info /\ c.random = s.random
          /\ c.new = s.new /\ c.tried = s.tried /\ c.nNew = s.nNew /\ c.nTried = s.nTried
          /\ c.b32 = s.b32
        <2> HIDE DEF cond
        <2>1. (s.ok /\ TRUE) = s.ok BY <1>1, MemberTypes
        <2>2. QED BY <1>1, <1>2, <2>1, AssertIs
    <1>4. Consistent(c, F, d) BY <1>3, ConsistentSame
    <1>5. i \in 1..n /\ n \in 1..n /\ n \in Nat /\ s.random[i] = a
        <2>1. n \in Nat BY <1>1, MemberTypes, LenProperties
        <2>2. i \in 1..n /\ s.random[i] = a BY <1>1 DEF OrderRight
        <2>3. QED BY <2>1, <2>2
    <1> HIDE DEF cond, c, i, n
    <1>6. Consistent(w, F, d) BY <1>3, <1>4, <1>5, SwapKeeps DEF n
    <1>7. /\ w \in Members /\ w.new = s.new /\ w.tried = s.tried /\ w.nNew = s.nNew
          /\ w.nTried = s.nTried /\ w.b32 = s.b32 /\ w.ok = s.ok /\ Len(w.random) = n
          /\ w.random[n] = a /\ \A b \in Addrs : Alike(w, s, b)
        <2>1. i \in 1..Len(c.random) /\ n \in 1..Len(c.random) BY <1>3, <1>5 DEF n
        <2>2. Swapped(w, c, i, n) BY <2>1, <1>3, SwapIs
        <2> HIDE DEF w
        <2>3. \A b \in Addrs : Alike(w, s, b) BY <2>2, <1>3 DEF Swapped, Alike
        <2>4. QED BY <2>1, <2>2, <2>3, <1>3, <1>5 DEF Swapped, n
    <1>8. r = [w EXCEPT !.random = SubSeq(w.random, 1, Len(w.random) - 1), !.info[a] = Unknown,
                        !.nNew = w.nNew - 1,
                        !.b32 = [x \in I2pAddrs |-> IF x = a /\ w.b32[x] = "current" THEN "stale" ELSE w.b32[x]]]
        BY DEF Delete, w, c, cond, i, n
    <1> HIDE DEF w, r
    <1> DEFINE rnd == SubSeq(w.random, 1, n - 1)
    <1>9. /\ rnd \in Seq(Addrs) /\ Len(rnd) = n - 1
          /\ \A k \in 1..(n - 1) : rnd[k] = w.random[k]
        <2>1. w.random \in Seq(Addrs) BY <1>7, MemberTypes
        <2>2. \A k \in 1..(n - 1) : w.random[k] \in Addrs BY <2>1, <1>5, <1>7, ElementOfSeq
        <2>3. n - 1 \in Int /\ 1 \in Int BY <1>5
        <2>4. /\ rnd \in Seq(Addrs) /\ Len(rnd) = (IF 1 <= n - 1 THEN (n - 1) - 1 + 1 ELSE 0)
              /\ \A k \in 1..((n - 1) - 1 + 1) : rnd[k] = w.random[1 + k - 1]
            BY <2>2, <2>3, SubSeqProperties
        <2> HIDE DEF rnd
        <2>5. QED BY <2>4, <1>5
    <1> HIDE DEF rnd
    <1>10. hash \in [I2pAddrs -> {"none", "current", "stale"}] BY <1>1, MemberTypes
    <1>11. r = [w EXCEPT !.random = rnd, !.info[a] = Unknown, !.nNew = s.nNew - 1, !.b32 = hash]
        BY <1>7, <1>8 DEF rnd
    <1> HIDE DEF hash
    <1>12. /\ r \in Members /\ r.random = rnd /\ r.info = [w.info EXCEPT ![a] = Unknown]
           /\ r.new = s.new /\ r.tried = s.tried /\ r.nNew = s.nNew - 1 /\ r.nTried = s.nTried
           /\ r.b32 = hash /\ r.ok = s.ok
        <2>1. s.nNew - 1 \in Int BY <1>1, MemberTypes
        <2>2. QED BY <2>1, <1>7, <1>9, <1>10, <1>11, UnknownType DEF Members
    <1>13. r.info[a] = Unknown /\ \A b \in Addrs : b # a => r.info[b] = w.info[b]
        <2>1. w.info \in [Addrs -> Infos] BY <1>7, MemberTypes
        <2>2. QED BY <2>1, <1>12
    <1>14. \A b \in Addrs : b # a => Alike(r, s, b) BY <1>7, <1>13 DEF Alike
    <1>15. RefsRight(r)
        <2>1. \A b \in Addrs : PlacesOf(r, b) = PlacesOf(s, b) BY <1>12 DEF PlacesOf
        <2>2. \A b \in Addrs : r.info[b].refs = s.info[b].refs
            BY <1>13, <1>14, UnknownType DEF Alike, SameEntry
        <2>3. QED BY <2>1, <2>2 DEF RefsRight, Consistent
    <1>16. OrderRight(r)
        <2>1. /\ \A k \in 1..n : w.info[w.random[k]].known /\ w.info[w.random[k]].pos = k
              /\ \A b \in Addrs : w.info[b].known => w.info[b].pos \in 1..n /\ w.random[w.info[b].pos] = b
            BY <1>6, <1>7 DEF Consistent, OrderRight
        <2>2. \A k \in 1..n : w.random[k] \in Addrs BY <1>7, MemberTypes, ElementOfSeq
        <2>3. \A k \in 1..(n - 1) : k \in 1..n /\ k # n BY <1>5
        <2>4. \A k \in 1..(n - 1) : w.random[k] # a BY <2>1, <2>3, <1>5, <1>7
        <2>5. \A k \in 1..Len(r.random) : r.info[r.random[k]].known /\ r.info[r.random[k]].pos = k
            BY <2>1, <2>2, <2>3, <2>4, <1>9, <1>12, <1>13
        <2>6. ASSUME NEW b \in Addrs, r.info[b].known
              PROVE  r.info[b].pos \in 1..Len(r.random) /\ r.random[r.info[b].pos] = b
            <3>1. b # a BY <2>6, <1>13, UnknownType
            <3>2. r.info[b] = w.info[b] BY <3>1, <1>13
            <3>3. w.info[b].pos \in 1..n /\ w.random[w.info[b].pos] = b BY <2>1, <2>6, <3>2
            <3>4. w.info[b].pos # n BY <3>1, <3>3, <1>7
            <3>5. w.info[b].pos \in 1..(n - 1) BY <3>3, <3>4, <1>5
            <3>6. QED BY <3>2, <3>3, <3>5, <1>9, <1>12
        <2>7. QED BY <2>5, <2>6 DEF OrderRight
    <1>17. TriedRight(r)
        <2>1. \A b \in Addrs : r.info[b].tried = s.info[b].tried
            BY <1>1, <1>13, <1>14, UnknownType, InfoTypes DEF Alike, SameEntry
        <2>2. \A t \in TriedSlots : s.tried[t] # NoAddr => s.tried[t] \in Addrs BY <1>1, MemberTypes
        <2>3. QED BY <2>1, <2>2, <1>12 DEF Consistent, TriedRight
    <1>18. EntriesRight(r, F \ {a})
        <2>1. ASSUME NEW b \in Addrs
              PROVE  /\ r.info[b].tried => r.info[b].known /\ r.info[b].refs = 0
                     /\ r.info[b].refs > 0 => r.info[b].known
                     /\ r.info[b].refs <= MaxRefs
                     /\ r.info[b].known /\ ~r.info[b].tried /\ b \notin F \ {a} => r.info[b].refs > 0
            <3>1. CASE b = a BY <3>1, <1>13, UnknownType, AddrAssumption
            <3>2. CASE b # a
                <4>1. SameStatus(r, s, b) BY <3>2, <1>14 DEF Alike, SameEntry, SameStatus
                <4>2. QED BY <3>2, <4>1 DEF Consistent, EntriesRight, SameStatus
            <3>3. QED BY <3>1, <3>2
        <2>2. QED BY <2>1 DEF EntriesRight
    <1>19. NewCount(r, d)
        <2>1. NewOnes(r) = NewOnes(s) \ {a}
            BY <1>13, <1>14, UnknownType DEF NewOnes, Alike, SameEntry
        <2>2. a \in NewOnes(s) BY DEF NewOnes
        <2>3. Cardinality(NewOnes(r)) = Cardinality(NewOnes(s)) - 1
            BY <2>1, <2>2, FiniteSets, FS_RemoveElement
        <2>4. s.nNew = Cardinality(NewOnes(s)) + d BY DEF Consistent, NewCount
        <2>5. Cardinality(NewOnes(s)) \in Int BY FiniteSets
        <2>6. QED BY <2>3, <2>4, <2>5, <1>12 DEF NewCount
    <1>20. TriedCount(r)
        <2>1. TriedOnes(r) = TriedOnes(s)
            BY <1>13, <1>14, UnknownType DEF TriedOnes, Alike, SameEntry
        <2>2. QED BY <2>1, <1>12 DEF Consistent, TriedCount
    <1>21. Consistent(r, F \ {a}, d)
        BY <1>12, <1>15, <1>16, <1>17, <1>18, <1>19, <1>20 DEF Consistent
    <1>22. ASSUME PositionsRight(s) PROVE PositionsRight(r)
        <2>1. Nowhere(r, a) BY <1>12, NoPlace DEF Nowhere
        <2>2. \A b \in Addrs : b # a => Stays(r, s, b)
            BY <1>12, <1>14 DEF Alike, SameEntry, Stays, SamePort
        <2>3. QED BY <2>1, <2>2, <1>22, PositionsKept
    <1>23. QED BY <1>12, <1>13, <1>14, <1>21, <1>22 DEF r, hash

LEMMA OrderSame ==
    ASSUME NEW s \in Members, NEW r, r.random = s.random, OrderRight(s),
           \A b \in Addrs : r.info[b].known = s.info[b].known /\ r.info[b].pos = s.info[b].pos
    PROVE  OrderRight(r)
    <1>1. \A k \in 1..Len(s.random) : s.random[k] \in Addrs BY MemberTypes, ElementOfSeq
    <1>2. QED BY <1>1 DEF OrderRight

\* From s to r, the places P of x in the new table are emptied.
Loses(r, s, x, P) ==
    /\ P \in SUBSET PlacesOf(s, x)
    /\ r \in Members /\ r.random = s.random /\ r.tried = s.tried
    /\ r.nNew = s.nNew /\ r.nTried = s.nTried
    /\ r.new = [y \in NewSlots |-> IF y \in P THEN NoAddr ELSE s.new[y]]
    /\ r.info[x].known = s.info[x].known /\ r.info[x].tried = s.info[x].tried
    /\ r.info[x].pos = s.info[x].pos /\ r.info[x].refs = s.info[x].refs - Cardinality(P)
    /\ SamePort(r, s, x)
    /\ \A b \in Addrs : b # x => r.info[b] = s.info[b]

LEMMA LosePlaces ==
    ASSUME NEW s, NEW F, NEW d, Consistent(s, F, d), NEW x \in Addrs, NEW P, NEW r,
           Loses(r, s, x, P)
    PROVE  Consistent(r, F \union {x}, d) /\ (PositionsRight(s) => PositionsRight(r))
    <1> USE DEF Loses
    <1>1. s \in Members BY DEF Consistent
    <1>2. /\ r.info[x].known = s.info[x].known /\ r.info[x].tried = s.info[x].tried
          /\ r.info[x].pos = s.info[x].pos /\ r.info[x].refs = s.info[x].refs - Cardinality(P)
        OBVIOUS
    <1>3. /\ IsFiniteSet(P) /\ Cardinality(P) \in Nat
          /\ Cardinality(PlacesOf(s, x) \ P) = s.info[x].refs - Cardinality(P)
          /\ s.info[x].refs \in Nat /\ Cardinality(P) <= s.info[x].refs
        <2>1. IsFiniteSet(PlacesOf(s, x)) BY FiniteSets
        <2>2. IsFiniteSet(P) /\ Cardinality(P) <= Cardinality(PlacesOf(s, x)) BY <2>1, FS_Subset
        <2>3. Cardinality(P) \in Nat BY <2>2, FS_CardinalityType
        <2>4. s.info[x].refs = Cardinality(PlacesOf(s, x)) BY DEF Consistent, RefsRight
        <2>5. Cardinality(PlacesOf(s, x) \ P)
                = Cardinality(PlacesOf(s, x)) - Cardinality(PlacesOf(s, x) \cap P)
            BY <2>1, FS_Difference
        <2>6. PlacesOf(s, x) \cap P = P OBVIOUS
        <2>7. QED BY <2>2, <2>3, <2>4, <2>5, <2>6, <1>1, InfoTypes
    <1>4. RefsRight(r)
        <2>1. PlacesOf(r, x) = PlacesOf(s, x) \ P BY AddrAssumption DEF PlacesOf
        <2>2. \A b \in Addrs : b # x => PlacesOf(r, b) = PlacesOf(s, b) BY AddrAssumption DEF PlacesOf
        <2>3. QED BY <2>1, <2>2, <1>2, <1>3 DEF Consistent, RefsRight
    <1>5. OrderRight(r)
        <2>1. \A b \in Addrs : r.info[b].known = s.info[b].known /\ r.info[b].pos = s.info[b].pos
            BY <1>2
        <2>2. r.random = s.random /\ OrderRight(s) BY DEF Consistent
        <2>3. QED BY <2>1, <2>2, <1>1, OrderSame
    <1>6. \A b \in Addrs : r.info[b].tried = s.info[b].tried BY <1>2
    <1>7. TriedRight(r)
        <2>1. \A t \in TriedSlots : s.tried[t] # NoAddr => s.tried[t] \in Addrs BY <1>1, MemberTypes
        <2>2. QED BY <2>1, <1>6 DEF Consistent, TriedRight
    <1>8. EntriesRight(r, F \union {x})
        <2>1. \A b \in Addrs : b # x => SameStatus(r, s, b) BY DEF SameStatus
        <2>2. /\ r.info[x].tried => r.info[x].known /\ r.info[x].refs = 0
              /\ r.info[x].refs > 0 => r.info[x].known
              /\ r.info[x].refs <= MaxRefs
            <3>1. /\ s.info[x].tried => s.info[x].known /\ s.info[x].refs = 0
                  /\ s.info[x].refs > 0 => s.info[x].known
                  /\ s.info[x].refs <= MaxRefs
                BY DEF Consistent, EntriesRight
            <3>2. r.info[x].refs \in Nat /\ r.info[x].refs <= s.info[x].refs BY <1>2, <1>3
            <3>3. QED BY <3>1, <3>2, <1>2, <1>3, AddrAssumption
        <2>3. \A b \in Addrs : b # x =>
                /\ r.info[b].tried => r.info[b].known /\ r.info[b].refs = 0
                /\ r.info[b].refs > 0 => r.info[b].known
                /\ r.info[b].refs <= MaxRefs
                /\ r.info[b].known /\ ~r.info[b].tried /\ b \notin F => r.info[b].refs > 0
            BY <2>1 DEF Consistent, EntriesRight, SameStatus
        <2>4. QED BY <2>2, <2>3 DEF EntriesRight
    <1>9. NewOnes(r) = NewOnes(s) /\ TriedOnes(r) = TriedOnes(s)
        BY <1>2, <1>6 DEF NewOnes, TriedOnes
    <1>10. ASSUME PositionsRight(s) PROVE PositionsRight(r)
        <2>1. \A y \in NewSlots : r.new[y] = NoAddr \/ r.new[y] = s.new[y] OBVIOUS
        <2>2. \A b \in Addrs : SamePort(r, s, b) BY DEF SamePort
        <2>3. \A b \in Addrs : Stays(r, s, b) BY <2>1, <2>2, AddrAssumption DEF Stays
        <2>4. QED BY <2>3, <1>10, PositionsKept
    <1>11. QED BY <1>4, <1>5, <1>7, <1>8, <1>9, <1>10 DEF Consistent, NewCount, TriedCount

\* Fewer entries are excused than allowed, or one that has a place is.
LEMMA Excused ==
    ASSUME NEW s, NEW F, NEW G, NEW d, Consistent(s, F, d),
           \A a \in F \ G : s.info[a].refs > 0 \/ s.info[a].known = FALSE \/ s.info[a].tried = TRUE
    PROVE  Consistent(s, G, d)
    BY DEF Consistent, EntriesRight

\* An entry with a place in the new table is known, not tried, and has counted that place.
LEMMA PlacedEntry ==
    ASSUME NEW s, NEW F, NEW d, Consistent(s, F, d), NEW slot \in NewSlots, s.new[slot] # NoAddr
    PROVE  /\ s.new[slot] \in Addrs /\ s.info[s.new[slot]].known /\ ~s.info[s.new[slot]].tried
           /\ s.info[s.new[slot]].refs \in Nat /\ s.info[s.new[slot]].refs > 0
    <1> DEFINE x == s.new[slot]
    <1>1. s \in Members BY DEF Consistent
    <1>2. x \in Addrs BY <1>1, MemberTypes
    <1>3. slot \in PlacesOf(s, x) BY DEF PlacesOf
    <1> HIDE DEF x
    <1>4. Cardinality(PlacesOf(s, x)) # 0 /\ Cardinality(PlacesOf(s, x)) \in Nat
        BY <1>3, FiniteSets, FS_EmptySet
    <1>5. s.info[x].refs = Cardinality(PlacesOf(s, x)) BY <1>2 DEF Consistent, RefsRight
    <1>6. s.info[x].refs \in Nat /\ s.info[x].refs > 0 BY <1>4, <1>5
    <1>7. s.info[x].known /\ ~s.info[x].tried BY <1>2, <1>6 DEF Consistent, EntriesRight
    <1>8. QED BY <1>2, <1>6, <1>7 DEF x

\* ClearNew empties a slot; the entry that was there has one place less, and is deleted when
\* that was the last.
LEMMA ClearNewIs ==
    ASSUME NEW s, NEW F, NEW d \in Int, Consistent(s, F, d), NEW slot \in NewSlots
    PROVE  LET r == ClearNew(s, slot)
           IN  /\ Consistent(r, F, d)
               /\ r.new = [s.new EXCEPT ![slot] = NoAddr] /\ r.tried = s.tried /\ r.ok = s.ok
               /\ \A b \in Addrs : b # s.new[slot] => Alike(r, s, b)
               /\ HashesRight(s) => HashesRight(r)
               /\ PositionsRight(s) => PositionsRight(r)
    <1> DEFINE x == s.new[slot]
               m == Assert(s, s.info[x].refs > 0)
               c == [m EXCEPT !.info[x].refs = @ - 1, !.new[slot] = NoAddr]
               r == ClearNew(s, slot)
               k == CheckAndDeleteB32Hash(c, x)
    <1>1. s \in Members BY DEF Consistent
    <1>2. s.new \in [NewSlots -> Addrs \union {NoAddr}] BY <1>1, MemberTypes
    <1>3. CASE x = NoAddr
        <2>1. r = s BY <1>3 DEF ClearNew
        <2>2. s.new = [s.new EXCEPT ![slot] = NoAddr] BY <1>2, <1>3
        <2>3. QED BY <2>1, <2>2 DEF Alike, SameEntry
    <1>4. CASE x # NoAddr
        <2>1. /\ x \in Addrs /\ s.info[x].known /\ ~s.info[x].tried
              /\ s.info[x].refs \in Nat /\ s.info[x].refs > 0
            BY <1>4, PlacedEntry
        <2>2. r = IF c.info[x].refs = 0 THEN Delete(k, x) ELSE c BY <1>4 DEF ClearNew
        <2> HIDE DEF x, r
        <2>3. /\ m \in Members /\ m.ok = s.ok /\ m.info = s.info /\ m.random = s.random
              /\ m.new = s.new /\ m.tried = s.tried /\ m.nNew = s.nNew /\ m.nTried = s.nTried
              /\ m.b32 = s.b32
            <3>1. (s.info[x].refs > 0) = TRUE BY <2>1
            <3>2. (s.ok /\ TRUE) = s.ok BY <1>1, MemberTypes
            <3>3. QED BY <3>1, <3>2, <1>1, AssertIs
        <2> HIDE DEF m
        <2> DEFINE inf == [s.info EXCEPT ![x].refs = @ - 1]
                   tab == [s.new EXCEPT ![slot] = NoAddr]
        <2>4. /\ inf \in [Addrs -> Infos] /\ inf[x] = [s.info[x] EXCEPT !.refs = s.info[x].refs - 1]
              /\ \A b \in Addrs : b # x => inf[b] = s.info[b]
            <3>1. s.info \in [Addrs -> Infos] BY <1>1, MemberTypes
            <3>2. s.info[x].refs - 1 \in Nat BY <2>1
            <3>3. QED BY <3>1, <3>2, <2>1 DEF Infos
        <2>5. tab \in [NewSlots -> Addrs \union {NoAddr}] BY <1>2
        <2>6. c = [m EXCEPT !.info = inf, !.new = tab] BY <2>3 DEF Members
        <2> HIDE DEF inf, tab, c
        <2>7. /\ c \in Members /\ c.ok = s.ok /\ c.info = inf /\ c.random = s.random
              /\ c.new = tab /\ c.tried = s.tried /\ c.nNew = s.nNew /\ c.nTried = s.nTried
              /\ c.b32 = s.b32
            BY <2>3, <2>4, <2>5, <2>6 DEF Members
        <2>8. Consistent(c, F \union {x}, d) /\ (PositionsRight(s) => PositionsRight(c))
            <3>1. {slot} \in SUBSET PlacesOf(s, x) BY DEF PlacesOf, x
            <3>2. Cardinality({slot}) = 1 BY FS_Singleton
            <3>3. c.new = [y \in NewSlots |-> IF y \in {slot} THEN NoAddr ELSE s.new[y]]
                BY <1>2, <2>7 DEF tab
            <3>4. /\ c.info[x].known = s.info[x].known /\ c.info[x].tried = s.info[x].tried
                  /\ c.info[x].pos = s.info[x].pos /\ c.info[x].refs = s.info[x].refs - 1
                  /\ SamePort(c, s, x)
                <4>1. s.info[x] \in Infos BY <1>1, <2>1, MemberTypes
                <4>2. QED BY <4>1, <2>4, <2>7 DEF Infos, SamePort
            <3>5. \A b \in Addrs : b # x => c.info[b] = s.info[b] BY <2>4, <2>7
            <3>6. Loses(c, s, x, {slot}) BY <3>1, <3>2, <3>3, <3>4, <3>5, <2>7 DEF Loses
            <3>7. QED BY <3>6, <2>1, LosePlaces
        <2>9. /\ c.info[x].known /\ ~c.info[x].tried /\ c.info[x].refs \in Nat
              /\ \A b \in Addrs : c.info[b].known = s.info[b].known
            BY <2>1, <2>4, <2>7, <1>1, InfoTypes DEF Infos
        <2>10. \A b \in Addrs : b # x => Alike(c, s, b) BY <2>4, <2>7 DEF Alike, SameEntry
        <2>11. CASE c.info[x].refs = 0
            <3> DEFINE hash == [y \in I2pAddrs |-> IF y = x /\ s.b32[y] = "current" THEN "none" ELSE s.b32[y]]
            <3>1. r = Delete(k, x) BY <2>2, <2>11
            <3>2. k = [c EXCEPT !.b32 = hash] BY <2>7 DEF CheckAndDeleteB32Hash
            <3>3. hash \in [I2pAddrs -> {"none", "current", "stale"}] BY <1>1, MemberTypes
            <3> HIDE DEF k, hash
            <3>4. /\ k \in Members /\ k.info = c.info /\ k.random = c.random /\ k.new = c.new
                  /\ k.tried = c.tried /\ k.nNew = c.nNew /\ k.nTried = c.nTried /\ k.b32 = hash
                  /\ k.ok = c.ok
                BY <3>2, <3>3, <2>7 DEF Members
            <3>5. /\ Consistent(k, F \union {x}, d)
                  /\ PositionsRight(c) => PositionsRight(k)
                <4>1. Consistent(k, F \union {x}, d) BY <3>4, <2>8, ConsistentSame
                <4>2. PositionsRight(c) => PositionsRight(k)
                    BY <3>4 DEF PositionsRight, Fixed, InNewRight, TriedSlot
                <4>3. QED BY <4>1, <4>2
            <3>6. /\ Consistent(r, (F \union {x}) \ {x}, d)
                  /\ r.info[x] = Unknown /\ \A b \in Addrs : b # x => Alike(r, k, b)
                  /\ r.new = k.new /\ r.tried = k.tried /\ r.ok = k.ok
                  /\ r.b32 = [y \in I2pAddrs |-> IF y = x /\ k.b32[y] = "current" THEN "stale" ELSE k.b32[y]]
                  /\ PositionsRight(k) => PositionsRight(r)
                BY <3>1, <3>4, <3>5, <2>1, <2>9, <2>11, DeleteIs
            <3>7. Consistent(r, F, d)
                <4>1. \A a \in ((F \union {x}) \ {x}) \ F : FALSE OBVIOUS
                <4>2. QED BY <4>1, <3>6, Excused
            <3>8. \A b \in Addrs : b # x => Alike(r, s, b) BY <3>4, <3>6, <2>10 DEF Alike, SameEntry
            <3>9. ASSUME HashesRight(s) PROVE HashesRight(r)
                <4>1. \A b \in I2pAddrs : b \in Addrs BY AddrAssumption
                <4>2. \A b \in I2pAddrs : b # x => r.b32[b] = s.b32[b] BY <3>4, <3>6 DEF hash
                <4>3. x \in I2pAddrs => r.b32[x] # "current" BY <3>4, <3>6 DEF hash
                <4>4. \A b \in I2pAddrs : b # x => r.info[b].known = s.info[b].known
                    BY <4>1, <3>8 DEF Alike, SameEntry
                <4>5. r.info[x].known = FALSE BY <3>6, UnknownType
                <4>6. QED BY <3>9, <4>2, <4>3, <4>4, <4>5 DEF HashesRight
            <3>10. PositionsRight(s) => PositionsRight(r) BY <2>8, <3>5, <3>6
            <3>11. QED BY <3>4, <3>6, <3>7, <3>8, <3>9, <3>10, <2>7 DEF x, r, tab
        <2>12. CASE c.info[x].refs # 0
            <3>1. r = c BY <2>2, <2>12
            <3>2. c.info[x].refs > 0 BY <2>9, <2>12
            <3>3. Consistent(c, F, d)
                <4>1. \A a \in (F \union {x}) \ F : c.info[a].refs > 0 BY <3>2
                <4>2. QED BY <4>1, <2>8, Excused
            <3>4. HashesRight(s) => HashesRight(c) BY <2>7, <2>9, AddrAssumption DEF HashesRight
            <3>5. QED BY <3>1, <3>3, <3>4, <2>7, <2>8, <2>10 DEF x, r, tab
        <2>13. QED BY <2>11, <2>12
    <1>5. QED BY <1>3, <1>4

\* From s to r, entry a takes the empty slot.
Takes(r, s, a, slot) ==
    /\ s.info[a].known /\ ~s.info[a].tried /\ s.info[a].refs < MaxRefs /\ s.new[slot] = NoAddr
    /\ r \in Members /\ r.random = s.random /\ r.tried = s.tried
    /\ r.nNew = s.nNew /\ r.nTried = s.nTried /\ r.new = [s.new EXCEPT ![slot] = a]
    /\ r.info[a].known = s.info[a].known /\ r.info[a].tried = s.info[a].tried
    /\ r.info[a].pos = s.info[a].pos /\ r.info[a].refs = s.info[a].refs + 1
    /\ \A b \in Addrs : b # a => r.info[b] = s.info[b]
    /\ SamePort(r, s, a) /\ InNewRight(s, a, slot)

LEMMA TakePlace ==
    ASSUME NEW s, NEW F, NEW d, Consistent(s, F, d), NEW a \in Addrs, NEW slot \in NewSlots,
           NEW r, Takes(r, s, a, slot)
    PROVE  Consistent(r, F \ {a}, d) /\ (PositionsRight(s) => PositionsRight(r))
    <1> USE DEF Takes
    <1>1. s \in Members BY DEF Consistent
    <1>2. /\ r.info[a].known = s.info[a].known /\ r.info[a].tried = s.info[a].tried
          /\ r.info[a].pos = s.info[a].pos /\ r.info[a].refs = s.info[a].refs + 1
        OBVIOUS
    <1>3. s.info[a].refs \in Nat /\ MaxRefs \in Nat BY <1>1, InfoTypes, AddrAssumption
    <1>4. RefsRight(r)
        <2>1. s.new \in [NewSlots -> Addrs \union {NoAddr}] BY <1>1, MemberTypes
        <2>2. PlacesOf(r, a) = PlacesOf(s, a) \union {slot} BY <2>1 DEF PlacesOf
        <2>3. slot \notin PlacesOf(s, a) BY AddrAssumption DEF PlacesOf
        <2>4. Cardinality(PlacesOf(r, a)) = Cardinality(PlacesOf(s, a)) + 1
            BY <2>2, <2>3, FiniteSets, FS_AddElement
        <2>5. \A b \in Addrs : b # a => PlacesOf(r, b) = PlacesOf(s, b)
            BY <2>1, AddrAssumption DEF PlacesOf
        <2>6. QED BY <2>4, <2>5, <1>2 DEF Consistent, RefsRight
    <1>5. OrderRight(r)
        <2>1. \A b \in Addrs : r.info[b].known = s.info[b].known /\ r.info[b].pos = s.info[b].pos
            BY <1>2
        <2>2. r.random = s.random /\ OrderRight(s) BY DEF Consistent
        <2>3. QED BY <2>1, <2>2, <1>1, OrderSame
    <1>6. \A b \in Addrs : r.info[b].tried = s.info[b].tried BY <1>2
    <1>7. TriedRight(r)
        <2>1. \A t \in TriedSlots : s.tried[t] # NoAddr => s.tried[t] \in Addrs BY <1>1, MemberTypes
        <2>2. QED BY <2>1, <1>6 DEF Consistent, TriedRight
    <1>8. EntriesRight(r, F \ {a})
        <2>1. /\ ~r.info[a].tried /\ r.info[a].known /\ r.info[a].refs <= MaxRefs
              /\ r.info[a].refs > 0
            BY <1>2, <1>3
        <2>2. \A b \in Addrs : b # a => SameStatus(r, s, b) BY DEF SameStatus
        <2>3. \A b \in Addrs : b # a =>
                /\ r.info[b].tried => r.info[b].known /\ r.info[b].refs = 0
                /\ r.info[b].refs > 0 => r.info[b].known
                /\ r.info[b].refs <= MaxRefs
                /\ r.info[b].known /\ ~r.info[b].tried /\ b \notin F => r.info[b].refs > 0
            BY <2>2 DEF Consistent, EntriesRight, SameStatus
        <2>4. QED BY <2>1, <2>3 DEF EntriesRight
    <1>9. NewOnes(r) = NewOnes(s) /\ TriedOnes(r) = TriedOnes(s)
        BY <1>2, <1>6 DEF NewOnes, TriedOnes
    <1>10. ASSUME PositionsRight(s) PROVE PositionsRight(r)
        <2>1. s.new \in [NewSlots -> Addrs \union {NoAddr}] BY <1>1, MemberTypes
        <2>2. \A x \in NewSlots : r.new[x] = IF x = slot THEN a ELSE s.new[x] BY <2>1
        <2>3. SamePort(r, s, a) /\ InNewRight(r, a, slot) BY DEF SamePort, InNewRight
        <2>4. \A b \in Addrs : SamePort(r, s, b) BY <2>3 DEF SamePort
        <2>5. r.tried = s.tried OBVIOUS
        <2> HIDE DEF Takes
        <2>6. \A b \in Addrs : Stays(r, s, b) BY <2>2, <2>3, <2>4, <2>5 DEF Stays
        <2>7. QED BY <2>6, <1>10, PositionsKept
    <1>11. QED BY <1>4, <1>5, <1>7, <1>8, <1>9, <1>10 DEF Consistent, NewCount, TriedCount

\* Place ends with every entry in its places.
LEMMA PlaceIs ==
    ASSUME NEW s, NEW d \in Int, NEW a \in Addrs, Consistent(s, {a}, d), Sound(s),
           s.info[a].known, ~s.info[a].tried, s.info[a].refs < MaxRefs,
           NEW src \in Sources, NEW terrible \in BOOLEAN
    PROVE  LET r == Place(s, a, src, terrible)
           IN  Consistent(r, {}, d) /\ Sound(r) /\ r.ok = s.ok
    <1> DEFINE slot == NewSlot(s, a, src)
               x == s.new[slot]
               c == ClearNew(s, slot)
               t == [c EXCEPT !.info[a].refs = @ + 1, !.new[slot] = a]
               r == Place(s, a, src, terrible)
    <1>1. s \in Members BY DEF Consistent
    <1>2. slot \in NewSlots /\ InNewRight(s, a, slot) BY <1>1, SlotTypes
    <1>3. \/ r = s /\ x = a
          \/ r = t /\ x # a
          \/ r = Delete(s, a) /\ s.info[a].refs = 0
          \/ r = s /\ s.info[a].refs # 0
        BY DEF Place
    <1> HIDE DEF slot, r
    <1> HashesRight(s) /\ PositionsRight(s) BY DEF Sound
    <1>4. s.info[a].refs > 0 => Consistent(s, {}, d) BY Excused
    <1>5. CASE r = s /\ x = a
        <2>1. s.info[a].refs > 0 BY <1>2, <1>5, PlacedEntry, AddrAssumption
        <2>2. QED BY <2>1, <1>4, <1>5 DEF r
    <1>6. CASE r = s /\ s.info[a].refs # 0
        <2>1. s.info[a].refs > 0 BY <1>1, <1>6, InfoTypes
        <2>2. QED BY <2>1, <1>4, <1>6 DEF r
    <1>7. CASE r = Delete(s, a) /\ s.info[a].refs = 0
        <2>1. /\ Consistent(r, {a} \ {a}, d)
              /\ r.info[a] = Unknown /\ \A b \in Addrs : b # a => Alike(r, s, b)
              /\ r.b32 = [y \in I2pAddrs |-> IF y = a /\ s.b32[y] = "current" THEN "stale" ELSE s.b32[y]]
              /\ r.ok = s.ok /\ PositionsRight(r)
            BY <1>7, DeleteIs
        <2>2. {a} \ {a} = {} OBVIOUS
        <2>3. HashesRight(r)
            <3>1. \A b \in I2pAddrs : b # a => r.info[b].known = s.info[b].known /\ r.b32[b] = s.b32[b]
                BY <2>1, AddrAssumption DEF Alike, SameEntry
            <3>2. r.info[a].known = FALSE BY <2>1, UnknownType
            <3>3. a \in I2pAddrs => r.b32[a] # "current" BY <2>1
            <3>4. QED BY <3>1, <3>2, <3>3 DEF HashesRight
        <2>4. QED BY <2>1, <2>2, <2>3 DEF r, Sound
    <1>8. CASE r = t /\ x # a
        <2>1. /\ Consistent(c, {a}, d) /\ c.new = [s.new EXCEPT ![slot] = NoAddr]
              /\ c.tried = s.tried /\ c.ok = s.ok /\ Alike(c, s, a) /\ HashesRight(c)
              /\ PositionsRight(c)
            BY <1>2, <1>8, ClearNewIs
        <2> HIDE DEF c
        <2>2. c \in Members BY <2>1 DEF Consistent
        <2>3. /\ c.info[a].known /\ ~c.info[a].tried /\ c.info[a].refs < MaxRefs
              /\ c.info[a].refs \in Nat
            BY <2>1, <2>2, InfoTypes DEF Alike, SameEntry
        <2>4. c.new[slot] = NoAddr BY <2>1, <1>1, <1>2, MemberTypes
        <2> DEFINE inf == [c.info EXCEPT ![a].refs = @ + 1]
                   tab == [c.new EXCEPT ![slot] = a]
        <2>5. /\ inf \in [Addrs -> Infos] /\ inf[a] = [c.info[a] EXCEPT !.refs = c.info[a].refs + 1]
              /\ \A b \in Addrs : b # a => inf[b] = c.info[b]
            <3>1. c.info \in [Addrs -> Infos] BY <2>2, MemberTypes
            <3>2. c.info[a].refs + 1 \in Nat BY <2>3
            <3>3. QED BY <3>1, <3>2 DEF Infos
        <2>6. tab \in [NewSlots -> Addrs \union {NoAddr}] BY <1>2, <2>2, MemberTypes
        <2>7. r = [c EXCEPT !.info = inf, !.new = tab] BY <1>8, <2>2 DEF Members
        <2> HIDE DEF inf, tab
        <2>8. /\ r \in Members /\ r.ok = c.ok /\ r.info = inf /\ r.random = c.random
              /\ r.new = tab /\ r.tried = c.tried /\ r.nNew = c.nNew /\ r.nTried = c.nTried
              /\ r.b32 = c.b32
            BY <2>2, <2>5, <2>6, <2>7 DEF Members
        <2>9. Consistent(r, {a} \ {a}, d) /\ PositionsRight(r)
            <3> DEFINE F == {a}
            <3>1. Consistent(c, F, d) BY <2>1
            <3>2. r.new = [c.new EXCEPT ![slot] = a] BY <2>8 DEF tab
            <3>3. /\ r.info[a].known = c.info[a].known /\ r.info[a].tried = c.info[a].tried
                  /\ r.info[a].pos = c.info[a].pos /\ r.info[a].refs = c.info[a].refs + 1
                  /\ SamePort(r, c, a) /\ \A b \in Addrs : b # a => r.info[b] = c.info[b]
                BY <2>2, <2>5, <2>8, InfoTypes DEF Infos, SamePort
            <3> HIDE DEF F
            <3>4. Takes(r, c, a, slot)
                <4>1. InNewRight(c, a, slot) BY <1>2, <2>1 DEF Alike, SameEntry, InNewRight
                <4>2. QED BY <4>1, <2>3, <2>4, <2>8, <3>2, <3>3 DEF Takes
            <3>5. Consistent(r, F \ {a}, d) /\ PositionsRight(r) BY <1>2, <2>1, <3>1, <3>4, TakePlace
            <3>6. QED BY <3>5 DEF F
        <2>10. {a} \ {a} = {} OBVIOUS
        <2>11. HashesRight(r)
            <3>1. \A b \in Addrs : r.info[b].known = c.info[b].known
                BY <2>2, <2>5, <2>8, InfoTypes DEF Infos
            <3>2. QED BY <3>1, <2>1, <2>8, AddrAssumption DEF HashesRight
        <2>12. QED BY <2>1, <2>8, <2>9, <2>10, <2>11 DEF r, Sound
    <1>9. QED BY <1>3, <1>5, <1>6, <1>7, <1>8

\* From s to r, entry e leaves its slot in the tried table.
LeavesTried(r, s, e, slot) ==
    /\ r \in Members /\ r.random = s.random /\ r.new = s.new /\ r.nNew = s.nNew
    /\ s.tried[slot] = e /\ r.tried = [s.tried EXCEPT ![slot] = NoAddr] /\ r.nTried = s.nTried - 1
    /\ r.info[e].known = s.info[e].known /\ ~r.info[e].tried
    /\ r.info[e].pos = s.info[e].pos /\ r.info[e].refs = s.info[e].refs /\ SamePort(r, s, e)
    /\ \A b \in Addrs : b # e => r.info[b] = s.info[b]

\* It is a new one then that nNew does not count yet.
LEMMA LeaveTried ==
    ASSUME NEW s, NEW F, NEW d \in Int, Consistent(s, F, d), NEW e \in Addrs, NEW slot \in TriedSlots,
           NEW r, LeavesTried(r, s, e, slot)
    PROVE  Consistent(r, F \union {e}, d - 1) /\ (PositionsRight(s) => PositionsRight(r))
    <1> USE DEF LeavesTried
    <1>1. s \in Members BY DEF Consistent
    <1>2. s.tried \in [TriedSlots -> Addrs \union {NoAddr}] BY <1>1, MemberTypes
    <1>3. s.info[e].tried /\ s.info[e].known /\ s.info[e].refs = 0
        <2>1. s.info[e].tried BY AddrAssumption DEF Consistent, TriedRight
        <2>2. QED BY <2>1 DEF Consistent, EntriesRight
    <1>4. RefsRight(r)
        <2>1. \A b \in Addrs : PlacesOf(r, b) = PlacesOf(s, b) BY DEF PlacesOf
        <2>2. \A b \in Addrs : r.info[b].refs = s.info[b].refs OBVIOUS
        <2>3. QED BY <2>1, <2>2 DEF Consistent, RefsRight
    <1>5. OrderRight(r)
        <2>1. \A b \in Addrs : r.info[b].known = s.info[b].known /\ r.info[b].pos = s.info[b].pos
            OBVIOUS
        <2>2. r.random = s.random /\ OrderRight(s) BY DEF Consistent
        <2>3. QED BY <2>1, <2>2, <1>1, OrderSame
    <1>6. TriedRight(r)
        <2>1. /\ \A t \in TriedSlots : s.tried[t] # NoAddr => s.info[s.tried[t]].tried
              /\ \A t, u \in TriedSlots : s.tried[t] = s.tried[u] /\ s.tried[t] # NoAddr => t = u
              /\ \A a \in Addrs : s.info[a].tried => \E t \in TriedSlots : s.tried[t] = a
            BY DEF Consistent, TriedRight
        <2>2. \A t \in TriedSlots : r.tried[t] = IF t = slot THEN NoAddr ELSE s.tried[t] BY <1>2
        <2>3. e # NoAddr BY AddrAssumption
        <2>4. \A t \in TriedSlots : r.tried[t] # NoAddr => r.tried[t] \in Addrs /\ r.tried[t] # e
            BY <1>2, <2>1, <2>2, <2>3
        <2>5. \A t \in TriedSlots : r.tried[t] # NoAddr => r.info[r.tried[t]].tried
            BY <2>1, <2>2, <2>4
        <2>6. \A t, u \in TriedSlots : r.tried[t] = r.tried[u] /\ r.tried[t] # NoAddr => t = u
            BY <2>1, <2>2
        <2>7. ASSUME NEW a \in Addrs, r.info[a].tried PROVE \E t \in TriedSlots : r.tried[t] = a
            <3>1. a # e BY <2>7
            <3>2. s.info[a].tried BY <2>7, <3>1
            <3>3. PICK t \in TriedSlots : s.tried[t] = a BY <3>2, <2>1
            <3>4. t # slot BY <3>1, <3>3
            <3>5. QED BY <3>3, <3>4, <2>2
        <2>8. QED BY <2>5, <2>6, <2>7 DEF TriedRight
    <1>7. EntriesRight(r, F \union {e})
        <2>1. /\ ~r.info[e].tried /\ r.info[e].known /\ r.info[e].refs = 0
              /\ r.info[e].refs <= MaxRefs
            BY <1>3, AddrAssumption
        <2>2. \A b \in Addrs : b # e => SameStatus(r, s, b) BY DEF SameStatus
        <2>3. \A b \in Addrs : b # e =>
                /\ r.info[b].tried => r.info[b].known /\ r.info[b].refs = 0
                /\ r.info[b].refs > 0 => r.info[b].known
                /\ r.info[b].refs <= MaxRefs
                /\ r.info[b].known /\ ~r.info[b].tried /\ b \notin F => r.info[b].refs > 0
            BY <2>2 DEF Consistent, EntriesRight, SameStatus
        <2>4. QED BY <2>1, <2>3 DEF EntriesRight
    <1>8. NewCount(r, d - 1)
        <2>1. NewOnes(r) = NewOnes(s) \union {e} /\ e \notin NewOnes(s) BY <1>3 DEF NewOnes
        <2>2. Cardinality(NewOnes(r)) = Cardinality(NewOnes(s)) + 1
            BY <2>1, FiniteSets, FS_AddElement
        <2>3. s.nNew = Cardinality(NewOnes(s)) + d BY DEF Consistent, NewCount
        <2>4. Cardinality(NewOnes(s)) \in Int BY FiniteSets
        <2>5. QED BY <2>2, <2>3, <2>4 DEF NewCount
    <1>9. TriedCount(r)
        <2>1. TriedOnes(r) = TriedOnes(s) \ {e} /\ e \in TriedOnes(s) BY <1>3 DEF TriedOnes
        <2>2. IsFiniteSet(TriedOnes(s)) BY FiniteSets
        <2> HIDE DEF LeavesTried
        <2>3. Cardinality(TriedOnes(r)) = Cardinality(TriedOnes(s)) - 1
            BY <2>1, <2>2, FS_RemoveElement
        <2>4. s.nTried = Cardinality(TriedOnes(s)) BY DEF Consistent, TriedCount
        <2> USE DEF LeavesTried
        <2>5. QED BY <2>3, <2>4 DEF TriedCount
    <1>10. ASSUME PositionsRight(s) PROVE PositionsRight(r)
        <2>1. \A t \in TriedSlots : r.tried[t] = NoAddr \/ r.tried[t] = s.tried[t] BY <1>2
        <2>2. \A b \in Addrs : SamePort(r, s, b) BY DEF SamePort
        <2>3. \A b \in Addrs : Stays(r, s, b) BY <2>1, <2>2, AddrAssumption DEF Stays
        <2>4. QED BY <2>3, <1>10, PositionsKept
    <1>11. QED BY <1>4, <1>5, <1>6, <1>7, <1>8, <1>9, <1>10 DEF Consistent

LEMMA CountBy ==
    ASSUME NEW s, NEW F, NEW d \in Int, Consistent(s, F, d), NEW r \in Members, NEW k \in Int,
           r.info = s.info, r.random = s.random, r.new = s.new, r.tried = s.tried,
           r.nNew = s.nNew + k, r.nTried = s.nTried
    PROVE  Consistent(r, F, d + k) /\ (PositionsRight(s) => PositionsRight(r))
    <1>1. /\ RefsRight(r) /\ OrderRight(r) /\ TriedRight(r) /\ EntriesRight(r, F) /\ TriedCount(r)
        BY DEF Consistent, RefsRight, PlacesOf, OrderRight, TriedRight, EntriesRight,
               TriedCount, TriedOnes
    <1>2. NewOnes(r) = NewOnes(s) BY DEF NewOnes
    <1>3. s.nNew = Cardinality(NewOnes(s)) + d BY DEF Consistent, NewCount
    <1>4. Cardinality(NewOnes(s)) \in Int BY FiniteSets
    <1>5. NewCount(r, d + k) BY <1>2, <1>3, <1>4 DEF NewCount
    <1>6. PositionsRight(s) => PositionsRight(r) BY DEF PositionsRight, Fixed, InNewRight, TriedSlot
    <1>7. QED BY <1>1, <1>5, <1>6 DEF Consistent

\* Evict frees a slot of the tried table: the entry that was there has a place in the new
\* one, and a new entry without a place is as it was.
LEMMA EvictIs ==
    ASSUME NEW s, NEW F, NEW d \in Int, Consistent(s, F, d), NEW slot \in TriedSlots
    PROVE  LET r == Evict(s, slot)
           IN  /\ Consistent(r, F, d)
               /\ r.tried = [s.tried EXCEPT ![slot] = NoAddr] /\ r.ok = s.ok
               /\ NewOnes(s) # {} => NewOnes(r) # {}
               /\ \A a \in NewOnes(s) : s.info[a].refs = 0 => SameStatus(r, s, a) /\ SamePort(r, s, a)
               /\ HashesRight(s) => HashesRight(r)
               /\ PositionsRight(s) => PositionsRight(r)
    <1> DEFINE e == s.tried[slot]
               out == [s EXCEPT !.info[e].tried = FALSE, !.tried[slot] = NoAddr, !.nTried = @ - 1]
               to == NewSlot(out, e, out.info[e].source)
               c == ClearNew(out, to)
               r == Evict(s, slot)
    <1>1. s \in Members BY DEF Consistent
    <1>2. s.tried \in [TriedSlots -> Addrs \union {NoAddr}] BY <1>1, MemberTypes
    <1>3. CASE e = NoAddr
        <2>1. r = s BY <1>3 DEF Evict
        <2>2. s.tried = [s.tried EXCEPT ![slot] = NoAddr] BY <1>2, <1>3
        <2>3. QED BY <2>1, <2>2 DEF SameStatus, SamePort
    <1>4. CASE e # NoAddr
        <2>1. e \in Addrs BY <1>2, <1>4
        <2>2. r = [c EXCEPT !.info[e].refs = 1, !.new[to] = e, !.nNew = @ + 1] BY <1>4 DEF Evict
        <2> HIDE DEF e, r
        <2> DEFINE inf == [s.info EXCEPT ![e].tried = FALSE]
                   tab == [s.tried EXCEPT ![slot] = NoAddr]
        <2>3. /\ inf \in [Addrs -> Infos] /\ inf[e].tried = FALSE
              /\ inf[e].known = s.info[e].known /\ inf[e].pos = s.info[e].pos
              /\ inf[e].refs = s.info[e].refs /\ inf[e].port = s.info[e].port
              /\ inf[e].moved = s.info[e].moved /\ \A b \in Addrs : b # e => inf[b] = s.info[b]
            <3>1. s.info \in [Addrs -> Infos] BY <1>1, MemberTypes
            <3>2. QED BY <3>1, <2>1 DEF Infos
        <2>4. tab \in [TriedSlots -> Addrs \union {NoAddr}] BY <1>2
        <2>5. out = [s EXCEPT !.info = inf, !.tried = tab, !.nTried = s.nTried - 1]
            BY <1>1 DEF Members
        <2> HIDE DEF inf, tab, out
        <2>6. /\ out \in Members /\ out.info = inf /\ out.random = s.random /\ out.new = s.new
              /\ out.tried = tab /\ out.nNew = s.nNew /\ out.nTried = s.nTried - 1
              /\ out.b32 = s.b32 /\ out.ok = s.ok
            <3>1. s.nTried - 1 \in Int BY <1>1, MemberTypes
            <3>2. QED BY <3>1, <1>1, <2>3, <2>4, <2>5 DEF Members
        <2>7. LeavesTried(out, s, e, slot) BY <2>3, <2>6 DEF LeavesTried, SamePort, tab, e
        <2>8. Consistent(out, F \union {e}, d - 1) /\ (PositionsRight(s) => PositionsRight(out))
            BY <2>1, <2>7, LeaveTried
        <2>9. s.info[e].tried /\ s.info[e].known /\ s.info[e].refs = 0
            <3>1. s.info[e].tried BY <1>4 DEF Consistent, TriedRight, e
            <3>2. QED BY <3>1, <2>1 DEF Consistent, EntriesRight
        <2>10. out.info[e].known /\ ~out.info[e].tried /\ out.info[e].refs = 0 BY <2>3, <2>6, <2>9
        <2>11. to \in NewSlots /\ InNewRight(out, e, to)
            <3>1. out.info[e].source \in Sources BY <2>1, <2>6, InfoTypes
            <3>2. QED BY <3>1, <2>1, <2>6, SlotTypes
        <2> HIDE DEF to
        <2>12. out.new[to] # e
            BY <2>1, <2>8, <2>10, <2>11, PlacedEntry, AddrAssumption
        <2>13. d - 1 \in Int OBVIOUS
        <2>14. /\ Consistent(c, F \union {e}, d - 1) /\ c.new = [out.new EXCEPT ![to] = NoAddr]
               /\ c.tried = out.tried /\ c.ok = out.ok
               /\ \A b \in Addrs : b # out.new[to] => Alike(c, out, b)
               /\ HashesRight(out) => HashesRight(c)
               /\ PositionsRight(out) => PositionsRight(c)
            BY <2>8, <2>11, <2>13, ClearNewIs
        <2> HIDE DEF c
        <2>15. c \in Members BY <2>14 DEF Consistent
        <2>16. c.info[e].known /\ ~c.info[e].tried /\ c.info[e].refs = 0 /\ InNewRight(c, e, to)
            BY <2>1, <2>10, <2>11, <2>12, <2>14 DEF Alike, SameEntry, InNewRight
        <2>17. c.new[to] = NoAddr BY <2>6, <2>11, <2>14, MemberTypes
        <2> DEFINE inf2 == [c.info EXCEPT ![e].refs = 1]
                   tab2 == [c.new EXCEPT ![to] = e]
                   g == [c EXCEPT !.info = inf2, !.new = tab2]
        <2>18. /\ inf2 \in [Addrs -> Infos] /\ inf2[e].refs = 1
               /\ inf2[e].known = c.info[e].known /\ inf2[e].tried = c.info[e].tried
               /\ inf2[e].port = c.info[e].port /\ inf2[e].moved = c.info[e].moved
               /\ inf2[e].pos = c.info[e].pos /\ \A b \in Addrs : b # e => inf2[b] = c.info[b]
            <3>1. c.info \in [Addrs -> Infos] BY <2>15, MemberTypes
            <3>2. QED BY <3>1, <2>1 DEF Infos
        <2>19. tab2 \in [NewSlots -> Addrs \union {NoAddr}] BY <2>1, <2>11, <2>15, MemberTypes
        <2>20. r = [g EXCEPT !.nNew = c.nNew + 1] BY <2>2, <2>15 DEF Members
        <2> HIDE DEF inf2
        <2>21. /\ g \in Members /\ g.info = inf2 /\ g.random = c.random /\ g.new = tab2
               /\ g.tried = c.tried /\ g.nNew = c.nNew /\ g.nTried = c.nTried
               /\ g.b32 = c.b32 /\ g.ok = c.ok
            <3> HIDE DEF tab2
            <3>1. QED BY <2>15, <2>18, <2>19 DEF Members
        <2> HIDE DEF g
        <2>22. Takes(g, c, e, to)
            <3>1. g.info[e].refs = c.info[e].refs + 1 BY <2>16, <2>18, <2>21
            <3>2. c.info[e].refs < MaxRefs BY <2>16, AddrAssumption
            <3>3. QED BY <3>1, <3>2, <2>11, <2>16, <2>17, <2>18, <2>21 DEF Takes, SamePort, tab2
        <2>23. Consistent(g, (F \union {e}) \ {e}, d - 1) /\ (PositionsRight(c) => PositionsRight(g))
            BY <2>1, <2>11, <2>14, <2>22, TakePlace
        <2> HIDE DEF tab2
        <2>24. /\ r \in Members /\ r.info = g.info /\ r.random = g.random /\ r.new = g.new
               /\ r.tried = g.tried /\ r.nNew = g.nNew + 1 /\ r.nTried = g.nTried
               /\ r.b32 = g.b32 /\ r.ok = g.ok
            <3>1. c.nNew + 1 \in Int BY <2>15, MemberTypes
            <3>2. QED BY <3>1, <2>20, <2>21 DEF Members
        <2>25. Consistent(r, F, d) /\ (PositionsRight(g) => PositionsRight(r))
            <3>1. /\ Consistent(r, (F \union {e}) \ {e}, (d - 1) + 1)
                  /\ PositionsRight(g) => PositionsRight(r)
                BY <2>13, <2>23, <2>24, CountBy
            <3>2. (d - 1) + 1 = d OBVIOUS
            <3>3. \A a \in ((F \union {e}) \ {e}) \ F : FALSE OBVIOUS
            <3>4. QED BY <3>1, <3>2, <3>3, Excused
        <2>26. e \in NewOnes(r) BY <2>1, <2>16, <2>18, <2>21, <2>24 DEF NewOnes
        <2>27. ASSUME NEW a \in NewOnes(s), s.info[a].refs = 0
               PROVE  SameStatus(r, s, a) /\ SamePort(r, s, a)
            <3>1. a \in Addrs /\ ~s.info[a].tried BY DEF NewOnes
            <3>2. a # e BY <3>1, <2>9
            <3>3. out.info[a] = s.info[a] BY <3>1, <3>2, <2>3, <2>6
            <3>4. out.new[to] # a
                BY <3>1, <3>3, <2>27, <2>8, <2>11, PlacedEntry, AddrAssumption
            <3>5. Alike(c, out, a) BY <3>1, <3>4, <2>14
            <3>6. r.info[a] = c.info[a] BY <3>1, <3>2, <2>18, <2>21, <2>24
            <3>7. QED BY <3>3, <3>5, <3>6 DEF Alike, SameEntry, SameStatus, SamePort
        <2>28. ASSUME HashesRight(s) PROVE HashesRight(r)
            <3>1. \A b \in Addrs : out.info[b].known = s.info[b].known BY <2>3, <2>6
            <3>2. HashesRight(out) BY <2>28, <3>1, <2>6, AddrAssumption DEF HashesRight
            <3>3. HashesRight(c) BY <3>2, <2>14
            <3>4. \A b \in Addrs : r.info[b].known = c.info[b].known BY <2>18, <2>21, <2>24
            <3>5. r.b32 = c.b32 BY <2>21, <2>24
            <3>6. QED BY <3>3, <3>4, <3>5, AddrAssumption DEF HashesRight
        <2>29. PositionsRight(s) => PositionsRight(r) BY <2>8, <2>14, <2>23, <2>25
        <2>30. QED BY <2>6, <2>14, <2>21, <2>24, <2>25, <2>26, <2>27, <2>28, <2>29 DEF r, tab
    <1>5. QED BY <1>3, <1>4

\* From s to r, the new entry a, which has no place any more, takes an empty slot of the tried
\* table.
EntersTried(r, s, a, slot) ==
    /\ s.info[a].known /\ ~s.info[a].tried /\ s.info[a].refs = 0 /\ s.tried[slot] = NoAddr
    /\ r \in Members /\ r.random = s.random /\ r.new = s.new /\ r.nNew = s.nNew
    /\ r.tried = [s.tried EXCEPT ![slot] = a] /\ r.nTried = s.nTried + 1
    /\ r.info[a].known = s.info[a].known /\ r.info[a].tried
    /\ r.info[a].pos = s.info[a].pos /\ r.info[a].refs = s.info[a].refs
    /\ SamePort(r, s, a) /\ slot = TriedSlot(s, a)
    /\ \A b \in Addrs : b # a => r.info[b] = s.info[b]

LEMMA EnterTried ==
    ASSUME NEW s, NEW F, NEW d \in Int, Consistent(s, F, d), NEW a \in Addrs, NEW slot \in TriedSlots,
           NEW r, EntersTried(r, s, a, slot)
    PROVE  Consistent(r, F \ {a}, d + 1) /\ (PositionsRight(s) => PositionsRight(r))
    <1> USE DEF EntersTried
    <1>1. s \in Members BY DEF Consistent
    <1>2. s.tried \in [TriedSlots -> Addrs \union {NoAddr}] BY <1>1, MemberTypes
    <1>3. RefsRight(r)
        <2>1. \A b \in Addrs : PlacesOf(r, b) = PlacesOf(s, b) BY DEF PlacesOf
        <2>2. \A b \in Addrs : r.info[b].refs = s.info[b].refs OBVIOUS
        <2>3. QED BY <2>1, <2>2 DEF Consistent, RefsRight
    <1>4. OrderRight(r)
        <2>1. \A b \in Addrs : r.info[b].known = s.info[b].known /\ r.info[b].pos = s.info[b].pos
            OBVIOUS
        <2>2. r.random = s.random /\ OrderRight(s) BY DEF Consistent
        <2>3. QED BY <2>1, <2>2, <1>1, OrderSame
    <1>5. TriedRight(r)
        <2>1. /\ \A t \in TriedSlots : s.tried[t] # NoAddr => s.info[s.tried[t]].tried
              /\ \A t, u \in TriedSlots : s.tried[t] = s.tried[u] /\ s.tried[t] # NoAddr => t = u
              /\ \A b \in Addrs : s.info[b].tried => \E t \in TriedSlots : s.tried[t] = b
            BY DEF Consistent, TriedRight
        <2>2. \A t \in TriedSlots : r.tried[t] = IF t = slot THEN a ELSE s.tried[t] BY <1>2
        <2>3. \A t \in TriedSlots : s.tried[t] # a BY <2>1, AddrAssumption
        <2>4. \A t \in TriedSlots : s.tried[t] # NoAddr => s.tried[t] \in Addrs BY <1>2
        <2>5. \A t \in TriedSlots : r.tried[t] # NoAddr => r.info[r.tried[t]].tried
            BY <2>1, <2>2, <2>3, <2>4
        <2>6. \A t, u \in TriedSlots : r.tried[t] = r.tried[u] /\ r.tried[t] # NoAddr => t = u
            BY <2>1, <2>2, <2>3
        <2>7. ASSUME NEW b \in Addrs, r.info[b].tried PROVE \E t \in TriedSlots : r.tried[t] = b
            <3>1. CASE b = a BY <3>1, <2>2
            <3>2. CASE b # a
                <4>1. s.info[b].tried BY <2>7, <3>2
                <4>2. PICK t \in TriedSlots : s.tried[t] = b BY <4>1, <2>1
                <4>3. t # slot BY <4>2, AddrAssumption
                <4>4. QED BY <4>2, <4>3, <2>2
            <3>3. QED BY <3>1, <3>2
        <2>8. QED BY <2>5, <2>6, <2>7 DEF TriedRight
    <1>6. EntriesRight(r, F \ {a})
        <2>1. r.info[a].tried /\ r.info[a].known /\ r.info[a].refs = 0 /\ r.info[a].refs <= MaxRefs
            BY AddrAssumption
        <2>2. \A b \in Addrs : b # a => SameStatus(r, s, b) BY DEF SameStatus
        <2>3. \A b \in Addrs : b # a =>
                /\ r.info[b].tried => r.info[b].known /\ r.info[b].refs = 0
                /\ r.info[b].refs > 0 => r.info[b].known
                /\ r.info[b].refs <= MaxRefs
                /\ r.info[b].known /\ ~r.info[b].tried /\ b \notin F => r.info[b].refs > 0
            BY <2>2 DEF Consistent, EntriesRight, SameStatus
        <2>4. QED BY <2>1, <2>3 DEF EntriesRight
    <1>7. NewCount(r, d + 1)
        <2>1. NewOnes(r) = NewOnes(s) \ {a} /\ a \in NewOnes(s) BY DEF NewOnes
        <2> HIDE DEF EntersTried
        <2>2. Cardinality(NewOnes(r)) = Cardinality(NewOnes(s)) - 1
            <3>1. IsFiniteSet(NewOnes(s)) BY FiniteSets
            <3>2. QED BY <2>1, <3>1, FS_RemoveElement
        <2>3. s.nNew = Cardinality(NewOnes(s)) + d BY DEF Consistent, NewCount
        <2>4. Cardinality(NewOnes(s)) \in Int BY FiniteSets
        <2> USE DEF EntersTried
        <2>5. QED BY <2>2, <2>3, <2>4 DEF NewCount
    <1>8. TriedCount(r)
        <2>1. TriedOnes(r) = TriedOnes(s) \union {a} /\ a \notin TriedOnes(s) BY DEF TriedOnes
        <2>2. IsFiniteSet(TriedOnes(s)) BY FiniteSets
        <2> HIDE DEF EntersTried
        <2>3. Cardinality(TriedOnes(r)) = Cardinality(TriedOnes(s)) + 1
            BY <2>1, <2>2, FS_AddElement
        <2>4. s.nTried = Cardinality(TriedOnes(s)) BY DEF Consistent, TriedCount
        <2> USE DEF EntersTried
        <2>5. QED BY <2>3, <2>4 DEF TriedCount
    <1>9. ASSUME PositionsRight(s) PROVE PositionsRight(r)
        <2>1. \A t \in TriedSlots : r.tried[t] = IF t = slot THEN a ELSE s.tried[t] BY <1>2
        <2>2. slot = TriedSlot(r, a) BY DEF SamePort, TriedSlot
        <2>3. \A b \in Addrs : SamePort(r, s, b) BY DEF SamePort
        <2>4. r.new = s.new OBVIOUS
        <2> HIDE DEF EntersTried
        <2>5. \A b \in Addrs : Stays(r, s, b) BY <2>1, <2>2, <2>3, <2>4 DEF Stays
        <2>6. QED BY <2>5, <1>9, PositionsKept
    <1>10. QED BY <1>3, <1>4, <1>5, <1>6, <1>7, <1>8, <1>9 DEF Consistent

\* MakeTried: when the assertion holds, all is consistent, and when it fails, the members
\* still have their types.
LEMMA MakeTriedIs ==
    ASSUME NEW s, Consistent(s, {}, 0), Sound(s), NEW a \in NewOnes(s)
    PROVE  LET r == MakeTried(s, a)
           IN  /\ r \in AddrMen /\ (r.ok => Consistent(r, {}, 0) /\ Sound(r))
               /\ Fixed(s, a) => r.ok = s.ok
    <1> DEFINE from == {<<b, GetBucketPosition(a, s.info[a].port, b)>> : b \in BucketsOf(s, a)}
               tab == [x \in NewSlots |-> IF x \in from THEN NoAddr ELSE s.new[x]]
               inf == [s.info EXCEPT ![a].refs = @ - Cardinality(from)]
               g == [s EXCEPT !.new = tab, !.info = inf]
               out == [s EXCEPT !.new = [x \in NewSlots |-> IF x \in from THEN NoAddr ELSE @[x]],
                                !.info[a].refs = @ - Cardinality(from), !.nNew = @ - 1]
               c == Assert(out, out.info[a].refs = 0)
               slot == TriedSlot(s, a)
               v == Evict(c, slot)
               r == MakeTried(s, a)
    <1>1. s \in Members BY DEF Consistent
    <1>2. a \in Addrs /\ s.info[a].known /\ ~s.info[a].tried BY DEF NewOnes
    <1>3. from \in SUBSET PlacesOf(s, a)
        <2>1. \A b \in NewBuckets : <<b, GetBucketPosition(a, s.info[a].port, b)>> \in NewSlots
            BY <1>1, <1>2, SlotTypes
        <2>2. QED BY <2>1 DEF BucketsOf, PlacesOf
    <1>4. slot \in TriedSlots BY <1>1, <1>2, SlotTypes
    <1>5. r = [v EXCEPT !.tried[slot] = a, !.nTried = @ + 1, !.info[a].tried = TRUE]
        BY DEF MakeTried
    <1> HIDE DEF from, slot, r
    <1> HashesRight(s) /\ PositionsRight(s) BY DEF Sound
    <1>6. Cardinality(from) \in Nat /\ s.info[a].refs - Cardinality(from) \in Nat
        <2>1. IsFiniteSet(from) /\ Cardinality(from) <= Cardinality(PlacesOf(s, a))
            BY <1>3, FiniteSets, FS_Subset
        <2>2. Cardinality(from) \in Nat BY <2>1, FS_CardinalityType
        <2>3. s.info[a].refs = Cardinality(PlacesOf(s, a)) BY <1>2 DEF Consistent, RefsRight
        <2>4. QED BY <2>1, <2>2, <2>3, FiniteSets
    <1>7. /\ inf \in [Addrs -> Infos]
          /\ inf[a] = [s.info[a] EXCEPT !.refs = s.info[a].refs - Cardinality(from)]
          /\ \A b \in Addrs : b # a => inf[b] = s.info[b]
        <2>1. s.info \in [Addrs -> Infos] BY <1>1, MemberTypes
        <2>2. QED BY <2>1, <1>2, <1>6 DEF Infos
    <1>8. tab \in [NewSlots -> Addrs \union {NoAddr}] BY <1>1, MemberTypes
    <1>9. out = [g EXCEPT !.nNew = s.nNew - 1] BY <1>1 DEF Members
    <1> HIDE DEF inf, tab, out
    <1>10. /\ g \in Members /\ g.info = inf /\ g.random = s.random /\ g.new = tab
           /\ g.tried = s.tried /\ g.nNew = s.nNew /\ g.nTried = s.nTried
           /\ g.b32 = s.b32 /\ g.ok = s.ok
        BY <1>1, <1>7, <1>8 DEF Members
    <1> HIDE DEF g
    <1>11. Consistent(g, {} \union {a}, 0) /\ PositionsRight(g) /\ SamePort(g, s, a)
        <2>1. /\ g.info[a].known = s.info[a].known /\ g.info[a].tried = s.info[a].tried
              /\ g.info[a].pos = s.info[a].pos
              /\ g.info[a].refs = s.info[a].refs - Cardinality(from)
              /\ SamePort(g, s, a)
            <3>1. s.info[a] \in Infos BY <1>1, <1>2, MemberTypes
            <3>2. QED BY <3>1, <1>7, <1>10 DEF Infos, SamePort
        <2>2. \A b \in Addrs : b # a => g.info[b] = s.info[b] BY <1>7, <1>10
        <2>3. g.new = [x \in NewSlots |-> IF x \in from THEN NoAddr ELSE s.new[x]]
            BY <1>10 DEF tab
        <2>4. Loses(g, s, a, from) BY <2>1, <2>2, <2>3, <1>3, <1>10 DEF Loses
        <2>5. QED BY <2>1, <2>4, <1>2, LosePlaces
    <1>12. /\ out \in Members /\ out.info = inf /\ out.random = g.random /\ out.new = g.new
           /\ out.tried = g.tried /\ out.nNew = g.nNew + (-1) /\ out.nTried = g.nTried
           /\ out.b32 = s.b32 /\ out.ok = s.ok
        <2>1. s.nNew - 1 \in Int /\ s.nNew - 1 = s.nNew + (-1) BY <1>1, MemberTypes
        <2>2. QED BY <2>1, <1>9, <1>10 DEF Members
    <1>13. Consistent(out, {a}, -1) /\ PositionsRight(out)
        <2>1. {} \union {a} = {a} /\ 0 + (-1) = -1 OBVIOUS
        <2>2. Consistent(out, {} \union {a}, 0 + (-1)) /\ PositionsRight(out)
            BY <1>10, <1>11, <1>12, CountBy
        <2>3. QED BY <2>1, <2>2
    <1>14. /\ c \in Members /\ c.ok = (s.ok /\ out.info[a].refs = 0)
           /\ c.info = inf /\ c.random = out.random /\ c.new = out.new /\ c.tried = out.tried
           /\ c.nNew = out.nNew /\ c.nTried = out.nTried /\ c.b32 = s.b32
        BY <1>12, AssertIs
    <1> HIDE DEF c
    <1>15. Consistent(c, {a}, -1) /\ PositionsRight(c) /\ SamePort(c, s, a)
        <2>1. Consistent(c, {a}, -1) BY <1>12, <1>13, <1>14, ConsistentSame
        <2>2. PositionsRight(c) BY <1>12, <1>13, <1>14 DEF PositionsRight, Fixed, InNewRight, TriedSlot
        <2>3. SamePort(c, s, a) BY <1>10, <1>11, <1>14 DEF SamePort
        <2>4. QED BY <2>1, <2>2, <2>3
    <1>16. /\ a \in NewOnes(c) /\ \A b \in Addrs : c.info[b].known = s.info[b].known
        BY <1>1, <1>2, <1>7, <1>14, InfoTypes DEF Infos, NewOnes
    <1>17. HashesRight(c) BY <1>14, <1>16, AddrAssumption DEF HashesRight
    <1>18. /\ Consistent(v, {a}, -1)
           /\ v.tried = [c.tried EXCEPT ![slot] = NoAddr] /\ v.ok = c.ok
           /\ NewOnes(v) # {} /\ (c.info[a].refs = 0 => SameStatus(v, c, a) /\ SamePort(v, c, a))
           /\ HashesRight(v) /\ PositionsRight(v)
        BY <1>4, <1>15, <1>16, <1>17, EvictIs
    <1> HIDE DEF v
    <1>19. v \in Members BY <1>18 DEF Consistent
    <1> DEFINE inf2 == [v.info EXCEPT ![a].tried = TRUE]
               tab2 == [v.tried EXCEPT ![slot] = a]
    <1>20. /\ inf2 \in [Addrs -> Infos] /\ inf2[a].tried = TRUE
           /\ inf2[a].known = v.info[a].known /\ inf2[a].refs = v.info[a].refs
           /\ inf2[a].port = v.info[a].port /\ inf2[a].moved = v.info[a].moved
           /\ inf2[a].pos = v.info[a].pos /\ \A b \in Addrs : b # a => inf2[b] = v.info[b]
        <2>1. v.info \in [Addrs -> Infos] BY <1>19, MemberTypes
        <2>2. QED BY <2>1, <1>2 DEF Infos
    <1>21. tab2 \in [TriedSlots -> Addrs \union {NoAddr}] BY <1>2, <1>4, <1>19, MemberTypes
    <1>22. r = [v EXCEPT !.tried = tab2, !.nTried = v.nTried + 1, !.info = inf2]
        BY <1>5, <1>19 DEF Members
    <1> HIDE DEF inf2, tab2
    <1>23. /\ r \in Members /\ r.info = inf2 /\ r.random = v.random /\ r.new = v.new
           /\ r.tried = tab2 /\ r.nNew = v.nNew /\ r.nTried = v.nTried + 1
           /\ r.b32 = v.b32 /\ r.ok = v.ok
        <2>1. v.nTried + 1 \in Int BY <1>19, MemberTypes
        <2>2. QED BY <2>1, <1>19, <1>20, <1>21, <1>22 DEF Members
    <1>24. r \in AddrMen
        <2>1. v.nNew \in Nat
            <3>1. v.nNew = Cardinality(NewOnes(v)) + (-1) BY <1>18 DEF Consistent, NewCount
            <3>2. Cardinality(NewOnes(v)) \in Nat /\ Cardinality(NewOnes(v)) # 0
                BY <1>18, FiniteSets, FS_EmptySet
            <3>3. QED BY <3>1, <3>2
        <2>2. v.nTried + 1 \in Nat
            <3>1. v.nTried = Cardinality(TriedOnes(v)) BY <1>18 DEF Consistent, TriedCount
            <3>2. QED BY <3>1, FiniteSets
        <2>3. QED BY <2>1, <2>2, <1>23 DEF Members, AddrMen
    <1>25. ASSUME r.ok PROVE Consistent(r, {}, 0) /\ Sound(r)
        <2>1. c.info[a].refs = 0 BY <1>12, <1>14, <1>18, <1>23, <1>25
        <2>2. v.info[a].known /\ ~v.info[a].tried /\ v.info[a].refs = 0
            BY <2>1, <1>16, <1>18 DEF SameStatus, NewOnes
        <2>3. v.tried[slot] = NoAddr BY <1>4, <1>14, <1>18, MemberTypes
        <2>4. EntersTried(r, v, a, slot)
            <3>1. slot = TriedSlot(v, a) BY <2>1, <1>15, <1>18 DEF slot, SamePort, TriedSlot
            <3>2. QED BY <3>1, <2>2, <2>3, <1>20, <1>23 DEF EntersTried, SamePort, tab2
        <2>5. Consistent(r, {a} \ {a}, -1 + 1) /\ PositionsRight(r)
            BY <2>4, <1>2, <1>4, <1>18, EnterTried
        <2>6. {a} \ {a} = {} /\ -1 + 1 = 0 OBVIOUS
        <2>7. \A b \in Addrs : r.info[b].known = v.info[b].known BY <1>20, <1>23
        <2>8. HashesRight(r) BY <2>7, <1>18, <1>23, AddrAssumption DEF HashesRight
        <2>9. QED BY <2>5, <2>6, <2>8 DEF Sound
    <1>26. ASSUME Fixed(s, a) PROVE r.ok = s.ok
        <2>1. ASSUME NEW x \in PlacesOf(s, a) PROVE x \in from
            <3>1. x \in NewSlots /\ s.new[x] = a BY DEF PlacesOf
            <3>2. x[1] \in NewBuckets /\ x = <<x[1], x[2]>> BY <3>1 DEF NewSlots
            <3>3. x[2] = GetBucketPosition(a, s.info[a].port, x[1])
                BY <3>1, <1>2, <1>26 DEF PositionsRight, InNewRight
            <3>4. x = <<x[1], GetBucketPosition(a, s.info[a].port, x[1])>> BY <3>2, <3>3
            <3>5. x[1] \in BucketsOf(s, a) BY <3>1, <3>2, <3>4 DEF BucketsOf
            <3>6. QED BY <3>4, <3>5 DEF from
        <2>2. from = PlacesOf(s, a) BY <2>1, <1>3
        <2>3. s.info[a].refs = Cardinality(from) BY <2>2, <1>2 DEF Consistent, RefsRight
        <2>4. inf[a].refs = s.info[a].refs - Cardinality(from)
            BY <1>1, <1>2, <1>7, InfoTypes DEF Infos
        <2>5. out.info[a].refs = 0 BY <2>3, <2>4, <1>6, <1>12
        <2>6. c.ok = s.ok
            <3>1. s.ok \in BOOLEAN BY <1>1, MemberTypes
            <3>2. QED BY <3>1, <2>5, <1>14
        <2>7. QED BY <2>6, <1>18, <1>23
    <1>27. QED BY <1>24, <1>25, <1>26 DEF r

\* A new port changes nothing in the tables; the places of an I2P destination are still
\* those that the hashes give.
LEMMA PortKeeps ==
    ASSUME NEW s, NEW F, NEW d, Consistent(s, F, d), Sound(s), NEW a \in Addrs, NEW p \in Ports
    PROVE  LET r == SetPort(s, a, p)
           IN  /\ Consistent(r, F, d) /\ Sound(r) /\ r.ok = s.ok
               /\ \A b \in Addrs : SameStatus(r, s, b)
               /\ Fixed(r, a) \/ s.info[a].moved \/ p # s.info[a].port
    <1> DEFINE change == s.info[a].moved \/ p # s.info[a].port
               inf == [s.info EXCEPT ![a].port = p, ![a].moved = change]
               r == SetPort(s, a, p)
    <1>1. s \in Members BY DEF Consistent
    <1>2. change \in BOOLEAN BY <1>1, InfoTypes
    <1>3. r = [s EXCEPT !.info = inf] BY <1>1 DEF Members, SetPort
    <1> HIDE DEF change
    <1>4. /\ inf \in [Addrs -> Infos] /\ inf[a].known = s.info[a].known
          /\ inf[a].tried = s.info[a].tried /\ inf[a].refs = s.info[a].refs
          /\ inf[a].pos = s.info[a].pos /\ inf[a].port = p /\ inf[a].moved = change
          /\ \A b \in Addrs : b # a => inf[b] = s.info[b]
        <2>1. s.info \in [Addrs -> Infos] BY <1>1, MemberTypes
        <2>2. QED BY <2>1, <1>2 DEF Infos
    <1> HIDE DEF inf, r
    <1>5. /\ r \in Members /\ r.info = inf /\ r.random = s.random /\ r.new = s.new
          /\ r.tried = s.tried /\ r.nNew = s.nNew /\ r.nTried = s.nTried
          /\ r.b32 = s.b32 /\ r.ok = s.ok
        BY <1>1, <1>3, <1>4 DEF Members
    <1>6. \A b \in Addrs : SameStatus(r, s, b) /\ r.info[b].pos = s.info[b].pos
        BY <1>4, <1>5 DEF SameStatus
    <1>7. /\ RefsRight(r) /\ TriedRight(r) /\ EntriesRight(r, F)
          /\ NewCount(r, d) /\ TriedCount(r)
        BY <1>1, <1>5, <1>6, TablesKept
    <1>8. OrderRight(r)
        <2>1. OrderRight(s) BY DEF Consistent
        <2>2. QED BY <2>1, <1>1, <1>5, <1>6, OrderSame DEF SameStatus
    <1>9. HashesRight(r) BY <1>5, <1>6, AddrAssumption DEF Sound, HashesRight, SameStatus
    <1>10. PositionsRight(r)
        <2> SUFFICES ASSUME NEW b \in Addrs, Fixed(r, b)
                     PROVE  /\ \A x \in NewSlots : r.new[x] = b => InNewRight(r, b, x)
                            /\ \A t \in TriedSlots : r.tried[t] = b => t = TriedSlot(r, b)
            BY DEF PositionsRight
        <2>1. CASE r.info[b].port = s.info[b].port
            <3>1. Fixed(s, b) BY <2>1, <1>4, <1>5 DEF Fixed, change
            <3>2. QED BY <2>1, <3>1, <1>5 DEF Sound, PositionsRight, InNewRight, TriedSlot
        <2>2. CASE r.info[b].port # s.info[b].port
            <3>1. b = a /\ r.info[b].moved BY <2>2, <1>4, <1>5 DEF change
            <3>2. b \in I2pAddrs BY <3>1 DEF Fixed
            <3>3. r.info[b].port \in Ports /\ s.info[b].port \in Ports BY <1>1, <1>5, InfoTypes
            <3>4. /\ GetTriedBucket(b, r.info[b].port) = GetTriedBucket(b, s.info[b].port)
                  /\ \A u \in NewBuckets \union TriedBuckets :
                        GetBucketPosition(b, r.info[b].port, u) = GetBucketPosition(b, s.info[b].port, u)
                  /\ GetTriedBucket(b, s.info[b].port) \in TriedBuckets
                BY <3>2, <3>3, AddrAssumption
            <3>5. TriedSlot(r, b) = TriedSlot(s, b) BY <3>4 DEF TriedSlot
            <3>6. \A x \in NewSlots : x[1] \in NewBuckets BY DEF NewSlots
            <3>7. \A x \in NewSlots : InNewRight(s, b, x) => InNewRight(r, b, x)
                BY <3>4, <3>6 DEF InNewRight
            <3>8. Fixed(s, b) BY <3>2 DEF Fixed
            <3>9. QED BY <3>5, <3>7, <3>8, <1>5 DEF Sound, PositionsRight
        <2>3. QED BY <2>1, <2>2
    <1>11. Fixed(r, a) \/ s.info[a].moved \/ p # s.info[a].port BY <1>4, <1>5 DEF Fixed, change
    <1>12. QED BY <1>5, <1>6, <1>7, <1>8, <1>9, <1>10, <1>11 DEF Consistent, Sound, r

\* Create enters an unknown address; until Place it has no place.
LEMMA CreateIs ==
    ASSUME NEW s, Consistent(s, {}, 0), Sound(s), NEW a \in Addrs, ~s.info[a].known,
           NEW p \in Ports, NEW src \in Sources
    PROVE  LET r == [Create(s, a, p, src) EXCEPT !.nNew = @ + 1]
           IN  /\ Consistent(r, {a}, 0) /\ Sound(r) /\ r.ok = s.ok
               /\ r.info[a].known /\ ~r.info[a].tried /\ r.info[a].refs = 0
    <1> DEFINE n == Len(s.random)
               entry == [known |-> TRUE, port |-> p, source |-> src,
                         refs |-> 0, tried |-> FALSE, pos |-> n + 1, moved |-> FALSE]
               inf == [s.info EXCEPT ![a] = entry]
               rnd == Append(s.random, a)
               hash == [x \in I2pAddrs |-> IF x = a /\ s.b32[x] = "none" THEN "current" ELSE s.b32[x]]
               r == [Create(s, a, p, src) EXCEPT !.nNew = @ + 1]
    <1>1. s \in Members BY DEF Consistent
    <1>2. s.random \in Seq(Addrs) /\ n \in Nat BY <1>1, MemberTypes, LenProperties
    <1>3. /\ rnd \in Seq(Addrs) /\ Len(rnd) = n + 1 /\ rnd[n + 1] = a
          /\ \A k \in 1..n : rnd[k] = s.random[k]
        BY <1>2, AppendProperties
    <1>4. s.info[a].refs = 0 /\ ~s.info[a].tried
        <2>1. ~(s.info[a].refs > 0) /\ ~s.info[a].tried BY DEF Consistent, EntriesRight
        <2>2. QED BY <2>1, <1>1, InfoTypes
    <1>5. entry \in Infos BY <1>2 DEF Infos
    <1>6. /\ entry.known = TRUE /\ entry.tried = FALSE /\ entry.refs = 0 /\ entry.pos = n + 1
        OBVIOUS
    <1>7. hash \in [I2pAddrs -> {"none", "current", "stale"}] BY <1>1, MemberTypes
    <1>8. r = [s EXCEPT !.info = inf, !.random = rnd, !.b32 = hash, !.nNew = s.nNew + 1]
        BY <1>1 DEF Create, Members
    <1> HIDE DEF entry, rnd, hash, n, r
    <1>9. /\ inf \in [Addrs -> Infos] /\ inf[a] = entry /\ \A b \in Addrs : b # a => inf[b] = s.info[b]
        BY <1>1, <1>5, MemberTypes
    <1> HIDE DEF inf
    <1>10. /\ r \in Members /\ r.info = inf /\ r.random = rnd /\ r.new = s.new
           /\ r.tried = s.tried /\ r.nNew = s.nNew + 1 /\ r.nTried = s.nTried
           /\ r.b32 = hash /\ r.ok = s.ok
        <2>1. s.nNew + 1 \in Int BY <1>1, MemberTypes
        <2>2. QED BY <2>1, <1>1, <1>3, <1>7, <1>8, <1>9 DEF Members
    <1>11. RefsRight(r)
        <2>1. \A b \in Addrs : PlacesOf(r, b) = PlacesOf(s, b) BY <1>10 DEF PlacesOf
        <2>2. \A b \in Addrs : r.info[b].refs = s.info[b].refs BY <1>4, <1>6, <1>9, <1>10
        <2>3. QED BY <2>1, <2>2 DEF Consistent, RefsRight
    <1>12. OrderRight(r)
        <2>1. /\ \A k \in 1..n : s.info[s.random[k]].known /\ s.info[s.random[k]].pos = k
              /\ \A b \in Addrs : s.info[b].known => s.info[b].pos \in 1..n /\ s.random[s.info[b].pos] = b
            BY DEF Consistent, OrderRight, n
        <2>2. \A k \in 1..n : s.random[k] \in Addrs /\ s.random[k] # a
            BY <2>1, <1>2, ElementOfSeq DEF n
        <2>3. ASSUME NEW k \in 1..Len(r.random)
              PROVE  r.info[r.random[k]].known /\ r.info[r.random[k]].pos = k
            <3>1. CASE k = n + 1 BY <3>1, <1>3, <1>6, <1>9, <1>10
            <3>2. CASE k # n + 1
                <4>1. k \in 1..n BY <3>2, <1>2, <1>3, <1>10
                <4>2. r.info[r.random[k]] = s.info[s.random[k]] BY <4>1, <2>2, <1>3, <1>9, <1>10
                <4>3. QED BY <4>1, <4>2, <2>1
            <3>3. QED BY <3>1, <3>2
        <2>4. ASSUME NEW b \in Addrs, r.info[b].known
              PROVE  r.info[b].pos \in 1..Len(r.random) /\ r.random[r.info[b].pos] = b
            <3>1. CASE b = a BY <3>1, <1>2, <1>3, <1>6, <1>9, <1>10
            <3>2. CASE b # a
                <4>1. r.info[b] = s.info[b] BY <3>2, <1>9, <1>10
                <4>2. s.info[b].pos \in 1..n /\ s.random[s.info[b].pos] = b BY <2>1, <2>4, <4>1
                <4>3. QED BY <4>1, <4>2, <1>2, <1>3, <1>10
            <3>3. QED BY <3>1, <3>2
        <2>5. QED BY <2>3, <2>4 DEF OrderRight
    <1>13. \A b \in Addrs : r.info[b].tried = s.info[b].tried
        BY <1>1, <1>4, <1>6, <1>9, <1>10, InfoTypes
    <1>14. TriedRight(r)
        <2>1. \A t \in TriedSlots : s.tried[t] # NoAddr => s.tried[t] \in Addrs BY <1>1, MemberTypes
        <2>2. QED BY <2>1, <1>10, <1>13 DEF Consistent, TriedRight
    <1>15. EntriesRight(r, {a})
        <2>1. /\ ~r.info[a].tried /\ r.info[a].known /\ r.info[a].refs = 0
              /\ r.info[a].refs <= MaxRefs
            BY <1>6, <1>9, <1>10, AddrAssumption
        <2>2. \A b \in Addrs : b # a => SameStatus(r, s, b) BY <1>9, <1>10 DEF SameStatus
        <2>3. \A b \in Addrs : b # a =>
                /\ r.info[b].tried => r.info[b].known /\ r.info[b].refs = 0
                /\ r.info[b].refs > 0 => r.info[b].known
                /\ r.info[b].refs <= MaxRefs
                /\ r.info[b].known /\ ~r.info[b].tried => r.info[b].refs > 0
            BY <2>2 DEF Consistent, EntriesRight, SameStatus
        <2>4. QED BY <2>1, <2>3 DEF EntriesRight
    <1>16. NewCount(r, 0)
        <2>1. NewOnes(r) = NewOnes(s) \union {a} /\ a \notin NewOnes(s)
            BY <1>6, <1>9, <1>10 DEF NewOnes
        <2>2. IsFiniteSet(NewOnes(s)) /\ Cardinality(NewOnes(s)) \in Int BY FiniteSets
        <2>3. Cardinality(NewOnes(r)) = Cardinality(NewOnes(s)) + 1 BY <2>1, <2>2, FS_AddElement
        <2>4. s.nNew = Cardinality(NewOnes(s)) + 0 BY DEF Consistent, NewCount
        <2>5. QED BY <2>2, <2>3, <2>4, <1>10 DEF NewCount
    <1>17. TriedCount(r)
        <2>1. TriedOnes(r) = TriedOnes(s) BY <1>13 DEF TriedOnes
        <2>2. QED BY <2>1, <1>10 DEF Consistent, TriedCount
    <1>18. HashesRight(r)
        <2>1. \A b \in I2pAddrs : b # a => r.info[b].known = s.info[b].known /\ r.b32[b] = s.b32[b]
            BY <1>9, <1>10, AddrAssumption DEF hash
        <2>2. r.info[a].known /\ (a \in I2pAddrs => r.b32[a] # "none")
            BY <1>6, <1>9, <1>10 DEF hash
        <2>3. QED BY <2>1, <2>2 DEF Sound, HashesRight
    <1>19. PositionsRight(r)
        <2>1. Nowhere(r, a) BY <1>4, <1>10, NoPlace DEF Nowhere
        <2>2. \A b \in Addrs : b # a => Stays(r, s, b) BY <1>9, <1>10 DEF Stays, SamePort
        <2>3. QED BY <2>1, <2>2, PositionsKept DEF Sound
    <1>20. QED
        BY <1>6, <1>9, <1>10, <1>11, <1>12, <1>14, <1>15, <1>16, <1>17, <1>18, <1>19
        DEF Consistent, Sound, r
-----------------------------------------------------------------------------
LEMMA LeastExists ==
    ASSUME NEW n \in Nat, NEW S \in SUBSET (1..n), S # {}
    PROVE  \E q \in S : \A r \in S : q <= r
    <1> DEFINE T == {1..q : q \in S}
               R == StrictSubsetOrdering(1..n)
    <1>1. T # {} OBVIOUS
    <1>2. T \subseteq FiniteSubsetsOf(1..n)
        <2>1. \A q \in S : q \in Int /\ 1..q \subseteq 1..n OBVIOUS
        <2>2. \A q \in S : IsFiniteSet(1..q) BY <2>1, FS_Interval
        <2>3. QED BY <2>1, <2>2 DEF FiniteSubsetsOf
    <1>3. IsWellFoundedOn(R, FiniteSubsetsOf(1..n)) BY FS_StrictSubsetOrderingWellFounded
    <1> HIDE DEF R
    <1>4. \E x \in T : \A y \in T : ~(<<y, x>> \in R)
        <2> HIDE DEF T
        <2>1. QED BY <1>1, <1>2, <1>3, WFMin
    <1>5. PICK q \in S : \A r \in S : ~(<<1..r, 1..q>> \in R) BY <1>4
    <1>6. ASSUME NEW r \in S, r < q PROVE FALSE
        <2>1. r \in Int /\ q \in Int /\ r >= 1 OBVIOUS
        <2>2. 1..r \subseteq 1..q BY <2>1, <1>6
        <2>3. q \in 1..q /\ q \notin 1..r BY <2>1, <1>6
        <2>4. 1..r \subseteq 1..n /\ 1..q \subseteq 1..n OBVIOUS
        <2>5. <<1..r, 1..q>> \in R BY <2>2, <2>3, <2>4 DEF R, StrictSubsetOrdering
        <2>6. QED BY <2>5, <1>5
    <1>7. QED BY <1>6

\* What Unserialize puts at a position was in that bucket before.
LEMMA FirstAtIs ==
    ASSUME Consistent(am, {}, 0), NEW b \in NewBuckets, NEW p \in 1..BucketSize
    PROVE  \/ FirstAt(b, p) = NoAddr
           \/ /\ FirstAt(b, p) \in Addrs
              /\ GetBucketPosition(FirstAt(b, p), am.info[FirstAt(b, p)].port, b) = p
              /\ \E q \in 1..BucketSize : am.new[<<b, q>>] = FirstAt(b, p)
    <1> DEFINE Sits(q) == LET a == am.new[<<b, q>>]
                          IN a # NoAddr /\ GetBucketPosition(a, am.info[a].port, b) = p
               old == {q \in 1..BucketSize : Sits(q)}
               least == CHOOSE q \in old : \A r \in old : q <= r
    <1>1. CASE old = {} BY <1>1 DEF FirstAt
    <1>2. CASE old # {}
        <2>1. FirstAt(b, p) = am.new[<<b, least>>] BY <1>2 DEF FirstAt
        <2>2. least \in old
            <3>1. old \in SUBSET (1..BucketSize) /\ BucketSize \in Nat BY AddrAssumption
            <3> HIDE DEF old
            <3>2. \E q \in old : \A r \in old : q <= r BY <1>2, <3>1, LeastExists
            <3>3. QED BY <3>2
        <2> HIDE DEF least
        <2>3. least \in 1..BucketSize /\ Sits(least) BY <2>2
        <2>4. <<b, least>> \in NewSlots BY <2>3 DEF NewSlots
        <2>5. am.new \in [NewSlots -> Addrs \union {NoAddr}] BY MemberTypes DEF Consistent
        <2>6. QED BY <2>1, <2>3, <2>4, <2>5
    <1>3. QED BY <1>1, <1>2

NewAfter == [s \in NewSlots |-> FirstAt(s[1], s[2])]
HeldAfter(a) == {s \in NewSlots : NewAfter[s] = a}

\* No entry has more places after a restart than before.
LEMMA RestartPlaces ==
    ASSUME Consistent(am, {}, 0), NEW a \in Addrs
    PROVE  /\ IsFiniteSet(HeldAfter(a)) /\ Cardinality(HeldAfter(a)) \in Nat
           /\ Cardinality(HeldAfter(a)) <= am.info[a].refs
           /\ Cardinality(HeldAfter(a)) > 0 <=> HeldAfter(a) # {}
           /\ HeldAfter(a) # {} => am.info[a].known /\ ~am.info[a].tried
    <1> DEFINE N == HeldAfter(a)
               P == PlacesOf(am, a)
               f == [s \in N |-> <<s[1], CHOOSE q \in 1..BucketSize : am.new[<<s[1], q>>] = a>>]
    <1>1. ASSUME NEW s \in N
          PROVE  /\ s \in NewSlots /\ s[1] \in NewBuckets
                 /\ s = <<s[1], GetBucketPosition(a, am.info[a].port, s[1])>>
                 /\ \E q \in 1..BucketSize : am.new[<<s[1], q>>] = a
        <2>1. s \in NewSlots /\ FirstAt(s[1], s[2]) = a BY DEF HeldAfter, NewAfter
        <2>2. s[1] \in NewBuckets /\ s[2] \in 1..BucketSize /\ s = <<s[1], s[2]>> BY <2>1 DEF NewSlots
        <2>3. a # NoAddr BY AddrAssumption
        <2>4. /\ GetBucketPosition(a, am.info[a].port, s[1]) = s[2]
              /\ \E q \in 1..BucketSize : am.new[<<s[1], q>>] = a
            BY <2>1, <2>2, <2>3, FirstAtIs
        <2>5. QED BY <2>1, <2>2, <2>4
    <1>2. f \in [N -> P]
        <2>1. ASSUME NEW s \in N PROVE f[s] \in P
            <3> DEFINE q == CHOOSE q \in 1..BucketSize : am.new[<<s[1], q>>] = a
            <3>1. q \in 1..BucketSize /\ am.new[<<s[1], q>>] = a BY <1>1
            <3>2. f[s] = <<s[1], q>> OBVIOUS
            <3> HIDE DEF q
            <3>3. <<s[1], q>> \in NewSlots BY <3>1, <1>1 DEF NewSlots
            <3>4. QED BY <3>1, <3>2, <3>3 DEF PlacesOf
        <2>2. QED BY <2>1
    <1>3. \A s, t \in N : f[s] = f[t] => s = t
        <2> SUFFICES ASSUME NEW s \in N, NEW t \in N, f[s] = f[t] PROVE s = t OBVIOUS
        <2>1. s[1] = t[1] OBVIOUS
        <2>2. QED BY <2>1, <1>1
    <1> HIDE DEF f, N, P
    <1>4. f \in Injection(N, P) BY <1>2, <1>3, Fun_IsInj
    <1>5. IsFiniteSet(P) BY FiniteSets DEF P
    <1>6. IsFiniteSet(N) /\ Cardinality(N) <= Cardinality(P) BY <1>4, <1>5, FS_Injection
    <1>7. am.info[a].refs = Cardinality(P) BY DEF Consistent, RefsRight, P
    <1>8. Cardinality(N) \in Nat /\ (Cardinality(N) = 0 <=> N = {})
        BY <1>6, FS_CardinalityType, FS_EmptySet
    <1>9. ASSUME N # {} PROVE am.info[a].known /\ ~am.info[a].tried
        <2>1. P # {} BY <1>2, <1>9
        <2>2. PICK s \in NewSlots : am.new[s] = a BY <2>1 DEF P, PlacesOf
        <2>3. QED BY <2>2, PlacedEntry, AddrAssumption
    <1>10. QED BY <1>6, <1>7, <1>8, <1>9 DEF N

LEMMA RestartIs ==
    ASSUME Consistent(am, {}, 0), NEW lost \in SUBSET {a \in Addrs : am.info[a].tried},
           NEW order \in Orders, Restart(lost, order)
    PROVE  Consistent(am', {}, 0) /\ Sound(am')
    <1> DEFINE held == [a \in Addrs |-> Cardinality(HeldAfter(a))]
               in == {a \in Addrs \ lost : am.info[a].tried}
               at(s) == {a \in in : TriedSlot(am, a) = s}
               read == {a \in Addrs \ lost : am.info[a].known}
               kept == {a \in read : a \in in \/ held[a] > 0}
               pos(a) == CHOOSE i \in DOMAIN order : order[i] = a
               inf == [a \in Addrs |-> IF a \notin kept THEN Unknown
                                       ELSE ReadBack(a, held[a], order)]
               tab == [s \in TriedSlots |-> IF at(s) = {} THEN NoAddr ELSE CHOOSE a \in at(s) : TRUE]
               hash == [a \in I2pAddrs |-> IF a \in kept THEN "current"
                                           ELSE IF a \in read THEN "stale" ELSE "none"]
    <1>1. /\ \A a, b \in in : TriedSlot(am, a) = TriedSlot(am, b) => a = b
          /\ {order[i] : i \in DOMAIN order} = kept
          /\ am' = [info |-> inf, random |-> order, new |-> NewAfter, tried |-> tab,
                    nNew |-> Cardinality(kept \ in), nTried |-> Cardinality(in),
                    b32 |-> hash, ok |-> TRUE]
        BY DEF Restart, NewAfter, HeldAfter
    <1>2. am \in Members BY DEF Consistent
    <1>3. \A a \in Addrs : /\ am.info[a].tried => am.info[a].known /\ am.info[a].refs = 0
                           /\ am.info[a].refs <= MaxRefs /\ am.info[a].refs \in Nat
        BY <1>2, InfoTypes DEF Consistent, EntriesRight
    <1>4. ASSUME NEW a \in Addrs
          PROVE  /\ held[a] = Cardinality(HeldAfter(a)) /\ held[a] \in Nat /\ held[a] <= MaxRefs
                 /\ am.info[a].tried => held[a] = 0
                 /\ held[a] > 0 => am.info[a].known /\ ~am.info[a].tried /\ a \notin lost
        <2>1. held[a] = Cardinality(HeldAfter(a)) OBVIOUS
        <2>2. /\ held[a] \in Nat /\ held[a] <= am.info[a].refs
              /\ held[a] > 0 => am.info[a].known /\ ~am.info[a].tried
            BY <2>1, RestartPlaces
        <2> HIDE DEF held
        <2>3. MaxRefs \in Nat BY AddrAssumption
        <2>4. held[a] <= MaxRefs BY <2>2, <2>3, <1>3
        <2>5. am.info[a].tried => held[a] = 0 BY <2>2, <1>3
        <2>6. held[a] > 0 => a \notin lost BY <2>2
        <2>7. QED BY <2>1, <2>2, <2>4, <2>5, <2>6
    <1> HIDE DEF held
    <1>5. in \subseteq kept /\ kept \subseteq Addrs BY <1>3
    <1>6. \A a \in Addrs : a \in kept <=> (a \in in \/ held[a] > 0) BY <1>3, <1>4
    <1>7. \A a \in kept : am.info[a].known /\ (am.info[a].tried <=> a \in in) OBVIOUS
    <1>8. /\ order \in Seq(Addrs) /\ DOMAIN order = 1..Len(order)
          /\ \A i, j \in 1..Len(order) : order[i] = order[j] => i = j
        <2>1. PICK n \in 0..Cardinality(Addrs) : order \in [1..n -> Addrs] BY DEF Orders
        <2>2. n \in Nat BY AddrAssumption, FS_CardinalityType
        <2>3. order \in Seq(Addrs) BY <2>1, <2>2, SeqDef
        <2>4. DOMAIN order = 1..Len(order) BY <2>3, LenProperties
        <2>5. QED BY <2>3, <2>4 DEF Orders
    <1>9. /\ \A a \in kept : pos(a) \in 1..Len(order) /\ order[pos(a)] = a
          /\ \A i \in 1..Len(order) : order[i] \in kept /\ pos(order[i]) = i
        <2>1. \A a \in kept : \E i \in DOMAIN order : order[i] = a BY <1>1
        <2>2. \A i \in DOMAIN order : order[i] \in kept BY <1>1
        <2> HIDE DEF kept
        <2>3. \A a \in kept : pos(a) \in DOMAIN order /\ order[pos(a)] = a BY <2>1
        <2> HIDE DEF pos
        <2>4. QED BY <2>2, <2>3, <1>8
    <1> HIDE DEF pos, kept
    <1>10. ASSUME NEW a \in Addrs
           PROVE  /\ inf[a] \in Infos /\ (inf[a].known <=> a \in kept)
                  /\ (inf[a].tried <=> a \in in) /\ inf[a].refs = held[a]
                  /\ a \in kept => inf[a].pos = pos(a) /\ inf[a].port = am.info[a].port
        <2>1. CASE a \notin kept
            <3>1. inf[a] = Unknown BY <2>1
            <3>2. a \notin in /\ held[a] = 0 BY <2>1, <1>4, <1>5, <1>6
            <3>3. QED BY <2>1, <3>1, <3>2, UnknownType
        <2>2. CASE a \in kept
            <3>1. inf[a] = ReadBack(a, held[a], order) BY <2>2
            <3>2. am.info[a] \in Infos BY <1>2, InfoTypes
            <3>3. pos(a) \in Nat BY <2>2, <1>8, <1>9, LenProperties
            <3> HIDE DEF inf, in
            <3>4. /\ inf[a] \in Infos /\ inf[a].known = am.info[a].known
                  /\ inf[a].tried = am.info[a].tried /\ inf[a].refs = held[a] /\ inf[a].pos = pos(a)
                  /\ inf[a].port = am.info[a].port
                BY <3>1, <3>2, <3>3, <1>4 DEF Infos, ReadBack, pos
            <3>5. am.info[a].known /\ (am.info[a].tried <=> a \in in) BY <2>2, <1>7
            <3>6. QED BY <2>2, <3>4, <3>5
        <2>3. QED BY <2>1, <2>2
    <1>11. \A s \in TriedSlots :
              \/ at(s) = {} /\ tab[s] = NoAddr
              \/ tab[s] \in in /\ TriedSlot(am, tab[s]) = s
        <2> SUFFICES ASSUME NEW s \in TriedSlots, at(s) # {}
                     PROVE  tab[s] \in in /\ TriedSlot(am, tab[s]) = s
            OBVIOUS
        <2>1. tab[s] \in at(s) OBVIOUS
        <2>2. QED BY <2>1
    <1>12. \A a \in in : TriedSlot(am, a) \in TriedSlots /\ tab[TriedSlot(am, a)] = a
        <2> SUFFICES ASSUME NEW a \in in PROVE TriedSlot(am, a) \in TriedSlots /\ tab[TriedSlot(am, a)] = a
            OBVIOUS
        <2>1. TriedSlot(am, a) \in TriedSlots BY <1>2, SlotTypes
        <2>2. a \in at(TriedSlot(am, a)) OBVIOUS
        <2>3. tab[TriedSlot(am, a)] \in in /\ TriedSlot(am, tab[TriedSlot(am, a)]) = TriedSlot(am, a)
            BY <2>1, <2>2, <1>11
        <2>4. QED BY <2>1, <2>3, <1>1
    <1>13. \A s \in TriedSlots : tab[s] \in Addrs \union {NoAddr} BY <1>5, <1>11
    <1>14. tab \in [TriedSlots -> Addrs \union {NoAddr}] BY <1>13
    <1>15. inf \in [Addrs -> Infos] BY <1>10
    <1>16. NewAfter \in [NewSlots -> Addrs \union {NoAddr}]
        <2>1. \A s \in NewSlots : s[1] \in NewBuckets /\ s[2] \in 1..BucketSize BY DEF NewSlots
        <2>2. \A s \in NewSlots : FirstAt(s[1], s[2]) \in Addrs \union {NoAddr} BY <2>1, FirstAtIs
        <2>3. QED BY <2>2 DEF NewAfter
    <1>17. hash \in [I2pAddrs -> {"none", "current", "stale"}] OBVIOUS
    <1>18. /\ IsFiniteSet(kept \ in) /\ Cardinality(kept \ in) \in Nat
           /\ IsFiniteSet(in) /\ Cardinality(in) \in Nat
        <2>1. IsFiniteSet(Addrs) BY AddrAssumption
        <2>2. IsFiniteSet(kept \ in) /\ IsFiniteSet(in) BY <2>1, <1>5, FS_Subset
        <2>3. QED BY <2>2, FS_CardinalityType
    <1> HIDE DEF in, tab, inf, hash
    <1>19. /\ am' \in Members /\ am'.info = inf /\ am'.random = order /\ am'.new = NewAfter
           /\ am'.tried = tab /\ am'.nNew = Cardinality(kept \ in) /\ am'.nTried = Cardinality(in)
           /\ am'.b32 = hash
        <2>1. Cardinality(kept \ in) \in Int /\ Cardinality(in) \in Int BY <1>18
        <2>2. QED BY <2>1, <1>1, <1>8, <1>14, <1>15, <1>16, <1>17 DEF Members
    <1>20. RefsRight(am')
        <2>1. \A a \in Addrs : PlacesOf(am', a) = HeldAfter(a) BY <1>19 DEF PlacesOf, HeldAfter
        <2>2. QED BY <2>1, <1>4, <1>10, <1>19 DEF RefsRight
    <1>21. OrderRight(am') BY <1>5, <1>9, <1>10, <1>19 DEF OrderRight
    <1>22. TriedRight(am')
        <2>1. in \subseteq Addrs /\ NoAddr \notin Addrs BY <1>5, AddrAssumption
        <2>2. \A s \in TriedSlots : tab[s] # NoAddr => tab[s] \in in /\ TriedSlot(am, tab[s]) = s
            BY <1>11
        <2>3. \A s \in TriedSlots : tab[s] # NoAddr => inf[tab[s]].tried BY <2>1, <2>2, <1>10
        <2>4. \A s, u \in TriedSlots : tab[s] = tab[u] /\ tab[s] # NoAddr => s = u BY <2>2
        <2>5. \A a \in Addrs : inf[a].tried => \E s \in TriedSlots : tab[s] = a BY <1>10, <1>12
        <2>6. QED BY <2>3, <2>4, <2>5, <1>19 DEF TriedRight
    <1>23. EntriesRight(am', {})
        <2>1. \A a \in in : held[a] = 0
            <3>1. \A a \in in : a \in Addrs /\ am.info[a].tried BY DEF in
            <3>2. QED BY <3>1, <1>4
        <2>2. \A a \in Addrs : a \in kept /\ a \notin in => held[a] > 0 BY <1>6
        <2>3. \A a \in Addrs : held[a] > 0 => a \in kept BY <1>6
        <2>4. QED BY <2>1, <2>2, <2>3, <1>4, <1>5, <1>10, <1>19 DEF EntriesRight
    <1>24. NewCount(am', 0)
        <2>1. NewOnes(am') = kept \ in BY <1>5, <1>10, <1>19 DEF NewOnes
        <2>2. QED BY <2>1, <1>18, <1>19 DEF NewCount
    <1>25. TriedCount(am')
        <2>1. TriedOnes(am') = in BY <1>5, <1>10, <1>19 DEF TriedOnes
        <2>2. QED BY <2>1, <1>19 DEF TriedCount
    <1>26. HashesRight(am')
        <2>1. \A a \in I2pAddrs : a \in Addrs BY AddrAssumption
        <2>2. \A a \in I2pAddrs : hash[a] = "current" <=> a \in kept BY DEF hash
        <2>3. QED BY <2>1, <2>2, <1>10, <1>19 DEF HashesRight
    <1>27. PositionsRight(am')
        <2> SUFFICES ASSUME NEW a \in Addrs
                     PROVE  /\ \A x \in NewSlots : am'.new[x] = a => InNewRight(am', a, x)
                            /\ \A t \in TriedSlots : am'.tried[t] = a => t = TriedSlot(am', a)
            BY DEF PositionsRight
        <2>1. a # NoAddr BY AddrAssumption
        <2>2. ASSUME NEW x \in NewSlots, NewAfter[x] = a PROVE InNewRight(am', a, x)
            <3>1. x[1] \in NewBuckets /\ x[2] \in 1..BucketSize BY DEF NewSlots
            <3>2. NewAfter[x] = FirstAt(x[1], x[2]) BY DEF NewAfter
            <3>3. GetBucketPosition(a, am.info[a].port, x[1]) = x[2] BY <2>1, <2>2, <3>1, <3>2, FirstAtIs
            <3>4. x \in HeldAfter(a) BY <2>2 DEF HeldAfter
            <3>5. held[a] > 0 BY <3>4, <1>4, RestartPlaces
            <3>6. inf[a].port = am.info[a].port BY <3>5, <1>6, <1>10
            <3>7. QED BY <3>3, <3>6, <1>19 DEF InNewRight
        <2>3. ASSUME NEW t \in TriedSlots, tab[t] = a PROVE t = TriedSlot(am', a)
            <3>1. a \in in /\ TriedSlot(am, a) = t BY <2>1, <2>3, <1>11
            <3>2. inf[a].port = am.info[a].port BY <3>1, <1>5, <1>10
            <3>3. QED BY <3>1, <3>2, <1>19 DEF TriedSlot
        <2>4. QED BY <2>2, <2>3, <1>19
    <1>28. QED BY <1>19, <1>20, <1>21, <1>22, <1>23, <1>24, <1>25, <1>26, <1>27
        DEF Consistent, Sound
-----------------------------------------------------------------------------
\* A consistent state is one of AddrMen: the counters are not below 0.
LEMMA ConsistentType ==
    ASSUME NEW s, Consistent(s, {}, 0)
    PROVE  s \in AddrMen
    <1>1. s \in Members BY DEF Consistent
    <1>2. s.nNew = Cardinality(NewOnes(s)) + 0 /\ s.nTried = Cardinality(TriedOnes(s))
        BY DEF Consistent, NewCount, TriedCount
    <1>3. s.nNew \in Nat /\ s.nTried \in Nat BY <1>2, FiniteSets
    <1>4. QED BY <1>1, <1>3 DEF Members, AddrMen

LEMMA ClearedIs == Consistent(Cleared, {}, 0) /\ Sound(Cleared)
    <1>1. /\ Cleared \in Members /\ Cleared.random = <<>>
          /\ \A a \in Addrs : Cleared.info[a] = Unknown
          /\ \A x \in NewSlots : Cleared.new[x] = NoAddr
          /\ \A t \in TriedSlots : Cleared.tried[t] = NoAddr
          /\ Cleared.nNew = 0 /\ Cleared.nTried = 0
          /\ \A a \in I2pAddrs : Cleared.b32[a] = "none"
        BY UnknownType DEF Cleared, Members
    <1> HIDE DEF Cleared
    <1>2. \A a \in Addrs : PlacesOf(Cleared, a) = {} BY <1>1, AddrAssumption DEF PlacesOf
    <1>3. NewOnes(Cleared) = {} /\ TriedOnes(Cleared) = {}
        BY <1>1, UnknownType DEF NewOnes, TriedOnes
    <1>4. RefsRight(Cleared) BY <1>1, <1>2, UnknownType, FS_EmptySet DEF RefsRight
    <1>5. OrderRight(Cleared)
        <2>1. Len(Cleared.random) = 0 BY <1>1
        <2>2. QED BY <2>1, <1>1, UnknownType DEF OrderRight
    <1>6. TriedRight(Cleared) BY <1>1, UnknownType DEF TriedRight
    <1>7. EntriesRight(Cleared, {}) BY <1>1, UnknownType, AddrAssumption DEF EntriesRight
    <1>8. NewCount(Cleared, 0) /\ TriedCount(Cleared)
        BY <1>1, <1>3, FS_EmptySet DEF NewCount, TriedCount
    <1>9. HashesRight(Cleared) BY <1>1, UnknownType, AddrAssumption DEF HashesRight
    <1>10. PositionsRight(Cleared) BY <1>1, AddrAssumption DEF PositionsRight
    <1>11. QED BY <1>1, <1>4, <1>5, <1>6, <1>7, <1>8, <1>9, <1>10 DEF Consistent, Sound

\* Good_, of an address whose port has changed and whose positions depend on it.
GoodMoved ==
    \E a \in Addrs \ I2pAddrs, port \in Ports :
        Good(a, port) /\ (am.info[a].moved \/ port # am.info[a].port)

\* One step of AddrNext keeps all consistent, unless it fails the assertion of MakeTried.
LEMMA AddrActions ==
    ASSUME AddrInv, AddrNext
    PROVE  /\ am' \in AddrMen
           /\ am'.ok => Consistent(am', {}, 0) /\ Sound(am')
           /\ am'.ok \/ GoodMoved
    <1> DEFINE Fine == Consistent(am', {}, 0) /\ Sound(am') /\ am'.ok
    <1>1. ASSUME am.ok PROVE Consistent(am, {}, 0) /\ Sound(am) /\ am \in Members
        BY <1>1 DEF AddrInv, Consistent
    <1>2. ASSUME Consistent(am', {}, 0), Sound(am')
          PROVE  /\ am' \in AddrMen
                 /\ am'.ok => Consistent(am', {}, 0) /\ Sound(am')
        BY <1>2, ConsistentType
    <1>3. ASSUME NEW a \in Addrs, NEW src \in Sources, NEW port \in Ports, NEW terrible \in BOOLEAN,
                 AddNew(a, port, src, terrible)
          PROVE  Fine
        <2> DEFINE s == [Create(am, a, port, src) EXCEPT !.nNew = @ + 1]
                   r == Place(s, a, src, terrible)
        <2>1. am.ok /\ ~am.info[a].known /\ am' = r BY <1>3 DEF AddNew
        <2>2. /\ Consistent(s, {a}, 0) /\ Sound(s) /\ s.ok = am.ok
              /\ s.info[a].known /\ ~s.info[a].tried /\ s.info[a].refs = 0
            <3>1. Consistent(am, {}, 0) /\ Sound(am) BY <2>1, <1>1
            <3>2. ~am.info[a].known BY <2>1
            <3>3. QED BY ONLY <3>1, <3>2, a \in Addrs, port \in Ports, src \in Sources, CreateIs
        <2> HIDE DEF s
        <2>3. s.info[a].refs < MaxRefs BY <2>2, AddrAssumption
        <2>4. Consistent(r, {}, 0) /\ Sound(r) /\ r.ok = s.ok BY <2>2, <2>3, PlaceIs
        <2>5. QED BY <2>1, <2>2, <2>4
    <1>4. ASSUME NEW a \in Addrs, NEW src \in Sources, NEW port \in Ports, NEW terrible \in BOOLEAN,
                 AddAgain(a, port, src, terrible)
          PROVE  Fine
        <2> DEFINE s == WithPort(am, a, port, src)
                   r == Place(s, a, src, terrible)
        <2>1. /\ am.ok /\ am.info[a].known /\ ~am.info[a].tried /\ am.info[a].refs # MaxRefs
              /\ am' = r
            BY <1>4 DEF AddAgain
        <2>2. Consistent(am, {}, 0) /\ Sound(am) /\ am \in Members BY <2>1, <1>1
        <2>3. Consistent(s, {}, 0) /\ Sound(s) /\ SameStatus(s, am, a) /\ s.ok = am.ok
            <3>1. s = am \/ s = SetPort(am, a, port) BY DEF WithPort
            <3> HIDE DEF s
            <3>2. CASE s = am BY <3>2, <2>2 DEF SameStatus
            <3>3. CASE s = SetPort(am, a, port) BY <3>3, <2>2, PortKeeps
            <3>4. QED BY <3>1, <3>2, <3>3
        <2> HIDE DEF s
        <2>4. s.info[a].known /\ ~s.info[a].tried /\ s.info[a].refs < MaxRefs
            <3>1. am.info[a].refs \in Nat /\ am.info[a].refs <= MaxRefs
                BY <2>2, InfoTypes DEF Consistent, EntriesRight
            <3>2. am.info[a].refs < MaxRefs BY <2>1, <3>1, AddrAssumption
            <3>3. QED BY <2>1, <2>3, <3>2 DEF SameStatus
        <2>5. Consistent(s, {a}, 0) BY <2>3, Excused
        <2>6. Consistent(r, {}, 0) /\ Sound(r) /\ r.ok = s.ok BY <2>3, <2>4, <2>5, PlaceIs
        <2>7. QED BY <2>1, <2>3, <2>6
    <1>5. ASSUME NEW a \in Addrs, NEW port \in Ports, AddKnown(a, port)
          PROVE  Fine
        <2>1. am.ok /\ am' = SetPort(am, a, port) BY <1>5 DEF AddKnown, WithPort
        <2>2. Consistent(am', {}, 0) /\ Sound(am') /\ am'.ok = am.ok
            <3> DEFINE r == SetPort(am, a, port)
            <3>1. Consistent(am, {}, 0) /\ Sound(am) BY <2>1, <1>1
            <3>2. Consistent(r, {}, 0) /\ Sound(r) /\ r.ok = am.ok BY <3>1, PortKeeps
            <3> HIDE DEF r
            <3>3. am' = r BY <2>1 DEF r
            <3>4. QED BY <3>2, <3>3
        <2>3. QED BY <2>1, <2>2
    <1>6. ASSUME NEW a \in Addrs, NEW port \in Ports, Good(a, port)
          PROVE  /\ am' \in AddrMen
                 /\ am'.ok => Consistent(am', {}, 0) /\ Sound(am')
                 /\ am'.ok \/ GoodMoved
        <2> DEFINE s == SetPort(am, a, port)
        <2>1. /\ am.ok /\ am.info[a].known
              /\ am' = IF s.info[a].tried \/ BucketsOf(s, a) = {} THEN s ELSE MakeTried(s, a)
            BY <1>6 DEF Good
        <2>2. /\ Consistent(s, {}, 0) /\ Sound(s) /\ SameStatus(s, am, a) /\ s.ok = am.ok
              /\ Fixed(s, a) \/ am.info[a].moved \/ port # am.info[a].port
            <3>1. Consistent(am, {}, 0) /\ Sound(am) BY <2>1, <1>1
            <3>2. QED BY <3>1, PortKeeps
        <2> HIDE DEF s
        <2>3. CASE am' = s BY <2>1, <2>2, <2>3, <1>2
        <2>4. CASE am' = MakeTried(s, a) /\ ~s.info[a].tried
            <3>1. a \in NewOnes(s) BY <2>1, <2>2, <2>4 DEF NewOnes, SameStatus
            <3>2. /\ am' \in AddrMen
                  /\ am'.ok => Consistent(am', {}, 0) /\ Sound(am')
                  /\ Fixed(s, a) => am'.ok = s.ok
                BY <2>2, <2>4, <3>1, MakeTriedIs
            <3>3. ASSUME ~Fixed(s, a) PROVE GoodMoved
                <4>1. a \notin I2pAddrs BY <3>3 DEF Fixed
                <4>2. am.info[a].moved \/ port # am.info[a].port BY <2>2, <3>3
                <4>3. QED BY <4>1, <4>2, <1>6 DEF GoodMoved
            <3>4. QED BY <2>1, <2>2, <3>2, <3>3
        <2>5. QED BY <2>1, <2>3, <2>4
    <1>7. ASSUME NEW i \in 1..Len(am.random), NEW j \in 1..Len(am.random), GetAddr(i, j)
          PROVE  Fine
        <2>1. am.ok /\ am' = SwapRandom(am, i, j) BY <1>7 DEF GetAddr
        <2>2. Consistent(am, {}, 0) /\ Sound(am) /\ am \in Members BY <2>1, <1>1
        <2>3. /\ am'.ok = am.ok /\ am'.b32 = am.b32
              /\ \A a \in Addrs : am'.info[a].known = am.info[a].known /\ Stays(am', am, a)
            <3> DEFINE r == SwapRandom(am, i, j)
            <3>1. /\ r.ok = am.ok /\ r.b32 = am.b32 /\ r.new = am.new /\ r.tried = am.tried
                  /\ \A a \in Addrs : Alike(r, am, a)
                BY <2>2, SwapIs DEF Swapped
            <3> HIDE DEF r
            <3>2. am' = r BY <2>1 DEF r
            <3>3. QED BY <3>1, <3>2 DEF Alike, SameEntry, Stays, SamePort
        <2>4. Sound(am')
            <3>1. HashesRight(am') BY <2>2, <2>3, AddrAssumption DEF HashesRight, Sound
            <3>2. PositionsRight(am') BY <2>2, <2>3, PositionsKept DEF Sound
            <3>3. QED BY <3>1, <3>2 DEF Sound
        <2>5. Consistent(am', {}, 0) BY <2>1, <2>2, SwapKeeps
        <2>6. QED BY <2>1, <2>3, <2>4, <2>5
    <1>8. ASSUME NEW lost \in SUBSET {a \in Addrs : am.info[a].tried}, NEW order \in Orders,
                 Restart(lost, order)
          PROVE  Fine
        <2>1. am.ok /\ am'.ok BY <1>8 DEF Restart
        <2>2. QED BY <2>1, <1>1, <1>8, RestartIs
    <1>9. CASE Fine BY <1>9, <1>2
    <1>10. CASE \E a \in Addrs, port \in Ports : Good(a, port)
        <2>1. PICK a \in Addrs, port \in Ports : Good(a, port) BY <1>10
        <2>2. QED BY <2>1, <1>6
    <1> HIDE DEF Fine
    <1>11. Fine \/ \E a \in Addrs, port \in Ports : Good(a, port)
        BY <1>3, <1>4, <1>5, <1>7, <1>8 DEF AddrNext
    <1>12. QED BY <1>9, <1>10, <1>11

LEMMA AddrStep == AddrInv /\ [AddrNext]_addrVars => AddrInv'
    <1> SUFFICES ASSUME AddrInv, [AddrNext]_addrVars PROVE AddrInv' OBVIOUS
    <1>1. CASE UNCHANGED addrVars
        <2>1. am' = am BY <1>1 DEF addrVars
        <2>2. QED BY <2>1 DEF AddrInv, AddrTypeOK, Consistent, RefsRight, PlacesOf, OrderRight,
                TriedRight, EntriesRight, NewCount, NewOnes, TriedCount, TriedOnes,
                Sound, HashesRight, PositionsRight, Fixed, InNewRight, TriedSlot
    <1>2. CASE AddrNext
        <2>1. am' \in AddrMen /\ (am'.ok => Consistent(am', {}, 0) /\ Sound(am'))
            BY <1>2, AddrActions
        <2>2. QED BY <2>1 DEF AddrInv, AddrTypeOK, Consistent, RefsRight, PlacesOf, OrderRight,
                TriedRight, EntriesRight, NewCount, NewOnes, TriedCount, TriedOnes,
                Sound, HashesRight, PositionsRight, Fixed, InNewRight, TriedSlot
    <1>3. QED BY <1>1, <1>2

LEMMA AddrInvariance == AddrSpec => []AddrInv
    <1>1. AddrInit => AddrInv
        <2> SUFFICES ASSUME AddrInit PROVE AddrInv OBVIOUS
        <2>1. am = Cleared BY DEF AddrInit
        <2>2. Consistent(am, {}, 0) /\ Sound(am) BY <2>1, ClearedIs
        <2>3. QED BY <2>2, ConsistentType DEF AddrInv, AddrTypeOK
    <1>2. QED BY <1>1, AddrStep, PTL DEF AddrSpec

\* After any sequence of Add_, Good_, GetAddr_ and restarts, as long as no assertion has
\* failed, reference counts, the places in both tables, nNew, nTried and vRandom agree, and
\* every entry whose port has not changed in the tables, and every I2P destination, is at the
\* position of its address and port: what Check_ looks for, but for times and nKey, and for
\* the positions (-17 to -19) of other entries whose port has changed, which can be wrong.
THEOREM AddrManIsConsistent == AddrSpec => []Check
    <1>1. ASSUME AddrInv PROVE Check
        <2>1. AddrTypeOK BY <1>1 DEF AddrInv
        <2>2. ASSUME am.ok PROVE Consistent(am, {}, 0) BY <1>1, <2>2 DEF AddrInv
        <2>3. PlacesExact
            <3> SUFFICES ASSUME am.ok, NEW a \in Addrs
                         PROVE  LET places == {s \in NewSlots : am.new[s] = a}
                                    triedPlaces == {s \in TriedSlots : am.tried[s] = a}
                                IN  /\ am.info[a].refs = Cardinality(places) /\ am.info[a].refs <= MaxRefs
                                    /\ Cardinality(triedPlaces) = (IF am.info[a].tried THEN 1 ELSE 0)
                                    /\ am.info[a].known <=> (places # {} \/ triedPlaces # {})
                                    /\ am.info[a].tried => places = {}
                BY DEF PlacesExact
            <3> DEFINE triedPlaces == {s \in TriedSlots : am.tried[s] = a}
            <3>1. Consistent(am, {}, 0) /\ am \in Members BY <2>2 DEF Consistent
            <3>2. /\ am.info[a].refs = Cardinality(PlacesOf(am, a)) /\ am.info[a].refs \in Nat
                  /\ am.info[a].refs = 0 <=> PlacesOf(am, a) = {}
                <4>1. am.info[a].refs = Cardinality(PlacesOf(am, a)) BY <3>1 DEF Consistent, RefsRight
                <4>2. QED BY <4>1, FiniteSets, FS_EmptySet
            <3>3. /\ am.info[a].tried => am.info[a].known /\ am.info[a].refs = 0
                  /\ am.info[a].refs > 0 => am.info[a].known
                  /\ am.info[a].refs <= MaxRefs
                  /\ am.info[a].known /\ ~am.info[a].tried => am.info[a].refs > 0
                BY <3>1 DEF Consistent, EntriesRight
            <3>4. a # NoAddr BY AddrAssumption
            <3>5. CASE am.info[a].tried
                <4>1. PICK t \in TriedSlots : am.tried[t] = a BY <3>1, <3>5 DEF Consistent, TriedRight
                <4>2. triedPlaces = {t} BY <4>1, <3>1, <3>4 DEF Consistent, TriedRight
                <4>3. Cardinality(triedPlaces) = 1 BY <4>2, FS_Singleton
                <4>4. QED BY <4>2, <4>3, <3>2, <3>3, <3>5 DEF PlacesOf
            <3>6. CASE ~am.info[a].tried
                <4>1. triedPlaces = {} BY <3>1, <3>4, <3>6 DEF Consistent, TriedRight
                <4>2. Cardinality(triedPlaces) = 0 BY <4>1, FS_EmptySet
                <4>3. QED BY <4>1, <4>2, <3>2, <3>3, <3>6 DEF PlacesOf
            <3>7. QED BY <3>5, <3>6
        <2>4. CountsExact
            <3>1. ASSUME am.ok
                  PROVE  /\ am.nTried = Cardinality(TriedOnes(am)) /\ am.nNew = Cardinality(NewOnes(am))
                <4>1. am.nNew = Cardinality(NewOnes(am)) + 0 /\ am.nTried = Cardinality(TriedOnes(am))
                    BY <3>1, <2>2 DEF Consistent, NewCount, TriedCount
                <4>2. QED BY <4>1, FiniteSets
            <3>2. QED BY <3>1 DEF CountsExact, TriedOnes, NewOnes
        <2>5. RandomExact
            <3> SUFFICES ASSUME am.ok
                         PROVE  /\ Len(am.random) = Cardinality({a \in Addrs : am.info[a].known})
                                /\ \A a \in Addrs : am.info[a].known =>
                                    am.info[a].pos \in 1..Len(am.random) /\ am.random[am.info[a].pos] = a
                BY DEF RandomExact
            <3> DEFINE K == {a \in Addrs : am.info[a].known}
                       n == Len(am.random)
            <3>1. am \in Members /\ OrderRight(am) BY <2>2 DEF Consistent
            <3>2. am.random \in [1..n -> Addrs] /\ n \in Nat BY <3>1, MemberTypes, LenProperties
            <3>3. /\ \A i \in 1..n : am.info[am.random[i]].known /\ am.info[am.random[i]].pos = i
                  /\ \A a \in Addrs : am.info[a].known => am.info[a].pos \in 1..n /\ am.random[am.info[a].pos] = a
                BY <3>1 DEF OrderRight
            <3>4. am.random \in Bijection(1..n, K)
                <4>1. am.random \in [1..n -> K] BY <3>2, <3>3
                <4>2. \A i, j \in 1..n : am.random[i] = am.random[j] => i = j BY <3>3
                <4>3. \A a \in K : \E i \in 1..n : am.random[i] = a BY <3>3
                <4> HIDE DEF K, n
                <4>4. QED BY <4>1, <4>2, <4>3, Fun_IsBij
            <3> HIDE DEF K, n
            <3>5. ExistsBijection(1..n, K) BY <3>4 DEF ExistsBijection
            <3>6. IsFiniteSet(1..n) /\ Cardinality(1..n) = n BY <3>2, FS_Interval
            <3>7. Cardinality(K) = n BY <3>5, <3>6, FS_Bijection
            <3>8. QED BY <3>3, <3>7 DEF K, n
        <2>6. PositionsExact
            <3>1. ASSUME am.ok PROVE PositionsRight(am) BY <1>1, <3>1 DEF AddrInv, Sound
            <3>2. QED BY <3>1 DEF PositionsExact, PositionsRight, Fixed, InNewRight
        <2>7. QED BY <2>1, <2>3, <2>4, <2>5, <2>6 DEF Check
    <1>2. QED BY <1>1, AddrInvariance, PTL

\* The index of hashes is right for every destination that has no hash of an earlier entry:
\* such a destination is found by its hash if and only if it is in the table.  Of one that has,
\* nothing is said: LookupB32addr does not find it.
THEOREM HashesAreExact == AddrSpec => []HashesExact
    <1>1. ASSUME AddrInv, am.ok, NEW a \in I2pAddrs, am.b32[a] # "stale"
          PROVE  am.b32[a] = "current" <=> am.info[a].known
        <2>1. am.b32 \in [I2pAddrs -> {"none", "current", "stale"}]
            BY <1>1 DEF AddrInv, AddrTypeOK, AddrMen
        <2>2. HashesRight(am) BY <1>1 DEF AddrInv, Sound
        <2>3. am.b32[a] = "none" \/ am.b32[a] = "current" BY <1>1, <2>1
        <2>4. QED BY <2>2, <2>3 DEF HashesRight
    <1>2. AddrInv => HashesExact BY <1>1 DEF HashesExact
    <1>3. QED BY <1>2, AddrInvariance, PTL

\* The assertions of Delete and ClearNew hold in every Add_ and every reload.  With that of
\* MakeTried they hold in every Good_ too, but for one of an address that is no I2P destination
\* and whose port has changed since it got its places: the search for these goes by the port.
THEOREM AssertionsHold == AddrSpec => OnlyGoodFails
    <1> DEFINE Step == am'.ok \/ GoodMoved
    <1>1. ASSUME AddrInv, AddrNext PROVE Step BY <1>1, AddrActions
    <1>2. AddrInv /\ [AddrNext]_addrVars => [Step]_addrVars BY <1>1
    <1>3. QED BY <1>2, AddrInvariance, PTL DEF AddrSpec, OnlyGoodFails, GoodMoved
=============================================================================
