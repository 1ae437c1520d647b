------------------------- MODULE BlockDownloadProofs ------------------------
(***************************************************************************)
(* For every block tree, every set of peers and all limits: the books of   *)
(* the blocks in flight agree, no peer is asked for more than it may be,   *)
(* a stalling peer owes a block, the counters of peers are exact and       *)
(* pindexLastCommonBlock is a block whose ancestors are all stored.        *)
(***************************************************************************)
EXTENDS BlockDownload, FiniteSetTheorems, WellFoundedInduction, TLAPS

(***************************************************************************)
(* Facts about every tree of blocks.                                       *)
(***************************************************************************)
\* What TreeAssumption says of one block.
LEMMA TreeFacts ==
    ASSUME NEW b \in Blocks
    PROVE  /\ Ancestors[b] \subseteq Blocks
           /\ b \in Ancestors[b] /\ Genesis \in Ancestors[b]
           /\ \A x \in Ancestors[b] : Ancestors[x] \subseteq Ancestors[b]
           /\ b # Genesis => /\ Parent[b] \in Blocks
                             /\ Ancestors[b] = Ancestors[Parent[b]] \union {b}
                             /\ b \notin Ancestors[Parent[b]]
BY TreeAssumption

\* Two blocks below a third are on one chain: GetAncestor and FindFork rely on it.
LEMMA Comparable ==
    ASSUME NEW b \in Blocks, NEW x \in Ancestors[b], NEW y \in Ancestors[b]
    PROVE  x \in Ancestors[y] \/ y \in Ancestors[x]
<1>1. x \in Blocks /\ y \in Blocks
  BY TreeFacts
<1>2. ChainWork[x] \in Nat /\ ChainWork[y] \in Nat
  BY <1>1, WorkAssumption
<1>3. /\ x \in Ancestors[y] <=> ChainWork[x] <= ChainWork[y]
      /\ y \in Ancestors[x] <=> ChainWork[y] <= ChainWork[x]
  BY WorkAssumption
<1> QED
  BY <1>2, <1>3

\* Different blocks are not below each other.
LEMMA Antisymmetric ==
    ASSUME NEW x \in Blocks, NEW y \in Blocks, x \in Ancestors[y], y \in Ancestors[x]
    PROVE  x = y
<1>1. x \in Ancestors[x] /\ y \in Ancestors[x]
  BY TreeFacts
<1>2. ChainWork[x] \in Nat /\ ChainWork[y] \in Nat
  BY WorkAssumption
<1>3. /\ x \in Ancestors[y] <=> ChainWork[x] <= ChainWork[y]
      /\ y \in Ancestors[x] <=> ChainWork[y] <= ChainWork[x]
      /\ ChainWork[x] = ChainWork[y] => x = y
  BY <1>1, WorkAssumption
<1> QED
  BY <1>2, <1>3

-----------------------------------------------------------------------------
\* Blocks below one block that are not empty have a highest one: the walks up and
\* down pprev reach it.
LEMMA ChainMax ==
    ASSUME NEW b \in Blocks, NEW S \in SUBSET Ancestors[b], S # {}
    PROVE  \E m \in S : S \subseteq Ancestors[m]
<1> DEFINE Above(x) == Blocks \ Ancestors[x]
           T == {Above(x) : x \in S}
<1>1. S \subseteq Blocks
  BY TreeFacts
<1>2. T \subseteq FiniteSubsetsOf(Blocks) /\ T # {}
  <2>1. FiniteSubsetsOf(Blocks) = SUBSET Blocks
    BY TreeAssumption, FS_FiniteSubsetsOfFinite
  <2>2. \A x \in S : Above(x) \in SUBSET Blocks
    OBVIOUS
  <2>3. T \subseteq SUBSET Blocks
    BY <2>2
  <2>4. PICK x \in S : TRUE
    OBVIOUS
  <2>5. Above(x) \in T
    BY <2>4
  <2> QED
    BY <2>1, <2>3, <2>5
<1>3. PICK t \in T : \A u \in T : ~(<<u, t>> \in StrictSubsetOrdering(Blocks))
  <2>1. IsWellFoundedOn(StrictSubsetOrdering(Blocks), FiniteSubsetsOf(Blocks))
    BY FS_StrictSubsetOrderingWellFounded
  <2> HIDE DEF T
  <2> QED
    BY <1>2, <2>1, WFMin
<1>4. PICK m \in S : t = Above(m)
  BY <1>3
<1>5. ASSUME NEW x \in S PROVE x \in Ancestors[m]
  <2>1. SUFFICES ASSUME x \notin Ancestors[m] PROVE FALSE
    OBVIOUS
  <2>2. m \in Ancestors[x] /\ x # m
    BY <2>1, <1>1, Comparable, TreeFacts
  <2>3. Ancestors[m] \subseteq Ancestors[x] /\ x \in Ancestors[x] /\ x \in Blocks
    BY <2>2, <1>1, TreeFacts
  <2>4. Above(x) \subseteq Above(m) /\ Above(x) # Above(m)
    BY <2>1, <2>3
  <2>5. Above(x) \in T /\ <<Above(x), t>> \in StrictSubsetOrdering(Blocks)
    BY <2>4, <1>4 DEF StrictSubsetOrdering
  <2> QED
    BY <2>5, <1>3
<1> QED
  BY <1>5

\* ... and a lowest one.
LEMMA ChainMin ==
    ASSUME NEW b \in Blocks, NEW S \in SUBSET Ancestors[b], S # {}
    PROVE  \E m \in S : \A x \in S : m \in Ancestors[x]
<1> DEFINE Below(x) == Ancestors[x]
           T == {Below(x) : x \in S}
<1>1. S \subseteq Blocks /\ \A x \in S : Below(x) \subseteq Blocks
  BY TreeFacts
<1>2. T \subseteq FiniteSubsetsOf(Blocks) /\ T # {}
  <2>1. FiniteSubsetsOf(Blocks) = SUBSET Blocks
    BY TreeAssumption, FS_FiniteSubsetsOfFinite
  <2> QED
    BY <1>1, <2>1
<1>3. PICK t \in T : \A u \in T : ~(<<u, t>> \in StrictSubsetOrdering(Blocks))
  <2>1. IsWellFoundedOn(StrictSubsetOrdering(Blocks), FiniteSubsetsOf(Blocks))
    BY FS_StrictSubsetOrderingWellFounded
  <2> HIDE DEF T
  <2> QED
    BY <1>2, <2>1, WFMin
<1>4. PICK m \in S : t = Below(m)
  BY <1>3
<1>5. ASSUME NEW x \in S PROVE m \in Ancestors[x]
  <2>1. SUFFICES ASSUME m \notin Ancestors[x] PROVE FALSE
    OBVIOUS
  <2>2. x \in Ancestors[m]
    BY <2>1, <1>1, Comparable, TreeFacts
  <2>3. Below(x) \subseteq Below(m) /\ m \in Below(m)
    BY <2>2, <1>1, TreeFacts
  <2>4. Below(x) \in T /\ <<Below(x), t>> \in StrictSubsetOrdering(Blocks)
    BY <2>1, <2>3, <1>1, <1>4 DEF StrictSubsetOrdering
  <2> QED
    BY <2>4, <1>3
<1> QED
  BY <1>5

-----------------------------------------------------------------------------
\* nHeight is a natural number that grows along a chain.
LEMMA HeightType ==
    ASSUME NEW b \in Blocks
    PROVE  IsFiniteSet(Ancestors[b]) /\ Height(b) \in Nat
<1>1. IsFiniteSet(Ancestors[b])
  BY TreeFacts, TreeAssumption, FS_Subset
<1>2. Cardinality(Ancestors[b]) \in Nat /\ Cardinality(Ancestors[b]) # 0
  BY <1>1, TreeFacts, FS_CardinalityType, FS_EmptySet
<1> QED
  BY <1>1, <1>2 DEF Height

\* A chain has one block at every height up to its own: CBlockIndex::GetAncestor.
LEMMA AncestorAtHeight ==
    ASSUME NEW b \in Blocks, NEW h \in Nat, h <= Height(b)
    PROVE  GetAncestor(b, h) \in Ancestors[b] /\ Height(GetAncestor(b, h)) = h
<1> DEFINE Low == {x \in Ancestors[b] : Height(x) <= h}
<1>1. Height(Genesis) = 0 /\ Genesis \in Low
  <2>1. Ancestors[Genesis] = {Genesis} /\ Genesis \in Ancestors[b]
    BY TreeAssumption
  <2>2. Cardinality({Genesis}) = 1
    BY FS_Singleton
  <2> QED
    BY <2>1, <2>2 DEF Height
<1>2. PICK m \in Low : Low \subseteq Ancestors[m]
  <2> HIDE DEF Low
  <2>1. Low \in SUBSET Ancestors[b] /\ Low # {}
    BY <1>1 DEF Low
  <2> QED
    BY <2>1, ChainMax
<1>3. m \in Blocks /\ m \in Ancestors[b] /\ Height(m) \in Nat /\ Height(m) <= h
  BY <1>2, TreeFacts, HeightType
<1>4. Height(m) = h
  <2>1. SUFFICES ASSUME Height(m) < h PROVE FALSE
    BY <1>3
  <2> DEFINE Up == Ancestors[b] \ Ancestors[m]
  <2>2. b \in Up
    <3>1. SUFFICES ASSUME b \in Ancestors[m] PROVE FALSE
      BY TreeFacts
    <3>2. b = m
      BY <3>1, <1>3, Antisymmetric
    <3> QED
      BY <3>2, <2>1, HeightType, <1>3
  <2>3. PICK y \in Up : \A x \in Up : y \in Ancestors[x]
    <3> HIDE DEF Up
    <3>1. Up \in SUBSET Ancestors[b] /\ Up # {}
      BY <2>2 DEF Up
    <3> QED
      BY <3>1, ChainMin
  <2>4. y \in Blocks /\ y # Genesis
    BY <2>3, <1>3, TreeFacts
  <2>5. /\ Parent[y] \in Blocks /\ y \notin Ancestors[Parent[y]]
        /\ Ancestors[y] = Ancestors[Parent[y]] \union {y}
        /\ Parent[y] \in Ancestors[Parent[y]]
    BY <2>4, TreeFacts
  <2>6. Parent[y] \in Ancestors[m]
    <3>1. Parent[y] \in Ancestors[b]
      BY <2>3, <2>5, TreeFacts
    <3> QED
      BY <3>1, <2>3, <2>5
  <2>7. m \in Ancestors[Parent[y]]
    BY <2>3, <2>5, <1>3, Comparable, TreeFacts
  <2>8. Ancestors[Parent[y]] = Ancestors[m]
    BY <2>5, <2>6, <2>7, <1>3, TreeFacts
  <2>9. Cardinality(Ancestors[y]) = Cardinality(Ancestors[m]) + 1
    <3>1. IsFiniteSet(Ancestors[m]) /\ y \notin Ancestors[m]
      BY <2>3, <1>3, HeightType
    <3>2. Cardinality(Ancestors[m] \union {y}) = Cardinality(Ancestors[m]) + 1
      BY <3>1, FS_AddElement
    <3> QED
      BY <3>2, <2>5, <2>8
  <2>10. Cardinality(Ancestors[m]) \in Nat
    BY <1>3, HeightType, FS_CardinalityType
  <2>11. Height(y) <= h
    BY <2>1, <2>9, <2>10, <1>3 DEF Height
  <2> QED
    BY <2>11, <2>3, <1>2
<1> QED
  BY <1>3, <1>4 DEF GetAncestor

\* LastCommonAncestor returns the highest block that both chains have.
LEMMA CommonAncestor ==
    ASSUME NEW a \in Blocks, NEW b \in Blocks
    PROVE  /\ LastCommonAncestor(a, b) \in Ancestors[a] \intersect Ancestors[b]
           /\ Ancestors[a] \intersect Ancestors[b] \subseteq Ancestors[LastCommonAncestor(a, b)]
<1> DEFINE Both == Ancestors[a] \intersect Ancestors[b]
<1>1. Both \in SUBSET Ancestors[a] /\ Both # {}
  BY TreeFacts
<1>2. \E x \in Both : Both \subseteq Ancestors[x]
  <2> HIDE DEF Both
  <2> QED
    BY <1>1, ChainMax
<1> QED
  BY <1>2 DEF LastCommonAncestor

-----------------------------------------------------------------------------
(***************************************************************************)
(* The books of the blocks in flight.                                      *)
(***************************************************************************)

\* InFlightConsistent, TransitLimit and StallersOweBlocks of any value fl of flight,
\* where the peers in `live` have a CNodeState.
Books(fl, live) ==
    /\ fl \in FlightType
    /\ \A b \in Blocks, p \in Peers : b \in fl.list[p] <=> fl.owner[b] = p
    /\ \A p \in Peers : fl.count[p] = Cardinality(fl.list[p])
    /\ \A b \in Blocks : fl.owner[b] # NoPeer => fl.owner[b] \in live
    /\ \A p \in Peers : fl.count[p] <= MaxInTransit
    /\ \A p \in fl.stalling : fl.list[p] # {}

\* A peer is counted as preferred when its "version" arrives, not before.
NotYetPreferred == \A p \in Peers : conn[p] = "handshake" => p \notin fPreferredDownload

\* The active chain is stored.
TipFull == Ancestors[tip] \subseteq haveData

\* The inductive invariant.
IInv ==
    /\ TypeOK
    /\ Books(flight, Connected)
    /\ PeerCountersExact /\ NotYetPreferred
    /\ LastCommonFull /\ TipFull

-----------------------------------------------------------------------------
(***************************************************************************)
(* The books.                                                              *)
(***************************************************************************)
\* What FlightType says of the fields.
LEMMA FlightFields ==
    ASSUME NEW fl \in FlightType
    PROVE  /\ fl.owner \in [Blocks -> Peers \union {NoPeer}]
           /\ fl.list \in [Peers -> SUBSET Blocks]
           /\ fl.count \in [Peers -> Nat]
           /\ fl.valid \in SUBSET Blocks /\ fl.queued \in Int
           /\ fl.stalling \in SUBSET Peers
BY DEF FlightType

\* MarkBlockAsReceived keeps the books, whoever the block was asked from.
LEMMA ReceivedKeepsBooks ==
    ASSUME NEW fl, NEW live, Books(fl, live), NEW b \in Blocks
    PROVE  Books(MarkBlockAsReceived(fl, b), live)
<1> DEFINE p == fl.owner[b]
           r == MarkBlockAsReceived(fl, b)
<1>1. CASE p = NoPeer
  BY <1>1 DEF MarkBlockAsReceived
<1>2. CASE p # NoPeer
  <2>1. /\ fl.owner \in [Blocks -> Peers \union {NoPeer}]
        /\ fl.list \in [Peers -> SUBSET Blocks] /\ fl.count \in [Peers -> Nat]
        /\ fl.valid \in SUBSET Blocks /\ fl.queued \in Int /\ fl.stalling \in SUBSET Peers
    BY FlightFields DEF Books
  <2>2. p \in Peers /\ b \in fl.list[p]
    BY <1>2, <2>1 DEF Books
  <2>3. /\ r \in FlightType
        /\ r.owner = [fl.owner EXCEPT ![b] = NoPeer]
        /\ r.list = [fl.list EXCEPT ![p] = @ \ {b}]
        /\ r.count = [fl.count EXCEPT ![p] = @ - 1]
        /\ r.stalling = fl.stalling \ {p}
    <3>1. fl.list[p] \ {b} \in SUBSET Blocks
      BY <2>1, <2>2
    <3>2. fl.count[p] - 1 \in Nat
      <4>1. IsFiniteSet(fl.list[p])
        BY <2>1, <2>2, TreeAssumption, FS_Subset
      <4>2. Cardinality(fl.list[p]) \in Nat /\ Cardinality(fl.list[p]) # 0
        BY <4>1, <2>2, FS_CardinalityType, FS_EmptySet
      <4> QED
        BY <4>2, <2>2 DEF Books
    <3> DEFINE queued == IF b \in fl.valid THEN fl.queued - 1 ELSE fl.queued
    <3>3. r = [owner |-> [fl.owner EXCEPT ![b] = NoPeer],
               list |-> [fl.list EXCEPT ![p] = @ \ {b}],
               count |-> [fl.count EXCEPT ![p] = @ - 1],
               valid |-> fl.valid \ {b}, queued |-> queued, stalling |-> fl.stalling \ {p}]
      BY <1>2 DEF MarkBlockAsReceived, FlightType, Books
    <3>4. /\ [fl.owner EXCEPT ![b] = NoPeer] \in [Blocks -> Peers \union {NoPeer}]
          /\ [fl.list EXCEPT ![p] = @ \ {b}] \in [Peers -> SUBSET Blocks]
          /\ [fl.count EXCEPT ![p] = @ - 1] \in [Peers -> Nat]
      BY <2>1, <2>2, <3>1, <3>2
    <3>5. queued \in Int
      BY <2>1
    <3> HIDE DEF r, queued
    <3> QED
      BY <2>1, <3>3, <3>4, <3>5 DEF FlightType
  <2>4. \A c \in Blocks, q \in Peers : c \in r.list[q] <=> r.owner[c] = q
    BY <2>1, <2>2, <2>3, PeerAssumption DEF Books
  <2>5. \A q \in Peers : r.count[q] = Cardinality(r.list[q]) /\ r.count[q] <= MaxInTransit
    <3>1. IsFiniteSet(fl.list[p])
      BY <2>1, <2>2, TreeAssumption, FS_Subset
    <3>2. Cardinality(fl.list[p] \ {b}) = Cardinality(fl.list[p]) - 1
      BY <3>1, <2>2, FS_RemoveElement
    <3>3. ASSUME NEW q \in Peers PROVE r.count[q] = Cardinality(r.list[q])
      BY <3>2, <2>1, <2>2, <2>3 DEF Books
    <3>4. ASSUME NEW q \in Peers PROVE r.count[q] <= MaxInTransit
      BY <2>1, <2>2, <2>3, PeerAssumption DEF Books
    <3> QED
      BY <3>3, <3>4
  <2>6. \A c \in Blocks : r.owner[c] # NoPeer => r.owner[c] \in live
    BY <2>1, <2>3 DEF Books
  <2>7. \A q \in r.stalling : r.list[q] # {}
    BY <2>1, <2>2, <2>3 DEF Books
  <2> QED
    BY <2>3, <2>4, <2>5, <2>6, <2>7 DEF Books
<1> QED
  BY <1>1, <1>2

\* r: the books fl after p, who has room, is asked for the blocks in S, which nobody was
\* asked for; the timers of peers that owe a block may have started.
Requested(fl, p, S, r) ==
    /\ S \in SUBSET Blocks /\ \A b \in S : fl.owner[b] = NoPeer
    /\ fl.count[p] + Cardinality(S) <= MaxInTransit
    /\ r \in FlightType
    /\ r.owner = Assign(fl, S, p)
    /\ r.list = [fl.list EXCEPT ![p] = @ \union S]
    /\ r.count = [fl.count EXCEPT ![p] = @ + Cardinality(S)]
    /\ \A q \in r.stalling : fl.list[q] # {}

\* Blocks nobody was asked for are asked from a peer with room, and timers of peers
\* that owe a block may start.
LEMMA RequestKeepsBooks ==
    ASSUME NEW fl, NEW live, Books(fl, live), NEW p \in Peers, p \in live, NEW S, NEW r,
           Requested(fl, p, S, r)
    PROVE  Books(r, live)
<1> USE DEF Requested
<1>1. /\ fl.owner \in [Blocks -> Peers \union {NoPeer}]
      /\ fl.list \in [Peers -> SUBSET Blocks] /\ fl.count \in [Peers -> Nat]
      /\ r.stalling \in SUBSET Peers
  BY FlightFields DEF Books
<1>2. \A c \in Blocks, q \in Peers : c \in r.list[q] <=> r.owner[c] = q
  BY <1>1, PeerAssumption DEF Books, Assign
<1>3. \A q \in Peers : r.count[q] = Cardinality(r.list[q])
  <2>1. IsFiniteSet(S) /\ IsFiniteSet(fl.list[p])
    BY <1>1, TreeAssumption, FS_Subset
  <2>2. S \intersect fl.list[p] = {}
    BY PeerAssumption DEF Books
  <2>3. /\ Cardinality(S) \in Nat /\ Cardinality(fl.list[p]) \in Nat
        /\ Cardinality({}) = 0
    BY <2>1, FS_CardinalityType, FS_EmptySet
  <2>4. Cardinality(fl.list[p] \union S)
            = Cardinality(fl.list[p]) + Cardinality(S) - Cardinality(fl.list[p] \intersect S)
    BY <2>1, FS_Union
  <2>5. Cardinality(fl.list[p] \union S) = Cardinality(fl.list[p]) + Cardinality(S)
    <3>1. fl.list[p] \intersect S = {}
      BY <2>2
    <3>2. Cardinality(fl.list[p] \intersect S) = Cardinality({})
      BY <3>1, Zenon
    <3> QED
      BY <2>3, <2>4, <3>2
  <2> QED
    BY <1>1, <2>5 DEF Books
<1>4. \A q \in Peers : r.count[q] <= MaxInTransit
  BY <1>1 DEF Books
<1>5. \A c \in Blocks : r.owner[c] # NoPeer => r.owner[c] \in live
  BY <1>1 DEF Books, Assign
<1>6. \A q \in r.stalling : r.list[q] # {}
  BY <1>1
<1> QED
  BY <1>2, <1>3, <1>4, <1>5, <1>6 DEF Books

\* FinalizeNode: the entries of a peer go with its CNodeState.
LEMMA ReleaseKeepsBooks ==
    ASSUME NEW fl, NEW live, Books(fl, live), NEW p \in Peers
    PROVE  Books(Release(fl, p), live \ {p})
<1> DEFINE r == Release(fl, p)
<1>1. /\ fl.owner \in [Blocks -> Peers \union {NoPeer}]
      /\ fl.list \in [Peers -> SUBSET Blocks] /\ fl.count \in [Peers -> Nat]
      /\ fl.valid \in SUBSET Blocks /\ fl.queued \in Int /\ fl.stalling \in SUBSET Peers
  BY FlightFields DEF Books
<1>2. r = [owner |-> Assign(fl, fl.list[p], NoPeer),
           list |-> [fl.list EXCEPT ![p] = {}], count |-> [fl.count EXCEPT ![p] = 0],
           valid |-> fl.valid \ fl.list[p], queued |-> fl.queued,
           stalling |-> fl.stalling \ {p}]
  BY DEF Release
<1>3. r \in FlightType
  <2>1. /\ Assign(fl, fl.list[p], NoPeer) \in [Blocks -> Peers \union {NoPeer}]
        /\ [fl.list EXCEPT ![p] = {}] \in [Peers -> SUBSET Blocks]
        /\ [fl.count EXCEPT ![p] = 0] \in [Peers -> Nat]
    BY <1>1 DEF Assign
  <2> HIDE DEF r
  <2> QED
    BY <1>1, <1>2, <2>1 DEF FlightType
<1> HIDE DEF r
<1>4. \A c \in Blocks, q \in Peers : c \in r.list[q] <=> r.owner[c] = q
  BY <1>1, <1>2, PeerAssumption DEF Books, Assign
<1>5. \A q \in Peers : r.count[q] = Cardinality(r.list[q]) /\ r.count[q] <= MaxInTransit
  <2>1. Cardinality({}) = 0
    BY FS_EmptySet
  <2> QED
    BY <1>1, <1>2, <2>1, PeerAssumption DEF Books
<1>6. \A c \in Blocks : r.owner[c] # NoPeer => r.owner[c] \in live \ {p}
  BY <1>1, <1>2 DEF Books, Assign
<1>7. \A q \in r.stalling : r.list[q] # {}
  BY <1>1, <1>2 DEF Books
<1>8. Books(r, live \ {p})
  BY <1>3, <1>4, <1>5, <1>6, <1>7 DEF Books
<1> QED
  BY <1>8 DEF r

\* The direct request after an "inv".
LEMMA InFlightKeepsBooks ==
    ASSUME NEW fl, NEW live, Books(fl, live), NEW p \in Peers, p \in live, NEW b \in Blocks,
           fl.owner[b] = NoPeer, fl.count[p] < MaxInTransit
    PROVE  Books(MarkBlockAsInFlight(fl, p, b), live)
<1> DEFINE r == MarkBlockAsInFlight(fl, p, b)
<1>1. /\ fl.owner \in [Blocks -> Peers \union {NoPeer}]
      /\ fl.list \in [Peers -> SUBSET Blocks] /\ fl.count \in [Peers -> Nat]
      /\ fl.valid \in SUBSET Blocks /\ fl.queued \in Int /\ fl.stalling \in SUBSET Peers
  BY FlightFields DEF Books
<1>2. MarkBlockAsReceived(fl, b) = fl
  BY DEF MarkBlockAsReceived
<1>3. r = [owner |-> [fl.owner EXCEPT ![b] = p],
           list |-> [fl.list EXCEPT ![p] = @ \union {b}],
           count |-> [fl.count EXCEPT ![p] = @ + 1],
           valid |-> fl.valid, queued |-> fl.queued, stalling |-> fl.stalling]
  BY <1>2 DEF MarkBlockAsInFlight
<1>4. Cardinality({b}) = 1
  BY FS_Singleton
<1>5. /\ [fl.owner EXCEPT ![b] = p] = Assign(fl, {b}, p)
      /\ Assign(fl, {b}, p) \in [Blocks -> Peers \union {NoPeer}]
      /\ [fl.list EXCEPT ![p] = @ \union {b}] \in [Peers -> SUBSET Blocks]
      /\ [fl.count EXCEPT ![p] = @ + 1] \in [Peers -> Nat]
  BY <1>1 DEF Assign
<1> HIDE DEF r
<1>6. r \in FlightType
  BY <1>1, <1>3, <1>5 DEF FlightType
<1>7. fl.count[p] + Cardinality({b}) <= MaxInTransit
  BY <1>1, <1>4, PeerAssumption
<1>8. /\ r.owner = Assign(fl, {b}, p)
      /\ r.list = [fl.list EXCEPT ![p] = @ \union {b}]
      /\ r.count = [fl.count EXCEPT ![p] = @ + Cardinality({b})]
      /\ \A q \in r.stalling : fl.list[q] # {}
  BY <1>3, <1>4, <1>5 DEF Books
<1>9. Books(r, live)
  <2>1. Requested(fl, p, {b}, r)
    BY <1>6, <1>7, <1>8 DEF Requested
  <2> QED
    BY <2>1, RequestKeepsBooks
<1> QED
  BY <1>9 DEF r

-----------------------------------------------------------------------------
(***************************************************************************)
(* FindNextBlocksToDownload.                                               *)
(***************************************************************************)
\* It finds at most `room` blocks, none of them in flight.
LEMMA FetchBound ==
    ASSUME NEW s, NEW best \in Blocks, NEW room \in Nat
    PROVE  /\ ToFetch(s, best, room) \in SUBSET Blocks
           /\ \A b \in ToFetch(s, best, room) : flight.owner[b] = NoPeer
           /\ Cardinality(ToFetch(s, best, room)) \in Nat
           /\ Cardinality(ToFetch(s, best, room)) <= room
<1> DEFINE S == ToFetch(s, best, room)
           M == Missing(s, best)
<1>1. /\ S \in SUBSET M /\ M \in SUBSET Ancestors[best]
      /\ \A b \in S : flight.owner[b] = NoPeer
      /\ \A x \in S : Cardinality(Before(x, M)) < room
  BY DEF ToFetch, Missing, Visited, Path
<1> HIDE DEF S, M
<1>2. S \in SUBSET Ancestors[best] /\ S \in SUBSET Blocks /\ M \in SUBSET Blocks
  BY <1>1, TreeFacts
<1>3. IsFiniteSet(S) /\ IsFiniteSet(M) /\ Cardinality(S) \in Nat
  BY <1>2, TreeAssumption, FS_Subset, FS_CardinalityType
<1>4. CASE S = {}
  BY <1>1, <1>2, <1>4, FS_EmptySet DEF S
<1>5. CASE S # {}
  <2>1. PICK m \in S : S \subseteq Ancestors[m]
    BY <1>2, <1>5, ChainMax
  <2>2. S \ {m} \in SUBSET Before(m, M) /\ Before(m, M) \in SUBSET M
    BY <1>1, <2>1 DEF Before
  <2>3. IsFiniteSet(Before(m, M)) /\ Cardinality(Before(m, M)) \in Nat
    BY <1>3, <2>2, FS_Subset, FS_CardinalityType
  <2>4. Cardinality(S \ {m}) <= Cardinality(Before(m, M))
    BY <2>2, <2>3, FS_Subset
  <2>5. Cardinality(S \ {m}) = Cardinality(S) - 1
    BY <1>3, <2>1, FS_RemoveElement
  <2>6. Cardinality(S) <= room
    BY <1>1, <1>3, <2>1, <2>3, <2>4, <2>5
  <2> QED
    BY <1>1, <1>2, <1>3, <2>6 DEF S
<1> QED
  BY <1>4, <1>5

\* The walk starts at a block of the peer's chain that is stored with its ancestors.
LEMMA StartIsFull ==
    ASSUME TypeOK, LastCommonFull, TipFull, NEW p \in Peers, NEW best \in Blocks
    PROVE  /\ Start(p, best) \in Blocks /\ Start(p, best) \in Ancestors[best]
           /\ Ancestors[Start(p, best)] \subseteq haveData
<1> DEFINE lower == IF Height(best) < Height(tip) THEN Height(best) ELSE Height(tip)
           guess == IF lastCommon[p] = NoBlock THEN GetAncestor(tip, lower) ELSE lastCommon[p]
<1>1. tip \in Blocks /\ lastCommon[p] \in Blocks \union {NoBlock}
  BY DEF TypeOK
<1>2. Height(best) \in Nat /\ Height(tip) \in Nat
  BY <1>1, HeightType
<1>3. guess \in Blocks /\ Ancestors[guess] \subseteq haveData
  <2>1. CASE lastCommon[p] = NoBlock
    <3>1. lower \in Nat /\ lower <= Height(tip)
      BY <1>2
    <3>2. guess \in Ancestors[tip]
      BY <2>1, <3>1, <1>1, AncestorAtHeight
    <3> QED
      BY <3>2, <1>1, TreeFacts DEF TipFull
  <2>2. CASE lastCommon[p] # NoBlock
    BY <1>1, <2>2 DEF LastCommonFull
  <2> QED
    BY <2>1, <2>2
<1>4. Start(p, best) = LastCommonAncestor(guess, best)
  BY DEF Start
<1> HIDE DEF guess
<1>5. Start(p, best) \in Ancestors[guess] \intersect Ancestors[best]
  BY <1>3, <1>4, CommonAncestor
<1> QED
  BY <1>3, <1>5, TreeFacts

\* pindexLastCommonBlock only moves onto blocks stored with their ancestors.
LEMMA AdvanceIsFull ==
    ASSUME NEW best \in Blocks, NEW s \in Ancestors[best], NEW room,
           Ancestors[s] \subseteq haveData
    PROVE  /\ Advance(s, best, room) \in Blocks
           /\ Ancestors[Advance(s, best, room)] \subseteq haveData
<1> DEFINE full == {x \in Visited(s, best, room) : x \in Linked(haveData)} \union {s}
<1>1. full \in SUBSET Ancestors[best] /\ full # {}
  BY DEF Visited, Path
<1>2. \A x \in full : Ancestors[x] \subseteq haveData
  BY DEF Linked
<1> HIDE DEF full
<1>3. \E x \in full : full \subseteq Ancestors[x]
  BY <1>1, ChainMax
<1>4. Advance(s, best, room) \in full
  BY <1>3 DEF Advance, full
<1> QED
  BY <1>1, <1>2, <1>4, TreeFacts

\* The peer found to be stalling owes a block.
LEMMA StallerOwes ==
    ASSUME NEW live, Books(flight, live), NEW p, NEW s, NEW best \in Blocks, NEW room,
           NEW q \in Staller(p, s, best, room)
    PROVE  q \in Peers /\ flight.list[q] # {}
<1>1. PICK x \in Path(s, best) : flight.owner[x] # NoPeer /\ q = flight.owner[x]
  BY DEF Staller
<1>2. x \in Blocks
  BY <1>1, TreeFacts DEF Path
<1> QED
  BY <1>1, <1>2, FlightFields DEF Books

-----------------------------------------------------------------------------
(***************************************************************************)
(* The actions.                                                            *)
(***************************************************************************)
\* More connections: the books stay right.
LEMMA BooksMonotone ==
    ASSUME NEW fl, NEW live, NEW more, Books(fl, live), live \subseteq more
    PROVE  Books(fl, more)
BY DEF Books

\* Peers come and go in finite sets, counted one by one.
LEMMA CountOne ==
    ASSUME NEW S \in SUBSET Peers, NEW p \in Peers
    PROVE  /\ Cardinality(S) \in Nat
           /\ p \notin S => Cardinality(S \union {p}) = Cardinality(S) + 1
           /\ Discount(Cardinality(S), S, p) \in Nat
           /\ Discount(Cardinality(S), S, p) = Cardinality(S \ {p})
<1>1. IsFiniteSet(S) /\ Cardinality(S) \in Nat
  BY PeerAssumption, FS_Subset, FS_CardinalityType
<1>2. p \notin S => Cardinality(S \union {p}) = Cardinality(S) + 1
  BY <1>1, FS_AddElement
<1>3. /\ Cardinality(S \ {p}) = IF p \in S THEN Cardinality(S) - 1 ELSE Cardinality(S)
      /\ Cardinality(S \ {p}) \in Nat
  BY <1>1, FS_RemoveElement, FS_CardinalityType
<1> QED
  BY <1>1, <1>2, <1>3 DEF Discount

\* What a peer is thought to have is a block or nothing.
LEMMA AvailabilityType ==
    ASSUME TypeOK, NEW p \in Peers, NEW known \in SUBSET Blocks
    PROVE  /\ BestAfter(p, known) \in Blocks \union {NoBlock}
           /\ UnknownAfter(p, known) \in Blocks \union {NoBlock}
           /\ \A b \in Blocks : UpdateBlockAvailability(p, b, known) =>
                 /\ bestKnown' \in [Peers -> Blocks \union {NoBlock}]
                 /\ lastUnknown' \in [Peers -> Blocks \union {NoBlock}]
<1>1. /\ BestAfter(p, known) \in Blocks \union {NoBlock}
      /\ UnknownAfter(p, known) \in Blocks \union {NoBlock}
  BY DEF TypeOK, BestAfter, UnknownAfter, Better
<1>2. \A b \in Blocks : Better(BestAfter(p, known), b) \in Blocks \union {NoBlock}
  BY <1>1 DEF Better
<1> QED
  BY <1>1, <1>2 DEF TypeOK, UpdateBlockAvailability

\* Connecting, the "version" message, disconnecting.
LEMMA ConnectionSteps ==
    ASSUME IInv, NEW p \in Peers, InitializeNode(p) \/ Version(p) \/ Disconnect(p)
    PROVE  IInv'
<1>1. /\ conn' \in [Peers -> {"new", "handshake", "open", "gone"}]
      /\ Connected \subseteq Connected' /\ fDisconnect' \subseteq Connected'
      /\ UNCHANGED <<fSyncStarted, nSyncStarted, bestKnown, lastUnknown, lastCommon, flight,
                     mapBlockIndex, haveData, failed, tip, fInitialDownload>>
  BY DEF IInv, TypeOK, InitializeNode, Version, Disconnect, nodeVars, chainVars, Connected
<1>2. /\ fPreferredDownload' \in SUBSET Peers
      /\ nPreferredDownload' = Cardinality(fPreferredDownload') /\ nPreferredDownload' \in Nat
      /\ fPreferredDownload' \subseteq Connected'
      /\ NotYetPreferred'
  <2>0. fPreferredDownload \in SUBSET Peers /\ conn \in [Peers -> {"new", "handshake", "open", "gone"}]
    BY DEF IInv, TypeOK
  <2>1. CASE InitializeNode(p)
    BY <2>0, <2>1, <1>1 DEF IInv, TypeOK, InitializeNode, PeerCountersExact, NotYetPreferred,
                     nodeVars, Connected
  <2>2. CASE Version(p)
    <3>1. p \notin fPreferredDownload /\ p \in Connected'
      BY <2>2 DEF IInv, TypeOK, Version, NotYetPreferred, Connected
    <3>2. nPreferredDownload = Cardinality(fPreferredDownload)
      BY DEF IInv, PeerCountersExact
    <3>3. CASE p \in Preferred
      <4>1. /\ fPreferredDownload' = fPreferredDownload \union {p}
            /\ nPreferredDownload' = nPreferredDownload + 1
        BY <2>2, <3>3 DEF Version
      <4>2. nPreferredDownload' = Cardinality(fPreferredDownload') /\ nPreferredDownload' \in Nat
        BY <4>1, <3>1, <3>2, <2>0, CountOne
      <4> QED
        BY <4>1, <4>2, <3>1, <2>0, <2>2, <1>1
           DEF IInv, Version, NotYetPreferred, PeerCountersExact
    <3>4. CASE p \notin Preferred
      BY <2>0, <2>2, <3>4, <1>1 DEF IInv, TypeOK, Version, PeerCountersExact, NotYetPreferred
    <3> QED
      BY <3>3, <3>4
  <2>3. CASE Disconnect(p)
    BY <2>0, <2>3, <1>1 DEF IInv, TypeOK, Disconnect, PeerCountersExact, NotYetPreferred,
                     nodeVars, Connected
  <2> QED
    BY <2>1, <2>2, <2>3
<1>3. Books(flight', Connected')
  BY <1>1, BooksMonotone DEF IInv
<1> QED
  BY <1>1, <1>2, <1>3 DEF IInv, TypeOK, PeerCountersExact, LastCommonFull, TipFull

\* The end of a connection.
LEMMA FinalizeStep ==
    ASSUME IInv, NEW p \in Peers, FinalizeNode(p)
    PROVE  IInv'
<1>1. /\ conn' \in [Peers -> {"new", "handshake", "open", "gone"}]
      /\ Connected' = Connected \ {p}
      /\ \A q \in Peers : conn'[q] = "handshake" => conn[q] = "handshake"
  BY DEF IInv, TypeOK, FinalizeNode, Connected
<1>2. Books(flight', Connected')
  BY <1>1, ReleaseKeepsBooks DEF IInv, FinalizeNode
<1>3. /\ nSyncStarted' = Cardinality(fSyncStarted') /\ nSyncStarted' \in Nat
      /\ nPreferredDownload' = Cardinality(fPreferredDownload') /\ nPreferredDownload' \in Nat
  BY CountOne DEF IInv, TypeOK, PeerCountersExact, FinalizeNode
<1>4. PeerCountersExact' /\ NotYetPreferred'
  BY <1>1, <1>3 DEF IInv, TypeOK, PeerCountersExact, NotYetPreferred, FinalizeNode
<1>5. flight' \in FlightType
  BY <1>2 DEF Books
<1>6. TypeOK'
  BY <1>1, <1>3, <1>5 DEF IInv, TypeOK, FinalizeNode, chainVars
<1>7. LastCommonFull' /\ TipFull'
  BY DEF IInv, TypeOK, LastCommonFull, TipFull, FinalizeNode, chainVars
<1> QED
  BY <1>2, <1>4, <1>6, <1>7 DEF IInv

\* Announcements of blocks.
LEMMA InvStep ==
    ASSUME IInv, NEW p \in Peers, NEW b \in Blocks, Inv(p, b)
    PROVE  IInv'
<1>1. Connected' = Connected /\ p \in Connected
  BY DEF Inv, Connected
<1>2. Books(flight', Connected')
  <2>1. CASE Fetches(p, b) /\ flight' = MarkBlockAsInFlight(flight, p, b)
    BY <2>1, <1>1, InFlightKeepsBooks DEF IInv, Fetches
  <2>2. CASE UNCHANGED flight
    BY <2>2, <1>1 DEF IInv
  <2> QED
    BY <2>1, <2>2 DEF Inv
<1>3. /\ bestKnown' \in [Peers -> Blocks \union {NoBlock}]
      /\ lastUnknown' \in [Peers -> Blocks \union {NoBlock}]
  BY AvailabilityType DEF IInv, Inv, TypeOK
<1>4. flight' \in FlightType
  BY <1>2 DEF Books
<1> QED
  BY <1>1, <1>2, <1>3, <1>4
     DEF IInv, Inv, TypeOK, PeerCountersExact, NotYetPreferred, LastCommonFull, TipFull,
         nodeVars, chainVars

\* Headers.
LEMMA HeadersStep ==
    ASSUME IInv, NEW p \in Peers, NEW s \in Blocks, NEW b \in Blocks, Headers(p, s, b)
    PROVE  IInv'
<1>1. Connected' = Connected
  BY DEF Headers, Connected
<1>2. mapBlockIndex' \in SUBSET Blocks /\ mapBlockIndex \subseteq mapBlockIndex'
  BY TreeFacts DEF IInv, TypeOK, Headers
<1>3. /\ bestKnown' \in [Peers -> Blocks \union {NoBlock}]
      /\ lastUnknown' \in [Peers -> Blocks \union {NoBlock}]
  BY <1>2, AvailabilityType DEF IInv, Headers, TypeOK
<1>4. UNCHANGED <<conn, fDisconnect, lastCommon, flight, haveData, failed, tip, fInitialDownload>>
      /\ UNCHANGED nodeVars
  BY DEF Headers
<1> QED
  BY <1>1, <1>2, <1>3, <1>4
     DEF IInv, TypeOK, PeerCountersExact, NotYetPreferred, LastCommonFull, TipFull, nodeVars

\* A block.
LEMMA BlockStep ==
    ASSUME IInv, NEW p \in Peers, NEW b \in Blocks, Block(p, b)
    PROVE  IInv'
<1>1. Connected' = Connected
  BY DEF Block, Connected
<1>2. Books(flight', Connected')
  BY <1>1, ReceivedKeepsBooks DEF IInv, Block
<1>3. flight' \in FlightType
  BY <1>2 DEF Books
<1>4. /\ mapBlockIndex' \in SUBSET Blocks /\ haveData' \subseteq mapBlockIndex'
      /\ failed' \subseteq mapBlockIndex' /\ haveData \subseteq haveData'
      /\ tip' \in haveData' /\ Ancestors[tip'] \subseteq haveData'
  <2>1. CASE UNCHANGED chainVars
    BY <2>1 DEF IInv, TypeOK, TipFull, chainVars
  <2>2. CASE /\ mapBlockIndex' = mapBlockIndex \union {b}
             /\ failed' = failed \union {b} /\ UNCHANGED <<haveData, tip>>
    BY <2>2 DEF IInv, TypeOK, TipFull
  <2>3. CASE /\ mapBlockIndex' = mapBlockIndex \union {b}
             /\ haveData' = haveData \union {b} /\ UNCHANGED failed
             /\ tip' \in Linked(haveData')
    BY <2>3 DEF IInv, TypeOK, Linked
  <2> QED
    BY <2>1, <2>2, <2>3 DEF Block
<1>5. UNCHANGED <<conn, fDisconnect, bestKnown, lastUnknown, lastCommon, fInitialDownload>>
      /\ UNCHANGED nodeVars
  BY DEF Block
<1> QED
  BY <1>1, <1>2, <1>3, <1>4, <1>5
     DEF IInv, TypeOK, PeerCountersExact, NotYetPreferred, LastCommonFull, TipFull, nodeVars

\* The start of the headers sync.
LEMMA StartSyncStep ==
    ASSUME IInv, NEW p \in Connected, NEW recent \in BOOLEAN, StartSync(p, recent)
    PROVE  /\ fSyncStarted' \in SUBSET Peers /\ nSyncStarted' \in Nat
           /\ nSyncStarted' = Cardinality(fSyncStarted') /\ fSyncStarted' \subseteq Connected
<1>1. /\ p \in Peers /\ fSyncStarted \in SUBSET Peers /\ nSyncStarted \in Nat
      /\ nSyncStarted = Cardinality(fSyncStarted) /\ fSyncStarted \subseteq Connected
  BY DEF IInv, TypeOK, PeerCountersExact, Connected
<1>2. CASE UNCHANGED <<fSyncStarted, nSyncStarted>>
  BY <1>1, <1>2
<1>3. CASE /\ p \notin fSyncStarted
           /\ fSyncStarted' = fSyncStarted \union {p} /\ nSyncStarted' = nSyncStarted + 1
  BY <1>1, <1>3, CountOne
<1> QED
  BY <1>2, <1>3 DEF StartSync

\* The request of blocks.
LEMMA RequestStep ==
    ASSUME IInv, NEW p \in Peers, p \in Connected, flight.count[p] < MaxInTransit,
           RequestBlocks(p)
    PROVE  /\ Books(flight', Connected)
           /\ bestKnown' \in [Peers -> Blocks \union {NoBlock}]
           /\ lastUnknown' \in [Peers -> Blocks \union {NoBlock}]
           /\ lastCommon' \in [Peers -> Blocks \union {NoBlock}]
           /\ \A q \in Peers : lastCommon'[q] # NoBlock => Ancestors[lastCommon'[q]] \subseteq haveData
<1> DEFINE best == BestAfter(p, mapBlockIndex)
           room == MaxInTransit - flight.count[p]
           s == Start(p, best)
           fetch == ToFetch(s, best, room)
           late == IF flight.count[p] + Cardinality(fetch) = 0
                   THEN Staller(p, s, best, room) ELSE {}
<1>1. /\ best \in Blocks \union {NoBlock}
      /\ bestKnown' \in [Peers -> Blocks \union {NoBlock}]
      /\ lastUnknown' \in [Peers -> Blocks \union {NoBlock}]
  BY AvailabilityType DEF IInv, TypeOK, RequestBlocks
<1>2. CASE ~Interesting(best) /\ UNCHANGED <<lastCommon, flight>>
  BY <1>1, <1>2 DEF IInv, TypeOK, LastCommonFull
<1>3. CASE /\ Interesting(best)
           /\ lastCommon' = [lastCommon EXCEPT ![p] = Advance(s, best, room)]
           /\ flight' = RequestAll(flight, p, fetch, late)
  <2>1. best \in Blocks
    BY <1>1, <1>3 DEF Interesting
  <2>2. flight.count[p] \in Nat /\ room \in Nat
    BY FlightFields, PeerAssumption DEF IInv, TypeOK
  <2>3. s \in Ancestors[best] /\ Ancestors[s] \subseteq haveData
    BY <2>1, StartIsFull DEF IInv
  <2>4. Advance(s, best, room) \in Blocks /\ Ancestors[Advance(s, best, room)] \subseteq haveData
    BY <2>1, <2>3, AdvanceIsFull
  <2>5. /\ fetch \in SUBSET Blocks /\ \A b \in fetch : flight.owner[b] = NoPeer
        /\ Cardinality(fetch) \in Nat /\ Cardinality(fetch) <= room
    BY <2>1, <2>2, FetchBound
  <2>6. \A q \in late : q \in Peers /\ flight.list[q] # {}
    BY <2>1, StallerOwes DEF IInv
  <2> HIDE DEF best, s, fetch, late
  <2>7. Requested(flight, p, fetch, flight')
    <3>1. /\ flight.owner \in [Blocks -> Peers \union {NoPeer}]
          /\ flight.list \in [Peers -> SUBSET Blocks] /\ flight.count \in [Peers -> Nat]
          /\ flight.valid \in SUBSET Blocks /\ flight.queued \in Int
          /\ flight.stalling \in SUBSET Peers
      BY FlightFields DEF IInv, TypeOK
    <3>2. flight' = [owner |-> Assign(flight, fetch, p),
                     list |-> [flight.list EXCEPT ![p] = @ \union fetch],
                     count |-> [flight.count EXCEPT ![p] = @ + Cardinality(fetch)],
                     valid |-> flight.valid \union fetch,
                     queued |-> flight.queued + Cardinality(fetch),
                     stalling |-> flight.stalling \union late]
      BY <1>3 DEF RequestAll
    <3>3. /\ Assign(flight, fetch, p) \in [Blocks -> Peers \union {NoPeer}]
          /\ [flight.list EXCEPT ![p] = @ \union fetch] \in [Peers -> SUBSET Blocks]
          /\ [flight.count EXCEPT ![p] = @ + Cardinality(fetch)] \in [Peers -> Nat]
          /\ flight.valid \union fetch \in SUBSET Blocks
          /\ flight.queued + Cardinality(fetch) \in Int
          /\ flight.stalling \union late \in SUBSET Peers
      BY <2>5, <2>6, <3>1 DEF Assign
    <3>4. flight' \in FlightType
      BY <3>2, <3>3 DEF FlightType
    <3>5. flight.count[p] + Cardinality(fetch) <= MaxInTransit
      BY <2>2, <2>5, PeerAssumption
    <3>6. \A q \in flight.stalling \union late : flight.list[q] # {}
      BY <2>6 DEF IInv, Books
    <3> QED
      BY <2>5, <3>2, <3>4, <3>5, <3>6 DEF Requested
  <2>8. Books(flight', Connected)
    BY <2>7, RequestKeepsBooks DEF IInv
  <2> QED
    BY <1>1, <1>3, <2>4, <2>8 DEF IInv, TypeOK, LastCommonFull
<1> QED
  BY <1>2, <1>3 DEF RequestBlocks

\* SendMessages, with and without a timeout.
LEMMA SendStep ==
    ASSUME IInv, NEW p \in Peers, SendMessages(p) \/ SendMessagesTimeout(p)
    PROVE  IInv'
<1>1. /\ p \in Connected /\ Connected' = Connected /\ fDisconnect' \subseteq Connected'
      /\ conn' \in [Peers -> {"new", "handshake", "open", "gone"}]
      /\ \A q \in Peers : conn'[q] = "handshake" => conn[q] = "handshake"
  BY DEF IInv, TypeOK, SendMessages, SendMessagesTimeout, Connected
<1>2. /\ fSyncStarted' \in SUBSET Peers /\ nSyncStarted' \in Nat
      /\ nSyncStarted' = Cardinality(fSyncStarted') /\ fSyncStarted' \subseteq Connected
  <2>1. PICK recent \in BOOLEAN : StartSync(p, recent)
    BY DEF SendMessages, SendMessagesTimeout
  <2> QED
    BY <1>1, <2>1, StartSyncStep
<1>3. /\ Books(flight', Connected)
      /\ bestKnown' \in [Peers -> Blocks \union {NoBlock}]
      /\ lastUnknown' \in [Peers -> Blocks \union {NoBlock}]
      /\ lastCommon' \in [Peers -> Blocks \union {NoBlock}]
      /\ \A q \in Peers : lastCommon'[q] # NoBlock => Ancestors[lastCommon'[q]] \subseteq haveData
  <2>1. CASE UNCHANGED <<bestKnown, lastUnknown, lastCommon, flight>>
    BY <2>1 DEF IInv, TypeOK, LastCommonFull
  <2>2. CASE flight.count[p] < MaxInTransit /\ RequestBlocks(p)
    BY <2>2, <1>1, RequestStep
  <2> QED
    BY <2>1, <2>2 DEF SendMessages, SendMessagesTimeout, MayRequest
<1>4. /\ UNCHANGED <<fPreferredDownload, nPreferredDownload, fInitialDownload>>
      /\ UNCHANGED <<mapBlockIndex, haveData, failed, tip>>
  BY DEF SendMessages, SendMessagesTimeout, chainVars
<1>5. flight' \in FlightType
  BY <1>3 DEF Books
<1> QED
  BY <1>1, <1>2, <1>3, <1>4, <1>5
     DEF IInv, TypeOK, PeerCountersExact, NotYetPreferred, LastCommonFull, TipFull

-----------------------------------------------------------------------------
\* The inductive invariant holds in every reachable state, for every tree of blocks,
\* set of peers, download window and limit per peer.
THEOREM Invariance == Spec => []IInv
<1>1. Init => IInv
  <2> SUFFICES ASSUME Init PROVE IInv
    OBVIOUS
  <2>1. Genesis \in Blocks /\ Ancestors[Genesis] = {Genesis}
    BY TreeAssumption
  <2>2. flight \in FlightType
    BY DEF Init, FlightType
  <2>3. Cardinality({}) = 0
    BY FS_EmptySet
  <2>4. Books(flight, Connected)
    BY <2>2, <2>3, PeerAssumption DEF Init, Books
  <2>5. TypeOK
    BY <2>1, <2>2 DEF Init, TypeOK
  <2> QED
    BY <2>1, <2>3, <2>4, <2>5
       DEF Init, IInv, PeerCountersExact, NotYetPreferred, LastCommonFull, TipFull
<1>2. IInv /\ [Next]_vars => IInv'
  <2> SUFFICES ASSUME IInv, [Next]_vars PROVE IInv'
    OBVIOUS
  <2>1. CASE UNCHANGED vars
    BY <2>1 DEF vars, IInv, TypeOK, Books, PeerCountersExact, NotYetPreferred, LastCommonFull,
                TipFull, Connected
  <2>2. CASE LeaveInitialDownload
    BY <2>2 DEF LeaveInitialDownload, nodeVars, chainVars, IInv, TypeOK, Books,
                PeerCountersExact, NotYetPreferred, LastCommonFull, TipFull, Connected
  <2>3. CASE \E p \in Peers : InitializeNode(p) \/ Version(p) \/ Disconnect(p)
    BY <2>3, ConnectionSteps
  <2>4. CASE \E p \in Peers : FinalizeNode(p)
    BY <2>4, FinalizeStep
  <2>5. CASE \E p \in Peers : SendMessages(p) \/ SendMessagesTimeout(p)
    BY <2>5, SendStep
  <2>6. CASE \E p \in Peers, b \in Blocks : Inv(p, b)
    BY <2>6, InvStep
  <2>7. CASE \E p \in Peers, b \in Blocks : Block(p, b)
    BY <2>7, BlockStep
  <2>8. CASE \E p \in Peers, b \in Blocks, s \in Blocks : Headers(p, s, b)
    BY <2>8, HeadersStep
  <2> QED
    BY <2>1, <2>2, <2>3, <2>4, <2>5, <2>6, <2>7, <2>8 DEF Next
<1> QED
  BY <1>1, <1>2, PTL DEF Spec

\* Types: in particular the counters never become negative.
THEOREM TypeCorrect == Spec => []TypeOK
<1>1. IInv => TypeOK
  BY DEF IInv
<1> QED
  BY <1>1, Invariance, PTL

\* mapBlocksInFlight and the lists of the peers agree at all times.
THEOREM InFlightIsConsistent == Spec => []InFlightConsistent
<1>1. IInv => InFlightConsistent
  BY DEF IInv, Books, InFlightConsistent
<1> QED
  BY <1>1, Invariance, PTL

\* No peer is asked for more than MAX_BLOCKS_IN_TRANSIT_PER_PEER blocks.
THEOREM TransitIsLimited == Spec => []TransitLimit
<1>1. IInv => TransitLimit
  BY DEF IInv, Books, TransitLimit
<1> QED
  BY <1>1, Invariance, PTL

\* So the books of the blocks in flight are right and within the limit.
THEOREM InFlightIsExact == Spec => []InFlightExact
<1>1. InFlightConsistent /\ TransitLimit => InFlightExact
  BY DEF InFlightExact
<1> QED
  BY <1>1, InFlightIsConsistent, TransitIsLimited, PTL

\* A peer with a running stalling timer owes a block.
THEOREM StallersOwe == Spec => []StallersOweBlocks
<1>1. IInv => StallersOweBlocks
  BY DEF IInv, Books, StallersOweBlocks
<1> QED
  BY <1>1, Invariance, PTL

\* nPreferredDownload and nSyncStarted are exact.
THEOREM PeersAreCounted == Spec => []PeerCountersExact
<1>1. IInv => PeerCountersExact
  BY DEF IInv
<1> QED
  BY <1>1, Invariance, PTL

\* pindexLastCommonBlock is a block whose ancestors are all stored.
THEOREM LastCommonIsFull == Spec => []LastCommonFull
<1>1. IInv => LastCommonFull
  BY DEF IInv
<1> QED
  BY <1>1, Invariance, PTL
=============================================================================
