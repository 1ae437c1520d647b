---------------------------- MODULE BlockDownload ---------------------------
(***************************************************************************)
(* Which peer is asked for which block (src/src/main.cpp): CNodeState,     *)
(* mapBlocksInFlight, the "inv", "headers" and "block" messages, and the   *)
(* part of SendMessages that starts the headers sync, requests blocks and  *)
(* disconnects peers that stall or time out.                               *)
(*                                                                         *)
(* Every action holds cs_main from start to end.  A NodeId is used by one  *)
(* connection only.  Peers are full nodes; a peer may reorganise, so it    *)
(* announces any block of Serves[p].  Time is abstracted to what may       *)
(* happen: a timer that is running may expire.  How the tip follows the    *)
(* blocks received is ChainState's subject; here it is a linked block with *)
(* the most work.                                                          *)
(***************************************************************************)
EXTENDS BlockTree

CONSTANTS
    Peers,          \* NodeIds
    Chain,          \* the best block of each peer
    Serves,         \* the blocks a peer may announce and send, of several branches
    Preferred,      \* outbound or whitelisted peers
    Steady,         \* peers that answer, and are never disconnected
    Mute,           \* peers that never send a block
    Bad,            \* blocks that AcceptBlock marks as invalid
    DownloadWindow, \* BLOCK_DOWNLOAD_WINDOW
    MaxInTransit,   \* MAX_BLOCKS_IN_TRANSIT_PER_PEER
    NoPeer          \* -1

ASSUME PeerAssumption ==
    /\ IsFiniteSet(Peers) /\ NoPeer \notin Peers
    /\ Chain \in [Peers -> Blocks] /\ Serves \in [Peers -> SUBSET Blocks]
    /\ \A p \in Peers : Ancestors[Chain[p]] \subseteq Serves[p] \union {Genesis}
    /\ Preferred \subseteq Peers /\ Steady \subseteq Peers /\ Mute \subseteq Peers \ Steady
    /\ Bad \subseteq Blocks \ {Genesis}
    /\ DownloadWindow \in Nat \ {0} /\ MaxInTransit \in Nat \ {0}

VARIABLES
    conn,                 \* new, handshake (nVersion = 0), open, gone
    fDisconnect,          \* connections that are to be closed
    fPreferredDownload, nPreferredDownload,
    fSyncStarted, nSyncStarted,
    bestKnown,            \* pindexBestKnownBlock
    lastUnknown,          \* hashLastUnknownBlock
    lastCommon,           \* pindexLastCommonBlock
    flight,               \* the blocks in flight, see FlightType
    mapBlockIndex, haveData, failed, tip,
    fInitialDownload      \* IsInitialBlockDownload()

nodeVars == <<fPreferredDownload, nPreferredDownload, fSyncStarted, nSyncStarted>>
chainVars == <<mapBlockIndex, haveData, failed, tip>>
vars == <<conn, fDisconnect, fPreferredDownload, nPreferredDownload, fSyncStarted, nSyncStarted, bestKnown,
          lastUnknown, lastCommon, flight, mapBlockIndex, haveData, failed, tip,
          fInitialDownload>>

\* owner: mapBlocksInFlight; list and count: vBlocksInFlight and nBlocksInFlight of
\* each peer; valid: the entries with fValidatedHeaders; queued:
\* nQueuedValidatedHeaders; stalling: the peers with nStallingSince # 0.
FlightType ==
    [owner : [Blocks -> Peers \union {NoPeer}],
     list : [Peers -> SUBSET Blocks], count : [Peers -> Nat],
     valid : SUBSET Blocks, queued : Int, stalling : SUBSET Peers]

Init ==
    /\ conn = [p \in Peers |-> "new"] /\ fDisconnect = {}
    /\ fPreferredDownload = {} /\ nPreferredDownload = 0
    /\ fSyncStarted = {} /\ nSyncStarted = 0
    /\ bestKnown = [p \in Peers |-> NoBlock]
    /\ lastUnknown = [p \in Peers |-> NoBlock]
    /\ lastCommon = [p \in Peers |-> NoBlock]
    /\ flight = [owner |-> [b \in Blocks |-> NoPeer],
                 list |-> [p \in Peers |-> {}], count |-> [p \in Peers |-> 0],
                 valid |-> {}, queued |-> 0, stalling |-> {}]
    /\ mapBlockIndex = {Genesis} /\ haveData = {Genesis} /\ failed = {}
    /\ tip = Genesis
    /\ fInitialDownload = TRUE

Linked(have) == {x \in have : Ancestors[x] \subseteq have}
-----------------------------------------------------------------------------
(***************************************************************************)
(* The books.                                                              *)
(***************************************************************************)
\* Mutant: nStallingSince is not reset.
MarkBlockAsReceivedStalling(fl, b) ==
    LET p == fl.owner[b]
    IN  IF p = NoPeer THEN fl
        ELSE [fl EXCEPT !.queued = IF b \in fl.valid THEN @ - 1 ELSE @,
                        !.valid = @ \ {b}, !.list[p] = @ \ {b}, !.count[p] = @ - 1,
                        !.owner[b] = NoPeer]

\* MarkBlockAsReceived(b).
MarkBlockAsReceived(fl, b) ==
    LET p == fl.owner[b]
    IN  IF p = NoPeer THEN fl
        ELSE [fl EXCEPT !.queued = IF b \in fl.valid THEN @ - 1 ELSE @,
                        !.valid = @ \ {b},
                        !.list[p] = @ \ {b},
                        !.count[p] = @ - 1,
                        !.stalling = @ \ {p},
                        !.owner[b] = NoPeer]

\* MarkBlockAsInFlight(p, b) without a header (pindex = NULL).
MarkBlockAsInFlight(fl, p, b) ==
    LET clean == MarkBlockAsReceived(fl, b)
    IN  [owner |-> [clean.owner EXCEPT ![b] = p],
         list |-> [clean.list EXCEPT ![p] = @ \union {b}],
         count |-> [clean.count EXCEPT ![p] = @ + 1],
         valid |-> clean.valid, queued |-> clean.queued, stalling |-> clean.stalling]

\* mapBlocksInFlight when the blocks of S are asked from p.
Assign(fl, S, p) == [b \in Blocks |-> IF b \in S THEN p ELSE fl.owner[b]]

\* MarkBlockAsInFlight, with their headers, of the blocks that FindNextBlocksToDownload
\* found: none of them is in flight.  The stalling timers of the peers in late start.
RequestAll(fl, p, S, late) ==
    [owner |-> Assign(fl, S, p),
     list |-> [fl.list EXCEPT ![p] = @ \union S],
     count |-> [fl.count EXCEPT ![p] = @ + Cardinality(S)],
     valid |-> fl.valid \union S, queued |-> fl.queued + Cardinality(S),
     stalling |-> fl.stalling \union late]

Better(old, b) == IF old = NoBlock \/ ChainWork[b] >= ChainWork[old] THEN b ELSE old

\* ProcessBlockAvailability with the index `known`.
BestAfter(p, known) ==
    IF lastUnknown[p] \in known THEN Better(bestKnown[p], lastUnknown[p]) ELSE bestKnown[p]
UnknownAfter(p, known) == IF lastUnknown[p] \in known THEN NoBlock ELSE lastUnknown[p]

UpdateBlockAvailability(p, b, known) ==
    \/ /\ b \in known
       /\ bestKnown' = [bestKnown EXCEPT ![p] = Better(BestAfter(p, known), b)]
       /\ lastUnknown' = [lastUnknown EXCEPT ![p] = UnknownAfter(p, known)]
    \/ /\ b \notin known
       /\ bestKnown' = [bestKnown EXCEPT ![p] = BestAfter(p, known)]
       /\ lastUnknown' = [lastUnknown EXCEPT ![p] = b]
-----------------------------------------------------------------------------
(***************************************************************************)
(* Connections.                                                            *)
(***************************************************************************)
InitializeNode(p) ==
    /\ conn[p] = "new"
    /\ conn' = [conn EXCEPT ![p] = "handshake"]
    /\ UNCHANGED <<fDisconnect, bestKnown, lastUnknown, lastCommon, flight, fInitialDownload>>
    /\ UNCHANGED nodeVars /\ UNCHANGED chainVars

\* The "version" message: UpdatePreferredDownload.
Version(p) ==
    /\ conn[p] = "handshake"
    /\ conn' = [conn EXCEPT ![p] = "open"]
    /\ \/ /\ p \in Preferred
          /\ fPreferredDownload' = fPreferredDownload \union {p}
          /\ nPreferredDownload' = nPreferredDownload + 1
       \/ p \notin Preferred /\ UNCHANGED <<fPreferredDownload, nPreferredDownload>>
    /\ UNCHANGED <<fDisconnect, fSyncStarted, nSyncStarted, bestKnown, lastUnknown, lastCommon,
                   flight, fInitialDownload>>
    /\ UNCHANGED chainVars

\* Any other reason to disconnect: a ban, a socket error, the user.  The message handler
\* may have passed its test of fDisconnect: it still handles a message and calls
\* SendMessages once.  Its reference keeps the node from being finalized meanwhile.
Disconnect(p) ==
    /\ conn[p] \in {"handshake", "open"} /\ p \notin Steady \union fDisconnect
    /\ fDisconnect' = fDisconnect \union {p}
    /\ UNCHANGED <<conn, bestKnown, lastUnknown, lastCommon, flight, fInitialDownload>>
    /\ UNCHANGED nodeVars /\ UNCHANGED chainVars

\* Mutant: mapBlocksInFlight keeps the entries of the peer.
ReleaseNothing(fl, p) == [fl EXCEPT !.list[p] = {}, !.count[p] = 0, !.stalling = @ \ {p}]

\* The peer's entries leave mapBlocksInFlight and its CNodeState is destroyed;
\* nQueuedValidatedHeaders is not adjusted.
Release(fl, p) ==
    [owner |-> Assign(fl, fl.list[p], NoPeer),
     list |-> [fl.list EXCEPT ![p] = {}], count |-> [fl.count EXCEPT ![p] = 0],
     valid |-> fl.valid \ fl.list[p], queued |-> fl.queued,
     stalling |-> fl.stalling \ {p}]

\* Mutant: the peer is never discounted.
DiscountNever(n, counted, p) == n

\* nSyncStarted and nPreferredDownload when the flags of peer p go.
Discount(n, counted, p) == IF p \in counted THEN n - 1 ELSE n

FinalizeNode(p) ==
    /\ p \in fDisconnect
    /\ conn' = [conn EXCEPT ![p] = "gone"] /\ fDisconnect' = fDisconnect \ {p}
    /\ fSyncStarted' = fSyncStarted \ {p}
    /\ nSyncStarted' = Discount(nSyncStarted, fSyncStarted, p)
    /\ fPreferredDownload' = fPreferredDownload \ {p}
    /\ nPreferredDownload' = Discount(nPreferredDownload, fPreferredDownload, p)
    /\ flight' = Release(flight, p)
    /\ bestKnown' = [bestKnown EXCEPT ![p] = NoBlock]
    /\ lastUnknown' = [lastUnknown EXCEPT ![p] = NoBlock]
    /\ lastCommon' = [lastCommon EXCEPT ![p] = NoBlock]
    /\ UNCHANGED fInitialDownload /\ UNCHANGED chainVars
-----------------------------------------------------------------------------
(***************************************************************************)
(* Messages.                                                               *)
(***************************************************************************)
\* Whether an announced block is worth a direct request.
Fetches(p, b) ==
    /\ b \notin mapBlockIndex                              \* AlreadyHave
    /\ ~fInitialDownload
    /\ flight.owner[b] = NoPeer
    /\ flight.count[p] < MaxInTransit

\* "inv" of block b.  The direct request is made only if the tip is recent.
Inv(p, b) ==
    /\ conn[p] = "open"
    /\ b \in Serves[p]
    /\ UpdateBlockAvailability(p, b, mapBlockIndex)
    /\ \/ Fetches(p, b) /\ flight' = MarkBlockAsInFlight(flight, p, b)
       \/ UNCHANGED flight
    /\ UNCHANGED <<conn, fDisconnect, lastCommon, fInitialDownload>>
    /\ UNCHANGED nodeVars /\ UNCHANGED chainVars

\* AcceptBlockHeader accepts b's header.
HeaderKnown(b) ==
    /\ b \notin failed
    /\ b \in mapBlockIndex \/ Parent[b] \in mapBlockIndex \ failed

\* "headers" from s to b: AcceptBlockHeader for each, until one is refused.
Headers(p, s, b) ==
    LET headers == {x \in Ancestors[b] : s \in Ancestors[x]}
        accepted == {x \in headers : HeaderKnown(s) /\ Ancestors[x] \intersect headers \intersect failed = {}}
    IN  /\ conn[p] = "open"
        /\ b \in Serves[p] /\ s \in Ancestors[b]
        /\ mapBlockIndex' = mapBlockIndex \union accepted
        /\ \/ b \in accepted /\ UpdateBlockAvailability(p, b, mapBlockIndex')
           \/ b \notin accepted /\ UNCHANGED <<bestKnown, lastUnknown>>
        /\ UNCHANGED <<conn, fDisconnect, lastCommon, flight, haveData, failed, tip, fInitialDownload>>
        /\ UNCHANGED nodeVars

\* "block": MarkBlockAsReceived, whoever was asked for it, then AcceptBlock and
\* ActivateBestChain.
Block(p, b) ==
    /\ conn[p] = "open" /\ p \notin Mute
    /\ b \in Serves[p] \ {Genesis}
    /\ flight' = MarkBlockAsReceived(flight, b)
    /\ \/ /\ ~HeaderKnown(b) \/ p \notin Steady           \* or CheckBlock refuses the copy
          /\ UNCHANGED chainVars
       \/ /\ HeaderKnown(b)
          /\ mapBlockIndex' = mapBlockIndex \union {b}
          /\ \/ b \in Bad /\ failed' = failed \union {b} /\ UNCHANGED <<haveData, tip>>
             \/ /\ b \notin Bad /\ haveData' = haveData \union {b} /\ UNCHANGED failed
                /\ \E x \in Linked(haveData') :
                      /\ \A y \in Linked(haveData') : ChainWork[y] <= ChainWork[x]
                      /\ ChainWork[x] = ChainWork[tip] => x = tip
                      /\ tip' = x
    /\ UNCHANGED <<conn, fDisconnect, bestKnown, lastUnknown, lastCommon, fInitialDownload>>
    /\ UNCHANGED nodeVars
-----------------------------------------------------------------------------
(***************************************************************************)
(* FindNextBlocksToDownload(p), with `best` as pindexBestKnownBlock.       *)
(***************************************************************************)
Interesting(best) == best # NoBlock /\ ChainWork[best] >= ChainWork[tip]

\* The point both chains share; chainActive[...] is the first guess.
Start(p, best) ==
    LET lower == IF Height(best) < Height(tip) THEN Height(best) ELSE Height(tip)
        guess == IF lastCommon[p] = NoBlock THEN GetAncestor(tip, lower) ELSE lastCommon[p]
    IN  LastCommonAncestor(guess, best)

\* The blocks the walk can reach: up to one past the window, below a failed one.
WindowEnd(s) == Height(s) + DownloadWindow
Path(s, best) ==
    {x \in Ancestors[best] \ Ancestors[s] :
        Height(x) <= WindowEnd(s) + 1 /\ (Ancestors[x] \ Ancestors[s]) \intersect failed = {}}

\* The blocks to ask for, in the order of the walk, and where it ends: with the last
\* of `room` blocks, or past the window.
Missing(s, best) == {x \in Path(s, best) : x \notin haveData /\ flight.owner[x] = NoPeer}
Before(x, S) == {y \in S : y \in Ancestors[x] /\ y # x}
Visited(s, best, room) ==
    {x \in Path(s, best) : Cardinality(Before(x, Missing(s, best))) < room}
ToFetch(s, best, room) ==
    {x \in Missing(s, best) \intersect Visited(s, best, room) : Height(x) <= WindowEnd(s)}

\* Mutant: nChainTx is not looked at.
AdvanceOverGaps(s, best, room) ==
    LET full == {x \in Visited(s, best, room) : x \in haveData} \union {s}
    IN  CHOOSE x \in full : full \subseteq Ancestors[x]

\* pindexLastCommonBlock moves up over the blocks whose ancestors are all stored.
Advance(s, best, room) ==
    LET full == {x \in Visited(s, best, room) : x \in Linked(haveData)} \union {s}
    IN  CHOOSE x \in full : full \subseteq Ancestors[x]

\* Nothing can be asked for, and the window would have to grow: the peer that the
\* first block in flight was asked from.
Staller(p, s, best, room) ==
    LET inFlight == {x \in Path(s, best) : x \notin haveData /\ flight.owner[x] # NoPeer}
        first == {x \in inFlight : inFlight \intersect Ancestors[x] = {x}}
    IN  IF /\ ToFetch(s, best, room) = {}
           /\ \E x \in Missing(s, best) : Height(x) > WindowEnd(s)
        THEN {flight.owner[x] : x \in first} \ {p}
        ELSE {}
-----------------------------------------------------------------------------
(***************************************************************************)
(* SendMessages(p).                                                        *)
(***************************************************************************)
fFetch(p) == p \in fPreferredDownload \/ nPreferredDownload = 0

\* "Start block sync": recent says whether the best header is less than a day old.
StartSync(p, recent) ==
    IF p \notin fSyncStarted /\ (fFetch(p) \/ recent) /\ (nSyncStarted <= 1 \/ recent)
    THEN fSyncStarted' = fSyncStarted \union {p} /\ nSyncStarted' = nSyncStarted + 1
    ELSE UNCHANGED <<fSyncStarted, nSyncStarted>>

\* The request of blocks: the walk, MarkBlockAsInFlight, and the stalling timer.
RequestBlocks(p) ==
    LET best == BestAfter(p, mapBlockIndex)
        room == MaxInTransit - flight.count[p]
        s == Start(p, best)
        fetch == ToFetch(s, best, room)
        late == IF flight.count[p] + Cardinality(fetch) = 0 THEN Staller(p, s, best, room) ELSE {}
    IN  /\ bestKnown' = [bestKnown EXCEPT ![p] = best]
        /\ lastUnknown' = [lastUnknown EXCEPT ![p] = UnknownAfter(p, mapBlockIndex)]
        /\ \/ ~Interesting(best) /\ UNCHANGED <<lastCommon, flight>>
           \/ /\ Interesting(best)
              /\ lastCommon' = [lastCommon EXCEPT ![p] = Advance(s, best, room)]
              /\ flight' = RequestAll(flight, p, fetch, late)

MayRequest(p) ==
    /\ p \notin fDisconnect
    /\ fFetch(p) \/ ~fInitialDownload
    /\ flight.count[p] < MaxInTransit

SendMessages(p) ==
    /\ conn[p] = "open"
    /\ \E recent \in BOOLEAN : StartSync(p, recent)
    /\ \/ MayRequest(p) /\ RequestBlocks(p)
       \/ ~MayRequest(p) /\ UNCHANGED <<bestKnown, lastUnknown, lastCommon, flight>>
    /\ UNCHANGED <<conn, fDisconnect, fPreferredDownload, nPreferredDownload, fInitialDownload>>
    /\ UNCHANGED chainVars

\* Mutant: a preferred peer is given all the time it wants.
SendMessagesTimeoutPatient(p) ==
    /\ conn[p] = "open" /\ p \notin Steady \union fDisconnect \union fPreferredDownload
    /\ p \in flight.stalling \/ flight.list[p] # {}
    /\ \E recent \in BOOLEAN : StartSync(p, recent)
    /\ fDisconnect' = fDisconnect \union {p}
    /\ UNCHANGED <<conn, fPreferredDownload, nPreferredDownload, bestKnown, lastUnknown, lastCommon,
                   flight, fInitialDownload>>
    /\ UNCHANGED chainVars

\* SendMessages when BLOCK_STALLING_TIMEOUT or the timeout of the first block in
\* flight has passed: fDisconnect.
SendMessagesTimeout(p) ==
    /\ conn[p] = "open" /\ p \notin Steady \union fDisconnect
    /\ p \in flight.stalling \/ flight.list[p] # {}
    /\ \E recent \in BOOLEAN : StartSync(p, recent)
    /\ fDisconnect' = fDisconnect \union {p}
    /\ UNCHANGED <<conn, fPreferredDownload, nPreferredDownload, bestKnown, lastUnknown, lastCommon,
                   flight, fInitialDownload>>
    /\ UNCHANGED chainVars

\* IsInitialBlockDownload() becomes false, for good.
LeaveInitialDownload ==
    /\ fInitialDownload /\ fInitialDownload' = FALSE
    /\ UNCHANGED <<conn, fDisconnect, bestKnown, lastUnknown, lastCommon, flight>>
    /\ UNCHANGED nodeVars /\ UNCHANGED chainVars
-----------------------------------------------------------------------------
Next ==
    \/ \E p \in Peers :
          \/ InitializeNode(p) \/ Version(p) \/ Disconnect(p) \/ FinalizeNode(p)
          \/ SendMessages(p) \/ SendMessagesTimeout(p)
          \/ \E b \in Blocks : Inv(p, b) \/ Block(p, b) \/ \E s \in Blocks : Headers(p, s, b)
    \/ LeaveInitialDownload

Spec == Init /\ [][Next]_vars

\* Timers expire and closed connections are finalized.  A steady peer connects, the message
\* handler visits it, also if the best header never gets recent, and it sends the headers and
\* blocks it is asked for.
FairSpec ==
    /\ Spec
    /\ \A p \in Peers \ Steady : WF_vars(SendMessagesTimeout(p)) /\ WF_vars(FinalizeNode(p))
    /\ \A p \in Steady :
          /\ WF_vars(InitializeNode(p)) /\ WF_vars(Version(p))
          /\ WF_vars(SendMessages(p) /\ StartSync(p, FALSE))
          /\ WF_vars(p \in fSyncStarted /\ Headers(p, Genesis, Chain[p]))
          /\ WF_vars(\E b \in flight.list[p] : Block(p, b))
-----------------------------------------------------------------------------
\* The peers that have a CNodeState.
Connected == {p \in Peers : conn[p] \in {"handshake", "open"}}

\* Types.
TypeOK ==
    /\ conn \in [Peers -> {"new", "handshake", "open", "gone"}] /\ fDisconnect \subseteq Connected
    /\ fPreferredDownload \subseteq Peers /\ nPreferredDownload \in Nat
    /\ fSyncStarted \subseteq Peers /\ nSyncStarted \in Nat
    /\ bestKnown \in [Peers -> Blocks \union {NoBlock}]
    /\ lastUnknown \in [Peers -> Blocks \union {NoBlock}]
    /\ lastCommon \in [Peers -> Blocks \union {NoBlock}]
    /\ flight \in FlightType
    /\ mapBlockIndex \subseteq Blocks /\ haveData \subseteq mapBlockIndex
    /\ failed \subseteq mapBlockIndex /\ tip \in haveData
    /\ fInitialDownload \in BOOLEAN

\* mapBlocksInFlight and the lists of the peers agree, whoever delivers, announces or
\* disconnects: a block is asked from at most one peer, that peer's CNodeState exists
\* (State() is dereferenced without a test) and its counter is right.
InFlightConsistent ==
    /\ \A b \in Blocks, p \in Peers : b \in flight.list[p] <=> flight.owner[b] = p
    /\ \A p \in Peers : flight.count[p] = Cardinality(flight.list[p])
    /\ \A b \in Blocks : flight.owner[b] # NoPeer => flight.owner[b] \in Connected

\* No peer is asked for more than MAX_BLOCKS_IN_TRANSIT_PER_PEER blocks.
TransitLimit == \A p \in Peers : flight.count[p] <= MaxInTransit

\* The books of the blocks in flight: right, and within the limit.
InFlightExact == InFlightConsistent /\ TransitLimit

\* A stalling timer runs only for a peer that owes a block, so no peer is
\* disconnected as a staller after it has delivered.
StallersOweBlocks == \A p \in flight.stalling : flight.list[p] # {}

\* "Number of preferable block download peers" and "Number of nodes with fSyncStarted".
PeerCountersExact ==
    /\ nPreferredDownload = Cardinality(fPreferredDownload)
    /\ nSyncStarted = Cardinality(fSyncStarted)
    /\ fPreferredDownload \union fSyncStarted \subseteq Connected

\* "The last full block we both have": everything below pindexLastCommonBlock is stored.
LastCommonFull ==
    \A p \in Peers : lastCommon[p] # NoBlock => Ancestors[lastCommon[p]] \subseteq haveData

\* "Number of blocks in flight with validated headers."
QueuedExact == flight.queued = Cardinality(flight.valid)

\* The peers that the headers sync was started with are enough: p is not asked.
NotAsked(p) == p \notin fSyncStarted /\ Cardinality(fSyncStarted) >= 2

\* A steady preferred peer's chain is downloaded, whatever mute or disconnecting peers have
\* been asked for before, unless two others hold the headers sync, for which there is no
\* timeout.
ChainArrives ==
    \A p \in Steady \intersect Preferred :
        <>(Ancestors[Chain[p]] \subseteq haveData) \/ []<>NotAsked(p)

\* "to minimize the likelihood of downtime": its chain is downloaded whoever holds the sync.
\* It does not hold (README, section 6).
ChainAlwaysArrives == \A p \in Steady \intersect Preferred : <>(Ancestors[Chain[p]] \subseteq haveData)
=============================================================================
