------------------------------ MODULE AddrMan ------------------------------
(***************************************************************************)
(* The address manager (src/src/addrman.cpp, src/src/addrman.h): the table *)
(* of known addresses, the buckets of new ones and of tried ones, the      *)
(* random order and the index by I2P hash, under Add_, Good_, GetAddr_ and *)
(* a restart from peers.dat.  Every operation holds CAddrMan::cs.          *)
(*                                                                         *)
(* An nId is used once and mapAddr leads from an address to its nId, so    *)
(* that an entry is named by its address here; of mapI2pHashes it is kept  *)
(* whether it has the nId of the present entry or that of an earlier one.  *)
(* Times, services and attempts are left out: what depends on them (is the *)
(* news recent, is an entry terrible) is a free choice.  The bucket        *)
(* functions are keyed hashes and so are constants.                        *)
(***************************************************************************)
EXTENDS Integers, Sequences, FiniteSets

CONSTANTS
    Addrs, I2pAddrs,             \* CNetAddr: all, and the I2P destinations among them
    Sources,                     \* the peers, by address, that tell of addresses
    Ports, NoAddr,               \* an empty slot
    NewBuckets, TriedBuckets, BucketSize,
    GetNewBucket(_, _),          \* of an address and a source
    GetTriedBucket(_, _),        \* of an address and a port: CService::GetKey has the port ...
    GetBucketPosition(_, _, _),  \* ... of an address, a port and a bucket; not for I2P
    MaxRefs                      \* ADDRMAN_NEW_BUCKETS_PER_ADDRESS

ASSUME AddrAssumption ==
    /\ IsFiniteSet(Addrs) /\ I2pAddrs \subseteq Addrs /\ Sources \subseteq Addrs /\ NoAddr \notin Addrs
    /\ IsFiniteSet(NewBuckets) /\ NewBuckets \intersect TriedBuckets = {}
    /\ Ports # {} /\ BucketSize \in Nat \ {0} /\ MaxRefs \in Nat \ {0}
    /\ Sources # {} /\ \A a \in Addrs, src \in Sources : GetNewBucket(a, src) \in NewBuckets
    /\ \A a \in Addrs, p \in Ports :
        /\ GetTriedBucket(a, p) \in TriedBuckets
        /\ \A b \in NewBuckets \union TriedBuckets : GetBucketPosition(a, p, b) \in 1..BucketSize
    /\ \A a \in I2pAddrs, p, q \in Ports :
        /\ GetTriedBucket(a, p) = GetTriedBucket(a, q)
        /\ \A b \in NewBuckets \union TriedBuckets :
            GetBucketPosition(a, p, b) = GetBucketPosition(a, q, b)

VARIABLE
    am    \* the members of CAddrMan; am.ok is false once an assertion has failed, and an
          \* entry's moved, a history, true once its port has changed in the tables

addrVars == <<am>>

NewSlots == NewBuckets \X (1..BucketSize)
TriedSlots == TriedBuckets \X (1..BucketSize)

\* CAddrInfo, in mapInfo if known.
Infos == [known : BOOLEAN, port : Ports, source : Sources, refs : Nat, tried : BOOLEAN, pos : Nat,
          moved : BOOLEAN]
AddrMen ==
    [info : [Addrs -> Infos], random : Seq(Addrs),
     new : [NewSlots -> Addrs \union {NoAddr}], tried : [TriedSlots -> Addrs \union {NoAddr}],
     nNew : Nat, nTried : Nat,
     b32 : [I2pAddrs -> {"none", "current", "stale"}], ok : BOOLEAN]

Unknown == [known |-> FALSE, port |-> CHOOSE p \in Ports : TRUE, source |-> CHOOSE a \in Sources : TRUE,
            refs |-> 0, tried |-> FALSE, pos |-> 0, moved |-> FALSE]

Cleared ==
    [info |-> [a \in Addrs |-> Unknown], random |-> <<>>,
     new |-> [s \in NewSlots |-> NoAddr], tried |-> [s \in TriedSlots |-> NoAddr],
     nNew |-> 0, nTried |-> 0, b32 |-> [a \in I2pAddrs |-> "none"], ok |-> TRUE]

AddrInit == am = Cleared
-----------------------------------------------------------------------------
(***************************************************************************)
(* The operations on the tables; each takes the members and gives the new  *)
(* ones.                                                                   *)
(***************************************************************************)
Assert(s, cond) == [s EXCEPT !.ok = @ /\ cond]

NewSlot(s, a, src) ==
    LET b == GetNewBucket(a, src) IN <<b, GetBucketPosition(a, s.info[a].port, b)>>
TriedSlot(s, a) ==
    LET b == GetTriedBucket(a, s.info[a].port) IN <<b, GetBucketPosition(a, s.info[a].port, b)>>

\* The buckets in which MakeTried and Good_ look for a: by its present port.
BucketsOf(s, a) == {b \in NewBuckets : s.new[<<b, GetBucketPosition(a, s.info[a].port, b)>>] = a}

\* SetPort; the places in the tables stay as they are.
SetPort(s, a, port) ==
    [s EXCEPT !.info[a].port = port, !.info[a].moved = @ \/ port # s.info[a].port]

\* Positions count from 1 here.  The hash of an earlier entry of the destination stays.
Create(s, a, port, src) ==
    [s EXCEPT !.info[a] = [known |-> TRUE, port |-> port, source |-> src,
                           refs |-> 0, tried |-> FALSE, pos |-> Len(s.random) + 1, moved |-> FALSE],
              !.random = Append(@, a),
              !.b32 = [x \in I2pAddrs |-> IF x = a /\ @[x] = "none" THEN "current" ELSE @[x]]]

SwapRandom(s, i, j) ==
    [s EXCEPT !.random = [@ EXCEPT ![i] = s.random[j], ![j] = s.random[i]],
              !.info = [@ EXCEPT ![s.random[i]].pos = j, ![s.random[j]].pos = i]]

\* The hash of a deleted entry keeps its nId, which is used no more.
Delete(s, a) ==
    LET c == Assert(s, s.info[a].known /\ ~s.info[a].tried /\ s.info[a].refs = 0)
        w == SwapRandom(c, s.info[a].pos, Len(s.random))
    IN  [w EXCEPT !.random = SubSeq(@, 1, Len(@) - 1), !.info[a] = Unknown, !.nNew = @ - 1,
                  !.b32 = [x \in I2pAddrs |-> IF x = a /\ @[x] = "current" THEN "stale" ELSE @[x]]]

CheckAndDeleteB32Hash(s, a) ==
    [s EXCEPT !.b32 = [x \in I2pAddrs |-> IF x = a /\ @[x] = "current" THEN "none" ELSE @[x]]]

ClearNew(s, slot) ==
    LET a == s.new[slot]
        c == [Assert(s, s.info[a].refs > 0) EXCEPT !.info[a].refs = @ - 1, !.new[slot] = NoAddr]
    IN  IF a = NoAddr THEN s
        ELSE IF c.info[a].refs = 0 THEN Delete(CheckAndDeleteB32Hash(c, a), a) ELSE c

\* Mutant: the evicted entry is not counted as new again.
EvictUncounted(s, slot) ==
    LET e == s.tried[slot]
        out == [s EXCEPT !.info[e].tried = FALSE, !.tried[slot] = NoAddr, !.nTried = @ - 1]
        to == NewSlot(out, e, out.info[e].source)
    IN  IF e = NoAddr THEN s
        ELSE [ClearNew(out, to) EXCEPT !.info[e].refs = 1, !.new[to] = e]

\* An entry leaves the tried table for the new one, over whatever is there.
Evict(s, slot) ==
    LET e == s.tried[slot]
        out == [s EXCEPT !.info[e].tried = FALSE, !.tried[slot] = NoAddr, !.nTried = @ - 1]
        to == NewSlot(out, e, out.info[e].source)
    IN  IF e = NoAddr THEN s
        ELSE [ClearNew(out, to) EXCEPT !.info[e].refs = 1, !.new[to] = e, !.nNew = @ + 1]

MakeTried(s, a) ==
    LET from == {<<b, GetBucketPosition(a, s.info[a].port, b)>> : b \in BucketsOf(s, a)}
        out == [s EXCEPT !.new = [x \in NewSlots |-> IF x \in from THEN NoAddr ELSE @[x]],
                         !.info[a].refs = @ - Cardinality(from), !.nNew = @ - 1]
        c == Assert(out, out.info[a].refs = 0)
        slot == TriedSlot(s, a)
    IN  [Evict(c, slot) EXCEPT !.tried[slot] = a, !.nTried = @ + 1, !.info[a].tried = TRUE]
-----------------------------------------------------------------------------
(***************************************************************************)
(* Add_.                                                                   *)
(***************************************************************************)
\* The node itself tells its port; that of another is not believed.
WithPort(s, a, port, src) ==
    IF s.info[a].known /\ src = a THEN SetPort(s, a, port) ELSE s

\* Mutant: the entry in the slot is overwritten without ClearNew.
PlaceOver(s, a, src, terrible) ==
    LET slot == NewSlot(s, a, src)
        x == s.new[slot]
    IN  IF x = a THEN s
        ELSE IF x = NoAddr \/ terrible \/ (s.info[x].refs > 1 /\ s.info[a].refs = 0)
             THEN [s EXCEPT !.info[a].refs = @ + 1, !.new[slot] = a]
        ELSE IF s.info[a].refs = 0 THEN Delete(s, a) ELSE s

\* The last part: a place in the new table, taken from another entry only if that one is
\* terrible or has more.
Place(s, a, src, terrible) ==
    LET slot == NewSlot(s, a, src)
        x == s.new[slot]
    IN  IF x = a THEN s
        ELSE IF x = NoAddr \/ terrible \/ (s.info[x].refs > 1 /\ s.info[a].refs = 0)
             THEN [ClearNew(s, slot) EXCEPT !.info[a].refs = @ + 1, !.new[slot] = a]
        ELSE IF s.info[a].refs = 0 THEN Delete(s, a) ELSE s

\* An address that is not in the table.
AddNew(a, port, src, terrible) ==
    /\ am.ok /\ ~am.info[a].known
    /\ am' = Place([Create(am, a, port, src) EXCEPT !.nNew = @ + 1], a, src, terrible)

\* A known one that is given no new place (there is nothing new, it is in the tried table,
\* in enough buckets, or not lucky): what it tells of itself counts.
AddKnown(a, port) ==
    /\ am.ok /\ a \in Sources /\ am.info[a].known
    /\ am' = WithPort(am, a, port, a)

\* One that is given one more place.
AddAgain(a, port, src, terrible) ==
    /\ am.ok /\ am.info[a].known /\ ~am.info[a].tried /\ am.info[a].refs # MaxRefs
    /\ am' = Place(WithPort(am, a, port, src), a, src, terrible)
-----------------------------------------------------------------------------
\* Good_: the address answered, on this port.
Good(a, port) ==
    LET s == SetPort(am, a, port)
    IN  /\ am.ok /\ am.info[a].known
        /\ am' = IF s.info[a].tried \/ BucketsOf(s, a) = {} THEN s ELSE MakeTried(s, a)

\* A turn of GetAddr_.
GetAddr(i, j) ==
    /\ am.ok /\ i < j
    /\ am' = SwapRandom(am, i, j)

(***************************************************************************)
(* Serialize, a restart (after a crash with an older peers.dat: then the   *)
(* state is that of a restart at that time), and Unserialize: places are   *)
(* found anew, an entry that finds its place taken loses it, and a new one *)
(* without a place is dropped.  Which tried entry is lost to another, and  *)
(* the order in vRandom, depend on the nIds: any.                          *)
(***************************************************************************)
\* The first entry of bucket b that belongs at position p now.
FirstAt(b, p) ==
    LET old == {q \in 1..BucketSize : LET a == am.new[<<b, q>>]
                                      IN a # NoAddr /\ GetBucketPosition(a, am.info[a].port, b) = p}
    IN  IF old = {} THEN NoAddr ELSE am.new[<<b, CHOOSE q \in old : \A r \in old : q <= r>>]

\* An entry that is read: its places are those of its present port.
ReadBack(a, refs, order) ==
    [am.info[a] EXCEPT !.refs = refs, !.moved = FALSE, !.pos = CHOOSE i \in DOMAIN order : order[i] = a]

Restart(lost, order) ==
    LET new == [s \in NewSlots |-> FirstAt(s[1], s[2])]
        held == [a \in Addrs |-> Cardinality({s \in NewSlots : new[s] = a})]
        in == {a \in Addrs \ lost : am.info[a].tried}
        at(s) == {a \in in : TriedSlot(am, a) = s}
        read == {a \in Addrs \ lost : am.info[a].known}
        kept == {a \in read : a \in in \/ held[a] > 0}
    IN  /\ am.ok
        /\ \A a \in lost : am.info[a].tried /\ at(TriedSlot(am, a)) # {}
        /\ \A a, b \in in : TriedSlot(am, a) = TriedSlot(am, b) => a = b
        /\ {order[i] : i \in DOMAIN order} = kept
        /\ am' = [info |-> [a \in Addrs |-> IF a \notin kept THEN Unknown
                                            ELSE ReadBack(a, held[a], order)],
                  random |-> order, new |-> new,
                  tried |-> [s \in TriedSlots |-> IF at(s) = {} THEN NoAddr ELSE CHOOSE a \in at(s) : TRUE],
                  nNew |-> Cardinality(kept \ in), nTried |-> Cardinality(in),
                  b32 |-> [a \in I2pAddrs |-> IF a \in kept THEN "current"
                                              ELSE IF a \in read THEN "stale" ELSE "none"],
                  ok |-> TRUE]

Orders == {f \in UNION {[1..n -> Addrs] : n \in 0..Cardinality(Addrs)} :
            \A i, j \in DOMAIN f : f[i] = f[j] => i = j}

AddrNext ==
    \/ \E a \in Addrs, src \in Sources, port \in Ports, terrible \in BOOLEAN :
        AddNew(a, port, src, terrible) \/ AddAgain(a, port, src, terrible)
    \/ \E a \in Addrs, port \in Ports : AddKnown(a, port) \/ Good(a, port)
    \/ \E i, j \in 1..Len(am.random) : GetAddr(i, j)
    \/ \E lost \in SUBSET {a \in Addrs : am.info[a].tried}, order \in Orders : Restart(lost, order)

AddrSpec == AddrInit /\ [][AddrNext]_addrVars
-----------------------------------------------------------------------------
(***************************************************************************)
(* Properties.                                                             *)
(***************************************************************************)
AddrTypeOK == am \in AddrMen

\* Check_: nRefCount is the number of places of an entry in the new table; one that is
\* known has such a place or is in the tried table, in one place, and never both.
PlacesExact ==
    am.ok => \A a \in Addrs :
        LET places == {s \in NewSlots : am.new[s] = a}
            triedPlaces == {s \in TriedSlots : am.tried[s] = a}
        IN  /\ am.info[a].refs = Cardinality(places) /\ am.info[a].refs <= MaxRefs
            /\ Cardinality(triedPlaces) = (IF am.info[a].tried THEN 1 ELSE 0)
            /\ am.info[a].known <=> (places # {} \/ triedPlaces # {})
            /\ am.info[a].tried => places = {}

\* Check_: nNew and nTried count the two kinds of entry, so that Serialize's assertions hold
\* and Select_, which searches a table as long as its count is positive, finds an entry.
CountsExact ==
    am.ok => /\ am.nTried = Cardinality({a \in Addrs : am.info[a].tried})
             /\ am.nNew = Cardinality({a \in Addrs : am.info[a].known /\ ~am.info[a].tried})

\* Check_: vRandom lists every known entry once, at the place the entry remembers.
RandomExact ==
    am.ok => /\ Len(am.random) = Cardinality({a \in Addrs : am.info[a].known})
             /\ \A a \in Addrs : am.info[a].known =>
                    am.info[a].pos \in 1..Len(am.random) /\ am.random[am.info[a].pos] = a

\* Check_, -17 to -19: an entry is where the hashes of its address and port put it, unless
\* its port has changed while it was in the tables; for an I2P destination, always.
PositionsExact ==
    am.ok => \A a \in Addrs : (am.info[a].moved => a \in I2pAddrs) =>
        /\ \A s \in NewSlots : am.new[s] = a => s[2] = GetBucketPosition(a, am.info[a].port, s[1])
        /\ \A s \in TriedSlots : am.tried[s] = a => s = TriedSlot(am, a)

\* Check_, but for its conditions on times (-1, -6, -8) and on nKey (-16), which are no part
\* of the model, and for the positions of entries whose port has changed.
Check == AddrTypeOK /\ PlacesExact /\ CountsExact /\ RandomExact /\ PositionsExact

\* "assert(info.nRefCount == 0)" in MakeTried and the other assertions on the tables.  It does
\* not hold (README, section 6).
NoAssertFails == am.ok

\* The assertions of Delete, ClearNew and MakeTried fail only in a call of Good_, and only for
\* an entry whose positions depend on its port (not for an I2P destination) and whose port
\* has changed since it got its places.
OnlyGoodFails ==
    [][am'.ok \/ \E a \in Addrs \ I2pAddrs, port \in Ports :
                    Good(a, port) /\ (am.info[a].moved \/ port # am.info[a].port)]_addrVars

\* The index of hashes: an entry whose destination has no hash of an earlier entry has its
\* own, and no hash has the nId of an entry that is not there as that of the present one.
HashesExact ==
    am.ok => \A a \in I2pAddrs : am.b32[a] # "stale" => (am.b32[a] = "current" <=> am.info[a].known)

\* "b32.i2p addresses are simply the hash of those addresses, so we should be able to look
\* them up here": LookupB32addr finds every I2P destination in the table, and what
\* CopyDestinationStats asserts.  It does not hold (README, section 6).
LookupFinds == am.ok => \A a \in I2pAddrs : am.b32[a] = (IF am.info[a].known THEN "current" ELSE "none")
=============================================================================
