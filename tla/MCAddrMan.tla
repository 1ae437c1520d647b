----------------------------- MODULE MCAddrMan -----------------------------
EXTENDS AddrMan

\* News from address 1 goes to bucket n1, where everyone has the first place; news from the
\* others to n2, where, as in the tried bucket, the port decides on the place (but not for
\* an I2P address, which has the first one).
MCAddrs == {1, 2, 3}
MCNewBuckets == {"n1", "n2"}
MCTriedBuckets == {"t"}
MCGetNewBucket(a, src) == IF src = 1 THEN "n1" ELSE "n2"
MCGetTriedBucket(a, p) == "t"
MCGetBucketPosition(a, p, b) == IF a \in I2pAddrs \/ b = "n1" THEN 1 ELSE p
=============================================================================
