SPECIFICATION AddrSpec
CONSTANTS
    Addrs <- MCAddrs
    I2pAddrs = {3}
    Sources = {1, 2}
    Ports = {1, 2}
    NoAddr = NoAddr
    NewBuckets <- MCNewBuckets
    TriedBuckets <- MCTriedBuckets
    BucketSize = 2
    GetNewBucket <- MCGetNewBucket
    GetTriedBucket <- MCGetTriedBucket
    GetBucketPosition <- MCGetBucketPosition
    MaxRefs = 2
INVARIANT
    Check
PROPERTY
    OnlyGoodFails
CHECK_DEADLOCK FALSE
