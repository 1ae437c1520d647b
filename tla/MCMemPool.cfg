SPECIFICATION MinerSpec
CONSTANTS
    Txs <- MCTxs
    Coinbases <- MCCoinbases
    Vin <- MCVin
    Vout <- MCVout
    Height <- MCHeight
    BadTxs = {"e"}
    NoTx = NoTx
    COINBASE_MATURITY = 2
    MaxHeight = 5
    MaxBlockTxs = 3
    Peers = {p, q}
    NoPeer = NoPeer
    MaxOrphanTxs = 2
INVARIANTS
    NextTxExact
    PoolFollowsChain
    UndoExact
    OrphansExact
    TemplateSound
PROPERTIES
    LeavesForCause
    DependentsReconsidered
