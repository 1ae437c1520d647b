CONSTANTS
    t1 = t1
    t2 = t2
    c1 = c1
    c2 = c2
    Pruned = Pruned
    Genesis = Genesis
    h1 = h1
    h2 = h2
    NoHash = NoHash
    Txids = {t1, t2}
    Coins = {Pruned, c1, c2}
    Hashes = {Genesis, h1, h2}
    MaxFailures = 1
SPECIFICATION Spec
INVARIANTS FlagsRight ParentHasEntry StateOfBest
PROPERTIES RefinesViews
SYMMETRY Symmetry
