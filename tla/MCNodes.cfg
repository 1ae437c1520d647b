SPECIFICATION Spec
CONSTANTS
    x1 = x1
    x2 = x2
    Nodes <- MCNodes
    NoNode = NoNode
    Openers = {t}
    Services = {1}
    NoService = 0
    Addr <- MCAddr
    MaxOutbound = 1
INVARIANTS
    RefsExact
    NoUseAfterDelete
    SlotsExact
PROPERTY
    ReleasedAreDeleted
