CONSTANTS
    root = root
    a = a
    b = b
    c = c
    k = k
    l = l
    o = o
    p = p
    Node <- MCNode
    Root = root
    parent <- MCParent
    above <- MCAbove
    firstKind <- MCKind
    target <- MCTarget
    Nowhere = Nowhere
    ArraySize = 2
    MaxChanges = 2
SPECIFICATION FairSpec
INVARIANTS EndsWithNull  ListingIsComplete CalmDestroys
PROPERTIES OutsideIsKept
CHECK_DEADLOCK FALSE
