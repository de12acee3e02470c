CONSTANTS
    d = d
    e1 = e1
    e2 = e2
    t = t
    x = x
    f = f
    a1 = a1
    a2 = a2
    NIL = NIL
    Nodes <- MCNodes
    AttrNodes <- MCAttrNodes
    NodeKind <- MCNodeKind

SPECIFICATION SpecMove

INVARIANT ParentsAcyclic
CHECK_DEADLOCK FALSE
