CONSTANTS
    s1 = s1
    s2 = s2
    s3 = s3
    s4 = s4
    NoSession = NoSession
    Slots <- FourSlots
    IDBits = 2
    maxIDtries = 16

SPECIFICATION Spec

INVARIANT SessionMapExact
