\* Uploads of every short text: what the tests of chunking.ts say of it.
CONSTANTS
    r1 = r1
    r2 = r2
    r3 = r3
    f = f
    g = g
    Requests = {r1, r2, r3}
    Files = {f, g}
    Contents <- AllContents
    Plans <- LoosePlans
    MaxRows = 1
    MaxFaults = 0
    MaxChunkChars = 4
    OverlapChars = 1
SPECIFICATION Spec
INVARIANT NothingLost
CHECK_DEADLOCK FALSE
