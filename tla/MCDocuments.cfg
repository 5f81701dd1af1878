\* Three requests that overlap, one fault; uploads of every short text.
CONSTANTS
    r1 = r1
    r2 = r2
    r3 = r3
    f = f
    g = g
    Requests = {r1, r2, r3}
    Files = {f, g}
    Contents <- AllContents
    Plans <- AllPlans
    MaxRows = 3
    MaxFaults = 1
    MaxChunkChars = 4
    OverlapChars = 1
SPECIFICATION Spec
INVARIANTS
    TypeOK
    ChunksMatchRows
    ObjectsAccountedFor
    ChunksCoverText
CHECK_DEADLOCK FALSE
