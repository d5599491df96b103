SPECIFICATION FairSpec
CONSTANTS
    Paths <- Files
    Position <- FilesInOrder
    Versions <- Texts
    Size <- ChunkCounts
    Rejected = {"refused"}
    Ingestors = {i1, i2}
    None = None
    MaxEdits = 1
    MaxFaults = 1
CHECK_DEADLOCK FALSE
INVARIANTS IndexIsSound
PROPERTY CatchesUp
