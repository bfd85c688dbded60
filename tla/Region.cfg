SPECIFICATION Spec
CONSTANTS
    RootBytes = 12
    SizeT = 64
    ChildBytes = 4
    RegionObject = 1
    CacheLine = 4
    Word = 2
    SlabSizes <- MCSlabSizes
    Requests = {3, 4, 5, 47}
    Alignments = {2, 4}
    MaxRegions = 3
INVARIANTS
    NoOverlap
    InsideBuffer
    ChunksFree
    ChildBufferExclusive
