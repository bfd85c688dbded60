SPECIFICATION FairSpec
CONSTANTS
    Stem <- MCStem
    SearchPaths <- MCSearchPaths
    Root <- MCRoot
    FileSystems <- MCFileSystems
    CHeader = CHeader
INVARIANTS
    VisitingIsStack
    MergedOnceInOrder
    VerdictIsRight
PROPERTY
    Terminates
CHECK_DEADLOCK FALSE
