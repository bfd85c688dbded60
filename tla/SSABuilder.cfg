SPECIFICATION FairSpec
CONSTANTS
    Programs <- MCPrograms
    Trees <- MCTrees
    Args = {0, 1}
INVARIANTS
    CompiledAsWritten
    NeverStuck
    RegionsBalanced
    PhisSuffice
PROPERTY
    Terminates
CHECK_DEADLOCK FALSE
