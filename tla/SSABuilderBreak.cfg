SPECIFICATION Spec
CONSTANTS
    Programs <- BreakPrograms
    Trees <- MCTrees
    Args = {0, 1}
INVARIANT
    CompiledAsWritten
CHECK_DEADLOCK FALSE
