SPECIFICATION AllocSpec
CONSTANTS
    x = x
    y = y
    z = z
    w = w
    Var = {x, y, z, w}
    None = none
    NoReg = noReg
    Functions0 <- MCFunctions
    availableGPRs <- OneGPR
    availableFPRs <- TwoFPRs
INVARIANTS
    IntervalsCoverLiveness
    NoClash
    OnePlaceEach
    RegistersConserved
    SpillsJustified
PROPERTY Terminates
CHECK_DEADLOCK FALSE
