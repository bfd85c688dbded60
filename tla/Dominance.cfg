SPECIFICATION FairSpec
CONSTANTS
    N = 4
    NoBlock = none
INVARIANTS
    DominatorsExact
    IdomIsTree
    FrontierExact
PROPERTY
    Terminates
CHECK_DEADLOCK FALSE
