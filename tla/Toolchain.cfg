SPECIFICATION Spec
CONSTANTS
    ByteBits = 2
    Signatures <- MCSignatures
    Jobs <- MCJobs
    Top = 100008
    Fuel = 300
INVARIANTS
    RunsAsMeant
    StackDiscipline
    LocalsApart
    ExitHonest
PROPERTY Finishes
