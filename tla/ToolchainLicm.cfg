SPECIFICATION Spec
CONSTANTS
    ByteBits = 2
    Signatures <- MCSignatures
    Jobs <- ZeroTripJobs
    Top = 100008
    Fuel = 300
INVARIANT RunsAsMeant
