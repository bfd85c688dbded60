SPECIFICATION Spec
CONSTANTS
    Targets <- MCTargets
    KernelBytes = 5
INVARIANT KernelReached
