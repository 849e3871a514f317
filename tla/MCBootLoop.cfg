CONSTANTS
    Medium = "gpt"
    N = 2
    MaxPrio = 2
    MaxTries = 1
    FirmwareKey = "fw"
    Keys = {"fw", "kern", "evil"}
    NoKey = "none"
    Images <- MCImages

SPECIFICATION BootSpec

INVARIANT RecoveryOnlyWithoutGoodKernel
PROPERTY BootAttemptEnds
PROPERTY ImplementsAtomicVerify
