CONSTANTS
    Medium = "gpt"
    N = 3
    MaxPrio = 2
    MaxTries = 2

SPECIFICATION Spec

INVARIANT TypeOK
INVARIANT OfferOrder
INVARIANT NoKernelSkipped
INVARIANT MirrorAndModified
PROPERTY AttributesOnlyDecay
