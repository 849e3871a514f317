CONSTANTS
    FirmwareKey = fw
    Keys = {fw, kern, evil}
    NoKey = NoKey
SPECIFICATION Spec
INVARIANT ChainSound
PROPERTY ImplementsVerifyKernel
