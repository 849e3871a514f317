CONSTANTS
    FirmwareKey = fw
    Keys = {fw, kern, evil}
    NoKey = NoKey
    KeySignatureChecked <- KeySignatureCheckedInDevMode
SPECIFICATION Spec
INVARIANT ChainSound
