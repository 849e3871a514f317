CONSTANTS
    Width = 4
    CounterWidth = 2
    DriveSz = 4
    SzOfPg = 1
    SzOfBlk = 2
    MapLen = 3
    PageIn <- MCPageInWrap
    BlockIn <- MCBlockIn
    SizeIn <- MCSizeIn
    Data = {a, b}
    Erased = Erased
SPECIFICATION Spec
INVARIANT AccessAsRequested

