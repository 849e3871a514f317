CONSTANTS
    t1 = t1
    t2 = t2
    t3 = t3
    f1 = f1
    f2 = f2
    Tables <- MCTables
    Fields <- MCFields
    Misplaced <- MCMisplaced
    T0 = t1
    F0 = f1

SPECIFICATION Spec

INVARIANT SpecCrossProduct
