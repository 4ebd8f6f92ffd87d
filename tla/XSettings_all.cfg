SPECIFICATION FairSpec
CONSTANTS
    Caller = {c1, c2}
    Loop = Loop
    Bad = Bad
    CanFail = TRUE
    MaxSet = 2
    MaxWrite = 1
INVARIANTS
    TypeOK
    Agrees
PROPERTIES
    NumbersGrow
    Settles
CHECK_DEADLOCK FALSE
