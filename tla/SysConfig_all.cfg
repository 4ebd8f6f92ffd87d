SPECIFICATION FairSpec
CONSTANTS
    Session = {s1, s2}
    Nobody = Nobody
    First = s1
    Worker = {1}
    CanFail = TRUE
    MaxWrite = 2
    MaxSwitch = 1
INVARIANTS
    TypeOK
    StampIdentifies
    UpToDate
    AppliedWhatChanged
PROPERTIES
    NoOldValueSaved
    ImplementsSharedConfig
    Converges
CHECK_DEADLOCK FALSE
