SPECIFICATION Spec
CONSTANTS
    Worker = {w1, w2}
    Main = Main
    Factors <- MCFactors
    Recommended = 1667
    MaxAsk = 2
    MaxLogin = 2
    MaxFail = 1
INVARIANTS
    TypeOK
    PlacesAgree
PROPERTIES
    ShownFits
CHECK_DEADLOCK FALSE
