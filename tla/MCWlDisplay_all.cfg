SPECIFICATION Spec
CONSTANTS
    Monitor = {1, 2}
    Kind <- MCKind
    Modes <- MCModes
    Pos <- MCPos
    Name = {"n1", "n2"}
    Caller = {c1}
    Main = Main
    Loop = Loop
    First <- MCFirst
    LastPrimary = {0, 1}
    Custom <- MCCustom
    Asked = {"switch", "edit", "primary", "name"}
    MaxCall = 2
    MaxOther = 2
    MaxEvent = 3
INVARIANTS
    TypeOK
    Agrees
    Honoured
PROPERTIES
    Joined
CHECK_DEADLOCK FALSE
