SPECIFICATION FairSpec
CONSTANTS
    Monitor = {1, 2}
    Builtin = 2
    First = {{1, 2}}
    Caller = {"c"}
    Timer = {"t"}
    Asked = {"mirror", "extend", "only", "other"}
    CanFail = TRUE
    MaxPlug = 2
    MaxCall = 1
PROPERTIES
    Honoured
CHECK_DEADLOCK FALSE
