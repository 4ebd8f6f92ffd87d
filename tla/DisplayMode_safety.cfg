SPECIFICATION Spec
CONSTANTS
    Monitor = {1, 2, 3}
    Builtin = 2
    First = {{1, 2}}
    Caller = {"c"}
    Timer = {"t"}
    Asked = {"extend", "only", "other"}
    CanFail = FALSE
    MaxPlug = 2
    MaxCall = 2
INVARIANTS
    TypeOK
    ModesAgree
    ShownAgrees
CHECK_DEADLOCK FALSE
