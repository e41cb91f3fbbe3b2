SPECIFICATION Spec
CONSTANTS
    Messages <- MCMessages
    MaxRecv = 3
INVARIANTS
    RequestUnderstood
    GetIsReadWhole
    ResponseUnderstood
    AddressUnderstood
CHECK_DEADLOCK FALSE
