CONSTANTS
    Addr <- MCAddr
    Keys <- MCKeys
    Values = {0, 1}
    Amounts = {0, 1}
    Unset = Unset
    Senders = {"user"}
    Creatable = {"child"}
    Backends <- MCBackends
    MaxDepth = 4
    MaxOps = 4
    MaxTxs = 2
SPECIFICATION Spec
INVARIANTS
    TypeOK
    EmptyAsShown
PROPERTIES
    ImplementsStateStack
    AppliedAsShown
CHECK_DEADLOCK FALSE
