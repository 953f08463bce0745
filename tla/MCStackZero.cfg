CONSTANTS
    Addr <- MCAddr
    Keys <- MCKeys
    Values = {0, 1}
    Amounts = {0, 1}
    Unset = Unset
    Senders = {"user"}
    Creatable = {"child"}
    Backends <- MCBackends
    MaxDepth = 3
    MaxOps = 3
    MaxTxs = 1
SPECIFICATION Spec
PROPERTIES
    ZeroesAreStored
CHECK_DEADLOCK FALSE
