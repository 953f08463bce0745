CONSTANTS
    Addr <- MCAddr
    Txs <- MCTxs
    MinGasPrice = 1
    MaxU256 = 100
    Genesis <- MCGenesis
    Proposers = {"v1"}
    Times = {1}
    Proposals <- MCProposals
    CheckTxs = {}
    CrashSites = {}
    MaxHeight = 1
    MaxCrashes = 0
    Topics = {"paid", "sent"}
    Emits <- MCEmits
    http = http
    Servers = {http}
    Requests <- LeakRequests
SPECIFICATION RpcSpec
INVARIANT NothingLeftBehind
CHECK_DEADLOCK FALSE
