CONSTANTS
    Addr <- MCAddr
    Txs <- MCTxs
    MinGasPrice = 1
    MaxU256 = 100
    Genesis <- MCGenesis
    Proposers = {"v1"}
    Times = {1}
    Proposals <- MCProposals
    CheckTxs <- MCCheckTxs
    CrashSites = {"merge"}
    MaxHeight = 2
    MaxCrashes = 1
    Topics = {"paid", "sent"}
    Emits <- MCEmits
    http = http
    ws = ws
    Servers = {http, ws}
    Requests <- MCRequests
SPECIFICATION RpcSpec
INVARIANTS
    RpcTypeOK
    BranchStaysForItsRequest
    LeftBehindHasCause
    LookupsAgree
    BlockQueriesAgree
    LogsAgree
PROPERTIES
    AnswersAreCommitted
SYMMETRY Symmetry
