CONSTANTS
    Addr <- MCAddr
    Txs <- MCTxs
    MinGasPrice = 0
    MaxU256 = 100
    Genesis <- MCGenesis
    Proposers = {"v1"}
    Times = {1, 2, 3}
    Proposals <- MCProposals
    CheckTxs <- MCCheckTxs
    CrashSites = {"truncate"}
    MaxHeight = 2
    MaxCrashes = 1
SPECIFICATION Spec
INVARIANT VicinityOfLastBlock
