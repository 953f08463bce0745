CONSTANTS
    Addr <- MCAddr
    Txs <- MCTxs
    MinGasPrice = 0
    MaxU256 = 100
    Genesis <- MCGenesis
    Proposers = {"v1"}
    Times = {1, 2, 3}
    Proposals <- MCProposals
    CheckTxs <- MCCheckTxs
    CrashSites <- SafeSites
    MaxHeight = 3
    MaxCrashes = 2
SPECIFICATION Spec
INVARIANTS
    TypeOK
    NeverDies
    CommittedIsReplay
    AckedHashesStand
    AckedBlocksStay
    VicinityOfLastBlock
PROPERTY DecidedIsCommitted
