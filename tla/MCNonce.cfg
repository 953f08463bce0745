CONSTANTS
    Addr <- MCAddr
    Txs <- MCTxs
    MinGasPrice = 1
    MaxU256 <- MCMaxU256
    Genesis <- MCGenesis
    Proposers = {"v1"}
    Times = {1, 2}
    MaxHeight = 2
    MaxTxs = 2
SPECIFICATION Spec
INVARIANT ChargedNoncesGrow
