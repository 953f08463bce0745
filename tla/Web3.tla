-------------------------------- MODULE Web3 --------------------------------
(***************************************************************************)
(* What the Web3 API answers from the stored blocks: the handlers of       *)
(* src/src/rpc/eth.rs that create no temporary branch, and the parts of    *)
(* the others that read a block.  All are functions of blocks and          *)
(* blockHashes; the handlers with a temporary branch are in Rpc.           *)
(*                                                                         *)
(* A transaction's hash is the transaction.  What its execution logs is a  *)
(* constant, as its effect is: the interpreter is external.                *)
(***************************************************************************)
EXTENDS Ledger

CONSTANTS
    Topics,   \* topics of logs
    Emits     \* [Txs -> the logs its execution emits, in order]

EmittedLog == [address : Addr, topic : Topics]

ASSUME Web3Assumption == Emits \in [Txs -> Seq(EmittedLog)]

(* Answers: an error, nothing, or a value.                                 *)
Failed == [kind |-> "error"]
Nothing == [kind |-> "none"]
Answer(value) == [kind |-> "some", value |-> value]

-----------------------------------------------------------------------------
(* BlockNumber, the parameter of the handlers, and what height it means.   *)

Num(n) == [tag |-> "num", num |-> n]
ByHash(hash) == [tag |-> "hash", hash |-> hash]
Latest == [tag |-> "latest"]
Earliest == [tag |-> "earliest"]
Pending == [tag |-> "pending"]

BlockNumber == [tag : {"num"}, num : Nat] \cup [tag : {"hash"}, hash : Hash]
                  \cup {Latest, Earliest, Pending}

(* The first height of the map with that hash, and 0 if there is none.     *)
HeightOfHash(hashes, hash) ==
    LET found == {h \in DOMAIN hashes : hashes[h] = hash}
    IN  IF found = {} THEN 0 ELSE Min(found)

(* block_number_to_height.  With an EVM state it looks at block_hashes,    *)
(* with a ledger state at blocks: hashes is either.                        *)
BlockNumberToHeight(bn, hashes) ==
    CASE bn.tag = "hash"     -> HeightOfHash(hashes, bn.hash)
      [] bn.tag = "num"      -> bn.num
      [] bn.tag = "latest"   -> LastKey(hashes)
      [] bn.tag = "earliest" -> 1
      [] bn.tag = "pending"  -> 0

HeaderHashes == [h \in DOMAIN blocks |-> blocks[h].hash]

-----------------------------------------------------------------------------
(* The logs of a receipt, and the bloom a block keeps of them.             *)

(* gen_logs and add_logs, which runs before the receipt has its index: the *)
(* log keeps the default of both indices in the block.                     *)
ReceiptLogs(tx) ==
    [i \in DOMAIN Emits[tx] |->
       [address |-> Emits[tx][i].address, topic |-> Emits[tx][i].topic,
        txIndex |-> 0, logIndexInBlock |-> 0, logIndexInTx |-> i - 1]]

(* Faulty variant of BlockBloom: addresses only.                           *)
AddressBloom(block) ==
    UNION {{log.address : log \in Range(ReceiptLogs(tx))} :
             tx \in {h \in Range(block.root) \ {EmptyHash} : block.receipts[h] # NoReceipt}}

(* The bloom commit computes over the hashes in process, with handle_bloom *)
(* for each receipt: the addresses and topics it may be asked for.         *)
BlockBloom(block) ==
    UNION {UNION {{log.address, log.topic} : log \in Range(ReceiptLogs(tx))} :
             tx \in {h \in Range(block.root) \ {EmptyHash} : block.receipts[h] # NoReceipt}}

-----------------------------------------------------------------------------
(* Transactions and blocks.                                                *)

(* tx_to_web3_tx: a native transaction has no Web3 form, an EVM one needs  *)
(* its receipt.                                                            *)
TxToWeb3Tx(tx, block, height, index) ==
    IF tx.kind = "native" THEN Nothing
    ELSE IF block.receipts[tx] = NoReceipt THEN Failed
    ELSE Answer([hash |-> tx, blockHash |-> block.hash, blockNumber |-> height,
                 index |-> index, from |-> tx.from, value |-> tx.value])

TxAt(block, height, i) == TxToWeb3Tx(block.txs[i], block, height, i - 1)

(* The loop of txs_to_web3_txs pushes what there is onto its result ...    *)
Pushed(answers) ==
    FoldLeft(LAMBDA web3Txs, a : IF a = Nothing THEN web3Txs ELSE Append(web3Txs, a.value),
             <<>>, answers)

(* ... and one failure fails all.                                          *)
TxsToWeb3Txs(block, height) ==
    LET answers == [i \in DOMAIN block.txs |-> TxAt(block, height, i)]
    IN  IF Failed \in Range(answers) THEN Failed ELSE Answer(Pushed(answers))

TxHashes(web3Txs) == [i \in DOMAIN web3Txs |-> web3Txs[i].hash]

(* A block that is not asked for completely has its transactions' hashes   *)
(* and nothing else.                                                       *)
HashesOnly(web3Txs) == [transactions |-> TxHashes(web3Txs)]

FullBlock(block, height, web3Txs, gasUsed, logsBloom) ==
    [hash |-> block.hash, parentHash |-> block.prev, miner |-> block.proposer,
     transactionsRoot |-> block.root, number |-> height, gasUsed |-> gasUsed,
     logsBloom |-> logsBloom, timestamp |-> block.time, transactions |-> web3Txs]

(* The receipt iteration ends with; all of a block have the same gas.      *)
AnyReceipt(block) ==
    block.receipts[CHOOSE tx \in Txs : block.receipts[tx] # NoReceipt]

HasReceipt(block) == \E tx \in Txs : block.receipts[tx] # NoReceipt

(* block_by_hash goes through all blocks, so a failure in one fails the    *)
(* request for another; a block without a receipt cannot be had complete.  *)
BlockByHash(hash, isComplete) ==
    LET found == {h \in DOMAIN blocks : blocks[h].hash = hash}
        h     == Max(found)
        txs   == TxsToWeb3Txs(blocks[h], h)
    IN  IF \E k \in DOMAIN blocks : TxsToWeb3Txs(blocks[k], k) = Failed THEN Failed
        ELSE IF found = {} THEN Nothing
        ELSE IF ~isComplete THEN Answer(HashesOnly(txs.value))
        ELSE IF ~HasReceipt(blocks[h]) THEN Failed
        ELSE Answer(FullBlock(blocks[h], h, txs.value, AnyReceipt(blocks[h]).blockGas,
                              Answer(BlockBloom(blocks[h]))))

(* block_by_number between the creation and the removal of its branch: the *)
(* gas is left at its default, and there is no bloom.                      *)
BlockByNumber(height, isComplete) ==
    IF height \notin DOMAIN blocks THEN Nothing
    ELSE LET txs == TxsToWeb3Txs(blocks[height], height)
         IN  IF txs = Failed THEN Failed
             ELSE IF isComplete
                  THEN Answer(FullBlock(blocks[height], height, txs.value, 0, Nothing))
                  ELSE Answer(HashesOnly(txs.value))

(* block_transaction_count_by_hash and _by_number: 0 for no such block.    *)
TxCountByHash(hash) ==
    LET found == {h \in DOMAIN blocks : blocks[h].hash = hash}
    IN  IF found = {} THEN 0 ELSE Len(blocks[Max(found)].txs)

TxCountByNumber(height) ==
    IF height \in DOMAIN blocks THEN Len(blocks[height].txs) ELSE 0

(* transaction_by_hash: the first block that has it, at its first index.   *)
TransactionByHash(tx) ==
    LET found == {h \in DOMAIN blocks : Contains(blocks[h].txs, tx)}
        h     == Min(found)
        i     == Min({k \in DOMAIN blocks[h].txs : blocks[h].txs[k] = tx})
    IN  IF found = {} THEN Nothing ELSE TxAt(blocks[h], h, i)

(* transaction_by_block_hash_and_index and _by_block_number_and_index.     *)
TransactionInBlock(height, index) ==
    IF height \in DOMAIN blocks /\ index + 1 \in DOMAIN blocks[height].txs
    THEN TxAt(blocks[height], height, index + 1)
    ELSE Nothing

TransactionByBlockHashAndIndex(hash, index) ==
    TransactionInBlock(HeightOfHash(HeaderHashes, hash), index)

-----------------------------------------------------------------------------
(* Receipts and filters.                                                   *)

Web3Log(log, tx, block, height) ==
    [address |-> log.address, topic |-> log.topic, blockHash |-> block.hash,
     blockNumber |-> height, transactionHash |-> tx,
     transactionIndex |-> log.txIndex, logIndex |-> log.logIndexInBlock,
     transactionLogIndex |-> log.logIndexInTx]

Web3Logs(tx, block, height) ==
    {Web3Log(ReceiptLogs(tx)[i], tx, block, height) : i \in DOMAIN ReceiptLogs(tx)}

ReceiptTxs(block) == {tx \in Txs : block.receipts[tx] # NoReceipt}

(* transaction_receipt: the last block that has a receipt for it.          *)
TransactionReceipt(tx) ==
    LET found == {h \in DOMAIN blocks : tx \in ReceiptTxs(blocks[h])}
        h     == Max(found)
        r     == blocks[h].receipts[tx]
    IN  IF found = {} THEN Nothing
        ELSE Answer([transactionHash |-> tx, transactionIndex |-> r.index,
                     blockHash |-> blocks[h].hash, blockNumber |-> h,
                     cumulativeGasUsed |-> r.blockGas, gasUsed |-> r.gas,
                     logs |-> Web3Logs(tx, blocks[h], h)])

(* A filter asks for one address or any, and one topic or any.             *)
Wildcard == "any"

Matches(filter, log) ==
    /\ filter.address \in {Wildcard, log.address}
    /\ filter.topic \in {Wildcard, log.topic}

InBloom(filter, bloom) == {filter.address, filter.topic} \subseteq bloom \cup {Wildcard}

FilterBlockLogs(block, filter, height) ==
    {log \in UNION {Web3Logs(tx, block, height) : tx \in ReceiptTxs(block)} :
       Matches(filter, log)}

(* Both ends are cut to the current height; neither is checked otherwise.  *)
LogRange(from, to) ==
    LET clamp(h) == IF h > LastBlockHeight THEN LastBlockHeight ELSE h
    IN  clamp(from)..clamp(to)

(* logs, for a filter with a block hash ...                                *)
LogsOfHash(filter, hash) ==
    LET h == HeightOfHash(HeaderHashes, hash)
    IN  IF h = 0 THEN {} ELSE FilterBlockLogs(blocks[h], filter, h)

(* ... and for one with a range, where the bloom decides first.            *)
LogsOfRange(filter, from, to) ==
    UNION {FilterBlockLogs(blocks[h], filter, h) :
             h \in {k \in DOMAIN blocks
                            \cap LogRange(BlockNumberToHeight(from, HeaderHashes),
                                          BlockNumberToHeight(to, HeaderHashes)) :
                      InBloom(filter, BlockBloom(blocks[k]))}}
=============================================================================
