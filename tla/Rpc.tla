-------------------------------- MODULE Rpc --------------------------------
(***************************************************************************)
(* The Web3 servers of a node beside its consensus: src/src/rpc/eth.rs,    *)
(* rpc/utils.rs, common/mod.rs:75-169, ethvm/mod.rs:38-91.                 *)
(*                                                                         *)
(* Each server answers one request at a time on a thread of its own, while *)
(* the node runs its handlers write by write (Recovery).  A read "at a     *)
(* height" creates a branch of the store for its duration.  The operations *)
(* of a State on branches go through its versioned fields in order and     *)
(* stop at the first that fails, so each field is a step.  The name of the *)
(* branch is the method's prefix and the height; nothing else protects it. *)
(***************************************************************************)
EXTENDS Recovery, Web3

CONSTANTS
    Servers,    \* the HTTP and WebSocket servers
    Requests    \* the requests clients make, each a method and a BlockNumber

(* Versioned fields: chain for the chain's own ones, gas for the EVM's     *)
(* parameters, fuel for the maps of accounts and storages.                 *)
EvmFields == <<"gas", "fuel">>
LedgerFields == <<"chain", "gas", "fuel">>

(* The methods with a temporary branch, by the State they create it on.    *)
EvmMethods == {"balance", "storage_at", "code_at", "block_by_number",
               "call", "estimate_gas"}
LedgerMethods == {"transaction_count", "block_transaction_count_by_number",
                  "transaction_by_block_number_and_index"}
Methods == EvmMethods \cup LedgerMethods

(* Those that create on the ledger's State and remove on the EVM's.        *)
Mismatched == {"block_transaction_count_by_number",
               "transaction_by_block_number_and_index"}

CreateFields(method) == IF method \in EvmMethods THEN EvmFields ELSE LedgerFields

(* Faulty variant of RemoveFields: the last field is forgotten.            *)
FirstFieldOnly(method) == <<"gas">>

RemoveFields(method) ==
    IF method \in LedgerMethods \ Mismatched THEN LedgerFields ELSE EvmFields

(* call and estimate_gas are both call_contract.                           *)
Prefix(method) ==
    IF method \in {"call", "estimate_gas"} THEN "call_contract" ELSE method

ASSUME RpcAssumption == Requests \subseteq [method : Methods, bn : BlockNumber]

VARIABLES
    req,        \* what each server is doing
    temp,       \* the temporary branches: field, name, and who created it
    disturbed   \* history: of the branches there are, the names two requests
                \* wanted at once or a crash cut

rpcVars == <<req, temp, disturbed>>
allVars == <<vs, blocks, blockHashes, sb, panicked, pc, loading, cursor, snapshot,
             decided, acked, crashes, req, temp, disturbed>>

IdleReq == [stage |-> "idle"]

BranchName(method, height) == <<Prefix(method), height + 1>>

NameOf(s) == BranchName(req[s].method, req[s].height)

Busy(s) == req[s] # IdleReq

Exists(field, name) == \E b \in temp : b.field = field /\ b.name = name

(* The servers start after the application has been loaded.                *)
Serving == ~loading /\ pc \notin {"down", "dead"}

RpcInit ==
    /\ RecoveryInit
    /\ req = [s \in Servers |-> IdleReq]
    /\ temp = {}
    /\ disturbed = {}

-----------------------------------------------------------------------------
(* One request.                                                            *)

(* The height a request means: the methods on the EVM's State take the     *)
(* hashes of the EVM, the others those of the blocks.                      *)
HeightFor(r) ==
    BlockNumberToHeight(r.bn, IF r.method \in EvmMethods THEN blockHashes ELSE HeaderHashes)

(* What a client may know to be committed when it asks.                    *)
Published == IF LastKey(blockHashes) > LastBlockHeight THEN LastKey(blockHashes)
                                                       ELSE LastBlockHeight

(* rollback_to_height refuses height 0 before it has done anything; such a *)
(* request is answered with an error and is no step.  So is a call whose   *)
(* gas price is 0, on which the handler panics in checked_div.             *)
Receive(s, r) ==
    /\ Serving
    /\ ~Busy(s)
    /\ HeightFor(r) > 0
    /\ req' = [req EXCEPT ![s] =
                 [stage |-> "create", method |-> r.method, height |-> HeightFor(r),
                  since |-> Published, at |-> 1, seen |-> GenesisState]]
    /\ UNCHANGED <<temp, disturbed>>

AnswerAndIdle(s) == req' = [req EXCEPT ![s] = IdleReq]

Contended(s) == \E t \in Servers \ {s} : Busy(t) /\ NameOf(t) = NameOf(s)

(* Faulty variant of CreateRefused: an error path that cleans up.          *)
CleaningCreateRefused(s) ==
    /\ req[s].stage = "create"
    /\ Exists(CreateFields(req[s].method)[req[s].at], NameOf(s))
    /\ AnswerAndIdle(s)
    /\ temp' = {b \in temp : b.name # NameOf(s)}
    /\ disturbed' = IF Contended(s) THEN disturbed \cup {NameOf(s)} ELSE disturbed

(* branch_create_by_base_branch meets a branch of that name: the error is  *)
(* answered, and the fields before it keep the branch.                     *)
CreateRefused(s) ==
    /\ req[s].stage = "create"
    /\ Exists(CreateFields(req[s].method)[req[s].at], NameOf(s))
    /\ AnswerAndIdle(s)
    /\ disturbed' = IF Contended(s) THEN disturbed \cup {NameOf(s)} ELSE disturbed
    /\ UNCHANGED temp

(* Faulty variant of CreateField: a branch of that name is shared.         *)
ShareField(s) ==
    LET field == CreateFields(req[s].method)[req[s].at]
    IN  /\ req[s].stage = "create"
        /\ temp' = temp \cup {[field |-> field, name |-> NameOf(s), by |-> s]}
        /\ req' = IF req[s].at < Len(CreateFields(req[s].method))
                  THEN [req EXCEPT ![s].at = @ + 1]
                  ELSE [req EXCEPT ![s].stage = "version"]
        /\ UNCHANGED disturbed

CreateField(s) ==
    LET field == CreateFields(req[s].method)[req[s].at]
    IN  /\ req[s].stage = "create"
        /\ ~Exists(field, NameOf(s))
        /\ temp' = temp \cup {[field |-> field, name |-> NameOf(s), by |-> s]}
        /\ req' = IF req[s].at < Len(CreateFields(req[s].method))
                  THEN [req EXCEPT ![s].at = @ + 1]
                  ELSE [req EXCEPT ![s].stage = "version"]
        /\ UNCHANGED disturbed

(* version_create_by_branch of (height + 1, 0), new on a new branch; it    *)
(* fails on a branch that has gone.                                        *)
NameVersion(s) ==
    /\ req[s].stage = "version"
    /\ IF \A i \in DOMAIN CreateFields(req[s].method) :
            Exists(CreateFields(req[s].method)[i], NameOf(s))
       THEN req' = [req EXCEPT ![s].stage = "read", ![s].at = 1]
       ELSE AnswerAndIdle(s)
    /\ UNCHANGED <<temp, disturbed>>

(* Faulty variant of DefaultBranchState: the block in process is read.     *)
ExecutingState == IF BranchExists(vs, DeliverTx) THEN View(vs, DeliverTx) ELSE View(vs, Main)

(* A read that names no branch goes to the default one, and call_contract  *)
(* is given Main: never to the temporary branch.                           *)
DefaultBranchState == View(vs, Main)

(* Does the read between creation and removal fail?                        *)
ReadFails(s) ==
    CASE req[s].method = "block_by_number" ->
           BlockByNumber(req[s].height, TRUE) = Failed
      [] req[s].method = "transaction_by_block_number_and_index" ->
           TransactionInBlock(req[s].height, 0) = Failed
      [] OTHER -> FALSE

(* block_by_number removes its branch before it answers a failure, as it   *)
(* does otherwise; transaction_by_block_number_and_index returns.  A call  *)
(* reads from the store whenever the interpreter needs an account; two     *)
(* reads stand for that.                                                   *)
Reads(method) == IF Prefix(method) = "call_contract" THEN 2 ELSE 1

Read(s) ==
    /\ req[s].stage = "read"
    /\ IF ReadFails(s) /\ req[s].method = "transaction_by_block_number_and_index"
       THEN AnswerAndIdle(s)
       ELSE IF req[s].at < Reads(req[s].method)
       THEN req' = [req EXCEPT ![s].at = @ + 1, ![s].seen = DefaultBranchState]
       ELSE req' = [req EXCEPT ![s].stage = "remove", ![s].at = 1, ![s].since = 0,
                               ![s].seen = DefaultBranchState]
    /\ UNCHANGED <<temp, disturbed>>

(* remove_branch_by_name, field by field; the answer follows the last.     *)
RemoveField(s) ==
    LET fields == RemoveFields(req[s].method)
        gone   == [field |-> fields[req[s].at], name |-> NameOf(s)]
    IN  /\ req[s].stage = "remove"
        /\ temp' = {b \in temp : [field |-> b.field, name |-> b.name] # gone}
        /\ IF Exists(gone.field, gone.name) /\ req[s].at < Len(fields)
           THEN req' = [req EXCEPT ![s].at = @ + 1]
           ELSE AnswerAndIdle(s)
        /\ disturbed' = disturbed \cap {b.name : b \in temp'}

ServeStep(s) ==
    /\ \/ CreateRefused(s) \/ CreateField(s) \/ NameVersion(s) \/ Read(s)
       \/ RemoveField(s)
    /\ UNCHANGED vars

(* send_raw_transaction: once decoded, the transaction goes to Tendermint, *)
(* which has it checked; the server's thread does not wait for that.       *)
SendRawTransaction(tx) ==
    /\ Serving
    /\ Check(tx)
    /\ UNCHANGED rpcVars

-----------------------------------------------------------------------------
(* Composition with the node.                                              *)

(* A crash ends the requests and leaves their branches in the store.       *)
CrashNode ==
    /\ Crash
    /\ req' = [s \in Servers |-> IdleReq]
    /\ disturbed' = disturbed \cup ({NameOf(s) : s \in {t \in Servers : Busy(t)}}
                                       \cap {b.name : b \in temp})
    /\ UNCHANGED temp

(* A new ledger has a store of its own.                                    *)
StartNewNode ==
    /\ StartNew
    /\ temp' = {}
    /\ disturbed' = {}
    /\ UNCHANGED req

NodeStepBesideRequests ==
    /\ \/ BeginBlock \/ RemoveCheck \/ RemoveDeliver \/ CreateDeliver \/ CreateCheck
       \/ Loaded
       \/ PrepareMain \/ PrepareDeliver \/ PrepareCheck
       \/ Deliver \/ EndBlock
       \/ Merge \/ StoreHash \/ StoreBlock \/ TruncateSnapshot \/ WriteSnapshot
       \/ StartFromSnapshot
    /\ UNCHANGED rpcVars

RpcNext ==
    /\ ~panicked
    /\ \/ NodeStepBesideRequests
       \/ \E p \in Proposals : Decide(p) /\ UNCHANGED rpcVars
       \/ \E tx \in CheckTxs : SendRawTransaction(tx)
       \/ CrashNode
       \/ StartNewNode
       \/ \E s \in Servers, r \in Requests : Receive(s, r) /\ UNCHANGED vars
       \/ \E s \in Servers : ServeStep(s)

RpcSpec == RpcInit /\ [][RpcNext]_allVars

-----------------------------------------------------------------------------
(* The types of the variables that are new here.                           *)
RpcTypeOK ==
    /\ \A s \in Servers :
         \/ req[s] = IdleReq
         \/ /\ req[s].stage \in {"create", "version", "read", "remove"}
            /\ req[s].method \in Methods
            /\ req[s].height \in Nat \ {0}
            /\ req[s].since \in Nat
            /\ req[s].at \in 1..3
            /\ req[s].seen \in EvmState
    /\ \A b \in temp : b.field \in Range(LedgerFields) /\ b.by \in Servers
    /\ \A b, c \in temp : b.field = c.field /\ b.name = c.name => b = c

(* While a request reads, and until it removes it, the branch it created   *)
(* is there and is its own in every field: whoever else asks for the same  *)
(* height neither removes it nor creates it again (common/mod.rs:85-106,   *)
(* rpc/utils.rs:31-61).                                                    *)
BranchStaysForItsRequest ==
    \A s \in Servers :
        req[s].stage \in {"version", "read", "remove"} =>
            LET fields == RemoveFields(req[s].method)
                from   == IF req[s].stage = "remove" THEN req[s].at ELSE 1
            IN  \A i \in from..Len(fields) :
                  [field |-> fields[i], name |-> NameOf(s), by |-> s] \in temp

(* A branch nobody works with any more was left by a method that creates   *)
(* on the ledger's State and removes on the EVM's (eth.rs:511-538,         *)
(* 736-778), or bears a name that two requests wanted at the same time or  *)
(* a crash caught in use.  The other methods, used one at a time, clean up *)
(* after themselves whatever the node does beside them.                    *)
LeftBehindHasCause ==
    \A b \in temp :
        \/ Busy(b.by) /\ NameOf(b.by) = b.name
        \/ b.name[1] \in Mismatched
        \/ b.name \in disturbed

(* The number of blocks whose effects Main has: between the merge and the  *)
(* storing of the block one more than there are blocks.                    *)
Merged == LastBlockHeight + (IF pc \in {"storeHash", "storeBlock"} THEN 1 ELSE 0)

(* What one read of the state gives, for whatever height it was asked, is *)
(* the state after some whole number of decided blocks, not fewer than     *)
(* were published when the request came in: nothing of a block in process, *)
(* of a transaction that failed or of a mempool check (eth.rs:65-70,       *)
(* 223-227, 479-481, 552-556; ethvm/mod.rs:62-79).  The height itself does *)
(* not bound it from above, and the reads of one call may lie on both      *)
(* sides of a merge.                                                       *)
AnswersAreCommitted ==
    [][\A s \in Servers :
         req[s].stage = "read" /\ req'[s] # req[s] /\ req'[s] # IdleReq =>
             \E n \in req[s].since..Merged : req'[s].seen = Replay(n).state]_allVars

(* "You must delete the branch before returning, otherwise the next time   *)
(* you come in, the same branch will exist and an error will be reported." *)
(* (eth.rs:371-373): with no request running no branch is left.            *)
NothingLeftBehind == (\A s \in Servers : ~Busy(s)) => temp = {}

-----------------------------------------------------------------------------
(* The block queries agree with each other.  Blocks change in StoreBlock   *)
(* only, so looking right after it is looking at every chain of blocks.    *)
JustStored == pc = "truncate"

(* transaction_by_hash and transaction_receipt, which search the blocks    *)
(* from opposite ends, find the same one, and the query by position gives  *)
(* back the transaction they name (eth.rs:667-728, 783-827).  It needs     *)
(* that no transaction takes effect twice and that receipts keep the       *)
(* position.                                                               *)
LookupsAgree ==
    JustStored =>
        \A tx \in Txs :
            LET byHash  == TransactionByHash(tx)
                receipt == TransactionReceipt(tx)
            IN  /\ (byHash = Nothing) <=> (receipt = Nothing)
                /\ byHash # Nothing =>
                     /\ byHash # Failed
                     /\ receipt.value.blockHash = byHash.value.blockHash
                     /\ receipt.value.blockNumber = byHash.value.blockNumber
                     /\ receipt.value.transactionIndex = byHash.value.index
                     /\ receipt.value.gasUsed =< receipt.value.cumulativeGasUsed
                     /\ TransactionByBlockHashAndIndex(byHash.value.blockHash,
                                                       byHash.value.index) = byHash

(* block_by_hash and block_by_number give the same block, but not all of   *)
(* it: the gas of the block and the bloom of its logs are in the answer by *)
(* hash alone, and they are those of the block's transactions.  A block    *)
(* without a receipt is had complete by number alone.  The parent a block  *)
(* names is the block one height below, and the counts are those of its    *)
(* transactions (eth.rs:238-452, 490-541).                                 *)
EmittedBloom(txs) ==
    UNION {{log.address, log.topic} : log \in UNION {Range(Emits[tx]) : tx \in Range(txs)}}

WithTotals(web3Block, txs) ==
    [web3Block EXCEPT !.gasUsed = TxGas(txs), !.logsBloom = Answer(EmittedBloom(txs))]

BlockQueriesAgree ==
    JustStored =>
        \A h \in DOMAIN blocks :
            LET hash   == blocks[h].hash
                txs    == blocks[h].txs
                full   == BlockByNumber(h, TRUE)
                byHash == BlockByHash(hash, TRUE)
            IN  /\ full # Failed /\ full.value.hash = hash
                /\ full.value.gasUsed = 0 /\ full.value.logsBloom = Nothing
                /\ BlockByHash(hash, FALSE) = BlockByNumber(h, FALSE)
                /\ byHash = IF HasReceipt(blocks[h])
                            THEN Answer(WithTotals(full.value, txs))
                            ELSE Failed
                /\ HeightOfHash(blockHashes, hash) = h
                /\ h > 1 => HeightOfHash(blockHashes, full.value.parentHash) = h - 1
                /\ TxCountByHash(hash) = Len(full.value.transactions)
                /\ TxCountByNumber(h) = Len(full.value.transactions)

Filters == [address : Addr \cup {Wildcard}, topic : Topics \cup {Wildcard}]

(* The logs the transactions emitted that a filter matches.                *)
MatchesOf(filter, tx) == {i \in DOMAIN Emits[tx] : Matches(filter, Emits[tx][i])}

MatchCount(filter, txs) ==
    FoldLeft(LAMBDA n, tx : n + Cardinality(MatchesOf(filter, tx)), 0, txs)

(* A log filter finds by range what it finds block by block, from the      *)
(* earliest to the latest height, beyond the end, and in one block: the    *)
(* bloom and the clamped range lose no log that the filter matches         *)
(* (eth.rs:829-881, ledger/mod.rs:360-368).  "pending" is no height: a     *)
(* range to it is empty.                                                   *)
LogsAgree ==
    JustStored =>
        \A f \in Filters :
            LET all == UNION {LogsOfHash(f, blocks[h].hash) : h \in DOMAIN blocks}
            IN  /\ LogsOfRange(f, Earliest, Latest) = all
                /\ LogsOfRange(f, Num(0), Num(MaxHeight + 1)) = all
                /\ LogsOfRange(f, Earliest, Pending) = {}
                /\ \A h \in DOMAIN blocks :
                     LogsOfRange(f, Num(h), ByHash(blocks[h].hash)) =
                         LogsOfHash(f, blocks[h].hash)
                /\ Cardinality(all) =
                     MapThenSumSet(LAMBDA h : MatchCount(f, blocks[h].txs), DOMAIN blocks)
=============================================================================
