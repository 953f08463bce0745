------------------------------- MODULE Ledger -------------------------------
(***************************************************************************)
(* The ledger of one node: src/src/ledger/mod.rs.                          *)
(*                                                                         *)
(* Three branches of one versioned store hold the EVM state: Main the      *)
(* committed one, DeliverTx the one of the block being executed, CheckTx   *)
(* the one the mempool checks run on.  Beside each branch the process      *)
(* keeps a StateBranch in memory.  Every operation below runs under the    *)
(* write locks of the branches it touches, so it is one step.              *)
(*                                                                         *)
(* Where the code calls pnk! on an error the process dies: panicked.       *)
(***************************************************************************)
EXTENDS EvmTx, Vsdb, FiniteSetsExt, SequencesExt

Main      == "Main"
DeliverTx == "DeliverTx"
CheckTx   == "CheckTx"

BranchNames == {Main, DeliverTx, CheckTx}

VARIABLES
    vs,           \* the branches of the versioned store
    blocks,       \* State.blocks, height -> Block
    blockHashes,  \* evm.block_hashes, height -> hash
    sb,           \* the StateBranch of each branch (in memory)
    panicked      \* the process has died in a pnk!

ledgerVars == <<vs, blocks, blockHashes, sb, panicked>>

-----------------------------------------------------------------------------
(* Names and records.                                                      *)

VsVersion(height, position) == <<height, position>>

VersionNames == Nat \X Nat

InitialVersion == VsVersion(0, 0)

NoReceipt == [none |-> TRUE]

GasOf(txs) == MapThenSumSet(LAMBDA tx : tx.gas, txs)

TxGas(txs) == FoldLeft(LAMBDA sum, tx : sum + tx.gas, 0, txs)

(* The gas of the block is filled in when the block is sealed.             *)
BlockGases == {0} \cup {GasOf(txs) : txs \in SUBSET Txs}

Receipt == [index : Nat, gas : Nat, blockGas : BlockGases]

(* What commit pushes so that the Merkle tree is never empty.              *)
EmptyHash == [kind |-> "empty"]

TxHash == Txs \cup {EmptyHash}

(* The contents BlockHeader::hash covers, apart from the previous hash.    *)
Header == [height : Nat, proposer : Proposers \cup {NoProposer}, time : Nat,
           root : Seq(TxHash), receipts : [Txs -> Receipt \cup {NoReceipt}]]

(* A header hash stands for the headers it is computed from, oldest first. *)
Hash == Seq(Header)

Block == [height : Nat, proposer : Proposers \cup {NoProposer}, time : Nat,
          prev : Hash, txs : Seq(Txs), receipts : [Txs -> Receipt \cup {NoReceipt}],
          root : Seq(TxHash), hash : Hash]

StateBranch == [hashes : Seq(TxHash), block : Block, vicinity : Vicinity]

NewBlock(height, proposer, time, prev) ==
    [height |-> height, proposer |-> proposer, time |-> time, prev |-> prev,
     txs |-> <<>>, receipts |-> [tx \in Txs |-> NoReceipt],
     root |-> <<>>, hash |-> <<>>]

DefaultBlock == NewBlock(0, NoProposer, 0, <<>>)

HeaderHash(b) ==
    Append(b.prev, [height |-> b.height, proposer |-> b.proposer, time |-> b.time,
                    root |-> b.root, receipts |-> b.receipts])

LastKey(map) == IF DOMAIN map = {} THEN 0 ELSE Max(DOMAIN map)

Insert(map, key, value) ==
    [k \in DOMAIN map \cup {key} |-> IF k = key THEN value ELSE map[k]]

LastBlockHeight == LastKey(blocks)

LastBlock == IF LastBlockHeight = 0 THEN DefaultBlock ELSE blocks[LastBlockHeight]

-----------------------------------------------------------------------------
(* Ledger::new, and App::init_chain, which writes the genesis balances     *)
(* into the initial version of Main before any block.                      *)
NewStore ==
    [b \in BranchNames |->
       IF b = Main
       THEN [base |-> GenesisState,
             vers |-> <<Version(InitialVersion, GenesisState)>>]
       ELSE Branch(GenesisState)]

NewStateBranches ==
    [b \in BranchNames |->
       [hashes |-> <<>>, block |-> DefaultBlock, vicinity |-> DefaultVicinity]]

Init ==
    /\ vs = NewStore
    /\ blocks = <<>>
    /\ blockHashes = <<>>
    /\ sb = NewStateBranches
    /\ panicked = FALSE

Panic ==
    /\ panicked' = TRUE
    /\ UNCHANGED <<vs, blocks, blockHashes, sb>>

-----------------------------------------------------------------------------
(* StateBranch::apply_tx on branch b, which check_tx and deliver_tx share. *)

TxVersion(b) == VsVersion(sb[b].block.height, 1 + Len(sb[b].hashes))

WithTxVersion(b) == CreateVersion(vs, b, TxVersion(b))

(* What the transaction sees: the branch, and the environment that the     *)
(* State copied into this StateBranch carries.                             *)
Admitted(b, tx) == Admissible(tx, View(WithTxVersion(b), b))

(* Faulty variant of Popped: the version of a failure stays.               *)
NotPopped(b) == WithTxVersion(b)

(* version_pop after a failure.                                            *)
Popped(b) == PopVersion(WithTxVersion(b), b)

(* Faulty variant of EnsureVersion: a popped branch may have no version.   *)
NoVersionEnsured(store, b) == store

(* create_version_if_first_tx_failed                                       *)
EnsureVersion(store, b) ==
    IF HasVersions(store, b) THEN store
                             ELSE CreateVersion(store, b, InitialVersion)

(* No effect: the version could not be created, or Err(None).              *)
TxRejected(b, tx) ==
    /\ ~(CanCreateVersion(vs, b, TxVersion(b)) /\ Admitted(b, tx))
    /\ vs' = IF CanCreateVersion(vs, b, TxVersion(b)) THEN Popped(b) ELSE vs
    /\ UNCHANGED <<blocks, blockHashes, sb, panicked>>

(* Faulty variant of TxFailed: the fee is written to the default branch.   *)
TxFailedOnMain(b, tx) ==
    /\ CanCreateVersion(vs, b, TxVersion(b))
    /\ Admitted(b, tx)
    /\ ~ExecSucceeds(tx)
    /\ LET store == EnsureVersion(Popped(b), b)
       IN  vs' = Write(store, Main, ChargeFee(View(store, Main), tx.from, FeeUsed(tx)))
    /\ UNCHANGED <<blocks, blockHashes, sb, panicked>>

(* Err(Some(ret)): the execution is undone and its fee is still taken.     *)
TxFailed(b, tx) ==
    /\ CanCreateVersion(vs, b, TxVersion(b))
    /\ Admitted(b, tx)
    /\ ~ExecSucceeds(tx)
    /\ LET store == EnsureVersion(Popped(b), b)
           state == View(store, b)
       IN  IF /\ CanCharge(state, tx.from, FeeUsed(tx))
              /\ FeeUsed(tx) # 0 => CanWrite(store, b)
           THEN /\ vs' = IF FeeUsed(tx) = 0 THEN store
                         ELSE Write(store, b, ChargeFee(state, tx.from, FeeUsed(tx)))
                /\ UNCHANGED <<blocks, blockHashes, sb, panicked>>
           ELSE Panic

(* Faulty variant of Executed: the environment is the one Main now has.    *)
ExecutedInMainVicinity(b, tx) ==
    Exec(tx, View(WithTxVersion(b), b), sb[Main].vicinity)

(* The state after a successful execution, before the fee is taken.        *)
Executed(b, tx) == Exec(tx, View(WithTxVersion(b), b), sb[b].vicinity)

(* The in-memory record of a transaction that took effect.                 *)
Recorded(branch, tx) ==
    [branch EXCEPT
       !.hashes = Append(@, tx),
       !.block.txs = Append(@, tx),
       !.block.receipts[tx] =
           [index |-> Len(branch.hashes), gas |-> tx.gas, blockGas |-> 0]]

TxApplied(b, tx) ==
    /\ CanCreateVersion(vs, b, TxVersion(b))
    /\ Admitted(b, tx)
    /\ ExecSucceeds(tx)
    /\ IF CanCharge(Executed(b, tx), tx.from, FeeUsed(tx))
       THEN /\ vs' = Write(WithTxVersion(b), b,
                           ChargeFee(Executed(b, tx), tx.from, FeeUsed(tx)))
            /\ sb' = [sb EXCEPT ![b] = Recorded(@, tx)]
            /\ UNCHANGED <<blocks, blockHashes, panicked>>
       ELSE Panic

ApplyTx(b, tx) == TxRejected(b, tx) \/ TxFailed(b, tx) \/ TxApplied(b, tx)

-----------------------------------------------------------------------------
(* Ledger::consensus_refresh: new DeliverTx and CheckTx branches, a fresh  *)
(* copy of the State of Main in both, then prepare_next_block on each.     *)

(* State::refresh_branches                                                 *)
RefreshBranches(store) ==
    LET r1 == RemoveBranch(store, CheckTx)
        r2 == IF BranchExists(r1, DeliverTx) THEN RemoveBranch(r1, DeliverTx)
                                             ELSE r1
        r3 == CreateBranch(r2, DeliverTx, Main)
    IN  CreateBranch(r3, CheckTx, Main)

(* The creations cannot fail once the removals are done.                   *)
CanRefreshBranches(store) == CanRemoveBranch(store, CheckTx)

BlockVersion(height) == VsVersion(height, 0)

CanPrepare(store, height) ==
    \A b \in BranchNames : CanCreateVersion(store, b, BlockVersion(height))

PrepareVersions(store, height) ==
    LET p1 == CreateVersion(store, Main, BlockVersion(height))
        p2 == CreateVersion(p1, DeliverTx, BlockVersion(height))
    IN  CreateVersion(p2, CheckTx, BlockVersion(height))

(* Faulty variant of UpdatedVicinity: no update.                           *)
KeptVicinity(proposer, time) == sb[Main].vicinity

(* update_evm_aux: block_number is the last height with a block hash.      *)
UpdatedVicinity(proposer, time) ==
    [number |-> LastKey(blockHashes), coinbase |-> proposer, time |-> time]

(* Faulty variants of PreparedBranch: the height of the last block instead *)
(* of the next one, the same where there is a last block, and the hash the *)
(* last block itself points to.                                            *)
SameHeightBranch(b, proposer, time) ==
    [hashes   |-> <<>>,
     block    |-> NewBlock(LastBlock.height, proposer, time, LastBlock.hash),
     vicinity |-> IF b = Main THEN UpdatedVicinity(proposer, time)
                              ELSE sb[Main].vicinity]

ReusedHeightBranch(b, proposer, time) ==
    [hashes   |-> <<>>,
     block    |-> NewBlock(IF LastBlock.height = 0 THEN 1 ELSE LastBlock.height,
                           proposer, time, LastBlock.hash),
     vicinity |-> IF b = Main THEN UpdatedVicinity(proposer, time)
                              ELSE sb[Main].vicinity]

StalePrevBranch(b, proposer, time) ==
    [hashes   |-> <<>>,
     block    |-> NewBlock(1 + LastBlock.height, proposer, time, LastBlock.prev),
     vicinity |-> IF b = Main THEN UpdatedVicinity(proposer, time)
                              ELSE sb[Main].vicinity]

(* Main alone has its vicinity updated, after the others copied the old    *)
(* one.                                                                    *)
PreparedBranch(b, proposer, time) ==
    [hashes   |-> <<>>,
     block    |-> NewBlock(1 + LastBlock.height, proposer, time, LastBlock.hash),
     vicinity |-> IF b = Main THEN UpdatedVicinity(proposer, time)
                              ELSE sb[Main].vicinity]

ConsensusRefresh(proposer, time) ==
    LET store == RefreshBranches(vs)
        height == 1 + LastBlock.height
    IN  IF CanRefreshBranches(vs) /\ CanPrepare(store, height)
        THEN /\ vs' = PrepareVersions(store, height)
             /\ sb' = [b \in BranchNames |-> PreparedBranch(b, proposer, time)]
             /\ UNCHANGED <<blocks, blockHashes, panicked>>
        ELSE Panic

-----------------------------------------------------------------------------
(* Ledger::commit: Main takes over what DeliverTx recorded, DeliverTx is   *)
(* merged into Main, and the block is sealed and stored.                   *)

(* The sum over the receipts; the gas of a receipt is its transaction's.   *)
BlockGasUsed(receipts) == GasOf({tx \in Txs : receipts[tx] # NoReceipt})

(* StateBranch::commit on the taken-over block.                            *)
Sealed(branch) ==
    LET hashes == Append(branch.hashes, EmptyHash)
        gas    == BlockGasUsed(branch.block.receipts)
        block  == [branch.block EXCEPT
                     !.root = hashes,
                     !.receipts = [tx \in Txs |->
                         IF @[tx] # NoReceipt /\ Contains(branch.hashes, tx)
                         THEN [@[tx] EXCEPT !.blockGas = gas]
                         ELSE @[tx]]]
    IN  [block EXCEPT !.hash = HeaderHash(block)]

(* Faulty variant of Commit: Main seals its own block, without the swap.   *)
CommitWithoutSwap ==
    LET block == Sealed(sb[Main])
    IN  /\ CanMerge(vs, DeliverTx, Main)
        /\ vs' = MergeToParent(vs, DeliverTx, Main)
        /\ sb' = [sb EXCEPT ![Main].hashes = Append(@, EmptyHash),
                            ![Main].block = DefaultBlock]
        /\ blockHashes' = Insert(blockHashes, block.height, block.hash)
        /\ blocks' = Insert(blocks, block.height, block)
        /\ UNCHANGED panicked

Commit ==
    IF CanMerge(vs, DeliverTx, Main)
    THEN LET block == Sealed(sb[DeliverTx])
         IN  /\ vs' = MergeToParent(vs, DeliverTx, Main)
             /\ sb' = [sb EXCEPT
                         ![Main].hashes = Append(sb[DeliverTx].hashes, EmptyHash),
                         ![Main].block = DefaultBlock,
                         ![DeliverTx].hashes = sb[Main].hashes,
                         ![DeliverTx].block = sb[Main].block]
             /\ blockHashes' = Insert(blockHashes, block.height, block.hash)
             /\ blocks' = Insert(blocks, block.height, block)
             /\ UNCHANGED panicked
    ELSE Panic
=============================================================================
