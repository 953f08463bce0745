----------------------------- MODULE Consensus -----------------------------
(***************************************************************************)
(* The ABCI application (src/src/consensus/mod.rs) over the ledger, called *)
(* by Tendermint on two connections: the consensus connection runs         *)
(* BeginBlock, DeliverTx*, EndBlock, Commit in that order, the mempool one *)
(* calls CheckTx at any time.  The locks inside the ledger make each call  *)
(* one step.  No process failure here: see Recovery.                       *)
(***************************************************************************)
EXTENDS Ledger

CONSTANTS
    MaxHeight,   \* bound: blocks in a behaviour
    MaxTxs       \* bound: transactions in a block

ASSUME BoundsAssumption == MaxHeight \in Nat /\ MaxTxs \in Nat

VARIABLES
    phase,      \* where Tendermint is in its call sequence
    delivered,  \* history: transactions of the block, their response code and
                \* what they paid
    burned      \* history: the fees taken on the consensus branches

vars == <<vs, blocks, blockHashes, sb, panicked, phase, delivered, burned>>

ConsensusInit ==
    /\ Init
    /\ phase = "idle"
    /\ delivered = <<>>
    /\ burned = 0

-----------------------------------------------------------------------------

(* check_tx for a new transaction.  For a re-check the handler returns     *)
(* before doing anything, so it is no step at all.                         *)
AbciCheckTx(tx) ==
    /\ ApplyTx(CheckTx, tx)
    /\ UNCHANGED <<phase, delivered, burned>>

AbciBeginBlock(proposer, time) ==
    /\ phase = "idle"
    /\ LastBlockHeight < MaxHeight
    /\ ConsensusRefresh(proposer, time)
    /\ phase' = "block"
    /\ delivered' = <<>>
    /\ UNCHANGED burned

(* What charge_fee takes from the sender of a transaction run on st: the   *)
(* fee, or all that is left to the sender when that is less.               *)
FeePaid(tx, st, vicinity) ==
    LET before  == IF ExecSucceeds(tx) THEN Exec(tx, st, vicinity) ELSE st
        balance == before.accounts[tx.from].balance
    IN  IF FeeUsed(tx) =< balance THEN FeeUsed(tx) ELSE balance

Record(tx, verdict, paid) ==
    /\ delivered' = Append(delivered, [tx |-> tx, verdict |-> verdict, paid |-> paid])
    /\ burned' = burned + paid

(* The proposer of the block may include any transaction: code 1 is        *)
(* answered to the ones that are rejected or fail.                         *)
AbciDeliverTx(tx) ==
    /\ phase = "block"
    /\ Len(delivered) < MaxTxs
    /\ LET paid == FeePaid(tx, View(vs, DeliverTx), sb[DeliverTx].vicinity)
       IN  \/ TxRejected(DeliverTx, tx) /\ Record(tx, "rejected", 0)
           \/ TxFailed(DeliverTx, tx) /\ Record(tx, "failed", paid)
           \/ TxApplied(DeliverTx, tx) /\ Record(tx, "applied", paid)
    /\ UNCHANGED phase

AbciEndBlock ==
    /\ phase = "block"
    /\ phase' = "ended"
    /\ UNCHANGED <<ledgerVars, delivered, burned>>

AbciCommit ==
    /\ phase = "ended"
    /\ Commit
    /\ phase' = "idle"
    /\ UNCHANGED <<delivered, burned>>

Next ==
    /\ ~panicked
    /\ \/ \E tx \in Txs : AbciCheckTx(tx)
       \/ \E p \in Proposers, t \in Times : AbciBeginBlock(p, t)
       \/ \E tx \in Txs : AbciDeliverTx(tx)
       \/ AbciEndBlock
       \/ AbciCommit

Spec == ConsensusInit /\ [][Next]_vars

-----------------------------------------------------------------------------
(* The committed state, and the state of the newest consensus branch.      *)
Committed == View(vs, Main)

Tip == IF BranchExists(vs, DeliverTx) THEN View(vs, DeliverTx) ELSE Committed

(* The types of all variables, and the shape of the two height maps: the   *)
(* heights with a block are exactly the ones with a block hash.            *)
TypeOK ==
    /\ vs \in [BranchNames -> BranchOf(VersionNames, EvmState)]
    /\ DOMAIN blocks \subseteq Nat \ {0}
    /\ \A h \in DOMAIN blocks : blocks[h] \in Block
    /\ DOMAIN blockHashes = DOMAIN blocks
    /\ sb \in [BranchNames -> StateBranch]
    /\ panicked \in BOOLEAN
    /\ phase \in {"idle", "block", "ended"}
    /\ delivered \in Seq([tx : Txs, verdict : {"rejected", "failed", "applied"},
                          paid : Nat])
    /\ burned \in Nat

(* No pnk! of the ABCI handlers ever fires: refreshing the branches,       *)
(* naming the versions of a block, merging DeliverTx, popping the version  *)
(* of a failed transaction and charging its fee always succeed             *)
(* (consensus/mod.rs:157, 192; ledger/mod.rs:306, 321, 405-413).           *)
NoPanic == ~panicked

(* The name apply_tx or prepare_next_block is about to give a version is   *)
(* free on its branch, whatever was executed and popped there before, so a *)
(* valid transaction is never refused for its version (ledger/mod.rs:269). *)
TxVersionIsFree ==
    \A b \in BranchNames :
        BranchExists(vs, b) /\ ~(b = Main) => ~VersionExists(vs, b, TxVersion(b))

(* The nonce of an account counts the transactions of that account in all  *)
(* committed blocks and in the block in process: a failure leaves no trace *)
(* in either, a success leaves one in both (ledger/mod.rs:289-312).        *)
CountFrom(seq, a) == Cardinality({i \in 1..Len(seq) : seq[i].from = a})

InProcess == IF phase = "idle" THEN <<>> ELSE sb[DeliverTx].block.txs

NonceCountsTxs ==
    \A a \in Addr :
        Tip.accounts[a].nonce =
            MapThenSumSet(LAMBDA h : CountFrom(blocks[h].txs, a), DOMAIN blocks)
            + CountFrom(InProcess, a)

(* Fees are burned and nothing else: the balances of the consensus tip and *)
(* what was taken for fees so far add up to the genesis supply, so neither *)
(* an undone execution nor the merge creates or loses funds, and a fee the *)
(* sender cannot pay in full takes no more than the sender had             *)
(* (ledger/mod.rs:403-414, ethvm/impls/stack.rs:362-377).                  *)
FundsConserved == Supply(Tip) + burned = Supply(GenesisState)

Charged == {i \in 1..Len(delivered) : delivered[i].verdict \in {"failed", "applied"}}

(* The balance check covers the gas up to the limit and the value sent, so *)
(* charge_fee forgives no more than the gas used beyond the limit: what is *)
(* missing from a fee is at most the price of that gas, and a transaction  *)
(* within its limit pays in full (tx/mod.rs:244-273, ledger/mod.rs:403).   *)
Overrun(tx) == SaturatingSub(tx.gas, tx.limit)

FeesCovered ==
    \A i \in Charged :
        LET tx == delivered[i].tx
        IN  FeeUsed(tx) - delivered[i].paid =< tx.price * Overrun(tx)

(* Block h + 1 names the header hash of block h, the heights of the blocks *)
(* are 1..n without a hole, and block_hashes tells the EVM the same hash   *)
(* (ledger/mod.rs:224-228, 369-378).                                       *)
ChainLinked ==
    \A h \in DOMAIN blocks :
        /\ blocks[h].height = h
        /\ blocks[h].hash = HeaderHash(blocks[h])
        /\ blockHashes[h] = blocks[h].hash
        /\ blocks[h].prev = IF h = 1 THEN <<>> ELSE blocks[h - 1].hash

(* In a committed block the receipts are those of its transactions, each   *)
(* at its own index, all with the gas of the whole block, and the Merkle   *)
(* root covers the same transactions (ledger/mod.rs:293-303, 340-369).     *)
ReceiptsMatchTxs ==
    \A h \in DOMAIN blocks :
        LET b == blocks[h]
            gas == TxGas(b.txs)
        IN  /\ {tx \in Txs : b.receipts[tx] # NoReceipt} = Range(b.txs)
            /\ b.root = Append(b.txs, EmptyHash)
            /\ \A i \in 1..Len(b.txs) :
                 b.receipts[b.txs[i]] =
                     [index |-> i - 1, gas |-> b.txs[i].gas, blockGas |-> gas]

(* What the RPC reads of a committed height never changes: blocks are only *)
(* ever added, one at a time, by the commit that moves the committed state *)
(* from the state it had to the one DeliverTx reached, and no check of the *)
(* mempool nor any step inside a block moves it.                           *)
CommittedMovesByCommit ==
    [][\/ UNCHANGED <<Committed, blocks, blockHashes>>
       \/ /\ phase = "ended" /\ phase' = "idle"
          /\ Committed' = View(vs, DeliverTx)
          /\ DOMAIN blocks' = DOMAIN blocks \cup {LastBlockHeight + 1}
          /\ \A h \in DOMAIN blocks : blocks'[h] = blocks[h]]_vars

-----------------------------------------------------------------------------
(* The ledger implements the replicated state machine.                     *)

CommittedLog ==
    [h \in 1..LastBlockHeight |-> blocks[h].txs]

Machine == INSTANCE Chain WITH
    state    <- Committed,
    log      <- CommittedLog,
    env      <- sb[Main].vicinity,
    open     <- phase # "idle",
    work     <- IF phase = "idle" THEN Committed ELSE View(vs, DeliverTx),
    seen     <- sb[DeliverTx].vicinity,
    included <- InProcess

(* Every behaviour of the ABCI application is one of the replicated state  *)
(* machine: the branches, the versions popped and merged and the mempool   *)
(* checks are invisible to consensus.                                      *)
ImplementsChain == Machine!ChainSpec

-----------------------------------------------------------------------------
(* update_vicinity is documented as "update with each new block"           *)
(* (ethvm/mod.rs:104) and the vicinity as "Oneshot values for each evm     *)
(* transaction" (ethvm/mod.rs:33): the transactions of a block see the     *)
(* proposer and the timestamp of that block.                               *)
VicinityOfThisBlock ==
    phase = "block" =>
        /\ sb[DeliverTx].vicinity.time = sb[DeliverTx].block.time
        /\ sb[DeliverTx].vicinity.coinbase = sb[DeliverTx].block.proposer

(* pre_exec is to "ensure the transaction nonce is bigger than the last     *)
(* nonce" (ethvm/tx/mod.rs:52): of two executions of one sender in a block *)
(* that were both charged for, the later one has the bigger nonce.         *)
ChargedNoncesGrow ==
    \A i, j \in Charged :
        i < j /\ delivered[i].tx.from = delivered[j].tx.from =>
            delivered[i].tx.nonce < delivered[j].tx.nonce
=============================================================================
