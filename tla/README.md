# A TLA+ model of OVR

OVR is a blockchain node: an ABCI application that Tendermint drives, which
executes Ethereum transactions on a versioned key-value store (the crate
`vsdb`) and answers the Web3 JSON-RPC from the same store. The modules here
model how the node keeps its books: which branch and version of the store every
handler writes, what a failed transaction leaves behind, what a block records,
and what a node finds when it comes up again after a crash. Paths below are
relative to the repository's root (`ledger/mod.rs` is `src/ledger/mod.rs`
there).

## 1. Inventory

| Component | Code | State | Operations | Correct when |
|---|---|---|---|---|
| Ledger | `ledger/mod.rs` | three branches of the store (`Main`, `DeliverTx`, `CheckTx`) with a `StateBranch` in memory each; `blocks`, `block_hashes`; the snapshot file | `apply_tx`, `consensus_refresh`, `loading_refresh`, `commit`, `load_from_snapshot` | no operation meets an error it cannot handle; the committed state moves with a commit only; blocks are linked and say what was executed |
| Consensus application | `consensus/mod.rs` | none of its own | `info`, `init_chain`, `check_tx`, `begin_block`, `deliver_tx`, `end_block`, `commit`, `load_or_create` | every node that executes the same blocks has the same state, whatever its mempool did and however often it crashed |
| EVM transaction | `ethvm/tx/mod.rs` | none | `pre_exec` (price, signature, nonce, balance), `exec`, fee | nonces count transactions, funds are conserved up to the fees, and a fee is covered by what admission required |
| EVM state | `ethvm/mod.rs` | accounts, storage, block hashes, vicinity | `update_vicinity`, `call_contract` | a transaction sees the environment of its block |
| EVM substate stack | `ethvm/impls/stack.rs` | nested overlays: accounts, storages, deletes, logs | `enter`, `exit_commit`, `exit_revert`, `exit_discard`, reads, writes | a nested call that commits or reverts has the effect a copy of the whole state would have |
| EVM backend | `ethvm/impls/backend.rs` | none (reads and writes a branch) | reads, `apply` | the branch shows what the overlay showed |
| Web3 RPC | `rpc/*.rs`, `common/mod.rs` | temporary branches of the store | reads at a height, `call`, queries of blocks, transactions, receipts and logs | a read sees committed state only, leaves nothing behind, and disturbs no other read; the queries agree with each other |
| Development environment | `bins/ovr/dev.rs` | directories, configuration files, the cache of ports | create, destroy, start, stop, add and delete a node | no port is given to two nodes; a command that fails leaves something the next one can handle |
| Envelope, staking, precompiles, token, configuration, client, pack | `tx`, `ledger/staking`, `ethvm/precompile`, `ethvm/tx/token`, `cfg`, `bins` | none that changes | | |

How they interact. Tendermint has two connections to the application: on the
consensus connection it calls `begin_block`, `deliver_tx` for each transaction,
`end_block`, `commit`, one after the other; on the mempool connection it calls
`check_tx` at any time. The two run on different threads and meet at the locks
of the three `StateBranch`es: `begin_block` takes all three, `deliver_tx` and
`check_tx` one each, `commit` those of `Main` and `DeliverTx`. Both execution
handlers call the same `apply_tx`, on different branches. `apply_tx` creates a
version of its branch, lets the EVM run against it, and either records the
transaction or pops the version and takes the fee. `commit` merges `DeliverTx`
into `Main`, seals the block and stores it. The RPC reads the same store on
temporary branches.

What is hard here: the interleaving of the mempool with consensus; versions
that must never be named twice although failures pop them; the hand-over of the
block in process from one `StateBranch` to another; a commit that is six writes
with no transaction around them, and a process that is stopped with `kill -9`
(`bins/ovr/dev.rs:548`); an environment (`vicinity`) that lives in memory and in
the snapshot but not in the store; temporary branches with shared names; a
cache file several commands rewrite.

The full list, each item at its line, is `hazards` in `PROJECT.json`.

## 2. The modules

    Vsdb      EvmTx             the store; one transaction against one state
       \     /     \
       Ledger      Chain        the ledger's operations; the abstract machine
       /     \      |
  Consensus  Recovery           handlers in one step each; write by write, with crashes
      |          |    \
  MCConsensus MCRecovery \      instances for TLC
                          \
       Web3 (on Ledger) -- Rpc  what blocks answer; the servers beside the node
                            |
                          MCRpc
  OvrStack -- StateStack        one transaction from the inside; what it promises
      |
   MCStack                      an instance for TLC

  DevEnv -- MCDevEnv            commands on environments of local nodes

  proofs, each extending the module it is about:
  LedgerProofs, FoldProofs      lemmas the others share
  ConsensusProofs, AccountProofs, RecoveryProofs, RpcProofs, StackProofs, DevEnvProofs

**Vsdb** is the store as OVR uses it. The crate is not part of the repository,
so it is read off the calls: a branch is what it inherited when it was created
(`base`) followed by its own versions, and a version carries the whole state the
branch shows with it. `Can...` is the condition under which the crate answers
Ok: a version name can be used once per branch, a branch that exists cannot be
created and one that does not cannot be removed, a write needs a version.
A merge appends the child's versions to the parent's and removes the child.
Branches that were created before the genesis balances are written see them,
because both stand in the initial version.

**EvmTx** is `pre_exec`, the effect of `exec` and the fee. The interpreter is
external; what a transaction does in it is a field of the transaction:
`transfer`, `stamp` (a contract that stores the environment it sees, the way one
reading TIMESTAMP does), or `revert`. Accounts carry nonce and balance; `known`
is the set of addresses the store has an account for, which decides whether
`charge_fee` panics. The gas a transaction uses is a field of its own and is not
bounded by its `limit`: the gasometer starts at `u64::MAX` (`ethvm/tx/mod.rs:102`)
and the intrinsic cost is not part of the limit the call gets. So the fee can be
more than `check_balance` made sure of, and then `charge_fee` takes what is left
(`SaturatingSub`). Balances and fees are U256: the credit of a transfer saturates
(`SaturatingAdd`), and a product beyond a U256 panics (`CanCharge`).

**Ledger** has one operator or action per function of `ledger/mod.rs`. The
variables: `vs` is the store, `sb[b]` the `StateBranch` of branch b
(`hashes` is `tx_hashes_in_process`, `block` is `block_in_process`, `vicinity`
the part of its copy of `State` that is not versioned), `blocks` and
`blockHashes` the two maps by height, which have no versions. `panicked` says
that a `pnk!` has fired. `apply_tx` is the disjunction of its three outcomes:
`TxRejected` (Err(None)), `TxFailed` (Err(Some)), `TxApplied` (Ok). A header
hash is the sequence of header contents it is computed from, so two hashes are
equal exactly when all the headers before are.

**Consensus** runs those operations as the handlers of the application, one step
each, in the order Tendermint calls them (`phase`). `delivered` and `burned` are
history variables: the transactions of the block with their verdict and what they
paid, and what was taken for fees in all. What is paid is what `charge_fee` takes
(`FeePaid`), which is less than the fee when the sender has less.

**Chain** is the abstract specification: a replicated state machine with one
state, a working copy, and no branches, versions or mempool.
`Consensus!ImplementsChain` is the refinement: `state` is what `Main` shows,
`work` what `DeliverTx` shows, `log` the transactions of the stored blocks.

**Recovery** takes the handlers apart: one step per write to the store, to the
maps or to the snapshot file, with `pc` naming the next one. A write to the
store is an operation of `State` here: creating a version, removing a branch or
merging is one step, although the derived code goes through the versioned fields
one by one (`Rpc` takes the requests' operations apart field by field, not
these). A crash may happen at any `pc` in `CrashSites`, and loses `sb`; a
restart is `StartNew` or `StartFromSnapshot` followed by `loading_refresh`.
Tendermint decides blocks, replays those the node does not report, and remembers
the app hash it was first answered for every height (`acked`). A crash may also
lose writes since the last `vsdb_flush`; the model assumes the store keeps a
prefix of its writes, and then what is left is what a crash right after the last
of that prefix would have left.

**OvrStack** looks inside one execution, which `EvmTx` takes as a whole.
`frames` is the stack of `OvrStackSubstate`s, the running call's last; an entry
a substate does not have is `Unset`. `backend` is the branch of the store the
transaction runs on. The read and write operators have the names of the methods
of `OvrStackSubstate` and `OvrStackState`; an action is one instruction of the
external interpreter with the calls of `StackState` it makes (CREATE: the nonce
of the creator, `enter`, the collision check, `reset_storage`, the transfer, the
nonce of the created contract). `Finish` is `deconstruct` and `apply`. Which
instructions a contract runs is left open: any, in any order. `forgot` is a
history variable: for each substate, the accounts whose reset a commit undid.

**StateStack** is the abstract specification of it: every call works on a whole
state of its own, copied from its caller's and handed over by a call that
succeeds. `OvrStack!ImplementsStateStack` is the refinement; `Shown(n)` is the
state the first n substates show together.

**Web3** has the handlers of `rpc/eth.rs` that answer from the stored blocks, as
operators of `blocks` and `blockHashes`: what height a `BlockNumber` means
(`BlockNumberToHeight`), blocks by hash and by number, counts, transactions by
hash and by position, receipts, and logs by block hash or by range with the
bloom in front. A transaction's hash is the transaction; the logs its execution
emits are the constant `Emits`; a bloom is the set of what was accrued to it, so
it has no false positives.

**Rpc** extends `Recovery` and adds the servers. A method that reads "at a
height" creates a branch named after its prefix and the height
(`rollback_to_height`), names a version on it, reads, and removes the branch. The
operations of a `State` on branches visit its versioned fields in order and stop
at the first error, so creation and removal are a step per field: `chain` stands
for the ledger's own versioned values, `gas` for the parameters of the EVM,
`fuel` for accounts and storages. `req[s]` is the request a server works on,
`temp` the temporary branches with the server that made them. The reads name no
branch, or `Main`, so they never see the temporary one
(`DefaultBranchState`). `CrashNode` and `StartNewNode` compose the crashes of
`Recovery` with the requests. `since` and `seen` in `req`, and `disturbed`, are
history.

**DevEnv** is `ovr dev`: for each environment the configuration file, the
processes, and the command that works on it (`job`), which has a copy of the
configuration and a copy of the port cache. `PortsCache::set` and `rm` are three
steps, load, truncate and write; a write begins at the start of the file, so it
covers what another command wrote since the truncation only as far as it is long
(`Garbled`). `Draw` draws one port; `port_is_free` binds a UDP socket with
`ReusePort` and refuses nothing the nodes hold, so a port is free when the cache
does not have it. `KillFails` is the shell pipeline of `Node::stop` with no
process to kill: with the xargs of GNU it fails, and `stop` returns before it
gives the ports back. `stale`, `released` and `dropped` are history: ports a
command got wrong because its copy of the cache was old or that it took while
they were taken, ports taken out of the cache that a node still has, ports of
nodes that were given up.

Definitions whose comment begins with "Faulty variant of" are used by no
specification. Each is the named definition with a plausible bug; substituted
for it, it makes the property `PROJECT.json` lists it for fail, which is how we
know that the property looks at something.

## 3. What the runs check

`consensus` (`MCConsensus.cfg`; 30,794 states): two accounts, one of them
unknown to the store at first; seven transactions; two blocks of up to two
transactions; one proposer, two timestamps. The seven transactions cover the
outcomes of `apply_tx`: a transfer that makes the other account known, a failure
with the same nonce that uses more gas than its limit and pays for all of it, a
contract call with the next nonce, a transaction of the new account that uses
three times its limit and has a third of the fee left, one below the gas price,
one whose cost would wrap around to nothing, and a native one. Two blocks are
needed for a link and for an environment that differs from the default; two
transactions per block for a position above 1 and a failure before a success.
The mempool may check any transaction in between, any number of times.

| Property | Says |
|---|---|
| `TypeOK` | types, and the two height maps have the same heights |
| `NoPanic` | no `pnk!` fires |
| `TxVersionIsFree` | the next version's name is free, so no valid transaction is refused for it |
| `NonceCountsTxs` | a nonce is the number of the account's transactions in blocks |
| `FundsConserved` | balances and what was taken for fees add up to the genesis supply |
| `FeesCovered` | what is missing from a fee is at most the price of the gas used beyond the limit |
| `ChainLinked` | heights without a hole, each block naming the one before, the EVM's hashes the same |
| `ReceiptsMatchTxs` | receipts, transactions and Merkle root of a block agree |
| `CommittedMovesByCommit` | the committed state and the blocks change in commit only, and to what `DeliverTx` had |
| `ImplementsChain` | the ledger refines the replicated state machine |

`recovery` (`MCRecovery.cfg`; 18,358 states): three decided blocks out of three
proposals (two failures and a success; two contract calls that record their
environment; an empty one), two crashes, a gas price of zero so that an account
the store does not know may submit. The crash sites are those from which a
node recovers: between two handlers, before the first write of a handler,
between the version creations of `begin_block`, and anywhere in a block. Two
crashes are needed for one to happen during the replay after another. Checked:
`NeverDies`, `CommittedIsReplay` (the state is the one a node that never crashed
has), `AckedHashesStand` and `AckedBlocksStay` (nothing that was answered is
taken back), `VicinityOfLastBlock`, and the liveness property
`DecidedIsCommitted`.

Fairness: `WF_vars(NodeStep)`. `NodeStep` is enabled whenever a handler is half
way, whenever a decided block has not been executed, and when the node is down.
Tendermint calls the handlers of a decided block until it is committed, a
handler that has begun goes on unless the process dies, and an operator starts
a node that is down; nothing is assumed of `Decide`, `Check` and `Crash`. The
number of crashes is bounded, which is the usual assumption that crashes stop.

`stack` (`MCStack.cfg`; 25,472 states): a sender, a contract, and an address at
which a contract stands, or stood and left its storage behind; one slot with two
values, a supply of one, two transactions with four instructions in all (ends of
calls not counted), four substates. Four instructions are enough to create, call
or delegate, write, and fail or return at each level in any order; the two
initial stores stand for what earlier transactions leave. Checked:
`ImplementsStateStack` (overlays are a stack of full states), `EmptyAsShown`
(`is_empty` answers for the account as it is shown), `AppliedAsShown` (what the
store has afterwards, exactly), `TypeOK`. `CHECK_DEADLOCK` is off because the
transactions end.

The refinement holds with one exception that the mapping names. When a commit
appends a child's accounts over its parent's (`stack.rs:160`), the copy a child
made of an account the parent had reset carries no flag (`stack.rs:300`), so the
reset is forgotten. That shows only where the backend has storage at the address
of a new contract, which it has after a deletion (`backend.rs:173` removes the
account and leaves its storage): a contract created where one was destroyed, and
called or delegating before the transaction ends, sees the old one's storage.
Nothing in the repository says otherwise in words, so there is no run for it; the
mapping replaces just those reads (`Promised`), and without that replacement TLC
reports a violation after four steps.

`rpc` (`MCRpc.cfg`; 336,164 states up to exchanging the servers): two servers;
`call` at height 1 and `estimate_gas` at the newest, which share a prefix and so
collide exactly when the newest is 1; `transaction_by_block_number_and_index`,
which does not clean up; one block of two transactions decided twice, so that the
second has none recorded and no receipt; mempool checks of one transaction; one
crash before a merge, which in the first block leads to a new ledger and in the
second to a start from the snapshot. Two heights are needed for a read to be
asked for an old one and for a collision to come and go; two servers suffice for
collisions, since a third meets the same branch. The methods outside the
instance differ from these in their prefix and what they read.

| Property | Says |
|---|---|
| `RpcTypeOK` | types, and a field has a name once |
| `BranchStaysForItsRequest` | from its creation to its removal a branch is its request's own in every field, whoever asks for the same height meanwhile |
| `LeftBehindHasCause` | a branch nobody works with was left by one of the two methods that remove on the wrong `State`, or two requests wanted its name at once, or a crash cut its request |
| `AnswersAreCommitted` | each read gives the state after a whole number of decided blocks, at least those published when the request came |
| `LookupsAgree` | transaction by hash, by position and receipt name the same block and position |
| `BlockQueriesAgree` | block by hash and by number agree but for gas and bloom, which the first alone gives and which are those of the block's transactions; parents link downwards, counts count |
| `LogsAgree` | a range finds what the blocks of it have, one by one, and all of it |

`BranchStaysForItsRequest` is the reason why a collision does no harm but to the
request that comes second: it is refused, and what it had created stays
(`LeftBehindHasCause`), so the name is lost for later requests as well. The block
queries are checked right after `StoreBlock`, the only step that changes blocks.

`devenv` (`MCDevEnv.cfg`; 1,195,918 states up to exchanging the ports): the default
environment and another, three ports to draw and two reserved ones, two ports a
node, three commands. Three commands are enough to create two environments at
once and stop one, to create, stop and start, or to create, attach and kick;
three ports are scarce enough for draws to fail, and for a port that was given
back to be drawn again. A seed and a full node stand for all kinds, validators
come by `attach_node`. `CHECK_DEADLOCK` is off because the commands run out.

| Property | Says |
|---|---|
| `SharedPortsHaveCause` | two nodes, configured or running, share a port only if a copy of the cache was old, a stop gave the port back, or the node was given up |
| `UsedPortsAreCached` | a configured port is in the cache, but for those causes |
| `CachedPortsAreUsed` | a port in the cache belongs to a node or a command, but for those causes |
| `RunningIsConfigured` | every process is a node of its environment's configuration, or was given up |
| `StopLeavesNone` | a stop or destroy without an error leaves no process of its nodes, a kick none of the node it took out |

Each of the causes happens: without `stale` or `released` the first three
properties are violated at once (create on both environments at the same time;
create, stop, create the other), and `dropped` is needed for ports whose
`create` failed half way. A command that starts when none runs
meets none of them unless it follows a stop, an error or a second `create`.

Seven runs show a disagreement between the code and what the repository says of
it; `findings` in `PROJECT.json` quotes the lines.

| Run | Shows |
|---|---|
| `vicinity` | transactions see the environment of the block before theirs |
| `nonce` | a failed transaction can be included and charged again |
| `crash_merge` | a crash between the merge and the storing of the block: the replay panics |
| `crash_refresh` | a crash while `CheckTx` does not exist: the node cannot start |
| `crash_snapshot` | a crash between flush and snapshot: the vicinity of the last block is lost |
| `stack_zero` | a slot set to zero keeps its old value in the store |
| `rpc_leak` | a method removes its branch on another `State` than it created it on; the branch stays |

Two more crash sites kill the node in the model and have no run of their own:
a snapshot that is truncated and not yet written (`pc = "write"`), and the
steps of `refresh_branches` after the first, which are `crash_refresh` again.

## 4. What is proved

Eight modules hold the proofs; each theorem is for every value of the constants
that satisfies the named assumptions of the modules, and none is taken on trust.
`PROJECT.json` lists the theorems a reader should know of.

**LedgerProofs** has the lemmas on `Vsdb`, `EvmTx` and `Ledger` that both node
specifications need: popping a version that was just created gives back the
store there was before (`PopCreated`), one transaction keeps a good state
(`GoodState`: whoever has a balance is known to the store, and the balances add up
to no more than the genesis supply), what each operation does to each branch; a nonce that was used stays used, so nothing in a block could be
admitted again (`NoncesStayUsed`, `AdmittedIsNew`); and what the record of the
block in process has at each point and what `seal` makes of it: receipts in
order, gas that adds up, the Merkle root (`RecordComplete`, `RecordSealed`,
`GasWithinBlock`). **FoldProofs** has the lemmas about `FoldLeft` and the sums of
the community modules. These are defined by recursion over sets, and the
induction over data that the provers cannot do is replaced by an induction over
natural numbers that shows that *some* function satisfies the recursion and that
two such functions agree (`FoldLeftIs`). `CountUnion` counts a union of sets of
which no two meet.

**ConsensusProofs** and **AccountProofs** are about `Consensus`.
`NoPanic` alone is not inductive. A handler panics when a version name is taken,
when a branch is missing, or when a fee is due from an account the store does
not know. So `Inv` adds: the names on `DeliverTx` and `CheckTx` are at most
(height of the block in process, number of transactions recorded for it), and
those on `Main` have at most the height of the chain, plus one inside a block
(`InvNames`); the branches each phase needs exist, and the block in process has
the next height (`InvOpen`, `InvStore`); the heights are an interval
(`InvBlocks`); and whoever has a balance is known. `deliver_tx` and `check_tx`
share `ApplyTxKeeps`, stated for either branch. On top of `Inv`:

- `TypesHold`, `NeverPanics`, `NamesAreFresh`, `CommittedMoves` follow from it;
- `Refinement` (`Spec => ImplementsChain`) goes handler by handler: each is a
  step of `Chain` or a stutter of what it sees;
- `Linked` adds that the block in process names the hash of the last block;
- `NoncesCount` and `FundsKept` carry an equation between the accounts of the
  state being executed and the blocks or the fees taken (`TipShown`, with the sums
  as lemmas). For the funds, no bound on the gas is assumed; what `charge_fee`
  takes leaves the sum, be it the fee or all there was (`ChargeFeeSupply`), and a
  transfer adds to the recipient what it took from the sender: the sum is at most
  the genesis supply, so the credit does not saturate (`ExecAccounts`,
  `ExecSupply`);
- `FeesAreCovered` is the lemma `FeePaidTaken` for every entry of `delivered`:
  after the value has been sent the sender has at least price times limit;
- `ReceiptsMatch` adds `OpenRecord`: what the record of the block in process has
  before it is sealed, and that no transaction in it could be admitted again.

**RecoveryProofs** is about the node with crashes. `RecInv` says for every place
between two writes what is in the files, the store and the memory: the stored
blocks are decided ones and `blockHashes` is one ahead only at `storeBlock`
(`RecFiles`); which handlers a place can belong to (`RecControl`); which branches
and names exist (`RecBranches`, `RecNames`: a version of the next block that a
crash left behind shows what the one below it shows, and is popped); `Main` shows
the replay of the stored blocks, `DeliverTx` as much of the next one as the
cursor says (`RecState`); and which environment and which record are in memory
(`RecEnv`, `RecRecord`). From it: `ComesUpAgain`, `ReplaysTheChain`,
`HashesStand`, `BlocksStay`, `KeepsTheVicinity`, `RecoveryTypes`. These theorems
have one hypothesis besides the assumptions, `CrashSites \subseteq SafeSites`:
the process dies between two handlers, before the first write of one, between the
version creations of `begin_block`, or inside a block. The hypothesis is needed:
the runs `crash_merge`, `crash_refresh` and `crash_snapshot` die at three other
places and break the properties there.

`ChainInv` (`BlocksAreAChain`, under the same hypothesis) says what the stored
blocks are: each is sealed on the one before it (`SealedOn`: it names that hash,
its own covers it, its receipts are those of its transactions), the map of hashes
the EVM sees agrees with them, and no transaction is in two (`Apart`), nor in a
stored block and the one in process. The last is the hard part. A replay executes
a block again, so "it was executed" is no argument; what is used instead is that
the nonces of the stored blocks' transactions are used in what `Main` shows and,
while a block is open, in what `DeliverTx` shows (`NoncesUsed`), and that no
transaction, merge or crash takes a nonce back.
`RecInv` and `ChainInv` were both checked by TLC before they were proved, on the
instance of the run `recovery`.

**RpcProofs** is about the composition. `TempInv` ties every request to the
temporary branches the store has: what a request holds at its stage is there
under its name and made by its server (`HoldsItsOwn`), a name nobody disturbed
has no more than that (`HoldsNoMore`), and a field has a name once. It needs no
assumption about crashes, and gives `BranchesStay` and `LeftoversHaveCause`.
`NodeUndisturbed` shows that the servers take no step of the node, so
`RecInv` holds of the composed system too (`RecoverableBesideRequests`), and
with `Answerable` (no request is of height 0 or came in after what is merged)
gives `ReadsCommitted` and `RpcTypes`.
`ChainInv` holds beside the requests in the same way (`ChainBesideRequests`), and
the queries are answered from it, so that these theorems have its hypothesis too.
`BlockQueries`: a hash names one height, because it covers the header with the
height in it (`HashNamesBlock`); the gas every receipt of a sealed block has and
the bloom of the hashes in it are those of its transactions (`BlockTotals`). `Lookups`: a transaction has one place among the
blocks, so the search from the first block and the one from the last meet
(`TxPlace`). `Logs`: a log a filter matches is in the bloom of its block
(`BloomKeeps`), so a skipped block has none; and two logs found differ by their
block, their transaction or their index in it, so they can be counted
(`TxLogsCounted`, `BlockLogsCounted`, `AllLogsCounted`).
What the code pushes in a loop is a `FoldLeft` in `Web3` (`Pushed`), and the
matches are counted by a fold: `FoldProofs` can follow it, where the prover has no
definition of `SelectSeq`.

**DevEnvProofs** is about `DevEnv`. `DevInv` says what a command's copy of the
configuration has to do with the file at each stage (`JobsOK`), that a killed
node is not running (`KilledGone`), what the cache file has, or what one of the
commands about to write it has while it is truncated (`CacheHasHeld`,
`CacheIsOwned`), and that all nodes there are, configured, running or in a
command's copy, have ports of their own but for the recorded causes
(`NodesApart`). From it follow the port properties; `StopsLeaveNone` is an action
property.

**StackProofs** is about `OvrStack`: `StackRefinement` shows that it implements
`StateStack`, `AppliedShown` what the store has afterwards, `EmptyShown` that
`is_empty` answers for the account as it is shown. Every operation works on the
innermost substate of `Append(lower, f)`, and what the stack shows (`Look`) is
computed from what `lower` shows and from `f`, so the operations are followed one
substate at a time. The invariant `StackInv` says how each substate stands on
those below (`Fits`): an address in use stays in use (`UsedStays`); one not in
use has at least the balance of the backend (`FundsStay`); a running contract
and every address with a slot are in use (`ContextInUse`, `SlotsInUse`); and
below a reset nothing is known of the account (`NothingUnderReset`). The last is
what a commit over a reset needs, and it holds because a contract is created only
at an address that is not in use. `FundsStay` is what `known_empty` needs where it
asks the backend about an account of which the substates know the balance but not
the code.

The assumptions, which TLC evaluates in every run: `ConstantsAssumption`,
`BoundsAssumption`, `RecoveryAssumption`, `Web3Assumption`, `RpcAssumption` and
`StackAssumption` give the constants their types (a request names a block by
one of the forms of `BlockNumber`); `TxsAssumption` gives the transactions
theirs, with any gas; `AddrAssumption` says that there are finitely many
accounts, without which there is no supply to conserve; `SupplyAssumption` that
the genesis supply is a U256, and so is the price of the used gas of any
transaction with a price that is not beyond this supply. The code does not check
either. Used gas is a u64, so a genesis file that hands out less than 2^192 in all
satisfies both; the one `ovr dev` writes gives 10^27 to an account
(`bins/ovr/dev.rs:763`). With a larger one, `gas_used * gas_price` can panic
(`ethvm/tx/mod.rs:213`), and `NeverPanics` would be false;
`DevEnvAssumption` that a node needs at least one port, that reserved ports are
not drawn, and that ids have a base.

Only model-checked:

- `DecidedIsCommitted`, since fairness and ENABLED are out of the prover's reach;
- the violations, which are counterexamples of small instances by nature.

## 5. What is not modelled, and why

- Signatures and encodings: a transaction's sender is a field of it.
- The interpreter, gas metering and precompiles: external crates; their effect is
  a field of the transaction.
- Bloom bits and Merkle arithmetic: functions of what is modelled.
- `init_chain`'s contracts (`inital_create2`): part of the genesis state.
- `btm_snapshot`: a call of an external tool with no effect on the node's state.
- Staking (empty) and native transactions (always refused).
- In the substate stack: gas metadata (a commit whose gas cannot be recorded) and
  the accessed lists, which are absent under the Istanbul configuration; the
  difference between an empty account in the store and none.
- Of the RPC: methods that answer a constant or a parameter, `syncing` (a question
  to Tendermint), and `author`, which answers the vicinity of the `State` that was
  cloned when the servers started. A call with gas price 0 panics before it does
  anything (`ethvm/mod.rs:55`).
- In a log: `transactionIndex` and `logIndex` are 0 in the model as in the code
  (`ledger/mod.rs:297`); no property is about them.
- Of the development environment: the genesis file, Tendermint's configurations
  and the seeds; two commands at once on one environment; an interrupted command;
  a `start` whose process cannot be forked (`Launch` always succeeds); that the
  ports of one node differ from each other, which nothing in the code ensures
  (`Draw` takes such draws; the properties are about different nodes).
- A crash between two fields of one operation on the store's branches (see
  `Recovery` in section 2).
- Option parsing, `pack` and the client: no state that changes.

A read at a height answers the newest state (`AnswersAreCommitted` has no upper
bound but what is merged), since the temporary branch is created from `Main` as
it is and the read does not use it; and the reads of one `eth_call` may lie on
both sides of a merge. The repository does not say otherwise, so neither is a
run. The same holds of what `devenv` shows of ports, but for the sentence
"make sure all names and ports are unique" (`bins/ovr/dev.rs:4`):
`SharedPortsHaveCause` states exactly how far it is true.

## 6. Plan

1. `Recovery` as an implementation of `Chain`, as `Consensus` is one: a crash
   between two writes takes the working copy back, which `Chain` has no step for.
2. The packed binary's layout as a pure operator; the initial contracts.
