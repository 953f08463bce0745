------------------------------ MODULE Recovery ------------------------------
(***************************************************************************)
(* One node over crashes and restarts: `ovr dev stop` is a kill -9         *)
(* (src/src/bins/ovr/dev.rs:548), so the process may die between any two   *)
(* writes.  The handlers of Consensus are taken apart at every write to    *)
(* the store; vs, blocks, blockHashes and the snapshot file survive, the   *)
(* StateBranches in memory do not, and Tendermint replays from its own     *)
(* block store what the node does not report as committed.                 *)
(*                                                                         *)
(* vsdb_flush is called once per block.  A crash may also lose the newest  *)
(* writes since that call; what is left then is what a crash right after   *)
(* the last write kept would have left, so dying between any two writes    *)
(* covers it.  A DeliverTx or CheckTx branch is thrown away by a restart,  *)
(* so a transaction on it is one write.                                    *)
(***************************************************************************)
EXTENDS Ledger

CONSTANTS
    Proposals,    \* the blocks Tendermint may decide
    CheckTxs,     \* the transactions the mempool checks
    CrashSites,   \* values of pc at which the process may die
    MaxHeight,    \* bound: blocks decided
    MaxCrashes    \* bound: crashes in a behaviour

ASSUME RecoveryAssumption ==
    /\ Proposals \subseteq [proposer : Proposers, time : Times, txs : Seq(Txs)]
    /\ CheckTxs \subseteq Txs
    /\ MaxHeight \in Nat
    /\ MaxCrashes \in Nat

VARIABLES
    pc,        \* what the node does next
    loading,   \* the branches are being refreshed by a restart
    cursor,    \* next transaction of the block to deliver
    snapshot,  \* the ledger snapshot file
    decided,   \* Tendermint: the blocks in its store
    acked,     \* Tendermint: the app hashes it was answered, by height
    crashes    \* number of crashes so far

recoveryVars == <<pc, loading, cursor, snapshot, decided, acked, crashes>>
vars == <<vs, blocks, blockHashes, sb, panicked,
          pc, loading, cursor, snapshot, decided, acked, crashes>>

NoSnapshot == [kind |-> "none"]
TornSnapshot == [kind |-> "torn"]
(* Faulty variant of Snapshot: the environment is not saved.               *)
SnapshotWithoutVicinity(branch) ==
    [kind |-> "saved", branch |-> [branch EXCEPT !.vicinity = DefaultVicinity]]

Snapshot(branch) == [kind |-> "saved", branch |-> branch]

RecoveryInit ==
    /\ Init
    /\ pc = "idle"
    /\ loading = FALSE
    /\ cursor = 1
    /\ snapshot = NoSnapshot
    /\ decided = <<>>
    /\ acked = <<>>
    /\ crashes = 0

Goto(from, to) ==
    /\ pc = from
    /\ pc' = to

Die == /\ Panic
       /\ pc' = "dead"
       /\ UNCHANGED <<loading, cursor, snapshot, decided, acked, crashes>>

(* A step of the handler at `from` that writes `store`, if the store lets  *)
(* it, and goes on at `to`; the handler panics otherwise.                  *)
WriteStep(from, to, possible, store) ==
    /\ pc = from
    /\ IF possible
       THEN /\ vs' = store
            /\ pc' = to
            /\ UNCHANGED <<blocks, blockHashes, panicked, loading, cursor,
                           snapshot, decided, acked, crashes>>
       ELSE Die

-----------------------------------------------------------------------------
(* Tendermint decides a block once the previous one is committed.          *)
Decide(proposal) ==
    /\ Len(decided) < MaxHeight
    /\ Len(acked) = Len(decided)
    /\ decided' = Append(decided, proposal)
    /\ UNCHANGED <<ledgerVars, pc, loading, cursor, snapshot, acked, crashes>>

NextBlock == decided[LastBlockHeight + 1]

-----------------------------------------------------------------------------
(* begin_block: refresh_branches, which a restart runs too ...             *)

BeginBlock ==
    /\ LastBlockHeight < Len(decided)
    /\ Goto("idle", "removeCheck")
    /\ UNCHANGED <<ledgerVars, loading, cursor, snapshot, decided, acked, crashes>>

RemoveCheck ==
    /\ WriteStep("removeCheck", "removeDeliver",
                 CanRemoveBranch(vs, CheckTx), RemoveBranch(vs, CheckTx))
    /\ UNCHANGED sb

RemoveDeliver ==
    /\ WriteStep("removeDeliver", "createDeliver", TRUE,
                 IF BranchExists(vs, DeliverTx) THEN RemoveBranch(vs, DeliverTx) ELSE vs)
    /\ UNCHANGED sb

CreateDeliver ==
    /\ WriteStep("createDeliver", "createCheck",
                 CanCreateBranch(vs, DeliverTx, Main), CreateBranch(vs, DeliverTx, Main))
    /\ UNCHANGED sb

(* ... and both branches get a copy of the State of Main.                  *)
CreateCheck ==
    /\ WriteStep("createCheck", IF loading THEN "loaded" ELSE "versionMain",
                 CanCreateBranch(vs, CheckTx, Main), CreateBranch(vs, CheckTx, Main))
    /\ sb' = IF CanCreateBranch(vs, CheckTx, Main)
             THEN [b \in BranchNames |-> [sb[b] EXCEPT !.vicinity = sb[Main].vicinity]]
             ELSE sb

(* The restart is over: the node listens.                                  *)
Loaded ==
    /\ Goto("loaded", "idle")
    /\ loading' = FALSE
    /\ UNCHANGED <<ledgerVars, cursor, snapshot, decided, acked, crashes>>

(* prepare_next_block on one branch.                                       *)
Prepare(b, from, to) ==
    LET ver == BlockVersion(1 + LastBlock.height)
    IN  /\ WriteStep(from, to, CanCreateVersion(vs, b, ver), CreateVersion(vs, b, ver))
        /\ sb' = IF CanCreateVersion(vs, b, ver)
                 THEN [sb EXCEPT ![b] =
                         [PreparedBranch(b, NextBlock.proposer, NextBlock.time)
                            EXCEPT !.vicinity = IF b = Main THEN @ ELSE sb[b].vicinity]]
                 ELSE sb

PrepareMain    == Prepare(Main, "versionMain", "versionDeliver")
PrepareDeliver == Prepare(DeliverTx, "versionDeliver", "versionCheck")
PrepareCheck   == Prepare(CheckTx, "versionCheck", "block")

-----------------------------------------------------------------------------
(* deliver_tx for each transaction of the decided block, then end_block.   *)
Deliver ==
    /\ pc = "block"
    /\ cursor =< Len(NextBlock.txs)
    /\ ApplyTx(DeliverTx, NextBlock.txs[cursor])
    /\ cursor' = cursor + 1
    /\ UNCHANGED <<pc, loading, snapshot, decided, acked, crashes>>

(* Faulty variant of EndBlock: waits for a transaction.                    *)
EndNonemptyBlock ==
    /\ Goto("block", "merge")
    /\ cursor > Len(NextBlock.txs) /\ cursor > 1
    /\ cursor' = 1
    /\ UNCHANGED <<ledgerVars, loading, snapshot, decided, acked, crashes>>

EndBlock ==
    /\ Goto("block", "merge")
    /\ cursor > Len(NextBlock.txs)
    /\ cursor' = 1
    /\ UNCHANGED <<ledgerVars, loading, snapshot, decided, acked, crashes>>

(* check_tx, which needs only the lock of its own branch.                  *)
Check(tx) ==
    /\ pc \in {"idle", "block", "merge", "storeHash", "storeBlock", "truncate", "write"}
    /\ ApplyTx(CheckTx, tx)
    /\ UNCHANGED recoveryVars

-----------------------------------------------------------------------------
(* commit: the merge, the two height maps, the flush and the snapshot.     *)

Merge ==
    /\ WriteStep("merge", "storeHash",
                 CanMerge(vs, DeliverTx, Main), MergeToParent(vs, DeliverTx, Main))
    /\ sb' = IF CanMerge(vs, DeliverTx, Main)
             THEN [sb EXCEPT
                     ![Main].hashes = Append(sb[DeliverTx].hashes, EmptyHash),
                     ![Main].block = Sealed(sb[DeliverTx]),
                     ![DeliverTx].hashes = sb[Main].hashes,
                     ![DeliverTx].block = sb[Main].block]
             ELSE sb

StoreHash ==
    /\ Goto("storeHash", "storeBlock")
    /\ blockHashes' = Insert(blockHashes, sb[Main].block.height, sb[Main].block.hash)
    /\ UNCHANGED <<vs, blocks, sb, panicked, loading, cursor, snapshot, decided, acked,
                   crashes>>

StoreBlock ==
    /\ Goto("storeBlock", "truncate")
    /\ blocks' = Insert(blocks, sb[Main].block.height, sb[Main].block)
    /\ sb' = [sb EXCEPT ![Main].block = DefaultBlock]
    /\ UNCHANGED <<vs, blockHashes, panicked, loading, cursor, snapshot, decided, acked,
                   crashes>>

(* fs::write empties the file before it fills it.                          *)
TruncateSnapshot ==
    /\ Goto("truncate", "write")
    /\ snapshot' = TornSnapshot
    /\ UNCHANGED <<ledgerVars, loading, cursor, decided, acked, crashes>>

(* Faulty variant of Acknowledge: every answer is another height.          *)
AcknowledgeAgain(height, hash) == acked' = Append(acked, hash)

(* Tendermint keeps the first answer it had for a height.                  *)
Acknowledge(height, hash) ==
    acked' = IF Len(acked) < height THEN Append(acked, hash) ELSE acked

WriteSnapshot ==
    /\ Goto("write", "idle")
    /\ snapshot' = Snapshot(sb[Main])
    /\ Acknowledge(LastBlockHeight, LastBlock.hash)
    /\ UNCHANGED <<ledgerVars, loading, cursor, decided, crashes>>

-----------------------------------------------------------------------------
(* The process dies: what is in memory is gone.                            *)
Crash ==
    /\ pc \in CrashSites
    /\ crashes < MaxCrashes
    /\ pc' = "down"
    /\ loading' = FALSE
    /\ cursor' = 1
    /\ crashes' = crashes + 1
    /\ sb' = NewStateBranches
    /\ UNCHANGED <<vs, blocks, blockHashes, panicked, snapshot, decided, acked>>

(* Faulty variant of StartNew: a snapshot is not looked for.               *)
StartAlwaysNew ==
    /\ Goto("down", "idle")
    /\ vs' = NewStore
    /\ blocks' = <<>>
    /\ blockHashes' = <<>>
    /\ UNCHANGED <<sb, panicked, loading, cursor, snapshot, decided, acked, crashes>>

(* App::load_or_create without a snapshot: a new ledger in new storage.    *)
StartNew ==
    /\ snapshot = NoSnapshot
    /\ Goto("down", "idle")
    /\ vs' = NewStore
    /\ blocks' = <<>>
    /\ blockHashes' = <<>>
    /\ UNCHANGED <<sb, panicked, loading, cursor, snapshot, decided, acked, crashes>>

(* Faulty variant of CleanedUp: the version of the lost block stays.       *)
NotCleanedUp == vs

(* StateBranch::clean_up                                                   *)
CleanedUp ==
    IF VersionExists(vs, Main, BlockVersion(1 + LastBlockHeight))
    THEN PopVersion(vs, Main)
    ELSE vs

(* Ledger::load_from_snapshot up to loading_refresh; Tendermint asks info. *)
StartFromSnapshot ==
    /\ snapshot # NoSnapshot
    /\ IF snapshot = TornSnapshot
       THEN /\ pc = "down"
            /\ Die
       ELSE /\ Goto("down", "removeCheck")
            /\ vs' = CleanedUp
            /\ sb' = [b \in BranchNames |-> snapshot.branch]
            /\ loading' = TRUE
            /\ Acknowledge(LastBlockHeight, LastBlock.hash)
            /\ UNCHANGED <<blocks, blockHashes, panicked, cursor, snapshot, decided,
                           crashes>>

-----------------------------------------------------------------------------
NodeStep ==
    \/ BeginBlock \/ RemoveCheck \/ RemoveDeliver \/ CreateDeliver \/ CreateCheck
    \/ Loaded
    \/ PrepareMain \/ PrepareDeliver \/ PrepareCheck
    \/ Deliver \/ EndBlock
    \/ Merge \/ StoreHash \/ StoreBlock \/ TruncateSnapshot \/ WriteSnapshot
    \/ StartNew \/ StartFromSnapshot

Next ==
    /\ ~panicked
    /\ \/ NodeStep
       \/ \E p \in Proposals : Decide(p)
       \/ \E tx \in CheckTxs : Check(tx)
       \/ Crash

(* Tendermint keeps calling, an operator restarts a node that is down, and *)
(* a handler that has begun goes on: the next step of the node is taken.   *)
Spec == RecoveryInit /\ [][Next]_vars /\ WF_vars(NodeStep)

-----------------------------------------------------------------------------
(* The states in which no handler is half way through its writes.          *)
Quiet == pc \in {"idle", "block", "merge"}

(* The process dies between two handlers, before the first write of one,   *)
(* while the versions of a block are created, or inside a block.           *)
SafeSites == {"idle", "removeCheck", "loaded", "versionMain", "versionDeliver",
              "versionCheck", "block", "merge"}

(* The state a node that never crashed has after the first n decided       *)
(* blocks, with the environment it then hands to the next one.             *)
ReplayBlock(acc, block) ==
    [state |-> FoldLeft(LAMBDA st, tx : Outcome(tx, st, acc.env), acc.state, block.txs),
     env   |-> [number |-> acc.height, coinbase |-> block.proposer, time |-> block.time],
     height |-> acc.height + 1]

Replay(n) ==
    FoldLeft(ReplayBlock,
             [state |-> GenesisState, env |-> DefaultVicinity, height |-> 0],
             SubSeq(decided, 1, n))

(* The variables that are new here have the values their comments say, and *)
(* what Tendermint was answered is never ahead of what it decided.         *)
TypeOK ==
    /\ pc \in {"idle", "removeCheck", "removeDeliver", "createDeliver", "createCheck",
               "loaded", "versionMain", "versionDeliver", "versionCheck", "block", "merge",
               "storeHash", "storeBlock", "truncate", "write", "down", "dead"}
    /\ loading \in BOOLEAN
    /\ cursor \in Nat \ {0}
    /\ snapshot \in {NoSnapshot, TornSnapshot} \cup
                    [kind : {"saved"}, branch : StateBranch]
    /\ decided \in Seq(Proposals)
    /\ acked \in Seq(Hash)
    /\ Len(acked) =< Len(decided)
    /\ crashes \in 0..MaxCrashes

(* Whatever the crashes, a node that is up has the state every other node  *)
(* has after the same blocks: recovery neither keeps a part of a block nor *)
(* executes it in another environment (ledger/mod.rs:245-257, 471-491).    *)
CommittedIsReplay ==
    Quiet => View(vs, Main) = Replay(LastBlockHeight).state

(* An app hash Tendermint was answered is never taken back: when the node  *)
(* is up again and has the height, it reports the same hash                *)
(* (consensus/mod.rs:75-95, 191-197).                                      *)
AckedHashesStand ==
    \A h \in DOMAIN blocks \cap 1..Len(acked) : blocks[h].hash = acked[h]

(* A block Tendermint was told is committed is never lost: a node that is  *)
(* up has it, so Tendermint need not replay it (consensus/mod.rs:75-95).   *)
AckedBlocksStay == Quiet => Len(acked) =< LastBlockHeight

(* Every write of a handler and of a restart succeeds, so neither panics   *)
(* and the node comes up again (consensus/mod.rs:157, 192;                 *)
(* bins/ovrd/daemon.rs:16).                                                *)
NeverDies == ~panicked

(* A block Tendermint has decided is committed in the end.                 *)
DecidedIsCommitted ==
    \A h \in 1..MaxHeight :
        Len(decided) >= h ~> (pc = "idle" /\ LastBlockHeight >= h)

(* update_vicinity is to "update with each new block" (ethvm/mod.rs:104):  *)
(* between blocks the environment is the one of the last block.            *)
VicinityOfLastBlock ==
    pc = "idle" /\ LastBlockHeight > 0 =>
        /\ sb[Main].vicinity.time = LastBlock.time
        /\ sb[Main].vicinity.coinbase = LastBlock.proposer
=============================================================================
