--------------------------- MODULE ConsensusProofs ---------------------------
(***************************************************************************)
(* Proofs about Consensus, for every set of accounts and transactions and  *)
(* every bound.                                                            *)
(*                                                                         *)
(* The argument that no handler ever panics is about names: a version      *)
(* cannot be created twice on a branch.  The names on DeliverTx and on     *)
(* CheckTx never run ahead of the block in process and of the transactions *)
(* recorded for it, and the names on Main never run ahead of the chain;    *)
(* that, with the branches each phase needs and with the fact that whoever *)
(* owns something has an account, is the inductive invariant Inv.          *)
(*                                                                         *)
(* The ledger under the ABCI calls implements the replicated state machine *)
(* of Chain: every step of Consensus is one step of the machine or leaves  *)
(* its variables alone.                                                    *)
(***************************************************************************)
EXTENDS Consensus, LedgerProofs

Delivered == Seq([tx : Txs, verdict : {"rejected", "failed", "applied"}, paid : Nat])

InvOpen ==
    phase # "idle" =>
        /\ BranchExists(vs, DeliverTx)
        /\ HasVersions(vs, DeliverTx)
        /\ sb[DeliverTx].block.height = LastBlockHeight + 1

InvNames ==
    /\ \A i \in 1..Len(vs[Main].vers) :
          vs[Main].vers[i].name[1] =<
              LastBlockHeight + (IF phase = "idle" THEN 0 ELSE 1)
    /\ \A b \in {DeliverTx, CheckTx} :
          BranchExists(vs, b) =>
              NamesUpTo(vs[b].vers, sb[b].block.height, Len(sb[b].hashes))

Inv ==
    /\ InvStore
    /\ InvBlocks
    /\ InvOpen
    /\ InvNames
    /\ sb \in [BranchNames -> StateBranch]
    /\ panicked = FALSE
    /\ phase \in {"idle", "block", "ended"}
    /\ delivered \in Delivered
    /\ burned \in Nat

-----------------------------------------------------------------------------
(* The initial state and the steps other than commit.                      *)

LEMMA InitInv == ConsensusInit => Inv
<1> SUFFICES ASSUME ConsensusInit PROVE Inv
  OBVIOUS
<1> USE BranchNamesDistinct
<1> DEFINE V == [name : VersionNames, state : GoodState]
           first == Version(InitialVersion, GenesisState)
<1>1. /\ vs = NewStore /\ blocks = <<>> /\ blockHashes = <<>>
      /\ sb = NewStateBranches /\ panicked = FALSE
      /\ phase = "idle" /\ delivered = <<>> /\ burned = 0
  BY DEF ConsensusInit, Init
<1>2. GenesisState \in GoodState
  BY GenesisGood
<1>3. first \in V /\ first.name[1] = 0
  BY <1>2, VersionNamesPairs DEF Version
<1>4. <<first>> \in Seq(V) /\ Len(<<first>>) = 1 /\ <<first>>[1] = first
  BY <1>3
<1>5. /\ vs[Main] = [base |-> GenesisState, vers |-> <<first>>]
      /\ vs[DeliverTx] = Branch(GenesisState)
      /\ vs[CheckTx] = Branch(GenesisState)
  BY <1>1 DEF NewStore
<1>6. InvStore
  <2> HIDE DEF first
  <2>1. vs[Main] \in BranchOf(VersionNames, GoodState)
    BY <1>2, <1>4, <1>5 DEF BranchOf
  <2>2. Branch(GenesisState) \in BranchOf(VersionNames, GoodState)
    BY <1>2, EmptySeq DEF BranchOf, Branch
  <2>3. vs = [b \in BranchNames |-> vs[b]]
    BY <1>1 DEF NewStore
  <2>4. vs \in Store
    BY <1>5, <2>1, <2>2, <2>3 DEF Store, BranchNames
  <2> QED BY <1>5, <2>4 DEF InvStore, BranchExists, NoBranch, Branch
<1>7. InvBlocks /\ LastBlockHeight = 0
  BY <1>1 DEF InvBlocks, LastBlockHeight, LastKey
<1>8. InvOpen
  BY <1>1 DEF InvOpen
<1>9. InvNames
  <2> HIDE DEF first
  <2>1. \A i \in 1..Len(vs[Main].vers) : vs[Main].vers[i].name[1] =< 0
    BY <1>3, <1>4, <1>5
  <2>2. Len(vs[DeliverTx].vers) = 0 /\ Len(vs[CheckTx].vers) = 0
    BY <1>5 DEF Branch
  <2> QED BY <1>1, <1>7, <2>1, <2>2 DEF InvNames, NamesUpTo
<1>10. delivered \in Delivered
  BY <1>1, EmptySeq DEF Delivered
<1> QED BY <1>1, <1>6, <1>7, <1>8, <1>9, <1>10, DefaultsType DEF Inv

(* Either branch a transaction is executed on is ready for it.             *)
LEMMA ReadyBranch ==
    ASSUME Inv, NEW b \in {DeliverTx, CheckTx}, BranchExists(vs, b)
    PROVE  BranchReady(b)
BY DEF BranchReady, Inv, InvStore, InvNames

(* What is true of the ledger survives an execution on b.                  *)
LEMMA LedgerKeeps ==
    ASSUME Inv, NEW b \in {DeliverTx, CheckTx}, NEW tx \in Txs, BranchReady(b)',
           OthersUnchanged(b), Executes(b, tx), phase' = phase
    PROVE  /\ InvStore' /\ InvBlocks' /\ InvOpen' /\ InvNames'
           /\ sb' \in [BranchNames -> StateBranch]
           /\ panicked' = FALSE
<1> USE BranchNamesDistinct
<1>1. /\ \A c \in BranchNames : c # b => vs'[c] = vs[c] /\ sb'[c] = sb[c]
      /\ sb'[b].block.height = sb[b].block.height
      /\ blocks' = blocks /\ blockHashes' = blockHashes
  BY DEF OthersUnchanged
<1>2. /\ vs' \in Store /\ BranchExists(vs', b)
      /\ sb' \in [BranchNames -> StateBranch]
      /\ NamesUpTo(vs'[b].vers, sb'[b].block.height, Len(sb'[b].hashes))
      /\ panicked' = FALSE
  BY DEF BranchReady
<1>3. LastBlockHeight' = LastBlockHeight
  BY <1>1 DEF LastBlockHeight
<1>4. \A c \in BranchNames : BranchExists(vs, c) => BranchExists(vs', c)
  BY <1>1, <1>2 DEF BranchExists
<1>5. InvStore'
  BY <1>2, <1>4 DEF Inv, InvStore
<1>6. InvBlocks'
  BY <1>1, <1>3 DEF Inv, InvBlocks
<1>7. InvOpen'
  <2>1. HasVersions(vs, DeliverTx) => HasVersions(vs', DeliverTx)
    BY <1>1 DEF Executes, HasVersions
  <2> QED BY <1>1, <1>3, <1>4, <2>1 DEF Inv, InvOpen
<1>8. InvNames'
  <2>1. vs'[Main] = vs[Main]
    BY <1>1
  <2>2. \A c \in {DeliverTx, CheckTx} : BranchExists(vs', c) =>
            NamesUpTo(vs'[c].vers, sb'[c].block.height, Len(sb'[c].hashes))
    BY <1>1, <1>2 DEF Inv, InvNames, BranchExists
  <2> QED BY <1>3, <2>1, <2>2 DEF Inv, InvNames
<1> QED BY <1>2, <1>5, <1>6, <1>7, <1>8

LEMMA CheckTxStep ==
    ASSUME Inv, NEW tx \in Txs, AbciCheckTx(tx)
    PROVE  Inv'
<1>1. ApplyTx(CheckTx, tx) /\ UNCHANGED <<phase, delivered, burned>>
  BY DEF AbciCheckTx
<1>2. BranchReady(CheckTx)
  BY ReadyBranch DEF Inv, InvStore
<1>3. BranchReady(CheckTx)' /\ OthersUnchanged(CheckTx) /\ Executes(CheckTx, tx)
  BY <1>1, <1>2, ApplyTxKeeps
<1>4. /\ InvStore' /\ InvBlocks' /\ InvOpen' /\ InvNames'
      /\ sb' \in [BranchNames -> StateBranch]
      /\ panicked' = FALSE
  BY <1>1, <1>3, LedgerKeeps
<1> QED BY <1>1, <1>4 DEF Inv

(* What an admitted transaction pays leaves the supply, whatever is left   *)
(* of the fee; and at most the gas used beyond the limit is left unpaid.   *)
LEMMA FeePaidTaken ==
    ASSUME NEW tx \in Txs, NEW st \in GoodState, NEW vicinity \in Vicinity,
           Admissible(tx, st)
    PROVE  /\ FeePaid(tx, st, vicinity) \in Nat
           /\ Supply(Outcome(tx, st, vicinity)) = Supply(st) - FeePaid(tx, st, vicinity)
           /\ FeeUsed(tx) - FeePaid(tx, st, vicinity) =< tx.price * Overrun(tx)
<1> DEFINE done == IF ExecSucceeds(tx) THEN Exec(tx, st, vicinity) ELSE st
           fee == FeeUsed(tx)
           paid == FeePaid(tx, st, vicinity)
           balance == done.accounts[tx.from].balance
<1>1. /\ tx.from \in Addr /\ fee \in Nat
      /\ tx.price \in Nat /\ tx.limit \in Nat /\ tx.gas \in Nat /\ tx.value \in Nat
  BY TxFields, FeeUsedNat
<1>2. done \in GoodState /\ done \in EvmState /\ Supply(done) = Supply(st)
  BY ExecGood, ExecSupply, GoodFunds
<1>3. tx.price * tx.limit =< balance /\ balance \in Nat
  <2>1. /\ tx.price * tx.limit \in Nat
        /\ tx.price * tx.limit + tx.value =< st.accounts[tx.from].balance
        /\ st.accounts[tx.from].balance \in Nat
    BY <1>1, AdmissibleFunds, GoodFunds, BalancesNat
  <2>2. balance \in Nat
    BY <1>1, <1>2, BalancesNat
  <2>3. CASE ExecSucceeds(tx)
    <3>1. balance = st.accounts[tx.from].balance - tx.value
                                + (IF tx.from = tx.to THEN tx.value ELSE 0)
      BY <1>1, <2>3, ExecAccounts
    <3> HIDE DEF done
    <3> QED BY <1>1, <2>1, <2>2, <3>1
  <2>4. CASE ~ExecSucceeds(tx)
    <3>1. balance = st.accounts[tx.from].balance
      BY <2>4
    <3> HIDE DEF done
    <3> QED BY <1>1, <2>1, <2>2, <3>1
  <2> QED BY <2>3, <2>4
<1>4. paid = Taken(done, tx.from, fee) /\ paid = IF fee =< balance THEN fee ELSE balance
  BY DEF FeePaid, Taken
<1>5. Outcome(tx, st, vicinity) = ChargeFee(done, tx.from, fee)
  BY DEF Outcome
<1> HIDE DEF done, fee, paid, balance
<1>6. Supply(Outcome(tx, st, vicinity)) = Supply(st) - paid /\ paid \in Nat
  <2>1. /\ Supply(ChargeFee(done, tx.from, fee)) = Supply(done) - Taken(done, tx.from, fee)
        /\ Taken(done, tx.from, fee) \in Nat
    BY <1>1, <1>2, ChargeFeeSupply
  <2> QED BY <1>2, <1>4, <1>5, <2>1
<1>7. fee - paid =< tx.price * Overrun(tx)
  <2> DEFINE over == Overrun(tx)
             upTo == tx.price * tx.limit
  <2>1. over \in Nat /\ tx.gas =< tx.limit + over
    BY <1>1 DEF Overrun, SaturatingSub
  <2>2. \A p, g, l, o \in Nat :
           g =< l + o => /\ p * g =< p * l + p * o
                         /\ p * g \in Nat /\ p * l \in Nat /\ p * o \in Nat
    OBVIOUS
  <2>3. fee = tx.gas * tx.price /\ tx.gas * tx.price = tx.price * tx.gas
    BY <1>1 DEF fee, FeeUsed
  <2> HIDE DEF over
  <2>4. /\ fee =< upTo + tx.price * over
        /\ upTo \in Nat /\ tx.price * over \in Nat
    BY <1>1, <2>1, <2>2, <2>3
  <2> DEFINE beyond == tx.price * over
  <2>5. fee =< upTo + beyond /\ upTo \in Nat /\ beyond \in Nat /\ upTo =< balance
    BY <1>3, <2>4
  <2> HIDE DEF upTo, beyond
  <2>6. fee - paid =< beyond
    BY <1>1, <1>3, <1>4, <2>5
  <2> QED BY <2>6 DEF over, beyond
<1> QED BY <1>6, <1>7 DEF fee, paid

(* What DeliverTx notes of a transaction: it pays if it is admitted.       *)
LEMMA DeliverTxRecord ==
    ASSUME Inv, NEW tx \in Txs, AbciDeliverTx(tx)
    PROVE  LET st == View(vs, DeliverTx)
               admitted == Admissible(tx, st)
               paid == IF admitted
                       THEN FeePaid(tx, st, sb[DeliverTx].vicinity)
                       ELSE 0
           IN  /\ st \in GoodState /\ sb[DeliverTx].vicinity \in Vicinity
               /\ paid \in Nat
               /\ \E verdict \in {"rejected", "failed", "applied"} :
                     /\ verdict # "rejected" => admitted
                     /\ Record(tx, verdict, paid)
<1> USE BranchNamesDistinct
<1> DEFINE st == View(vs, DeliverTx)
           vicinity == sb[DeliverTx].vicinity
<1>1. BranchReady(DeliverTx)
  BY ReadyBranch DEF AbciDeliverTx, Inv, InvOpen
<1>2. st \in GoodState /\ vicinity \in Vicinity
  BY <1>1, TxVersionCreated DEF Inv, StateBranch
<1>3. /\ CanCreateVersion(vs, DeliverTx, TxVersion(DeliverTx))
      /\ Admitted(DeliverTx, tx) = Admissible(tx, st)
  BY <1>1, TxVersionFree, TxVersionCreated DEF BranchReady, Admitted
<1>4. Admissible(tx, st) => FeePaid(tx, st, vicinity) \in Nat
  BY <1>2, FeePaidTaken
<1> HIDE DEF st, vicinity
<1>5. \/ ~Admissible(tx, st) /\ Record(tx, "rejected", 0)
      \/ Admissible(tx, st) /\ Record(tx, "failed", FeePaid(tx, st, vicinity))
      \/ Admissible(tx, st) /\ Record(tx, "applied", FeePaid(tx, st, vicinity))
  <2>1. \/ TxRejected(DeliverTx, tx) /\ Record(tx, "rejected", 0)
        \/ /\ TxFailed(DeliverTx, tx)
           /\ Record(tx, "failed", FeePaid(tx, st, vicinity))
        \/ /\ TxApplied(DeliverTx, tx)
           /\ Record(tx, "applied", FeePaid(tx, st, vicinity))
    BY DEF AbciDeliverTx, st, vicinity
  <2>2. TxRejected(DeliverTx, tx) => ~Admissible(tx, st)
    BY <1>3 DEF TxRejected
  <2>3. TxFailed(DeliverTx, tx) \/ TxApplied(DeliverTx, tx) => Admissible(tx, st)
    BY <1>3 DEF TxFailed, TxApplied
  <2> QED BY <2>1, <2>2, <2>3
<1> QED BY <1>2, <1>4, <1>5 DEF st, vicinity

LEMMA DeliverTxStep ==
    ASSUME Inv, NEW tx \in Txs, AbciDeliverTx(tx)
    PROVE  Inv'
<1>1. /\ phase = "block" /\ phase' = phase
      /\ ApplyTx(DeliverTx, tx)
  BY DEF AbciDeliverTx, ApplyTx
<1>2. BranchReady(DeliverTx)
  BY <1>1, ReadyBranch DEF Inv, InvOpen
<1>3. BranchReady(DeliverTx)' /\ OthersUnchanged(DeliverTx) /\ Executes(DeliverTx, tx)
  BY <1>1, <1>2, ApplyTxKeeps
<1>4. /\ InvStore' /\ InvBlocks' /\ InvOpen' /\ InvNames'
      /\ sb' \in [BranchNames -> StateBranch]
      /\ panicked' = FALSE
  BY <1>1, <1>3, LedgerKeeps
<1>5. delivered' \in Delivered /\ burned' \in Nat
  <2>1. PICK verdict \in {"rejected", "failed", "applied"}, paid \in Nat :
           Record(tx, verdict, paid)
    BY DeliverTxRecord
  <2> QED BY <2>1, AppendProperties DEF Inv, Delivered, Record
<1> QED BY <1>1, <1>4, <1>5 DEF Inv

LEMMA EndBlockStep ==
    ASSUME Inv, AbciEndBlock
    PROVE  Inv'
<1>1. /\ phase = "block" /\ phase' = "ended"
      /\ UNCHANGED <<vs, blocks, blockHashes, sb, panicked, delivered, burned>>
  BY DEF AbciEndBlock, ledgerVars
<1>2. LastBlockHeight' = LastBlockHeight
  BY <1>1 DEF LastBlockHeight
<1> QED
  BY <1>1, <1>2
  DEF Inv, InvStore, InvBlocks, InvOpen, InvNames, BranchExists, HasVersions, NamesUpTo

-----------------------------------------------------------------------------
(* begin_block.                                                            *)

LEMMA BeginBlockStep ==
    ASSUME Inv, NEW p \in Proposers, NEW t \in Times, AbciBeginBlock(p, t)
    PROVE  Inv'
<1> USE BranchNamesDistinct
<1> DEFINE store == RefreshBranches(vs)
           h == LastBlockHeight + 1
           new == PrepareVersions(store, h)
           v(b) == Version(VsVersion(h, 0), View(store, b))
<1>1. /\ phase = "idle" /\ phase' = "block" /\ delivered' = <<>> /\ burned' = burned
      /\ ConsensusRefresh(p, t)
  BY DEF AbciBeginBlock
<1>2. /\ LastBlockHeight \in Nat /\ h \in Nat
      /\ 1 + LastBlock.height = h
  BY LastBlockType DEF Inv, InvBlocks
<1>3. /\ CanRefreshBranches(vs) /\ store \in Store /\ store[Main] = vs[Main]
      /\ \A b \in {DeliverTx, CheckTx} : BranchExists(store, b) /\ store[b].vers = <<>>
  BY RefreshBranchesType DEF Inv
<1> HIDE DEF store
<1>4. \A b \in BranchNames : BranchExists(store, b)
  BY <1>3 DEF Inv, InvStore, BranchExists, BranchNames
<1>5. VsVersion(h, 0) \in VersionNames /\ VsVersion(h, 0)[1] = h /\ VsVersion(h, 0)[2] = 0
  BY <1>2, VersionNamesPairs
<1>6. \A b \in BranchNames : store[b].vers \in Seq([name : VersionNames, state : GoodState])
  BY <1>3, <1>4, LiveBranch DEF Store, BranchExists
<1>7. \A i \in 1..Len(vs[Main].vers) : /\ vs[Main].vers[i].name[1] =< LastBlockHeight
                                       /\ vs[Main].vers[i].name \in VersionNames
  <2>1. vs[Main].vers \in Seq([name : VersionNames, state : GoodState])
    BY <1>3, <1>6
  <2>2. \A i \in 1..Len(vs[Main].vers) : vs[Main].vers[i].name \in VersionNames
    BY <2>1, NamesOfVersions
  <2>3. \A i \in 1..Len(vs[Main].vers) : vs[Main].vers[i].name[1] =< LastBlockHeight + 0
    BY <1>1 DEF Inv, InvNames
  <2> QED BY <1>2, <2>2, <2>3
<1>8. CanPrepare(store, h)
  <2>1. ~VersionExists(store, Main, VsVersion(h, 0))
    BY <1>2, <1>3, <1>5, <1>7 DEF VersionExists, VersionNames
  <2>2. \A b \in {DeliverTx, CheckTx} : ~VersionExists(store, b, VsVersion(h, 0))
    BY <1>3 DEF VersionExists
  <2> QED
    BY <1>4, <2>1, <2>2, VersionNamesPairs DEF CanPrepare, CanCreateVersion, BranchNames
<1>9. /\ vs' = new
      /\ sb' = [b \in BranchNames |-> PreparedBranch(b, p, t)]
      /\ UNCHANGED <<blocks, blockHashes, panicked>>
  BY <1>1, <1>2, <1>3, <1>8 DEF ConsensusRefresh, store
<1>10. /\ new \in Store
       /\ \A b \in BranchNames : /\ BranchExists(new, b)
                                 /\ new[b].vers = Append(store[b].vers, v(b))
                                 /\ HasVersions(new, b)
  BY <1>2, <1>3, <1>4, PrepareVersionsType
<1> HIDE DEF new
<1>11. \A b \in BranchNames : v(b) \in [name : VersionNames, state : GoodState]
                             /\ v(b).name = VsVersion(h, 0)
  BY <1>3, <1>4, <1>5, ViewType DEF Version, Store
<1>12. LastBlockHeight' = LastBlockHeight
  BY <1>9 DEF LastBlockHeight
<1>13. \A b \in BranchNames : /\ sb'[b] \in StateBranch
                             /\ sb'[b].hashes = <<>>
                             /\ sb'[b].block.height = h
  BY <1>2, <1>9, PreparedBranchType DEF Inv
<1> HIDE DEF v
<1>14. InvStore'
  BY <1>9, <1>10 DEF InvStore
<1>15. InvBlocks'
  BY <1>9, <1>12 DEF Inv, InvBlocks
<1>16. InvOpen'
  BY <1>9, <1>10, <1>12, <1>13 DEF InvOpen
<1>17. InvNames'
  <2>2. \A i \in 1..Len(new[Main].vers) : new[Main].vers[i].name[1] =< h
    <3> DEFINE s == store[Main].vers
               w == new[Main].vers
    <3>1. /\ Len(w) = Len(s) + 1 /\ Len(s) \in Nat
          /\ \A i \in 1..Len(s) : w[i] = s[i]
          /\ w[Len(s) + 1] = v(Main)
      <4>1. /\ s \in Seq([name : VersionNames, state : GoodState])
            /\ v(Main) \in [name : VersionNames, state : GoodState]
            /\ w = Append(s, v(Main))
        BY <1>6, <1>10, <1>11
      <4> HIDE DEF s, w
      <4> QED BY <4>1, AppendProperties, LenProperties
    <3>2. \A i \in 1..Len(s) : s[i].name[1] =< LastBlockHeight /\ s[i].name[1] \in Nat
      BY <1>3, <1>7 DEF VersionNames
    <3> SUFFICES ASSUME NEW i \in 1..Len(w) PROVE w[i].name[1] =< h
      OBVIOUS
    <3>3. CASE i = Len(s) + 1
      <4>1. w[i] = v(Main) /\ v(Main).name[1] = h
        BY <1>5, <1>11, <3>1, <3>3
      <4> QED BY <1>2, <4>1
    <3>4. CASE i \in 1..Len(s)
      <4>1. w[i].name[1] =< LastBlockHeight /\ w[i].name[1] \in Nat
        BY <3>1, <3>2, <3>4
      <4> QED BY <1>2, <4>1
    <3> HIDE DEF s, w
    <3> QED BY <3>1, <3>3, <3>4
  <2>3. \A b \in {DeliverTx, CheckTx} : NamesUpTo(new[b].vers, h, 0)
    <3> TAKE b \in {DeliverTx, CheckTx}
    <3>1. /\ <<>> \in Seq([name : VersionNames, state : GoodState])
          /\ NamesUpTo(<<>>, h, 0)
          /\ new[b].vers = Append(<<>>, v(b))
      BY <1>3, <1>10, EmptySeq DEF NamesUpTo
    <3>2. /\ v(b) \in [name : VersionNames, state : GoodState]
          /\ v(b).name[1] = h /\ v(b).name[2] = 0
      BY <1>5, <1>11
    <3>3. NamesUpTo(Append(<<>>, v(b)), h, 0)
      <4>1. h \in Nat /\ 0 \in Nat /\ h =< h /\ 0 =< 0
        BY <1>2
      <4> HIDE DEF h
      <4> QED BY <3>1, <3>2, <4>1, NamesUpToAppend
    <3> QED BY <3>1, <3>3
  <2> QED BY <1>1, <1>9, <1>12, <1>13, <2>2, <2>3, EmptySeq DEF InvNames
<1>18. sb' \in [BranchNames -> StateBranch]
  BY <1>9, <1>13
<1>19. delivered' \in Delivered
  BY <1>1, EmptySeq DEF Delivered
<1> QED BY <1>1, <1>9, <1>14, <1>15, <1>16, <1>17, <1>18, <1>19 DEF Inv

-----------------------------------------------------------------------------
(* commit.                                                                 *)

LEMMA CommitStep ==
    ASSUME Inv, AbciCommit
    PROVE  Inv'
<1> USE BranchNamesDistinct
<1> DEFINE h == LastBlockHeight + 1
           block == Sealed(sb[DeliverTx])
           hashes == Append(sb[DeliverTx].hashes, EmptyHash)
<1>1. /\ phase = "ended" /\ phase' = "idle" /\ Commit
      /\ delivered' = delivered /\ burned' = burned
  BY DEF AbciCommit
<1>2. /\ vs \in Store /\ LastBlockHeight \in Nat
      /\ BranchExists(vs, Main) /\ BranchExists(vs, CheckTx) /\ BranchExists(vs, DeliverTx)
      /\ sb \in [BranchNames -> StateBranch]
      /\ sb[DeliverTx].block.height = h
  BY <1>1 DEF Inv, InvStore, InvBlocks, InvOpen
<1>3. CanMerge(vs, DeliverTx, Main)
  BY <1>2 DEF CanMerge
<1>4. /\ block \in Block /\ block.height = h
      /\ hashes \in Seq(TxHash)
  BY <1>2, SealedType
<1> HIDE DEF hashes, block
<1>5. /\ vs' = MergeToParent(vs, DeliverTx, Main)
      /\ sb' = [sb EXCEPT ![Main].hashes = hashes,
                          ![Main].block = DefaultBlock,
                          ![DeliverTx].hashes = sb[Main].hashes,
                          ![DeliverTx].block = sb[Main].block]
      /\ blockHashes' = Insert(blockHashes, h, block.hash)
      /\ blocks' = Insert(blocks, h, block)
      /\ panicked' = panicked
  BY <1>1, <1>3, <1>4 DEF Commit, hashes, block
<1>6. /\ vs' \in Store
      /\ vs'[CheckTx] = vs[CheckTx]
      /\ ~BranchExists(vs', DeliverTx)
      /\ BranchExists(vs', Main)
      /\ vs'[Main].vers = vs[Main].vers \o vs[DeliverTx].vers
  <2>1. vs \in [BranchNames -> BranchOf(VersionNames, GoodState)]
    BY <1>2 DEF Store
  <2>2. vs' = MergeToParent(vs, DeliverTx, Main)
    BY <1>5
  <2>3. vs' \in Store /\ ~BranchExists(vs', DeliverTx) /\ BranchExists(vs', Main)
    BY <1>3, <2>1, <2>2, MergeType DEF Store
  <2>4. vs'[CheckTx] = vs[CheckTx]
    BY <2>1, <2>2 DEF MergeToParent
  <2>5. vs[Main] \in [base : GoodState, vers : Seq([name : VersionNames, state : GoodState])]
    BY <1>2, <2>1, LiveBranch DEF BranchExists
  <2>6. vs'[Main].vers = vs[Main].vers \o vs[DeliverTx].vers
    BY <2>1, <2>2, <2>5 DEF MergeToParent
  <2> QED BY <2>3, <2>4, <2>6
<1> DEFINE newBlocks == Insert(blocks, h, block)
           newHashes == Insert(blockHashes, h, block.hash)
<1>inserted. /\ DOMAIN newBlocks = DOMAIN blocks \cup {h}
             /\ DOMAIN newHashes = DOMAIN blockHashes \cup {h}
             /\ newBlocks[h] = block
             /\ \A k \in DOMAIN blocks : k # h => newBlocks[k] = blocks[k]
  BY DEF Insert
<1>stored. blocks' = newBlocks /\ blockHashes' = newHashes
  BY <1>5
<1> HIDE DEF newBlocks, newHashes
<1>7. LastBlockHeight' = h /\ DOMAIN blocks' = 1..h /\ DOMAIN blockHashes' = 1..h
  <2>1. DOMAIN blocks = 1..LastBlockHeight /\ DOMAIN blockHashes = 1..LastBlockHeight
    BY DEF Inv, InvBlocks
  <2>2. 1..LastBlockHeight \cup {h} = 1..h
    BY <1>2
  <2>3. DOMAIN blocks' = 1..h /\ DOMAIN blockHashes' = 1..h
    BY <1>inserted, <1>stored, <2>1, <2>2
  <2>4. LastKey(blocks') = h
    BY <1>2, <2>3, LastKeyOfInterval
  <2> QED BY <2>3, <2>4 DEF LastBlockHeight
<1>8. InvStore'
  BY <1>2, <1>6 DEF InvStore, BranchExists
<1>9. InvBlocks'
  <2>1. DOMAIN blocks = 1..LastBlockHeight
        /\ \A k \in DOMAIN blocks : blocks[k] \in Block /\ blocks[k].height = k
    BY DEF Inv, InvBlocks
  <2>2. \A k \in DOMAIN blocks' : blocks'[k] \in Block /\ blocks'[k].height = k
    <3> SUFFICES ASSUME NEW k \in DOMAIN blocks'
                 PROVE  blocks'[k] \in Block /\ blocks'[k].height = k
      OBVIOUS
    <3>1. CASE k = h
      BY <1>4, <1>inserted, <1>stored, <3>1
    <3>2. CASE k # h
      <4>1. k \in DOMAIN blocks
        BY <1>inserted, <1>stored, <3>2
      <4>2. blocks'[k] = blocks[k]
        BY <1>inserted, <1>stored, <3>2, <4>1
      <4> QED BY <2>1, <4>1, <4>2
    <3> QED BY <3>1, <3>2
  <2> QED BY <1>2, <1>7, <2>2 DEF InvBlocks
<1>10. InvOpen'
  BY <1>1 DEF InvOpen
<1>11. InvNames'
  <2> DEFINE s == vs[Main].vers
             t == vs[DeliverTx].vers
  <2>1. /\ s \in Seq([name : VersionNames, state : GoodState])
        /\ t \in Seq([name : VersionNames, state : GoodState])
    BY <1>2, LiveBranch DEF Store, BranchExists
  <2>2. \A i \in 1..Len(s) : s[i].name[1] =< h
    BY <1>1 DEF Inv, InvNames
  <2>3. \A i \in 1..Len(t) : t[i].name[1] =< h
    BY <1>2 DEF Inv, InvNames, NamesUpTo
  <2> HIDE DEF s, t, h
  <2>4. \A i \in 1..Len(s \o t) : (s \o t)[i].name[1] =< h
    BY <2>1, <2>2, <2>3, ConcatProperties, LenProperties
  <2>5. vs'[Main].vers = s \o t
    BY <1>6 DEF s, t
  <2>6. /\ sb'[CheckTx] = sb[CheckTx]
        /\ vs'[CheckTx] = vs[CheckTx]
        /\ NamesUpTo(vs[CheckTx].vers, sb[CheckTx].block.height, Len(sb[CheckTx].hashes))
    BY <1>2, <1>5, <1>6 DEF Inv, InvNames
  <2>7. \A i \in 1..Len(vs'[Main].vers) :
           vs'[Main].vers[i].name[1] =< h + (IF phase' = "idle" THEN 0 ELSE 1)
    BY <1>1, <1>2, <2>4, <2>5 DEF h
  <2> QED BY <1>6, <1>7, <2>6, <2>7 DEF InvNames
<1>12. sb' \in [BranchNames -> StateBranch]
  <2>1. [sb[Main] EXCEPT !.hashes = hashes, !.block = DefaultBlock] \in StateBranch
    BY <1>2, <1>4, DefaultsType DEF StateBranch
  <2>2. [sb[DeliverTx] EXCEPT !.hashes = sb[Main].hashes, !.block = sb[Main].block]
            \in StateBranch
    BY <1>2 DEF StateBranch
  <2>3. sb' = [sb EXCEPT
                 ![Main] = [sb[Main] EXCEPT !.hashes = hashes, !.block = DefaultBlock],
                 ![DeliverTx] = [sb[DeliverTx] EXCEPT !.hashes = sb[Main].hashes,
                                                      !.block = sb[Main].block]]
    BY <1>2, <1>5
  <2> QED BY <1>2, <2>1, <2>2, <2>3
<1> QED BY <1>1, <1>5, <1>8, <1>9, <1>10, <1>11, <1>12 DEF Inv

-----------------------------------------------------------------------------
(* The theorems.                                                           *)

LEMMA StepInv == Inv /\ [Next]_vars => Inv'
<1> SUFFICES ASSUME Inv, [Next]_vars PROVE Inv'
  OBVIOUS
<1>1. CASE UNCHANGED vars
  <2>1. UNCHANGED <<vs, blocks, blockHashes, sb, panicked, phase, delivered, burned>>
    BY <1>1 DEF vars
  <2>2. LastBlockHeight' = LastBlockHeight
    BY <2>1 DEF LastBlockHeight
  <2> QED
    BY <2>1, <2>2
    DEF Inv, InvStore, InvBlocks, InvOpen, InvNames, BranchExists, HasVersions, NamesUpTo
<1>2. CASE \E tx \in Txs : AbciCheckTx(tx)
  BY <1>2, CheckTxStep
<1>3. CASE \E p \in Proposers, t \in Times : AbciBeginBlock(p, t)
  BY <1>3, BeginBlockStep
<1>4. CASE \E tx \in Txs : AbciDeliverTx(tx)
  BY <1>4, DeliverTxStep
<1>5. CASE AbciEndBlock
  BY <1>5, EndBlockStep
<1>6. CASE AbciCommit
  BY <1>6, CommitStep
<1> QED BY <1>1, <1>2, <1>3, <1>4, <1>5, <1>6 DEF Next

(* Inv is an inductive invariant of the ABCI application.                  *)
THEOREM Invariant == Spec => []Inv
<1>1. ConsensusInit => Inv
  BY InitInv
<1>2. Inv /\ [Next]_vars => Inv'
  BY StepInv
<1> QED BY <1>1, <1>2, PTL DEF Spec

(* No handler of the ABCI application ever panics.                         *)
THEOREM NeverPanics == Spec => []NoPanic
<1>1. Inv => NoPanic
  BY DEF Inv, NoPanic
<1> QED BY <1>1, Invariant, PTL

(* The name of the next version is free on every branch it may be made on. *)
THEOREM NamesAreFresh == Spec => []TxVersionIsFree
<1>1. Inv => TxVersionIsFree
  <2> SUFFICES ASSUME Inv, NEW b \in BranchNames, BranchExists(vs, b), b # Main
               PROVE  ~VersionExists(vs, b, TxVersion(b))
    BY DEF TxVersionIsFree
  <2>1. b \in {DeliverTx, CheckTx}
    BY DEF BranchNames
  <2>2. BranchReady(b)
    BY <2>1, ReadyBranch
  <2> QED BY <2>2, TxVersionFree DEF BranchReady
<1> QED BY <1>1, Invariant, PTL

(* All variables keep their types.                                         *)
THEOREM TypesHold == Spec => []TypeOK
<1>1. Inv => TypeOK
  <2> SUFFICES ASSUME Inv PROVE TypeOK
    OBVIOUS
  <2>1. vs \in [BranchNames -> BranchOf(VersionNames, EvmState)]
    <3>1. \A b \in BranchNames : vs[b] \in BranchOf(VersionNames, EvmState)
      <4> SUFFICES ASSUME NEW b \in BranchNames
                   PROVE  vs[b] \in BranchOf(VersionNames, EvmState)
        OBVIOUS
      <4>1. vs[b] \in BranchOf(VersionNames, GoodState)
        BY DEF Inv, InvStore, Store
      <4>2. CASE vs[b] = NoBranch
        BY <4>2 DEF BranchOf
      <4>3. CASE vs[b] # NoBranch
        <5> DEFINE V == [name : VersionNames, state : GoodState]
                   W == [name : VersionNames, state : EvmState]
        <5>1. vs[b] \in [base : GoodState, vers : Seq(V)]
          BY <4>1, <4>3, LiveBranch
        <5>2. GoodState \subseteq EvmState /\ V \subseteq W
          BY DEF GoodState
        <5>3. vs[b].vers \in Seq(W)
          <6> HIDE DEF V, W
          <6>1. vs[b].vers \in Seq(V)
            BY <5>1
          <6> QED BY <5>2, <6>1
        <5> QED BY <5>1, <5>2, <5>3 DEF BranchOf
      <4> QED BY <4>2, <4>3
    <3> QED BY <3>1 DEF Inv, InvStore, Store
  <2>2. DOMAIN blocks \subseteq Nat \ {0}
    BY DEF Inv, InvBlocks
  <2> QED BY <2>1, <2>2 DEF Inv, InvBlocks, Delivered, TypeOK
<1> QED BY <1>1, Invariant, PTL

-----------------------------------------------------------------------------
(* Every step is a step of the machine.                                    *)

(* The machine's copies of the definitions of EvmTx are the ones the       *)
(* ledger uses.                                                            *)
LEMMA SameDefinitions ==
    /\ Machine!GenesisState = GenesisState
    /\ Machine!DefaultVicinity = DefaultVicinity
    /\ \A tx, st : Machine!Admissible(tx, st) = Admissible(tx, st)
    /\ \A tx : Machine!ExecSucceeds(tx) = ExecSucceeds(tx)
    /\ \A tx, st, vicinity :
          Machine!Outcome(tx, st, vicinity) = Outcome(tx, st, vicinity)
<1>1. /\ Machine!GenesisState = GenesisState
      /\ Machine!DefaultVicinity = DefaultVicinity
  BY DEF Machine!GenesisState, GenesisState, Machine!DefaultVicinity, DefaultVicinity,
         Machine!NoProposer, NoProposer
<1>2. \A tx, st : Machine!Admissible(tx, st) = Admissible(tx, st)
  BY DEF Machine!Admissible, Admissible, Machine!PreExec, PreExec,
         Machine!CheckGasPrice, CheckGasPrice, Machine!CheckNonce, CheckNonce,
         Machine!CheckBalance, CheckBalance, Machine!NeededAmount, NeededAmount
<1>3. \A tx : Machine!ExecSucceeds(tx) = ExecSucceeds(tx)
  BY DEF Machine!ExecSucceeds, ExecSucceeds
<1>4. \A tx : Machine!FeeUsed(tx) = FeeUsed(tx)
  BY DEF Machine!FeeUsed, FeeUsed
<1>5. \A st, a, n : Machine!ChargeFee(st, a, n) = ChargeFee(st, a, n)
  BY DEF Machine!ChargeFee, ChargeFee, Machine!SaturatingSub, SaturatingSub
<1>6. \A tx, st, vicinity : Machine!Exec(tx, st, vicinity) = Exec(tx, st, vicinity)
  BY DEF Machine!Exec, Exec, Machine!Transfer, Transfer, Machine!BumpNonce, BumpNonce,
         Machine!SaturatingAdd, SaturatingAdd
<1>7. \A tx, st, vicinity : Machine!Outcome(tx, st, vicinity) = Outcome(tx, st, vicinity)
  BY <1>2, <1>3, <1>4, <1>5, <1>6 DEF Machine!Outcome, Outcome
<1> QED BY <1>1, <1>2, <1>3, <1>7

-----------------------------------------------------------------------------
(* What the steps of Consensus do to what the machine sees.                *)

LEMMA CheckTxEffect ==
    ASSUME Inv, NEW tx \in Txs, AbciCheckTx(tx)
    PROVE  /\ vs'[Main] = vs[Main] /\ vs'[DeliverTx] = vs[DeliverTx]
           /\ sb'[Main] = sb[Main] /\ sb'[DeliverTx] = sb[DeliverTx]
           /\ UNCHANGED <<blocks, blockHashes, phase, delivered, burned>>
<1>1. BranchReady(CheckTx)
  BY ReadyBranch DEF Inv, InvStore
<1>2. OthersUnchanged(CheckTx)
  BY <1>1, ApplyTxKeeps DEF AbciCheckTx
<1> QED BY <1>2, BranchNamesDistinct DEF OthersUnchanged, AbciCheckTx

LEMMA DeliverTxEffect ==
    ASSUME Inv, NEW tx \in Txs, AbciDeliverTx(tx)
    PROVE  /\ vs'[Main] = vs[Main] /\ sb'[Main] = sb[Main]
           /\ Executes(DeliverTx, tx)
           /\ BranchExists(vs, DeliverTx) /\ BranchExists(vs', DeliverTx)
           /\ UNCHANGED <<blocks, blockHashes, phase>>
           /\ phase = "block"
<1>1. /\ phase = "block" /\ phase' = phase
      /\ ApplyTx(DeliverTx, tx)
  BY DEF AbciDeliverTx, ApplyTx
<1>2. BranchReady(DeliverTx)
  BY <1>1, ReadyBranch DEF Inv, InvOpen
<1>3. BranchReady(DeliverTx)' /\ OthersUnchanged(DeliverTx) /\ Executes(DeliverTx, tx)
  BY <1>1, <1>2, ApplyTxKeeps
<1> QED BY <1>1, <1>2, <1>3, BranchNamesDistinct DEF OthersUnchanged, BranchReady

LEMMA BeginBlockEffect ==
    ASSUME Inv, NEW p \in Proposers, NEW t \in Times, AbciBeginBlock(p, t)
    PROVE  /\ phase = "idle" /\ phase' = "block"
           /\ \A b \in BranchNames : BranchExists(vs', b) /\ View(vs', b) = View(vs, Main)
           /\ \A b \in BranchNames :
                 /\ sb'[b].hashes = <<>>
                 /\ sb'[b].block = NewBlock(LastBlockHeight + 1, p, t, LastBlock.hash)
           /\ sb'[Main].vicinity = [number |-> LastBlockHeight, coinbase |-> p, time |-> t]
           /\ sb'[DeliverTx].vicinity = sb[Main].vicinity
           /\ delivered' = <<>>
           /\ UNCHANGED <<blocks, blockHashes, burned>>
<1> USE BranchNamesDistinct
<1> DEFINE store == RefreshBranches(vs)
           h == LastBlockHeight + 1
<1>1. /\ phase = "idle" /\ phase' = "block" /\ delivered' = <<>> /\ burned' = burned
      /\ ConsensusRefresh(p, t)
  BY DEF AbciBeginBlock
<1>2. h \in Nat /\ 1 + LastBlock.height = h
  BY LastBlockType DEF Inv, InvBlocks
<1>3. panicked' = FALSE
  BY BeginBlockStep DEF Inv
<1>4. /\ vs' = PrepareVersions(store, h)
      /\ sb' = [b \in BranchNames |-> PreparedBranch(b, p, t)]
      /\ UNCHANGED <<blocks, blockHashes>>
  BY <1>1, <1>2, <1>3 DEF ConsensusRefresh, Panic
<1>5. /\ store \in Store /\ store[Main] = vs[Main]
      /\ \A b \in BranchNames : View(store, b) = View(vs, Main)
      /\ \A b \in {DeliverTx, CheckTx} : BranchExists(store, b)
  BY RefreshBranchesType DEF Inv
<1> HIDE DEF store, h
<1>6. \A b \in BranchNames : BranchExists(store, b)
  BY <1>5 DEF Inv, InvStore, BranchExists, BranchNames
<1>7. \A b \in BranchNames : BranchExists(vs', b) /\ View(vs', b) = View(vs, Main)
  BY <1>2, <1>4, <1>5, <1>6, PrepareVersionsType
<1>8. \A b \in BranchNames :
         /\ sb'[b].hashes = <<>>
         /\ sb'[b].block = NewBlock(LastBlockHeight + 1, p, t, LastBlock.hash)
         /\ sb'[b].vicinity = IF b = Main
                              THEN [number |-> LastBlockHeight, coinbase |-> p, time |-> t]
                              ELSE sb[Main].vicinity
  BY <1>4, PreparedBranchType DEF Inv
<1> QED BY <1>1, <1>4, <1>7, <1>8

(* A commit: what Main shows, and the block that is stored.                *)
LEMMA CommitEffect ==
    ASSUME Inv, AbciCommit
    PROVE  LET h == LastBlockHeight + 1
               block == Sealed(sb[DeliverTx])
           IN  /\ phase = "ended" /\ phase' = "idle"
               /\ UNCHANGED <<delivered, burned>>
               /\ block \in Block /\ block.height = h
               /\ BranchExists(vs, DeliverTx) /\ ~BranchExists(vs', DeliverTx)
               /\ View(vs', Main) = View(vs, DeliverTx)
               /\ blocks' = Insert(blocks, h, block)
               /\ blockHashes' = Insert(blockHashes, h, block.hash)
               /\ LastBlockHeight' = h
               /\ sb'[Main].vicinity = sb[Main].vicinity
               /\ sb'[DeliverTx].vicinity = sb[DeliverTx].vicinity
<1> USE BranchNamesDistinct
<1> DEFINE h == LastBlockHeight + 1
           block == Sealed(sb[DeliverTx])
<1>1. phase = "ended" /\ phase' = "idle" /\ Commit /\ UNCHANGED <<delivered, burned>>
  BY DEF AbciCommit
<1>2. /\ vs \in Store /\ CanMerge(vs, DeliverTx, Main) /\ HasVersions(vs, DeliverTx)
      /\ BranchExists(vs, DeliverTx)
      /\ sb \in [BranchNames -> StateBranch]
      /\ sb[DeliverTx].block.height = h
      /\ LastBlockHeight \in Nat /\ DOMAIN blocks = 1..LastBlockHeight
  BY <1>1 DEF Inv, InvStore, InvBlocks, InvOpen, CanMerge
<1>3. block \in Block /\ block.height = h
  BY <1>2, SealedType
<1> HIDE DEF block
<1>4. /\ vs' = MergeToParent(vs, DeliverTx, Main)
      /\ blocks' = Insert(blocks, h, block)
      /\ blockHashes' = Insert(blockHashes, h, block.hash)
      /\ sb'[Main].vicinity = sb[Main].vicinity
      /\ sb'[DeliverTx].vicinity = sb[DeliverTx].vicinity
  BY <1>1, <1>2, <1>3 DEF Commit, block, StateBranch
<1>5. View(vs', Main) = View(vs, DeliverTx) /\ ~BranchExists(vs', DeliverTx)
  <2>1. vs \in [BranchNames -> BranchOf(VersionNames, GoodState)]
    BY <1>2 DEF Store
  <2>2. View(vs', Main) = View(vs, DeliverTx)
    BY <1>2, <1>4, <2>1, MergeView
  <2> QED BY <1>4, <2>1, <2>2 DEF MergeToParent, BranchExists
<1>6. LastBlockHeight' = h
  <2>1. DOMAIN blocks' = DOMAIN blocks \cup {h}
    BY <1>4 DEF Insert
  <2>2. 1..LastBlockHeight \cup {h} = 1..h /\ h \in Nat
    BY <1>2
  <2>3. DOMAIN blocks' = 1..h
    BY <1>2, <2>1, <2>2
  <2> HIDE DEF h
  <2>4. LastKey(blocks') = h
    BY <2>2, <2>3, LastKeyOfInterval
  <2> QED BY <2>4 DEF LastBlockHeight
<1> QED BY <1>1, <1>2, <1>3, <1>4, <1>5, <1>6 DEF block

-----------------------------------------------------------------------------
(* The refinement.                                                         *)

LEMMA ChainInitStep == ConsensusInit => Machine!ChainInit
<1> SUFFICES ASSUME ConsensusInit PROVE Machine!ChainInit
  OBVIOUS
<1> USE BranchNamesDistinct
<1>1. /\ vs = NewStore /\ blocks = <<>> /\ sb = NewStateBranches /\ phase = "idle"
  BY DEF ConsensusInit, Init
<1>2. Committed = GenesisState
  <2> DEFINE first == Version(InitialVersion, GenesisState)
  <2>1. vs[Main] = [base |-> GenesisState, vers |-> <<first>>]
    BY <1>1 DEF NewStore
  <2>2. first.state = GenesisState
    BY DEF Version
  <2> HIDE DEF first
  <2> QED BY <2>1, <2>2 DEF Committed, View, HasVersions
<1>3. LastBlockHeight = 0
  BY <1>1 DEF LastBlockHeight, LastKey
<1>4. CommittedLog = <<>>
  BY <1>3 DEF CommittedLog
<1>5. /\ sb[Main].vicinity = DefaultVicinity
      /\ sb[DeliverTx].vicinity = DefaultVicinity
  BY <1>1 DEF NewStateBranches
<1> QED
  BY <1>1, <1>2, <1>4, <1>5, SameDefinitions DEF Machine!ChainInit, InProcess

LEMMA ChainStutter ==
    ASSUME vs'[Main] = vs[Main], vs'[DeliverTx] = vs[DeliverTx],
           sb'[Main] = sb[Main], sb'[DeliverTx] = sb[DeliverTx],
           blocks' = blocks, (phase' = "idle") = (phase = "idle")
    PROVE  UNCHANGED Machine!chainVars
<1>1. Committed' = Committed /\ View(vs, DeliverTx)' = View(vs, DeliverTx)
  BY DEF Committed, View, HasVersions
<1>2. CommittedLog' = CommittedLog
  BY DEF CommittedLog, LastBlockHeight
<1>3. InProcess' = InProcess
  BY DEF InProcess
<1> QED BY <1>1, <1>2, <1>3 DEF Machine!chainVars

LEMMA ChainBeginStep ==
    ASSUME Inv, NEW p \in Proposers, NEW t \in Times, AbciBeginBlock(p, t)
    PROVE  Machine!ChainBegin(p, t)
<1> USE BranchNamesDistinct
<1>1. /\ phase = "idle" /\ phase' = "block"
      /\ View(vs', Main) = View(vs, Main) /\ View(vs', DeliverTx) = View(vs, Main)
      /\ sb'[DeliverTx].block = NewBlock(LastBlockHeight + 1, p, t, LastBlock.hash)
      /\ sb'[Main].vicinity = [number |-> LastBlockHeight, coinbase |-> p, time |-> t]
      /\ sb'[DeliverTx].vicinity = sb[Main].vicinity
      /\ blocks' = blocks
  BY BeginBlockEffect
<1>2. Committed' = Committed /\ View(vs, DeliverTx)' = Committed
  BY <1>1 DEF Committed
<1>3. CommittedLog' = CommittedLog /\ Len(CommittedLog) = LastBlockHeight
  BY <1>1 DEF CommittedLog, LastBlockHeight, Inv, InvBlocks
<1>4. InProcess' = <<>>
  BY <1>1 DEF InProcess, NewBlock
<1> QED BY <1>1, <1>2, <1>3, <1>4 DEF Machine!ChainBegin

LEMMA ChainDeliverStep ==
    ASSUME Inv, NEW tx \in Txs, AbciDeliverTx(tx)
    PROVE  Machine!ChainDeliver(tx)
<1> USE BranchNamesDistinct
<1>1. /\ phase = "block" /\ phase' = "block"
      /\ vs'[Main] = vs[Main] /\ sb'[Main] = sb[Main] /\ blocks' = blocks
      /\ Executes(DeliverTx, tx)
  BY DeliverTxEffect
<1>2. sb[DeliverTx] \in StateBranch
  BY DEF Inv
<1>3. /\ sb'[DeliverTx].vicinity = sb[DeliverTx].vicinity
      /\ sb'[DeliverTx].block.txs =
            IF Admissible(tx, View(vs, DeliverTx)) /\ ExecSucceeds(tx)
            THEN Append(sb[DeliverTx].block.txs, tx)
            ELSE sb[DeliverTx].block.txs
  <2>1. /\ Recorded(sb[DeliverTx], tx).vicinity = sb[DeliverTx].vicinity
        /\ Recorded(sb[DeliverTx], tx).block.txs = Append(sb[DeliverTx].block.txs, tx)
    BY <1>2, RecordedType
  <2> QED BY <1>1, <2>1 DEF Executes
<1>4. View(vs', DeliverTx) = Outcome(tx, View(vs, DeliverTx), sb[DeliverTx].vicinity)
  BY <1>1 DEF Executes
<1>5. Committed' = Committed /\ CommittedLog' = CommittedLog
  BY <1>1 DEF Committed, View, HasVersions, CommittedLog, LastBlockHeight
<1> QED BY <1>1, <1>3, <1>4, <1>5, SameDefinitions DEF Machine!ChainDeliver, InProcess

LEMMA ChainCommitStep ==
    ASSUME Inv, AbciCommit
    PROVE  Machine!ChainCommit
<1> USE BranchNamesDistinct
<1> DEFINE h == LastBlockHeight + 1
           block == Sealed(sb[DeliverTx])
           txs == sb[DeliverTx].block.txs
<1>1. /\ phase = "ended" /\ phase' = "idle"
      /\ View(vs', Main) = View(vs, DeliverTx)
      /\ blocks' = Insert(blocks, h, block)
      /\ LastBlockHeight' = h
      /\ sb'[Main].vicinity = sb[Main].vicinity
      /\ sb'[DeliverTx].vicinity = sb[DeliverTx].vicinity
  BY CommitEffect
<1>2. block.txs = txs
  <2>1. sb[DeliverTx] \in StateBranch
    BY DEF Inv
  <2> QED BY <2>1, SealedType
<1>3. LastBlockHeight \in Nat /\ DOMAIN blocks = 1..LastBlockHeight
  BY DEF Inv, InvBlocks
<1> HIDE DEF block, txs
<1>4. CommittedLog' = Append(CommittedLog, txs)
  <2>1. blocks'[h] = block /\ \A k \in 1..LastBlockHeight : blocks'[k] = blocks[k]
    BY <1>1, <1>3 DEF Insert
  <2>2. CommittedLog' = [k \in 1..h |-> blocks'[k].txs]
    BY <1>1 DEF CommittedLog
  <2>3. /\ Len(CommittedLog) = LastBlockHeight
        /\ \A k \in 1..LastBlockHeight : CommittedLog[k] = blocks[k].txs
    BY <1>3 DEF CommittedLog
  <2>4. Append(CommittedLog, txs) =
            [k \in 1..h |-> IF k = h THEN txs ELSE CommittedLog[k]]
    <3> DEFINE long == Append(CommittedLog, txs)
    <3>1. CommittedLog \in Seq(Seq(Txs)) /\ txs \in Seq(Txs)
      <4>1. txs \in Seq(Txs)
        BY DEF Inv, Block, StateBranch, txs
      <4>2. \A k \in 1..LastBlockHeight : blocks[k].txs \in Seq(Txs)
        BY <1>3 DEF Inv, InvBlocks, Block
      <4> QED BY <1>3, <4>1, <4>2 DEF CommittedLog
    <3>2. /\ long \in Seq(Seq(Txs)) /\ Len(long) = h /\ long[h] = txs
          /\ \A k \in 1..LastBlockHeight : long[k] = CommittedLog[k]
      BY <2>3, <3>1, AppendProperties
    <3>3. long \in [1..h -> Seq(Txs)]
      BY <3>2, LenProperties
    <3> HIDE DEF long
    <3>4. \A k \in 1..h : long[k] = IF k = h THEN txs ELSE CommittedLog[k]
      BY <1>3, <3>2
    <3> QED BY <3>3, <3>4 DEF long
  <2>5. \A k \in 1..h : blocks'[k].txs = IF k = h THEN txs ELSE CommittedLog[k]
    BY <1>2, <1>3, <2>1, <2>3
  <2> QED BY <2>2, <2>4, <2>5
<1>5. Committed' = View(vs, DeliverTx) /\ InProcess = txs /\ InProcess' = <<>>
  BY <1>1 DEF Committed, InProcess, txs
<1> QED BY <1>1, <1>4, <1>5 DEF Machine!ChainCommit

LEMMA ChainStep == Inv /\ [Next]_vars => [Machine!ChainNext]_(Machine!chainVars)
<1> SUFFICES ASSUME Inv, [Next]_vars
             PROVE  Machine!ChainNext \/ UNCHANGED Machine!chainVars
  OBVIOUS
<1>1. CASE UNCHANGED vars
  BY <1>1, ChainStutter DEF vars
<1>2. CASE \E tx \in Txs : AbciCheckTx(tx)
  BY <1>2, CheckTxEffect, ChainStutter
<1>3. CASE \E p \in Proposers, t \in Times : AbciBeginBlock(p, t)
  BY <1>3, ChainBeginStep DEF Machine!ChainNext
<1>4. CASE \E tx \in Txs : AbciDeliverTx(tx)
  BY <1>4, ChainDeliverStep DEF Machine!ChainNext
<1>5. CASE AbciEndBlock
  BY <1>5, ChainStutter DEF AbciEndBlock, ledgerVars
<1>6. CASE AbciCommit
  BY <1>6, ChainCommitStep DEF Machine!ChainNext
<1> QED BY <1>1, <1>2, <1>3, <1>4, <1>5, <1>6 DEF Next

(* Every behaviour of the ABCI application is one of the replicated state  *)
(* machine.                                                                *)
THEOREM Refinement == Spec => ImplementsChain
<1>1. ConsensusInit => Machine!ChainInit
  BY ChainInitStep
<1>2. Inv /\ [Next]_vars => [Machine!ChainNext]_(Machine!chainVars)
  BY ChainStep
<1> QED BY <1>1, <1>2, Invariant, PTL DEF Spec, ImplementsChain, Machine!ChainSpec

-----------------------------------------------------------------------------
(* What the RPC reads of a committed height.                               *)

LEMMA CommittedStays ==
    ASSUME vs'[Main] = vs[Main], UNCHANGED <<blocks, blockHashes>>
    PROVE  UNCHANGED <<Committed, blocks, blockHashes>>
BY DEF Committed, View, HasVersions

LEMMA CommitMoves ==
    ASSUME Inv, AbciCommit
    PROVE  /\ phase = "ended" /\ phase' = "idle"
           /\ Committed' = View(vs, DeliverTx)
           /\ DOMAIN blocks' = DOMAIN blocks \cup {LastBlockHeight + 1}
           /\ \A h \in DOMAIN blocks : blocks'[h] = blocks[h]
<1> DEFINE h == LastBlockHeight + 1
           block == Sealed(sb[DeliverTx])
<1>1. /\ phase = "ended" /\ phase' = "idle"
      /\ View(vs', Main) = View(vs, DeliverTx)
      /\ blocks' = Insert(blocks, h, block)
  BY CommitEffect
<1> HIDE DEF block
<1>2. LastBlockHeight \in Nat /\ DOMAIN blocks = 1..LastBlockHeight
  BY DEF Inv, InvBlocks
<1>3. /\ DOMAIN blocks' = DOMAIN blocks \cup {h}
      /\ \A k \in DOMAIN blocks : k # h => blocks'[k] = blocks[k]
  BY <1>1 DEF Insert
<1>4. \A k \in DOMAIN blocks : k # h
  BY <1>2
<1> QED BY <1>1, <1>3, <1>4 DEF Committed

(* A check of the mempool and a step inside a block leave what is          *)
(* committed alone; a commit adds one block and moves to its state.        *)
THEOREM CommittedMoves == Spec => CommittedMovesByCommit
<1> DEFINE Moved == \/ UNCHANGED <<Committed, blocks, blockHashes>>
                    \/ /\ phase = "ended" /\ phase' = "idle"
                       /\ Committed' = View(vs, DeliverTx)
                       /\ DOMAIN blocks' = DOMAIN blocks \cup {LastBlockHeight + 1}
                       /\ \A h \in DOMAIN blocks : blocks'[h] = blocks[h]
<1>1. Inv /\ [Next]_vars => [Moved]_vars
  <2> SUFFICES ASSUME Inv, Next PROVE Moved
    OBVIOUS
  <2> USE BranchNamesDistinct
  <2>1. CASE \E tx \in Txs : AbciCheckTx(tx)
    BY <2>1, CheckTxEffect, CommittedStays
  <2>2. CASE \E p \in Proposers, t \in Times : AbciBeginBlock(p, t)
    <3>1. View(vs', Main) = View(vs, Main) /\ UNCHANGED <<blocks, blockHashes>>
      BY <2>2, BeginBlockEffect
    <3> QED BY <3>1 DEF Committed
  <2>3. CASE \E tx \in Txs : AbciDeliverTx(tx)
    BY <2>3, DeliverTxEffect, CommittedStays
  <2>4. CASE AbciEndBlock
    BY <2>4, CommittedStays DEF AbciEndBlock, ledgerVars
  <2>5. CASE AbciCommit
    BY <2>5, CommitMoves
  <2> QED BY <2>1, <2>2, <2>3, <2>4, <2>5 DEF Next
<1> QED BY <1>1, Invariant, PTL DEF Spec, CommittedMovesByCommit

-----------------------------------------------------------------------------
(* The chain of blocks.                                                    *)

(* The hash the next block has to name.                                    *)
PrevLinked == phase # "idle" => sb[DeliverTx].block.prev = LastBlock.hash

LEMMA LinkKept ==
    ASSUME ChainLinked, PrevLinked, UNCHANGED <<blocks, blockHashes>>,
           phase # "idle", sb'[DeliverTx].block.prev = sb[DeliverTx].block.prev
    PROVE  ChainLinked' /\ PrevLinked'
BY DEF ChainLinked, PrevLinked, LastBlock, LastBlockHeight

LEMMA LinkCommit ==
    ASSUME Inv, ChainLinked, PrevLinked, AbciCommit
    PROVE  ChainLinked' /\ PrevLinked'
<1> USE BranchNamesDistinct
<1> DEFINE h == LastBlockHeight + 1
           block == Sealed(sb[DeliverTx])
<1>1. /\ phase = "ended" /\ phase' = "idle" /\ block.height = h
      /\ blocks' = Insert(blocks, h, block)
      /\ blockHashes' = Insert(blockHashes, h, block.hash)
  BY CommitEffect
<1>2. /\ LastBlockHeight \in Nat
      /\ DOMAIN blocks = 1..LastBlockHeight /\ DOMAIN blockHashes = DOMAIN blocks
  BY DEF Inv, InvBlocks
<1>3. block.prev = LastBlock.hash /\ block.hash = HeaderHash(block)
  <2>1. sb[DeliverTx] \in StateBranch
    BY DEF Inv
  <2>2. block.prev = sb[DeliverTx].block.prev /\ block.hash = HeaderHash(block)
    BY <2>1, SealedType
  <2> QED BY <1>1, <2>2 DEF PrevLinked
<1>4. LastBlock.hash = IF h = 1 THEN <<>> ELSE blocks[LastBlockHeight].hash
  BY <1>2 DEF LastBlock, DefaultBlock, NewBlock
<1> HIDE DEF block
<1>5. /\ DOMAIN blocks' = 1..h
      /\ blocks'[h] = block /\ blockHashes'[h] = block.hash
      /\ \A k \in 1..LastBlockHeight :
            blocks'[k] = blocks[k] /\ blockHashes'[k] = blockHashes[k]
  <2>1. 1..LastBlockHeight \cup {h} = 1..h /\ \A k \in 1..LastBlockHeight : k # h
    BY <1>2
  <2> HIDE DEF h
  <2> QED BY <1>1, <1>2, <2>1 DEF Insert
<1>6. ASSUME NEW k \in 1..h
      PROVE  /\ blocks'[k].height = k
             /\ blocks'[k].hash = HeaderHash(blocks'[k])
             /\ blockHashes'[k] = blocks'[k].hash
             /\ blocks'[k].prev = IF k = 1 THEN <<>> ELSE blocks'[k - 1].hash
  <2>1. CASE k = h
    <3>1. h # 1 => blocks'[h - 1] = blocks[LastBlockHeight]
      BY <1>2, <1>5
    <3> QED BY <1>1, <1>3, <1>4, <1>5, <2>1, <3>1
  <2>2. CASE k # h
    <3>1. k \in 1..LastBlockHeight /\ (k # 1 => k - 1 \in 1..LastBlockHeight)
      BY <1>2, <2>2
    <3> QED BY <1>2, <1>5, <3>1 DEF ChainLinked
  <2> QED BY <2>1, <2>2
<1>7. ChainLinked'
  BY <1>5, <1>6 DEF ChainLinked
<1> QED BY <1>1, <1>7 DEF PrevLinked

(* Every block names the hash of the one before it, the heights have no    *)
(* hole, and block_hashes tells the EVM the same.                          *)
THEOREM Linked == Spec => []ChainLinked
<1> DEFINE LinkInv == ChainLinked /\ PrevLinked
<1>1. ConsensusInit => LinkInv
  BY DEF ConsensusInit, Init, ChainLinked, PrevLinked
<1>2. Inv /\ LinkInv /\ [Next]_vars => LinkInv'
  <2> SUFFICES ASSUME Inv, ChainLinked, PrevLinked, [Next]_vars
               PROVE  ChainLinked' /\ PrevLinked'
    OBVIOUS
  <2> USE BranchNamesDistinct
  <2>1. ASSUME UNCHANGED <<blocks, blockHashes, phase>>, sb'[DeliverTx] = sb[DeliverTx]
        PROVE  ChainLinked' /\ PrevLinked'
    BY <2>1 DEF ChainLinked, PrevLinked, LastBlock, LastBlockHeight
  <2>2. CASE UNCHANGED vars
    BY <2>1, <2>2 DEF vars
  <2>3. CASE \E tx \in Txs : AbciCheckTx(tx)
    BY <2>1, <2>3, CheckTxEffect
  <2>4. CASE \E p \in Proposers, t \in Times : AbciBeginBlock(p, t)
    <3>1. /\ UNCHANGED <<blocks, blockHashes>>
          /\ sb'[DeliverTx].block.prev = LastBlock.hash
      <4> PICK p \in Proposers, t \in Times : AbciBeginBlock(p, t)
        BY <2>4
      <4>1. /\ UNCHANGED <<blocks, blockHashes>>
            /\ sb'[DeliverTx].block = NewBlock(LastBlockHeight + 1, p, t, LastBlock.hash)
        BY BeginBlockEffect
      <4> QED BY <4>1 DEF NewBlock
    <3> QED BY <3>1 DEF ChainLinked, PrevLinked, LastBlock, LastBlockHeight
  <2>5. CASE \E tx \in Txs : AbciDeliverTx(tx)
    <3> PICK tx \in Txs : AbciDeliverTx(tx)
      BY <2>5
    <3>1. /\ Executes(DeliverTx, tx) /\ phase = "block"
          /\ UNCHANGED <<blocks, blockHashes>>
      BY DeliverTxEffect
    <3>2. sb[DeliverTx] \in StateBranch
      BY DEF Inv
    <3>3. Recorded(sb[DeliverTx], tx).block.prev = sb[DeliverTx].block.prev
      BY <3>2, RecordedType
    <3>4. sb'[DeliverTx].block.prev = sb[DeliverTx].block.prev
      BY <3>1, <3>3 DEF Executes
    <3> QED BY <3>1, <3>4, LinkKept
  <2>6. CASE AbciEndBlock
    BY <2>6, LinkKept DEF AbciEndBlock, ledgerVars
  <2>7. CASE AbciCommit
    BY <2>7, LinkCommit
  <2> QED BY <2>2, <2>3, <2>4, <2>5, <2>6, <2>7 DEF Next
<1>3. LinkInv => ChainLinked
  OBVIOUS
<1> QED BY <1>1, <1>2, <1>3, Invariant, PTL DEF Spec
=============================================================================
