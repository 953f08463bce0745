---------------------------- MODULE AccountProofs ----------------------------
(***************************************************************************)
(* What adds up in the ledger: the nonces count the transactions of the    *)
(* chain, the balances and the fees make up the genesis supply, and the    *)
(* receipts of a block are those of its transactions with its gas.         *)
(***************************************************************************)
EXTENDS ConsensusProofs, FoldProofs

LEMMA CountFromNat ==
    ASSUME NEW seq \in Seq(Txs), NEW a
    PROVE  CountFrom(seq, a) \in Nat
<1> DEFINE I == {i \in 1..Len(seq) : seq[i].from = a}
<1>1. Len(seq) \in Nat
  BY LenProperties
<1>2. IsFiniteSet(1..Len(seq)) /\ I \in SUBSET (1..Len(seq))
  BY <1>1, FS_Interval
<1>3. IsFiniteSet(I)
  BY <1>2, FS_Subset
<1> QED BY <1>3, FS_CardinalityType DEF CountFrom

LEMMA CountFromEmpty ==
    ASSUME NEW a
    PROVE  CountFrom(<<>>, a) = 0
<1>1. {i \in 1..Len(<<>>) : <<>>[i].from = a} = {}
  OBVIOUS
<1> QED BY <1>1, FS_EmptySet DEF CountFrom

LEMMA CountFromAppend ==
    ASSUME NEW seq \in Seq(Txs), NEW tx \in Txs, NEW a
    PROVE  CountFrom(Append(seq, tx), a) =
              CountFrom(seq, a) + (IF tx.from = a THEN 1 ELSE 0)
<1> DEFINE n == Len(seq)
           long == Append(seq, tx)
           I == {i \in 1..n : seq[i].from = a}
           J == {i \in 1..Len(long) : long[i].from = a}
<1>1. /\ n \in Nat /\ Len(long) = n + 1 /\ long[n + 1] = tx
      /\ \A i \in 1..n : long[i] = seq[i]
  BY AppendProperties, LenProperties
<1>2. IsFiniteSet(I) /\ Cardinality(I) \in Nat /\ n + 1 \notin I
  <2>1. IsFiniteSet(1..n) /\ I \in SUBSET (1..n)
    BY <1>1, FS_Interval
  <2>2. IsFiniteSet(I)
    BY <2>1, FS_Subset
  <2> QED BY <1>1, <2>2, FS_CardinalityType
<1> HIDE DEF n, long
<1>3. 1..Len(long) = 1..n \cup {n + 1}
  BY <1>1
<1>4. J = IF tx.from = a THEN I \cup {n + 1} ELSE I
  <2>1. \A i \in 1..n : i # n + 1
    BY <1>1
  <2>2. \A i \in 1..n : i \in J <=> i \in I
    BY <1>1, <1>3
  <2>3. n + 1 \in J <=> tx.from = a
    BY <1>1, <1>3
  <2>4. \A i \in J : i \in 1..n \/ i = n + 1
    BY <1>3
  <2>5. \A i \in I : i \in 1..n
    OBVIOUS
  <2> HIDE DEF I, J
  <2>6. CASE tx.from = a
    <3>1. \A i : i \in J <=> i \in I \cup {n + 1}
      BY <2>2, <2>3, <2>4, <2>5, <2>6
    <3> QED BY <2>6, <3>1
  <2>7. CASE tx.from # a
    <3>1. \A i : i \in J <=> i \in I
      BY <2>2, <2>3, <2>4, <2>5, <2>7
    <3> QED BY <2>7, <3>1
  <2> QED BY <2>6, <2>7
<1> HIDE DEF I, J
<1>5. Cardinality(J) = Cardinality(I) + (IF tx.from = a THEN 1 ELSE 0)
  <2>1. CASE tx.from = a
    BY <1>2, <1>4, <2>1, FS_AddElement
  <2>2. CASE tx.from # a
    BY <1>2, <1>4, <2>2
  <2> QED BY <2>1, <2>2
<1> QED BY <1>5 DEF I, J, n, long, CountFrom

(* The transactions of a in the committed blocks.                          *)
Counts(map, a) == [h \in DOMAIN map |-> CountFrom(map[h].txs, a)]

Mined(a) == SumOf(Counts(blocks, a), DOMAIN blocks)

NoncesMined ==
    \A a \in Addr : Tip.accounts[a].nonce = Mined(a) + CountFrom(InProcess, a)

LEMMA NoncesMinedCount ==
    ASSUME NoncesMined
    PROVE  NonceCountsTxs
<1> SUFFICES ASSUME NEW a \in Addr
             PROVE  Tip.accounts[a].nonce =
                      MapThenSumSet(LAMBDA h : CountFrom(blocks[h].txs, a), DOMAIN blocks)
                      + CountFrom(InProcess, a)
  BY DEF NonceCountsTxs
<1> DEFINE S == DOMAIN blocks
           f == Counts(blocks, a)
           left(g) == [s \in SUBSET S |->
                         IF s = {} THEN 0
                         ELSE CountFrom(blocks[CHOOSE x \in s : TRUE].txs, a)
                                + g[s \ {CHOOSE x \in s : TRUE}]]
           right(g) == [s \in SUBSET S |->
                          IF s = {} THEN 0
                          ELSE f[CHOOSE x \in s : TRUE] + g[s \ {CHOOSE x \in s : TRUE}]]
<1>1. \A g : left(g) = right(g)
  BY DEF Counts
<1>2. (CHOOSE g : g = left(g)) = CHOOSE g : g = right(g)
  <2> HIDE DEF left, right
  <2> QED BY <1>1
<1>3. MapThenSumSet(LAMBDA h : CountFrom(blocks[h].txs, a), DOMAIN blocks) = SumOf(f, S)
  BY <1>2 DEF SumOf, MapThenSumSet, MapThenFoldSet
<1> HIDE DEF f, S
<1>4. Tip.accounts[a].nonce = SumOf(f, S) + CountFrom(InProcess, a)
  BY DEF NoncesMined, Mined, f, S
<1> QED BY <1>3, <1>4

-----------------------------------------------------------------------------
(* The tip of the consensus connection.                                    *)

TipShown == phase = "idle" => Tip = Committed

LEMMA TipType ==
    ASSUME Inv
    PROVE  /\ Tip \in GoodState
           /\ phase # "idle" => Tip = View(vs, DeliverTx)
<1> USE BranchNamesDistinct
<1>1. \A b \in BranchNames : BranchExists(vs, b) => View(vs, b) \in GoodState
  BY ViewType DEF Inv, InvStore, Store
<1> QED BY <1>1 DEF Tip, Committed, Inv, InvStore, InvOpen

LEMMA TipInit ==
    ASSUME ConsensusInit
    PROVE  Tip = GenesisState /\ Committed = GenesisState /\ InProcess = <<>>
<1> USE BranchNamesDistinct
<1>1. vs = NewStore /\ phase = "idle"
  BY DEF ConsensusInit, Init
<1> DEFINE first == Version(InitialVersion, GenesisState)
<1>2. /\ vs[Main] = [base |-> GenesisState, vers |-> <<first>>]
      /\ vs[DeliverTx] = Branch(GenesisState)
  BY <1>1 DEF NewStore
<1>3. first.state = GenesisState
  BY DEF Version
<1> HIDE DEF first
<1>4. View(vs, Main) = GenesisState /\ View(vs, DeliverTx) = GenesisState
  BY <1>2, <1>3 DEF View, HasVersions, Branch
<1> QED BY <1>1, <1>4 DEF Tip, Committed, InProcess

(* What a step does to the tip, to the block in process and to the chain.  *)
TipStays ==
    /\ Tip' = Tip /\ InProcess' = InProcess /\ TipShown'
    /\ UNCHANGED <<blocks, burned>>

TipExecutes(tx) ==
    /\ phase = "block" /\ phase' = "block"
    /\ Tip' = Outcome(tx, Tip, sb[DeliverTx].vicinity)
    /\ sb'[DeliverTx] = IF Admissible(tx, Tip) /\ ExecSucceeds(tx)
                        THEN Recorded(sb[DeliverTx], tx)
                        ELSE sb[DeliverTx]
    /\ InProcess = sb[DeliverTx].block.txs /\ InProcess' = sb'[DeliverTx].block.txs
    /\ burned' = burned + (IF Admissible(tx, Tip)
                           THEN FeePaid(tx, Tip, sb[DeliverTx].vicinity)
                           ELSE 0)
    /\ blocks' = blocks

TipCommits ==
    /\ phase = "ended" /\ phase' = "idle"
    /\ Tip' = Tip /\ TipShown' /\ InProcess' = <<>>
    /\ blocks' = Insert(blocks, LastBlockHeight + 1, Sealed(sb[DeliverTx]))
    /\ InProcess = Sealed(sb[DeliverTx]).txs
    /\ burned' = burned

LEMMA TipUntouched ==
    ASSUME TipShown, vs'[Main] = vs[Main], vs'[DeliverTx] = vs[DeliverTx],
           sb'[DeliverTx] = sb[DeliverTx], (phase' = "idle") = (phase = "idle"),
           UNCHANGED <<blocks, burned>>
    PROVE  TipStays
<1>1. Tip' = Tip /\ Committed' = Committed /\ InProcess' = InProcess
  BY DEF Tip, Committed, View, HasVersions, BranchExists, InProcess
<1> QED BY <1>1 DEF TipStays, TipShown

LEMMA BeginBlockTip ==
    ASSUME Inv, TipShown, NEW p \in Proposers, NEW t \in Times, AbciBeginBlock(p, t)
    PROVE  TipStays
<1> USE BranchNamesDistinct
<1>1. /\ phase = "idle" /\ phase' = "block"
      /\ BranchExists(vs', DeliverTx)
      /\ View(vs', DeliverTx) = View(vs, Main)
      /\ sb'[DeliverTx].block = NewBlock(LastBlockHeight + 1, p, t, LastBlock.hash)
      /\ UNCHANGED <<blocks, burned>>
  BY BeginBlockEffect
<1>2. Tip' = Committed /\ Tip = Committed
  BY <1>1 DEF TipShown, Tip, Committed
<1>3. InProcess = <<>> /\ InProcess' = <<>>
  BY <1>1 DEF InProcess, NewBlock
<1> QED BY <1>1, <1>2, <1>3 DEF TipStays, TipShown

LEMMA DeliverTxTip ==
    ASSUME Inv, NEW tx \in Txs, AbciDeliverTx(tx)
    PROVE  TipExecutes(tx)
<1> USE BranchNamesDistinct
<1>1. /\ Executes(DeliverTx, tx)
      /\ BranchExists(vs, DeliverTx) /\ BranchExists(vs', DeliverTx)
      /\ blocks' = blocks /\ phase = "block" /\ phase' = "block"
  BY DeliverTxEffect
<1>2. Tip = View(vs, DeliverTx) /\ Tip' = View(vs', DeliverTx)
  BY <1>1 DEF Tip
<1>3. burned' = burned + (IF Admissible(tx, Tip)
                          THEN FeePaid(tx, Tip, sb[DeliverTx].vicinity)
                          ELSE 0)
  BY <1>2, DeliverTxRecord DEF Record
<1> QED BY <1>1, <1>2, <1>3 DEF TipExecutes, Executes, InProcess

LEMMA CommitTip ==
    ASSUME Inv, AbciCommit
    PROVE  TipCommits
<1> USE BranchNamesDistinct
<1>1. /\ phase = "ended" /\ phase' = "idle"
      /\ BranchExists(vs, DeliverTx) /\ ~BranchExists(vs', DeliverTx)
      /\ View(vs', Main) = View(vs, DeliverTx)
      /\ blocks' = Insert(blocks, LastBlockHeight + 1, Sealed(sb[DeliverTx]))
      /\ burned' = burned
  BY CommitEffect
<1>2. Tip = View(vs, DeliverTx) /\ Tip' = View(vs', Main) /\ Committed' = View(vs', Main)
  BY <1>1 DEF Tip, Committed
<1>3. Sealed(sb[DeliverTx]).txs = sb[DeliverTx].block.txs
  BY SealedType DEF Inv
<1> QED BY <1>1, <1>2, <1>3 DEF TipCommits, TipShown, InProcess

LEMMA TipStep ==
    ASSUME Inv, TipShown, [Next]_vars
    PROVE  /\ TipShown'
           /\ \/ TipStays
              \/ \E tx \in Txs : TipExecutes(tx)
              \/ TipCommits
<1> USE BranchNamesDistinct
<1>1. CASE UNCHANGED vars
  BY <1>1, TipUntouched DEF vars, TipStays
<1>2. CASE \E tx \in Txs : AbciCheckTx(tx)
  BY <1>2, CheckTxEffect, TipUntouched DEF TipStays
<1>3. CASE \E p \in Proposers, t \in Times : AbciBeginBlock(p, t)
  BY <1>3, BeginBlockTip DEF TipStays
<1>4. CASE \E tx \in Txs : AbciDeliverTx(tx)
  BY <1>4, DeliverTxTip DEF TipExecutes, TipShown
<1>5. CASE AbciEndBlock
  <2>1. /\ vs'[Main] = vs[Main] /\ vs'[DeliverTx] = vs[DeliverTx]
        /\ sb'[DeliverTx] = sb[DeliverTx] /\ (phase' = "idle") = (phase = "idle")
        /\ UNCHANGED <<blocks, burned>>
    BY <1>5 DEF AbciEndBlock, ledgerVars
  <2> QED BY <2>1, TipUntouched DEF TipStays
<1>6. CASE AbciCommit
  BY <1>6, CommitTip DEF TipCommits
<1> QED BY <1>1, <1>2, <1>3, <1>4, <1>5, <1>6 DEF Next

-----------------------------------------------------------------------------
(* Nonces.                                                                 *)

LEMMA InProcessType ==
    ASSUME Inv
    PROVE  InProcess \in Seq(Txs)
<1>1. sb[DeliverTx].block.txs \in Seq(Txs)
  BY BranchNamesDistinct DEF Inv, StateBranch, Block
<1> QED BY <1>1, EmptySeq DEF InProcess

LEMMA BlockCounts ==
    ASSUME Inv, NEW a
    PROVE  /\ IsFiniteSet(DOMAIN blocks)
           /\ \A h \in DOMAIN blocks : Counts(blocks, a)[h] \in Int
           /\ Mined(a) \in Int
<1>1. LastBlockHeight \in Nat /\ DOMAIN blocks = 1..LastBlockHeight
  BY DEF Inv, InvBlocks
<1>2. IsFiniteSet(DOMAIN blocks)
  BY <1>1, FS_Interval
<1>3. \A h \in DOMAIN blocks : Counts(blocks, a)[h] \in Int
  <2> SUFFICES ASSUME NEW h \in DOMAIN blocks PROVE CountFrom(blocks[h].txs, a) \in Int
    BY DEF Counts
  <2>1. blocks[h].txs \in Seq(Txs)
    BY DEF Inv, InvBlocks, Block
  <2> QED BY <2>1, CountFromNat
<1>4. Mined(a) \in Int
  BY <1>2, <1>3, SumType DEF Mined
<1> QED BY <1>2, <1>3, <1>4

(* A commit adds the transactions of its block.                            *)
LEMMA MinedCommit ==
    ASSUME Inv, TipCommits, NEW a
    PROVE  Mined(a)' = Mined(a) + CountFrom(InProcess, a)
<1> DEFINE h == LastBlockHeight + 1
           block == Sealed(sb[DeliverTx])
           S == DOMAIN blocks
           old == Counts(blocks, a)
           new == Counts(blocks', a)
<1>1. blocks' = Insert(blocks, h, block) /\ block.txs = InProcess
  BY DEF TipCommits
<1>2. h \notin S
  BY DEF Inv, InvBlocks
<1> HIDE DEF h, block
<1>3. /\ DOMAIN blocks' = S \cup {h}
      /\ new[h] = CountFrom(InProcess, a)
      /\ \A k \in S : new[k] = old[k]
  BY <1>1, <1>2 DEF Insert, Counts
<1>4. IsFiniteSet(S) /\ (\A k \in S : old[k] \in Int)
  BY BlockCounts
<1>5. CountFrom(InProcess, a) \in Int
  BY InProcessType, CountFromNat
<1>6. Mined(a) = SumOf(old, S)
  BY DEF Mined
<1>7. Mined(a)' = SumOf(new, DOMAIN blocks')
  BY DEF Mined, Counts
<1> HIDE DEF old, new, S
<1>8. \A k \in S \cup {h} : new[k] \in Int
  BY <1>3, <1>4, <1>5
<1>9. SumOf(new, S \cup {h}) = new[h] + SumOf(new, S) /\ SumOf(new, S) \in Int
  BY <1>2, <1>4, <1>8, SumAdd
<1>10. SumOf(new, S) = SumOf(old, S)
  BY <1>3, SumCongruence
<1> QED BY <1>3, <1>5, <1>6, <1>7, <1>9, <1>10

LEMMA NonceStep ==
    ASSUME Inv, TipShown, NoncesMined, [Next]_vars
    PROVE  NoncesMined'
<1> SUFFICES ASSUME NEW a \in Addr
             PROVE  (Tip.accounts[a].nonce)' = Mined(a)' + CountFrom(InProcess, a)'
  BY DEF NoncesMined
<1> USE BranchNamesDistinct
<1>1. Tip.accounts[a].nonce = Mined(a) + CountFrom(InProcess, a)
  BY DEF NoncesMined
<1>2. Mined(a) \in Int /\ CountFrom(InProcess, a) \in Nat
  BY BlockCounts, InProcessType, CountFromNat
<1>3. CASE TipStays
  BY <1>1, <1>3 DEF TipStays, Mined, Counts, CountFrom
<1>4. ASSUME NEW tx \in Txs, TipExecutes(tx)
      PROVE  (Tip.accounts[a].nonce)' = Mined(a)' + CountFrom(InProcess, a)'
  <2> DEFINE counted == IF Admissible(tx, Tip) /\ ExecSucceeds(tx) /\ a = tx.from
                        THEN 1 ELSE 0
  <2>1. /\ Tip \in GoodState /\ sb[DeliverTx] \in StateBranch
        /\ sb[DeliverTx].vicinity \in Vicinity
    BY TipType DEF Inv, StateBranch
  <2>2. Tip'.accounts[a].nonce = Tip.accounts[a].nonce + counted
    BY <1>4, <2>1, OutcomeNonce DEF TipExecutes
  <2>3. Mined(a)' = Mined(a)
    BY <1>4 DEF TipExecutes, Mined, Counts
  <2>4. CountFrom(InProcess', a) = CountFrom(InProcess, a) + counted
    <3>1. Recorded(sb[DeliverTx], tx).block.txs = Append(sb[DeliverTx].block.txs, tx)
      BY <2>1, RecordedType
    <3>2. InProcess' = IF Admissible(tx, Tip) /\ ExecSucceeds(tx)
                       THEN Append(InProcess, tx)
                       ELSE InProcess
      BY <1>4, <3>1 DEF TipExecutes
    <3>3. CountFrom(Append(InProcess, tx), a) =
             CountFrom(InProcess, a) + (IF tx.from = a THEN 1 ELSE 0)
      BY InProcessType, CountFromAppend
    <3> QED BY <1>2, <3>2, <3>3
  <2>5. CountFrom(InProcess, a)' = CountFrom(InProcess', a)
    BY DEF CountFrom
  <2>6. counted \in Int
    OBVIOUS
  <2> HIDE DEF counted
  <2> QED BY <1>1, <1>2, <2>2, <2>3, <2>4, <2>5, <2>6
<1>5. CASE TipCommits
  <2>1. Mined(a)' = Mined(a) + CountFrom(InProcess, a)
    BY <1>5, MinedCommit
  <2>2. CountFrom(InProcess, a)' = 0
    BY <1>5, CountFromEmpty DEF TipCommits, CountFrom
  <2>3. Tip' = Tip
    BY <1>5 DEF TipCommits
  <2> QED BY <1>1, <1>2, <2>1, <2>2, <2>3
<1> QED BY <1>3, <1>4, <1>5, TipStep

(* The nonce of every account counts its transactions in the chain and in  *)
(* the block in process: no failure leaves a trace, no success is lost.    *)
THEOREM NoncesCount == Spec => []NonceCountsTxs
<1>1. ConsensusInit => TipShown /\ NoncesMined
  <2> SUFFICES ASSUME ConsensusInit PROVE TipShown /\ NoncesMined
    OBVIOUS
  <2>1. Tip = GenesisState /\ Committed = GenesisState /\ InProcess = <<>>
    BY TipInit
  <2>2. DOMAIN blocks = {}
    BY DEF ConsensusInit, Init
  <2>3. \A a \in Addr : Mined(a) = 0 /\ CountFrom(InProcess, a) = 0
    BY <2>1, <2>2, SumEmpty, CountFromEmpty DEF Mined
  <2>4. \A a \in Addr : Tip.accounts[a].nonce = 0
    BY <2>1 DEF GenesisState
  <2> QED BY <2>1, <2>3, <2>4 DEF TipShown, NoncesMined
<1>2. Inv /\ TipShown /\ NoncesMined /\ [Next]_vars => TipShown' /\ NoncesMined'
  BY TipStep, NonceStep
<1>3. NoncesMined => NonceCountsTxs
  BY NoncesMinedCount
<1> QED BY <1>1, <1>2, <1>3, Invariant, PTL DEF Spec

-----------------------------------------------------------------------------
(* Funds.                                                                  *)

LEMMA FundsStep ==
    ASSUME Inv, TipShown, FundsConserved, [Next]_vars
    PROVE  FundsConserved'
<1>1. /\ Supply(Tip) + burned = Supply(GenesisState)
      /\ Supply(Tip) \in Nat /\ Supply(GenesisState) \in Nat
      /\ Tip \in GoodState /\ burned \in Nat
  BY TipType, GoodFunds DEF FundsConserved, Inv
<1>2. Supply(Tip)' = Supply(Tip') /\ Supply(GenesisState)' = Supply(GenesisState)
  OBVIOUS
<1> SUFFICES Supply(Tip') + burned' = Supply(GenesisState)
  BY <1>2 DEF FundsConserved
<1>3. CASE TipStays \/ TipCommits
  BY <1>1, <1>3 DEF TipStays, TipCommits
<1>4. ASSUME NEW tx \in Txs, TipExecutes(tx)
      PROVE  Supply(Tip') + burned' = Supply(GenesisState)
  <2> DEFINE seen == sb[DeliverTx].vicinity
             paid == FeePaid(tx, Tip, seen)
  <2>1. /\ Tip' = Outcome(tx, Tip, seen)
        /\ burned' = burned + (IF Admissible(tx, Tip) THEN paid ELSE 0)
    BY <1>4 DEF TipExecutes
  <2>2. seen \in Vicinity
    BY BranchNamesDistinct DEF Inv, StateBranch
  <2>3. CASE ~Admissible(tx, Tip)
    <3>1. Tip' = Tip /\ burned' = burned
      BY <1>1, <2>1, <2>3 DEF Outcome
    <3> QED BY <1>1, <3>1
  <2>4. CASE Admissible(tx, Tip)
    <3>1. paid \in Nat /\ Supply(Tip') = Supply(Tip) - paid /\ burned' = burned + paid
      BY <1>1, <2>1, <2>2, <2>4, FeePaidTaken
    <3> HIDE DEF paid
    <3> QED BY <1>1, <3>1
  <2> QED BY <2>3, <2>4
<1> QED BY <1>3, <1>4, TipStep

(* No funds appear and none disappear but the fees, whatever is executed,  *)
(* undone and merged.                                                      *)
THEOREM FundsKept == Spec => []FundsConserved
<1>1. ConsensusInit => TipShown /\ FundsConserved
  <2> SUFFICES ASSUME ConsensusInit PROVE TipShown /\ FundsConserved
    OBVIOUS
  <2>1. Tip = GenesisState /\ Committed = GenesisState /\ burned = 0
    BY TipInit DEF ConsensusInit
  <2>2. Supply(GenesisState) \in Nat
    BY GenesisGood, GoodFunds
  <2> QED BY <2>1, <2>2 DEF TipShown, FundsConserved
<1>2. Inv /\ TipShown /\ FundsConserved /\ [Next]_vars => TipShown' /\ FundsConserved'
  BY TipStep, FundsStep
<1> QED BY <1>1, <1>2, Invariant, PTL DEF Spec

(* What one entry of delivered leaves unpaid is covered by its overrun.    *)
Covered(entry) ==
    entry.verdict # "rejected" =>
        FeeUsed(entry.tx) - entry.paid =< entry.tx.price * Overrun(entry.tx)

AllCovered == \A i \in 1..Len(delivered) : Covered(delivered[i])

LEMMA CoveredStep ==
    ASSUME Inv, AllCovered, [Next]_vars
    PROVE  AllCovered'
<1>1. CASE UNCHANGED delivered
  BY <1>1 DEF AllCovered, Covered, FeeUsed, Overrun, SaturatingSub
<1>2. CASE delivered' = <<>>
  BY <1>2 DEF AllCovered
<1>3. ASSUME NEW tx \in Txs, AbciDeliverTx(tx)
      PROVE  AllCovered'
  <2>1. PICK verdict \in {"rejected", "failed", "applied"}, paid \in Nat :
           /\ Record(tx, verdict, paid)
           /\ verdict # "rejected" =>
                FeeUsed(tx) - paid =< tx.price * Overrun(tx)
    BY <1>3, DeliverTxRecord, FeePaidTaken
  <2> DEFINE entry == [tx |-> tx, verdict |-> verdict, paid |-> paid]
             Entry == [tx : Txs, verdict : {"rejected", "failed", "applied"}, paid : Nat]
  <2>2. Covered(entry) /\ entry \in Entry /\ delivered' = Append(delivered, entry)
    BY <2>1 DEF Covered, Record
  <2>3. delivered \in Seq(Entry)
    BY DEF Inv, Delivered
  <2> HIDE DEF entry, Entry
  <2>4. /\ Len(delivered) \in Nat /\ Len(delivered') = Len(delivered) + 1
        /\ delivered'[Len(delivered) + 1] = entry
        /\ \A i \in 1..Len(delivered) : delivered'[i] = delivered[i]
    BY <2>2, <2>3, AppendProperties, LenProperties
  <2>5. \A i \in 1..Len(delivered') : Covered(delivered'[i])
    <3> SUFFICES ASSUME NEW i \in 1..Len(delivered') PROVE Covered(delivered'[i])
      OBVIOUS
    <3>1. i \in 1..Len(delivered) \/ i = Len(delivered) + 1
      BY <2>4
    <3> QED BY <2>2, <2>4, <3>1 DEF AllCovered
  <2> QED BY <2>5 DEF AllCovered, Covered, FeeUsed, Overrun, SaturatingSub
<1>4. CASE \E tx \in Txs : AbciCheckTx(tx)
  BY <1>1, <1>4, CheckTxEffect
<1>5. CASE \E p \in Proposers, t \in Times : AbciBeginBlock(p, t)
  BY <1>2, <1>5, BeginBlockEffect
<1>6. CASE AbciEndBlock \/ AbciCommit
  BY <1>1, <1>6 DEF AbciEndBlock, AbciCommit
<1> QED BY <1>1, <1>3, <1>4, <1>5, <1>6 DEF Next, vars

(* A fee is forgiven only for gas beyond the limit: admission ensures the  *)
(* rest, and executing the transaction leaves enough of it to its sender.  *)
THEOREM FeesAreCovered == Spec => []FeesCovered
<1>1. ConsensusInit => AllCovered
  BY DEF ConsensusInit, AllCovered
<1>2. Inv /\ AllCovered /\ [Next]_vars => AllCovered'
  BY CoveredStep
<1>3. AllCovered => FeesCovered
  BY DEF AllCovered, Covered, FeesCovered, Charged
<1> QED BY <1>1, <1>2, <1>3, Invariant, PTL DEF Spec

-----------------------------------------------------------------------------
(* Receipts.                                                               *)

OpenRecord ==
    phase # "idle" =>
        RecordComplete(sb[DeliverTx]) /\ NoncesUsed(sb[DeliverTx].block.txs, Tip)

BlocksReceipted == \A h \in DOMAIN blocks : BlockReceipts(blocks[h])

LEMMA ReceiptsOfBlocks ==
    ASSUME BlocksReceipted
    PROVE  ReceiptsMatchTxs
BY DEF BlocksReceipted, ReceiptsMatchTxs, BlockReceipts

LEMMA RecordKept ==
    ASSUME OpenRecord, vs'[Main] = vs[Main], vs'[DeliverTx] = vs[DeliverTx],
           sb'[DeliverTx] = sb[DeliverTx], (phase' = "idle") = (phase = "idle")
    PROVE  OpenRecord'
<1>1. Tip' = Tip
  BY DEF Tip, Committed, View, HasVersions, BranchExists
<1>2. phase' # "idle" => RecordComplete(sb'[DeliverTx])
  BY DEF OpenRecord
<1>3. phase' # "idle" => NoncesUsed(sb'[DeliverTx].block.txs, Tip')
  BY <1>1 DEF OpenRecord
<1> QED BY <1>2, <1>3 DEF OpenRecord, RecordComplete, NoncesUsed

(* An admitted transaction is not yet in the block, and its nonce is used  *)
(* up by its success.                                                      *)
LEMMA RecordDelivered ==
    ASSUME Inv, OpenRecord, NEW tx \in Txs, TipExecutes(tx)
    PROVE  OpenRecord'
<1> DEFINE branch == sb[DeliverTx]
           txs == branch.block.txs
           recorded == Admissible(tx, Tip) /\ ExecSucceeds(tx)
<1>1. branch \in StateBranch /\ branch.vicinity \in Vicinity /\ txs \in Seq(Txs)
  BY BranchNamesDistinct DEF Inv, StateBranch, Block
<1>2. RecordComplete(branch) /\ NoncesUsed(txs, Tip)
  BY DEF OpenRecord, TipExecutes
<1>3. Tip \in GoodState /\ Tip' = Outcome(tx, Tip, branch.vicinity)
  BY TipType DEF TipExecutes
<1>4. sb'[DeliverTx] = IF recorded THEN Recorded(branch, tx) ELSE branch
  BY DEF TipExecutes
<1>5. \A a \in Addr :
         /\ Tip'.accounts[a].nonce =
               Tip.accounts[a].nonce + (IF recorded /\ a = tx.from THEN 1 ELSE 0)
         /\ Tip.accounts[a].nonce \in Nat
  BY <1>1, <1>3, OutcomeNonce DEF GoodState, EvmState, Account
<1>6. /\ Range(txs) \in SUBSET Txs /\ Range(Append(txs, tx)) = Range(txs) \cup {tx}
      /\ \A x \in Txs : x.from \in Addr /\ x.nonce \in Nat
  <2>1. \A x \in Txs : x.from \in Addr /\ x.nonce \in Nat
    BY TxsAssumption DEF Tx
  <2> HIDE DEF txs
  <2> QED BY <1>1, <2>1, RangeAppended
<1>7. \A x \in Range(txs) : x.nonce < Tip'.accounts[x.from].nonce
  <2> SUFFICES ASSUME NEW x \in Range(txs) PROVE x.nonce < Tip'.accounts[x.from].nonce
    OBVIOUS
  <2>1. x.from \in Addr /\ x.nonce \in Nat /\ x.nonce < Tip.accounts[x.from].nonce
    BY <1>2, <1>6 DEF NoncesUsed
  <2> HIDE DEF recorded
  <2> QED BY <1>5, <2>1
<1>8. CASE recorded
  <2>1. /\ tx.nonce = Tip.accounts[tx.from].nonce
        /\ tx.from \in Addr /\ tx.nonce \in Nat
    BY <1>6, <1>8 DEF Admissible, PreExec, CheckNonce
  <2>2. tx \notin Range(txs)
    BY <1>2, <2>1 DEF NoncesUsed
  <2>3. sb'[DeliverTx].block.txs = Append(txs, tx)
    BY <1>1, <1>4, <1>8, RecordedType
  <2>4. RecordComplete(sb'[DeliverTx])
    BY <1>1, <1>2, <1>4, <1>8, <2>2, RecordGrows
  <2>5. tx.nonce < Tip'.accounts[tx.from].nonce
    BY <1>5, <1>8, <2>1
  <2>6. NoncesUsed(sb'[DeliverTx].block.txs, Tip')
    BY <1>6, <1>7, <2>3, <2>5 DEF NoncesUsed
  <2> QED BY <2>4, <2>6 DEF OpenRecord, RecordComplete, NoncesUsed
<1>9. CASE ~recorded
  <2>1. RecordComplete(sb'[DeliverTx]) /\ NoncesUsed(sb'[DeliverTx].block.txs, Tip')
    BY <1>2, <1>4, <1>7, <1>9 DEF NoncesUsed
  <2> QED BY <2>1 DEF OpenRecord, RecordComplete, NoncesUsed
<1> QED BY <1>8, <1>9

LEMMA ReceiptsStep ==
    ASSUME Inv, TipShown, OpenRecord, BlocksReceipted, [Next]_vars
    PROVE  OpenRecord' /\ BlocksReceipted'
<1> USE BranchNamesDistinct
<1>1. OpenRecord'
  <2>1. CASE UNCHANGED vars
    BY <2>1, RecordKept DEF vars
  <2>2. CASE \E tx \in Txs : AbciCheckTx(tx)
    BY <2>2, CheckTxEffect, RecordKept
  <2>3. ASSUME NEW p \in Proposers, NEW t \in Times, AbciBeginBlock(p, t)
        PROVE  OpenRecord'
    <3>1. /\ sb'[DeliverTx].hashes = <<>>
          /\ sb'[DeliverTx].block = NewBlock(LastBlockHeight + 1, p, t, LastBlock.hash)
      BY <2>3, BeginBlockEffect
    <3>2. RecordComplete(sb'[DeliverTx]) /\ NoncesUsed(sb'[DeliverTx].block.txs, Tip')
      BY <3>1, RecordStarts
    <3> QED BY <3>2 DEF OpenRecord, RecordComplete, NoncesUsed
  <2>4. CASE \E tx \in Txs : AbciDeliverTx(tx)
    BY <2>4, DeliverTxTip, RecordDelivered
  <2>5. CASE AbciEndBlock
    <3>1. /\ vs'[Main] = vs[Main] /\ vs'[DeliverTx] = vs[DeliverTx]
          /\ sb'[DeliverTx] = sb[DeliverTx] /\ (phase' = "idle") = (phase = "idle")
      BY <2>5 DEF AbciEndBlock, ledgerVars
    <3> QED BY <3>1, RecordKept
  <2>6. CASE AbciCommit
    BY <2>6 DEF AbciCommit, OpenRecord
  <2> QED BY <2>1, <2>2, <2>3, <2>4, <2>5, <2>6 DEF Next
<1>2. BlocksReceipted'
  <2>1. \A h \in DOMAIN blocks : BlockReceipts(blocks[h])
    BY DEF BlocksReceipted
  <2>2. CASE blocks' = blocks
    BY <2>1, <2>2 DEF BlocksReceipted, BlockReceipts
  <2>3. CASE TipCommits
    <3> DEFINE h == LastBlockHeight + 1
               block == Sealed(sb[DeliverTx])
    <3>1. BlockReceipts(block)
      <4>1. sb[DeliverTx] \in StateBranch /\ RecordComplete(sb[DeliverTx])
        BY <2>3 DEF Inv, OpenRecord, TipCommits
      <4> QED BY <4>1, RecordSealed
    <3>2. blocks' = Insert(blocks, h, block)
      BY <2>3 DEF TipCommits
    <3> HIDE DEF h, block
    <3>3. \A k \in DOMAIN blocks' : BlockReceipts(blocks'[k])
      <4> SUFFICES ASSUME NEW k \in DOMAIN blocks' PROVE BlockReceipts(blocks'[k])
        OBVIOUS
      <4>1. (k \in DOMAIN blocks \/ k = h) /\ blocks'[k] = IF k = h THEN block ELSE blocks[k]
        BY <3>2 DEF Insert
      <4> QED BY <2>1, <3>1, <4>1
    <3> QED BY <3>3 DEF BlocksReceipted, BlockReceipts
  <2> QED BY <2>2, <2>3, TipStep DEF TipStays, TipExecutes
<1> QED BY <1>1, <1>2

(* The receipts of a committed block are those of its transactions, each   *)
(* once, at its index, with the gas of the block.                          *)
THEOREM ReceiptsMatch == Spec => []ReceiptsMatchTxs
<1>1. ConsensusInit => TipShown /\ OpenRecord /\ BlocksReceipted
  <2> SUFFICES ASSUME ConsensusInit PROVE TipShown /\ OpenRecord /\ BlocksReceipted
    OBVIOUS
  <2>1. phase = "idle" /\ DOMAIN blocks = {}
    BY DEF ConsensusInit, Init
  <2> QED BY <2>1, TipInit DEF TipShown, OpenRecord, BlocksReceipted
<1>2. Inv /\ TipShown /\ OpenRecord /\ BlocksReceipted /\ [Next]_vars
          => TipShown' /\ OpenRecord' /\ BlocksReceipted'
  BY TipStep, ReceiptsStep
<1>3. BlocksReceipted => ReceiptsMatchTxs
  BY ReceiptsOfBlocks
<1> QED BY <1>1, <1>2, <1>3, Invariant, PTL DEF Spec
==============================================================================
