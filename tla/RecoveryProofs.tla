--------------------------- MODULE RecoveryProofs ---------------------------
(***************************************************************************)
(* A node that dies only at the sites in SafeSites comes up again with the *)
(* state, the environment and the hashes it had: the proofs about          *)
(* Recovery, with one invariant that says of every place between two       *)
(* writes which part of a block is already in the store, and one that says *)
(* what the stored blocks are: sealed on one another, without a            *)
(* transaction in two of them.                                             *)
(***************************************************************************)
EXTENDS Recovery, LedgerProofs, FoldProofs

-----------------------------------------------------------------------------
(* The state after a block, and after a chain of blocks.                   *)

BlockResult(st, env, txs) ==
    FoldLeft(LAMBDA s, tx : Outcome(tx, s, env), st, txs)

BlockSteps(env, txs) ==
    [p \in GoodState \X (1..Len(txs)) |-> Outcome(txs[p[2]], p[1], env)]

LEMMA BlockResultFolds ==
    ASSUME NEW st \in GoodState, NEW env \in Vicinity, NEW txs \in Seq(Txs)
    PROVE  FoldLeftIs(Len(txs), GoodState, st, BlockSteps(env, txs),
                      BlockResult(st, env, txs))
<1> DEFINE n == Len(txs)
           D == DOMAIN txs
           H == BlockSteps(env, txs)
           rhs(h) == [t \in SUBSET D |->
                        IF t = {} THEN st ELSE Outcome(txs[Max(t)], h[t \ {Max(t)}], env)]
           iter == CHOOSE h : h = rhs(h)
<1>1. n \in Nat /\ D = 1..n /\ \A i \in 1..n : txs[i] \in Txs
  BY LenProperties, ElementOfSeq
<1>2. BlockResult(st, env, txs) = iter[D]
  BY DEF BlockResult, FoldLeft, MapThenFoldSet
<1> HIDE DEF n, D
<1>3. /\ H \in [GoodState \X (1..n) -> GoodState]
      /\ \A s \in GoodState, k \in 1..n : H[<<s, k>>] = Outcome(txs[k], s, env)
  <2>1. \A s \in GoodState, k \in 1..n : Outcome(txs[k], s, env) \in GoodState
    BY <1>1, OutcomeGood
  <2> QED BY <2>1 DEF BlockSteps, n
<1> HIDE DEF H
<1>4. PICK g \in [SUBSET (1..n) -> GoodState] :
           \A t \in SUBSET (1..n) :
               g[t] = IF t = {} THEN st ELSE H[<<g[t \ {Max(t)}], Max(t)>>]
  <2>1. FoldByMaxDefined(n, GoodState, st, H)
    BY <1>1, <1>3, FoldByMaxExists
  <2> QED BY <2>1 DEF FoldByMaxDefined
<1>5. \A t \in SUBSET (1..n) : t # {} => Max(t) \in 1..n
  BY <1>1, MaxOfSubset
<1>6. \A t \in SUBSET (1..n) : t # {} => g[t] = Outcome(txs[Max(t)], g[t \ {Max(t)}], env)
  BY <1>3, <1>4, <1>5
<1>7. g = rhs(g)
  BY <1>1, <1>4, <1>6
<1>8. iter = rhs(iter)
  <2> HIDE DEF rhs
  <2> QED BY <1>7
<1>9. FoldsByMax(iter, n, GoodState, st, H)
  <2> HIDE DEF iter
  <2>1. iter[{}] = st
    BY <1>1, <1>8
  <2>2. \A t \in SUBSET (1..n) : t # {} =>
            iter[t] = Outcome(txs[Max(t)], iter[t \ {Max(t)}], env)
    BY <1>1, <1>8
  <2> QED BY <1>3, <1>5, <2>1, <2>2 DEF FoldsByMax
<1> HIDE DEF iter
<1>10. FoldLeftIs(n, GoodState, st, H, iter[1..n])
  BY <1>1, <1>3, <1>9, FoldByPrefixes
<1> QED BY <1>1, <1>2, <1>10 DEF n, H

LEMMA BlockResultType ==
    ASSUME NEW st \in GoodState, NEW env \in Vicinity, NEW txs \in Seq(Txs)
    PROVE  BlockResult(st, env, txs) \in GoodState
BY BlockResultFolds, LenProperties, FoldType

LEMMA BlockResultEmpty ==
    ASSUME NEW st \in GoodState, NEW env \in Vicinity
    PROVE  BlockResult(st, env, <<>>) = st
<1>1. <<>> \in Seq(Txs) /\ Len(<<>>) = 0
  BY EmptySeq
<1>2. FoldLeftIs(0, GoodState, st, BlockSteps(env, <<>>), BlockResult(st, env, <<>>))
  BY <1>1, BlockResultFolds
<1> QED BY <1>2, FoldOfNone

LEMMA BlockResultAppend ==
    ASSUME NEW st \in GoodState, NEW env \in Vicinity, NEW txs \in Seq(Txs), NEW tx \in Txs
    PROVE  BlockResult(st, env, Append(txs, tx)) =
              Outcome(tx, BlockResult(st, env, txs), env)
<1> DEFINE n == Len(txs)
           long == Append(txs, tx)
           H == BlockSteps(env, txs)
           J == BlockSteps(env, long)
           V == GoodState
<1>1. /\ n \in Nat /\ long \in Seq(Txs) /\ Len(long) = n + 1 /\ long[n + 1] = tx
      /\ \A i \in 1..n : long[i] = txs[i]
  BY AppendProperties, LenProperties
<1> HIDE DEF long
<1>2. /\ FoldLeftIs(n, V, st, H, BlockResult(st, env, txs))
      /\ FoldLeftIs(n + 1, V, st, J, BlockResult(st, env, long))
  BY <1>1, BlockResultFolds
<1> HIDE DEF n
<1>3. \A s \in V, k \in 1..n : H[<<s, k>>] = J[<<s, k>>]
  <2>1. \A k \in 1..n : k \in 1..(n + 1)
    BY <1>1
  <2> QED BY <1>1, <2>1 DEF BlockSteps, n
<1>4. \A s \in V : J[<<s, n + 1>>] = Outcome(tx, s, env)
  <2>1. n + 1 \in 1..(n + 1)
    BY <1>1
  <2> QED BY <1>1, <2>1 DEF BlockSteps
<1> HIDE DEF H, J, V
<1>5. /\ BlockResult(st, env, long) = J[<<BlockResult(st, env, txs), n + 1>>]
      /\ BlockResult(st, env, txs) \in V
  BY <1>1, <1>2, <1>3, FoldOfMore
<1> QED BY <1>4, <1>5 DEF long

Proposal == [proposer : Proposers, time : Times, txs : Seq(Txs)]

Replayed == [state : GoodState, env : Vicinity, height : Nat]

ReplayStart == [state |-> GenesisState, env |-> DefaultVicinity, height |-> 0]

ReplayOf(chain) == FoldLeft(ReplayBlock, ReplayStart, chain)

ReplaySteps(chain) ==
    [p \in Replayed \X (1..Len(chain)) |-> ReplayBlock(p[1], chain[p[2]])]

LEMMA ReplayBlockType ==
    ASSUME NEW acc \in Replayed, NEW b \in Proposal
    PROVE  ReplayBlock(acc, b) \in Replayed
<1> DEFINE st == BlockResult(acc.state, acc.env, b.txs)
           env == [number |-> acc.height, coinbase |-> b.proposer, time |-> b.time]
<1>1. ReplayBlock(acc, b) = [state |-> st, env |-> env, height |-> acc.height + 1]
  BY DEF ReplayBlock, BlockResult
<1>2. st \in GoodState
  BY BlockResultType DEF Replayed, Proposal
<1>3. env \in Vicinity /\ acc.height + 1 \in Nat
  <2>1. acc.height \in Nat /\ b.proposer \in Proposers /\ b.time \in Times
    BY DEF Replayed, Proposal
  <2>2. b.time \in Nat
    BY <2>1, ConstantsAssumption
  <2> QED BY <2>1, <2>2 DEF Vicinity
<1> HIDE DEF st, env
<1> QED BY <1>1, <1>2, <1>3 DEF Replayed

LEMMA ReplayBlockHeight ==
    ASSUME NEW acc, NEW b
    PROVE  ReplayBlock(acc, b).height = acc.height + 1
BY DEF ReplayBlock

LEMMA ReplayStartType == ReplayStart \in Replayed
BY GenesisGood, DefaultsType DEF ReplayStart, Replayed

LEMMA ReplayFolds ==
    ASSUME NEW chain \in Seq(Proposal)
    PROVE  FoldLeftIs(Len(chain), Replayed, ReplayStart, ReplaySteps(chain), ReplayOf(chain))
<1> DEFINE n == Len(chain)
           D == DOMAIN chain
           H == ReplaySteps(chain)
           rhs(h) == [t \in SUBSET D |->
                        IF t = {} THEN ReplayStart
                        ELSE ReplayBlock(h[t \ {Max(t)}], chain[Max(t)])]
           iter == CHOOSE h : h = rhs(h)
<1>1. n \in Nat /\ D = 1..n /\ \A i \in 1..n : chain[i] \in Proposal
  BY LenProperties, ElementOfSeq
<1>2. ReplayOf(chain) = iter[D]
  BY DEF ReplayOf, FoldLeft, MapThenFoldSet
<1> HIDE DEF n, D
<1>3. /\ H \in [Replayed \X (1..n) -> Replayed]
      /\ \A acc \in Replayed, k \in 1..n : H[<<acc, k>>] = ReplayBlock(acc, chain[k])
  <2>1. \A acc \in Replayed, k \in 1..n : ReplayBlock(acc, chain[k]) \in Replayed
    BY <1>1, ReplayBlockType
  <2> QED BY <2>1 DEF ReplaySteps, n
<1> HIDE DEF H
<1>4. PICK g \in [SUBSET (1..n) -> Replayed] :
           \A t \in SUBSET (1..n) :
               g[t] = IF t = {} THEN ReplayStart ELSE H[<<g[t \ {Max(t)}], Max(t)>>]
  <2>1. FoldByMaxDefined(n, Replayed, ReplayStart, H)
    BY <1>1, <1>3, ReplayStartType, FoldByMaxExists
  <2> QED BY <2>1 DEF FoldByMaxDefined
<1>5. \A t \in SUBSET (1..n) : t # {} => Max(t) \in 1..n
  BY <1>1, MaxOfSubset
<1>6. \A t \in SUBSET (1..n) : t # {} => g[t] = ReplayBlock(g[t \ {Max(t)}], chain[Max(t)])
  BY <1>3, <1>4, <1>5
<1>7. g = rhs(g)
  BY <1>1, <1>4, <1>6
<1>8. iter = rhs(iter)
  <2> HIDE DEF rhs
  <2> QED BY <1>7
<1>9. FoldsByMax(iter, n, Replayed, ReplayStart, H)
  <2> HIDE DEF iter
  <2>1. iter[{}] = ReplayStart
    BY <1>1, <1>8
  <2>2. \A t \in SUBSET (1..n) : t # {} =>
            iter[t] = ReplayBlock(iter[t \ {Max(t)}], chain[Max(t)])
    BY <1>1, <1>8
  <2> QED BY <1>3, <1>5, <2>1, <2>2 DEF FoldsByMax
<1> HIDE DEF iter
<1>10. FoldLeftIs(n, Replayed, ReplayStart, H, iter[1..n])
  BY <1>1, <1>3, <1>9, ReplayStartType, FoldByPrefixes
<1> QED BY <1>1, <1>2, <1>10 DEF n, H

LEMMA ReplayType ==
    ASSUME NEW chain \in Seq(Proposal)
    PROVE  ReplayOf(chain) \in Replayed
BY ReplayFolds, LenProperties, FoldType

LEMMA ReplayEmpty == ReplayOf(<<>>) = ReplayStart
<1>1. <<>> \in Seq(Proposal) /\ Len(<<>>) = 0
  BY EmptySeq
<1>2. FoldLeftIs(0, Replayed, ReplayStart, ReplaySteps(<<>>), ReplayOf(<<>>))
  BY <1>1, ReplayFolds
<1> QED BY <1>2, FoldOfNone

LEMMA ReplayAppend ==
    ASSUME NEW chain \in Seq(Proposal), NEW b \in Proposal
    PROVE  ReplayOf(Append(chain, b)) = ReplayBlock(ReplayOf(chain), b)
<1> DEFINE n == Len(chain)
           long == Append(chain, b)
           H == ReplaySteps(chain)
           J == ReplaySteps(long)
<1>1. /\ n \in Nat /\ long \in Seq(Proposal) /\ Len(long) = n + 1 /\ long[n + 1] = b
      /\ \A i \in 1..n : long[i] = chain[i]
  BY AppendProperties, LenProperties
<1> HIDE DEF long
<1>2. /\ FoldLeftIs(n, Replayed, ReplayStart, H, ReplayOf(chain))
      /\ FoldLeftIs(n + 1, Replayed, ReplayStart, J, ReplayOf(long))
  BY <1>1, ReplayFolds
<1> HIDE DEF n
<1>3. \A acc \in Replayed, k \in 1..n : H[<<acc, k>>] = J[<<acc, k>>]
  <2>1. \A k \in 1..n : k \in 1..(n + 1)
    BY <1>1
  <2> QED BY <1>1, <2>1 DEF ReplaySteps, n
<1>4. \A acc \in Replayed : J[<<acc, n + 1>>] = ReplayBlock(acc, b)
  <2>1. n + 1 \in 1..(n + 1)
    BY <1>1
  <2> QED BY <1>1, <2>1 DEF ReplaySteps
<1> HIDE DEF H, J
<1>5. ReplayOf(long) = J[<<ReplayOf(chain), n + 1>>] /\ ReplayOf(chain) \in Replayed
  BY <1>1, <1>2, <1>3, FoldOfMore
<1> QED BY <1>4, <1>5 DEF long

-----------------------------------------------------------------------------
(* The state and the environment after the first n blocks.                 *)

LEMMA DecidedPrefix ==
    ASSUME NEW E, NEW chain \in Seq(E), NEW n \in Nat, n =< Len(chain)
    PROVE  /\ SubSeq(chain, 1, n) \in Seq(E)
           /\ SubSeq(chain, 1, 0) = <<>>
           /\ SubSeq(chain, 1, Len(chain)) = chain
           /\ n < Len(chain) =>
                 SubSeq(chain, 1, n + 1) = Append(SubSeq(chain, 1, n), chain[n + 1])
           /\ \A x \in E : SubSeq(Append(chain, x), 1, n) = SubSeq(chain, 1, n)
<1>1. SubSeq(chain, 1, n) \in Seq(E)
  BY SubSeqProperties
<1>2. SubSeq(chain, 1, 0) = <<>>
  BY SubSeqEmpty
<1>3. SubSeq(chain, 1, Len(chain)) = chain
  BY SubSeqFull
<1>4. ASSUME n < Len(chain)
      PROVE SubSeq(chain, 1, n + 1) = Append(SubSeq(chain, 1, n), chain[n + 1])
  BY <1>4, SubSeqRecursiveSecond
<1>5. ASSUME NEW x \in E PROVE SubSeq(Append(chain, x), 1, n) = SubSeq(chain, 1, n)
  OBVIOUS
<1> QED BY <1>1, <1>2, <1>3, <1>4, <1>5

At(chain, n) == ReplayOf(SubSeq(chain, 1, n))

(* The state after the first k transactions of the block that follows.     *)
Within(chain, n, k) ==
    BlockResult(At(chain, n).state, At(chain, n).env, SubSeq(chain[n + 1].txs, 1, k))

LEMMA AtType ==
    ASSUME NEW chain \in Seq(Proposal), NEW n \in Nat, n =< Len(chain)
    PROVE  /\ At(chain, n) \in Replayed
           /\ At(chain, n).state \in GoodState
           /\ At(chain, n).env \in Vicinity
           /\ At(chain, n).height = n
           /\ At(chain, 0) = ReplayStart
           /\ \A b \in Proposal : At(Append(chain, b), n) = At(chain, n)
<1> DEFINE N == {k \in Nat : k =< Len(chain) => At(chain, k).height = k}
<1>1. \A k \in Nat : k =< Len(chain) => At(chain, k) \in Replayed
  BY DecidedPrefix, ReplayType DEF At
<1>2. At(chain, 0) = ReplayStart
  BY DecidedPrefix, ReplayEmpty DEF At
<1>3. 0 \in N
  BY <1>2 DEF ReplayStart
<1>4. ASSUME NEW k \in Nat, k \in N
      PROVE  k + 1 \in N
  <2> SUFFICES ASSUME k + 1 =< Len(chain) PROVE At(chain, k + 1).height = k + 1
    OBVIOUS
  <2>1. Len(chain) \in Nat
    BY LenProperties
  <2>2. k < Len(chain) /\ k =< Len(chain) /\ chain[k + 1] \in Proposal
    BY <2>1, ElementOfSeq
  <2>3. SubSeq(chain, 1, k) \in Seq(Proposal)
        /\ SubSeq(chain, 1, k + 1) = Append(SubSeq(chain, 1, k), chain[k + 1])
    BY <2>2, DecidedPrefix
  <2>4. At(chain, k + 1) = ReplayBlock(At(chain, k), chain[k + 1])
    BY <2>2, <2>3, ReplayAppend DEF At
  <2>5. At(chain, k + 1).height = At(chain, k).height + 1
    <3>1. At(chain, k) \in Replayed
      BY <1>1, <2>2
    <3> QED BY <2>2, <2>4, <3>1, ReplayBlockHeight
  <2>6. At(chain, k).height = k
    BY <1>4, <2>2
  <2> QED BY <2>5, <2>6
<1>5. Nat \subseteq N
  <2> HIDE DEF N
  <2> QED BY <1>3, <1>4, NatSetInduction
<1>6. ASSUME NEW b \in Proposal PROVE At(Append(chain, b), n) = At(chain, n)
  <2>1. SubSeq(Append(chain, b), 1, n) = SubSeq(chain, 1, n)
    OBVIOUS
  <2> QED BY <2>1 DEF At
<1> QED BY <1>1, <1>2, <1>5, <1>6 DEF Replayed

(* The next block, as a whole and one transaction at a time.               *)
LEMMA AtNext ==
    ASSUME NEW chain \in Seq(Proposal), NEW n \in Nat, n < Len(chain)
    PROVE  /\ chain[n + 1] \in Proposal
           /\ At(chain, n + 1).state = Within(chain, n, Len(chain[n + 1].txs))
           /\ At(chain, n + 1).env = [number |-> n, coinbase |-> chain[n + 1].proposer,
                                      time |-> chain[n + 1].time]
           /\ Within(chain, n, 0) = At(chain, n).state
           /\ \A k \in 1..Len(chain[n + 1].txs) :
                 /\ chain[n + 1].txs[k] \in Txs
                 /\ Within(chain, n, k) =
                      Outcome(chain[n + 1].txs[k], Within(chain, n, k - 1), At(chain, n).env)
<1> DEFINE b == chain[n + 1]
           txs == b.txs
           m == Len(txs)
           acc == At(chain, n)
<1>1. Len(chain) \in Nat
  BY LenProperties
<1>2. n =< Len(chain) /\ n + 1 \in 1..Len(chain)
  BY <1>1
<1>3. b \in Proposal /\ txs \in Seq(Txs)
  <2>1. b \in Proposal
    BY <1>2, ElementOfSeq
  <2> HIDE DEF b
  <2>2. b.txs \in Seq(Txs)
    BY <2>1 DEF Proposal
  <2> QED BY <2>1, <2>2
<1>4. /\ acc \in Replayed /\ acc.state \in GoodState /\ acc.env \in Vicinity
      /\ acc.height = n
  BY <1>2, AtType
<1>5. At(chain, n + 1) = ReplayBlock(acc, b)
  BY <1>2, <1>3, DecidedPrefix, ReplayAppend DEF At
<1>6. m \in Nat /\ SubSeq(txs, 1, m) = txs /\ SubSeq(txs, 1, 0) = <<>>
  BY <1>3, LenProperties, DecidedPrefix
<1> HIDE DEF acc
<1>7. /\ At(chain, n + 1).state = BlockResult(acc.state, acc.env, txs)
      /\ At(chain, n + 1).env = [number |-> n, coinbase |-> b.proposer, time |-> b.time]
  <2> HIDE DEF b
  <2>1. /\ ReplayBlock(acc, b).state = BlockResult(acc.state, acc.env, b.txs)
        /\ ReplayBlock(acc, b).env =
              [number |-> acc.height, coinbase |-> b.proposer, time |-> b.time]
    BY DEF ReplayBlock, BlockResult
  <2> QED BY <1>4, <1>5, <2>1
<1>8. /\ At(chain, n + 1).state = Within(chain, n, m)
      /\ Within(chain, n, 0) = acc.state
  BY <1>4, <1>6, <1>7, BlockResultEmpty DEF Within, acc
<1>9. ASSUME NEW k \in 1..m
      PROVE  /\ txs[k] \in Txs
             /\ Within(chain, n, k) = Outcome(txs[k], Within(chain, n, k - 1), acc.env)
  <2> DEFINE before == SubSeq(txs, 1, k - 1)
  <2>1. txs[k] \in Txs
    BY <1>3, ElementOfSeq
  <2>2. k - 1 \in Nat /\ k - 1 < m /\ k - 1 =< m /\ (k - 1) + 1 = k
    BY <1>6
  <2> HIDE DEF m
  <2>3. SubSeq(txs, 1, (k - 1) + 1) = Append(before, txs[(k - 1) + 1]) /\ before \in Seq(Txs)
    BY <1>3, <2>2, DecidedPrefix DEF m
  <2>4. SubSeq(txs, 1, k) = Append(before, txs[k])
    BY <2>2, <2>3
  <2>5. BlockResult(acc.state, acc.env, Append(before, txs[k])) =
          Outcome(txs[k], BlockResult(acc.state, acc.env, before), acc.env)
    BY <1>4, <2>1, <2>3, BlockResultAppend
  <2> QED BY <2>1, <2>4, <2>5 DEF Within, acc
<1> QED BY <1>3, <1>7, <1>8, <1>9 DEF acc

LEMMA ReplayIsAt == \A n : Replay(n) = At(decided, n)
BY DEF Replay, At, ReplayOf, ReplayStart

-----------------------------------------------------------------------------
(* The invariant: what the store, the memory and the files hold at every   *)
(* place between two writes.  L is LastBlockHeight in the comments.        *)

Refreshing == {"removeCheck", "removeDeliver", "createDeliver", "createCheck"}
Preparing  == {"versionDeliver", "versionCheck"}
Storing    == {"storeHash", "storeBlock"}
Saving     == {"truncate", "write"}

Sites == {"idle", "loaded", "versionMain", "block", "merge", "down"}
            \cup Refreshing \cup Preparing \cup Storing \cup Saving

(* The block being executed is the next one Tendermint decided.            *)
Executing ==
    \/ pc \in {"versionMain", "block", "merge"} \cup Preparing \cup Storing
    \/ pc \in Refreshing /\ ~loading

HeightsUpTo(vers, h) == \A i \in 1..Len(vers) : vers[i].name[1] =< h

(* The newest version is the one of block h + 1, there is one below it,    *)
(* and both show the same: popping it takes the block back.                *)
Prepared(vers, h) ==
    /\ Len(vers) > 1
    /\ vers[Len(vers)].name = BlockVersion(h + 1)
    /\ \A i \in 1..(Len(vers) - 1) : vers[i].name[1] =< h
    /\ vers[Len(vers) - 1].state = vers[Len(vers)].state

RecTypes ==
    /\ pc \in Sites
    /\ panicked = FALSE
    /\ loading \in BOOLEAN
    /\ cursor \in Nat \ {0}
    /\ snapshot \in {NoSnapshot, TornSnapshot} \cup [kind : {"saved"}, branch : StateBranch]
    /\ decided \in Seq(Proposals)
    /\ acked \in Seq(Hash)
    /\ crashes \in 0..MaxCrashes
    /\ sb \in [BranchNames -> StateBranch]

RecControl ==
    /\ loading => pc \in Refreshing \cup {"loaded"}
    /\ pc = "loaded" => loading
    /\ Executing => LastBlockHeight < Len(decided)
    /\ pc # "block" => cursor = 1
    /\ pc = "block" => cursor =< Len(NextBlock.txs) + 1
    /\ pc = "down" => sb = NewStateBranches

(* Stored blocks are the decided ones; only storeBlock is between the two  *)
(* writes of one.                                                          *)
RecBlocks ==
    /\ LastBlockHeight \in Nat /\ LastBlockHeight =< Len(decided)
    /\ DOMAIN blocks = 1..LastBlockHeight
    /\ DOMAIN blockHashes =
          1..(IF pc = "storeBlock" THEN LastBlockHeight + 1 ELSE LastBlockHeight)
    /\ \A h \in DOMAIN blocks :
          /\ blocks[h] \in Block /\ blocks[h].height = h
          /\ blocks[h].proposer = decided[h].proposer
          /\ blocks[h].time = decided[h].time

RecAcked ==
    /\ LastBlockHeight = IF pc \in Saving THEN Len(acked) + 1 ELSE Len(acked)
    /\ \A h \in 1..Len(acked) : blocks[h].hash = acked[h]

(* The snapshot has the environment of the last block stored.              *)
RecSnapshot ==
    /\ snapshot = TornSnapshot => pc = "write"
    /\ snapshot = NoSnapshot => pc \in Saving \/ LastBlockHeight = 0
    /\ snapshot \notin {NoSnapshot, TornSnapshot} /\ pc \notin Saving =>
          snapshot.branch.vicinity = At(decided, LastBlockHeight).env

RecBranches ==
    /\ vs \in Store
    /\ BranchExists(vs, Main)
    /\ HasVersions(vs, Main)
    /\ BranchExists(vs, CheckTx) <=> pc \notin {"removeDeliver", "createDeliver", "createCheck"}
    /\ pc = "createDeliver" => ~BranchExists(vs, DeliverTx)
    /\ pc \in {"createCheck", "loaded", "versionMain", "block", "merge"} \cup Preparing =>
          BranchExists(vs, DeliverTx)

(* The next version of each branch has a name of its own.                  *)
RecNames ==
    /\ pc \in {"idle", "loaded", "versionMain"} \cup Refreshing \cup Saving =>
          HeightsUpTo(vs[Main].vers, LastBlockHeight)
    /\ pc \in {"block", "merge"} \cup Preparing => Prepared(vs[Main].vers, LastBlockHeight)
    /\ pc = "down" => \/ HeightsUpTo(vs[Main].vers, LastBlockHeight)
                      \/ Prepared(vs[Main].vers, LastBlockHeight)
    /\ pc \in Storing => HeightsUpTo(vs[Main].vers, LastBlockHeight + 1)
    /\ pc \in {"createCheck", "loaded", "versionMain", "versionDeliver"} =>
          vs[DeliverTx].vers = <<>>
    /\ pc \in {"loaded", "versionMain"} \cup Preparing => vs[CheckTx].vers = <<>>
    /\ pc \in {"versionCheck", "block", "merge"} =>
          /\ HasVersions(vs, DeliverTx)
          /\ NamesUpTo(vs[DeliverTx].vers, LastBlockHeight + 1, Len(sb[DeliverTx].hashes))
    /\ pc \in {"idle", "block", "merge"} \cup Storing \cup Saving =>
          NamesUpTo(vs[CheckTx].vers, sb[CheckTx].block.height, Len(sb[CheckTx].hashes))

(* Main shows the replay of L blocks, and of L + 1 between the merge and   *)
(* the write of the block; DeliverTx is as far into the next block as the  *)
(* cursor says.                                                            *)
RecState ==
    /\ View(vs, Main) = IF pc \in Storing THEN At(decided, LastBlockHeight + 1).state
                                          ELSE At(decided, LastBlockHeight).state
    /\ pc \in {"createCheck", "loaded", "versionMain"} \cup Preparing =>
          View(vs, DeliverTx) = At(decided, LastBlockHeight).state
    /\ pc = "block" => View(vs, DeliverTx) = Within(decided, LastBlockHeight, cursor - 1)
    /\ pc = "merge" => View(vs, DeliverTx) = At(decided, LastBlockHeight + 1).state

RecEnv ==
    /\ pc \in {"idle", "loaded", "versionMain"} \cup Refreshing \cup Saving =>
          sb[Main].vicinity = At(decided, LastBlockHeight).env
    /\ pc \in {"block", "merge"} \cup Preparing \cup Storing =>
          sb[Main].vicinity = At(decided, LastBlockHeight + 1).env
    /\ pc \in {"versionMain", "block"} \cup Preparing =>
          sb[DeliverTx].vicinity = At(decided, LastBlockHeight).env

(* The record of the next block, on DeliverTx and then on Main.            *)
RecRecord ==
    /\ pc \in {"versionCheck", "block", "merge"} =>
          /\ sb[DeliverTx].block.height = LastBlockHeight + 1
          /\ sb[DeliverTx].block.proposer = NextBlock.proposer
          /\ sb[DeliverTx].block.time = NextBlock.time
    /\ pc \in Storing =>
          /\ sb[Main].block.height = LastBlockHeight + 1
          /\ sb[Main].block.proposer = NextBlock.proposer
          /\ sb[Main].block.time = NextBlock.time

(* Part by part: where the node is and what survives it, and what the      *)
(* store and the memory hold.                                              *)
RecFiles == RecTypes /\ RecBlocks /\ RecAcked /\ RecSnapshot
RecInv ==
    /\ RecFiles /\ RecControl /\ RecBranches /\ RecNames /\ RecState /\ RecEnv /\ RecRecord

-----------------------------------------------------------------------------
(* What a step leaves alone.                                               *)

LEMMA ProposalsAre == Proposals \subseteq Proposal /\ CheckTxs \subseteq Txs
BY RecoveryAssumption DEF Proposal

LEMMA DecidedChain ==
    ASSUME RecTypes
    PROVE  decided \in Seq(Proposal) /\ Len(decided) \in Nat /\ Len(acked) \in Nat
<1>1. \A i \in 1..Len(decided) : decided[i] \in Proposal
  BY ProposalsAre, ElementOfSeq DEF RecTypes
<1>2. Len(decided) \in Nat /\ Len(acked) \in Nat /\ decided = [i \in 1..Len(decided) |-> decided[i]]
  BY LenProperties DEF RecTypes
<1> QED BY <1>1, <1>2

LEMMA SameLedger ==
    ASSUME blocks' = blocks
    PROVE  /\ LastBlockHeight' = LastBlockHeight
           /\ LastBlock' = LastBlock
           /\ decided' = decided => NextBlock' = NextBlock
BY DEF LastBlockHeight, LastBlock, NextBlock

LEMMA SameBranch ==
    ASSUME NEW b, NEW store, NEW new, new[b] = store[b]
    PROVE  /\ BranchExists(new, b) <=> BranchExists(store, b)
           /\ HasVersions(new, b) <=> HasVersions(store, b)
           /\ View(new, b) = View(store, b)
BY DEF BranchExists, HasVersions, View

(* A step that writes no file and no block, and answers nothing.           *)
LEMMA FilesKept ==
    ASSUME RecFiles,
           UNCHANGED <<blocks, blockHashes, panicked, snapshot, decided, acked>>,
           crashes' \in 0..MaxCrashes,
           pc' \in Sites, loading' \in BOOLEAN, cursor' \in Nat \ {0},
           sb' \in [BranchNames -> StateBranch],
           \/ pc' = pc
           \/ {pc, pc'} \cap (Saving \cup {"storeBlock"}) = {}
    PROVE  RecFiles'
<1>1. LastBlockHeight' = LastBlockHeight
  BY SameLedger DEF RecFiles
<1>2. /\ pc' \in Saving <=> pc \in Saving
      /\ pc' = "storeBlock" <=> pc = "storeBlock"
      /\ pc' = "write" <=> pc = "write"
  BY DEF Saving
<1>3. RecTypes'
  BY DEF RecFiles, RecTypes
<1>4. RecBlocks'
  BY <1>1, <1>2 DEF RecFiles, RecBlocks
<1>5. RecAcked'
  BY <1>1, <1>2 DEF RecFiles, RecAcked
<1>6. RecSnapshot'
  BY <1>1, <1>2 DEF RecFiles, RecSnapshot
<1> QED BY <1>3, <1>4, <1>5, <1>6 DEF RecFiles

LEMMA LastBlockIs ==
    ASSUME RecFiles
    PROVE  /\ LastBlockHeight \in Nat
           /\ LastBlock \in Block
           /\ LastBlock.height = LastBlockHeight
           /\ 1 + LastBlock.height = LastBlockHeight + 1
           /\ pc # "storeBlock" => InvBlocks
<1>1. LastBlockHeight \in Nat
  BY DEF RecFiles, RecBlocks
<1>2. pc # "storeBlock" => InvBlocks
  BY DEF RecFiles, RecBlocks, InvBlocks
<1>3. LastBlock \in Block /\ LastBlock.height = LastBlockHeight
  <2>1. CASE LastBlockHeight = 0
    BY <2>1, DefaultsType DEF LastBlock, DefaultBlock, NewBlock
  <2>2. CASE LastBlockHeight # 0
    BY <1>1, <2>2 DEF LastBlock, RecFiles, RecBlocks
  <2> QED BY <2>1, <2>2
<1> QED BY <1>1, <1>2, <1>3

-----------------------------------------------------------------------------
(* begin_block: from idle, or from down after a restart, to versionMain.   *)

LEMMA BeginBlockKeeps ==
    ASSUME RecInv, BeginBlock
    PROVE  RecInv'
<1> USE DEF Refreshing, Preparing, Storing, Saving
<1>1. /\ pc = "idle" /\ pc' = "removeCheck"
      /\ LastBlockHeight < Len(decided)
      /\ UNCHANGED <<vs, blocks, blockHashes, sb, panicked>>
      /\ UNCHANGED <<loading, cursor, snapshot, decided, acked, crashes>>
  BY DEF BeginBlock, Goto, ledgerVars
<1>2. LastBlockHeight' = LastBlockHeight /\ NextBlock' = NextBlock
  BY <1>1, SameLedger
<1>3. RecFiles'
  <2>1. RecFiles /\ RecTypes
    BY DEF RecInv, RecFiles
  <2> QED BY <1>1, <2>1, FilesKept DEF RecTypes, Sites
<1>4. RecControl'
  BY <1>1, <1>2 DEF RecInv, RecControl, Executing
<1>5. RecBranches'
  BY <1>1 DEF RecInv, RecBranches, BranchExists, HasVersions
<1>6. RecNames'
  BY <1>1, <1>2 DEF RecInv, RecNames
<1>7. RecState'
  BY <1>1, <1>2 DEF RecInv, RecState
<1>8. RecEnv' /\ RecRecord'
  BY <1>1, <1>2 DEF RecInv, RecEnv, RecRecord
<1> QED BY <1>3, <1>4, <1>5, <1>6, <1>7, <1>8 DEF RecInv

LEMMA RemoveCheckKeeps ==
    ASSUME RecInv, RemoveCheck
    PROVE  RecInv'
<1> USE BranchNamesDistinct DEF Refreshing, Preparing, Storing, Saving
<1>1. pc = "removeCheck" /\ vs \in Store /\ BranchExists(vs, CheckTx)
  BY DEF RemoveCheck, WriteStep, RecInv, RecBranches
<1>2. /\ pc' = "removeDeliver" /\ vs' = RemoveBranch(vs, CheckTx)
      /\ UNCHANGED <<blocks, blockHashes, sb, panicked>>
      /\ UNCHANGED <<loading, cursor, snapshot, decided, acked, crashes>>
  BY <1>1 DEF RemoveCheck, WriteStep, CanRemoveBranch
<1>3. LastBlockHeight' = LastBlockHeight /\ NextBlock' = NextBlock
  BY <1>2, SameLedger
<1>4. vs' \in Store /\ vs'[Main] = vs[Main] /\ ~BranchExists(vs', CheckTx)
  BY <1>1, <1>2, RemoveBranchType DEF Store
<1>5. /\ BranchExists(vs', Main) <=> BranchExists(vs, Main)
      /\ HasVersions(vs', Main) <=> HasVersions(vs, Main)
      /\ View(vs', Main) = View(vs, Main)
  BY <1>4, SameBranch
<1>6. RecFiles'
  <2>1. RecFiles /\ RecTypes
    BY DEF RecInv, RecFiles
  <2> QED BY <1>1, <1>2, <2>1, FilesKept DEF RecTypes, Sites
<1>7. RecControl'
  BY <1>1, <1>2, <1>3 DEF RecInv, RecControl, Executing
<1>8. RecBranches'
  BY <1>1, <1>2, <1>4, <1>5 DEF RecInv, RecBranches
<1>9. RecNames'
  BY <1>1, <1>2, <1>3, <1>4 DEF RecInv, RecNames
<1>10. RecState'
  BY <1>1, <1>2, <1>3, <1>5 DEF RecInv, RecState
<1>11. RecEnv' /\ RecRecord'
  BY <1>1, <1>2, <1>3 DEF RecInv, RecEnv, RecRecord
<1> QED BY <1>6, <1>7, <1>8, <1>9, <1>10, <1>11 DEF RecInv

LEMMA RemoveDeliverKeeps ==
    ASSUME RecInv, RemoveDeliver
    PROVE  RecInv'
<1> USE BranchNamesDistinct DEF Refreshing, Preparing, Storing, Saving
<1>1. /\ pc = "removeDeliver" /\ pc' = "createDeliver" /\ vs \in Store
      /\ vs' = IF BranchExists(vs, DeliverTx) THEN RemoveBranch(vs, DeliverTx) ELSE vs
      /\ UNCHANGED <<blocks, blockHashes, sb, panicked>>
      /\ UNCHANGED <<loading, cursor, snapshot, decided, acked, crashes>>
  BY DEF RemoveDeliver, WriteStep, RecInv, RecBranches
<1>2. LastBlockHeight' = LastBlockHeight /\ NextBlock' = NextBlock
  BY <1>1, SameLedger
<1>3. /\ vs' \in Store /\ vs'[Main] = vs[Main] /\ vs'[CheckTx] = vs[CheckTx]
      /\ ~BranchExists(vs', DeliverTx)
  <2>1. CASE BranchExists(vs, DeliverTx)
    BY <1>1, <2>1, RemoveBranchType DEF Store
  <2>2. CASE ~BranchExists(vs, DeliverTx)
    BY <1>1, <2>2
  <2> QED BY <2>1, <2>2
<1>4. /\ BranchExists(vs', Main) <=> BranchExists(vs, Main)
      /\ BranchExists(vs', CheckTx) <=> BranchExists(vs, CheckTx)
      /\ HasVersions(vs', Main) <=> HasVersions(vs, Main)
      /\ View(vs', Main) = View(vs, Main)
  BY <1>3, SameBranch
<1>5. RecFiles'
  <2>1. RecFiles /\ RecTypes
    BY DEF RecInv, RecFiles
  <2> QED BY <1>1, <2>1, FilesKept DEF RecTypes, Sites
<1>6. RecControl'
  BY <1>1, <1>2 DEF RecInv, RecControl, Executing
<1>7. RecBranches'
  BY <1>1, <1>3, <1>4 DEF RecInv, RecBranches
<1>8. RecNames'
  BY <1>1, <1>2, <1>3 DEF RecInv, RecNames
<1>9. RecState'
  BY <1>1, <1>2, <1>4 DEF RecInv, RecState
<1>10. RecEnv' /\ RecRecord'
  BY <1>1, <1>2 DEF RecInv, RecEnv, RecRecord
<1> QED BY <1>5, <1>6, <1>7, <1>8, <1>9, <1>10 DEF RecInv

LEMMA CreateDeliverKeeps ==
    ASSUME RecInv, CreateDeliver
    PROVE  RecInv'
<1> USE BranchNamesDistinct DEF Refreshing, Preparing, Storing, Saving
<1>1. /\ pc = "createDeliver" /\ vs \in Store
      /\ BranchExists(vs, Main) /\ ~BranchExists(vs, DeliverTx)
  BY DEF CreateDeliver, WriteStep, RecInv, RecBranches
<1>2. /\ pc' = "createCheck" /\ vs' = CreateBranch(vs, DeliverTx, Main)
      /\ UNCHANGED <<blocks, blockHashes, sb, panicked>>
      /\ UNCHANGED <<loading, cursor, snapshot, decided, acked, crashes>>
  BY <1>1 DEF CreateDeliver, WriteStep, CanCreateBranch
<1>3. LastBlockHeight' = LastBlockHeight /\ NextBlock' = NextBlock
  BY <1>2, SameLedger
<1>4. /\ vs' \in Store /\ vs'[Main] = vs[Main] /\ vs'[CheckTx] = vs[CheckTx]
      /\ BranchExists(vs', DeliverTx) /\ vs'[DeliverTx].vers = <<>>
      /\ View(vs', DeliverTx) = View(vs, Main)
  BY <1>1, <1>2, CreateBranchType DEF Store
<1>5. /\ BranchExists(vs', Main) <=> BranchExists(vs, Main)
      /\ BranchExists(vs', CheckTx) <=> BranchExists(vs, CheckTx)
      /\ HasVersions(vs', Main) <=> HasVersions(vs, Main)
      /\ View(vs', Main) = View(vs, Main)
  BY <1>4, SameBranch
<1>6. RecFiles'
  <2>1. RecFiles /\ RecTypes
    BY DEF RecInv, RecFiles
  <2> QED BY <1>1, <1>2, <2>1, FilesKept DEF RecTypes, Sites
<1>7. RecControl'
  BY <1>1, <1>2, <1>3 DEF RecInv, RecControl, Executing
<1>8. RecBranches'
  BY <1>1, <1>2, <1>4, <1>5 DEF RecInv, RecBranches
<1>9. RecNames'
  BY <1>1, <1>2, <1>3, <1>4 DEF RecInv, RecNames
<1>10. RecState'
  BY <1>1, <1>2, <1>3, <1>4, <1>5 DEF RecInv, RecState
<1>11. RecEnv' /\ RecRecord'
  BY <1>1, <1>2, <1>3 DEF RecInv, RecEnv, RecRecord
<1> QED BY <1>6, <1>7, <1>8, <1>9, <1>10, <1>11 DEF RecInv

LEMMA CreateCheckKeeps ==
    ASSUME RecInv, CreateCheck
    PROVE  RecInv'
<1> USE BranchNamesDistinct DEF Refreshing, Preparing, Storing, Saving
<1>1. /\ pc = "createCheck" /\ vs \in Store
      /\ BranchExists(vs, Main) /\ ~BranchExists(vs, CheckTx) /\ BranchExists(vs, DeliverTx)
      /\ sb \in [BranchNames -> StateBranch]
  BY DEF CreateCheck, WriteStep, RecInv, RecBranches, RecFiles, RecTypes
<1>2. /\ pc' = IF loading THEN "loaded" ELSE "versionMain"
      /\ vs' = CreateBranch(vs, CheckTx, Main)
      /\ sb' = [b \in BranchNames |-> [sb[b] EXCEPT !.vicinity = sb[Main].vicinity]]
      /\ UNCHANGED <<blocks, blockHashes, panicked>>
      /\ UNCHANGED <<loading, cursor, snapshot, decided, acked, crashes>>
  BY <1>1 DEF CreateCheck, WriteStep, CanCreateBranch
<1>3. LastBlockHeight' = LastBlockHeight /\ NextBlock' = NextBlock
  BY <1>2, SameLedger
<1>4. /\ vs' \in Store /\ vs'[Main] = vs[Main] /\ vs'[DeliverTx] = vs[DeliverTx]
      /\ BranchExists(vs', CheckTx) /\ vs'[CheckTx].vers = <<>>
  BY <1>1, <1>2, CreateBranchType DEF Store
<1>5. /\ BranchExists(vs', Main) <=> BranchExists(vs, Main)
      /\ BranchExists(vs', DeliverTx) <=> BranchExists(vs, DeliverTx)
      /\ HasVersions(vs', Main) <=> HasVersions(vs, Main)
      /\ View(vs', Main) = View(vs, Main)
      /\ View(vs', DeliverTx) = View(vs, DeliverTx)
  BY <1>4, SameBranch
<1>6. /\ sb' \in [BranchNames -> StateBranch]
      /\ sb'[Main].vicinity = sb[Main].vicinity
      /\ sb'[DeliverTx].vicinity = sb[Main].vicinity
  BY <1>1, <1>2 DEF StateBranch
<1>7. RecFiles'
  <2>1. RecFiles /\ RecTypes
    BY DEF RecInv, RecFiles
  <2> QED BY <1>1, <1>2, <1>6, <2>1, FilesKept DEF RecTypes, Sites
<1>8. RecControl'
  BY <1>1, <1>2, <1>3 DEF RecInv, RecControl, Executing
<1>9. RecBranches'
  BY <1>1, <1>2, <1>4, <1>5 DEF RecInv, RecBranches
<1>10. RecNames'
  BY <1>1, <1>2, <1>3, <1>4 DEF RecInv, RecNames
<1>11. RecState'
  BY <1>1, <1>2, <1>3, <1>4, <1>5 DEF RecInv, RecState
<1>12. RecEnv' /\ RecRecord'
  BY <1>1, <1>2, <1>3, <1>6 DEF RecInv, RecEnv, RecRecord
<1> QED BY <1>7, <1>8, <1>9, <1>10, <1>11, <1>12 DEF RecInv

LEMMA LoadedKeeps ==
    ASSUME RecInv, Loaded
    PROVE  RecInv'
<1> USE DEF Refreshing, Preparing, Storing, Saving
<1>1. /\ pc = "loaded" /\ pc' = "idle" /\ loading' = FALSE
      /\ UNCHANGED <<vs, blocks, blockHashes, sb, panicked>>
      /\ UNCHANGED <<cursor, snapshot, decided, acked, crashes>>
  BY DEF Loaded, Goto, ledgerVars
<1>2. LastBlockHeight' = LastBlockHeight /\ NextBlock' = NextBlock
  BY <1>1, SameLedger
<1>3. RecFiles'
  <2>1. RecFiles /\ RecTypes
    BY DEF RecInv, RecFiles
  <2> QED BY <1>1, <2>1, FilesKept DEF RecTypes, Sites
<1>4. RecControl'
  BY <1>1, <1>2 DEF RecInv, RecControl, Executing
<1>5. RecBranches'
  BY <1>1 DEF RecInv, RecBranches, BranchExists, HasVersions
<1>6. RecNames'
  <2>1. vs[CheckTx].vers = <<>>
    BY <1>1 DEF RecInv, RecNames
  <2>2. NamesUpTo(vs[CheckTx].vers, sb[CheckTx].block.height, Len(sb[CheckTx].hashes))
    BY <2>1, EmptySeq DEF NamesUpTo
  <2> QED BY <1>1, <1>2, <2>2 DEF RecInv, RecNames
<1>7. RecState'
  BY <1>1, <1>2 DEF RecInv, RecState
<1>8. RecEnv' /\ RecRecord'
  BY <1>1, <1>2 DEF RecInv, RecEnv, RecRecord
<1> QED BY <1>3, <1>4, <1>5, <1>6, <1>7, <1>8 DEF RecInv

-----------------------------------------------------------------------------
(* prepare_next_block on each branch: from versionMain to block.           *)

(* What the next block is, and what an execution of it starts from.        *)
LEMMA NextBlockIs ==
    ASSUME RecInv, LastBlockHeight < Len(decided)
    PROVE  /\ LastBlockHeight \in Nat
           /\ NextBlock = decided[LastBlockHeight + 1]
           /\ decided \in Seq(Proposal)
           /\ NextBlock \in Proposal
           /\ NextBlock.proposer \in Proposers /\ NextBlock.time \in Times
           /\ NextBlock.txs \in Seq(Txs)
           /\ At(decided, LastBlockHeight + 1).env =
                 [number |-> LastBlockHeight, coinbase |-> NextBlock.proposer,
                  time |-> NextBlock.time]
<1>1. LastBlockHeight \in Nat /\ decided \in Seq(Proposal)
  BY LastBlockIs, DecidedChain DEF RecInv, RecFiles
<1>2. NextBlock = decided[LastBlockHeight + 1]
  BY DEF NextBlock
<1>3. /\ decided[LastBlockHeight + 1] \in Proposal
      /\ At(decided, LastBlockHeight + 1).env =
            [number |-> LastBlockHeight,
             coinbase |-> decided[LastBlockHeight + 1].proposer,
             time |-> decided[LastBlockHeight + 1].time]
  BY <1>1, AtNext
<1> QED BY <1>1, <1>2, <1>3 DEF Proposal

(* Creating the version of the next block succeeds on a branch without a   *)
(* name of its height, and its record starts empty.                        *)
LEMMA PrepareCreates ==
    ASSUME RecInv, NEW b \in BranchNames, NEW from \in {"versionMain"} \cup Preparing,
           NEW to, Prepare(b, from, to), BranchExists(vs, b),
           HeightsUpTo(vs[b].vers, LastBlockHeight)
    PROVE  LET v == Version(BlockVersion(LastBlockHeight + 1), View(vs, b))
           IN  /\ pc = from /\ pc' = to
               /\ vs' \in Store
               /\ \A c \in BranchNames : c # b => vs'[c] = vs[c] /\ sb'[c] = sb[c]
               /\ BranchExists(vs', b) /\ HasVersions(vs', b) /\ View(vs', b) = View(vs, b)
               /\ vs'[b].vers = Append(vs[b].vers, v)
               /\ vs[b].vers \in Seq([name : VersionNames, state : GoodState])
               /\ v \in [name : VersionNames, state : GoodState]
               /\ sb' \in [BranchNames -> StateBranch]
               /\ sb'[b].hashes = <<>>
               /\ sb'[b].block = NewBlock(LastBlockHeight + 1, NextBlock.proposer,
                                          NextBlock.time, LastBlock.hash)
               /\ sb'[b].vicinity = IF b = Main THEN At(decided, LastBlockHeight + 1).env
                                                ELSE sb[b].vicinity
               /\ UNCHANGED <<blocks, blockHashes, panicked>>
               /\ UNCHANGED <<loading, cursor, snapshot, decided, acked, crashes>>
<1> DEFINE name == BlockVersion(LastBlockHeight + 1)
           v == Version(name, View(vs, b))
           rec == PreparedBranch(b, NextBlock.proposer, NextBlock.time)
           new == [rec EXCEPT !.vicinity = IF b = Main THEN rec.vicinity ELSE sb[b].vicinity]
<1>1. /\ pc = from /\ vs \in Store
      /\ LastBlockHeight < Len(decided)
      /\ sb \in [BranchNames -> StateBranch]
  BY DEF Prepare, WriteStep, RecInv, RecFiles, RecTypes, RecControl, Executing, RecBranches
<1>2. /\ LastBlockHeight \in Nat /\ 1 + LastBlock.height = LastBlockHeight + 1
      /\ LastBlock \in Block /\ InvBlocks
  BY <1>1, LastBlockIs DEF RecInv, Preparing
<1>3. /\ name \in VersionNames /\ name[1] = LastBlockHeight + 1
  BY <1>2, VersionNamesPairs
<1>4. vs[b].vers \in Seq([name : VersionNames, state : GoodState])
  BY <1>1, LiveBranch DEF Store, BranchExists
<1>5. ~VersionExists(vs, b, name)
  <2>1. \A i \in 1..Len(vs[b].vers) : vs[b].vers[i].name \in VersionNames
    BY <1>4, NamesOfVersions
  <2>2. \A i \in 1..Len(vs[b].vers) : vs[b].vers[i].name[1] =< LastBlockHeight
    BY DEF HeightsUpTo
  <2> QED BY <1>2, <1>3, <2>1, <2>2 DEF VersionExists, VersionNames
<1>6. CanCreateVersion(vs, b, name)
  BY <1>5 DEF CanCreateVersion
<1>7. /\ pc' = to /\ vs' = CreateVersion(vs, b, name)
      /\ sb' = [sb EXCEPT ![b] = [rec EXCEPT !.vicinity = IF b = Main THEN @
                                                          ELSE sb[b].vicinity]]
      /\ UNCHANGED <<blocks, blockHashes, panicked>>
      /\ UNCHANGED <<loading, cursor, snapshot, decided, acked, crashes>>
  BY <1>2, <1>6 DEF Prepare, WriteStep
<1> HIDE DEF name
<1>8. /\ vs' \in Store /\ \A c \in BranchNames : c # b => vs'[c] = vs[c]
      /\ BranchExists(vs', b) /\ HasVersions(vs', b) /\ View(vs', b) = View(vs, b)
      /\ vs'[b].vers = Append(vs[b].vers, v)
  BY <1>1, <1>3, <1>7, CreateVersionType DEF Store
<1>9. v \in [name : VersionNames, state : GoodState]
  BY <1>1, <1>3, ViewType DEF Version, Store
<1>10. /\ NextBlock.proposer \in Proposers /\ NextBlock.time \in Times
       /\ At(decided, LastBlockHeight + 1).env =
             [number |-> LastBlockHeight, coinbase |-> NextBlock.proposer,
              time |-> NextBlock.time]
  BY <1>1, NextBlockIs
<1>11. /\ rec \in StateBranch /\ rec.hashes = <<>>
       /\ rec.block = NewBlock(LastBlockHeight + 1, NextBlock.proposer,
                               NextBlock.time, LastBlock.hash)
       /\ b = Main => rec.vicinity = At(decided, LastBlockHeight + 1).env
  BY <1>1, <1>2, <1>10, PreparedBranchType
<1> HIDE DEF rec, v
<1>12. /\ new \in StateBranch /\ new.hashes = <<>> /\ new.block = rec.block
       /\ new.vicinity = IF b = Main THEN At(decided, LastBlockHeight + 1).env
                                     ELSE sb[b].vicinity
  BY <1>1, <1>11 DEF StateBranch
<1>13. sb' = [sb EXCEPT ![b] = new]
  BY <1>1, <1>7
<1> HIDE DEF new
<1>14. /\ sb' \in [BranchNames -> StateBranch] /\ sb'[b] = new
       /\ \A c \in BranchNames : c # b => sb'[c] = sb[c]
  BY <1>1, <1>12, <1>13
<1> QED BY <1>1, <1>4, <1>7, <1>8, <1>9, <1>11, <1>12, <1>14 DEF v, name

LEMMA PrepareMainKeeps ==
    ASSUME RecInv, PrepareMain
    PROVE  RecInv'
<1> USE BranchNamesDistinct DEF Refreshing, Preparing, Storing, Saving
<1> DEFINE v == Version(BlockVersion(LastBlockHeight + 1), View(vs, Main))
           s == vs[Main].vers
           w == vs'[Main].vers
<1>1. /\ pc = "versionMain" /\ vs \in Store
      /\ BranchExists(vs, Main) /\ HasVersions(vs, Main)
      /\ HeightsUpTo(vs[Main].vers, LastBlockHeight)
      /\ LastBlockHeight < Len(decided)
  BY DEF PrepareMain, Prepare, WriteStep, RecInv, RecBranches, RecNames, RecControl, Executing
<1>2. /\ pc' = "versionDeliver"
      /\ vs' \in Store
      /\ \A c \in BranchNames : c # Main => vs'[c] = vs[c] /\ sb'[c] = sb[c]
      /\ BranchExists(vs', Main) /\ HasVersions(vs', Main) /\ View(vs', Main) = View(vs, Main)
      /\ w = Append(s, v)
      /\ s \in Seq([name : VersionNames, state : GoodState])
      /\ v \in [name : VersionNames, state : GoodState]
      /\ sb' \in [BranchNames -> StateBranch]
      /\ sb'[Main].vicinity = At(decided, LastBlockHeight + 1).env
      /\ UNCHANGED <<blocks, blockHashes, panicked>>
      /\ UNCHANGED <<loading, cursor, snapshot, decided, acked, crashes>>
  BY <1>1, PrepareCreates DEF PrepareMain
<1>3. LastBlockHeight' = LastBlockHeight /\ NextBlock' = NextBlock /\ LastBlockHeight \in Nat
  BY <1>2, SameLedger, LastBlockIs DEF RecInv
<1>4. Prepared(w, LastBlockHeight)
  <2>1. v.name = BlockVersion(LastBlockHeight + 1) /\ v.state = View(vs, Main)
    BY DEF Version
  <2>2. View(vs, Main) = s[Len(s)].state /\ s # <<>>
    BY <1>1 DEF View, HasVersions
  <2>3. \A i \in 1..Len(s) : s[i].name[1] =< LastBlockHeight
    BY <1>1 DEF HeightsUpTo
  <2> HIDE DEF s, w, v
  <2>4. /\ Len(s) \in Nat /\ Len(s) # 0 /\ Len(w) = Len(s) + 1 /\ w[Len(s) + 1] = v
        /\ \A i \in 1..Len(s) : w[i] = s[i]
    BY <1>2, <2>2, AppendProperties, LenProperties, EmptySeq
  <2>5. Len(w) > 1 /\ Len(w) - 1 = Len(s) /\ Len(s) \in 1..Len(s) /\ w[Len(w)] = v
    BY <2>4
  <2> QED BY <2>1, <2>2, <2>3, <2>4, <2>5 DEF Prepared
<1> HIDE DEF s, w, v
<1>5. /\ vs'[DeliverTx] = vs[DeliverTx] /\ vs'[CheckTx] = vs[CheckTx]
      /\ sb'[DeliverTx] = sb[DeliverTx] /\ sb'[CheckTx] = sb[CheckTx]
  BY <1>2
<1>6. /\ BranchExists(vs', DeliverTx) <=> BranchExists(vs, DeliverTx)
      /\ BranchExists(vs', CheckTx) <=> BranchExists(vs, CheckTx)
      /\ View(vs', DeliverTx) = View(vs, DeliverTx)
  BY <1>5, SameBranch
<1>7. RecFiles'
  <2>1. RecFiles /\ RecTypes
    BY DEF RecInv, RecFiles
  <2> QED BY <1>1, <1>2, <2>1, FilesKept DEF RecTypes, Sites
<1>8. RecControl'
  BY <1>1, <1>2, <1>3 DEF RecInv, RecControl, Executing
<1>9. RecBranches'
  BY <1>1, <1>2, <1>6 DEF RecInv, RecBranches
<1>10. RecNames'
  BY <1>1, <1>2, <1>3, <1>4, <1>5 DEF RecInv, RecNames, w
<1>11. RecState'
  BY <1>1, <1>2, <1>3, <1>6 DEF RecInv, RecState
<1>12. RecEnv' /\ RecRecord'
  BY <1>1, <1>2, <1>3, <1>5 DEF RecInv, RecEnv, RecRecord
<1> QED BY <1>7, <1>8, <1>9, <1>10, <1>11, <1>12 DEF RecInv

LEMMA FirstName ==
    ASSUME NEW h \in Nat, NEW S,
           NEW v \in [name : VersionNames, state : S], v.name = BlockVersion(h)
    PROVE  NamesUpTo(Append(<<>>, v), h, 0)
<1>1. <<>> \in Seq([name : VersionNames, state : S]) /\ NamesUpTo(<<>>, h, 0)
  BY EmptySeq DEF NamesUpTo
<1>2. v.name[1] =< h /\ v.name[2] =< 0 /\ 0 \in Nat /\ 0 =< 0
  BY VersionNamesPairs
<1> QED BY <1>1, <1>2, NamesUpToAppend

LEMMA PrepareDeliverKeeps ==
    ASSUME RecInv, PrepareDeliver
    PROVE  RecInv'
<1> USE BranchNamesDistinct DEF Refreshing, Preparing, Storing, Saving
<1> DEFINE v == Version(BlockVersion(LastBlockHeight + 1), View(vs, DeliverTx))
           h == LastBlockHeight + 1
<1>1. /\ pc = "versionDeliver" /\ vs \in Store
      /\ BranchExists(vs, DeliverTx) /\ vs[DeliverTx].vers = <<>>
      /\ LastBlockHeight < Len(decided)
  BY DEF PrepareDeliver, Prepare, WriteStep, RecInv, RecBranches, RecNames, RecControl, Executing
<1>2. HeightsUpTo(vs[DeliverTx].vers, LastBlockHeight)
  BY <1>1, EmptySeq DEF HeightsUpTo
<1>3. /\ pc' = "versionCheck"
      /\ vs' \in Store
      /\ \A c \in BranchNames : c # DeliverTx => vs'[c] = vs[c] /\ sb'[c] = sb[c]
      /\ BranchExists(vs', DeliverTx) /\ HasVersions(vs', DeliverTx)
      /\ View(vs', DeliverTx) = View(vs, DeliverTx)
      /\ vs'[DeliverTx].vers = Append(<<>>, v)
      /\ v \in [name : VersionNames, state : GoodState]
      /\ sb' \in [BranchNames -> StateBranch]
      /\ sb'[DeliverTx].hashes = <<>>
      /\ sb'[DeliverTx].block = NewBlock(h, NextBlock.proposer, NextBlock.time, LastBlock.hash)
      /\ sb'[DeliverTx].vicinity = sb[DeliverTx].vicinity
      /\ UNCHANGED <<blocks, blockHashes, panicked>>
      /\ UNCHANGED <<loading, cursor, snapshot, decided, acked, crashes>>
  BY <1>1, <1>2, PrepareCreates DEF PrepareDeliver
<1>4. /\ LastBlockHeight' = LastBlockHeight /\ NextBlock' = NextBlock
      /\ LastBlockHeight \in Nat /\ h \in Nat
  BY <1>3, SameLedger, LastBlockIs DEF RecInv
<1>5. v.name = BlockVersion(h)
  BY DEF Version
<1> HIDE DEF v
<1>6. NamesUpTo(vs'[DeliverTx].vers, h, Len(sb'[DeliverTx].hashes))
  <2>1. NamesUpTo(Append(<<>>, v), h, 0)
    BY <1>3, <1>4, <1>5, FirstName
  <2>2. Len(<<>>) = 0
    OBVIOUS
  <2> QED BY <1>3, <2>1, <2>2
<1>7. /\ sb'[DeliverTx].block.height = LastBlockHeight + 1
      /\ sb'[DeliverTx].block.proposer = NextBlock.proposer
      /\ sb'[DeliverTx].block.time = NextBlock.time
  BY <1>3 DEF NewBlock
<1>8. /\ vs'[Main] = vs[Main] /\ vs'[CheckTx] = vs[CheckTx]
      /\ sb'[Main] = sb[Main] /\ sb'[CheckTx] = sb[CheckTx]
  BY <1>3
<1>9. /\ BranchExists(vs', Main) <=> BranchExists(vs, Main)
      /\ BranchExists(vs', CheckTx) <=> BranchExists(vs, CheckTx)
      /\ HasVersions(vs', Main) <=> HasVersions(vs, Main)
      /\ View(vs', Main) = View(vs, Main)
  BY <1>8, SameBranch
<1>10. RecFiles'
  <2>1. RecFiles /\ RecTypes
    BY DEF RecInv, RecFiles
  <2> QED BY <1>1, <1>3, <2>1, FilesKept DEF RecTypes, Sites
<1>11. RecControl'
  BY <1>1, <1>3, <1>4 DEF RecInv, RecControl, Executing
<1>12. RecBranches'
  BY <1>1, <1>3, <1>9 DEF RecInv, RecBranches
<1>13. RecNames'
  BY <1>1, <1>3, <1>4, <1>6, <1>8 DEF RecInv, RecNames
<1>14. RecState'
  BY <1>1, <1>3, <1>4, <1>9 DEF RecInv, RecState
<1>15. RecEnv' /\ RecRecord'
  BY <1>1, <1>3, <1>4, <1>7, <1>8 DEF RecInv, RecEnv, RecRecord
<1> QED BY <1>10, <1>11, <1>12, <1>13, <1>14, <1>15 DEF RecInv

LEMMA PrepareCheckKeeps ==
    ASSUME RecInv, PrepareCheck
    PROVE  RecInv'
<1> USE BranchNamesDistinct DEF Refreshing, Preparing, Storing, Saving
<1> DEFINE v == Version(BlockVersion(LastBlockHeight + 1), View(vs, CheckTx))
           h == LastBlockHeight + 1
<1>1. /\ pc = "versionCheck" /\ vs \in Store
      /\ BranchExists(vs, CheckTx) /\ vs[CheckTx].vers = <<>>
      /\ LastBlockHeight < Len(decided) /\ cursor = 1
  BY DEF PrepareCheck, Prepare, WriteStep, RecInv, RecBranches, RecNames, RecControl, Executing
<1>2. HeightsUpTo(vs[CheckTx].vers, LastBlockHeight)
  BY <1>1, EmptySeq DEF HeightsUpTo
<1>3. /\ pc' = "block"
      /\ vs' \in Store
      /\ \A c \in BranchNames : c # CheckTx => vs'[c] = vs[c] /\ sb'[c] = sb[c]
      /\ BranchExists(vs', CheckTx)
      /\ vs'[CheckTx].vers = Append(<<>>, v)
      /\ v \in [name : VersionNames, state : GoodState]
      /\ sb' \in [BranchNames -> StateBranch]
      /\ sb'[CheckTx].hashes = <<>>
      /\ sb'[CheckTx].block = NewBlock(h, NextBlock.proposer, NextBlock.time, LastBlock.hash)
      /\ UNCHANGED <<blocks, blockHashes, panicked>>
      /\ UNCHANGED <<loading, cursor, snapshot, decided, acked, crashes>>
  BY <1>1, <1>2, PrepareCreates DEF PrepareCheck
<1>4. /\ LastBlockHeight' = LastBlockHeight /\ NextBlock' = NextBlock
      /\ LastBlockHeight \in Nat /\ h \in Nat
  BY <1>3, SameLedger, LastBlockIs DEF RecInv
<1>5. v.name = BlockVersion(h)
  BY DEF Version
<1> HIDE DEF v
<1>6. NamesUpTo(vs'[CheckTx].vers, sb'[CheckTx].block.height, Len(sb'[CheckTx].hashes))
  <2>1. NamesUpTo(Append(<<>>, v), h, 0)
    BY <1>3, <1>4, <1>5, FirstName
  <2>2. Len(<<>>) = 0 /\ sb'[CheckTx].block.height = h
    BY <1>3 DEF NewBlock
  <2> QED BY <1>3, <2>1, <2>2
<1>8. /\ vs'[Main] = vs[Main] /\ vs'[DeliverTx] = vs[DeliverTx]
      /\ sb'[Main] = sb[Main] /\ sb'[DeliverTx] = sb[DeliverTx]
  BY <1>3
<1>9. /\ BranchExists(vs', Main) <=> BranchExists(vs, Main)
      /\ BranchExists(vs', DeliverTx) <=> BranchExists(vs, DeliverTx)
      /\ HasVersions(vs', Main) <=> HasVersions(vs, Main)
      /\ HasVersions(vs', DeliverTx) <=> HasVersions(vs, DeliverTx)
      /\ View(vs', Main) = View(vs, Main)
      /\ View(vs', DeliverTx) = View(vs, DeliverTx)
  BY <1>8, SameBranch
<1>10. RecFiles'
  <2>1. RecFiles /\ RecTypes
    BY DEF RecInv, RecFiles
  <2> QED BY <1>1, <1>3, <2>1, FilesKept DEF RecTypes, Sites
<1>11. RecControl'
  <2>1. Len(NextBlock.txs) \in Nat
    BY <1>1, NextBlockIs, LenProperties
  <2> QED BY <1>1, <1>3, <1>4, <2>1 DEF RecInv, RecControl, Executing
<1>12. RecBranches'
  BY <1>1, <1>3, <1>9 DEF RecInv, RecBranches
<1>13. RecNames'
  BY <1>1, <1>3, <1>4, <1>6, <1>8, <1>9 DEF RecInv, RecNames
<1>14. RecState'
  <2>1. View(vs, DeliverTx) = Within(decided, LastBlockHeight, 0)
    <3>1. Within(decided, LastBlockHeight, 0) = At(decided, LastBlockHeight).state
      BY <1>1, <1>4, NextBlockIs, AtNext
    <3> QED BY <1>1, <3>1 DEF RecInv, RecState
  <2>2. cursor' - 1 = 0
    BY <1>1, <1>3
  <2> QED BY <1>1, <1>3, <1>4, <1>9, <2>1, <2>2 DEF RecInv, RecState
<1>15. RecEnv' /\ RecRecord'
  BY <1>1, <1>3, <1>4, <1>8 DEF RecInv, RecEnv, RecRecord
<1> QED BY <1>10, <1>11, <1>12, <1>13, <1>14, <1>15 DEF RecInv

-----------------------------------------------------------------------------
(* deliver_tx, check_tx and end_block.                                     *)

LEMMA DeliverKeeps ==
    ASSUME RecInv, Deliver
    PROVE  RecInv'
<1> USE BranchNamesDistinct DEF Refreshing, Preparing, Storing, Saving
<1> DEFINE L == LastBlockHeight
           tx == NextBlock.txs[cursor]
           D == DeliverTx
<1>1. /\ pc = "block" /\ pc' = pc /\ cursor =< Len(NextBlock.txs) /\ cursor' = cursor + 1
      /\ ApplyTx(D, tx)
      /\ UNCHANGED <<loading, snapshot, decided, acked, crashes>>
  BY DEF Deliver
<1>2. /\ L < Len(decided) /\ L \in Nat /\ cursor \in Nat \ {0}
      /\ sb \in [BranchNames -> StateBranch]
      /\ sb[D].block.height = L + 1
  BY <1>1, LastBlockIs DEF RecInv, RecControl, Executing, RecFiles, RecTypes, RecRecord
<1>3. /\ NextBlock = decided[L + 1] /\ decided \in Seq(Proposal)
      /\ NextBlock.txs \in Seq(Txs) /\ Len(NextBlock.txs) \in Nat
  BY <1>2, NextBlockIs, LenProperties
<1>4. cursor \in 1..Len(NextBlock.txs)
  BY <1>1, <1>2, <1>3
<1>5. /\ tx \in Txs
      /\ Within(decided, L, cursor) =
            Outcome(tx, Within(decided, L, cursor - 1), At(decided, L).env)
  BY <1>2, <1>3, <1>4, AtNext
<1>6. BranchReady(D)
  BY <1>1, <1>2 DEF BranchReady, RecInv, RecFiles, RecTypes, RecBranches, RecNames
<1> HIDE DEF tx
<1>7. BranchReady(D)' /\ OthersUnchanged(D) /\ Executes(D, tx)
  BY <1>1, <1>5, <1>6, ApplyTxKeeps
<1>8. /\ vs' \in Store /\ BranchExists(vs', D)
      /\ sb' \in [BranchNames -> StateBranch] /\ panicked' = FALSE
      /\ NamesUpTo(vs'[D].vers, sb'[D].block.height, Len(sb'[D].hashes))
  BY <1>7 DEF BranchReady
<1>9. /\ blocks' = blocks /\ blockHashes' = blockHashes
      /\ vs'[Main] = vs[Main] /\ vs'[CheckTx] = vs[CheckTx]
      /\ sb'[Main] = sb[Main] /\ sb'[CheckTx] = sb[CheckTx]
      /\ sb'[D].block.height = sb[D].block.height
  BY <1>7 DEF OthersUnchanged
<1>10. /\ sb'[D].vicinity = sb[D].vicinity
       /\ sb'[D].block.proposer = sb[D].block.proposer
       /\ sb'[D].block.time = sb[D].block.time
  <2>1. sb'[D] = Recorded(sb[D], tx) \/ sb'[D] = sb[D]
    BY <1>7 DEF Executes
  <2>2. /\ Recorded(sb[D], tx).vicinity = sb[D].vicinity
        /\ Recorded(sb[D], tx).block.proposer = sb[D].block.proposer
        /\ Recorded(sb[D], tx).block.time = sb[D].block.time
    BY <1>2, <1>5, RecordedType
  <2> QED BY <2>1, <2>2
<1>11. View(vs', D) = Within(decided, L, cursor)
  <2>1. /\ View(vs, D) = Within(decided, L, cursor - 1)
        /\ sb[D].vicinity = At(decided, L).env
    BY <1>1 DEF RecInv, RecState, RecEnv
  <2>2. View(vs', D) = Outcome(tx, View(vs, D), sb[D].vicinity)
    BY <1>7 DEF Executes
  <2> QED BY <1>5, <2>1, <2>2
<1>12. HasVersions(vs', D)
  BY <1>1, <1>7 DEF Executes, RecInv, RecNames
<1>13. LastBlockHeight' = L /\ NextBlock' = NextBlock /\ cursor' - 1 = cursor
  BY <1>1, <1>2, <1>9, SameLedger
<1>14. /\ BranchExists(vs', Main) <=> BranchExists(vs, Main)
       /\ BranchExists(vs', CheckTx) <=> BranchExists(vs, CheckTx)
       /\ HasVersions(vs', Main) <=> HasVersions(vs, Main)
       /\ View(vs', Main) = View(vs, Main)
  BY <1>9, SameBranch
<1>15. RecFiles'
  <2>1. RecFiles /\ RecTypes
    BY DEF RecInv, RecFiles
  <2>2. panicked' = panicked
    BY <1>8, <2>1 DEF RecTypes
  <2>3. cursor + 1 \in Nat \ {0}
    BY <1>2
  <2> QED BY <1>1, <1>8, <1>9, <2>1, <2>2, <2>3, FilesKept DEF RecTypes, Sites
<1>16. RecControl'
  <2>1. cursor' =< Len(NextBlock.txs) + 1
    BY <1>1, <1>2, <1>3
  <2> QED BY <1>1, <1>13, <2>1 DEF RecInv, RecControl, Executing
<1>17. RecBranches'
  BY <1>1, <1>8, <1>14 DEF RecInv, RecBranches
<1>18. RecNames'
  BY <1>1, <1>2, <1>8, <1>9, <1>12, <1>13 DEF RecInv, RecNames
<1>19. RecState'
  BY <1>1, <1>11, <1>13, <1>14 DEF RecInv, RecState
<1>20. RecEnv' /\ RecRecord'
  BY <1>1, <1>9, <1>10, <1>13 DEF RecInv, RecEnv, RecRecord
<1> QED BY <1>15, <1>16, <1>17, <1>18, <1>19, <1>20 DEF RecInv

LEMMA EndBlockKeeps ==
    ASSUME RecInv, EndBlock
    PROVE  RecInv'
<1> USE DEF Refreshing, Preparing, Storing, Saving
<1> DEFINE m == Len(NextBlock.txs)
<1>1. /\ pc = "block" /\ pc' = "merge" /\ cursor > m /\ cursor' = 1
      /\ UNCHANGED <<vs, blocks, blockHashes, sb, panicked>>
      /\ UNCHANGED <<loading, snapshot, decided, acked, crashes>>
  BY DEF EndBlock, Goto, ledgerVars
<1>2. LastBlockHeight' = LastBlockHeight /\ NextBlock' = NextBlock
  BY <1>1, SameLedger
<1>3. RecFiles'
  <2>1. RecFiles /\ RecTypes
    BY DEF RecInv, RecFiles
  <2> QED BY <1>1, <2>1, FilesKept DEF RecTypes, Sites
<1>4. RecControl'
  BY <1>1, <1>2 DEF RecInv, RecControl, Executing
<1>5. RecBranches'
  BY <1>1 DEF RecInv, RecBranches, BranchExists, HasVersions
<1>6. RecNames'
  BY <1>1, <1>2 DEF RecInv, RecNames, HasVersions
<1>7. RecState'
  <2>1. LastBlockHeight < Len(decided) /\ cursor =< m + 1 /\ cursor \in Nat
    BY <1>1 DEF RecInv, RecControl, Executing, RecFiles, RecTypes
  <2>2. /\ LastBlockHeight \in Nat /\ decided \in Seq(Proposal) /\ m \in Nat
        /\ NextBlock = decided[LastBlockHeight + 1]
    BY <2>1, NextBlockIs, LenProperties
  <2>3. cursor - 1 = m
    BY <1>1, <2>1, <2>2
  <2>4. At(decided, LastBlockHeight + 1).state = Within(decided, LastBlockHeight, m)
    BY <2>1, <2>2, AtNext
  <2> QED BY <1>1, <1>2, <2>3, <2>4 DEF RecInv, RecState
<1>8. RecEnv' /\ RecRecord'
  BY <1>1, <1>2 DEF RecInv, RecEnv, RecRecord
<1> QED BY <1>3, <1>4, <1>5, <1>6, <1>7, <1>8 DEF RecInv

LEMMA CheckKeeps ==
    ASSUME RecInv, NEW tx \in CheckTxs, Check(tx)
    PROVE  RecInv'
<1> USE BranchNamesDistinct DEF Refreshing, Preparing, Storing, Saving
<1> DEFINE C == CheckTx
<1>1. /\ pc \in {"idle", "block", "merge", "storeHash", "storeBlock", "truncate", "write"}
      /\ ApplyTx(C, tx) /\ tx \in Txs
      /\ UNCHANGED <<pc, loading, cursor, snapshot, decided, acked, crashes>>
  BY ProposalsAre DEF Check, recoveryVars
<1>2. BranchReady(C)
  BY <1>1 DEF BranchReady, RecInv, RecFiles, RecTypes, RecBranches, RecNames
<1>3. BranchReady(C)' /\ OthersUnchanged(C)
  BY <1>1, <1>2, ApplyTxKeeps
<1>4. /\ vs' \in Store /\ BranchExists(vs', C)
      /\ sb' \in [BranchNames -> StateBranch] /\ panicked' = FALSE
      /\ NamesUpTo(vs'[C].vers, sb'[C].block.height, Len(sb'[C].hashes))
  BY <1>3 DEF BranchReady
<1>5. /\ blocks' = blocks /\ blockHashes' = blockHashes
      /\ vs'[Main] = vs[Main] /\ vs'[DeliverTx] = vs[DeliverTx]
      /\ sb'[Main] = sb[Main] /\ sb'[DeliverTx] = sb[DeliverTx]
  BY <1>3 DEF OthersUnchanged
<1>6. LastBlockHeight' = LastBlockHeight /\ NextBlock' = NextBlock
  BY <1>1, <1>5, SameLedger
<1>7. /\ BranchExists(vs', Main) <=> BranchExists(vs, Main)
      /\ BranchExists(vs', DeliverTx) <=> BranchExists(vs, DeliverTx)
      /\ HasVersions(vs', Main) <=> HasVersions(vs, Main)
      /\ HasVersions(vs', DeliverTx) <=> HasVersions(vs, DeliverTx)
      /\ View(vs', Main) = View(vs, Main)
      /\ View(vs', DeliverTx) = View(vs, DeliverTx)
  BY <1>5, SameBranch
<1>8. RecFiles'
  <2>1. RecFiles /\ RecTypes
    BY DEF RecInv, RecFiles
  <2>2. panicked' = panicked
    BY <1>4, <2>1 DEF RecTypes
  <2> QED BY <1>1, <1>4, <1>5, <2>1, <2>2, FilesKept DEF RecTypes
<1>9. RecControl'
  BY <1>1, <1>6 DEF RecInv, RecControl, Executing
<1>10. RecBranches'
  BY <1>1, <1>4, <1>7 DEF RecInv, RecBranches
<1>11. RecNames'
  BY <1>1, <1>4, <1>5, <1>6, <1>7 DEF RecInv, RecNames
<1>12. RecState'
  BY <1>1, <1>6, <1>7 DEF RecInv, RecState
<1>13. RecEnv' /\ RecRecord'
  BY <1>1, <1>5, <1>6 DEF RecInv, RecEnv, RecRecord
<1> QED BY <1>8, <1>9, <1>10, <1>11, <1>12, <1>13 DEF RecInv

-----------------------------------------------------------------------------
(* commit: the merge, the two maps, the snapshot.                          *)

LEMMA MergeKeeps ==
    ASSUME RecInv, Merge
    PROVE  RecInv'
<1> USE BranchNamesDistinct DEF Refreshing, Preparing, Storing, Saving
<1> DEFINE L == LastBlockHeight
           block == Sealed(sb[DeliverTx])
           hashes == Append(sb[DeliverTx].hashes, EmptyHash)
           main == [sb[Main] EXCEPT !.hashes = hashes, !.block = block]
           deliver == [sb[DeliverTx] EXCEPT !.hashes = sb[Main].hashes,
                                            !.block = sb[Main].block]
           s == vs[Main].vers
           t == vs[DeliverTx].vers
<1>1. /\ pc = "merge" /\ vs \in Store
      /\ BranchExists(vs, Main) /\ BranchExists(vs, DeliverTx)
      /\ HasVersions(vs, Main) /\ HasVersions(vs, DeliverTx)
      /\ sb \in [BranchNames -> StateBranch]
      /\ L < Len(decided) /\ L \in Nat
  BY LastBlockIs DEF Merge, WriteStep, RecInv, RecFiles, RecTypes, RecBranches, RecNames,
     RecControl, Executing
<1>2. CanMerge(vs, DeliverTx, Main)
  BY <1>1 DEF CanMerge
<1>3. /\ pc' = "storeHash" /\ vs' = MergeToParent(vs, DeliverTx, Main)
      /\ sb' = [sb EXCEPT ![Main].hashes = hashes, ![Main].block = block,
                          ![DeliverTx].hashes = sb[Main].hashes,
                          ![DeliverTx].block = sb[Main].block]
      /\ UNCHANGED <<blocks, blockHashes, panicked>>
      /\ UNCHANGED <<loading, cursor, snapshot, decided, acked, crashes>>
  BY <1>1, <1>2 DEF Merge, WriteStep
<1>4. LastBlockHeight' = L /\ NextBlock' = NextBlock
  BY <1>3, SameLedger
<1>5. /\ block \in Block /\ hashes \in Seq(TxHash)
      /\ block.height = sb[DeliverTx].block.height
      /\ block.proposer = sb[DeliverTx].block.proposer
      /\ block.time = sb[DeliverTx].block.time
  BY <1>1, SealedType
<1> HIDE DEF block, hashes
<1>6. /\ sb' \in [BranchNames -> StateBranch]
      /\ sb'[Main].block = block /\ sb'[Main].vicinity = sb[Main].vicinity
      /\ sb'[CheckTx] = sb[CheckTx]
  <2>1. main \in StateBranch /\ main.block = block /\ main.vicinity = sb[Main].vicinity
    BY <1>1, <1>5 DEF StateBranch
  <2>2. deliver \in StateBranch
    BY <1>1 DEF StateBranch
  <2>3. sb' = [sb EXCEPT ![Main] = main, ![DeliverTx] = deliver]
    BY <1>1, <1>3
  <2> HIDE DEF main, deliver
  <2> QED BY <1>1, <2>1, <2>2, <2>3
<1>7. /\ vs' \in Store /\ BranchExists(vs', Main) /\ vs'[CheckTx] = vs[CheckTx]
      /\ vs'[Main].vers = s \o t
  <2>1. vs \in [BranchNames -> BranchOf(VersionNames, GoodState)]
    BY <1>1 DEF Store
  <2>2. vs' = MergeToParent(vs, DeliverTx, Main)
    BY <1>3
  <2>3. vs' \in Store /\ BranchExists(vs', Main)
    BY <1>2, <2>1, <2>2, MergeType DEF Store
  <2>4. vs[Main] \in [base : GoodState, vers : Seq([name : VersionNames, state : GoodState])]
    BY <1>1, <2>1, LiveBranch DEF BranchExists
  <2>5. vs'[CheckTx] = vs[CheckTx] /\ vs'[Main].vers = s \o t
    BY <2>1, <2>2, <2>4 DEF MergeToParent
  <2> QED BY <2>3, <2>5
<1>8. HasVersions(vs', Main) /\ View(vs', Main) = View(vs, DeliverTx)
  <2>1. vs \in [BranchNames -> BranchOf(VersionNames, GoodState)]
    BY <1>1 DEF Store
  <2> QED BY <1>1, <1>2, <1>3, <2>1, MergeView
<1>9. BranchExists(vs', CheckTx) <=> BranchExists(vs, CheckTx)
  BY <1>7, SameBranch
<1>10. HeightsUpTo(vs'[Main].vers, L + 1)
  <2>1. /\ s \in Seq([name : VersionNames, state : GoodState])
        /\ t \in Seq([name : VersionNames, state : GoodState])
    BY <1>1, LiveBranch DEF Store, BranchExists
  <2>2. /\ Prepared(s, L)
        /\ \A i \in 1..Len(t) : t[i].name[1] =< L + 1
    BY <1>1 DEF RecInv, RecNames, NamesUpTo
  <2> HIDE DEF s, t
  <2>3. \A i \in 1..Len(s) : s[i].name \in VersionNames
    BY <2>1, NamesOfVersions
  <2>4. BlockVersion(L + 1)[1] = L + 1
    BY <1>1, VersionNamesPairs
  <2>5. \A i \in 1..Len(s) : s[i].name[1] =< L + 1
    <3> TAKE i \in 1..Len(s)
    <3>1. CASE i = Len(s)
      BY <1>1, <2>2, <2>4, <3>1 DEF Prepared
    <3>2. CASE i # Len(s)
      <4>1. i \in 1..(Len(s) - 1) /\ s[i].name[1] \in Nat
        BY <2>1, <2>3, <3>2, LenProperties DEF VersionNames
      <4> QED BY <1>1, <2>2, <4>1 DEF Prepared
    <3> QED BY <3>1, <3>2
  <2>6. \A i \in 1..Len(s \o t) : (s \o t)[i].name[1] =< L + 1
    <3> DEFINE h == L + 1
    <3>1. /\ \A i \in 1..Len(s) : s[i].name[1] =< h
          /\ \A i \in 1..Len(t) : t[i].name[1] =< h
      BY <2>2, <2>5
    <3> HIDE DEF h
    <3>2. \A i \in 1..Len(s \o t) : (s \o t)[i].name[1] =< h
      BY <2>1, <3>1, ConcatProperties, LenProperties
    <3> QED BY <3>2 DEF h
  <2> QED BY <1>7, <2>6 DEF HeightsUpTo
<1> HIDE DEF s, t
<1>11. RecFiles'
  <2>1. RecFiles /\ RecTypes
    BY DEF RecInv, RecFiles
  <2> QED BY <1>1, <1>3, <1>6, <2>1, FilesKept DEF RecTypes, Sites
<1>12. RecControl'
  BY <1>1, <1>3, <1>4 DEF RecInv, RecControl, Executing
<1>13. RecBranches'
  BY <1>1, <1>3, <1>7, <1>8, <1>9 DEF RecInv, RecBranches
<1>14. RecNames'
  BY <1>1, <1>3, <1>4, <1>6, <1>7, <1>10 DEF RecInv, RecNames
<1>15. RecState'
  BY <1>1, <1>3, <1>4, <1>8 DEF RecInv, RecState
<1>16. RecEnv' /\ RecRecord'
  BY <1>1, <1>3, <1>4, <1>5, <1>6 DEF RecInv, RecEnv, RecRecord
<1> QED BY <1>11, <1>12, <1>13, <1>14, <1>15, <1>16 DEF RecInv

LEMMA StoreHashKeeps ==
    ASSUME RecInv, StoreHash
    PROVE  RecInv'
<1> USE DEF Refreshing, Preparing, Storing, Saving
<1> DEFINE L == LastBlockHeight
<1>1. /\ pc = "storeHash" /\ pc' = "storeBlock"
      /\ blockHashes' = Insert(blockHashes, sb[Main].block.height, sb[Main].block.hash)
      /\ UNCHANGED <<vs, blocks, sb, panicked>>
      /\ UNCHANGED <<loading, cursor, snapshot, decided, acked, crashes>>
  BY DEF StoreHash, Goto
<1>2. LastBlockHeight' = L /\ NextBlock' = NextBlock /\ L \in Nat
  BY <1>1, SameLedger, LastBlockIs DEF RecInv
<1>3. DOMAIN blockHashes' = 1..(L + 1)
  <2>1. sb[Main].block.height = L + 1
    BY <1>1 DEF RecInv, RecRecord
  <2>2. DOMAIN blockHashes = 1..L
    BY <1>1 DEF RecInv, RecFiles, RecBlocks
  <2>3. DOMAIN blockHashes' = DOMAIN blockHashes \cup {L + 1}
    BY <1>1, <2>1 DEF Insert
  <2> QED BY <1>2, <2>2, <2>3
<1>4. RecFiles'
  <2>1. RecTypes'
    BY <1>1 DEF RecInv, RecFiles, RecTypes, Sites
  <2>2. RecBlocks'
    BY <1>1, <1>2, <1>3 DEF RecInv, RecFiles, RecBlocks
  <2>3. RecAcked' /\ RecSnapshot'
    BY <1>1, <1>2 DEF RecInv, RecFiles, RecAcked, RecSnapshot
  <2> QED BY <2>1, <2>2, <2>3 DEF RecFiles
<1>5. RecControl'
  BY <1>1, <1>2 DEF RecInv, RecControl, Executing
<1>6. RecBranches'
  BY <1>1 DEF RecInv, RecBranches, BranchExists, HasVersions
<1>7. RecNames'
  BY <1>1, <1>2 DEF RecInv, RecNames
<1>8. RecState'
  BY <1>1, <1>2 DEF RecInv, RecState
<1>9. RecEnv' /\ RecRecord'
  BY <1>1, <1>2 DEF RecInv, RecEnv, RecRecord
<1> QED BY <1>4, <1>5, <1>6, <1>7, <1>8, <1>9 DEF RecInv

LEMMA StoreBlockKeeps ==
    ASSUME RecInv, StoreBlock
    PROVE  RecInv'
<1> USE BranchNamesDistinct DEF Refreshing, Preparing, Storing, Saving
<1> DEFINE L == LastBlockHeight
           h == L + 1
           block == sb[Main].block
           main == [sb[Main] EXCEPT !.block = DefaultBlock]
<1>1. /\ pc = "storeBlock" /\ pc' = "truncate"
      /\ blocks' = Insert(blocks, block.height, block)
      /\ sb' = [sb EXCEPT ![Main].block = DefaultBlock]
      /\ UNCHANGED <<vs, blockHashes, panicked>>
      /\ UNCHANGED <<loading, cursor, snapshot, decided, acked, crashes>>
  BY DEF StoreBlock, Goto
<1>2. /\ L < Len(decided) /\ L \in Nat /\ Len(decided) \in Nat
      /\ sb \in [BranchNames -> StateBranch]
      /\ block.height = h
      /\ block.proposer = decided[h].proposer /\ block.time = decided[h].time
  BY <1>1, LastBlockIs, DecidedChain DEF RecInv, RecFiles, RecTypes, RecControl, Executing,
     RecRecord, NextBlock
<1>3. block \in Block
  BY <1>2 DEF StateBranch
<1>4. /\ sb' \in [BranchNames -> StateBranch]
      /\ sb'[Main].vicinity = sb[Main].vicinity
      /\ sb'[CheckTx] = sb[CheckTx]
  <2>1. main \in StateBranch /\ main.vicinity = sb[Main].vicinity
    BY <1>2, DefaultsType DEF StateBranch
  <2>2. sb' = [sb EXCEPT ![Main] = main]
    BY <1>1, <1>2
  <2> HIDE DEF main
  <2> QED BY <1>2, <2>1, <2>2
<1> HIDE DEF block
<1>5. /\ DOMAIN blocks = 1..L /\ DOMAIN blockHashes = 1..h
      /\ \A k \in DOMAIN blocks :
            /\ blocks[k] \in Block /\ blocks[k].height = k
            /\ blocks[k].proposer = decided[k].proposer
            /\ blocks[k].time = decided[k].time
  BY <1>1 DEF RecInv, RecFiles, RecBlocks
<1>6. /\ DOMAIN blocks' = 1..h /\ blocks'[h] = block
      /\ \A k \in 1..L : blocks'[k] = blocks[k]
  <2>1. blocks' = Insert(blocks, h, block)
    BY <1>1, <1>2
  <2> HIDE DEF h
  <2>2. /\ DOMAIN blocks' = DOMAIN blocks \cup {h} /\ blocks'[h] = block
        /\ \A k \in DOMAIN blocks : k # h => blocks'[k] = blocks[k]
    BY <2>1 DEF Insert
  <2>3. \A k \in 1..L : k # h
    BY <1>2 DEF h
  <2>4. 1..L \cup {h} = 1..h
    BY <1>2 DEF h
  <2> QED BY <1>5, <2>2, <2>3, <2>4
<1>7. LastBlockHeight' = h
  BY <1>2, <1>6, LastKeyOfInterval DEF LastBlockHeight
<1>8. RecFiles'
  <2>1. RecTypes'
    BY <1>1, <1>4 DEF RecInv, RecFiles, RecTypes, Sites
  <2>2. RecBlocks'
    <3>1. \A k \in 1..h : /\ blocks'[k] \in Block /\ blocks'[k].height = k
                         /\ blocks'[k].proposer = decided[k].proposer
                         /\ blocks'[k].time = decided[k].time
      <4> TAKE k \in 1..h
      <4>1. CASE k = h
        BY <1>2, <1>3, <1>6, <4>1
      <4>2. CASE k \in 1..L
        BY <1>5, <1>6, <4>2
      <4> QED BY <1>2, <4>1, <4>2
    <3>2. h \in Nat /\ h =< Len(decided)
      BY <1>2
    <3> QED BY <1>1, <1>5, <1>6, <1>7, <3>1, <3>2 DEF RecBlocks
  <2>3. RecAcked'
    <3>1. L = Len(acked) /\ \A k \in 1..Len(acked) : blocks[k].hash = acked[k]
      BY <1>1 DEF RecInv, RecFiles, RecAcked
    <3> QED BY <1>1, <1>6, <1>7, <3>1 DEF RecAcked
  <2>4. RecSnapshot'
    BY <1>1 DEF RecInv, RecFiles, RecSnapshot
  <2> QED BY <2>1, <2>2, <2>3, <2>4 DEF RecFiles
<1>9. RecControl'
  BY <1>1, <1>7 DEF RecInv, RecControl, Executing
<1>10. RecBranches'
  BY <1>1 DEF RecInv, RecBranches, BranchExists, HasVersions
<1>11. RecNames'
  BY <1>1, <1>4, <1>7 DEF RecInv, RecNames
<1>12. RecState'
  BY <1>1, <1>7 DEF RecInv, RecState
<1>13. RecEnv' /\ RecRecord'
  BY <1>1, <1>4, <1>7 DEF RecInv, RecEnv, RecRecord
<1> QED BY <1>8, <1>9, <1>10, <1>11, <1>12, <1>13 DEF RecInv

LEMMA SnapshotKinds ==
    /\ NoSnapshot # TornSnapshot
    /\ \A s \in [kind : {"saved"}, branch : StateBranch] : s # NoSnapshot /\ s # TornSnapshot
    /\ \A b \in StateBranch : /\ Snapshot(b) \in [kind : {"saved"}, branch : StateBranch]
                              /\ Snapshot(b).branch = b
<1>1. NoSnapshot.kind = "none" /\ TornSnapshot.kind = "torn"
  BY DEF NoSnapshot, TornSnapshot
<1>2. \A s \in [kind : {"saved"}, branch : StateBranch] : s.kind = "saved"
  OBVIOUS
<1>3. \A b \in StateBranch : /\ Snapshot(b) \in [kind : {"saved"}, branch : StateBranch]
                             /\ Snapshot(b).branch = b
  BY DEF Snapshot
<1> QED BY <1>1, <1>2, <1>3

LEMMA TruncateSnapshotKeeps ==
    ASSUME RecInv, TruncateSnapshot
    PROVE  RecInv'
<1> USE DEF Refreshing, Preparing, Storing, Saving
<1>1. /\ pc = "truncate" /\ pc' = "write" /\ snapshot' = TornSnapshot
      /\ UNCHANGED <<vs, blocks, blockHashes, sb, panicked>>
      /\ UNCHANGED <<loading, cursor, decided, acked, crashes>>
  BY DEF TruncateSnapshot, Goto, ledgerVars
<1>2. LastBlockHeight' = LastBlockHeight /\ NextBlock' = NextBlock
  BY <1>1, SameLedger
<1>3. RecFiles'
  <2>1. RecTypes'
    BY <1>1 DEF RecInv, RecFiles, RecTypes, Sites
  <2>2. RecBlocks' /\ RecAcked'
    BY <1>1, <1>2 DEF RecInv, RecFiles, RecBlocks, RecAcked
  <2>3. RecSnapshot'
    BY <1>1, SnapshotKinds DEF RecSnapshot
  <2> QED BY <2>1, <2>2, <2>3 DEF RecFiles
<1>4. RecControl'
  BY <1>1, <1>2 DEF RecInv, RecControl, Executing
<1>5. RecBranches'
  BY <1>1 DEF RecInv, RecBranches, BranchExists, HasVersions
<1>6. RecNames'
  BY <1>1, <1>2 DEF RecInv, RecNames
<1>7. RecState'
  BY <1>1, <1>2 DEF RecInv, RecState
<1>8. RecEnv' /\ RecRecord'
  BY <1>1, <1>2 DEF RecInv, RecEnv, RecRecord
<1> QED BY <1>3, <1>4, <1>5, <1>6, <1>7, <1>8 DEF RecInv

LEMMA WriteSnapshotKeeps ==
    ASSUME RecInv, WriteSnapshot
    PROVE  RecInv'
<1> USE BranchNamesDistinct DEF Refreshing, Preparing, Storing, Saving
<1> DEFINE L == LastBlockHeight
<1>1. /\ pc = "write" /\ pc' = "idle" /\ snapshot' = Snapshot(sb[Main])
      /\ Acknowledge(L, LastBlock.hash)
      /\ UNCHANGED <<vs, blocks, blockHashes, sb, panicked>>
      /\ UNCHANGED <<loading, cursor, decided, crashes>>
  BY DEF WriteSnapshot, Goto, ledgerVars
<1>2. LastBlockHeight' = L /\ NextBlock' = NextBlock /\ L \in Nat
  BY <1>1, SameLedger, LastBlockIs DEF RecInv
<1>3. /\ L = Len(acked) + 1 /\ Len(acked) \in Nat /\ acked \in Seq(Hash)
      /\ sb[Main] \in StateBranch
      /\ sb[Main].vicinity = At(decided, L).env
  BY <1>1, DecidedChain DEF RecInv, RecFiles, RecTypes, RecAcked, RecEnv
<1>4. acked' = Append(acked, LastBlock.hash) /\ LastBlock = blocks[L]
  BY <1>1, <1>2, <1>3 DEF Acknowledge, LastBlock
<1>5. /\ acked' \in Seq(Hash) /\ Len(acked') = L /\ acked'[L] = blocks[L].hash
      /\ \A h \in 1..Len(acked) : acked'[h] = acked[h]
  <2>1. LastBlock.hash \in Hash
    BY LastBlockIs DEF RecInv, Block
  <2> QED BY <1>3, <1>4, <2>1, AppendProperties
<1>6. RecFiles'
  <2>1. RecTypes'
    BY <1>1, <1>3, <1>5, SnapshotKinds DEF RecInv, RecFiles, RecTypes, Sites
  <2>2. RecBlocks'
    BY <1>1, <1>2 DEF RecInv, RecFiles, RecBlocks
  <2>3. RecAcked'
    <3>1. \A h \in 1..L : h = L \/ h \in 1..Len(acked)
      BY <1>3
    <3>2. \A h \in 1..Len(acked) : blocks[h].hash = acked[h]
      BY DEF RecInv, RecFiles, RecAcked
    <3>3. \A h \in 1..L : blocks[h].hash = acked'[h]
      BY <1>5, <3>1, <3>2
    <3> QED BY <1>1, <1>2, <1>5, <3>3 DEF RecAcked
  <2>4. RecSnapshot'
    BY <1>1, <1>2, <1>3, SnapshotKinds DEF RecSnapshot
  <2> QED BY <2>1, <2>2, <2>3, <2>4 DEF RecFiles
<1>7. RecControl'
  BY <1>1, <1>2 DEF RecInv, RecControl, Executing
<1>8. RecBranches'
  BY <1>1 DEF RecInv, RecBranches, BranchExists, HasVersions
<1>9. RecNames'
  BY <1>1, <1>2 DEF RecInv, RecNames
<1>10. RecState'
  BY <1>1, <1>2 DEF RecInv, RecState
<1>11. RecEnv' /\ RecRecord'
  BY <1>1, <1>2 DEF RecInv, RecEnv, RecRecord
<1> QED BY <1>6, <1>7, <1>8, <1>9, <1>10, <1>11 DEF RecInv

-----------------------------------------------------------------------------
(* A crash, and the two ways a node starts.                                *)

LEMMA CrashKeeps ==
    ASSUME RecInv, CrashSites \subseteq SafeSites, Crash
    PROVE  RecInv'
<1> USE BranchNamesDistinct DEF Refreshing, Preparing, Storing, Saving
<1>1. /\ pc \in SafeSites /\ pc' = "down" /\ loading' = FALSE /\ cursor' = 1
      /\ crashes < MaxCrashes /\ crashes' = crashes + 1
      /\ sb' = NewStateBranches
      /\ UNCHANGED <<vs, blocks, blockHashes, panicked, snapshot, decided, acked>>
  BY DEF Crash
<1>2. LastBlockHeight' = LastBlockHeight /\ NextBlock' = NextBlock
  BY <1>1, SameLedger
<1>3. RecFiles'
  <2>1. RecFiles /\ RecTypes
    BY DEF RecInv, RecFiles
  <2>2. crashes' \in 0..MaxCrashes
    BY <1>1, <2>1, RecoveryAssumption DEF RecTypes
  <2>3. {pc, pc'} \cap (Saving \cup {"storeBlock"}) = {}
    BY <1>1 DEF SafeSites
  <2>4. sb' \in [BranchNames -> StateBranch] /\ cursor' \in Nat \ {0}
    BY <1>1, DefaultsType
  <2> QED BY <1>1, <2>1, <2>2, <2>3, <2>4, FilesKept DEF Sites
<1>4. RecControl'
  BY <1>1 DEF RecControl, Executing
<1>5. RecBranches'
  BY <1>1 DEF RecInv, RecBranches, BranchExists, HasVersions, SafeSites
<1>6. RecNames'
  BY <1>1, <1>2 DEF RecInv, RecNames, SafeSites
<1>7. RecState'
  BY <1>1, <1>2 DEF RecInv, RecState, SafeSites
<1>8. RecEnv' /\ RecRecord'
  BY <1>1 DEF RecEnv, RecRecord
<1> QED BY <1>3, <1>4, <1>5, <1>6, <1>7, <1>8 DEF RecInv

(* The store of a new ledger shows the genesis state on every branch.      *)
LEMMA NewStoreIs ==
    /\ NewStore \in Store
    /\ \A b \in BranchNames : BranchExists(NewStore, b)
    /\ HasVersions(NewStore, Main)
    /\ View(NewStore, Main) = GenesisState
    /\ HeightsUpTo(NewStore[Main].vers, 0)
    /\ NewStore[CheckTx].vers = <<>>
<1> USE BranchNamesDistinct
<1> DEFINE v == Version(InitialVersion, GenesisState)
           V == [name : VersionNames, state : GoodState]
<1>1. /\ v \in V /\ v.name = InitialVersion /\ v.state = GenesisState
      /\ InitialVersion[1] = 0
  BY GenesisGood, VersionNamesPairs DEF Version
<1> HIDE DEF v
<1>2. <<v>> \in Seq(V) /\ Len(<<v>>) = 1 /\ <<v>>[1] = v /\ <<v>> # <<>> /\ <<>> \in Seq(V)
  BY <1>1, EmptySeq
<1>3. /\ NewStore[Main] = [base |-> GenesisState, vers |-> <<v>>]
      /\ \A b \in BranchNames : b # Main => NewStore[b] = Branch(GenesisState)
  BY DEF NewStore, v
<1>4. [base |-> GenesisState, vers |-> <<v>>] \in [base : GoodState, vers : Seq(V)]
  BY <1>2, GenesisGood
<1>5. Branch(GenesisState) \in [base : GoodState, vers : Seq(V)]
  BY <1>2, GenesisGood DEF Branch
<1>6. NewStore \in Store
  <2>1. \A b \in BranchNames : NewStore[b] \in BranchOf(VersionNames, GoodState)
    BY <1>3, <1>4, <1>5 DEF BranchOf
  <2>2. NewStore = [b \in BranchNames |-> NewStore[b]]
    BY DEF NewStore
  <2> QED BY <2>1, <2>2 DEF Store
<1>7. \A b \in BranchNames : BranchExists(NewStore, b)
  <2>1. [base |-> GenesisState, vers |-> <<v>>] # NoBranch
    BY DEF NoBranch
  <2>2. Branch(GenesisState) # NoBranch
    BY DEF NoBranch, Branch
  <2> QED BY <1>3, <2>1, <2>2 DEF BranchExists
<1>8. NewStore[Main].vers = <<v>> /\ NewStore[CheckTx].vers = <<>>
  BY <1>3 DEF Branch
<1>9. HasVersions(NewStore, Main) /\ View(NewStore, Main) = GenesisState
  BY <1>1, <1>2, <1>8 DEF HasVersions, View
<1>10. HeightsUpTo(NewStore[Main].vers, 0)
  BY <1>1, <1>2, <1>8 DEF HeightsUpTo
<1> QED BY <1>6, <1>7, <1>8, <1>9, <1>10

(* A node whose ledger is new, whatever Tendermint has decided.            *)
NewLedger ==
    /\ RecTypes
    /\ pc = "idle"
    /\ vs = NewStore
    /\ blocks = <<>>
    /\ blockHashes = <<>>
    /\ sb = NewStateBranches
    /\ snapshot = NoSnapshot
    /\ Len(acked) = 0
    /\ loading = FALSE
    /\ cursor = 1

LEMMA NewLedgerGood == NewLedger => RecInv
<1> SUFFICES ASSUME NewLedger PROVE RecInv
  OBVIOUS
<1> USE DEF NewLedger
<1> USE BranchNamesDistinct DEF Refreshing, Preparing, Storing, Saving
<1>1. /\ DOMAIN blocks = 1..0 /\ DOMAIN blockHashes = 1..0 /\ Len(acked) = 0
      /\ LastBlockHeight = 0
  <2>1. DOMAIN blocks = 1..0 /\ DOMAIN blockHashes = 1..0 /\ Len(acked) = 0 /\ 0 \in Nat
    OBVIOUS
  <2> QED BY <2>1, LastKeyOfInterval DEF LastBlockHeight
<1>2. /\ decided \in Seq(Proposal) /\ Len(decided) \in Nat
      /\ At(decided, 0).state = GenesisState /\ At(decided, 0).env = DefaultVicinity
  <2>1. decided \in Seq(Proposal) /\ Len(decided) \in Nat
    BY DecidedChain
  <2>2. At(decided, 0) = ReplayStart
    BY <2>1, AtType
  <2> QED BY <2>1, <2>2 DEF ReplayStart
<1>3. RecFiles
  <2>1. RecBlocks
    BY <1>1, <1>2 DEF RecBlocks
  <2>2. RecAcked
    BY <1>1 DEF RecAcked
  <2>3. RecSnapshot
    BY <1>1, SnapshotKinds DEF RecSnapshot
  <2> QED BY <2>1, <2>2, <2>3 DEF RecFiles
<1>4. RecControl
  BY DEF RecControl, Executing
<1>5. RecBranches
  BY NewStoreIs DEF RecBranches
<1>6. RecNames
  <2>1. NamesUpTo(vs[CheckTx].vers, sb[CheckTx].block.height, Len(sb[CheckTx].hashes))
    BY NewStoreIs, EmptySeq DEF NamesUpTo
  <2> QED BY <1>1, <2>1, NewStoreIs DEF RecNames
<1>7. RecState
  BY <1>1, <1>2, NewStoreIs DEF RecState
<1>8. RecEnv /\ RecRecord
  <2>1. sb[Main].vicinity = DefaultVicinity
    BY DEF NewStateBranches
  <2> QED BY <1>1, <1>2, <2>1 DEF RecEnv, RecRecord
<1> QED BY <1>3, <1>4, <1>5, <1>6, <1>7, <1>8 DEF RecInv

LEMMA NewLedgerNext == NewLedger' => RecInv'
BY NewLedgerGood, PTL

LEMMA InitGood == RecoveryInit => RecInv
<1> SUFFICES ASSUME RecoveryInit PROVE RecInv
  OBVIOUS
<1>1. RecTypes
  <2>1. <<>> \in Seq(Proposals) /\ <<>> \in Seq(Hash)
    BY EmptySeq
  <2>2. 0 \in 0..MaxCrashes
    BY RecoveryAssumption
  <2>3. sb \in [BranchNames -> StateBranch]
    BY DefaultsType DEF RecoveryInit, Init
  <2>4. /\ pc = "idle" /\ panicked = FALSE /\ loading = FALSE /\ cursor = 1
        /\ snapshot = NoSnapshot /\ decided = <<>> /\ acked = <<>> /\ crashes = 0
    BY DEF RecoveryInit, Init
  <2>5. pc \in Sites /\ cursor \in Nat \ {0}
    BY <2>4 DEF Sites
  <2>6. crashes \in 0..MaxCrashes /\ decided \in Seq(Proposals) /\ acked \in Seq(Hash)
    BY <2>1, <2>2, <2>4
  <2> QED BY <2>3, <2>4, <2>5, <2>6 DEF RecTypes
<1>2. NewLedger
  <2>1. Len(<<>>) = 0
    OBVIOUS
  <2> QED BY <1>1, <2>1 DEF RecoveryInit, Init, NewLedger
<1> QED BY <1>2, NewLedgerGood

LEMMA StartNewKeeps ==
    ASSUME RecInv, StartNew
    PROVE  RecInv'
<1>1. /\ snapshot = NoSnapshot /\ pc = "down" /\ pc' = "idle"
      /\ vs' = NewStore /\ blocks' = <<>> /\ blockHashes' = <<>>
      /\ UNCHANGED <<sb, panicked, loading, cursor, snapshot, decided, acked, crashes>>
  BY DEF StartNew, Goto
<1>2. Len(acked) = 0 /\ loading = FALSE /\ cursor = 1 /\ sb = NewStateBranches
  <2>1. LastBlockHeight = 0
    BY <1>1 DEF RecInv, RecFiles, RecSnapshot, Saving
  <2>2. Len(acked) = LastBlockHeight
    BY <1>1 DEF RecInv, RecFiles, RecAcked, Saving
  <2>3. loading = FALSE
    BY <1>1 DEF RecInv, RecFiles, RecTypes, RecControl, Refreshing
  <2> QED BY <1>1, <2>1, <2>2, <2>3 DEF RecInv, RecControl
<1>3. RecTypes'
  BY <1>1 DEF RecInv, RecFiles, RecTypes, Sites
<1>4. NewLedger'
  BY <1>1, <1>2, <1>3 DEF NewLedger
<1> QED BY <1>4, NewLedgerNext

(* clean_up pops the version of a block that was begun and lost, and       *)
(* nothing else.                                                           *)
LEMMA CleanedUpIs ==
    ASSUME RecInv, pc = "down"
    PROVE  /\ CleanedUp \in Store
           /\ CleanedUp[CheckTx] = vs[CheckTx]
           /\ BranchExists(CleanedUp, Main) /\ HasVersions(CleanedUp, Main)
           /\ View(CleanedUp, Main) = View(vs, Main)
           /\ HeightsUpTo(CleanedUp[Main].vers, LastBlockHeight)
<1> USE BranchNamesDistinct
<1> DEFINE L == LastBlockHeight
           name == BlockVersion(1 + L)
           V == [name : VersionNames, state : GoodState]
           s == vs[Main].vers
           old == SubSeq(s, 1, Len(s) - 1)
<1>1. /\ vs \in Store /\ BranchExists(vs, Main) /\ HasVersions(vs, Main)
      /\ HeightsUpTo(s, L) \/ Prepared(s, L)
      /\ L \in Nat
  BY LastBlockIs DEF RecInv, RecBranches, RecNames
<1>2. /\ vs[Main] \in [base : GoodState, vers : Seq(V)] /\ s \in Seq(V)
  BY <1>1, LiveBranch DEF Store, BranchExists
<1>3. Len(s) \in Nat /\ \A i \in 1..Len(s) : s[i].name \in VersionNames
  BY <1>2, NamesOfVersions, LenProperties
<1>4. /\ name = BlockVersion(L + 1)
      /\ name \in VersionNames /\ name[1] = L + 1
  BY <1>1, VersionNamesPairs
<1> HIDE DEF name
<1>5. CASE HeightsUpTo(s, L)
  <2>1. ~VersionExists(vs, Main, name)
    BY <1>1, <1>3, <1>4, <1>5 DEF VersionExists, HeightsUpTo, VersionNames
  <2>2. CleanedUp = vs
    BY <2>1 DEF CleanedUp, name
  <2> QED BY <1>1, <1>5, <2>2
<1>6. CASE Prepared(s, L)
  <2>1. /\ Len(s) > 1 /\ s[Len(s)].name = name
        /\ \A i \in 1..(Len(s) - 1) : s[i].name[1] =< L
        /\ s[Len(s) - 1].state = s[Len(s)].state
    BY <1>4, <1>6 DEF Prepared
  <2>2. Len(s) \in 1..Len(s)
    BY <1>3, <2>1
  <2>3. VersionExists(vs, Main, name)
    BY <2>1, <2>2 DEF VersionExists
  <2>4. CleanedUp = PopVersion(vs, Main)
    BY <2>3 DEF CleanedUp, name
  <2>5. /\ old \in Seq(V) /\ Len(old) = Len(s) - 1
        /\ \A i \in 1..(Len(s) - 1) : old[i] = s[i]
    <3> HIDE DEF s, V
    <3>1. 1 \in Int /\ Len(s) - 1 \in Int /\ 1 =< Len(s) /\ Len(s) - 1 =< Len(s)
          /\ 1 =< Len(s) - 1
      BY <1>3, <2>1
    <3>2. \A i \in 1..(Len(s) - 1) : s[i] \in V
      BY <1>2, <1>3, ElementOfSeq
    <3>3. old = [i \in 1..(Len(s) - 1) |-> s[i]]
      BY <1>2, <3>1
    <3> QED BY <1>3, <3>1, <3>2, <3>3
  <2>6. /\ CleanedUp[Main] = [vs[Main] EXCEPT !.vers = old]
        /\ CleanedUp = [vs EXCEPT ![Main] = [vs[Main] EXCEPT !.vers = old]]
    BY <1>1, <2>4 DEF PopVersion, Store
  <2> HIDE DEF old
  <2>7. /\ [vs[Main] EXCEPT !.vers = old] \in [base : GoodState, vers : Seq(V)]
        /\ CleanedUp[Main].vers = old
    BY <1>2, <2>5, <2>6
  <2>8. CleanedUp \in Store /\ CleanedUp[CheckTx] = vs[CheckTx]
    BY <1>1, <2>6, <2>7 DEF Store, BranchOf
  <2>9. BranchExists(CleanedUp, Main)
    BY <2>6, <2>7 DEF BranchExists, NoBranch
  <2>10. HasVersions(CleanedUp, Main)
    <3>1. old # <<>>
      BY <1>3, <2>1, <2>5
    <3> QED BY <2>7, <3>1 DEF HasVersions
  <2>11. View(CleanedUp, Main) = View(vs, Main)
    <3>1. View(CleanedUp, Main) = old[Len(old)].state
      BY <2>7, <2>10 DEF View
    <3>2. Len(old) \in 1..(Len(s) - 1)
      BY <1>3, <2>1, <2>5
    <3>3. old[Len(old)] = s[Len(s) - 1]
      BY <2>5, <3>2
    <3> QED BY <1>1, <2>1, <3>1, <3>3 DEF View
  <2>12. HeightsUpTo(CleanedUp[Main].vers, L)
    BY <2>1, <2>5, <2>7 DEF HeightsUpTo
  <2> QED BY <2>8, <2>9, <2>10, <2>11, <2>12
<1> QED BY <1>1, <1>5, <1>6

LEMMA StartFromSnapshotKeeps ==
    ASSUME RecInv, StartFromSnapshot
    PROVE  RecInv'
<1> USE BranchNamesDistinct DEF Refreshing, Preparing, Storing, Saving
<1> DEFINE L == LastBlockHeight
<1>1. snapshot # NoSnapshot /\ pc = "down"
  BY DEF StartFromSnapshot, Goto
<1>2. snapshot # TornSnapshot
  BY <1>1 DEF RecInv, RecFiles, RecSnapshot
<1>3. /\ pc' = "removeCheck" /\ vs' = CleanedUp /\ loading' = TRUE
      /\ sb' = [b \in BranchNames |-> snapshot.branch]
      /\ Acknowledge(L, LastBlock.hash)
      /\ UNCHANGED <<blocks, blockHashes, panicked, cursor, snapshot, decided, crashes>>
  BY <1>1, <1>2 DEF StartFromSnapshot, Goto
<1>4. /\ snapshot.branch \in StateBranch
      /\ snapshot.branch.vicinity = At(decided, L).env
  BY <1>1, <1>2 DEF RecInv, RecFiles, RecTypes, RecSnapshot
<1>5. acked' = acked
  <2>1. L = Len(acked) /\ L \in Nat
    BY <1>1, LastBlockIs DEF RecInv, RecFiles, RecAcked
  <2> QED BY <1>3, <2>1 DEF Acknowledge
<1>6. LastBlockHeight' = L /\ NextBlock' = NextBlock
  BY <1>3, SameLedger
<1>7. /\ vs' \in Store /\ vs'[CheckTx] = vs[CheckTx]
      /\ BranchExists(vs', Main) /\ HasVersions(vs', Main)
      /\ View(vs', Main) = View(vs, Main)
      /\ HeightsUpTo(vs'[Main].vers, L)
  BY <1>1, <1>3, CleanedUpIs
<1>8. BranchExists(vs', CheckTx) <=> BranchExists(vs, CheckTx)
  BY <1>7, SameBranch
<1>9. RecFiles'
  <2>1. RecFiles /\ RecTypes
    BY DEF RecInv, RecFiles
  <2>2. sb' \in [BranchNames -> StateBranch]
    BY <1>3, <1>4
  <2> QED BY <1>1, <1>3, <1>5, <2>1, <2>2, FilesKept DEF RecTypes, Sites
<1>10. RecControl'
  BY <1>1, <1>3 DEF RecInv, RecControl, Executing
<1>11. RecBranches'
  BY <1>1, <1>3, <1>7, <1>8 DEF RecInv, RecBranches
<1>12. RecNames'
  BY <1>3, <1>6, <1>7 DEF RecNames
<1>13. RecState'
  BY <1>1, <1>3, <1>6, <1>7 DEF RecInv, RecState
<1>14. RecEnv' /\ RecRecord'
  BY <1>3, <1>4, <1>6 DEF RecEnv, RecRecord
<1> QED BY <1>9, <1>10, <1>11, <1>12, <1>13, <1>14 DEF RecInv

-----------------------------------------------------------------------------
(* Tendermint decides another block: what was replayed stays so.           *)

LEMMA DecideKeeps ==
    ASSUME RecInv, NEW p \in Proposals, Decide(p)
    PROVE  RecInv'
<1> USE DEF Refreshing, Preparing, Storing, Saving
<1> DEFINE L == LastBlockHeight
           n == Len(decided)
           chain == Append(decided, p)
<1>1. /\ decided' = chain
      /\ UNCHANGED <<vs, blocks, blockHashes, sb, panicked>>
      /\ UNCHANGED <<pc, loading, cursor, snapshot, acked, crashes>>
  BY DEF Decide, ledgerVars
<1>2. LastBlockHeight' = L /\ L \in Nat /\ L =< n
  BY <1>1, SameLedger DEF RecInv, RecFiles, RecBlocks
<1>3. /\ decided \in Seq(Proposal) /\ p \in Proposal /\ n \in Nat
      /\ decided \in Seq(Proposals)
  BY DecidedChain, ProposalsAre DEF RecInv, RecFiles, RecTypes
<1>4. /\ chain \in Seq(Proposals) /\ Len(chain) = n + 1
      /\ \A i \in 1..n : chain[i] = decided[i]
  BY <1>3, AppendProperties
<1>5. \A k \in Nat : k =< n => At(chain, k) = At(decided, k)
  BY <1>3, AtType
<1>6. L < n => /\ NextBlock' = NextBlock
               /\ At(chain, L + 1) = At(decided, L + 1)
               /\ \A k : Within(chain, L, k) = Within(decided, L, k)
  <2> SUFFICES ASSUME L < n
               PROVE  /\ NextBlock' = NextBlock
                      /\ At(chain, L + 1) = At(decided, L + 1)
                      /\ \A k : Within(chain, L, k) = Within(decided, L, k)
    OBVIOUS
  <2>1. L + 1 \in 1..n /\ L + 1 \in Nat /\ L + 1 =< n
    BY <1>2, <1>3
  <2>2. chain[L + 1] = decided[L + 1]
    BY <1>4, <2>1
  <2>3. NextBlock' = NextBlock
    BY <1>1, <1>2, <2>2 DEF NextBlock
  <2>4. At(chain, L + 1) = At(decided, L + 1) /\ At(chain, L) = At(decided, L)
    BY <1>2, <1>5, <2>1
  <2>5. \A k : Within(chain, L, k) = Within(decided, L, k)
    BY <2>2, <2>4 DEF Within
  <2> QED BY <2>3, <2>4, <2>5
<1>7. At(chain, L) = At(decided, L)
  BY <1>2, <1>5
<1>8. Executing => L < n
  BY DEF RecInv, RecControl
<1>9. pc \in {"versionMain", "block", "merge"} \cup Preparing \cup Storing => L < n
  BY <1>8 DEF Executing
<1> HIDE DEF chain, n
<1>10. RecFiles'
  <2>1. RecTypes'
    BY <1>1, <1>4 DEF RecInv, RecFiles, RecTypes
  <2>2. RecBlocks'
    <3>1. Len(decided') = n + 1 /\ L =< n + 1
      BY <1>1, <1>2, <1>3, <1>4
    <3>2. \A h \in 1..L : decided'[h] = decided[h]
      BY <1>1, <1>2, <1>3, <1>4
    <3> QED BY <1>1, <1>2, <3>1, <3>2 DEF RecInv, RecFiles, RecBlocks
  <2>3. RecAcked'
    BY <1>1, <1>2 DEF RecInv, RecFiles, RecAcked
  <2>4. RecSnapshot'
    BY <1>1, <1>2, <1>7 DEF RecInv, RecFiles, RecSnapshot
  <2> QED BY <2>1, <2>2, <2>3, <2>4 DEF RecFiles
<1>11. RecControl'
  <2>1. Executing' => L < n + 1
    BY <1>1, <1>2, <1>3, <1>8 DEF Executing
  <2> QED BY <1>1, <1>2, <1>4, <1>6, <1>9, <2>1 DEF RecInv, RecControl
<1>12. RecBranches'
  BY <1>1 DEF RecInv, RecBranches, BranchExists, HasVersions
<1>13. RecNames'
  BY <1>1, <1>2 DEF RecInv, RecNames, HasVersions
<1>14. RecState'
  BY <1>1, <1>2, <1>6, <1>7, <1>9 DEF RecInv, RecState
<1>15. RecEnv' /\ RecRecord'
  BY <1>1, <1>2, <1>6, <1>7, <1>9 DEF RecInv, RecEnv, RecRecord
<1> QED BY <1>10, <1>11, <1>12, <1>13, <1>14, <1>15 DEF RecInv

-----------------------------------------------------------------------------
(* The theorems.  Dying at a site outside SafeSites is left out because    *)
(* the node then does not come up as it was.                               *)

LEMMA StutterKeeps ==
    ASSUME RecInv, UNCHANGED vars
    PROVE  RecInv'
<1>1. /\ UNCHANGED <<vs, blocks, blockHashes, sb, panicked>>
      /\ UNCHANGED <<pc, loading, cursor, snapshot, decided, acked, crashes>>
  BY DEF vars
<1>2. LastBlockHeight' = LastBlockHeight /\ NextBlock' = NextBlock
  BY <1>1, SameLedger
<1>3. RecFiles'
  BY <1>1, <1>2 DEF RecInv, RecFiles, RecTypes, RecBlocks, RecAcked, RecSnapshot
<1>4. RecControl'
  BY <1>1, <1>2 DEF RecInv, RecControl, Executing
<1>5. RecBranches'
  BY <1>1 DEF RecInv, RecBranches, BranchExists, HasVersions
<1>6. RecNames'
  BY <1>1, <1>2 DEF RecInv, RecNames, HasVersions
<1>7. RecState'
  BY <1>1, <1>2 DEF RecInv, RecState
<1>8. RecEnv' /\ RecRecord'
  BY <1>1, <1>2 DEF RecInv, RecEnv, RecRecord
<1> QED BY <1>3, <1>4, <1>5, <1>6, <1>7, <1>8 DEF RecInv

LEMMA StepKeeps ==
    ASSUME CrashSites \subseteq SafeSites
    PROVE  RecInv /\ [Next]_vars => RecInv'
<1> SUFFICES ASSUME RecInv, [Next]_vars PROVE RecInv'
  OBVIOUS
<1>1. CASE BeginBlock
  BY <1>1, BeginBlockKeeps
<1>2. CASE RemoveCheck
  BY <1>2, RemoveCheckKeeps
<1>3. CASE RemoveDeliver
  BY <1>3, RemoveDeliverKeeps
<1>4. CASE CreateDeliver
  BY <1>4, CreateDeliverKeeps
<1>5. CASE CreateCheck
  BY <1>5, CreateCheckKeeps
<1>6. CASE Loaded
  BY <1>6, LoadedKeeps
<1>7. CASE PrepareMain
  BY <1>7, PrepareMainKeeps
<1>8. CASE PrepareDeliver
  BY <1>8, PrepareDeliverKeeps
<1>9. CASE PrepareCheck
  BY <1>9, PrepareCheckKeeps
<1>10. CASE Deliver
  BY <1>10, DeliverKeeps
<1>11. CASE EndBlock
  BY <1>11, EndBlockKeeps
<1>12. CASE Merge
  BY <1>12, MergeKeeps
<1>13. CASE StoreHash
  BY <1>13, StoreHashKeeps
<1>14. CASE StoreBlock
  BY <1>14, StoreBlockKeeps
<1>15. CASE TruncateSnapshot
  BY <1>15, TruncateSnapshotKeeps
<1>16. CASE WriteSnapshot
  BY <1>16, WriteSnapshotKeeps
<1>17. CASE StartNew
  BY <1>17, StartNewKeeps
<1>18. CASE StartFromSnapshot
  BY <1>18, StartFromSnapshotKeeps
<1>19. CASE \E p \in Proposals : Decide(p)
  BY <1>19, DecideKeeps
<1>20. CASE \E tx \in CheckTxs : Check(tx)
  BY <1>20, CheckKeeps
<1>21. CASE Crash
  BY <1>21, CrashKeeps
<1>22. CASE UNCHANGED vars
  BY <1>22, StutterKeeps
<1> QED
  BY <1>1, <1>2, <1>3, <1>4, <1>5, <1>6, <1>7, <1>8, <1>9, <1>10, <1>11, <1>12, <1>13,
     <1>14, <1>15, <1>16, <1>17, <1>18, <1>19, <1>20, <1>21, <1>22 DEF Next, NodeStep

(* The recovery invariant: at every place between two writes the store     *)
(* holds the part of the next block that the place says, and no other.     *)
THEOREM Recoverable ==
    ASSUME CrashSites \subseteq SafeSites
    PROVE  Spec => []RecInv
<1>1. RecInv /\ [Next]_vars => RecInv'
  BY StepKeeps
<1> QED BY <1>1, InitGood, PTL DEF Spec

(* The variables keep their types, and Tendermint is never told of more    *)
(* blocks than it decided (consensus/mod.rs:75-95).                        *)
THEOREM RecoveryTypes ==
    ASSUME CrashSites \subseteq SafeSites
    PROVE  Spec => []TypeOK
<1>1. RecInv => TypeOK
  <2> SUFFICES ASSUME RecInv PROVE TypeOK
    OBVIOUS
  <2>1. Len(acked) =< Len(decided)
    <3>1. Len(acked) \in Nat /\ Len(decided) \in Nat
      BY DecidedChain DEF RecInv, RecFiles
    <3> QED BY <3>1 DEF RecInv, RecFiles, RecBlocks, RecAcked
  <2> QED BY <2>1 DEF RecInv, RecFiles, RecTypes, TypeOK, Sites, Refreshing, Preparing,
       Storing, Saving
<1> QED BY <1>1, Recoverable, PTL

(* No write of a handler or of a restart is refused, so the node comes up  *)
(* again (consensus/mod.rs:157, 192; bins/ovrd/daemon.rs:16).              *)
THEOREM ComesUpAgain ==
    ASSUME CrashSites \subseteq SafeSites
    PROVE  Spec => []NeverDies
<1>1. RecInv => NeverDies
  BY DEF RecInv, RecFiles, RecTypes, NeverDies
<1> QED BY <1>1, Recoverable, PTL

(* A node that is up shows the state every node has after its blocks,      *)
(* whatever it went through (ledger/mod.rs:245-257, 471-491).              *)
THEOREM ReplaysTheChain ==
    ASSUME CrashSites \subseteq SafeSites
    PROVE  Spec => []CommittedIsReplay
<1>1. RecInv => CommittedIsReplay
  <2> SUFFICES ASSUME RecInv, Quiet PROVE View(vs, Main) = Replay(LastBlockHeight).state
    BY DEF CommittedIsReplay
  <2>1. View(vs, Main) = At(decided, LastBlockHeight).state
    BY DEF RecInv, RecState, Quiet, Storing
  <2> QED BY <2>1, ReplayIsAt
<1> QED BY <1>1, Recoverable, PTL

(* An app hash Tendermint was answered is never taken back                 *)
(* (consensus/mod.rs:75-95, 191-197).                                      *)
THEOREM HashesStand ==
    ASSUME CrashSites \subseteq SafeSites
    PROVE  Spec => []AckedHashesStand
<1>1. RecInv => AckedHashesStand
  BY DEF RecInv, RecFiles, RecAcked, AckedHashesStand
<1> QED BY <1>1, Recoverable, PTL

(* A block Tendermint was told is committed is never lost                  *)
(* (consensus/mod.rs:75-95).                                               *)
THEOREM BlocksStay ==
    ASSUME CrashSites \subseteq SafeSites
    PROVE  Spec => []AckedBlocksStay
<1>1. RecInv => AckedBlocksStay
  <2> SUFFICES ASSUME RecInv, Quiet PROVE Len(acked) =< LastBlockHeight
    BY DEF AckedBlocksStay
  <2>1. LastBlockHeight \in Nat /\ Len(acked) \in Nat
    BY LastBlockIs, DecidedChain DEF RecInv, RecFiles
  <2> QED BY <2>1 DEF RecInv, RecFiles, RecAcked, Quiet, Saving
<1> QED BY <1>1, Recoverable, PTL

(* Between two blocks the environment is the one of the last block, after  *)
(* a restart too (ethvm/mod.rs:104).                                       *)
THEOREM KeepsTheVicinity ==
    ASSUME CrashSites \subseteq SafeSites
    PROVE  Spec => []VicinityOfLastBlock
<1>1. RecInv => VicinityOfLastBlock
  <2> DEFINE L == LastBlockHeight
  <2> SUFFICES ASSUME RecInv, pc = "idle", L > 0
               PROVE  /\ sb[Main].vicinity.time = LastBlock.time
                      /\ sb[Main].vicinity.coinbase = LastBlock.proposer
    BY DEF VicinityOfLastBlock
  <2>1. /\ L \in Nat /\ L =< Len(decided) /\ Len(decided) \in Nat
        /\ decided \in Seq(Proposal)
        /\ sb[Main].vicinity = At(decided, L).env
    BY LastBlockIs, DecidedChain DEF RecInv, RecFiles, RecBlocks, RecEnv
  <2>2. /\ LastBlock = blocks[L] /\ L \in DOMAIN blocks
    BY <2>1 DEF LastBlock, RecInv, RecFiles, RecBlocks
  <2>3. blocks[L].proposer = decided[L].proposer /\ blocks[L].time = decided[L].time
    BY <2>2 DEF RecInv, RecFiles, RecBlocks
  <2>4. At(decided, L).env = [number |-> L - 1, coinbase |-> decided[L].proposer,
                              time |-> decided[L].time]
    <3> DEFINE n == L - 1
    <3>1. n \in Nat /\ n < Len(decided) /\ n + 1 = L
      BY <2>1
    <3> HIDE DEF n
    <3>2. At(decided, n + 1).env = [number |-> n, coinbase |-> decided[n + 1].proposer,
                                    time |-> decided[n + 1].time]
      BY <2>1, <3>1, AtNext
    <3> QED BY <3>1, <3>2 DEF n
  <2> QED BY <2>1, <2>2, <2>3, <2>4
<1> QED BY <1>1, Recoverable, PTL

-----------------------------------------------------------------------------
(* The chain of blocks.  Each block is sealed on the one before it, its    *)
(* receipts are those of its transactions, all of the EVM's, and no        *)
(* transaction is in two blocks: once it took effect, the nonce it was     *)
(* admitted with is used up in every state that follows.                   *)

SealedOn(b, prev) ==
    /\ b.hash = HeaderHash(b)
    /\ b.prev = prev
    /\ BlockReceipts(b)
    /\ \A tx \in Range(b.txs) : tx.kind = "evm"

Apart(txs, others) == Range(txs) \cap Range(others) = {}

ChainBlocks ==
    /\ Len(decided) =< MaxHeight
    /\ \A h \in DOMAIN blocks :
          /\ SealedOn(blocks[h], IF h = 1 THEN <<>> ELSE blocks[h - 1].hash)
          /\ blockHashes[h] = blocks[h].hash
          /\ NoncesUsed(blocks[h].txs, View(vs, Main))
          /\ \A k \in DOMAIN blocks : k # h => Apart(blocks[h].txs, blocks[k].txs)

Open == {"versionCheck", "block", "merge"}

(* The record of the block in process, on DeliverTx.                       *)
ChainOpen ==
    pc \in Open =>
        /\ RecordComplete(sb[DeliverTx])
        /\ sb[DeliverTx].block.prev = LastBlock.hash
        /\ \A tx \in Range(sb[DeliverTx].block.txs) : tx.kind = "evm"
        /\ NoncesUsed(sb[DeliverTx].block.txs, View(vs, DeliverTx))
        /\ \A h \in DOMAIN blocks :
              /\ NoncesUsed(blocks[h].txs, View(vs, DeliverTx))
              /\ Apart(blocks[h].txs, sb[DeliverTx].block.txs)

(* The sealed block between the merge and the write of the block.          *)
ChainSealed ==
    pc \in Storing =>
        /\ SealedOn(sb[Main].block, LastBlock.hash)
        /\ NoncesUsed(sb[Main].block.txs, View(vs, Main))
        /\ \A h \in DOMAIN blocks : Apart(blocks[h].txs, sb[Main].block.txs)
        /\ pc = "storeBlock" => blockHashes[LastBlockHeight + 1] = sb[Main].block.hash

ChainInv == ChainBlocks /\ ChainOpen /\ ChainSealed

(* A step that touches neither the blocks nor the record in process, and   *)
(* leaves what the branches show.                                          *)
LEMMA ChainKept ==
    ASSUME ChainInv, UNCHANGED <<blocks, blockHashes>>, Len(decided') =< MaxHeight,
           View(vs', Main) = View(vs, Main),
           pc' \in Open => /\ pc \in Open /\ sb'[DeliverTx] = sb[DeliverTx]
                           /\ View(vs', DeliverTx) = View(vs, DeliverTx),
           pc' \in Storing => pc = pc' /\ sb'[Main] = sb[Main]
    PROVE  ChainInv'
<1>1. LastBlockHeight' = LastBlockHeight /\ LastBlock' = LastBlock
  BY SameLedger
<1>2. ChainBlocks'
  BY DEF ChainInv, ChainBlocks
<1>3. ChainOpen'
  BY <1>1 DEF ChainInv, ChainOpen
<1>4. ChainSealed'
  BY <1>1 DEF ChainInv, ChainSealed
<1> QED BY <1>2, <1>3, <1>4 DEF ChainInv

(* A step away from the block in process, of which only a crash or its end *)
(* can be.                                                                 *)
LEMMA ChainOutside ==
    ASSUME RecInv, RecInv', ChainInv, UNCHANGED <<blocks, blockHashes, decided>>,
           pc \notin Storing, pc' \notin Open \cup Storing
    PROVE  ChainInv'
<1>1. LastBlockHeight' = LastBlockHeight
  BY SameLedger
<1>2. View(vs', Main) = View(vs, Main)
  <2>1. View(vs, Main) = At(decided, LastBlockHeight).state
    BY DEF RecInv, RecState
  <2>2. View(vs', Main) = At(decided', LastBlockHeight').state
    BY DEF RecInv, RecState
  <2> QED BY <1>1, <2>1, <2>2
<1>3. Len(decided') =< MaxHeight
  BY DEF ChainInv, ChainBlocks
<1> QED BY <1>2, <1>3, ChainKept

LEMMA ChainStarts ==
    ASSUME RecInv, RecInv', ChainInv, PrepareDeliver
    PROVE  ChainInv'
<1> USE BranchNamesDistinct
<1> DEFINE h == LastBlockHeight + 1
           D == DeliverTx
<1>1. /\ pc = "versionDeliver" /\ vs \in Store
      /\ BranchExists(vs, D) /\ vs[D].vers = <<>>
  BY DEF PrepareDeliver, Prepare, WriteStep, RecInv, RecBranches, RecNames, Preparing
<1>2. HeightsUpTo(vs[D].vers, LastBlockHeight)
  BY <1>1, EmptySeq DEF HeightsUpTo
<1>3. /\ pc' = "versionCheck"
      /\ vs'[Main] = vs[Main] /\ View(vs', D) = View(vs, D)
      /\ sb'[D].hashes = <<>>
      /\ sb'[D].block = NewBlock(h, NextBlock.proposer, NextBlock.time, LastBlock.hash)
      /\ UNCHANGED <<blocks, blockHashes, decided>>
  BY <1>1, <1>2, PrepareCreates DEF PrepareDeliver, Preparing
<1>4. LastBlockHeight' = LastBlockHeight /\ LastBlock' = LastBlock
  BY <1>3, SameLedger
<1>5. View(vs', Main) = View(vs, Main) /\ View(vs', D) = View(vs, Main)
  <2>1. View(vs', Main) = View(vs, Main)
    BY <1>3, SameBranch
  <2>2. View(vs, D) = View(vs, Main)
    BY <1>1 DEF RecInv, RecState, Preparing, Storing
  <2> QED BY <1>3, <2>1, <2>2
<1>6. ChainBlocks'
  BY <1>3, <1>5 DEF ChainInv, ChainBlocks
<1>7. ChainOpen'
  <2>1. /\ sb'[D].block.prev = LastBlock.hash /\ sb'[D].block.txs = <<>>
        /\ RecordComplete(sb'[D]) /\ NoncesUsed(<<>>, View(vs', D))
    <3>1. sb'[D].block.prev = LastBlock.hash /\ sb'[D].block.txs = <<>>
      BY <1>3 DEF NewBlock
    <3>2. RecordComplete(sb'[D]) /\ NoncesUsed(sb'[D].block.txs, View(vs', D))
      BY <1>3, RecordStarts
    <3> QED BY <3>1, <3>2
  <2>2. Range(<<>>) = {}
    BY DEF Range
  <2>3. \A k \in DOMAIN blocks' : /\ NoncesUsed(blocks'[k].txs, View(vs', D))
                                /\ Apart(blocks'[k].txs, <<>>)
    BY <1>3, <1>5, <2>2 DEF ChainInv, ChainBlocks, Apart
  <2> QED BY <1>4, <2>1, <2>2, <2>3 DEF ChainOpen
<1>8. ChainSealed'
  BY <1>3 DEF ChainSealed, Storing
<1> QED BY <1>6, <1>7, <1>8 DEF ChainInv

(* A transaction that takes effect is in no block, this one included.      *)
LEMMA ChainDelivers ==
    ASSUME RecInv, RecInv', ChainInv, Deliver
    PROVE  ChainInv'
<1> USE BranchNamesDistinct
<1> DEFINE L == LastBlockHeight
           D == DeliverTx
           tx == NextBlock.txs[cursor]
           branch == sb[D]
           txs == branch.block.txs
           st == View(vs, D)
           done == Admissible(tx, st) /\ ExecSucceeds(tx)
<1>1. /\ pc = "block" /\ pc' = pc /\ cursor =< Len(NextBlock.txs) /\ ApplyTx(D, tx)
      /\ decided' = decided
  BY DEF Deliver
<1>2. /\ L < Len(decided) /\ cursor \in Nat \ {0}
      /\ branch \in StateBranch
  BY <1>1 DEF RecInv, RecControl, Executing, RecFiles, RecTypes
<1>3. tx \in Txs
  <2>1. NextBlock.txs \in Seq(Txs) /\ Len(NextBlock.txs) \in Nat
    BY <1>2, NextBlockIs, LenProperties
  <2>2. cursor \in 1..Len(NextBlock.txs)
    BY <1>1, <1>2, <2>1
  <2> QED BY <2>1, <2>2, ElementOfSeq
<1>4. BranchReady(D)
  <2>1. sb \in [BranchNames -> StateBranch] /\ panicked = FALSE
    BY DEF RecInv, RecFiles, RecTypes
  <2>2. sb[D].block.height = LastBlockHeight + 1
    BY <1>1 DEF RecInv, RecRecord
  <2>3. NamesUpTo(vs[D].vers, LastBlockHeight + 1, Len(sb[D].hashes))
    BY <1>1 DEF RecInv, RecNames
  <2> QED BY <1>1, <2>1, <2>2, <2>3 DEF BranchReady, RecInv, RecBranches
<1> HIDE DEF tx
<1>5. OthersUnchanged(D) /\ Executes(D, tx)
  BY <1>1, <1>3, <1>4, ApplyTxKeeps
<1>6. /\ UNCHANGED <<blocks, blockHashes>> /\ vs'[Main] = vs[Main]
      /\ View(vs', D) = Outcome(tx, st, branch.vicinity)
      /\ sb'[D] = IF done THEN Recorded(branch, tx) ELSE branch
  BY <1>5 DEF OthersUnchanged, Executes
<1>7. /\ LastBlockHeight' = L /\ LastBlock' = LastBlock
      /\ View(vs', Main) = View(vs, Main)
  BY <1>6, SameLedger, SameBranch
<1>8. /\ branch.vicinity \in Vicinity /\ txs \in Seq(Txs) /\ st \in GoodState
      /\ \A h \in DOMAIN blocks : blocks[h].txs \in Seq(Txs)
  <2>1. \A h \in DOMAIN blocks : blocks[h].txs \in Seq(Txs)
    BY DEF RecInv, RecFiles, RecBlocks, Block
  <2>2. st \in GoodState
    BY <1>4, ViewType DEF BranchReady, Store
  <2> QED BY <1>2, <2>1, <2>2 DEF StateBranch, Block
<1>9. /\ RecordComplete(branch) /\ branch.block.prev = LastBlock.hash
      /\ \A x \in Range(txs) : x.kind = "evm"
      /\ NoncesUsed(txs, st)
      /\ \A h \in DOMAIN blocks : NoncesUsed(blocks[h].txs, st) /\ Apart(blocks[h].txs, txs)
  BY <1>1 DEF ChainInv, ChainOpen, Open
<1>10. ChainBlocks'
  BY <1>1, <1>6, <1>7 DEF ChainInv, ChainBlocks
<1>11. /\ NoncesUsed(txs, View(vs', D))
       /\ \A h \in DOMAIN blocks : NoncesUsed(blocks[h].txs, View(vs', D))
  BY <1>3, <1>6, <1>8, <1>9, NoncesStayUsed
<1>12. ChainOpen'
  <2>1. CASE done
    <3>1. /\ tx \notin Range(txs) /\ tx.kind = "evm"
          /\ \A h \in DOMAIN blocks : tx \notin Range(blocks[h].txs)
          /\ tx.nonce < View(vs', D).accounts[tx.from].nonce
      BY <1>3, <1>6, <1>8, <1>9, <2>1, AdmittedIsNew
    <3>2. /\ sb'[D].block.txs = Append(txs, tx)
          /\ sb'[D].block.prev = branch.block.prev
          /\ RecordComplete(sb'[D])
      <4>1. sb'[D] = Recorded(branch, tx)
        BY <1>6, <2>1
      <4> HIDE DEF done
      <4>2. RecordComplete(Recorded(branch, tx))
        BY <1>2, <1>3, <1>9, <3>1, RecordGrows
      <4>3. /\ Recorded(branch, tx).block.txs = Append(txs, tx)
            /\ Recorded(branch, tx).block.prev = branch.block.prev
        BY <1>2, <1>3, RecordedType
      <4> QED BY <4>1, <4>2, <4>3
    <3>3. Range(Append(txs, tx)) = Range(txs) \cup {tx}
      BY <1>3, <1>8, RangeAppended
    <3>4. \A x \in Range(sb'[D].block.txs) : x.kind = "evm"
      BY <1>9, <3>1, <3>2, <3>3
    <3>5. NoncesUsed(sb'[D].block.txs, View(vs', D))
      BY <1>11, <3>1, <3>2, <3>3 DEF NoncesUsed
    <3>6. \A h \in DOMAIN blocks : Apart(blocks[h].txs, sb'[D].block.txs)
      BY <1>9, <3>1, <3>2, <3>3 DEF Apart
    <3> QED BY <1>6, <1>7, <1>9, <1>11, <3>2, <3>4, <3>5, <3>6 DEF ChainOpen
  <2>2. CASE ~done
    BY <1>6, <1>7, <1>9, <1>11, <2>2 DEF ChainOpen
  <2> QED BY <2>1, <2>2
<1>13. ChainSealed'
  BY <1>1 DEF ChainSealed, Storing
<1> QED BY <1>10, <1>12, <1>13 DEF ChainInv

LEMMA ChainSeals ==
    ASSUME RecInv, RecInv', ChainInv, Merge
    PROVE  ChainInv'
<1> USE BranchNamesDistinct
<1> DEFINE D == DeliverTx
           branch == sb[D]
           block == Sealed(branch)
<1>1. /\ pc = "merge" /\ vs \in Store
      /\ BranchExists(vs, Main) /\ BranchExists(vs, D) /\ HasVersions(vs, D)
      /\ branch \in StateBranch /\ sb \in [BranchNames -> StateBranch]
  BY DEF Merge, WriteStep, RecInv, RecFiles, RecTypes, RecBranches, RecNames
<1>2. CanMerge(vs, D, Main)
  BY <1>1 DEF CanMerge
<1>3. /\ pc' = "storeHash" /\ vs' = MergeToParent(vs, D, Main)
      /\ sb' = [sb EXCEPT ![Main].hashes = Append(branch.hashes, EmptyHash),
                          ![Main].block = block,
                          ![D].hashes = sb[Main].hashes,
                          ![D].block = sb[Main].block]
      /\ UNCHANGED <<blocks, blockHashes, decided>>
  BY <1>1, <1>2 DEF Merge, WriteStep
<1>4. LastBlockHeight' = LastBlockHeight /\ LastBlock' = LastBlock
  BY <1>3, SameLedger
<1>5. /\ block.hash = HeaderHash(block) /\ block.prev = branch.block.prev
      /\ block.txs = branch.block.txs
  BY <1>1, SealedType
<1>6. View(vs', Main) = View(vs, D)
  BY <1>1, <1>2, <1>3, MergeView DEF Store
<1>7. /\ RecordComplete(branch) /\ branch.block.prev = LastBlock.hash
      /\ \A x \in Range(branch.block.txs) : x.kind = "evm"
      /\ NoncesUsed(branch.block.txs, View(vs, D))
      /\ \A h \in DOMAIN blocks : /\ NoncesUsed(blocks[h].txs, View(vs, D))
                                 /\ Apart(blocks[h].txs, branch.block.txs)
  BY <1>1 DEF ChainInv, ChainOpen, Open
<1>8. BlockReceipts(block)
  BY <1>1, <1>7, RecordSealed
<1> HIDE DEF block
<1>9. sb'[Main].block = block
  BY <1>1, <1>3 DEF StateBranch
<1>10. ChainBlocks'
  BY <1>3, <1>6, <1>7 DEF ChainInv, ChainBlocks
<1>11. ChainOpen'
  BY <1>3 DEF ChainOpen, Open
<1>12. ChainSealed'
  <2>1. SealedOn(block, LastBlock.hash)
    BY <1>5, <1>7, <1>8 DEF SealedOn
  <2> QED BY <1>3, <1>4, <1>5, <1>6, <1>7, <1>9, <2>1 DEF ChainSealed
<1> QED BY <1>10, <1>11, <1>12 DEF ChainInv

LEMMA ChainStoresHash ==
    ASSUME RecInv, RecInv', ChainInv, StoreHash
    PROVE  ChainInv'
<1> DEFINE L == LastBlockHeight
           block == sb[Main].block
<1>1. /\ pc = "storeHash" /\ pc' = "storeBlock"
      /\ blockHashes' = Insert(blockHashes, block.height, block.hash)
      /\ UNCHANGED <<vs, blocks, sb, decided>>
  BY DEF StoreHash, Goto
<1>2. /\ L \in Nat /\ DOMAIN blocks = 1..L /\ DOMAIN blockHashes = 1..L
      /\ block.height = L + 1
  BY <1>1 DEF RecInv, RecFiles, RecBlocks, RecRecord, Storing
<1>3. LastBlockHeight' = L /\ LastBlock' = LastBlock
  BY <1>1, SameLedger
<1>4. /\ blockHashes'[L + 1] = block.hash
      /\ \A k \in DOMAIN blocks : blockHashes'[k] = blockHashes[k]
  <2>1. \A k \in DOMAIN blocks : k \in DOMAIN blockHashes /\ k # L + 1
    BY <1>2
  <2>2. blockHashes' = Insert(blockHashes, L + 1, block.hash)
    BY <1>1, <1>2
  <2> HIDE DEF L, block
  <2> QED BY <2>1, <2>2 DEF Insert
<1> HIDE DEF L, block
<1>5. ChainBlocks'
  BY <1>1, <1>4 DEF ChainInv, ChainBlocks
<1>6. ChainOpen'
  BY <1>1 DEF ChainOpen, Open
<1>7. ChainSealed'
  BY <1>1, <1>3, <1>4 DEF ChainInv, ChainSealed, Storing, block
<1> QED BY <1>5, <1>6, <1>7 DEF ChainInv

LEMMA ChainGrows ==
    ASSUME RecInv, RecInv', ChainInv, StoreBlock
    PROVE  ChainInv'
<1> DEFINE L == LastBlockHeight
           block == sb[Main].block
           hash(map, h) == IF h = 1 THEN <<>> ELSE map[h - 1].hash
<1>1. /\ pc = "storeBlock" /\ pc' = "truncate"
      /\ blocks' = Insert(blocks, block.height, block)
      /\ UNCHANGED <<vs, blockHashes, decided>>
  BY DEF StoreBlock, Goto
<1>2. /\ L \in Nat /\ DOMAIN blocks = 1..L
      /\ block.height = L + 1
  BY <1>1 DEF RecInv, RecFiles, RecBlocks, RecRecord, Storing
<1>3. /\ DOMAIN blocks' = 1..(L + 1) /\ blocks'[L + 1] = block
      /\ \A k \in 1..L : blocks'[k] = blocks[k] /\ k # L + 1
  <2>1. \A k \in 1..L : k # L + 1
    BY <1>2
  <2>2. 1..L \cup {L + 1} = 1..(L + 1)
    BY <1>2
  <2>3. blocks' = Insert(blocks, L + 1, block)
    BY <1>1, <1>2
  <2> HIDE DEF block
  <2>4. DOMAIN blocks' = 1..L \cup {L + 1}
    BY <1>2, <2>3 DEF Insert
  <2>5. /\ blocks'[L + 1] = block
        /\ \A k \in 1..L : blocks'[k] = blocks[k]
    BY <1>2, <2>1, <2>3 DEF Insert
  <2> QED BY <2>1, <2>2, <2>4, <2>5
<1>4. /\ SealedOn(block, LastBlock.hash)
      /\ NoncesUsed(block.txs, View(vs, Main))
      /\ \A h \in 1..L : Apart(blocks[h].txs, block.txs)
      /\ blockHashes[L + 1] = block.hash
  BY <1>1, <1>2 DEF ChainInv, ChainSealed, Storing
<1>5. LastBlock.hash = hash(blocks', L + 1)
  <2>1. CASE L = 0
    BY <2>1 DEF LastBlock, DefaultBlock, NewBlock
  <2>2. CASE L # 0
    <3>1. L \in 1..L /\ L + 1 # 1 /\ (L + 1) - 1 = L
      BY <1>2, <2>2
    <3> QED BY <1>3, <2>2, <3>1 DEF LastBlock
  <2> QED BY <2>1, <2>2
<1> HIDE DEF block
<1>6. ASSUME NEW h \in 1..(L + 1)
      PROVE  /\ SealedOn(blocks'[h], hash(blocks', h))
             /\ blockHashes[h] = blocks'[h].hash
             /\ NoncesUsed(blocks'[h].txs, View(vs, Main))
  <2>1. CASE h = L + 1
    BY <1>3, <1>4, <1>5, <2>1
  <2>2. CASE h # L + 1
    <3>1. h \in 1..L
      BY <1>2, <2>2
    <3>2. /\ SealedOn(blocks[h], hash(blocks, h))
          /\ blockHashes[h] = blocks[h].hash
          /\ NoncesUsed(blocks[h].txs, View(vs, Main))
      BY <1>2, <3>1 DEF ChainInv, ChainBlocks
    <3>3. hash(blocks', h) = hash(blocks, h)
      <4>1. h # 1 => h - 1 \in 1..L
        BY <1>2, <3>1
      <4> QED BY <1>3, <4>1
    <3> QED BY <1>3, <3>1, <3>2, <3>3
  <2> QED BY <2>1, <2>2
<1>7. ASSUME NEW h \in 1..(L + 1), NEW k \in 1..(L + 1), k # h
      PROVE  Apart(blocks'[h].txs, blocks'[k].txs)
  <2>1. \A i, j \in 1..L : j # i => Apart(blocks[i].txs, blocks[j].txs)
    BY <1>2 DEF ChainInv, ChainBlocks
  <2>2. CASE h # L + 1 /\ k # L + 1
    <3>1. h \in 1..L /\ k \in 1..L
      BY <1>2, <2>2
    <3> QED BY <1>3, <1>7, <2>1, <3>1
  <2>3. CASE h = L + 1
    <3>1. k \in 1..L
      BY <1>2, <1>7, <2>3
    <3> QED BY <1>3, <1>4, <2>3, <3>1 DEF Apart
  <2>4. CASE k = L + 1
    <3>1. h \in 1..L
      BY <1>2, <1>7, <2>4
    <3> QED BY <1>3, <1>4, <2>4, <3>1
  <2> QED BY <2>2, <2>3, <2>4
<1> HIDE DEF L
<1>8. ChainBlocks'
  BY <1>1, <1>3, <1>6, <1>7 DEF ChainInv, ChainBlocks
<1>9. ChainOpen' /\ ChainSealed'
  BY <1>1 DEF ChainOpen, ChainSealed, Open, Storing
<1> QED BY <1>8, <1>9 DEF ChainInv

LEMMA ChainStep ==
    ASSUME CrashSites \subseteq SafeSites
    PROVE  RecInv /\ RecInv' /\ ChainInv /\ [Next]_vars => ChainInv'
<1> SUFFICES ASSUME RecInv, RecInv', ChainInv, [Next]_vars PROVE ChainInv'
  OBVIOUS
<1> USE BranchNamesDistinct
<1>1. CASE BeginBlock \/ Loaded \/ TruncateSnapshot \/ WriteSnapshot
  <2>1. /\ UNCHANGED <<blocks, blockHashes, decided>>
        /\ pc \notin Storing /\ pc' \notin Open \cup Storing
    BY <1>1 DEF BeginBlock, Loaded, TruncateSnapshot, WriteSnapshot, Goto, ledgerVars,
       Open, Storing
  <2> QED BY <2>1, ChainOutside
<1>2. CASE RemoveCheck \/ RemoveDeliver \/ CreateDeliver \/ CreateCheck \/ PrepareMain
  <2>1. /\ UNCHANGED <<blocks, blockHashes, decided>>
        /\ pc \notin Storing /\ pc' \notin Open \cup Storing
    BY <1>2 DEF RemoveCheck, RemoveDeliver, CreateDeliver, CreateCheck, PrepareMain, Prepare,
       WriteStep, Die, Panic, Open, Storing
  <2> QED BY <2>1, ChainOutside
<1>3. CASE StartFromSnapshot
  <2>1. /\ UNCHANGED <<blocks, blockHashes, decided>>
        /\ pc \notin Storing /\ pc' \notin Open \cup Storing
    BY <1>3 DEF StartFromSnapshot, Goto, Die, Panic, Open, Storing
  <2> QED BY <2>1, ChainOutside
<1>4. CASE Crash
  <2>1. /\ UNCHANGED <<blocks, blockHashes, decided>>
        /\ pc \notin Storing /\ pc' \notin Open \cup Storing
    BY <1>4 DEF Crash, SafeSites, Open, Storing
  <2> QED BY <2>1, ChainOutside
<1>5. CASE StartNew
  <2>1. pc' = "idle" /\ DOMAIN blocks' = {} /\ decided' = decided
    BY <1>5 DEF StartNew, Goto
  <2>2. ChainBlocks'
    BY <2>1 DEF ChainInv, ChainBlocks
  <2>3. ChainOpen' /\ ChainSealed'
    BY <2>1 DEF ChainOpen, ChainSealed, Open, Storing
  <2> QED BY <2>2, <2>3 DEF ChainInv
<1>6. CASE PrepareCheck
  <2>1. /\ pc = "versionCheck" /\ vs \in Store
        /\ BranchExists(vs, CheckTx) /\ vs[CheckTx].vers = <<>>
    BY <1>6 DEF PrepareCheck, Prepare, WriteStep, RecInv, RecBranches, RecNames, Preparing
  <2>2. HeightsUpTo(vs[CheckTx].vers, LastBlockHeight)
    BY <2>1, EmptySeq DEF HeightsUpTo
  <2>3. /\ pc' = "block" /\ UNCHANGED <<blocks, blockHashes, decided>>
        /\ vs'[Main] = vs[Main] /\ vs'[DeliverTx] = vs[DeliverTx]
        /\ sb'[DeliverTx] = sb[DeliverTx]
    BY <1>6, <2>1, <2>2, PrepareCreates DEF PrepareCheck, Preparing
  <2>4. View(vs', Main) = View(vs, Main) /\ View(vs', DeliverTx) = View(vs, DeliverTx)
    BY <2>3, SameBranch
  <2>5. Len(decided') =< MaxHeight
    BY <2>3 DEF ChainInv, ChainBlocks
  <2> QED BY <2>1, <2>3, <2>4, <2>5, ChainKept DEF Open, Storing
<1>7. CASE EndBlock
  <2>1. /\ pc = "block" /\ pc' = "merge"
        /\ UNCHANGED <<vs, blocks, blockHashes, sb, decided>>
    BY <1>7 DEF EndBlock, Goto, ledgerVars
  <2>2. Len(decided') =< MaxHeight
    BY <2>1 DEF ChainInv, ChainBlocks
  <2> QED BY <2>1, <2>2, SameBranch, ChainKept DEF Open, Storing
<1>8. ASSUME NEW tx \in CheckTxs, Check(tx)
      PROVE  ChainInv'
  <2>1. /\ pc \in {"idle", "block", "merge", "storeHash", "storeBlock", "truncate", "write"}
        /\ ApplyTx(CheckTx, tx) /\ tx \in Txs
        /\ pc' = pc /\ decided' = decided
    BY <1>8, ProposalsAre DEF Check, recoveryVars
  <2>2. BranchReady(CheckTx)
    BY <2>1 DEF BranchReady, RecInv, RecFiles, RecTypes, RecBranches, RecNames, Storing,
       Saving
  <2>3. OthersUnchanged(CheckTx)
    BY <2>1, <2>2, ApplyTxKeeps
  <2>4. /\ UNCHANGED <<blocks, blockHashes>>
        /\ vs'[Main] = vs[Main] /\ vs'[DeliverTx] = vs[DeliverTx]
        /\ sb'[Main] = sb[Main] /\ sb'[DeliverTx] = sb[DeliverTx]
    BY <2>3 DEF OthersUnchanged
  <2>5. View(vs', Main) = View(vs, Main) /\ View(vs', DeliverTx) = View(vs, DeliverTx)
    BY <2>4, SameBranch
  <2>6. Len(decided') =< MaxHeight
    BY <2>1 DEF ChainInv, ChainBlocks
  <2> QED BY <2>1, <2>4, <2>5, <2>6, ChainKept
<1>9. ASSUME NEW p \in Proposals, Decide(p)
      PROVE  ChainInv'
  <2>1. /\ Len(decided) < MaxHeight /\ decided' = Append(decided, p)
        /\ UNCHANGED <<vs, blocks, blockHashes, sb, pc>>
    BY <1>9 DEF Decide, ledgerVars
  <2>2. Len(decided') = Len(decided) + 1 /\ Len(decided) \in Nat
    BY <2>1, AppendProperties, LenProperties DEF RecInv, RecFiles, RecTypes
  <2>3. Len(decided') =< MaxHeight
    BY <2>1, <2>2, RecoveryAssumption
  <2> QED BY <2>1, <2>3, SameBranch, ChainKept
<1>10. CASE UNCHANGED vars
  <2>1. UNCHANGED <<vs, blocks, blockHashes, sb, pc, decided>>
    BY <1>10 DEF vars
  <2>2. Len(decided') =< MaxHeight
    BY <2>1 DEF ChainInv, ChainBlocks
  <2> QED BY <2>1, <2>2, SameBranch, ChainKept
<1> QED
  BY <1>1, <1>2, <1>3, <1>4, <1>5, <1>6, <1>7, <1>8, <1>9, <1>10, ChainStarts, ChainDelivers,
     ChainSeals, ChainStoresHash, ChainGrows DEF Next, NodeStep

LEMMA ChainInit == RecoveryInit => ChainInv
<1> SUFFICES ASSUME RecoveryInit PROVE ChainInv
  OBVIOUS
<1>1. pc = "idle" /\ DOMAIN blocks = {} /\ decided = <<>>
  BY DEF RecoveryInit, Init
<1>2. Len(decided) =< MaxHeight
  BY <1>1, EmptySeq, RecoveryAssumption
<1> QED BY <1>1, <1>2 DEF ChainInv, ChainBlocks, ChainOpen, ChainSealed, Open, Storing

(* Whatever the crashes, the stored blocks are a chain: each names the     *)
(* hash of the one before it and covers itself by its own, the hash map    *)
(* agrees, every receipt is the one of its transaction, and no transaction *)
(* took effect twice (ledger/mod.rs:155-371, ethvm/tx/mod.rs:280-307).     *)
THEOREM BlocksAreAChain ==
    ASSUME CrashSites \subseteq SafeSites
    PROVE  Spec => []ChainInv
<1>1. RecInv /\ RecInv' /\ ChainInv /\ [Next]_vars => ChainInv'
  BY ChainStep
<1> QED BY <1>1, ChainInit, Recoverable, PTL DEF Spec
=============================================================================
