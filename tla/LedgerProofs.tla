---------------------------- MODULE LedgerProofs ----------------------------
(***************************************************************************)
(* What the operations of the store, of one transaction and of the ledger  *)
(* need and what they preserve, for every set of accounts and              *)
(* transactions.  From a store of branches with names in N and states in S,*)
(* an operation the store allows leads to such a store again, and it       *)
(* touches no other branch than its own.  A transaction keeps the types of *)
(* the accounts; that an account with a balance is known to the store, so  *)
(* that a fee can always be taken from whoever was admitted; and that all  *)
(* balances add up to no more than in the beginning, so that no transfer   *)
(* saturates and no fee is beyond a U256.  A nonce it used stays used.     *)
(* The record of a block in process has what its transactions left in it,  *)
(* and sealing it makes the block that the queries answer from.            *)
(* The proofs about Consensus and about Recovery both rest on this module. *)
(***************************************************************************)
EXTENDS Ledger, FoldProofs, SequenceTheorems

(* A branch that exists has all its fields.                                *)
LEMMA LiveBranch ==
    ASSUME NEW N, NEW S, NEW br \in BranchOf(N, S), br # NoBranch
    PROVE  /\ br \in [base : S, vers : Seq([name : N, state : S])]
           /\ br.base \in S
           /\ br.vers \in Seq([name : N, state : S])
BY DEF BranchOf

(* A read of a branch that exists yields a state.                          *)
LEMMA ViewType ==
    ASSUME NEW B, NEW N, NEW S, NEW store \in [B -> BranchOf(N, S)],
           NEW b \in B, BranchExists(store, b)
    PROVE  View(store, b) \in S
<1> DEFINE V == [name : N, state : S]
<1>1. store[b].base \in S /\ store[b].vers \in Seq(V)
  BY LiveBranch DEF BranchExists
<1>2. CASE HasVersions(store, b)
  <2>1. Len(store[b].vers) \in 1..Len(store[b].vers)
    BY <1>1, <1>2, EmptySeq, LenProperties DEF HasVersions
  <2>2. store[b].vers[Len(store[b].vers)] \in V
    BY <1>1, <2>1, ElementOfSeq
  <2> QED BY <1>2, <2>2 DEF View
<1>3. CASE ~HasVersions(store, b)
  BY <1>1, <1>3 DEF View
<1> QED BY <1>2, <1>3

(* A new version shows what the branch showed before it.                   *)
LEMMA CreateVersionType ==
    ASSUME NEW B, NEW N, NEW S, NEW store \in [B -> BranchOf(N, S)],
           NEW b \in B, BranchExists(store, b), NEW name \in N
    PROVE  LET new == CreateVersion(store, b, name)
           IN  /\ new \in [B -> BranchOf(N, S)]
               /\ \A c \in B : c # b => new[c] = store[c]
               /\ BranchExists(new, b)
               /\ HasVersions(new, b)
               /\ new[b].vers = Append(store[b].vers, Version(name, View(store, b)))
               /\ View(new, b) = View(store, b)
<1> DEFINE V == [name : N, state : S]
           v == Version(name, View(store, b))
           new == CreateVersion(store, b, name)
<1>1. /\ store[b] \in [base : S, vers : Seq(V)]
      /\ store[b].vers \in Seq(V)
  BY LiveBranch DEF BranchExists
<1>2. v \in V
  BY ViewType DEF Version
<1>3. /\ Append(store[b].vers, v) \in Seq(V)
      /\ Len(Append(store[b].vers, v)) = Len(store[b].vers) + 1
      /\ Append(store[b].vers, v)[Len(store[b].vers) + 1] = v
      /\ Append(store[b].vers, v) # <<>>
  BY <1>1, <1>2, AppendProperties
<1>4. new[b] = [store[b] EXCEPT !.vers = Append(store[b].vers, v)]
  BY DEF CreateVersion
<1>5. /\ new[b] \in [base : S, vers : Seq(V)]
      /\ new[b].vers = Append(store[b].vers, v)
  BY <1>1, <1>3, <1>4
<1>6. new \in [B -> BranchOf(N, S)] /\ \A c \in B : c # b => new[c] = store[c]
  BY <1>4, <1>5 DEF CreateVersion, BranchOf
<1>7. BranchExists(new, b) /\ HasVersions(new, b)
  BY <1>3, <1>5 DEF BranchExists, HasVersions, NoBranch
<1>8. View(new, b) = View(store, b)
  BY <1>3, <1>5, <1>7 DEF View, Version
<1> QED BY <1>5, <1>6, <1>7, <1>8

(* Popping the version that was just created undoes the creation.          *)
LEMMA PopCreated ==
    ASSUME NEW B, NEW N, NEW S, NEW store \in [B -> BranchOf(N, S)],
           NEW b \in B, BranchExists(store, b), NEW name \in N
    PROVE  PopVersion(CreateVersion(store, b, name), b) = store
<1> DEFINE V == [name : N, state : S]
           v == Version(name, View(store, b))
           new == CreateVersion(store, b, name)
           old == PopVersion(new, b)
<1>1. /\ store[b] \in [base : S, vers : Seq(V)]
      /\ store[b].vers \in Seq(V)
  BY LiveBranch DEF BranchExists
<1>2. v \in V
  BY ViewType DEF Version
<1>3. /\ new \in [B -> BranchOf(N, S)]
      /\ new[b] = [store[b] EXCEPT !.vers = Append(store[b].vers, v)]
      /\ \A c \in B : c # b => new[c] = store[c]
  <2>1. new \in [B -> BranchOf(N, S)] /\ \A c \in B : c # b => new[c] = store[c]
    BY CreateVersionType
  <2> QED BY <2>1 DEF CreateVersion
<1>4. SubSeq(Append(store[b].vers, v), 1, Len(store[b].vers)) = store[b].vers
  <2> DEFINE s == store[b].vers
             t == Append(s, v)
  <2>1. /\ t \in Seq(V)
        /\ Len(t) = Len(s) + 1
        /\ \A i \in 1..Len(s) : t[i] = s[i]
    BY <1>1, <1>2, AppendProperties
  <2>2. Len(s) \in Nat /\ s \in [1..Len(s) -> V]
    BY <1>1, LenProperties
  <2>3. \A i \in 1..Len(s) : t[i] \in V
    BY <2>1, <2>2
  <2> HIDE DEF s, t
  <2>4. SubSeq(t, 1, Len(s)) = [i \in 1..Len(s) |-> t[i]]
    BY <2>1, <2>2
  <2>5. SubSeq(t, 1, Len(s)) = s
    BY <2>1, <2>2, <2>4
  <2> QED BY <2>5 DEF s, t
<1>5. Len(Append(store[b].vers, v)) - 1 = Len(store[b].vers)
  BY <1>1, <1>2, AppendProperties, LenProperties
<1>6. new[b].vers = Append(store[b].vers, v)
  BY <1>1, <1>3
<1>7. old[b] = [new[b] EXCEPT !.vers = store[b].vers]
  BY <1>3, <1>4, <1>5, <1>6 DEF PopVersion
<1>8. old[b] = store[b]
  BY <1>1, <1>3, <1>7
<1>9. \A c \in B : c # b => old[c] = store[c]
  BY <1>3 DEF PopVersion
<1>10. DOMAIN old = B /\ old = [c \in B |-> old[c]]
  BY <1>3 DEF PopVersion
<1> QED BY <1>8, <1>9, <1>10

(* A write changes the newest version of its branch, and what it shows.    *)
LEMMA WriteType ==
    ASSUME NEW B, NEW N, NEW S, NEW store \in [B -> BranchOf(N, S)],
           NEW b \in B, CanWrite(store, b), NEW state \in S
    PROVE  LET new == Write(store, b, state)
           IN  /\ new \in [B -> BranchOf(N, S)]
               /\ \A c \in B : c # b => new[c] = store[c]
               /\ BranchExists(new, b)
               /\ Len(new[b].vers) = Len(store[b].vers)
               /\ \A i \in 1..Len(store[b].vers) :
                     new[b].vers[i].name = store[b].vers[i].name
               /\ HasVersions(new, b)
               /\ View(new, b) = state
<1> DEFINE V == [name : N, state : S]
           s == store[b].vers
           t == [s EXCEPT ![Len(s)] = [s[Len(s)] EXCEPT !.state = state]]
           new == Write(store, b, state)
<1>1. BranchExists(store, b) /\ HasVersions(store, b)
  BY DEF CanWrite
<1>2. store[b] \in [base : S, vers : Seq(V)] /\ s \in Seq(V)
  BY <1>1, LiveBranch DEF BranchExists
<1>3. Len(s) \in Nat /\ s \in [1..Len(s) -> V] /\ Len(s) # 0
  BY <1>1, <1>2, LenProperties, EmptySeq DEF HasVersions
<1>4. s[Len(s)] \in V
  BY <1>3
<1>5. [s[Len(s)] EXCEPT !.state = state] \in V
  BY <1>4
<1>6. t \in Seq(V) /\ Len(t) = Len(s)
  BY <1>2, <1>3, <1>5, ExceptSeq
<1>7. /\ t[Len(s)] = [s[Len(s)] EXCEPT !.state = state]
      /\ \A i \in 1..Len(s) : i # Len(s) => t[i] = s[i]
  BY <1>3
<1>8. /\ t[Len(s)].state = state
      /\ \A i \in 1..Len(s) : t[i].name = s[i].name
  BY <1>3, <1>4, <1>7
<1>9. new[b] = [store[b] EXCEPT !.vers = t]
  BY DEF Write
<1> HIDE DEF t
<1>10. new[b] \in [base : S, vers : Seq(V)] /\ new[b].vers = t
  BY <1>2, <1>6, <1>9
<1>11. new \in [B -> BranchOf(N, S)] /\ \A c \in B : c # b => new[c] = store[c]
  BY <1>9, <1>10 DEF Write, BranchOf
<1>12. BranchExists(new, b) /\ HasVersions(new, b)
  <2>1. t # <<>>
    BY <1>3, <1>6, EmptySeq
  <2> QED BY <1>10, <2>1 DEF BranchExists, HasVersions, NoBranch
<1>13. View(new, b) = state
  BY <1>6, <1>8, <1>10, <1>12 DEF View
<1> QED BY <1>6, <1>8, <1>10, <1>11, <1>12, <1>13

(* A new branch shows what its parent shows and has no version of its own. *)
LEMMA CreateBranchType ==
    ASSUME NEW B, NEW N, NEW S, NEW store \in [B -> BranchOf(N, S)],
           NEW b \in B, NEW parent \in B, BranchExists(store, parent)
    PROVE  LET new == CreateBranch(store, b, parent)
           IN  /\ new \in [B -> BranchOf(N, S)]
               /\ \A c \in B : c # b => new[c] = store[c]
               /\ BranchExists(new, b)
               /\ new[b].vers = <<>>
               /\ View(new, b) = View(store, parent)
<1> DEFINE V == [name : N, state : S]
           new == CreateBranch(store, b, parent)
<1>1. View(store, parent) \in S
  BY ViewType
<1>2. new[b] = [base |-> View(store, parent), vers |-> <<>>]
  BY DEF CreateBranch, Branch
<1>3. <<>> \in Seq(V)
  BY EmptySeq
<1>4. new[b] \in [base : S, vers : Seq(V)]
  BY <1>1, <1>2, <1>3
<1>5. new \in [B -> BranchOf(N, S)] /\ \A c \in B : c # b => new[c] = store[c]
  BY <1>4 DEF CreateBranch, BranchOf
<1>6. BranchExists(new, b) /\ new[b].vers = <<>> /\ new[b].base = View(store, parent)
  <2> DEFINE br == [base |-> View(store, parent), vers |-> <<>>]
  <2>1. new[b] = br
    BY <1>2
  <2>2. br # NoBranch /\ br.vers = <<>> /\ br.base = View(store, parent)
    BY DEF NoBranch
  <2> QED BY <2>1, <2>2 DEF BranchExists
<1>7. View(new, b) = View(store, parent)
  BY <1>6 DEF View, HasVersions
<1> QED BY <1>5, <1>6, <1>7

(* A removed branch is gone, and nothing else is.                          *)
LEMMA RemoveBranchType ==
    ASSUME NEW B, NEW N, NEW S, NEW store \in [B -> BranchOf(N, S)], NEW b \in B
    PROVE  LET new == RemoveBranch(store, b)
           IN  /\ new \in [B -> BranchOf(N, S)]
               /\ \A c \in B : c # b => new[c] = store[c]
               /\ ~BranchExists(new, b)
BY DEF RemoveBranch, BranchOf, BranchExists

(* A merge appends the versions of the child to those of its parent, and   *)
(* the child is gone.                                                      *)
LEMMA MergeType ==
    ASSUME NEW B, NEW N, NEW S, NEW store \in [B -> BranchOf(N, S)],
           NEW b \in B, NEW parent \in B, b # parent, CanMerge(store, b, parent),
           NEW new, new = MergeToParent(store, b, parent)
    PROVE  /\ new \in [B -> BranchOf(N, S)]
           /\ \A c \in B : c # b /\ c # parent => new[c] = store[c]
           /\ ~BranchExists(new, b)
           /\ BranchExists(new, parent)
           /\ new[parent].vers = store[parent].vers \o store[b].vers
<1> DEFINE V == [name : N, state : S]
           joined == store[parent].vers \o store[b].vers
<1>1. /\ store[b] \in [base : S, vers : Seq(V)]
      /\ store[parent] \in [base : S, vers : Seq(V)]
  BY LiveBranch DEF CanMerge, BranchExists
<1>2. joined \in Seq(V)
  BY <1>1, ConcatProperties
<1>3. new[parent] = [store[parent] EXCEPT !.vers = joined] /\ new[b] = NoBranch
  BY DEF MergeToParent
<1>4. new[parent] \in [base : S, vers : Seq(V)] /\ new[parent].vers = joined
  BY <1>1, <1>2, <1>3
<1>5. /\ new \in [B -> BranchOf(N, S)]
      /\ \A c \in B : c # b /\ c # parent => new[c] = store[c]
  BY <1>3, <1>4 DEF MergeToParent, BranchOf
<1>6. ~BranchExists(new, b) /\ BranchExists(new, parent)
  BY <1>3, <1>4 DEF BranchExists, NoBranch
<1> QED BY <1>4, <1>5, <1>6

(* After a merge the parent shows what the child showed, if the child had  *)
(* a version.                                                              *)
LEMMA MergeView ==
    ASSUME NEW B, NEW N, NEW S, NEW store \in [B -> BranchOf(N, S)],
           NEW b \in B, NEW parent \in B, b # parent, CanMerge(store, b, parent),
           HasVersions(store, b)
    PROVE  /\ HasVersions(MergeToParent(store, b, parent), parent)
           /\ View(MergeToParent(store, b, parent), parent) = View(store, b)
<1> DEFINE V == [name : N, state : S]
           s == store[parent].vers
           t == store[b].vers
           new == MergeToParent(store, b, parent)
<1>1. /\ store[b] \in [base : S, vers : Seq(V)]
      /\ store[parent] \in [base : S, vers : Seq(V)]
  BY LiveBranch DEF CanMerge, BranchExists
<1>2. new[parent] = [store[parent] EXCEPT !.vers = s \o t]
  BY DEF MergeToParent
<1>3. s \in Seq(V) /\ t \in Seq(V) /\ t # <<>> /\ new[parent].vers = s \o t
  BY <1>1, <1>2 DEF HasVersions
<1>4. View(store, b) = t[Len(t)].state
  BY DEF View
<1> HIDE DEF s, t, V, new
<1>5. /\ Len(s) \in Nat /\ Len(t) \in Nat \ {0}
      /\ Len(s \o t) = Len(s) + Len(t)
      /\ (s \o t)[Len(s) + Len(t)] = t[Len(t)]
  <2>1. Len(s) \in Nat /\ Len(t) \in Nat /\ Len(t) # 0
    BY <1>3, LenProperties, EmptySeq
  <2>2. /\ Len(s \o t) = Len(s) + Len(t)
        /\ \A i \in 1..Len(s) + Len(t) :
                (s \o t)[i] = IF i <= Len(s) THEN s[i] ELSE t[i - Len(s)]
    BY <1>3, ConcatProperties
  <2>3. Len(s) + Len(t) \in 1..Len(s) + Len(t) /\ ~(Len(s) + Len(t) <= Len(s))
        /\ Len(s) + Len(t) - Len(s) = Len(t)
    BY <2>1
  <2> QED BY <2>1, <2>2, <2>3
<1>6. s \o t # <<>>
  BY <1>5, EmptySeq
<1> QED BY <1>3, <1>4, <1>5, <1>6 DEF View, HasVersions, new

-----------------------------------------------------------------------------
(* Funds.                                                                  *)

Balances(st) == [a \in Addr |-> st.accounts[a].balance]

LEMMA SupplySum ==
    ASSUME NEW st
    PROVE  Supply(st) = SumOf(Balances(st), Addr)
<1> DEFINE f == Balances(st)
           left(g) == [s \in SUBSET Addr |->
                         IF s = {} THEN 0
                         ELSE st.accounts[CHOOSE x \in s : TRUE].balance
                                + g[s \ {CHOOSE x \in s : TRUE}]]
           right(g) == [s \in SUBSET Addr |->
                          IF s = {} THEN 0
                          ELSE f[CHOOSE x \in s : TRUE] + g[s \ {CHOOSE x \in s : TRUE}]]
<1>1. \A g : left(g) = right(g)
  BY DEF Balances
<1>2. (CHOOSE g : g = left(g)) = CHOOSE g : g = right(g)
  <2> HIDE DEF left, right
  <2> QED BY <1>1
<1> QED BY <1>2 DEF Supply, SumOf, MapThenSumSet, MapThenFoldSet

(* A sum when one of its terms changes.                                    *)
LEMMA FundsMove ==
    ASSUME NEW f, NEW g, NEW a \in Addr, NEW d \in Int,
           \A c \in Addr : f[c] \in Int, g[a] = f[a] + d,
           \A c \in Addr : c # a => g[c] = f[c]
    PROVE  /\ SumOf(g, Addr) = SumOf(f, Addr) + d
           /\ SumOf(f, Addr) \in Int
<1>1. IsFiniteSet(Addr)
  BY AddrAssumption
<1>2. g[a] \in Int /\ f[a] \in Int
  OBVIOUS
<1>3. /\ SumOf(f, Addr) = f[a] + SumOf(f, Addr \ {a})
      /\ SumOf(f, Addr \ {a}) \in Int
  BY <1>1, SumRemove
<1>4. \A c \in Addr : g[c] \in Int
  BY <1>2
<1>5. SumOf(g, Addr) = g[a] + SumOf(g, Addr \ {a})
  BY <1>1, <1>4, SumRemove
<1>6. SumOf(f, Addr \ {a}) = SumOf(g, Addr \ {a})
  BY SumCongruence
<1> DEFINE others == SumOf(f, Addr \ {a})
<1>7. /\ others \in Int /\ SumOf(f, Addr) = f[a] + others
      /\ SumOf(g, Addr) = f[a] + d + others
  BY <1>3, <1>5, <1>6
<1> HIDE DEF others
<1> QED BY <1>2, <1>7

LEMMA BalancesNat ==
    ASSUME NEW st \in EvmState
    PROVE  /\ \A a \in Addr : /\ Balances(st)[a] = st.accounts[a].balance
                             /\ st.accounts[a].balance \in Nat
           /\ Supply(st) \in Nat
           /\ \A a \in Addr : st.accounts[a].balance =< Supply(st)
<1>1. \A a \in Addr : Balances(st)[a] = st.accounts[a].balance /\ st.accounts[a].balance \in Nat
  BY DEF Balances, EvmState, Account
<1>2. SumOf(Balances(st), Addr) \in Nat
  BY <1>1, AddrAssumption, SumNat
<1>3. \A a \in Addr : Balances(st)[a] =< SumOf(Balances(st), Addr)
  BY <1>1, AddrAssumption, SumCovers
<1> QED BY <1>1, <1>2, <1>3, SupplySum

(* Whoever owns something has an account, and nobody owns more than there  *)
(* was in the beginning.                                                   *)
OwnersKnown(st) ==
    \A a \in Addr : st.accounts[a].balance # 0 => a \in st.known

SupplyHeld(st) == Supply(st) =< Supply(GenesisState)

GoodState == {st \in EvmState : OwnersKnown(st) /\ SupplyHeld(st)}

LEMMA GenesisGood == GenesisState \in GoodState
<1>1. DefaultVicinity \in Vicinity
  BY DEF DefaultVicinity, Vicinity
<1>2. \A a \in Addr : Genesis[a] \in Nat
  BY ConstantsAssumption
<1>3. GenesisState.accounts \in [Addr -> Account]
  BY <1>2 DEF GenesisState, Account
<1>4. GenesisState \in EvmState
  BY <1>1, <1>3 DEF GenesisState, EvmState
<1>5. OwnersKnown(GenesisState)
  BY <1>2 DEF OwnersKnown, GenesisState
<1>6. SupplyHeld(GenesisState)
  BY <1>4, BalancesNat DEF SupplyHeld
<1> QED BY <1>4, <1>5, <1>6 DEF GoodState

LEMMA GoodFunds ==
    ASSUME NEW st \in GoodState
    PROVE  /\ st \in EvmState
           /\ Supply(st) \in Nat /\ Supply(st) =< MaxU256
           /\ Supply(st) =< Supply(GenesisState) /\ Supply(GenesisState) \in Nat
           /\ MaxU256 \in Nat
<1>1. st \in EvmState /\ Supply(st) =< Supply(GenesisState) /\ GenesisState \in EvmState
  BY GenesisGood DEF GoodState, SupplyHeld
<1>2. Supply(st) \in Nat /\ Supply(GenesisState) \in Nat
  BY <1>1, BalancesNat
<1>3. Supply(GenesisState) =< MaxU256 /\ MaxU256 \in Nat
  BY SupplyAssumption, ConstantsAssumption
<1> QED BY <1>1, <1>2, <1>3

-----------------------------------------------------------------------------
(* The parts of a transaction.                                             *)

(* The fields of a submitted transaction.                                  *)
LEMMA TxFields ==
    ASSUME NEW tx \in Txs
    PROVE  /\ tx.from \in Addr /\ tx.to \in Addr
           /\ tx.price \in Nat /\ tx.limit \in Nat
           /\ tx.value \in Nat /\ tx.gas \in Nat
BY TxsAssumption DEF Tx

LEMMA ProductNat ==
    ASSUME NEW m \in Nat, NEW n \in Nat
    PROVE  /\ m * n \in Nat
           /\ m # 0 /\ n # 0 => m * n # 0
OBVIOUS

LEMMA FeeUsedNat ==
    ASSUME NEW tx \in Txs
    PROVE  FeeUsed(tx) \in Nat
BY TxFields, ProductNat DEF FeeUsed

(* The sender of an admitted transaction can pay the value and the gas up  *)
(* to the limit; if the execution costs anything the sender owns           *)
(* something; and the fee is a U256.                                       *)
LEMMA AdmissibleFunds ==
    ASSUME NEW tx \in Txs, NEW st \in GoodState, Admissible(tx, st)
    PROVE  /\ tx.price * tx.limit \in Nat
           /\ tx.price * tx.limit + tx.value =< st.accounts[tx.from].balance
           /\ tx.value =< st.accounts[tx.from].balance
           /\ FeeUsed(tx) # 0 => tx.from \in st.known
           /\ FeeUsed(tx) =< MaxU256
<1>1. /\ tx.from \in Addr /\ tx.value \in Nat /\ tx.price \in Nat /\ tx.limit \in Nat
      /\ tx.price * tx.limit \in Nat
      /\ st.accounts[tx.from].balance \in Nat
  BY TxFields, ProductNat DEF GoodState, EvmState, Account
<1>2. /\ tx.price * tx.limit + tx.value =< st.accounts[tx.from].balance
      /\ tx.limit # 0
  BY DEF Admissible, PreExec, CheckBalance, NeededAmount
<1>3. FeeUsed(tx) # 0 => tx.price * tx.limit # 0
  <2> SUFFICES ASSUME FeeUsed(tx) # 0 PROVE tx.price * tx.limit # 0
    OBVIOUS
  <2>1. tx.price # 0
    BY TxFields DEF FeeUsed
  <2> QED BY <1>1, <1>2, <2>1, ProductNat
<1>4. FeeUsed(tx) # 0 => st.accounts[tx.from].balance # 0
  BY <1>1, <1>2, <1>3
<1>5. FeeUsed(tx) =< MaxU256
  <2>1. \A p, l \in Nat : l # 0 => p =< p * l
    OBVIOUS
  <2>2. tx.price =< tx.price * tx.limit
    BY <1>1, <1>2, <2>1
  <2>3. /\ st.accounts[tx.from].balance =< Supply(st)
        /\ Supply(st) =< Supply(GenesisState)
        /\ Supply(st) \in Nat /\ Supply(GenesisState) \in Nat
    BY <1>1, GoodFunds, BalancesNat
  <2>4. tx.price =< Supply(GenesisState)
    <3> DEFINE upTo == tx.price * tx.limit
               held == Supply(st)
               first == Supply(GenesisState)
               price == tx.price
               value == tx.value
               balance == st.accounts[tx.from].balance
    <3>1. /\ price \in Nat /\ upTo \in Nat /\ value \in Nat /\ balance \in Nat
          /\ held \in Nat /\ first \in Nat
          /\ price =< upTo /\ upTo + value =< balance /\ balance =< held /\ held =< first
      BY <1>1, <1>2, <2>2, <2>3
    <3> HIDE DEF upTo, held, first, price, value, balance
    <3>2. price =< first
      BY <3>1
    <3> QED BY <3>2 DEF price, first
  <2> QED BY <2>4, SupplyAssumption
<1> QED BY <1>1, <1>2, <1>4, <1>5 DEF GoodState, OwnersKnown

(* A successful execution counts in the nonce of its sender, and moves the *)
(* value: no balance gets so large that the addition saturates.            *)
LEMMA ExecAccounts ==
    ASSUME NEW tx \in Txs, NEW st \in GoodState, NEW vicinity, Admissible(tx, st)
    PROVE  /\ Exec(tx, st, vicinity).accounts \in [Addr -> Account]
           /\ \A c \in Addr :
                /\ Exec(tx, st, vicinity).accounts[c].nonce =
                      st.accounts[c].nonce + (IF c = tx.from THEN 1 ELSE 0)
                /\ Exec(tx, st, vicinity).accounts[c].balance =
                      st.accounts[c].balance - (IF c = tx.from THEN tx.value ELSE 0)
                                             + (IF c = tx.to THEN tx.value ELSE 0)
<1> DEFINE old == st.accounts
           bumped == BumpNonce(old, tx.from)
           debited == [bumped EXCEPT ![tx.from].balance = @ - tx.value]
           new == [debited EXCEPT ![tx.to].balance = SaturatingAdd(@, tx.value)]
           left == [a \in Addr |-> debited[a].balance]
<1>1. /\ old \in [Addr -> Account]
      /\ tx.from \in Addr /\ tx.to \in Addr /\ tx.value \in Nat
      /\ tx.value =< old[tx.from].balance
  BY TxFields, AdmissibleFunds DEF GoodState, EvmState
<1>2. /\ bumped \in [Addr -> Account]
      /\ bumped[tx.from].nonce = old[tx.from].nonce + 1
      /\ bumped[tx.from].balance = old[tx.from].balance
      /\ \A a \in Addr : a # tx.from => bumped[a] = old[a]
  BY <1>1 DEF BumpNonce, Account
<1> HIDE DEF bumped
<1>3. /\ debited \in [Addr -> Account]
      /\ debited[tx.from].nonce = bumped[tx.from].nonce
      /\ debited[tx.from].balance = bumped[tx.from].balance - tx.value
      /\ \A a \in Addr : a # tx.from => debited[a] = bumped[a]
  BY <1>1, <1>2 DEF Account
<1> HIDE DEF debited
<1>4. \A a \in Addr : left[a] = debited[a].balance /\ left[a] \in Nat
  BY <1>3 DEF Account
<1>5. left[tx.to] + tx.value =< MaxU256
  <2> DEFINE f == Balances(st)
             d == 0 - tx.value
  <2>1. /\ \A a \in Addr : f[a] = old[a].balance /\ f[a] \in Int
        /\ Supply(st) = SumOf(f, Addr)
        /\ Supply(st) \in Nat /\ Supply(st) =< MaxU256 /\ MaxU256 \in Nat
    BY GoodFunds, BalancesNat, SupplySum
  <2>2. d \in Int /\ left[tx.from] = f[tx.from] + d
    BY <1>1, <1>2, <1>3, <1>4, <2>1
  <2>3. \A a \in Addr : a # tx.from => left[a] = f[a]
    BY <1>2, <1>3, <1>4, <2>1
  <2> HIDE DEF f, d, left
  <2>4. SumOf(left, Addr) = SumOf(f, Addr) + d
    BY <1>1, <2>1, <2>2, <2>3, FundsMove
  <2>5. left[tx.to] =< SumOf(left, Addr)
    BY <1>1, <1>4, AddrAssumption, SumCovers
  <2>6. left[tx.to] \in Nat /\ tx.value \in Nat /\ left[tx.to] =< Supply(st) + d
    BY <1>1, <1>4, <2>1, <2>4, <2>5
  <2> QED BY <2>1, <2>6 DEF d
<1>6. debited[tx.to].balance + tx.value =< MaxU256
  BY <1>1, <1>4, <1>5
<1>7. SaturatingAdd(debited[tx.to].balance, tx.value) = debited[tx.to].balance + tx.value
  BY <1>6 DEF SaturatingAdd
<1>8. new = [debited EXCEPT ![tx.to].balance = debited[tx.to].balance + tx.value]
  BY <1>7
<1> HIDE DEF left
<1>9. /\ new \in [Addr -> Account]
      /\ new[tx.to].nonce = debited[tx.to].nonce
      /\ new[tx.to].balance = debited[tx.to].balance + tx.value
      /\ \A a \in Addr : a # tx.to => new[a] = debited[a]
  <2> HIDE DEF new
  <2> QED BY <1>1, <1>3, <1>8 DEF Account
<1>10. Exec(tx, st, vicinity).accounts = new
  BY DEF Exec, Transfer, bumped, debited
<1> HIDE DEF new, old
<1> SUFFICES ASSUME NEW c \in Addr
             PROVE  /\ new[c].nonce = old[c].nonce + (IF c = tx.from THEN 1 ELSE 0)
                    /\ new[c].balance =
                          old[c].balance - (IF c = tx.from THEN tx.value ELSE 0)
                                         + (IF c = tx.to THEN tx.value ELSE 0)
  BY <1>9, <1>10 DEF old
<1>11. /\ old[c].nonce \in Nat /\ old[c].balance \in Nat
       /\ bumped[c].nonce \in Nat /\ bumped[c].balance \in Nat
       /\ debited[c].nonce \in Nat /\ debited[c].balance \in Nat
  BY <1>1, <1>2, <1>3 DEF Account
<1>12. /\ bumped[c].nonce = old[c].nonce + (IF c = tx.from THEN 1 ELSE 0)
       /\ bumped[c].balance = old[c].balance
  BY <1>2, <1>11
<1>13. /\ debited[c].nonce = bumped[c].nonce
       /\ debited[c].balance = bumped[c].balance - (IF c = tx.from THEN tx.value ELSE 0)
  BY <1>1, <1>3, <1>11
<1>14. /\ new[c].nonce = debited[c].nonce
       /\ new[c].balance = debited[c].balance + (IF c = tx.to THEN tx.value ELSE 0)
  BY <1>1, <1>9, <1>11
<1> QED BY <1>12, <1>13, <1>14

LEMMA ExecSupply ==
    ASSUME NEW tx \in Txs, NEW st \in GoodState, NEW vicinity, Admissible(tx, st)
    PROVE  Supply(Exec(tx, st, vicinity)) = Supply(st)
<1> DEFINE old == Balances(st)
           new == Balances(Exec(tx, st, vicinity))
           value == tx.value
           sent == [a \in Addr |-> old[a] - (IF a = tx.from THEN value ELSE 0)]
<1>1. /\ tx.from \in Addr /\ tx.to \in Addr /\ value \in Nat
      /\ \A a \in Addr : old[a] = st.accounts[a].balance /\ old[a] \in Int
  BY TxFields, GoodFunds, BalancesNat
<1>2. \A a \in Addr : new[a] = old[a] - (IF a = tx.from THEN value ELSE 0)
                                      + (IF a = tx.to THEN value ELSE 0)
  BY <1>1, ExecAccounts DEF Balances
<1>3. Supply(st) = SumOf(old, Addr) /\ Supply(Exec(tx, st, vicinity)) = SumOf(new, Addr)
  BY SupplySum
<1> HIDE DEF old, new, value
<1>4. /\ 0 - value \in Int /\ sent[tx.from] = old[tx.from] + (0 - value)
      /\ \A a \in Addr : a # tx.from => sent[a] = old[a]
      /\ \A a \in Addr : sent[a] \in Int
      /\ new[tx.to] = sent[tx.to] + value
      /\ \A a \in Addr : a # tx.to => new[a] = sent[a]
  BY <1>1, <1>2
<1> HIDE DEF sent
<1>5. SumOf(sent, Addr) = SumOf(old, Addr) + (0 - value) /\ SumOf(old, Addr) \in Int
  BY <1>1, <1>4, FundsMove
<1>6. value \in Int
  BY <1>1
<1>7. SumOf(new, Addr) = SumOf(sent, Addr) + value
  BY <1>1, <1>4, <1>6, FundsMove
<1> QED BY <1>1, <1>3, <1>5, <1>7

(* A successful execution: the nonce, the transfer (to oneself too) and    *)
(* the contract storage keep their types, and both ends become known.      *)
LEMMA ExecGood ==
    ASSUME NEW tx \in Txs, NEW st \in GoodState, NEW vicinity \in Vicinity,
           Admissible(tx, st)
    PROVE  Exec(tx, st, vicinity) \in GoodState
<1> DEFINE st2 == Exec(tx, st, vicinity)
           new == st2.accounts
<1>1. /\ st.known \in SUBSET Addr /\ st.stamped \in Vicinity
      /\ \A a \in Addr : st.accounts[a].balance # 0 => a \in st.known
      /\ \A a \in Addr : st.accounts[a].balance \in Nat
  BY DEF GoodState, EvmState, OwnersKnown, Account
<1>2. tx.from \in Addr /\ tx.to \in Addr
  BY TxFields
<1>3. new \in [Addr -> Account]
  BY ExecAccounts
<1>4. /\ st2.known = st.known \cup {tx.from, tx.to}
      /\ st2 = [known |-> st2.known, accounts |-> new, stamped |-> st2.stamped]
      /\ st2.stamped \in Vicinity
  BY <1>1 DEF Exec
<1>5. ASSUME NEW a \in Addr, new[a].balance # 0 PROVE a \in st2.known
  <2>1. a # tx.from /\ a # tx.to => new[a].balance = st.accounts[a].balance
    BY <1>1, ExecAccounts
  <2> HIDE DEF new, st2
  <2> QED BY <1>1, <1>4, <1>5, <2>1
<1>6. SupplyHeld(st2)
  BY ExecSupply DEF GoodState, SupplyHeld
<1> HIDE DEF st2
<1>7. st2 \in EvmState
  BY <1>1, <1>2, <1>3, <1>4 DEF EvmState
<1> QED BY <1>5, <1>6, <1>7 DEF GoodState, OwnersKnown, st2

(* What is taken from an account for a fee.                                *)
Taken(st, a, amount) ==
    IF amount =< st.accounts[a].balance THEN amount ELSE st.accounts[a].balance

(* A fee leaves the nonces alone and takes its amount from its payer.      *)
LEMMA ChargeFeeAccounts ==
    ASSUME NEW st \in EvmState, NEW a \in Addr, NEW amount \in Nat
    PROVE  /\ ChargeFee(st, a, amount) \in EvmState
           /\ ChargeFee(st, a, amount).known = st.known
           /\ Taken(st, a, amount) \in Nat
           /\ \A c \in Addr :
                /\ ChargeFee(st, a, amount).accounts[c].nonce = st.accounts[c].nonce
                /\ ChargeFee(st, a, amount).accounts[c].balance =
                      st.accounts[c].balance - (IF c = a THEN Taken(st, a, amount) ELSE 0)
<1> DEFINE left == SaturatingSub(st.accounts[a].balance, amount)
           accounts == [st.accounts EXCEPT ![a].balance = left]
           new == ChargeFee(st, a, amount)
<1>1. /\ st.accounts \in [Addr -> Account]
      /\ \A d \in Addr : st.accounts[d].balance \in Nat
  BY DEF EvmState, Account
<1>2. /\ Taken(st, a, amount) \in Nat /\ left \in Nat
      /\ left = st.accounts[a].balance - Taken(st, a, amount)
      /\ amount = 0 => Taken(st, a, amount) = 0
  BY <1>1 DEF Taken, SaturatingSub
<1>3. CASE amount = 0
  <2>1. new = st
    BY <1>3 DEF ChargeFee
  <2> HIDE DEF new
  <2>2. \A c \in Addr :
           st.accounts[c].balance =
             st.accounts[c].balance - (IF c = a THEN Taken(st, a, amount) ELSE 0)
    BY <1>1, <1>2, <1>3
  <2> QED BY <1>2, <2>1, <2>2 DEF new
<1>4. CASE amount # 0
  <2>1. new = [st EXCEPT !.accounts = accounts]
    BY <1>4 DEF ChargeFee
  <2> HIDE DEF left
  <2>2. /\ accounts \in [Addr -> Account]
        /\ accounts[a].nonce = st.accounts[a].nonce /\ accounts[a].balance = left
        /\ \A d \in Addr : d # a => accounts[d] = st.accounts[d]
    BY <1>1, <1>2 DEF Account
  <2> HIDE DEF accounts, new
  <2>3. new.accounts = accounts /\ new \in EvmState /\ new.known = st.known
    BY <2>1, <2>2 DEF EvmState
  <2>4. \A c \in Addr :
           /\ accounts[c].nonce = st.accounts[c].nonce
           /\ accounts[c].balance =
                st.accounts[c].balance - (IF c = a THEN Taken(st, a, amount) ELSE 0)
    BY <1>1, <1>2, <2>2
  <2> QED BY <1>2, <2>3, <2>4 DEF new
<1> QED BY <1>3, <1>4

LEMMA ChargeFeeSupply ==
    ASSUME NEW st \in EvmState, NEW a \in Addr, NEW amount \in Nat
    PROVE  /\ Supply(ChargeFee(st, a, amount)) = Supply(st) - Taken(st, a, amount)
           /\ Supply(st) \in Nat /\ Taken(st, a, amount) \in Nat
<1> DEFINE old == Balances(st)
           new == Balances(ChargeFee(st, a, amount))
           taken == Taken(st, a, amount)
<1>1. taken \in Nat /\ 0 - taken \in Int
  BY ChargeFeeAccounts
<1>2. /\ \A c \in Addr : old[c] = st.accounts[c].balance /\ old[c] \in Int
      /\ Supply(st) \in Nat
  BY BalancesNat
<1>3. \A c \in Addr : new[c] = old[c] - (IF c = a THEN taken ELSE 0)
  BY <1>2, ChargeFeeAccounts DEF Balances
<1>4. Supply(st) = SumOf(old, Addr) /\ Supply(ChargeFee(st, a, amount)) = SumOf(new, Addr)
  BY SupplySum
<1> HIDE DEF old, new, taken
<1>5. new[a] = old[a] + (0 - taken) /\ \A c \in Addr : c # a => new[c] = old[c]
  BY <1>1, <1>2, <1>3
<1>6. SumOf(new, Addr) = SumOf(old, Addr) + (0 - taken)
  BY <1>1, <1>2, <1>5, FundsMove
<1> QED BY <1>1, <1>2, <1>4, <1>6 DEF taken

(* Taking a fee keeps the types and makes nobody richer.                   *)
LEMMA ChargeFeeGood ==
    ASSUME NEW st \in GoodState, NEW a \in Addr, NEW amount \in Nat
    PROVE  ChargeFee(st, a, amount) \in GoodState
<1> DEFINE new == ChargeFee(st, a, amount)
           taken == Taken(st, a, amount)
<1>1. /\ st \in EvmState /\ Supply(st) =< Supply(GenesisState)
      /\ \A c \in Addr : st.accounts[c].balance # 0 => c \in st.known
      /\ \A c \in Addr : st.accounts[c].balance \in Nat
  BY DEF GoodState, EvmState, OwnersKnown, SupplyHeld, Account
<1>2. /\ new \in EvmState /\ new.known = st.known /\ taken \in Nat
      /\ \A c \in Addr :
            new.accounts[c].balance = st.accounts[c].balance - (IF c = a THEN taken ELSE 0)
  BY <1>1, ChargeFeeAccounts
<1>3. taken =< st.accounts[a].balance
  BY <1>1 DEF Taken
<1>4. Supply(new) = Supply(st) - taken /\ Supply(st) \in Nat /\ Supply(GenesisState) \in Nat
  BY <1>1, ChargeFeeSupply, GoodFunds
<1> HIDE DEF new, taken
<1>5. \A c \in Addr : new.accounts[c].balance # 0 => st.accounts[c].balance # 0
  BY <1>1, <1>2, <1>3
<1>6. Supply(new) =< Supply(GenesisState)
  BY <1>1, <1>2, <1>4
<1> QED BY <1>1, <1>2, <1>5, <1>6 DEF GoodState, OwnersKnown, SupplyHeld, new

-----------------------------------------------------------------------------
(* The whole effect of a transaction.                                      *)

LEMMA OutcomeGood ==
    ASSUME NEW tx \in Txs, NEW st \in GoodState, NEW vicinity \in Vicinity
    PROVE  Outcome(tx, st, vicinity) \in GoodState
<1>1. tx.from \in Addr /\ FeeUsed(tx) \in Nat
  BY TxFields, FeeUsedNat
<1>2. CASE ~Admissible(tx, st)
  BY <1>2 DEF Outcome
<1>3. CASE Admissible(tx, st)
  <2> DEFINE done == IF ExecSucceeds(tx) THEN Exec(tx, st, vicinity) ELSE st
  <2>1. done \in GoodState
    BY <1>3, ExecGood
  <2>2. Outcome(tx, st, vicinity) = ChargeFee(done, tx.from, FeeUsed(tx))
    BY <1>3 DEF Outcome
  <2> HIDE DEF done
  <2> QED BY <1>1, <2>1, <2>2, ChargeFeeGood
<1> QED BY <1>2, <1>3

LEMMA ChargeFeeNonces ==
    ASSUME NEW st \in GoodState, NEW a \in Addr, NEW amount \in Nat, NEW c \in Addr
    PROVE  ChargeFee(st, a, amount).accounts[c].nonce = st.accounts[c].nonce
<1>1. st \in EvmState
  BY GoodFunds
<1> QED BY <1>1, ChargeFeeAccounts

(* The nonce counts the transactions that took effect, and no others.      *)
LEMMA OutcomeNonce ==
    ASSUME NEW tx \in Txs, NEW st \in GoodState, NEW vicinity \in Vicinity, NEW c \in Addr
    PROVE  Outcome(tx, st, vicinity).accounts[c].nonce =
              st.accounts[c].nonce +
              (IF Admissible(tx, st) /\ ExecSucceeds(tx) /\ c = tx.from THEN 1 ELSE 0)
<1>1. /\ tx.from \in Addr /\ FeeUsed(tx) \in Nat
      /\ st.accounts[c].nonce \in Nat
  BY TxFields, FeeUsedNat DEF GoodState, EvmState, Account
<1>nonces. \A s \in GoodState, amount \in Nat :
              ChargeFee(s, tx.from, amount).accounts[c].nonce = s.accounts[c].nonce
  BY <1>1, ChargeFeeNonces
<1>2. CASE ~Admissible(tx, st)
  BY <1>1, <1>2 DEF Outcome
<1>3. CASE Admissible(tx, st) /\ ~ExecSucceeds(tx)
  <2>1. Outcome(tx, st, vicinity) = ChargeFee(st, tx.from, FeeUsed(tx))
    BY <1>3 DEF Outcome
  <2>2. ChargeFee(st, tx.from, FeeUsed(tx)).accounts[c].nonce = st.accounts[c].nonce
    BY <1>1, <1>nonces
  <2> QED BY <1>1, <1>3, <2>1, <2>2
<1>4. CASE Admissible(tx, st) /\ ExecSucceeds(tx)
  <2> DEFINE done == Exec(tx, st, vicinity)
  <2>1. /\ done \in GoodState
        /\ done.accounts[c].nonce = st.accounts[c].nonce + (IF c = tx.from THEN 1 ELSE 0)
    BY <1>4, ExecGood, ExecAccounts
  <2>2. Outcome(tx, st, vicinity) = ChargeFee(done, tx.from, FeeUsed(tx))
    BY <1>4 DEF Outcome
  <2> HIDE DEF done
  <2>3. Outcome(tx, st, vicinity).accounts[c].nonce = done.accounts[c].nonce
    BY <1>1, <2>1, <2>2, <1>nonces
  <2> QED BY <1>4, <2>1, <2>3
<1> QED BY <1>2, <1>3, <1>4

-----------------------------------------------------------------------------
(* The operations of the ledger.                                           *)

(* Versions whose heights are at most h and whose positions at most n.     *)
NamesUpTo(vers, h, n) ==
    \A i \in 1..Len(vers) : vers[i].name[1] =< h /\ vers[i].name[2] =< n

Store == [BranchNames -> BranchOf(VersionNames, GoodState)]

InvStore ==
    /\ vs \in Store
    /\ BranchExists(vs, Main)
    /\ BranchExists(vs, CheckTx)

InvBlocks ==
    /\ LastBlockHeight \in Nat
    /\ DOMAIN blocks = 1..LastBlockHeight
    /\ DOMAIN blockHashes = DOMAIN blocks
    /\ \A h \in DOMAIN blocks : blocks[h] \in Block /\ blocks[h].height = h

-----------------------------------------------------------------------------
(* Small facts.                                                            *)

LEMMA BranchNamesDistinct ==
    /\ Main \in BranchNames /\ DeliverTx \in BranchNames /\ CheckTx \in BranchNames
    /\ Main # DeliverTx /\ Main # CheckTx /\ DeliverTx # CheckTx
BY DEF BranchNames, Main, DeliverTx, CheckTx

(* A name is the pair it was made from.                                    *)
LEMMA VersionNamesPairs ==
    /\ \A h, n \in Nat : /\ VsVersion(h, n) \in VersionNames
                         /\ VsVersion(h, n)[1] = h
                         /\ VsVersion(h, n)[2] = n
    /\ InitialVersion = VsVersion(0, 0)
    /\ \A h : BlockVersion(h) = VsVersion(h, 0)
BY DEF VsVersion, VersionNames, InitialVersion, BlockVersion

LEMMA LastKeyOfInterval ==
    ASSUME NEW map, NEW n \in Nat, DOMAIN map = 1..n
    PROVE  LastKey(map) = n
<1>1. CASE n = 0
  BY <1>1 DEF LastKey
<1>2. CASE n # 0
  <2>1. n \in DOMAIN map /\ \A y \in DOMAIN map : n >= y
    BY <1>2
  <2>2. \A x \in DOMAIN map : (\A y \in DOMAIN map : x >= y) => x = n
    BY <2>1
  <2>3. Max(DOMAIN map) = n
    BY <2>1, <2>2 DEF Max
  <2> QED BY <2>1, <2>3 DEF LastKey
<1> QED BY <1>1, <1>2

LEMMA NewBlockType ==
    ASSUME NEW h \in Nat, NEW p \in Proposers \cup {NoProposer}, NEW t \in Nat,
           NEW prev \in Hash
    PROVE  /\ NewBlock(h, p, t, prev) \in Block
           /\ NewBlock(h, p, t, prev).height = h
BY EmptySeq DEF NewBlock, Block, Hash

LEMMA DefaultsType ==
    /\ DefaultBlock \in Block
    /\ DefaultVicinity \in Vicinity
    /\ NewStateBranches \in [BranchNames -> StateBranch]
<1>1. DefaultBlock \in Block
  BY NewBlockType, EmptySeq DEF DefaultBlock, Hash
<1>2. DefaultVicinity \in Vicinity
  BY DEF DefaultVicinity, Vicinity
<1> QED BY <1>1, <1>2, EmptySeq DEF NewStateBranches, StateBranch

LEMMA LastBlockType ==
    ASSUME InvBlocks
    PROVE  LastBlock \in Block /\ LastBlock.height = LastBlockHeight
<1>1. CASE LastBlockHeight = 0
  BY <1>1, DefaultsType DEF LastBlock, DefaultBlock, NewBlock
<1>2. CASE LastBlockHeight # 0
  BY <1>2 DEF LastBlock, InvBlocks
<1> QED BY <1>1, <1>2

-----------------------------------------------------------------------------
(* Names.                                                                  *)

LEMMA NamesOfVersions ==
    ASSUME NEW S, NEW vers \in Seq([name : VersionNames, state : S])
    PROVE  \A i \in 1..Len(vers) : vers[i].name \in VersionNames
<1> TAKE i \in 1..Len(vers)
<1>1. vers[i] \in [name : VersionNames, state : S]
  BY ElementOfSeq
<1> QED BY <1>1

LEMMA NamesUpToAppend ==
    ASSUME NEW S, NEW vers \in Seq([name : VersionNames, state : S]),
           NEW v \in [name : VersionNames, state : S],
           NEW h \in Nat, NEW n \in Nat, NEW m \in Nat, n =< m,
           NamesUpTo(vers, h, n), v.name[1] =< h, v.name[2] =< m
    PROVE  NamesUpTo(Append(vers, v), h, m)
<1> DEFINE t == Append(vers, v)
<1>1. /\ Len(t) = Len(vers) + 1 /\ Len(vers) \in Nat
      /\ \A i \in 1..Len(vers) : t[i] = vers[i]
      /\ t[Len(vers) + 1] = v
  BY AppendProperties, LenProperties
<1> SUFFICES ASSUME NEW i \in 1..Len(t)
             PROVE  t[i].name[1] =< h /\ t[i].name[2] =< m
  BY DEF NamesUpTo
<1>2. CASE i = Len(vers) + 1
  BY <1>1, <1>2
<1>3. CASE i \in 1..Len(vers)
  <2>1. t[i] = vers[i] /\ vers[i].name \in VersionNames
    BY <1>1, <1>3, NamesOfVersions
  <2>2. vers[i].name[1] =< h /\ vers[i].name[2] =< n
    BY <1>3 DEF NamesUpTo
  <2> QED BY <2>1, <2>2 DEF VersionNames
<1> QED BY <1>1, <1>2, <1>3

(* The version of the next transaction is free on its branch.              *)
LEMMA TxVersionFree ==
    ASSUME NEW b \in BranchNames, vs \in Store, BranchExists(vs, b),
           sb[b] \in StateBranch,
           NamesUpTo(vs[b].vers, sb[b].block.height, Len(sb[b].hashes))
    PROVE  /\ TxVersion(b) \in VersionNames
           /\ TxVersion(b)[1] = sb[b].block.height
           /\ TxVersion(b)[2] = Len(sb[b].hashes) + 1
           /\ ~VersionExists(vs, b, TxVersion(b))
           /\ CanCreateVersion(vs, b, TxVersion(b))
<1>1. sb[b].block.height \in Nat /\ Len(sb[b].hashes) \in Nat
  BY LenProperties DEF StateBranch, Block
<1>2. /\ TxVersion(b) \in VersionNames
      /\ TxVersion(b)[1] = sb[b].block.height
      /\ TxVersion(b)[2] = Len(sb[b].hashes) + 1
  BY <1>1, VersionNamesPairs DEF TxVersion
<1>3. \A i \in 1..Len(vs[b].vers) : vs[b].vers[i].name[2] =< Len(sb[b].hashes)
  BY DEF NamesUpTo
<1>4. \A i \in 1..Len(vs[b].vers) : vs[b].vers[i].name \in VersionNames
  <2>1. vs[b].vers \in Seq([name : VersionNames, state : GoodState])
    BY LiveBranch DEF Store, BranchExists
  <2> QED BY <2>1, NamesOfVersions
<1>5. ~VersionExists(vs, b, TxVersion(b))
  BY <1>1, <1>2, <1>3, <1>4 DEF VersionExists, VersionNames
<1> QED BY <1>2, <1>5 DEF CanCreateVersion

(* What apply_tx needs to know of its branch, and gives back.              *)
BranchReady(b) ==
    /\ vs \in Store
    /\ BranchExists(vs, b)
    /\ sb \in [BranchNames -> StateBranch]
    /\ NamesUpTo(vs[b].vers, sb[b].block.height, Len(sb[b].hashes))
    /\ panicked = FALSE

OthersUnchanged(b) ==
    /\ \A c \in BranchNames : c # b => vs'[c] = vs[c] /\ sb'[c] = sb[c]
    /\ sb'[b].block.height = sb[b].block.height
    /\ UNCHANGED <<blocks, blockHashes>>

(* What it does: its whole effect on what the branch shows, and its record *)
(* in memory if it succeeded.                                              *)
Executes(b, tx) ==
    /\ View(vs', b) = Outcome(tx, View(vs, b), sb[b].vicinity)
    /\ sb'[b] = IF Admissible(tx, View(vs, b)) /\ ExecSucceeds(tx)
                THEN Recorded(sb[b], tx)
                ELSE sb[b]
    /\ HasVersions(vs, b) => HasVersions(vs', b)

LEMMA TxVersionCreated ==
    ASSUME NEW b \in BranchNames, BranchReady(b)
    PROVE  LET new == WithTxVersion(b)
           IN  /\ new \in Store
               /\ \A c \in BranchNames : c # b => new[c] = vs[c]
               /\ BranchExists(new, b)
               /\ HasVersions(new, b)
               /\ View(new, b) = View(vs, b)
               /\ View(new, b) \in GoodState
               /\ Popped(b) = vs
               /\ NamesUpTo(new[b].vers, sb[b].block.height, Len(sb[b].hashes) + 1)
<1> DEFINE new == WithTxVersion(b)
           v == Version(TxVersion(b), View(vs, b))
<1>1. /\ TxVersion(b) \in VersionNames
      /\ TxVersion(b)[1] = sb[b].block.height
      /\ TxVersion(b)[2] = Len(sb[b].hashes) + 1
  BY TxVersionFree DEF BranchReady
<1>2. /\ new \in Store
      /\ \A c \in BranchNames : c # b => new[c] = vs[c]
      /\ BranchExists(new, b)
      /\ HasVersions(new, b)
      /\ View(new, b) = View(vs, b)
      /\ new[b].vers = Append(vs[b].vers, v)
  BY <1>1, CreateVersionType DEF WithTxVersion, BranchReady, Store
<1>3. View(vs, b) \in GoodState
  BY ViewType DEF BranchReady, Store
<1>4. Popped(b) = vs
  BY <1>1, PopCreated DEF Popped, WithTxVersion, BranchReady, Store
<1>5. NamesUpTo(new[b].vers, sb[b].block.height, Len(sb[b].hashes) + 1)
  <2>1. vs[b].vers \in Seq([name : VersionNames, state : GoodState])
    BY LiveBranch DEF BranchReady, Store, BranchExists
  <2>2. v \in [name : VersionNames, state : GoodState]
    BY <1>1, <1>3 DEF Version
  <2>3. v.name = TxVersion(b)
    BY DEF Version
  <2>4. sb[b].block.height \in Nat /\ Len(sb[b].hashes) \in Nat
    BY LenProperties DEF BranchReady, StateBranch, Block
  <2> HIDE DEF v
  <2> QED
    BY <1>1, <1>2, <2>1, <2>2, <2>3, <2>4, NamesUpToAppend DEF BranchReady
<1> QED BY <1>2, <1>3, <1>4, <1>5

-----------------------------------------------------------------------------
(* apply_tx, on either branch it runs on.                                  *)

LEMMA RecordedType ==
    ASSUME NEW branch \in StateBranch, NEW tx \in Txs
    PROVE  LET new == Recorded(branch, tx)
           IN  /\ new \in StateBranch
               /\ new.hashes = Append(branch.hashes, tx)
               /\ Len(new.hashes) = Len(branch.hashes) + 1
               /\ new.vicinity = branch.vicinity
               /\ new.block.height = branch.block.height
               /\ new.block.prev = branch.block.prev
               /\ new.block.proposer = branch.block.proposer
               /\ new.block.time = branch.block.time
               /\ new.block.txs = Append(branch.block.txs, tx)
               /\ new.block.receipts =
                     [branch.block.receipts EXCEPT ![tx] =
                        [index |-> Len(branch.hashes), gas |-> tx.gas, blockGas |-> 0]]
<1> DEFINE receipt == [index |-> Len(branch.hashes), gas |-> tx.gas, blockGas |-> 0]
           block == [branch.block EXCEPT !.txs = Append(@, tx),
                                         !.receipts[tx] = receipt]
           new == Recorded(branch, tx)
<1>1. /\ branch.block \in Block
      /\ branch.hashes \in Seq(TxHash)
      /\ branch.block.txs \in Seq(Txs)
      /\ branch.block.receipts \in [Txs -> Receipt \cup {NoReceipt}]
  BY DEF StateBranch, Block
<1>2. receipt \in Receipt
  <2>1. 0 \in BlockGases
    BY DEF BlockGases
  <2> QED BY <1>1, <2>1, TxFields, LenProperties DEF Receipt
<1>3. Append(branch.block.txs, tx) \in Seq(Txs)
  BY <1>1, AppendProperties
<1>4. [branch.block.receipts EXCEPT ![tx] = receipt] \in [Txs -> Receipt \cup {NoReceipt}]
  BY <1>1, <1>2
<1> HIDE DEF receipt
<1>5. /\ block \in Block
      /\ block.height = branch.block.height /\ block.prev = branch.block.prev
      /\ block.proposer = branch.block.proposer /\ block.time = branch.block.time
      /\ block.txs = Append(branch.block.txs, tx)
      /\ block.receipts = [branch.block.receipts EXCEPT ![tx] = receipt]
  BY <1>1, <1>3, <1>4 DEF Block
<1>6. /\ Append(branch.hashes, tx) \in Seq(TxHash)
      /\ Len(Append(branch.hashes, tx)) = Len(branch.hashes) + 1
  <2>1. tx \in TxHash
    BY DEF TxHash
  <2> QED BY <1>1, <2>1, AppendProperties
<1>7. new = [branch EXCEPT !.hashes = Append(branch.hashes, tx), !.block = block]
  BY <1>1 DEF Recorded, receipt, StateBranch, Block
<1> HIDE DEF block, new
<1>8. /\ new \in StateBranch
      /\ new.hashes = Append(branch.hashes, tx)
      /\ new.block = block
      /\ new.vicinity = branch.vicinity
  BY <1>5, <1>6, <1>7 DEF StateBranch
<1> QED BY <1>5, <1>6, <1>8 DEF new, receipt

(* A branch on which the only version was popped gets one back.            *)
LEMMA EnsureVersionType ==
    ASSUME NEW b \in BranchNames, BranchReady(b)
    PROVE  LET new == EnsureVersion(vs, b)
           IN  /\ new \in Store
               /\ \A c \in BranchNames : c # b => new[c] = vs[c]
               /\ CanWrite(new, b)
               /\ View(new, b) = View(vs, b)
               /\ NamesUpTo(new[b].vers, sb[b].block.height, Len(sb[b].hashes))
<1> DEFINE new == EnsureVersion(vs, b)
           v == Version(InitialVersion, View(vs, b))
<1>1. CASE HasVersions(vs, b)
  BY <1>1 DEF EnsureVersion, BranchReady, CanWrite
<1>2. CASE ~HasVersions(vs, b)
  <2>1. /\ InitialVersion \in VersionNames
        /\ InitialVersion[1] = 0 /\ InitialVersion[2] = 0
    BY VersionNamesPairs
  <2>2. /\ new \in Store
        /\ \A c \in BranchNames : c # b => new[c] = vs[c]
        /\ BranchExists(new, b)
        /\ HasVersions(new, b)
        /\ View(new, b) = View(vs, b)
        /\ new[b].vers = Append(vs[b].vers, v)
    BY <1>2, <2>1, CreateVersionType DEF EnsureVersion, BranchReady, Store
  <2>3. vs[b].vers \in Seq([name : VersionNames, state : GoodState])
    BY LiveBranch DEF BranchReady, Store, BranchExists
  <2>4. v \in [name : VersionNames, state : GoodState] /\ v.name = InitialVersion
    BY <2>1, ViewType DEF Version, BranchReady, Store
  <2>5. sb[b].block.height \in Nat /\ Len(sb[b].hashes) \in Nat
    BY LenProperties DEF BranchReady, StateBranch, Block
  <2> HIDE DEF v
  <2>6. NamesUpTo(new[b].vers, sb[b].block.height, Len(sb[b].hashes))
    BY <2>1, <2>2, <2>3, <2>4, <2>5, NamesUpToAppend DEF BranchReady
  <2> QED BY <2>2, <2>6 DEF CanWrite
<1> QED BY <1>1, <1>2

LEMMA NamesUpToSameNames ==
    ASSUME NEW v, NEW w, NEW h, NEW n, Len(w) = Len(v),
           \A i \in 1..Len(v) : w[i].name = v[i].name,
           NamesUpTo(v, h, n)
    PROVE  NamesUpTo(w, h, n)
BY DEF NamesUpTo

LEMMA TxRejectedKeeps ==
    ASSUME NEW b \in {DeliverTx, CheckTx}, NEW tx \in Txs, BranchReady(b),
           TxRejected(b, tx)
    PROVE  BranchReady(b)' /\ OthersUnchanged(b) /\ Executes(b, tx)
<1>1. b \in BranchNames
  BY BranchNamesDistinct
<1>2. vs' = vs /\ sb' = sb /\ panicked' = panicked /\ UNCHANGED <<blocks, blockHashes>>
  BY <1>1, TxVersionCreated DEF TxRejected
<1>3. ~Admissible(tx, View(vs, b))
  BY <1>1, TxVersionCreated, TxVersionFree DEF TxRejected, Admitted, BranchReady
<1>4. Executes(b, tx)
  BY <1>2, <1>3 DEF Executes, Outcome
<1> QED BY <1>2, <1>4 DEF BranchReady, OthersUnchanged, BranchExists

LEMMA TxFailedKeeps ==
    ASSUME NEW b \in {DeliverTx, CheckTx}, NEW tx \in Txs, BranchReady(b),
           TxFailed(b, tx)
    PROVE  BranchReady(b)' /\ OthersUnchanged(b) /\ Executes(b, tx)
<1> DEFINE store == EnsureVersion(vs, b)
           state == View(store, b)
           charged == ChargeFee(state, tx.from, FeeUsed(tx))
<1>1. b \in BranchNames /\ tx.from \in Addr /\ FeeUsed(tx) \in Nat
  BY BranchNamesDistinct, TxFields, FeeUsedNat
<1>2. /\ Popped(b) = vs
      /\ View(WithTxVersion(b), b) = View(vs, b)
      /\ View(vs, b) \in GoodState
  BY <1>1, TxVersionCreated
<1>3. /\ store \in Store
      /\ \A c \in BranchNames : c # b => store[c] = vs[c]
      /\ CanWrite(store, b)
      /\ state = View(vs, b)
      /\ NamesUpTo(store[b].vers, sb[b].block.height, Len(sb[b].hashes))
  BY <1>1, EnsureVersionType
<1>4. Admissible(tx, state)
  BY <1>2, <1>3 DEF TxFailed, Admitted
<1>5. CanCharge(state, tx.from, FeeUsed(tx))
  BY <1>2, <1>3, <1>4, AdmissibleFunds DEF CanCharge
<1>6. /\ vs' = IF FeeUsed(tx) = 0 THEN store ELSE Write(store, b, charged)
      /\ UNCHANGED <<blocks, blockHashes, sb, panicked>>
  BY <1>2, <1>3, <1>5 DEF TxFailed
<1>7. charged \in GoodState
  BY <1>1, <1>2, <1>3, ChargeFeeGood
<1>outcome. Outcome(tx, View(vs, b), sb[b].vicinity) = charged
  BY <1>3, <1>4 DEF Outcome, TxFailed
<1>free. FeeUsed(tx) = 0 => charged = state
  BY DEF ChargeFee
<1> HIDE DEF store, charged, state
<1>8. /\ vs' \in Store
      /\ \A c \in BranchNames : c # b => vs'[c] = vs[c]
      /\ BranchExists(vs', b)
      /\ HasVersions(vs', b)
      /\ View(vs', b) = charged
      /\ NamesUpTo(vs'[b].vers, sb[b].block.height, Len(sb[b].hashes))
  <2>1. CASE FeeUsed(tx) = 0
    BY <1>3, <1>6, <1>free, <2>1 DEF CanWrite, state
  <2>2. CASE FeeUsed(tx) # 0
    <3>1. vs' = Write(store, b, charged)
      BY <1>6, <2>2
    <3>2. /\ vs' \in Store
          /\ \A c \in BranchNames : c # b => vs'[c] = store[c]
          /\ BranchExists(vs', b)
          /\ HasVersions(vs', b)
          /\ View(vs', b) = charged
          /\ Len(vs'[b].vers) = Len(store[b].vers)
          /\ \A i \in 1..Len(store[b].vers) :
                vs'[b].vers[i].name = store[b].vers[i].name
      BY <1>1, <1>3, <1>7, <3>1, WriteType DEF Store
    <3> QED BY <1>3, <3>2, NamesUpToSameNames
  <2> QED BY <2>1, <2>2
<1>9. Executes(b, tx)
  BY <1>6, <1>8, <1>outcome DEF Executes, TxFailed
<1> QED BY <1>6, <1>8, <1>9 DEF BranchReady, OthersUnchanged, BranchExists

LEMMA TxAppliedKeeps ==
    ASSUME NEW b \in {DeliverTx, CheckTx}, NEW tx \in Txs, BranchReady(b),
           TxApplied(b, tx)
    PROVE  BranchReady(b)' /\ OthersUnchanged(b) /\ Executes(b, tx)
<1> DEFINE store == WithTxVersion(b)
           state == Executed(b, tx)
           charged == ChargeFee(state, tx.from, FeeUsed(tx))
<1>1. b \in BranchNames /\ tx.from \in Addr /\ FeeUsed(tx) \in Nat
  BY BranchNamesDistinct, TxFields, FeeUsedNat
<1>2. /\ store \in Store
      /\ \A c \in BranchNames : c # b => store[c] = vs[c]
      /\ BranchExists(store, b)
      /\ HasVersions(store, b)
      /\ View(store, b) \in GoodState
      /\ NamesUpTo(store[b].vers, sb[b].block.height, Len(sb[b].hashes) + 1)
  BY <1>1, TxVersionCreated
<1>same. View(store, b) = View(vs, b)
  BY <1>1, TxVersionCreated
<1>3. Admissible(tx, View(store, b))
  BY DEF TxApplied, Admitted
<1>outcome. Outcome(tx, View(vs, b), sb[b].vicinity) = charged
  BY <1>3, <1>same DEF Outcome, TxApplied, Executed
<1>4. state \in GoodState
  <2>1. sb[b].vicinity \in Vicinity
    BY <1>1 DEF BranchReady, StateBranch
  <2> QED BY <1>2, <1>3, <2>1, ExecGood DEF Executed
<1>5. CanCharge(state, tx.from, FeeUsed(tx))
  <2>1. FeeUsed(tx) =< MaxU256
    BY <1>2, <1>3, AdmissibleFunds
  <2> QED BY <2>1 DEF CanCharge, Executed, Exec
<1>6. charged \in GoodState
  BY <1>1, <1>4, ChargeFeeGood
<1>7. /\ vs' = Write(store, b, charged)
      /\ sb' = [sb EXCEPT ![b] = Recorded(sb[b], tx)]
      /\ UNCHANGED <<blocks, blockHashes, panicked>>
  BY <1>5 DEF TxApplied
<1> HIDE DEF store, charged
<1>8. /\ vs' \in Store
      /\ \A c \in BranchNames : c # b => vs'[c] = store[c]
      /\ BranchExists(vs', b)
      /\ HasVersions(vs', b)
      /\ View(vs', b) = charged
      /\ Len(vs'[b].vers) = Len(store[b].vers)
      /\ \A i \in 1..Len(store[b].vers) :
            vs'[b].vers[i].name = store[b].vers[i].name
  BY <1>1, <1>2, <1>6, <1>7, WriteType DEF Store, CanWrite
<1>9. /\ Recorded(sb[b], tx) \in StateBranch
      /\ Len(Recorded(sb[b], tx).hashes) = Len(sb[b].hashes) + 1
      /\ Recorded(sb[b], tx).block.height = sb[b].block.height
  BY <1>1, RecordedType DEF BranchReady
<1>10. /\ sb' \in [BranchNames -> StateBranch]
       /\ Len(sb'[b].hashes) = Len(sb[b].hashes) + 1
       /\ sb'[b].block.height = sb[b].block.height
       /\ sb'[b] = Recorded(sb[b], tx)
       /\ \A c \in BranchNames : c # b => sb'[c] = sb[c]
  BY <1>1, <1>7, <1>9 DEF BranchReady
<1>11. NamesUpTo(vs'[b].vers, sb'[b].block.height, Len(sb'[b].hashes))
  BY <1>2, <1>8, <1>10, NamesUpToSameNames
<1>12. Executes(b, tx)
  BY <1>3, <1>8, <1>10, <1>outcome, <1>same DEF Executes, TxApplied
<1> QED
  BY <1>2, <1>7, <1>8, <1>10, <1>11, <1>12 DEF BranchReady, OthersUnchanged, BranchExists

(* Executing a transaction never panics and stays on its own branch, where *)
(* it has the effect the abstract outcome says.                            *)
LEMMA ApplyTxKeeps ==
    ASSUME NEW b \in {DeliverTx, CheckTx}, NEW tx \in Txs, BranchReady(b),
           ApplyTx(b, tx)
    PROVE  BranchReady(b)' /\ OthersUnchanged(b) /\ Executes(b, tx)
BY TxRejectedKeeps, TxFailedKeeps, TxAppliedKeeps DEF ApplyTx

-----------------------------------------------------------------------------
(* begin_block.                                                            *)

(* Main keeps its versions, the other two start over from what it shows.   *)
LEMMA RefreshBranchesType ==
    ASSUME InvStore
    PROVE  LET new == RefreshBranches(vs)
           IN  /\ CanRefreshBranches(vs)
               /\ new \in Store
               /\ new[Main] = vs[Main]
               /\ \A b \in {DeliverTx, CheckTx} :
                     BranchExists(new, b) /\ new[b].vers = <<>>
               /\ \A b \in BranchNames : View(new, b) = View(vs, Main)
<1> USE BranchNamesDistinct DEF Store
<1> DEFINE r1 == RemoveBranch(vs, CheckTx)
           r2 == IF BranchExists(r1, DeliverTx) THEN RemoveBranch(r1, DeliverTx)
                                                ELSE r1
           r3 == CreateBranch(r2, DeliverTx, Main)
           r4 == CreateBranch(r3, CheckTx, Main)
<1>1. vs \in Store /\ BranchExists(vs, Main) /\ BranchExists(vs, CheckTx)
  BY DEF InvStore
<1>2. r1 \in Store /\ r1[Main] = vs[Main]
  BY <1>1, RemoveBranchType
<1>3. r2 \in Store /\ r2[Main] = vs[Main]
  BY <1>2, RemoveBranchType
<1> HIDE DEF r2
<1>4. BranchExists(r2, Main)
  BY <1>1, <1>3 DEF BranchExists
<1>5. /\ r3 \in Store /\ r3[Main] = vs[Main]
      /\ BranchExists(r3, DeliverTx) /\ r3[DeliverTx].vers = <<>>
      /\ View(r3, DeliverTx) = View(r2, Main)
  BY <1>3, <1>4, CreateBranchType
<1> HIDE DEF r3
<1>6. BranchExists(r3, Main)
  BY <1>1, <1>5 DEF BranchExists
<1>7. /\ r4 \in Store /\ r4[Main] = vs[Main] /\ r4[DeliverTx] = r3[DeliverTx]
      /\ BranchExists(r4, CheckTx) /\ r4[CheckTx].vers = <<>>
      /\ View(r4, CheckTx) = View(r3, Main)
  BY <1>5, <1>6, CreateBranchType
<1>8. RefreshBranches(vs) = r4
  BY DEF RefreshBranches, r2, r3
<1> HIDE DEF r4
<1>9. \A b \in BranchNames : View(r4, b) = View(vs, Main)
  BY <1>3, <1>5, <1>7 DEF View, HasVersions, BranchNames
<1> QED BY <1>1, <1>5, <1>7, <1>8, <1>9 DEF CanRefreshBranches, CanRemoveBranch, BranchExists

(* A version for block h is put on each branch.                            *)
LEMMA PrepareVersionsType ==
    ASSUME NEW store \in Store, NEW h \in Nat,
           \A b \in BranchNames : BranchExists(store, b)
    PROVE  LET new == PrepareVersions(store, h)
           IN  /\ new \in Store
               /\ \A b \in BranchNames :
                     /\ BranchExists(new, b)
                     /\ new[b].vers = Append(store[b].vers,
                                             Version(VsVersion(h, 0), View(store, b)))
                     /\ HasVersions(new, b)
                     /\ View(new, b) = View(store, b)
<1> USE BranchNamesDistinct DEF Store
<1> DEFINE name == BlockVersion(h)
           p1 == CreateVersion(store, Main, name)
           p2 == CreateVersion(p1, DeliverTx, name)
           p3 == CreateVersion(p2, CheckTx, name)
           v(b) == Version(name, View(store, b))
<1>1. name \in VersionNames /\ name = VsVersion(h, 0)
  BY VersionNamesPairs
<1> HIDE DEF name
<1>2. /\ p1 \in Store
      /\ BranchExists(p1, Main)
      /\ p1[Main].vers = Append(store[Main].vers, v(Main))
      /\ HasVersions(p1, Main) /\ View(p1, Main) = View(store, Main)
      /\ p1[DeliverTx] = store[DeliverTx] /\ p1[CheckTx] = store[CheckTx]
  BY <1>1, CreateVersionType
<1> HIDE DEF p1
<1>3. /\ BranchExists(p1, DeliverTx)
      /\ View(p1, DeliverTx) = View(store, DeliverTx)
  BY <1>2 DEF BranchExists, View, HasVersions
<1>4. /\ p2 \in Store
      /\ BranchExists(p2, DeliverTx)
      /\ p2[DeliverTx].vers = Append(store[DeliverTx].vers, v(DeliverTx))
      /\ HasVersions(p2, DeliverTx) /\ View(p2, DeliverTx) = View(p1, DeliverTx)
      /\ p2[Main] = p1[Main] /\ p2[CheckTx] = store[CheckTx]
  BY <1>1, <1>2, <1>3, CreateVersionType
<1> HIDE DEF p2
<1>5. /\ BranchExists(p2, CheckTx)
      /\ View(p2, CheckTx) = View(store, CheckTx)
  BY <1>4 DEF BranchExists, View, HasVersions
<1>6. /\ p3 \in Store
      /\ BranchExists(p3, CheckTx)
      /\ p3[CheckTx].vers = Append(store[CheckTx].vers, v(CheckTx))
      /\ HasVersions(p3, CheckTx) /\ View(p3, CheckTx) = View(p2, CheckTx)
      /\ p3[Main] = p1[Main] /\ p3[DeliverTx] = p2[DeliverTx]
  BY <1>1, <1>4, <1>5, CreateVersionType
<1>7. PrepareVersions(store, h) = p3
  BY DEF PrepareVersions, p1, p2, name
<1> HIDE DEF p3
<1>8. \A b \in BranchNames : BranchExists(p3, b) /\ p3[b].vers = Append(store[b].vers, v(b))
  BY <1>2, <1>4, <1>6 DEF BranchExists, BranchNames
<1>9. \A b \in BranchNames : HasVersions(p3, b) /\ View(p3, b) = View(store, b)
  BY <1>2, <1>3, <1>4, <1>5, <1>6 DEF View, HasVersions, BranchNames
<1> QED BY <1>1, <1>6, <1>7, <1>8, <1>9

LEMMA PreparedBranchType ==
    ASSUME InvBlocks, sb \in [BranchNames -> StateBranch], NEW b \in BranchNames, NEW p \in Proposers, NEW t \in Times
    PROVE  LET new == PreparedBranch(b, p, t)
           IN  /\ new \in StateBranch
               /\ new.hashes = <<>>
               /\ new.block.height = LastBlockHeight + 1
               /\ new.block = NewBlock(LastBlockHeight + 1, p, t, LastBlock.hash)
               /\ new.vicinity = IF b = Main
                                 THEN [number |-> LastBlockHeight, coinbase |-> p, time |-> t]
                                 ELSE sb[Main].vicinity
<1>1. /\ LastBlock \in Block /\ LastBlock.height = LastBlockHeight
      /\ LastBlockHeight \in Nat
  BY LastBlockType DEF InvBlocks
<1>2. LastBlock.hash \in Hash /\ t \in Nat
  BY <1>1, ConstantsAssumption DEF Block
<1> DEFINE block == NewBlock(1 + LastBlock.height, p, t, LastBlock.hash)
<1>3. block \in Block /\ block.height = LastBlockHeight + 1
  BY <1>1, <1>2, NewBlockType
<1>4. /\ UpdatedVicinity(p, t) \in Vicinity
      /\ UpdatedVicinity(p, t) = [number |-> LastBlockHeight, coinbase |-> p, time |-> t]
  <2>1. LastKey(blockHashes) \in Nat /\ LastKey(blockHashes) = LastBlockHeight
    BY <1>1, LastKeyOfInterval DEF InvBlocks
  <2> QED BY <1>2, <2>1 DEF UpdatedVicinity, Vicinity
<1>5. sb[Main].vicinity \in Vicinity
  BY BranchNamesDistinct DEF StateBranch
<1>7. block = NewBlock(LastBlockHeight + 1, p, t, LastBlock.hash)
  BY <1>1
<1> HIDE DEF block
<1>6. PreparedBranch(b, p, t) =
          [hashes |-> <<>>, block |-> block,
           vicinity |-> IF b = Main THEN UpdatedVicinity(p, t) ELSE sb[Main].vicinity]
  BY DEF PreparedBranch, block
<1> QED BY <1>3, <1>4, <1>5, <1>6, <1>7, EmptySeq DEF StateBranch

-----------------------------------------------------------------------------
(* commit.                                                                 *)

LEMMA InsertedKey ==
    ASSUME NEW map, NEW key, NEW value
    PROVE  /\ DOMAIN Insert(map, key, value) = DOMAIN map \cup {key}
           /\ Insert(map, key, value)[key] = value
           /\ \A k \in DOMAIN map : k # key => Insert(map, key, value)[k] = map[k]
BY DEF Insert

(* Sealing completes the receipts, the root and the hash of a block.       *)
LEMMA SealedType ==
    ASSUME NEW branch \in StateBranch
    PROVE  /\ Append(branch.hashes, EmptyHash) \in Seq(TxHash)
           /\ Sealed(branch) \in Block
           /\ Sealed(branch).height = branch.block.height
           /\ Sealed(branch).hash = HeaderHash(Sealed(branch))
           /\ Sealed(branch).prev = branch.block.prev
           /\ Sealed(branch).proposer = branch.block.proposer
           /\ Sealed(branch).time = branch.block.time
           /\ Sealed(branch).txs = branch.block.txs
           /\ Sealed(branch).root = Append(branch.hashes, EmptyHash)
           /\ Sealed(branch).receipts =
                 [tx \in Txs |->
                    IF /\ branch.block.receipts[tx] # NoReceipt
                       /\ Contains(branch.hashes, tx)
                    THEN [branch.block.receipts[tx] EXCEPT
                            !.blockGas = BlockGasUsed(branch.block.receipts)]
                    ELSE branch.block.receipts[tx]]
<1> DEFINE old == branch.block
           gas == BlockGasUsed(old.receipts)
           hashes == Append(branch.hashes, EmptyHash)
           receipts == [tx \in Txs |->
                          IF old.receipts[tx] # NoReceipt /\ Contains(branch.hashes, tx)
                          THEN [old.receipts[tx] EXCEPT !.blockGas = gas]
                          ELSE old.receipts[tx]]
           block == [old EXCEPT !.root = hashes, !.receipts = receipts]
           new == Sealed(branch)
<1>1. /\ old \in Block
      /\ branch.hashes \in Seq(TxHash)
      /\ old.receipts \in [Txs -> Receipt \cup {NoReceipt}]
  BY DEF StateBranch, Block
<1>2. gas \in BlockGases
  BY DEF BlockGasUsed, BlockGases
<1>3. hashes \in Seq(TxHash)
  <2>1. EmptyHash \in TxHash
    BY DEF TxHash
  <2> QED BY <1>1, <2>1, AppendProperties
<1> HIDE DEF gas, hashes
<1>4. receipts \in [Txs -> Receipt \cup {NoReceipt}]
  <2>1. ASSUME NEW r \in Receipt PROVE [r EXCEPT !.blockGas = gas] \in Receipt
    BY <1>2 DEF Receipt
  <2>2. \A tx \in Txs : old.receipts[tx] # NoReceipt => old.receipts[tx] \in Receipt
    BY <1>1
  <2> QED BY <1>1, <2>1, <2>2
<1> HIDE DEF old, receipts
<1>5. /\ block \in Block /\ block.height = old.height
      /\ block.root = hashes /\ block.receipts = receipts
      /\ block.prev = old.prev /\ block.txs = old.txs
      /\ block.proposer = old.proposer /\ block.time = old.time
  BY <1>1, <1>3, <1>4 DEF Block
<1>6. new = [block EXCEPT !.hash = HeaderHash(block)]
  BY DEF Sealed, old, gas, hashes, receipts
<1> HIDE DEF block, new
<1>7. HeaderHash(block) \in Hash
  <2> DEFINE header == [height |-> block.height, proposer |-> block.proposer,
                        time |-> block.time, root |-> block.root,
                        receipts |-> block.receipts]
  <2>1. header \in Header /\ block.prev \in Seq(Header)
    BY <1>5 DEF Block, Header, Hash
  <2> HIDE DEF header
  <2>2. Append(block.prev, header) \in Seq(Header)
    BY <2>1, AppendProperties
  <2> QED BY <2>2 DEF HeaderHash, Hash, header
<1>8. /\ new \in Block /\ new.height = block.height
      /\ new.hash = HeaderHash(block)
      /\ HeaderHash(new) = HeaderHash(block)
      /\ new.prev = block.prev /\ new.txs = block.txs
      /\ new.proposer = block.proposer /\ new.time = block.time
      /\ new.root = block.root /\ new.receipts = block.receipts
  <2>1. /\ new \in Block
        /\ new.height = block.height /\ new.proposer = block.proposer
        /\ new.time = block.time /\ new.prev = block.prev
        /\ new.root = block.root /\ new.receipts = block.receipts
        /\ new.hash = HeaderHash(block) /\ new.txs = block.txs
    BY <1>5, <1>6, <1>7 DEF Block
  <2> QED BY <2>1 DEF HeaderHash
<1> QED BY <1>3, <1>5, <1>8 DEF old, hashes, new, receipts, gas

-----------------------------------------------------------------------------
(* The gas of a block.                                                     *)

GasSteps(txs) == [p \in Nat \X (1..Len(txs)) |-> p[1] + txs[p[2]].gas]

LEMMA TxGasFolds ==
    ASSUME NEW txs \in Seq(Txs)
    PROVE  FoldLeftIs(Len(txs), Nat, 0, GasSteps(txs), TxGas(txs))
<1> DEFINE n == Len(txs)
           D == DOMAIN txs
           H == GasSteps(txs)
           rhs(h) == [t \in SUBSET D |->
                        IF t = {} THEN 0 ELSE h[t \ {Max(t)}] + txs[Max(t)].gas]
           iter == CHOOSE h : h = rhs(h)
<1>1. n \in Nat /\ D = 1..n /\ \A i \in 1..n : txs[i].gas \in Nat
  BY LenProperties, ElementOfSeq, TxFields
<1>2. TxGas(txs) = iter[D]
  BY DEF TxGas, FoldLeft, MapThenFoldSet
<1> HIDE DEF n, D
<1>3. /\ H \in [Nat \X (1..n) -> Nat]
      /\ \A v \in Nat, k \in 1..n : H[<<v, k>>] = v + txs[k].gas
  BY <1>1 DEF GasSteps, n
<1> HIDE DEF H
<1>4. PICK g \in [SUBSET (1..n) -> Nat] :
           \A t \in SUBSET (1..n) :
               g[t] = IF t = {} THEN 0 ELSE H[<<g[t \ {Max(t)}], Max(t)>>]
  <2>1. FoldByMaxDefined(n, Nat, 0, H)
    BY <1>1, <1>3, FoldByMaxExists
  <2> QED BY <2>1 DEF FoldByMaxDefined
<1>5. \A t \in SUBSET (1..n) : t # {} => Max(t) \in 1..n
  BY <1>1, MaxOfSubset
<1>6. \A t \in SUBSET (1..n) : t # {} => g[t] = g[t \ {Max(t)}] + txs[Max(t)].gas
  BY <1>3, <1>4, <1>5
<1>7. g = rhs(g)
  BY <1>1, <1>4, <1>6
<1>8. iter = rhs(iter)
  <2> HIDE DEF rhs
  <2> QED BY <1>7
<1>9. FoldsByMax(iter, n, Nat, 0, H)
  <2> HIDE DEF iter
  <2>1. iter[{}] = 0
    BY <1>1, <1>8
  <2>2. \A t \in SUBSET (1..n) : t # {} =>
            iter[t] = iter[t \ {Max(t)}] + txs[Max(t)].gas
    BY <1>1, <1>8
  <2> QED BY <1>3, <1>5, <2>1, <2>2 DEF FoldsByMax
<1> HIDE DEF iter
<1>10. FoldLeftIs(n, Nat, 0, H, iter[1..n])
  BY <1>1, <1>3, <1>9, FoldByPrefixes
<1> QED BY <1>1, <1>2, <1>10 DEF n, H

LEMMA TxGasEmpty == TxGas(<<>>) = 0
<1>1. <<>> \in Seq(Txs) /\ Len(<<>>) = 0
  BY EmptySeq
<1>2. FoldLeftIs(0, Nat, 0, GasSteps(<<>>), TxGas(<<>>))
  BY <1>1, TxGasFolds
<1> QED BY <1>2, FoldOfNone

LEMMA TxGasAppend ==
    ASSUME NEW txs \in Seq(Txs), NEW tx \in Txs
    PROVE  TxGas(Append(txs, tx)) = TxGas(txs) + tx.gas
<1> DEFINE n == Len(txs)
           long == Append(txs, tx)
           H == GasSteps(txs)
           J == GasSteps(long)
<1>1. /\ n \in Nat /\ long \in Seq(Txs) /\ Len(long) = n + 1 /\ long[n + 1] = tx
      /\ \A i \in 1..n : long[i] = txs[i]
  BY AppendProperties, LenProperties
<1> HIDE DEF long
<1>2. FoldLeftIs(n, Nat, 0, H, TxGas(txs)) /\ FoldLeftIs(n + 1, Nat, 0, J, TxGas(long))
  BY <1>1, TxGasFolds
<1> HIDE DEF n
<1>3. \A v \in Nat, k \in 1..n : H[<<v, k>>] = J[<<v, k>>]
  <2>1. \A k \in 1..n : k \in 1..(n + 1)
    BY <1>1
  <2> QED BY <1>1, <2>1 DEF GasSteps, n
<1>4. \A v \in Nat : J[<<v, n + 1>>] = v + tx.gas
  <2>1. n + 1 \in 1..(n + 1)
    BY <1>1
  <2> QED BY <1>1, <2>1 DEF GasSteps
<1> HIDE DEF H, J
<1>5. TxGas(long) = J[<<TxGas(txs), n + 1>>] /\ TxGas(txs) \in Nat
  BY <1>1, <1>2, <1>3, FoldOfMore
<1> QED BY <1>4, <1>5 DEF long

(* No transaction uses more than its block.                                *)
LEMMA GasWithinBlock ==
    ASSUME NEW txs \in Seq(Txs), NEW i \in 1..Len(txs)
    PROVE  txs[i].gas =< TxGas(txs)
<1> DEFINE n == Len(txs)
<1>1. /\ n \in Nat /\ i \in 1..n
      /\ \A k \in 1..n : txs[k].gas \in Nat
  BY LenProperties, ElementOfSeq, TxFields
<1>2. PICK F : FoldsLeft(F, n, Nat, 0, GasSteps(txs)) /\ F[n] = TxGas(txs)
  BY TxGasFolds DEF FoldLeftIs
<1>3. \A k \in 1..n : F[k - 1] \in Nat /\ F[k] = F[k - 1] + txs[k].gas
  <2> SUFFICES ASSUME NEW k \in 1..n
               PROVE  F[k - 1] \in Nat /\ F[k] = F[k - 1] + txs[k].gas
    OBVIOUS
  <2>1. k - 1 \in 0..n
    BY <1>1
  <2>2. F[k - 1] \in Nat /\ F[k] = GasSteps(txs)[<<F[k - 1], k>>]
    BY <1>2, <2>1 DEF FoldsLeft
  <2> QED BY <2>2 DEF GasSteps
<1> HIDE DEF n
<1> DEFINE N == {k \in Nat : i =< k /\ k =< n => txs[i].gas =< F[k]}
<1>4. 0 \in N
  BY <1>1
<1>5. ASSUME NEW k \in Nat, k \in N
      PROVE  k + 1 \in N
  <2> SUFFICES ASSUME i =< k + 1, k + 1 =< n PROVE txs[i].gas =< F[k + 1]
    OBVIOUS
  <2>1. k + 1 \in 1..n /\ (k + 1) - 1 = k
    BY <1>1
  <2>2. /\ F[k] \in Nat /\ F[k + 1] = F[k] + txs[k + 1].gas
        /\ txs[k + 1].gas \in Nat /\ txs[i].gas \in Nat
    BY <1>1, <1>3, <2>1
  <2>3. CASE i = k + 1
    BY <2>2, <2>3
  <2>4. CASE i # k + 1
    <3>1. txs[i].gas =< F[k]
      BY <1>1, <1>5, <2>1, <2>4
    <3> QED BY <2>2, <3>1
  <2> QED BY <2>3, <2>4
<1>6. Nat \subseteq N
  <2> HIDE DEF N
  <2> QED BY <1>4, <1>5, NatSetInduction
<1>7. n \in N /\ i =< n /\ n =< n
  BY <1>1, <1>6
<1> QED BY <1>2, <1>7

(* The gas summed over the receipts is the one summed over the block.      *)
LEMMA GasOfSum ==
    ASSUME NEW S \in SUBSET Txs
    PROVE  GasOf(S) = SumOf([tx \in Txs |-> tx.gas], S)
<1> DEFINE f == [tx \in Txs |-> tx.gas]
           left(g) == [s \in SUBSET S |->
                         IF s = {} THEN 0
                         ELSE (CHOOSE x \in s : TRUE).gas + g[s \ {CHOOSE x \in s : TRUE}]]
           right(g) == [s \in SUBSET S |->
                          IF s = {} THEN 0
                          ELSE f[CHOOSE x \in s : TRUE] + g[s \ {CHOOSE x \in s : TRUE}]]
<1>1. \A g : left(g) = right(g)
  OBVIOUS
<1>2. (CHOOSE g : g = left(g)) = CHOOSE g : g = right(g)
  <2> HIDE DEF left, right
  <2> QED BY <1>1
<1> QED BY <1>2 DEF GasOf, SumOf, MapThenSumSet, MapThenFoldSet

LEMMA GasOfAdd ==
    ASSUME NEW S \in SUBSET Txs, IsFiniteSet(S), NEW tx \in Txs, tx \notin S
    PROVE  GasOf(S \cup {tx}) = GasOf(S) + tx.gas
<1> DEFINE f == [x \in Txs |-> x.gas]
<1>1. f[tx] = tx.gas /\ \A x \in S \cup {tx} : f[x] \in Int
  BY TxFields
<1>2. /\ GasOf(S) = SumOf(f, S)
      /\ GasOf(S \cup {tx}) = SumOf(f, S \cup {tx})
  BY GasOfSum
<1> HIDE DEF f
<1>3. /\ SumOf(f, S \cup {tx}) = f[tx] + SumOf(f, S)
      /\ SumOf(f, S) \in Int
  BY <1>1, SumAdd
<1>4. f[tx] \in Int
  BY <1>1
<1> QED BY <1>1, <1>2, <1>3, <1>4

-----------------------------------------------------------------------------
(* Receipts.                                                               *)

(* The record of an open block: what its receipts are before it is sealed. *)
RecordComplete(branch) ==
    LET txs      == branch.block.txs
        receipts == branch.block.receipts
    IN  /\ branch.hashes = txs
        /\ {tx \in Txs : receipts[tx] # NoReceipt} = Range(txs)
        /\ IsFiniteSet(Range(txs))
        /\ GasOf(Range(txs)) = TxGas(txs)
        /\ \A i \in 1..Len(txs) :
             receipts[txs[i]] = [index |-> i - 1, gas |-> txs[i].gas, blockGas |-> 0]

(* No transaction of the block could be admitted again.                    *)
NoncesUsed(txs, st) == \A tx \in Range(txs) : tx.nonce < st.accounts[tx.from].nonce

(* A nonce that is used stays so, whatever is executed.                    *)
LEMMA NoncesStayUsed ==
    ASSUME NEW txs \in Seq(Txs), NEW st \in GoodState, NEW tx \in Txs,
           NEW vicinity \in Vicinity, NoncesUsed(txs, st)
    PROVE  NoncesUsed(txs, Outcome(tx, st, vicinity))
<1> DEFINE new == Outcome(tx, st, vicinity)
<1> SUFFICES ASSUME NEW x \in Range(txs) PROVE x.nonce < new.accounts[x.from].nonce
  BY DEF NoncesUsed
<1>1. x \in Txs
  BY LenProperties, ElementOfSeq DEF Range
<1>2. x.from \in Addr /\ x.nonce \in Nat
  BY <1>1, TxsAssumption DEF Tx
<1>3. st.accounts[x.from].nonce \in Nat /\ x.nonce < st.accounts[x.from].nonce
  BY <1>2 DEF NoncesUsed, GoodState, EvmState, Account
<1>4. \/ new.accounts[x.from].nonce = st.accounts[x.from].nonce
      \/ new.accounts[x.from].nonce = st.accounts[x.from].nonce + 1
  BY <1>2, <1>3, OutcomeNonce
<1> HIDE DEF new
<1> QED BY <1>2, <1>3, <1>4

(* A transaction that takes effect is none of those whose nonces are used, *)
(* and uses its own.                                                       *)
LEMMA AdmittedIsNew ==
    ASSUME NEW st \in GoodState, NEW tx \in Txs, NEW vicinity \in Vicinity,
           Admissible(tx, st), ExecSucceeds(tx)
    PROVE  /\ \A txs : NoncesUsed(txs, st) => tx \notin Range(txs)
           /\ tx.nonce < Outcome(tx, st, vicinity).accounts[tx.from].nonce
           /\ tx.kind = "evm"
<1> DEFINE new == Outcome(tx, st, vicinity)
<1>1. tx.from \in Addr /\ tx.nonce \in Nat
  BY TxsAssumption DEF Tx
<1>2. tx.nonce = st.accounts[tx.from].nonce /\ tx.kind = "evm"
  BY DEF Admissible, PreExec, CheckNonce
<1>3. new.accounts[tx.from].nonce = st.accounts[tx.from].nonce + 1
  BY <1>1, OutcomeNonce
<1> HIDE DEF new
<1>4. tx.nonce < new.accounts[tx.from].nonce
  BY <1>1, <1>2, <1>3
<1>5. \A txs : NoncesUsed(txs, st) => tx \notin Range(txs)
  BY <1>1, <1>2 DEF NoncesUsed
<1> QED BY <1>2, <1>4, <1>5 DEF new

LEMMA ReceiptIsOne ==
    ASSUME NEW i, NEW g, NEW b
    PROVE  [index |-> i, gas |-> g, blockGas |-> b] # NoReceipt
<1>1. "index" \in DOMAIN [index |-> i, gas |-> g, blockGas |-> b]
  OBVIOUS
<1>2. "index" \notin DOMAIN NoReceipt
  BY DEF NoReceipt
<1> QED BY <1>1, <1>2

LEMMA RangeAppended ==
    ASSUME NEW S, NEW seq \in Seq(S), NEW x \in S
    PROVE  /\ Range(Append(seq, x)) = Range(seq) \cup {x}
           /\ Range(seq) \in SUBSET S
<1> DEFINE n == Len(seq)
           long == Append(seq, x)
<1>1. /\ n \in Nat /\ DOMAIN seq = 1..n /\ DOMAIN long = 1..(n + 1)
      /\ long[n + 1] = x /\ \A i \in 1..n : long[i] = seq[i] /\ seq[i] \in S
  BY AppendProperties, LenProperties, ElementOfSeq
<1> HIDE DEF n, long
<1>2. 1..(n + 1) = 1..n \cup {n + 1}
  BY <1>1
<1>3. Range(long) = Range(seq) \cup {x}
  BY <1>1, <1>2 DEF Range
<1> QED BY <1>1, <1>3 DEF long, Range

LEMMA RecordStarts ==
    ASSUME NEW branch, NEW h, NEW p, NEW t, NEW prev, branch.hashes = <<>>,
           branch.block = NewBlock(h, p, t, prev), NEW st
    PROVE  RecordComplete(branch) /\ NoncesUsed(branch.block.txs, st)
<1>1. /\ branch.block.txs = <<>>
      /\ branch.block.receipts = [tx \in Txs |-> NoReceipt]
  BY DEF NewBlock
<1>2. Range(<<>>) = {} /\ Len(<<>>) = 0
  BY DEF Range
<1>3. IsFiniteSet({})
  BY FS_EmptySet
<1>4. GasOf({}) = 0
  <2>1. GasOf({}) = SumOf([tx \in Txs |-> tx.gas], {})
    BY GasOfSum
  <2> QED BY <2>1, SumEmpty
<1>5. {tx \in Txs : branch.block.receipts[tx] # NoReceipt} = {}
  BY <1>1
<1>6. RecordComplete(branch)
  <2>1. \A i \in 1..Len(branch.block.txs) : FALSE
    BY <1>1, <1>2
  <2> QED BY <1>1, <1>2, <1>3, <1>4, <1>5, <2>1, TxGasEmpty DEF RecordComplete
<1>7. NoncesUsed(branch.block.txs, st)
  BY <1>1, <1>2 DEF NoncesUsed
<1> QED BY <1>6, <1>7

LEMMA RecordGrows ==
    ASSUME NEW branch \in StateBranch, RecordComplete(branch),
           NEW tx \in Txs, tx \notin Range(branch.block.txs)
    PROVE  RecordComplete(Recorded(branch, tx))
<1> DEFINE txs == branch.block.txs
           n == Len(txs)
           receipts == branch.block.receipts
           receipt == [index |-> n, gas |-> tx.gas, blockGas |-> 0]
           new == Recorded(branch, tx)
           long == Append(txs, tx)
<1>1. /\ txs \in Seq(Txs) /\ receipts \in [Txs -> Receipt \cup {NoReceipt}]
      /\ branch.hashes = txs
  BY DEF StateBranch, Block, RecordComplete
<1>2. /\ new.hashes = long /\ new.block.txs = long
      /\ new.block.receipts = [receipts EXCEPT ![tx] = receipt]
  BY <1>1, RecordedType
<1>3. receipt # NoReceipt
  BY ReceiptIsOne
<1>4. /\ n \in Nat /\ Len(long) = n + 1 /\ long[n + 1] = tx
      /\ \A i \in 1..n : long[i] = txs[i] /\ txs[i] \in Txs /\ txs[i] \in Range(txs)
  BY <1>1, AppendProperties, LenProperties, ElementOfSeq DEF Range
<1>5. Range(long) = Range(txs) \cup {tx} /\ Range(txs) \in SUBSET Txs
  BY <1>1, RangeAppended
<1>6. /\ {x \in Txs : receipts[x] # NoReceipt} = Range(txs)
      /\ IsFiniteSet(Range(txs)) /\ GasOf(Range(txs)) = TxGas(txs)
      /\ \A i \in 1..n :
            receipts[txs[i]] = [index |-> i - 1, gas |-> txs[i].gas, blockGas |-> 0]
  BY DEF RecordComplete
<1>7. TxGas(long) = TxGas(txs) + tx.gas
  BY <1>1, TxGasAppend
<1> HIDE DEF new, long, n, txs, receipts
<1>8. {x \in Txs : new.block.receipts[x] # NoReceipt} = Range(long)
  <2> HIDE DEF receipt
  <2>1. new.block.receipts[tx] = receipt
    BY <1>1, <1>2
  <2>2. \A x \in Txs : x # tx => new.block.receipts[x] = receipts[x]
    BY <1>1, <1>2
  <2> QED BY <1>3, <1>5, <1>6, <2>1, <2>2
<1>9. IsFiniteSet(Range(long)) /\ GasOf(Range(long)) = TxGas(long)
  <2>1. tx \notin Range(txs)
    BY DEF txs
  <2>2. IsFiniteSet(Range(txs) \cup {tx})
    BY <1>6, FS_AddElement
  <2>3. GasOf(Range(txs) \cup {tx}) = GasOf(Range(txs)) + tx.gas
    BY <1>5, <1>6, <2>1, GasOfAdd
  <2> QED BY <1>5, <1>6, <1>7, <2>2, <2>3
<1>10. \A i \in 1..Len(long) :
          new.block.receipts[long[i]] =
              [index |-> i - 1, gas |-> long[i].gas, blockGas |-> 0]
  <2> SUFFICES ASSUME NEW i \in 1..Len(long)
               PROVE  new.block.receipts[long[i]] =
                        [index |-> i - 1, gas |-> long[i].gas, blockGas |-> 0]
    OBVIOUS
  <2>1. CASE i = n + 1
    <3>1. i - 1 = n
      BY <1>4, <2>1
    <3> QED BY <1>1, <1>2, <1>4, <2>1, <3>1
  <2>2. CASE i # n + 1
    <3>1. i \in 1..n
      BY <1>4, <2>2
    <3>2. long[i] = txs[i] /\ txs[i] \in Txs /\ txs[i] # tx
      BY <1>4, <3>1 DEF txs
    <3>3. new.block.receipts[txs[i]] = receipts[txs[i]]
      BY <1>1, <1>2, <3>2
    <3> QED BY <1>6, <3>1, <3>2, <3>3
  <2> QED BY <2>1, <2>2
<1> QED BY <1>2, <1>8, <1>9, <1>10 DEF RecordComplete, new

(* Sealing gives every receipt the gas of the block and nothing else.      *)
BlockReceipts(b) ==
    LET gas == TxGas(b.txs)
    IN  /\ {tx \in Txs : b.receipts[tx] # NoReceipt} = Range(b.txs)
        /\ b.root = Append(b.txs, EmptyHash)
        /\ \A i \in 1..Len(b.txs) :
             b.receipts[b.txs[i]] =
                 [index |-> i - 1, gas |-> b.txs[i].gas, blockGas |-> gas]

LEMMA RecordSealed ==
    ASSUME NEW branch \in StateBranch, RecordComplete(branch)
    PROVE  BlockReceipts(Sealed(branch))
<1> DEFINE txs == branch.block.txs
           receipts == branch.block.receipts
           gas == TxGas(txs)
           new == Sealed(branch)
<1>1. /\ txs \in Seq(Txs) /\ receipts \in [Txs -> Receipt \cup {NoReceipt}]
      /\ branch.hashes = txs
      /\ {tx \in Txs : receipts[tx] # NoReceipt} = Range(txs)
      /\ GasOf(Range(txs)) = gas
      /\ \A i \in 1..Len(txs) :
            receipts[txs[i]] = [index |-> i - 1, gas |-> txs[i].gas, blockGas |-> 0]
  BY DEF StateBranch, Block, RecordComplete
<1>2. BlockGasUsed(receipts) = gas
  BY <1>1 DEF BlockGasUsed
<1>3. /\ new.txs = txs
      /\ new.root = Append(txs, EmptyHash)
      /\ new.receipts = [tx \in Txs |->
                           IF receipts[tx] # NoReceipt /\ Contains(txs, tx)
                           THEN [receipts[tx] EXCEPT !.blockGas = gas]
                           ELSE receipts[tx]]
  BY <1>1, <1>2, SealedType
<1> HIDE DEF new, txs, receipts, gas
<1>4. \A i \in 1..Len(txs) :
         /\ txs[i] \in Txs /\ txs[i] \in Range(txs) /\ Contains(txs, txs[i])
         /\ receipts[txs[i]] # NoReceipt
  <2>1. DOMAIN txs = 1..Len(txs)
    BY <1>1, LenProperties
  <2> QED BY <1>1, <2>1, ElementOfSeq DEF Range, Contains
<1>5. ASSUME NEW i \in 1..Len(txs)
      PROVE  new.receipts[txs[i]] = [index |-> i - 1, gas |-> txs[i].gas, blockGas |-> gas]
  <2>1. new.receipts[txs[i]] = [receipts[txs[i]] EXCEPT !.blockGas = gas]
    BY <1>3, <1>4
  <2>2. receipts[txs[i]] = [index |-> i - 1, gas |-> txs[i].gas, blockGas |-> 0]
    BY <1>1
  <2> QED BY <2>1, <2>2
<1>6. {tx \in Txs : new.receipts[tx] # NoReceipt} = Range(txs)
  <2>1. ASSUME NEW tx \in Txs
        PROVE  new.receipts[tx] # NoReceipt <=> tx \in Range(txs)
    <3>1. CASE tx \in Range(txs)
      <4>1. PICK i \in 1..Len(txs) : tx = txs[i]
        BY <1>1, <3>1, LenProperties DEF Range
      <4>2. new.receipts[tx] = [index |-> i - 1, gas |-> txs[i].gas, blockGas |-> gas]
        BY <1>5, <4>1
      <4> QED BY <3>1, <4>2, ReceiptIsOne
    <3>2. CASE tx \notin Range(txs)
      BY <1>1, <1>3, <3>2
    <3> QED BY <3>1, <3>2
  <2> QED BY <1>1, <2>1, RangeAppended
<1>7. BlockReceipts(new)
  <2>1. TxGas(new.txs) = gas
    BY <1>3 DEF gas
  <2> HIDE DEF gas
  <2> QED BY <1>3, <1>5, <1>6, <2>1 DEF BlockReceipts
<1> QED BY <1>7 DEF new
=============================================================================
