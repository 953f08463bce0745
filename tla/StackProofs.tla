----------------------------- MODULE StackProofs -----------------------------
(***************************************************************************)
(* The proofs about OvrStack: the overlays of nested calls are a stack of  *)
(* full states (StateStack), is_empty answers for the account that is      *)
(* shown, and the store gets what the outermost substate showed.           *)
(*                                                                         *)
(* Every operation works on the innermost substate f of a stack            *)
(* Append(lower, f).  What the stack shows is computed from what lower     *)
(* shows and from f, so the operations are followed one substate at a      *)
(* time, and no induction over the depth of the calls is needed.           *)
(***************************************************************************)
EXTENDS OvrStack, FoldProofs, SequenceTheorems

-----------------------------------------------------------------------------
(* The ends of a sequence.                                                 *)

LEMMA EndOfAppend ==
    ASSUME NEW T, NEW lower \in Seq(T), NEW f \in T
    PROVE  /\ Append(lower, f) \in Seq(T) /\ Append(lower, f) # <<>>
           /\ Len(Append(lower, f)) = Len(lower) + 1
           /\ Rest(Append(lower, f)) = lower
           /\ Inner(Append(lower, f)) = f
           /\ \A g \in T : InnerWith(Append(lower, f), g) = Append(lower, g)
<1> DEFINE fs == Append(lower, f)
           n == Len(lower)
<1>1. /\ fs \in Seq(T) /\ fs # <<>> /\ Len(fs) = n + 1 /\ n \in Nat
      /\ \A i \in 1..n : fs[i] = lower[i]
      /\ fs[n + 1] = f
  BY AppendProperties, LenProperties
<1> HIDE DEF fs, n
<1>2. Rest(fs) = lower
  <2>1. \A i \in 1..(Len(fs) - 1) : fs[i] \in T
    BY <1>1, ElementOfSeq DEF n
  <2>2. /\ Rest(fs) \in Seq(T) /\ Len(Rest(fs)) = n
        /\ \A i \in 1..n : Rest(fs)[i] = fs[i]
    BY <1>1, <2>1, SubSeqProperties DEF Rest
  <2> QED BY <1>1, <2>2, SeqEqual DEF n
<1>3. Inner(fs) = f
  BY <1>1 DEF Inner
<1>4. ASSUME NEW g \in T PROVE InnerWith(fs, g) = Append(lower, g)
  <2>1. /\ Append(lower, g) \in Seq(T) /\ Len(Append(lower, g)) = n + 1
        /\ \A i \in 1..n : Append(lower, g)[i] = lower[i]
        /\ Append(lower, g)[n + 1] = g
    BY AppendProperties DEF n
  <2>2. /\ InnerWith(fs, g) \in Seq(T) /\ Len(InnerWith(fs, g)) = n + 1
        /\ \A i \in 1..(n + 1) : InnerWith(fs, g)[i] = IF i = n + 1 THEN g ELSE fs[i]
    <3>1. n + 1 \in 1..Len(fs)
      BY <1>1
    <3> QED BY <1>1, <3>1, ExceptSeq DEF InnerWith
  <2> QED BY <1>1, <2>1, <2>2, SeqEqual
<1> QED BY <1>1, <1>2, <1>3, <1>4 DEF fs, n

LEMMA EndOfSeq ==
    ASSUME NEW T, NEW fs \in Seq(T), fs # <<>>
    PROVE  /\ Rest(fs) \in Seq(T) /\ Inner(fs) \in T
           /\ fs = Append(Rest(fs), Inner(fs))
           /\ Len(Rest(fs)) = Len(fs) - 1 /\ Len(fs) \in Nat \ {0}
<1>1. PICK s \in Seq(T), e \in T : fs = Append(s, e)
  BY SequenceEmptyOrAppend
<1>2. Rest(fs) = s /\ Inner(fs) = e /\ Len(fs) = Len(s) + 1
  BY <1>1, EndOfAppend
<1> QED BY <1>1, <1>2, LenProperties

LEMMA PrefixOfAppend ==
    ASSUME NEW T, NEW lower \in Seq(T), NEW f \in T
    PROVE  /\ \A n \in 0..Len(lower) :
                SubSeq(Append(lower, f), 1, n) = SubSeq(lower, 1, n)
           /\ SubSeq(Append(lower, f), 1, Len(lower) + 1) = Append(lower, f)
           /\ SubSeq(lower, 1, Len(lower)) = lower
<1> DEFINE fs == Append(lower, f)
<1>1. /\ fs \in Seq(T) /\ Len(fs) = Len(lower) + 1 /\ Len(lower) \in Nat
      /\ \A i \in 1..Len(lower) : fs[i] = lower[i]
  BY AppendProperties, LenProperties
<1> HIDE DEF fs
<1>2. ASSUME NEW n \in 0..Len(lower) PROVE SubSeq(fs, 1, n) = SubSeq(lower, 1, n)
  <2>1. \A i \in 1..n : fs[i] \in T /\ lower[i] \in T /\ fs[i] = lower[i]
    BY <1>1, ElementOfSeq
  <2>2. /\ SubSeq(fs, 1, n) \in Seq(T) /\ Len(SubSeq(fs, 1, n)) = n
        /\ \A i \in 1..n : SubSeq(fs, 1, n)[i] = fs[i]
    BY <2>1, SubSeqProperties
  <2>3. /\ SubSeq(lower, 1, n) \in Seq(T) /\ Len(SubSeq(lower, 1, n)) = n
        /\ \A i \in 1..n : SubSeq(lower, 1, n)[i] = lower[i]
    BY <2>1, SubSeqProperties
  <2> QED BY <2>1, <2>2, <2>3, SeqEqual
<1>3. SubSeq(fs, 1, Len(lower) + 1) = fs /\ SubSeq(lower, 1, Len(lower)) = lower
  BY <1>1, SubSeqFull
<1> QED BY <1>2, <1>3 DEF fs

LEMMA AppendPrefix ==
    ASSUME NEW T, NEW fs \in Seq(T), NEW i \in 1..Len(fs)
    PROVE  SubSeq(fs, 1, i) = Append(SubSeq(fs, 1, i - 1), fs[i])
<1> DEFINE below == SubSeq(fs, 1, i - 1)
           upto == SubSeq(fs, 1, i)
<1>1. Len(fs) \in Nat /\ \A j \in 1..Len(fs) : fs[j] \in T
  BY ElementOfSeq, LenProperties
<1>2. /\ below \in Seq(T) /\ Len(below) = i - 1
      /\ \A j \in 1..(i - 1) : below[j] = fs[j]
  BY <1>1, SubSeqProperties
<1>3. upto \in Seq(T) /\ Len(upto) = i /\ \A j \in 1..i : upto[j] = fs[j]
  BY <1>1, SubSeqProperties
<1> HIDE DEF below, upto
<1>4. /\ Append(below, fs[i]) \in Seq(T) /\ Len(Append(below, fs[i])) = Len(below) + 1
      /\ \A j \in 1..Len(below) : Append(below, fs[i])[j] = below[j]
      /\ Append(below, fs[i])[Len(below) + 1] = fs[i]
  BY <1>1, <1>2, AppendProperties
<1>5. \A j \in 1..i : upto[j] = Append(below, fs[i])[j]
  BY <1>2, <1>3, <1>4
<1>6. upto = Append(below, fs[i])
  BY <1>2, <1>3, <1>4, <1>5, SeqEqual
<1> QED BY <1>6 DEF below, upto

-----------------------------------------------------------------------------
(* What a stack shows, and what holds of every substate in it.             *)

(* What a stack of substates fs over the backend B shows of an account.    *)
Seen(B, fs, a) ==
    LET acc == KnownAccount(fs, a)
    IN  IF acc = Unset THEN B.accounts[a]
        ELSE [nonce |-> acc.nonce, balance |-> acc.balance,
              code |-> IF acc.code = Unset THEN B.accounts[a].code ELSE acc.code]

SlotSeen(B, fs, lost, x) ==
    LET known == KnownStorage(fs, x)
    IN  IF known # Unset THEN known ELSE IF x[1] \in lost THEN 0 ELSE B.storages[x]

OriginalSeen(B, fs, lost, x) ==
    IF KnownOriginalStorage(fs, x) = 0 \/ x[1] \in lost THEN 0 ELSE B.storages[x]

LogsOf(fs) == FlattenSeq([i \in DOMAIN fs |-> fs[i].logs])

(* The same as a state of StateStack; lost are the accounts whose reset a  *)
(* commit has undone.                                                      *)
Look(B, fs, lost) ==
    [nonce    |-> [a \in Addr |-> Seen(B, fs, a).nonce],
     balance  |-> [a \in Addr |-> Seen(B, fs, a).balance],
     code     |-> [a \in Addr |-> Seen(B, fs, a).code],
     storage  |-> [x \in Slots |-> SlotSeen(B, fs, lost, x)],
     original |-> [x \in Slots |-> OriginalSeen(B, fs, lost, x)],
     deleted  |-> Deleted(fs),
     logs     |-> LogsOf(fs)]

(* An address at which no contract can be created any more.                *)
InUse(acc) == acc.code \/ acc.nonce > 0

(* What the substate f of the call c adds to those below it.               *)
UsedStays(B, lower, upper) ==
    \A a \in Addr :
        /\ Seen(B, lower, a).nonce > 0 => Seen(B, upper, a).nonce > 0
        /\ InUse(Seen(B, lower, a)) => InUse(Seen(B, upper, a))
        /\ InUse(B.accounts[a]) => InUse(Seen(B, upper, a))

(* Only an address in use loses funds.                                     *)
FundsStay(B, upper) ==
    \A a \in Addr : \/ InUse(Seen(B, upper, a))
                    \/ Seen(B, upper, a).balance >= B.accounts[a].balance

ContextInUse(B, lower, upper, c) ==
    /\ c.create => Seen(B, upper, c.self).nonce > 0
    /\ c.runs /\ lower # <<>> => InUse(Seen(B, upper, c.self))

SlotsInUse(B, upper, f) ==
    /\ \A x \in Slots : f.storages[x] # Unset => InUse(Seen(B, upper, x[1]))
    /\ \A a \in Addr : HasReset(f, a) => Seen(B, upper, a).nonce > 0

NothingUnderReset(lower, f) ==
    \A a \in Addr : HasReset(f, a) =>
        \A i \in DOMAIN lower :
            /\ ~HasReset(lower[i], a)
            /\ \A x \in Slots : x[1] = a => lower[i].storages[x] = Unset

Fits(B, lower, f, c) ==
    LET upper == Append(lower, f)
    IN  /\ UsedStays(B, lower, upper)
        /\ FundsStay(B, upper)
        /\ ContextInUse(B, lower, upper, c)
        /\ SlotsInUse(B, upper, f)
        /\ NothingUnderReset(lower, f)

Stacked(B, fs, cs) ==
    \A n \in 1..Len(fs) : Fits(B, SubSeq(fs, 1, n - 1), fs[n], cs[n])

StackInv == TypeOK /\ Stacked(backend, frames, ctx)

-----------------------------------------------------------------------------
(* A substate over others: each read takes one step down.                  *)

LEMMA MaxOfIndices ==
    ASSUME NEW n \in Nat, NEW H \in SUBSET (1..(n + 1))
    PROVE  /\ n + 1 \in H => Max(H) = n + 1
           /\ n + 1 \notin H => H \in SUBSET (1..n)
           /\ H # {} => Max(H) \in H
<1>1. ASSUME n + 1 \in H PROVE Max(H) = n + 1
  <2>1. \A y \in H : n + 1 >= y
    OBVIOUS
  <2>2. \A x \in H : (\A y \in H : x >= y) => x = n + 1
    BY <1>1
  <2> QED BY <1>1, <2>1, <2>2 DEF Max
<1>2. H # {} => Max(H) \in H
  BY MaxOfSubset
<1>3. n + 1 \notin H => H \in SUBSET (1..n)
  OBVIOUS
<1> QED BY <1>1, <1>2, <1>3

LEMMA KnownAccountOver ==
    ASSUME NEW lower \in Seq(Substate), NEW f \in Substate, NEW a \in Addr
    PROVE  KnownAccount(Append(lower, f), a) =
               IF f.accounts[a] # Unset THEN f.accounts[a] ELSE KnownAccount(lower, a)
<1> DEFINE fs == Append(lower, f)
           n == Len(lower)
           H == {i \in DOMAIN fs : fs[i].accounts[a] # Unset}
           L == {i \in DOMAIN lower : lower[i].accounts[a] # Unset}
<1>1. /\ DOMAIN fs = 1..(n + 1) /\ DOMAIN lower = 1..n /\ n \in Nat
      /\ \A i \in 1..n : fs[i] = lower[i]
      /\ fs[n + 1] = f
  <2>1. fs \in Seq(Substate) /\ Len(fs) = n + 1
    BY AppendProperties
  <2>2. DOMAIN fs = 1..Len(fs)
    BY <2>1, LenProperties
  <2> QED BY <2>1, <2>2, AppendProperties, LenProperties
<1>2. KnownAccount(fs, a) = IF H = {} THEN Unset ELSE fs[Max(H)].accounts[a]
  BY DEF KnownAccount
<1>3. KnownAccount(lower, a) = IF L = {} THEN Unset ELSE lower[Max(L)].accounts[a]
  BY DEF KnownAccount
<1>4. H \in SUBSET (1..(n + 1)) /\ (n + 1 \in H <=> f.accounts[a] # Unset)
  BY <1>1
<1>5. n + 1 \notin H => H = L
  BY <1>1
<1>6. L \in SUBSET (1..n) /\ L \in SUBSET (1..(n + 1))
  BY <1>1
<1> HIDE DEF fs, n, H, L
<1>7. CASE f.accounts[a] # Unset
  <2>1. Max(H) = n + 1 /\ H # {}
    BY <1>1, <1>4, <1>7, MaxOfIndices
  <2> QED BY <1>1, <1>2, <1>7, <2>1 DEF fs
<1>8. CASE f.accounts[a] = Unset
  <2>1. H = L
    BY <1>4, <1>5, <1>8
  <2>2. L # {} => fs[Max(L)] = lower[Max(L)]
    BY <1>1, <1>6, MaxOfIndices
  <2> QED BY <1>2, <1>3, <1>8, <2>1, <2>2 DEF fs
<1> QED BY <1>7, <1>8

LEMMA KnownStorageOver ==
    ASSUME NEW lower \in Seq(Substate), NEW f \in Substate, NEW x \in Slots
    PROVE  KnownStorage(Append(lower, f), x) =
               IF f.storages[x] # Unset THEN f.storages[x]
               ELSE IF HasReset(f, x[1]) THEN 0
               ELSE KnownStorage(lower, x)
<1> DEFINE fs == Append(lower, f)
           n == Len(lower)
           Decides(g) == g.storages[x] # Unset \/ HasReset(g, x[1])
           H == {i \in DOMAIN fs : Decides(fs[i])}
           L == {i \in DOMAIN lower : Decides(lower[i])}
           Answer(g) == IF g.storages[x] # Unset THEN g.storages[x] ELSE 0
<1>1. /\ DOMAIN fs = 1..(n + 1) /\ DOMAIN lower = 1..n /\ n \in Nat
      /\ \A i \in 1..n : fs[i] = lower[i]
      /\ fs[n + 1] = f
  <2>1. fs \in Seq(Substate) /\ Len(fs) = n + 1
    BY AppendProperties
  <2>2. DOMAIN fs = 1..Len(fs)
    BY <2>1, LenProperties
  <2> QED BY <2>1, <2>2, AppendProperties, LenProperties
<1>2. KnownStorage(fs, x) = IF H = {} THEN Unset ELSE Answer(fs[Max(H)])
  BY DEF KnownStorage
<1>3. KnownStorage(lower, x) = IF L = {} THEN Unset ELSE Answer(lower[Max(L)])
  BY DEF KnownStorage
<1>4. H \in SUBSET (1..(n + 1)) /\ (n + 1 \in H <=> Decides(f))
  BY <1>1
<1>5. n + 1 \notin H => H = L
  BY <1>1
<1>6. L \in SUBSET (1..n) /\ L \in SUBSET (1..(n + 1))
  BY <1>1
<1>7. Decides(f) <=> f.storages[x] # Unset \/ HasReset(f, x[1])
  OBVIOUS
<1>8. Answer(f) = IF f.storages[x] # Unset THEN f.storages[x] ELSE 0
  OBVIOUS
<1> HIDE DEF fs, n, H, L, Decides, Answer
<1>9. CASE Decides(f)
  <2>1. Max(H) = n + 1 /\ H # {}
    BY <1>1, <1>4, <1>9, MaxOfIndices
  <2> QED BY <1>1, <1>2, <1>7, <1>8, <1>9, <2>1 DEF fs
<1>10. CASE ~Decides(f)
  <2>1. H = L
    BY <1>4, <1>5, <1>10
  <2>2. L # {} => fs[Max(L)] = lower[Max(L)]
    BY <1>1, <1>6, MaxOfIndices
  <2> QED BY <1>2, <1>3, <1>7, <1>10, <2>1, <2>2 DEF fs
<1> QED BY <1>9, <1>10

LEMMA KnownOriginalOver ==
    ASSUME NEW lower \in Seq(Substate), NEW f \in Substate, NEW x \in Slots
    PROVE  KnownOriginalStorage(Append(lower, f), x) =
               IF HasReset(f, x[1]) THEN 0 ELSE KnownOriginalStorage(lower, x)
<1> DEFINE fs == Append(lower, f)
           n == Len(lower)
<1>1. /\ DOMAIN fs = 1..(n + 1) /\ DOMAIN lower = 1..n /\ n \in Nat
      /\ \A i \in 1..n : fs[i] = lower[i]
      /\ fs[n + 1] = f
  <2>1. fs \in Seq(Substate) /\ Len(fs) = n + 1
    BY AppendProperties
  <2>2. DOMAIN fs = 1..Len(fs)
    BY <2>1, LenProperties
  <2> QED BY <2>1, <2>2, AppendProperties, LenProperties
<1>2. (\E i \in DOMAIN fs : HasReset(fs[i], x[1]))
         <=> HasReset(f, x[1]) \/ \E i \in DOMAIN lower : HasReset(lower[i], x[1])
  <2> HIDE DEF fs, n
  <2>1. \A i \in 1..(n + 1) : i \in 1..n \/ i = n + 1
    BY <1>1
  <2>2. \A i \in 1..n : i \in 1..(n + 1)
    BY <1>1
  <2>3. n + 1 \in 1..(n + 1)
    BY <1>1
  <2> QED BY <1>1, <2>1, <2>2, <2>3
<1> QED BY <1>2 DEF KnownOriginalStorage

LEMMA DeletedOver ==
    ASSUME NEW lower \in Seq(Substate), NEW f \in Substate
    PROVE  Deleted(Append(lower, f)) = Deleted(lower) \cup f.deletes
<1> DEFINE fs == Append(lower, f)
           n == Len(lower)
<1>1. /\ DOMAIN fs = 1..(n + 1) /\ DOMAIN lower = 1..n /\ n \in Nat
      /\ \A i \in 1..n : fs[i] = lower[i]
      /\ fs[n + 1] = f
  <2>1. fs \in Seq(Substate) /\ Len(fs) = n + 1
    BY AppendProperties
  <2>2. DOMAIN fs = 1..Len(fs)
    BY <2>1, LenProperties
  <2> QED BY <2>1, <2>2, AppendProperties, LenProperties
<1> HIDE DEF fs, n
<1>2. \A i \in 1..(n + 1) : i \in 1..n \/ i = n + 1
  BY <1>1
<1>3. \A i \in 1..n : i \in 1..(n + 1)
  BY <1>1
<1>4. n + 1 \in 1..(n + 1)
  BY <1>1
<1>5. Deleted(fs) = Deleted(lower) \cup f.deletes
  BY <1>1, <1>2, <1>3, <1>4 DEF Deleted
<1> QED BY <1>5 DEF fs

-----------------------------------------------------------------------------
(* The logs of a stack.                                                    *)

(* F[i] is the concatenation of the first i of the sequences.              *)
Flattens(F, seqs, T) ==
    \A i \in 1..Len(seqs) :
        /\ F[i] \in Seq(T)
        /\ F[i] = IF i = 1 THEN seqs[i] ELSE F[i - 1] \o seqs[i]

LEMMA FlattenExists ==
    ASSUME NEW T, NEW seqs \in Seq(Seq(T))
    PROVE  \E F \in [1..Len(seqs) -> Seq(T)] : Flattens(F, seqs, T)
<1> DEFINE n == Len(seqs)
           Good(F, k) == \A i \in 1..k : F[i] = IF i = 1 THEN seqs[i] ELSE F[i - 1] \o seqs[i]
           Some(k) == \E F \in [1..k -> Seq(T)] : Good(F, k)
           N == {k \in Nat : k =< n => Some(k)}
<1>1. n \in Nat /\ \A i \in 1..n : seqs[i] \in Seq(T)
  BY LenProperties, ElementOfSeq
<1> HIDE DEF n
<1>2. 0 \in N
  <2>1. [i \in 1..0 |-> <<>>] \in [1..0 -> Seq(T)]
    OBVIOUS
  <2>2. Good([i \in 1..0 |-> <<>>], 0)
    OBVIOUS
  <2> QED BY <2>1, <2>2
<1>3. ASSUME NEW k \in Nat, k \in N PROVE k + 1 \in N
  <2> SUFFICES ASSUME k + 1 =< n PROVE Some(k + 1)
    <3> HIDE DEF Some
    <3> QED OBVIOUS
  <2>0. Some(k)
    <3> HIDE DEF Some
    <3> QED BY <1>1, <1>3
  <2>1. PICK F \in [1..k -> Seq(T)] : Good(F, k)
    BY <2>0
  <2> DEFINE e == IF k = 0 THEN seqs[1] ELSE F[k] \o seqs[k + 1]
             G == [i \in 1..(k + 1) |-> IF i = k + 1 THEN e ELSE F[i]]
  <2>2. e \in Seq(T)
    <3>1. k + 1 \in 1..n /\ seqs[k + 1] \in Seq(T)
      BY <1>1
    <3>2. CASE k = 0
      BY <3>1, <3>2
    <3>3. CASE k # 0
      <4>1. k \in 1..k
        BY <3>3
      <4>2. F[k] \in Seq(T)
        BY <2>1, <4>1
      <4> QED BY <3>1, <3>3, <4>2, ConcatProperties
    <3> QED BY <3>2, <3>3
  <2>3. G \in [1..(k + 1) -> Seq(T)]
    <3> HIDE DEF e
    <3> QED BY <2>1, <2>2
  <2>4. Good(G, k + 1)
    <3> SUFFICES ASSUME NEW i \in 1..(k + 1)
                 PROVE  G[i] = IF i = 1 THEN seqs[i] ELSE G[i - 1] \o seqs[i]
      OBVIOUS
    <3>1. CASE i = k + 1
      <4>1. G[i] = e
        BY <3>1
      <4>2. i # 1 => k # 0 /\ i - 1 = k /\ G[i - 1] = F[k]
        <5> HIDE DEF e
        <5>1. i - 1 = k /\ (i # 1 => k # 0 /\ k \in 1..(k + 1) /\ k # k + 1)
          BY <3>1
        <5> QED BY <5>1
      <4>3. i = 1 => k = 0
        BY <3>1
      <4> HIDE DEF G
      <4> QED BY <3>1, <4>1, <4>2, <4>3
    <3>2. CASE i # k + 1
      <4>1. i \in 1..k /\ (i # 1 => i - 1 \in 1..k /\ i - 1 # k + 1 /\ i - 1 \in 1..(k + 1))
        BY <3>2
      <4>2. G[i] = F[i] /\ (i # 1 => G[i - 1] = F[i - 1])
        <5> HIDE DEF e
        <5> QED BY <3>2, <4>1
      <4> HIDE DEF G
      <4> QED BY <2>1, <4>1, <4>2
    <3> QED BY <3>1, <3>2
  <2> QED BY <2>3, <2>4
<1>4. n \in N
  <2> HIDE DEF N
  <2>1. Nat \subseteq N
    BY <1>2, <1>3, NatSetInduction
  <2> QED BY <1>1, <2>1
<1>5. PICK F \in [1..n -> Seq(T)] : Good(F, n)
  <2>1. Some(n)
    <3> HIDE DEF Some
    <3> QED BY <1>1, <1>4
  <2> QED BY <2>1
<1>6. \A i \in 1..n : F[i] \in Seq(T)
  BY <1>5
<1>7. Flattens(F, seqs, T)
  BY <1>5, <1>6 DEF Flattens, n
<1> QED BY <1>5, <1>7 DEF n

SamePrefix(m, seqs, more) ==
    /\ m \in Nat /\ Len(seqs) \in Nat /\ Len(more) \in Nat
    /\ m =< Len(seqs) /\ m =< Len(more)
    /\ \A i \in 1..m : seqs[i] = more[i]

LEMMA FlattensAgree ==
    ASSUME NEW T, NEW m, NEW seqs, NEW more, SamePrefix(m, seqs, more),
           NEW F, NEW G, Flattens(F, seqs, T), Flattens(G, more, T)
    PROVE  \A i \in 1..m : F[i] = G[i]
<1> USE DEF SamePrefix
<1> DEFINE N == {k \in Nat : k + 1 =< m => F[k + 1] = G[k + 1]}
<1>1. ASSUME NEW i \in 1..m
      PROVE  /\ F[i] = IF i = 1 THEN seqs[i] ELSE F[i - 1] \o seqs[i]
             /\ G[i] = IF i = 1 THEN seqs[i] ELSE G[i - 1] \o seqs[i]
  <2>1. i \in 1..Len(seqs) /\ i \in 1..Len(more)
    OBVIOUS
  <2>2. F[i] = IF i = 1 THEN seqs[i] ELSE F[i - 1] \o seqs[i]
    BY <2>1 DEF Flattens
  <2>3. G[i] = IF i = 1 THEN more[i] ELSE G[i - 1] \o more[i]
    BY <2>1 DEF Flattens
  <2> QED BY <2>2, <2>3
<1>2. 0 \in N
  BY <1>1
<1>3. ASSUME NEW k \in Nat, k \in N PROVE k + 1 \in N
  <2> SUFFICES ASSUME (k + 1) + 1 =< m PROVE F[(k + 1) + 1] = G[(k + 1) + 1]
    OBVIOUS
  <2> DEFINE i == (k + 1) + 1
  <2>1. i \in 1..m /\ i # 1 /\ i - 1 = k + 1 /\ k + 1 =< m
    OBVIOUS
  <2>2. F[k + 1] = G[k + 1]
    BY <1>3, <2>1
  <2> HIDE DEF i
  <2>3. F[i] = F[k + 1] \o seqs[i] /\ G[i] = G[k + 1] \o seqs[i]
    BY <1>1, <2>1
  <2>4. F[i] = G[i]
    BY <2>2, <2>3
  <2> QED BY <2>4 DEF i
<1>4. Nat \subseteq N
  <2> HIDE DEF N
  <2> QED BY <1>2, <1>3, NatSetInduction
<1> SUFFICES ASSUME NEW i \in 1..m PROVE F[i] = G[i]
  OBVIOUS
<1>5. i - 1 \in Nat /\ (i - 1) + 1 = i
  OBVIOUS
<1>6. i - 1 \in N
  BY <1>4, <1>5
<1> QED BY <1>5, <1>6

LEMMA FlattenSeqIs ==
    ASSUME NEW T, NEW seqs \in Seq(Seq(T))
    PROVE  \E F : /\ Flattens(F, seqs, T)
                  /\ FlattenSeq(seqs) = IF Len(seqs) = 0 THEN <<>> ELSE F[Len(seqs)]
<1> DEFINE n == Len(seqs)
           rhs(h) == [i \in 1..n |-> IF i = 1 THEN seqs[i] ELSE h[i - 1] \o seqs[i]]
           flatten == CHOOSE h : h = rhs(h)
<1>1. n \in Nat
  BY LenProperties
<1>2. PICK F \in [1..n -> Seq(T)] : Flattens(F, seqs, T)
  BY FlattenExists
<1>3. F = rhs(F)
  BY <1>2 DEF Flattens
<1>4. flatten = rhs(flatten)
  <2> HIDE DEF rhs
  <2> QED BY <1>3
<1>5. n = 0 => seqs = <<>>
  BY EmptySeq
<1>6. FlattenSeq(seqs) = IF n = 0 THEN seqs ELSE flatten[n]
  BY DEF FlattenSeq
<1> DEFINE Same(k) == flatten[k] = F[k]
           N == {k \in Nat : k + 1 =< n => Same(k + 1)}
<1>7. Nat \subseteq N
  <2>1. \A i \in 1..n : /\ flatten[i] = IF i = 1 THEN seqs[i] ELSE flatten[i - 1] \o seqs[i]
                        /\ F[i] = IF i = 1 THEN seqs[i] ELSE F[i - 1] \o seqs[i]
    <3> HIDE DEF flatten
    <3> QED BY <1>2, <1>4 DEF Flattens
  <2> HIDE DEF flatten, n
  <2>2. 0 \in N
    <3>1. 0 + 1 =< n => 0 + 1 = 1 /\ 1 \in 1..n
      BY <1>1
    <3>2. 0 + 1 =< n => Same(0 + 1)
      BY <2>1, <3>1
    <3> HIDE DEF Same
    <3> QED BY <3>2
  <2>3. ASSUME NEW k \in Nat, k \in N PROVE k + 1 \in N
    <3> SUFFICES ASSUME (k + 1) + 1 =< n PROVE flatten[(k + 1) + 1] = F[(k + 1) + 1]
      <4>1. (k + 1) + 1 =< n => Same((k + 1) + 1)
        OBVIOUS
      <4> HIDE DEF Same
      <4> QED BY <4>1
    <3> DEFINE i == (k + 1) + 1
    <3>1. i \in 1..n /\ i # 1 /\ i - 1 = k + 1 /\ k + 1 =< n
      BY <1>1
    <3>2. flatten[k + 1] = F[k + 1]
      <4>1. Same(k + 1)
        <5> HIDE DEF Same
        <5> QED BY <2>3, <3>1
      <4> QED BY <4>1
    <3> HIDE DEF i
    <3>3. flatten[i] = flatten[k + 1] \o seqs[i] /\ F[i] = F[k + 1] \o seqs[i]
      BY <2>1, <3>1
    <3>4. flatten[i] = F[i]
      BY <3>2, <3>3
    <3> QED BY <3>4 DEF i
  <2> HIDE DEF N
  <2> QED BY <2>2, <2>3, NatSetInduction
<1>8. n # 0 => flatten[n] = F[n]
  <2> HIDE DEF flatten, n
  <2>1. n # 0 => n - 1 \in Nat /\ (n - 1) + 1 = n /\ n =< n
    BY <1>1
  <2>2. n # 0 => Same(n)
    <3> HIDE DEF Same
    <3>1. n # 0 => n - 1 \in N
      <4> HIDE DEF N
      <4> QED BY <1>7, <2>1
    <3> QED BY <2>1, <3>1
  <2> QED BY <2>2
<1> HIDE DEF flatten
<1>9. FlattenSeq(seqs) = IF Len(seqs) = 0 THEN <<>> ELSE F[Len(seqs)]
  BY <1>5, <1>6, <1>8
<1> QED BY <1>2, <1>9

LEMMA FlattenAppend ==
    ASSUME NEW T, NEW seqs \in Seq(Seq(T)), NEW s \in Seq(T)
    PROVE  /\ FlattenSeq(seqs) \in Seq(T)
           /\ FlattenSeq(Append(seqs, s)) = FlattenSeq(seqs) \o s
<1> DEFINE n == Len(seqs)
           more == Append(seqs, s)
<1>1. /\ more \in Seq(Seq(T)) /\ Len(more) = n + 1 /\ n \in Nat
      /\ \A i \in 1..n : more[i] = seqs[i]
      /\ more[n + 1] = s
  BY AppendProperties, LenProperties
<1> HIDE DEF more
<1>2. PICK F : /\ Flattens(F, seqs, T)
               /\ FlattenSeq(seqs) = IF n = 0 THEN <<>> ELSE F[n]
  BY FlattenSeqIs
<1>3. PICK G : /\ Flattens(G, more, T)
               /\ FlattenSeq(more) = IF Len(more) = 0 THEN <<>> ELSE G[Len(more)]
  BY <1>1, FlattenSeqIs
<1>4. \A i \in 1..n : F[i] = G[i]
  <2>1. SamePrefix(Len(seqs), seqs, more)
    BY <1>1 DEF SamePrefix
  <2>2. Flattens(F, seqs, T) /\ Flattens(G, more, T)
    BY <1>2, <1>3
  <2>3. \A i \in 1..Len(seqs) : F[i] = G[i]
    BY <2>1, <2>2, FlattensAgree
  <2> QED BY <2>3
<1>5. FlattenSeq(more) = G[n + 1]
  BY <1>1, <1>3
<1>6. G[n + 1] = IF n + 1 = 1 THEN more[n + 1] ELSE G[(n + 1) - 1] \o more[n + 1]
  BY <1>1, <1>3 DEF Flattens
<1>7. FlattenSeq(seqs) \in Seq(T)
  BY <1>1, <1>2 DEF Flattens
<1> HIDE DEF n
<1>8. CASE n = 0
  <2>1. G[n + 1] = s /\ FlattenSeq(seqs) = <<>>
    BY <1>1, <1>2, <1>6, <1>8
  <2> QED BY <1>5, <1>7, <2>1, ConcatEmptySeq DEF more
<1>9. CASE n # 0
  <2>1. n + 1 # 1 /\ (n + 1) - 1 = n /\ n \in 1..n
    BY <1>1, <1>9
  <2>2. G[n + 1] = G[n] \o s /\ FlattenSeq(seqs) = F[n] /\ F[n] = G[n]
    BY <1>1, <1>2, <1>4, <1>6, <1>9, <2>1
  <2> QED BY <1>5, <1>7, <2>2 DEF more
<1> QED BY <1>8, <1>9

LEMMA LogsOver ==
    ASSUME NEW lower \in Seq(Substate), NEW f \in Substate
    PROVE  /\ LogsOf(lower) \in Seq(Addr)
           /\ LogsOf(Append(lower, f)) = LogsOf(lower) \o f.logs
<1> DEFINE fs == Append(lower, f)
           n == Len(lower)
           logs == [i \in DOMAIN lower |-> lower[i].logs]
           more == [i \in DOMAIN fs |-> fs[i].logs]
<1>1. /\ fs \in Seq(Substate) /\ Len(fs) = n + 1 /\ n \in Nat
      /\ DOMAIN fs = 1..(n + 1) /\ DOMAIN lower = 1..n
      /\ \A i \in 1..n : fs[i] = lower[i]
      /\ fs[n + 1] = f
  <2>1. fs \in Seq(Substate) /\ Len(fs) = n + 1
    BY AppendProperties
  <2>2. DOMAIN fs = 1..Len(fs)
    BY <2>1, LenProperties
  <2> QED BY <2>1, <2>2, AppendProperties, LenProperties
<1>2. \A i \in 1..n : lower[i].logs \in Seq(Addr)
  <2>1. \A i \in 1..n : lower[i] \in Substate
    BY ElementOfSeq
  <2> QED BY <2>1 DEF Substate
<1>3. f.logs \in Seq(Addr)
  BY DEF Substate
<1>4. logs \in Seq(Seq(Addr)) /\ Len(logs) = n
  <2> HIDE DEF n, fs
  <2> QED BY <1>1, <1>2
<1>5. more \in Seq(Seq(Addr)) /\ Len(more) = n + 1
  <2> HIDE DEF n, fs
  <2>1. \A i \in 1..(n + 1) : fs[i].logs \in Seq(Addr)
    BY <1>1, <1>2, <1>3
  <2> QED BY <1>1, <2>1
<1>6. more = Append(logs, f.logs)
  <2>1. /\ Append(logs, f.logs) \in Seq(Seq(Addr))
        /\ Len(Append(logs, f.logs)) = n + 1
        /\ \A i \in 1..n : Append(logs, f.logs)[i] = logs[i]
        /\ Append(logs, f.logs)[n + 1] = f.logs
    BY <1>3, <1>4, AppendProperties
  <2>2. /\ \A i \in 1..n : more[i] = logs[i]
        /\ more[n + 1] = f.logs
    BY <1>1
  <2> HIDE DEF n, fs, logs, more
  <2>3. \A i \in 1..(n + 1) : more[i] = Append(logs, f.logs)[i]
    BY <1>1, <2>1, <2>2
  <2> QED BY <1>5, <2>1, <2>3, SeqEqual
<1> HIDE DEF fs, logs, more
<1>7. FlattenSeq(more) = FlattenSeq(logs) \o f.logs /\ FlattenSeq(logs) \in Seq(Addr)
  BY <1>3, <1>4, <1>6, FlattenAppend
<1> QED BY <1>7 DEF LogsOf, fs, logs, more

-----------------------------------------------------------------------------
(* Accounts, as a stack shows them.                                        *)

(* What the entry acc of an account shows over a backend with code below.  *)
EntrySeen(acc, below) ==
    [nonce |-> acc.nonce, balance |-> acc.balance,
     code |-> IF acc.code = Unset THEN below ELSE acc.code]

LEMMA UnsetIsNothing ==
    /\ \A acc \in StackAccount : acc # Unset
    /\ \A v \in Values : v # Unset
    /\ 0 # Unset /\ TRUE # Unset /\ FALSE # Unset /\ 0 \in Values
BY StackAssumption

LEMMA SubstateFields ==
    ASSUME NEW f \in Substate
    PROVE  /\ \A a \in Addr : f.accounts[a] \in StackAccount \cup {Unset}
           /\ \A x \in Slots : f.storages[x] \in Values \cup {Unset}
           /\ f.deletes \in SUBSET Addr /\ f.logs \in Seq(Addr)
           /\ DOMAIN f.accounts = Addr /\ DOMAIN f.storages = Slots
BY DEF Substate

LEMMA KnownAccountType ==
    ASSUME NEW fs \in Seq(Substate), NEW a \in Addr
    PROVE  KnownAccount(fs, a) \in StackAccount \cup {Unset}
<1> DEFINE H == {i \in DOMAIN fs : fs[i].accounts[a] # Unset}
           n == Len(fs)
<1>1. n \in Nat /\ DOMAIN fs = 1..n /\ \A i \in 1..n : fs[i] \in Substate
  BY LenProperties, ElementOfSeq
<1>2. H # {} => Max(H) \in 1..n
  <2>1. H \in SUBSET (1..n)
    BY <1>1
  <2> HIDE DEF H, n
  <2> QED BY <1>1, <2>1, MaxOfSubset
<1>3. KnownAccount(fs, a) = IF H = {} THEN Unset ELSE fs[Max(H)].accounts[a]
  BY DEF KnownAccount
<1> HIDE DEF H, n
<1>4. CASE H = {}
  BY <1>3, <1>4
<1>5. CASE H # {}
  <2>1. fs[Max(H)] \in Substate
    BY <1>1, <1>2, <1>5
  <2> QED BY <1>3, <1>5, <2>1, SubstateFields
<1> QED BY <1>4, <1>5

LEMMA BackendFields ==
    ASSUME NEW B \in Backend
    PROVE  /\ \A a \in Addr : B.accounts[a] \in Account
           /\ \A x \in Slots : B.storages[x] \in Values
           /\ \A a \in Addr : B.accounts[a] = EntrySeen(B.accounts[a], B.accounts[a].code)
<1>1. \A a \in Addr : B.accounts[a] \in Account
  BY DEF Backend
<1>2. \A x \in Slots : B.storages[x] \in Values
  BY DEF Backend
<1>3. ASSUME NEW a \in Addr
      PROVE  B.accounts[a] = EntrySeen(B.accounts[a], B.accounts[a].code)
  <2> DEFINE acc == B.accounts[a]
  <2>1. acc = [nonce |-> acc.nonce, balance |-> acc.balance, code |-> acc.code]
    BY <1>1 DEF Account
  <2> QED BY <2>1 DEF EntrySeen
<1> QED BY <1>1, <1>2, <1>3

LEMMA SeenType ==
    ASSUME NEW B \in Backend, NEW fs \in Seq(Substate), NEW a \in Addr
    PROVE  /\ Seen(B, fs, a) \in Account
           /\ KnownAccount(fs, a) # Unset =>
                Seen(B, fs, a) = EntrySeen(KnownAccount(fs, a), B.accounts[a].code)
<1> DEFINE acc == KnownAccount(fs, a)
<1>1. acc \in StackAccount \cup {Unset} /\ B.accounts[a] \in Account
  BY KnownAccountType, BackendFields
<1>2. Seen(B, fs, a) = IF acc = Unset THEN B.accounts[a]
                       ELSE EntrySeen(acc, B.accounts[a].code)
  BY DEF Seen, EntrySeen
<1>3. acc # Unset => EntrySeen(acc, B.accounts[a].code) \in Account
  <2> SUFFICES ASSUME acc # Unset PROVE EntrySeen(acc, B.accounts[a].code) \in Account
    OBVIOUS
  <2>1. acc \in StackAccount
    BY <1>1
  <2> HIDE DEF acc
  <2>2. acc.nonce \in Nat /\ acc.balance \in Nat /\ acc.code \in BOOLEAN \cup {Unset}
    BY <2>1 DEF StackAccount
  <2>3. B.accounts[a].code \in BOOLEAN
    BY <1>1 DEF Account
  <2> QED BY <2>2, <2>3 DEF EntrySeen, Account
<1> QED BY <1>1, <1>2, <1>3

LEMMA SeenOver ==
    ASSUME NEW B \in Backend, NEW lower \in Seq(Substate), NEW f \in Substate, NEW a \in Addr
    PROVE  Seen(B, Append(lower, f), a) =
               IF f.accounts[a] # Unset THEN EntrySeen(f.accounts[a], B.accounts[a].code)
               ELSE Seen(B, lower, a)
BY KnownAccountOver DEF Seen, EntrySeen

(* The entry of an account that a change begins with shows what is shown.  *)
LEMMA AccountMutIs ==
    ASSUME backend \in Backend, NEW lower \in Seq(Substate), NEW f \in Substate, NEW a \in Addr
    PROVE  LET acc == AccountMut(Append(lower, f), a)
           IN  /\ acc \in StackAccount
               /\ acc = [nonce |-> acc.nonce, balance |-> acc.balance, code |-> acc.code,
                         reset |-> acc.reset]
               /\ EntrySeen(acc, backend.accounts[a].code)
                    = Seen(backend, Append(lower, f), a)
               /\ acc.reset = HasReset(f, a)
<1> DEFINE fs == Append(lower, f)
           known == KnownAccount(fs, a)
           acc == AccountMut(fs, a)
           below == backend.accounts[a]
<1>0. fs \in Seq(Substate) /\ Inner(fs) = f
  BY EndOfAppend
<1>1. /\ known \in StackAccount \cup {Unset}
      /\ known = IF f.accounts[a] # Unset THEN f.accounts[a] ELSE KnownAccount(lower, a)
      /\ f.accounts[a] \in StackAccount \cup {Unset}
  BY <1>0, KnownAccountType, KnownAccountOver, SubstateFields
<1>2. acc = IF f.accounts[a] # Unset THEN f.accounts[a]
            ELSE IF known # Unset THEN [known EXCEPT !.reset = FALSE]
            ELSE [nonce |-> below.nonce, balance |-> below.balance, code |-> Unset,
                  reset |-> FALSE]
  BY <1>0 DEF AccountMut
<1>3. Seen(backend, fs, a) = IF known = Unset THEN below ELSE EntrySeen(known, below.code)
  BY DEF Seen, EntrySeen
<1>4. below \in Account /\ below = EntrySeen(below, below.code)
  BY BackendFields
<1>5. HasReset(f, a) = (f.accounts[a] # Unset /\ f.accounts[a].reset)
  BY DEF HasReset
<1> HIDE DEF fs, known, acc, below
<1>6. CASE f.accounts[a] # Unset
  <2>1. acc = known /\ acc \in StackAccount /\ known # Unset
    BY <1>1, <1>2, <1>6
  <2>2. acc.reset \in BOOLEAN
    BY <2>1 DEF StackAccount
  <2>3. acc = [nonce |-> acc.nonce, balance |-> acc.balance, code |-> acc.code,
               reset |-> acc.reset]
    BY <2>1 DEF StackAccount
  <2>4. acc.reset = HasReset(f, a)
    BY <1>2, <1>5, <1>6, <2>2
  <2> QED BY <1>3, <2>1, <2>3, <2>4 DEF fs, acc, below
<1>7. CASE f.accounts[a] = Unset /\ known # Unset
  <2>1. known \in StackAccount /\ acc = [known EXCEPT !.reset = FALSE]
    BY <1>1, <1>2, <1>7
  <2>2. acc = [nonce |-> known.nonce, balance |-> known.balance, code |-> known.code,
               reset |-> FALSE]
    BY <2>1 DEF StackAccount
  <2>3. acc \in StackAccount
    BY <2>1, <2>2 DEF StackAccount
  <2>4. EntrySeen(acc, below.code) = EntrySeen(known, below.code)
    BY <2>2 DEF EntrySeen
  <2>5. acc.reset = HasReset(f, a)
    BY <1>5, <1>7, <2>2
  <2> QED BY <1>3, <1>7, <2>2, <2>3, <2>4, <2>5 DEF fs, acc, below
<1>8. CASE f.accounts[a] = Unset /\ known = Unset
  <2>1. acc = [nonce |-> below.nonce, balance |-> below.balance, code |-> Unset,
               reset |-> FALSE]
    BY <1>2, <1>8
  <2>2. acc \in StackAccount
    BY <1>4, <2>1 DEF StackAccount, Account
  <2>3. EntrySeen(acc, below.code) = below
    BY <1>4, <2>1 DEF EntrySeen, Account
  <2>4. acc.reset = HasReset(f, a)
    BY <1>5, <1>8, <2>1
  <2> QED BY <1>3, <1>8, <2>1, <2>2, <2>3, <2>4 DEF fs, acc, below
<1> QED BY <1>6, <1>7, <1>8

-----------------------------------------------------------------------------
(* A change of the innermost substate, as a change of what is shown.       *)

(* A state field by field.                                                 *)
StateOf(nonce, balance, code, storage, original, deleted, logs) ==
    [nonce |-> nonce, balance |-> balance, code |-> code, storage |-> storage,
     original |-> original, deleted |-> deleted, logs |-> logs]

(* s with the account acc at a.                                            *)
Paid(s, a, acc) ==
    StateOf(Full!Put(s.nonce, a, acc.nonce), Full!Put(s.balance, a, acc.balance),
            Full!Put(s.code, a, acc.code), s.storage, s.original, s.deleted, s.logs)

(* The substate f has become g, in its accounts only, and no flag changed. *)
SameSlots(f, g) ==
    /\ g \in Substate
    /\ g.storages = f.storages
    /\ \A b \in Addr : HasReset(g, b) = HasReset(f, b)

(* The innermost substate of fs has changed, to show s.                    *)
Turned(fs, gs, lost, s) ==
    /\ gs \in Seq(Substate) /\ gs # <<>>
    /\ Rest(gs) = Rest(fs)
    /\ SameSlots(Inner(fs), Inner(gs))
    /\ Look(backend, gs, lost) = s

IsLook(s, B, fs, lost) ==
    /\ s = StateOf(s.nonce, s.balance, s.code, s.storage, s.original, s.deleted, s.logs)
    /\ s.nonce = [a \in Addr |-> Seen(B, fs, a).nonce]
    /\ s.balance = [a \in Addr |-> Seen(B, fs, a).balance]
    /\ s.code = [a \in Addr |-> Seen(B, fs, a).code]
    /\ s.storage = [x \in Slots |-> SlotSeen(B, fs, lost, x)]
    /\ s.original = [x \in Slots |-> OriginalSeen(B, fs, lost, x)]
    /\ s.deleted = Deleted(fs) /\ s.logs = LogsOf(fs)

LEMMA LookFields ==
    ASSUME NEW B, NEW fs, NEW lost
    PROVE  IsLook(Look(B, fs, lost), B, fs, lost)
BY DEF Look, StateOf, IsLook

LEMMA StateExcept ==
    ASSUME NEW s,
           s = StateOf(s.nonce, s.balance, s.code, s.storage, s.original, s.deleted, s.logs)
    PROVE  /\ \A w : [s EXCEPT !.storage = w]
                 = StateOf(s.nonce, s.balance, s.code, w, s.original, s.deleted, s.logs)
           /\ \A w : [s EXCEPT !.deleted = w]
                 = StateOf(s.nonce, s.balance, s.code, s.storage, s.original, w, s.logs)
           /\ \A w : [s EXCEPT !.logs = w]
                 = StateOf(s.nonce, s.balance, s.code, s.storage, s.original, s.deleted, w)
BY DEF StateOf

LEMMA StateExceptTwo ==
    ASSUME NEW s,
           s = StateOf(s.nonce, s.balance, s.code, s.storage, s.original, s.deleted, s.logs)
    PROVE  \A v, w : [s EXCEPT !.storage = v, !.original = w]
                 = StateOf(s.nonce, s.balance, s.code, v, w, s.deleted, s.logs)
<1> TAKE v, w
<1>1. [s EXCEPT !.storage = v, !.original = w] = [[s EXCEPT !.storage = v] EXCEPT !.original = w]
  OBVIOUS
<1> DEFINE r == [s EXCEPT !.storage = v]
<1>2. r = StateOf(s.nonce, s.balance, s.code, v, s.original, s.deleted, s.logs)
  BY StateExcept
<1> HIDE DEF r
<1>3. [r EXCEPT !.original = w] = StateOf(s.nonce, s.balance, s.code, v, w, s.deleted, s.logs)
  BY <1>2 DEF StateOf
<1> QED BY <1>1, <1>3 DEF r

LEMMA PutIs ==
    ASSUME NEW p, NEW q, NEW a, NEW value, NEW D, p = [b \in D |-> p[b]], DOMAIN q = D,
           \A b \in D : p[b] = IF b = a THEN value ELSE q[b]
    PROVE  p = Full!Put(q, a, value)
BY DEF Full!Put

LEMMA WithAccountShows ==
    ASSUME backend \in Backend, NEW fs \in Seq(Substate), fs # <<>>, NEW a \in Addr,
           NEW acc \in StackAccount, acc.reset = HasReset(Inner(fs), a), NEW lost
    PROVE  Turned(fs, WithAccount(fs, a, acc), lost,
                  Paid(Look(backend, fs, lost), a, EntrySeen(acc, backend.accounts[a].code)))
<1> DEFINE lower == Rest(fs)
           f == Inner(fs)
           g == [f EXCEPT !.accounts[a] = acc]
           gs == Append(lower, g)
           B == backend
           now == EntrySeen(acc, B.accounts[a].code)
           s == Look(B, fs, lost)
           t == Look(B, gs, lost)
<1>1. lower \in Seq(Substate) /\ f \in Substate /\ fs = Append(lower, f)
  BY EndOfSeq
<1> HIDE DEF lower, f
<1>2. /\ g \in Substate /\ g.storages = f.storages /\ g.deletes = f.deletes /\ g.logs = f.logs
      /\ g.accounts = [f.accounts EXCEPT ![a] = acc]
  BY <1>1 DEF Substate
<1>3. \A b \in Addr : g.accounts[b] = IF b = a THEN acc ELSE f.accounts[b]
  BY <1>1, <1>2, SubstateFields
<1>4. acc # Unset /\ acc.reset \in BOOLEAN
  BY UnsetIsNothing DEF StackAccount
<1> HIDE DEF g
<1>5. \A b \in Addr : HasReset(g, b) = HasReset(f, b)
  <2> TAKE b \in Addr
  <2>1. CASE b = a
    BY <1>3, <1>4, <2>1 DEF HasReset, f
  <2>2. CASE b # a
    BY <1>3, <2>2 DEF HasReset
  <2> QED BY <2>1, <2>2
<1>6. /\ WithAccount(fs, a, acc) = gs /\ gs \in Seq(Substate) /\ gs # <<>>
      /\ Rest(gs) = lower /\ Inner(gs) = g /\ Inner(fs) = f /\ Rest(fs) = lower
  <2>1. WithAccount(fs, a, acc) = InnerWith(fs, g)
    BY DEF WithAccount, g, f
  <2> QED BY <1>1, <1>2, <2>1, EndOfAppend
<1>7. \A b \in Addr : Seen(B, gs, b) = IF b = a THEN now ELSE Seen(B, fs, b)
  <2> TAKE b \in Addr
  <2>1. Seen(B, gs, b) = IF g.accounts[b] # Unset
                         THEN EntrySeen(g.accounts[b], B.accounts[b].code)
                         ELSE Seen(B, lower, b)
    BY <1>1, <1>2, SeenOver
  <2>2. Seen(B, fs, b) = IF f.accounts[b] # Unset
                         THEN EntrySeen(f.accounts[b], B.accounts[b].code)
                         ELSE Seen(B, lower, b)
    BY <1>1, SeenOver
  <2> QED BY <1>3, <1>4, <2>1, <2>2
<1>8. \A x \in Slots : /\ SlotSeen(B, gs, lost, x) = SlotSeen(B, fs, lost, x)
                       /\ OriginalSeen(B, gs, lost, x) = OriginalSeen(B, fs, lost, x)
  <2> TAKE x \in Slots
  <2>1. HasReset(g, x[1]) = HasReset(f, x[1])
    BY <1>5 DEF Slots
  <2>2. KnownStorage(gs, x) = KnownStorage(fs, x)
    BY <1>1, <1>2, <2>1, KnownStorageOver
  <2>3. KnownOriginalStorage(gs, x) = KnownOriginalStorage(fs, x)
    BY <1>1, <1>2, <2>1, KnownOriginalOver
  <2> QED BY <2>2, <2>3 DEF SlotSeen, OriginalSeen
<1>9. Deleted(gs) = Deleted(fs) /\ LogsOf(gs) = LogsOf(fs)
  <2>1. LogsOf(gs) = LogsOf(fs)
    BY <1>1, <1>2, LogsOver
  <2>2. Deleted(gs) = Deleted(lower) \cup g.deletes /\ Deleted(fs) = Deleted(lower) \cup f.deletes
    BY <1>1, <1>2, DeletedOver
  <2> QED BY <1>2, <2>1, <2>2
<1> HIDE DEF gs, now
<1>10. t = Paid(s, a, now)
  <2>1. IsLook(t, B, gs, lost) /\ IsLook(s, B, fs, lost)
    BY LookFields
  <2> HIDE DEF s, t, B
  <2>2. t.nonce = Full!Put(s.nonce, a, now.nonce)
    <3> DEFINE p == t.nonce
               q == s.nonce
    <3>1. /\ p = [b \in Addr |-> Seen(B, gs, b).nonce]
          /\ q = [b \in Addr |-> Seen(B, fs, b).nonce]
      BY <2>1 DEF IsLook
    <3> HIDE DEF p, q
    <3>2. p = [b \in Addr |-> p[b]] /\ DOMAIN q = Addr
      BY <3>1
    <3>3. \A b \in Addr : p[b] = IF b = a THEN now.nonce ELSE q[b]
      BY <1>7, <3>1
    <3>4. p = Full!Put(q, a, now.nonce)
      BY <3>2, <3>3, PutIs
    <3> QED BY <3>4 DEF p, q
  <2>3. t.balance = Full!Put(s.balance, a, now.balance)
    <3> DEFINE p == t.balance
               q == s.balance
    <3>1. /\ p = [b \in Addr |-> Seen(B, gs, b).balance]
          /\ q = [b \in Addr |-> Seen(B, fs, b).balance]
      BY <2>1 DEF IsLook
    <3> HIDE DEF p, q
    <3>2. p = [b \in Addr |-> p[b]] /\ DOMAIN q = Addr
      BY <3>1
    <3>3. \A b \in Addr : p[b] = IF b = a THEN now.balance ELSE q[b]
      BY <1>7, <3>1
    <3>4. p = Full!Put(q, a, now.balance)
      BY <3>2, <3>3, PutIs
    <3> QED BY <3>4 DEF p, q
  <2>4. t.code = Full!Put(s.code, a, now.code)
    <3> DEFINE p == t.code
               q == s.code
    <3>1. /\ p = [b \in Addr |-> Seen(B, gs, b).code]
          /\ q = [b \in Addr |-> Seen(B, fs, b).code]
      BY <2>1 DEF IsLook
    <3> HIDE DEF p, q
    <3>2. p = [b \in Addr |-> p[b]] /\ DOMAIN q = Addr
      BY <3>1
    <3>3. \A b \in Addr : p[b] = IF b = a THEN now.code ELSE q[b]
      BY <1>7, <3>1
    <3>4. p = Full!Put(q, a, now.code)
      BY <3>2, <3>3, PutIs
    <3> QED BY <3>4 DEF p, q
  <2>5. t.storage = s.storage /\ t.original = s.original
    BY <1>8, <2>1 DEF IsLook
  <2>6. t.deleted = s.deleted /\ t.logs = s.logs
    BY <1>9, <2>1 DEF IsLook
  <2>7. t = StateOf(t.nonce, t.balance, t.code, t.storage, t.original, t.deleted, t.logs)
    BY <2>1 DEF IsLook
  <2> QED BY <2>2, <2>3, <2>4, <2>5, <2>6, <2>7 DEF Paid
<1> QED BY <1>2, <1>5, <1>6, <1>10 DEF Turned, SameSlots, now, gs

LEMMA PutSame ==
    ASSUME NEW q, NEW a, NEW D, q = [b \in D |-> q[b]]
    PROVE  Full!Put(q, a, q[a]) = q
<1>1. DOMAIN q = D /\ \A b \in D : q[b] = IF b = a THEN q[a] ELSE q[b]
  OBVIOUS
<1> QED BY <1>1, PutIs

LEMMA TurnedAgain ==
    ASSUME NEW fs, NEW gs, NEW hs, NEW lost, NEW s, NEW t,
           Turned(fs, gs, lost, s), Turned(gs, hs, lost, t)
    PROVE  Turned(fs, hs, lost, t)
BY DEF Turned, SameSlots

(* What Paid does to one of the three fields of an account.                *)
PaidParts(s, old, a) ==
    /\ Paid(s, a, [nonce |-> old.nonce, balance |-> old.balance, code |-> old.code]) = s
    /\ \A n : Paid(s, a, [nonce |-> n, balance |-> old.balance, code |-> old.code])
               = [s EXCEPT !.nonce = Full!Put(@, a, n)]
    /\ \A b : Paid(s, a, [nonce |-> old.nonce, balance |-> b, code |-> old.code])
               = [s EXCEPT !.balance = Full!Put(@, a, b)]
    /\ \A c : Paid(s, a, [nonce |-> old.nonce, balance |-> old.balance, code |-> c])
               = [s EXCEPT !.code = Full!Put(@, a, c)]

LEMMA PaidIs ==
    ASSUME NEW B, NEW fs, NEW lost, NEW a \in Addr
    PROVE  PaidParts(Look(B, fs, lost), Seen(B, fs, a), a)
<1> DEFINE s == Look(B, fs, lost)
           old == Seen(B, fs, a)
<1>1. IsLook(s, B, fs, lost)
  BY LookFields
<1> HIDE DEF s
<1>2. s.nonce = [e \in Addr |-> s.nonce[e]] /\ s.nonce[a] = old.nonce
  <2> DEFINE q == s.nonce
  <2>1. q = [e \in Addr |-> Seen(B, fs, e).nonce]
    BY <1>1 DEF IsLook
  <2> HIDE DEF q
  <2>2. q = [e \in Addr |-> q[e]] /\ q[a] = old.nonce
    BY <2>1
  <2> QED BY <2>2 DEF q
<1>3. s.balance = [e \in Addr |-> s.balance[e]] /\ s.balance[a] = old.balance
  <2> DEFINE q == s.balance
  <2>1. q = [e \in Addr |-> Seen(B, fs, e).balance]
    BY <1>1 DEF IsLook
  <2> HIDE DEF q
  <2>2. q = [e \in Addr |-> q[e]] /\ q[a] = old.balance
    BY <2>1
  <2> QED BY <2>2 DEF q
<1>4. s.code = [e \in Addr |-> s.code[e]] /\ s.code[a] = old.code
  <2> DEFINE q == s.code
  <2>1. q = [e \in Addr |-> Seen(B, fs, e).code]
    BY <1>1 DEF IsLook
  <2> HIDE DEF q
  <2>2. q = [e \in Addr |-> q[e]] /\ q[a] = old.code
    BY <2>1
  <2> QED BY <2>2 DEF q
<1>5. /\ Full!Put(s.nonce, a, old.nonce) = s.nonce
      /\ Full!Put(s.balance, a, old.balance) = s.balance
      /\ Full!Put(s.code, a, old.code) = s.code
  BY <1>2, <1>3, <1>4, PutSame
<1>6. s = StateOf(s.nonce, s.balance, s.code, s.storage, s.original, s.deleted, s.logs)
  BY <1>1 DEF IsLook
<1> HIDE DEF old
<1>7. \A v : /\ [s EXCEPT !.nonce = v]
                   = StateOf(v, s.balance, s.code, s.storage, s.original, s.deleted, s.logs)
             /\ [s EXCEPT !.balance = v]
                   = StateOf(s.nonce, v, s.code, s.storage, s.original, s.deleted, s.logs)
             /\ [s EXCEPT !.code = v]
                   = StateOf(s.nonce, s.balance, v, s.storage, s.original, s.deleted, s.logs)
  BY <1>6 DEF StateOf
<1>8. ASSUME NEW n
      PROVE  Paid(s, a, [nonce |-> n, balance |-> old.balance, code |-> old.code])
               = [s EXCEPT !.nonce = Full!Put(@, a, n)]
  BY <1>5, <1>7 DEF Paid
<1>9. ASSUME NEW b
      PROVE  Paid(s, a, [nonce |-> old.nonce, balance |-> b, code |-> old.code])
               = [s EXCEPT !.balance = Full!Put(@, a, b)]
  BY <1>5, <1>7 DEF Paid
<1>10. ASSUME NEW c
       PROVE  Paid(s, a, [nonce |-> old.nonce, balance |-> old.balance, code |-> c])
                = [s EXCEPT !.code = Full!Put(@, a, c)]
  BY <1>5, <1>7 DEF Paid
<1>11. Paid(s, a, [nonce |-> old.nonce, balance |-> old.balance, code |-> old.code]) = s
  BY <1>5, <1>6 DEF Paid
<1> QED BY <1>8, <1>9, <1>10, <1>11 DEF PaidParts, s, old

LEMMA LookAt ==
    ASSUME NEW B, NEW fs, NEW lost, NEW a \in Addr
    PROVE  /\ Look(B, fs, lost).nonce[a] = Seen(B, fs, a).nonce
           /\ Look(B, fs, lost).balance[a] = Seen(B, fs, a).balance
           /\ Look(B, fs, lost).code[a] = Seen(B, fs, a).code
BY DEF Look

(* A change of the entry that AccountMut finds.                            *)
LEMMA EntryShows ==
    ASSUME backend \in Backend, NEW fs \in Seq(Substate), fs # <<>>, NEW a \in Addr,
           NEW lost
    PROVE  LET acc == AccountMut(fs, a)
               s == Look(backend, fs, lost)
           IN  /\ Turned(fs, WithAccount(fs, a, acc), lost, s)
               /\ \A n \in Nat :
                    Turned(fs, WithAccount(fs, a, [acc EXCEPT !.nonce = n]), lost,
                           [s EXCEPT !.nonce = Full!Put(@, a, n)])
               /\ \A b \in Nat :
                    Turned(fs, WithAccount(fs, a, [acc EXCEPT !.balance = b]), lost,
                           [s EXCEPT !.balance = Full!Put(@, a, b)])
               /\ \A c \in BOOLEAN :
                    Turned(fs, WithAccount(fs, a, [acc EXCEPT !.code = c]), lost,
                           [s EXCEPT !.code = Full!Put(@, a, c)])
<1> DEFINE acc == AccountMut(fs, a)
           old == Seen(backend, fs, a)
           s == Look(backend, fs, lost)
           below == backend.accounts[a].code
<1>1. /\ acc \in StackAccount
      /\ acc = [nonce |-> acc.nonce, balance |-> acc.balance, code |-> acc.code,
                reset |-> acc.reset]
      /\ EntrySeen(acc, below) = old
      /\ acc.reset = HasReset(Inner(fs), a)
  <2>1. Rest(fs) \in Seq(Substate) /\ Inner(fs) \in Substate /\ fs = Append(Rest(fs), Inner(fs))
    BY EndOfSeq
  <2> DEFINE lower == Rest(fs)
             f == Inner(fs)
  <2> HIDE DEF lower, f
  <2>2. fs = Append(lower, f) /\ lower \in Seq(Substate) /\ f \in Substate
    BY <2>1 DEF lower, f
  <2> QED BY <2>2, AccountMutIs DEF f
<1> HIDE DEF acc, below
<1>2. /\ old.nonce = acc.nonce /\ old.balance = acc.balance
      /\ old.code = IF acc.code = Unset THEN below ELSE acc.code
  BY <1>1 DEF EntrySeen
<1>3. /\ acc.nonce \in Nat /\ acc.balance \in Nat /\ acc.code \in BOOLEAN \cup {Unset}
      /\ acc.reset \in BOOLEAN
  BY <1>1 DEF StackAccount
<1> HIDE DEF old, s
<1>4. PaidParts(s, old, a)
  BY PaidIs DEF s, old
<1>5. \A e \in StackAccount : e.reset = acc.reset =>
          Turned(fs, WithAccount(fs, a, e), lost, Paid(s, a, EntrySeen(e, below)))
  BY <1>1, WithAccountShows DEF s, below
<1>6. Turned(fs, WithAccount(fs, a, acc), lost, s)
  <2>1. EntrySeen(acc, below) = [nonce |-> old.nonce, balance |-> old.balance, code |-> old.code]
    BY <1>2 DEF EntrySeen
  <2>2. Paid(s, a, EntrySeen(acc, below)) = s
    BY <1>4, <2>1 DEF PaidParts
  <2> QED BY <1>1, <1>5, <2>2
<1>7. ASSUME NEW n \in Nat
      PROVE  Turned(fs, WithAccount(fs, a, [acc EXCEPT !.nonce = n]), lost,
                    [s EXCEPT !.nonce = Full!Put(@, a, n)])
  <2> DEFINE e == [acc EXCEPT !.nonce = n]
  <2>1. e = [nonce |-> n, balance |-> acc.balance, code |-> acc.code, reset |-> acc.reset]
    BY <1>1
  <2> HIDE DEF e
  <2>2. e \in StackAccount /\ e.reset = acc.reset
    BY <1>3, <2>1 DEF StackAccount
  <2>3. EntrySeen(e, below) = [nonce |-> n, balance |-> old.balance, code |-> old.code]
    BY <1>2, <2>1 DEF EntrySeen
  <2>4. Paid(s, a, EntrySeen(e, below)) = [s EXCEPT !.nonce = Full!Put(@, a, n)]
    BY <1>4, <2>3 DEF PaidParts
  <2> QED BY <1>5, <2>2, <2>4 DEF e
<1>8. ASSUME NEW b \in Nat
      PROVE  Turned(fs, WithAccount(fs, a, [acc EXCEPT !.balance = b]), lost,
                    [s EXCEPT !.balance = Full!Put(@, a, b)])
  <2> DEFINE e == [acc EXCEPT !.balance = b]
  <2>1. e = [nonce |-> acc.nonce, balance |-> b, code |-> acc.code, reset |-> acc.reset]
    BY <1>1
  <2> HIDE DEF e
  <2>2. e \in StackAccount /\ e.reset = acc.reset
    BY <1>3, <2>1 DEF StackAccount
  <2>3. EntrySeen(e, below) = [nonce |-> old.nonce, balance |-> b, code |-> old.code]
    BY <1>2, <2>1 DEF EntrySeen
  <2>4. Paid(s, a, EntrySeen(e, below)) = [s EXCEPT !.balance = Full!Put(@, a, b)]
    BY <1>4, <2>3 DEF PaidParts
  <2> QED BY <1>5, <2>2, <2>4 DEF e
<1>9. ASSUME NEW c \in BOOLEAN
      PROVE  Turned(fs, WithAccount(fs, a, [acc EXCEPT !.code = c]), lost,
                    [s EXCEPT !.code = Full!Put(@, a, c)])
  <2> DEFINE e == [acc EXCEPT !.code = c]
  <2>1. e = [nonce |-> acc.nonce, balance |-> acc.balance, code |-> c, reset |-> acc.reset]
    BY <1>1
  <2> HIDE DEF e
  <2>2. e \in StackAccount /\ e.reset = acc.reset
    BY <1>3, <2>1 DEF StackAccount
  <2>3. EntrySeen(e, below) = [nonce |-> old.nonce, balance |-> old.balance, code |-> c]
    BY <1>2, <2>1, UnsetIsNothing DEF EntrySeen
  <2>4. Paid(s, a, EntrySeen(e, below)) = [s EXCEPT !.code = Full!Put(@, a, c)]
    BY <1>4, <2>3 DEF PaidParts
  <2> QED BY <1>5, <2>2, <2>4 DEF e
<1> QED BY <1>6, <1>7, <1>8, <1>9 DEF acc, s

LEMMA AccountMutSeen ==
    ASSUME backend \in Backend, NEW fs \in Seq(Substate), fs # <<>>, NEW a \in Addr
    PROVE  LET acc == AccountMut(fs, a)
           IN  /\ acc.nonce = Seen(backend, fs, a).nonce
               /\ acc.balance = Seen(backend, fs, a).balance
               /\ acc.nonce \in Nat /\ acc.balance \in Nat
<1> DEFINE lower == Rest(fs)
           f == Inner(fs)
           acc == AccountMut(fs, a)
<1>1. lower \in Seq(Substate) /\ f \in Substate /\ fs = Append(lower, f)
  BY EndOfSeq
<1> HIDE DEF lower, f
<1>2. acc \in StackAccount /\ EntrySeen(acc, backend.accounts[a].code) = Seen(backend, fs, a)
  BY <1>1, AccountMutIs
<1> HIDE DEF acc
<1>3. acc.nonce = Seen(backend, fs, a).nonce /\ acc.balance = Seen(backend, fs, a).balance
  BY <1>2 DEF EntrySeen
<1>4. acc.nonce \in Nat /\ acc.balance \in Nat
  BY <1>2 DEF StackAccount
<1> QED BY <1>3, <1>4 DEF acc

LEMMA TouchShows ==
    ASSUME backend \in Backend, NEW fs \in Seq(Substate), fs # <<>>, NEW a \in Addr, NEW lost
    PROVE  Turned(fs, Touch(fs, a), lost, Look(backend, fs, lost))
BY EntryShows DEF Touch

LEMMA IncNonceShows ==
    ASSUME backend \in Backend, NEW fs \in Seq(Substate), fs # <<>>, NEW a \in Addr, NEW lost
    PROVE  Turned(fs, IncNonce(fs, a), lost, Full!Bumped(Look(backend, fs, lost), a))
<1> DEFINE acc == AccountMut(fs, a)
           n == acc.nonce + 1
           s == Look(backend, fs, lost)
<1>1. acc.nonce = s.nonce[a] /\ n \in Nat
  BY AccountMutSeen, LookAt
<1>2. IncNonce(fs, a) = WithAccount(fs, a, [acc EXCEPT !.nonce = n])
  BY DEF IncNonce
<1>3. Full!Bumped(s, a) = [s EXCEPT !.nonce = Full!Put(@, a, n)]
  BY <1>1 DEF Full!Bumped
<1> HIDE DEF n, s
<1>4. Turned(fs, WithAccount(fs, a, [acc EXCEPT !.nonce = n]), lost,
             [s EXCEPT !.nonce = Full!Put(@, a, n)])
  BY <1>1, EntryShows DEF s
<1> QED BY <1>2, <1>3, <1>4 DEF s

LEMMA SetCodeShows ==
    ASSUME backend \in Backend, NEW fs \in Seq(Substate), fs # <<>>, NEW a \in Addr,
           NEW code \in BOOLEAN, NEW lost
    PROVE  Turned(fs, SetCode(fs, a, code), lost,
                  [Look(backend, fs, lost) EXCEPT !.code = Full!Put(@, a, code)])
BY EntryShows DEF SetCode

LEMMA ResetBalanceShows ==
    ASSUME backend \in Backend, NEW fs \in Seq(Substate), fs # <<>>, NEW a \in Addr, NEW lost
    PROVE  Turned(fs, ResetBalance(fs, a), lost,
                  [Look(backend, fs, lost) EXCEPT !.balance = Full!Put(@, a, 0)])
BY EntryShows DEF ResetBalance

(* The accounts are shown as before, whatever else has changed.            *)
LEMMA LookOther ==
    ASSUME NEW B, NEW fs, NEW gs, NEW lost, NEW lost2,
           \A a \in Addr : Seen(B, gs, a) = Seen(B, fs, a)
    PROVE  Look(B, gs, lost2) =
             StateOf(Look(B, fs, lost).nonce, Look(B, fs, lost).balance, Look(B, fs, lost).code,
                     [x \in Slots |-> SlotSeen(B, gs, lost2, x)],
                     [x \in Slots |-> OriginalSeen(B, gs, lost2, x)], Deleted(gs), LogsOf(gs))
<1> DEFINE s == Look(B, fs, lost)
           t == Look(B, gs, lost2)
<1>1. IsLook(t, B, gs, lost2) /\ IsLook(s, B, fs, lost)
  BY LookFields
<1> HIDE DEF s, t
<1>2. t.nonce = s.nonce /\ t.balance = s.balance /\ t.code = s.code
  BY <1>1 DEF IsLook
<1>3. t = StateOf(t.nonce, t.balance, t.code, t.storage, t.original, t.deleted, t.logs)
  BY <1>1 DEF IsLook
<1>4. /\ t.storage = [x \in Slots |-> SlotSeen(B, gs, lost2, x)]
      /\ t.original = [x \in Slots |-> OriginalSeen(B, gs, lost2, x)]
      /\ t.deleted = Deleted(gs) /\ t.logs = LogsOf(gs)
  BY <1>1 DEF IsLook
<1> QED BY <1>2, <1>3, <1>4 DEF s, t

LEMMA TransferShows ==
    ASSUME backend \in Backend, NEW fs \in Seq(Substate), fs # <<>>,
           NEW source \in Addr, NEW target \in Addr, NEW value \in Nat,
           value =< Seen(backend, fs, source).balance, NEW lost
    PROVE  Turned(fs, Transfer(fs, source, target, value), lost,
                  Full!Moved(Look(backend, fs, lost), source, target, value))
<1> DEFINE s == Look(backend, fs, lost)
           acc == AccountMut(fs, source)
           rest == acc.balance - value
           debited == WithAccount(fs, source, [acc EXCEPT !.balance = rest])
           mid == [s EXCEPT !.balance = Full!Put(@, source, rest)]
           acc2 == AccountMut(debited, target)
           sum == acc2.balance + value
<1>1. acc.balance = s.balance[source] /\ rest \in Nat
  BY AccountMutSeen, LookAt
<1>2. Turned(fs, debited, lost, mid)
  <2> HIDE DEF rest, s
  <2> QED BY <1>1, EntryShows DEF s
<1>3. debited \in Seq(Substate) /\ debited # <<>> /\ Look(backend, debited, lost) = mid
  <2> HIDE DEF debited, mid
  <2> QED BY <1>2 DEF Turned
<1>4. acc2.balance = mid.balance[target] /\ sum \in Nat
  <2> HIDE DEF debited, mid
  <2>1. acc2.balance = Seen(backend, debited, target).balance /\ acc2.balance \in Nat
    BY <1>3, AccountMutSeen
  <2>2. mid.balance[target] = Seen(backend, debited, target).balance
    BY <1>3, LookAt
  <2> QED BY <2>1, <2>2
<1>5. Turned(debited, WithAccount(debited, target, [acc2 EXCEPT !.balance = sum]), lost,
             [mid EXCEPT !.balance = Full!Put(@, target, sum)])
  <2> HIDE DEF debited, mid, sum
  <2> QED BY <1>3, <1>4, EntryShows
<1>6. Transfer(fs, source, target, value)
        = WithAccount(debited, target, [acc2 EXCEPT !.balance = sum])
  BY DEF Transfer
<1>7. [mid EXCEPT !.balance = Full!Put(@, target, sum)] = Full!Moved(s, source, target, value)
  <2> DEFINE put == Full!Put(s.balance, source, rest)
  <2>1. IsLook(s, backend, fs, lost)
    BY LookFields
  <2>2. s = StateOf(s.nonce, s.balance, s.code, s.storage, s.original, s.deleted, s.logs)
    BY <2>1 DEF IsLook
  <2>3. Full!Moved(s, source, target, value)
          = [s EXCEPT !.balance = Full!Put(put, target, put[target] + value)]
    BY <1>1 DEF Full!Moved
  <2> HIDE DEF put, s
  <2>4. mid = [s EXCEPT !.balance = put] /\ mid.balance = put
    BY <2>2 DEF put, StateOf
  <2> HIDE DEF mid
  <2>5. sum = put[target] + value
    BY <1>4, <2>4
  <2> HIDE DEF sum
  <2>6. \A v : [mid EXCEPT !.balance = v] = [s EXCEPT !.balance = v]
    BY <2>2, <2>4 DEF StateOf
  <2> QED BY <2>3, <2>4, <2>5, <2>6
<1> HIDE DEF debited, mid, sum, s
<1>8. Turned(fs, WithAccount(debited, target, [acc2 EXCEPT !.balance = sum]), lost,
             [mid EXCEPT !.balance = Full!Put(@, target, sum)])
  BY <1>2, <1>5, TurnedAgain
<1> QED BY <1>6, <1>7, <1>8 DEF s

(* Two substates with the same entries over the same stack.                *)
LEMMA SameEntries ==
    ASSUME NEW B \in Backend, NEW lower \in Seq(Substate), NEW f \in Substate, NEW g \in Substate,
           g.accounts = f.accounts
    PROVE  /\ \A a \in Addr : Seen(B, Append(lower, g), a) = Seen(B, Append(lower, f), a)
           /\ \A a : HasReset(g, a) = HasReset(f, a)
BY SeenOver DEF HasReset

LEMMA SameSlotsSeen ==
    ASSUME NEW B, NEW lower \in Seq(Substate), NEW f \in Substate, NEW g \in Substate, NEW lost,
           g.storages = f.storages, \A a \in Addr : HasReset(g, a) = HasReset(f, a)
    PROVE  \A x \in Slots :
               /\ SlotSeen(B, Append(lower, g), lost, x) = SlotSeen(B, Append(lower, f), lost, x)
               /\ OriginalSeen(B, Append(lower, g), lost, x)
                    = OriginalSeen(B, Append(lower, f), lost, x)
<1> TAKE x \in Slots
<1>1. HasReset(g, x[1]) = HasReset(f, x[1])
  BY DEF Slots
<1>2. KnownStorage(Append(lower, g), x) = KnownStorage(Append(lower, f), x)
  BY <1>1, KnownStorageOver
<1>3. KnownOriginalStorage(Append(lower, g), x) = KnownOriginalStorage(Append(lower, f), x)
  BY <1>1, KnownOriginalOver
<1> QED BY <1>2, <1>3 DEF SlotSeen, OriginalSeen

LEMMA LogShows ==
    ASSUME backend \in Backend, NEW fs \in Seq(Substate), fs # <<>>, NEW a \in Addr, NEW lost
    PROVE  Turned(fs, Log(fs, a), lost, [Look(backend, fs, lost) EXCEPT !.logs = Append(@, a)])
<1> DEFINE lower == Rest(fs)
           f == Inner(fs)
           g == [f EXCEPT !.logs = Append(@, a)]
           gs == Append(lower, g)
           B == backend
           s == Look(B, fs, lost)
<1>1. lower \in Seq(Substate) /\ f \in Substate /\ fs = Append(lower, f)
  BY EndOfSeq
<1> HIDE DEF lower, f
<1>2. /\ g \in Substate /\ g.storages = f.storages /\ g.deletes = f.deletes
      /\ g.accounts = f.accounts /\ g.logs = Append(f.logs, a) /\ f.logs \in Seq(Addr)
  <2>1. f.logs \in Seq(Addr) /\ Append(f.logs, a) \in Seq(Addr)
    BY <1>1, SubstateFields, AppendProperties
  <2> QED BY <1>1, <2>1 DEF Substate
<1> HIDE DEF g
<1>3. /\ Log(fs, a) = gs /\ gs \in Seq(Substate) /\ gs # <<>>
      /\ Rest(gs) = lower /\ Inner(gs) = g /\ Inner(fs) = f /\ Rest(fs) = lower
  <2>1. Log(fs, a) = InnerWith(fs, g)
    BY DEF Log, g, f
  <2>2. Inner(fs) = f /\ Rest(fs) = lower /\ InnerWith(fs, g) = gs
    BY <1>1, <1>2, EndOfAppend
  <2>3. gs \in Seq(Substate) /\ gs # <<>> /\ Rest(gs) = lower /\ Inner(gs) = g
    BY <1>1, <1>2, EndOfAppend
  <2> QED BY <2>1, <2>2, <2>3
<1>4. /\ \A b \in Addr : Seen(B, gs, b) = Seen(B, fs, b)
      /\ \A b : HasReset(g, b) = HasReset(f, b)
  BY <1>1, <1>2, SameEntries
<1>5. \A x \in Slots : /\ SlotSeen(B, gs, lost, x) = SlotSeen(B, fs, lost, x)
                       /\ OriginalSeen(B, gs, lost, x) = OriginalSeen(B, fs, lost, x)
  BY <1>1, <1>2, <1>4, SameSlotsSeen
<1>6. Deleted(gs) = Deleted(fs)
  BY <1>1, <1>2, DeletedOver
<1>7. LogsOf(gs) = Append(LogsOf(fs), a)
  <2>1. LogsOf(gs) = LogsOf(lower) \o Append(f.logs, a) /\ LogsOf(lower) \in Seq(Addr)
    BY <1>1, <1>2, LogsOver
  <2>2. LogsOf(fs) = LogsOf(lower) \o f.logs
    BY <1>1, LogsOver
  <2> DEFINE p == LogsOf(lower)
             q == f.logs
  <2>3. p \in Seq(Addr) /\ q \in Seq(Addr)
    BY <1>2, <2>1
  <2> HIDE DEF p, q
  <2>4. p \o Append(q, a) = Append(p \o q, a)
    BY <2>3
  <2> QED BY <2>1, <2>2, <2>4 DEF p, q
<1>8. Look(B, gs, lost) = [s EXCEPT !.logs = Append(@, a)]
  <2>1. IsLook(s, B, fs, lost)
    BY LookFields
  <2>2. Look(B, gs, lost) = StateOf(s.nonce, s.balance, s.code,
            [x \in Slots |-> SlotSeen(B, gs, lost, x)],
            [x \in Slots |-> OriginalSeen(B, gs, lost, x)], Deleted(gs), LogsOf(gs))
    BY <1>4, LookOther
  <2> HIDE DEF s, gs
  <2>3. /\ [x \in Slots |-> SlotSeen(B, gs, lost, x)] = s.storage
        /\ [x \in Slots |-> OriginalSeen(B, gs, lost, x)] = s.original
    BY <1>5, <2>1 DEF IsLook
  <2>4. Deleted(gs) = s.deleted /\ LogsOf(gs) = Append(s.logs, a)
    BY <1>6, <1>7, <2>1 DEF IsLook
  <2>5. s = StateOf(s.nonce, s.balance, s.code, s.storage, s.original, s.deleted, s.logs)
    BY <2>1 DEF IsLook
  <2>6. [s EXCEPT !.logs = Append(@, a)]
          = StateOf(s.nonce, s.balance, s.code, s.storage, s.original, s.deleted, Append(s.logs, a))
    BY <2>5, StateExcept
  <2> QED BY <2>2, <2>3, <2>4, <2>6
<1> QED BY <1>2, <1>3, <1>4, <1>8 DEF Turned, SameSlots

LEMMA SetDeletedShows ==
    ASSUME backend \in Backend, NEW fs \in Seq(Substate), fs # <<>>, NEW a \in Addr, NEW lost
    PROVE  Turned(fs, SetDeleted(fs, a), lost,
                  [Look(backend, fs, lost) EXCEPT !.deleted = @ \cup {a}])
<1> DEFINE lower == Rest(fs)
           f == Inner(fs)
           g == [f EXCEPT !.deletes = @ \cup {a}]
           gs == Append(lower, g)
           B == backend
           s == Look(B, fs, lost)
<1>1. lower \in Seq(Substate) /\ f \in Substate /\ fs = Append(lower, f)
  BY EndOfSeq
<1> HIDE DEF lower, f
<1>2. /\ g \in Substate /\ g.storages = f.storages /\ g.deletes = f.deletes \cup {a}
      /\ g.accounts = f.accounts /\ g.logs = f.logs
  BY <1>1 DEF Substate
<1> HIDE DEF g
<1>3. /\ SetDeleted(fs, a) = gs /\ gs \in Seq(Substate) /\ gs # <<>>
      /\ Rest(gs) = lower /\ Inner(gs) = g /\ Inner(fs) = f /\ Rest(fs) = lower
  <2>1. SetDeleted(fs, a) = InnerWith(fs, g)
    BY DEF SetDeleted, g, f
  <2>2. Inner(fs) = f /\ Rest(fs) = lower /\ InnerWith(fs, g) = gs
    BY <1>1, <1>2, EndOfAppend
  <2>3. gs \in Seq(Substate) /\ gs # <<>> /\ Rest(gs) = lower /\ Inner(gs) = g
    BY <1>1, <1>2, EndOfAppend
  <2> QED BY <2>1, <2>2, <2>3
<1>4. /\ \A b \in Addr : Seen(B, gs, b) = Seen(B, fs, b)
      /\ \A b : HasReset(g, b) = HasReset(f, b)
  BY <1>1, <1>2, SameEntries
<1>5. \A x \in Slots : /\ SlotSeen(B, gs, lost, x) = SlotSeen(B, fs, lost, x)
                       /\ OriginalSeen(B, gs, lost, x) = OriginalSeen(B, fs, lost, x)
  BY <1>1, <1>2, <1>4, SameSlotsSeen
<1>6. Deleted(gs) = Deleted(fs) \cup {a}
  <2>1. Deleted(gs) = Deleted(lower) \cup g.deletes /\ Deleted(fs) = Deleted(lower) \cup f.deletes
    BY <1>1, <1>2, DeletedOver
  <2> QED BY <1>2, <2>1
<1>7. LogsOf(gs) = LogsOf(fs)
  BY <1>1, <1>2, LogsOver
<1>8. Look(B, gs, lost) = [s EXCEPT !.deleted = @ \cup {a}]
  <2>1. IsLook(s, B, fs, lost)
    BY LookFields
  <2>2. Look(B, gs, lost) = StateOf(s.nonce, s.balance, s.code,
            [x \in Slots |-> SlotSeen(B, gs, lost, x)],
            [x \in Slots |-> OriginalSeen(B, gs, lost, x)], Deleted(gs), LogsOf(gs))
    BY <1>4, LookOther
  <2> HIDE DEF s, gs
  <2>3. /\ [x \in Slots |-> SlotSeen(B, gs, lost, x)] = s.storage
        /\ [x \in Slots |-> OriginalSeen(B, gs, lost, x)] = s.original
    BY <1>5, <2>1 DEF IsLook
  <2>4. Deleted(gs) = s.deleted \cup {a} /\ LogsOf(gs) = s.logs
    BY <1>6, <1>7, <2>1 DEF IsLook
  <2>5. s = StateOf(s.nonce, s.balance, s.code, s.storage, s.original, s.deleted, s.logs)
    BY <2>1 DEF IsLook
  <2>6. [s EXCEPT !.deleted = @ \cup {a}]
          = StateOf(s.nonce, s.balance, s.code, s.storage, s.original, s.deleted \cup {a}, s.logs)
    BY <2>5, StateExcept
  <2> QED BY <2>2, <2>3, <2>4, <2>6
<1> QED BY <1>2, <1>3, <1>4, <1>8 DEF Turned, SameSlots

(* The substate of fs becomes one with other slots.                        *)
LEMMA SetStorageShows ==
    ASSUME backend \in Backend, NEW fs \in Seq(Substate), fs # <<>>, NEW x \in Slots,
           NEW v \in Values, NEW lost
    PROVE  LET gs == SetStorage(fs, x, v)
           IN  /\ gs \in Seq(Substate) /\ gs # <<>> /\ Rest(gs) = Rest(fs)
               /\ Inner(gs).accounts = Inner(fs).accounts
               /\ Inner(gs).storages = [Inner(fs).storages EXCEPT ![x] = v]
               /\ Look(backend, gs, lost)
                    = [Look(backend, fs, lost) EXCEPT !.storage = Full!Put(@, x, v)]
<1> DEFINE lower == Rest(fs)
           f == Inner(fs)
           g == [f EXCEPT !.storages[x] = v]
           gs == Append(lower, g)
           B == backend
           s == Look(B, fs, lost)
<1>1. lower \in Seq(Substate) /\ f \in Substate /\ fs = Append(lower, f)
  BY EndOfSeq
<1> HIDE DEF lower, f
<1>2. /\ g \in Substate /\ g.storages = [f.storages EXCEPT ![x] = v] /\ g.deletes = f.deletes
      /\ g.accounts = f.accounts /\ g.logs = f.logs
  BY <1>1 DEF Substate
<1>3. \A y \in Slots : g.storages[y] = IF y = x THEN v ELSE f.storages[y]
  BY <1>1, <1>2, SubstateFields
<1> HIDE DEF g
<1>4. /\ SetStorage(fs, x, v) = gs /\ gs \in Seq(Substate) /\ gs # <<>>
      /\ Rest(gs) = lower /\ Inner(gs) = g /\ Inner(fs) = f /\ Rest(fs) = lower
  <2>1. SetStorage(fs, x, v) = InnerWith(fs, g)
    BY DEF SetStorage, g, f
  <2>2. Inner(fs) = f /\ Rest(fs) = lower /\ InnerWith(fs, g) = gs
    BY <1>1, <1>2, EndOfAppend
  <2>3. gs \in Seq(Substate) /\ gs # <<>> /\ Rest(gs) = lower /\ Inner(gs) = g
    BY <1>1, <1>2, EndOfAppend
  <2> QED BY <2>1, <2>2, <2>3
<1>5. /\ \A b \in Addr : Seen(B, gs, b) = Seen(B, fs, b)
      /\ \A b : HasReset(g, b) = HasReset(f, b)
  BY <1>1, <1>2, SameEntries
<1>6. \A y \in Slots : /\ SlotSeen(B, gs, lost, y) = IF y = x THEN v ELSE SlotSeen(B, fs, lost, y)
                       /\ OriginalSeen(B, gs, lost, y) = OriginalSeen(B, fs, lost, y)
  <2> TAKE y \in Slots
  <2>1. v # Unset
    BY UnsetIsNothing
  <2>2. KnownStorage(gs, y) = IF y = x THEN v ELSE KnownStorage(fs, y)
    <3>1. KnownStorage(gs, y) = IF g.storages[y] # Unset THEN g.storages[y]
                                ELSE IF HasReset(g, y[1]) THEN 0
                                ELSE KnownStorage(lower, y)
      BY <1>1, <1>2, KnownStorageOver
    <3>2. KnownStorage(fs, y) = IF f.storages[y] # Unset THEN f.storages[y]
                                ELSE IF HasReset(f, y[1]) THEN 0
                                ELSE KnownStorage(lower, y)
      BY <1>1, KnownStorageOver
    <3> HIDE DEF gs
    <3> QED BY <1>3, <1>5, <2>1, <3>1, <3>2
  <2>3. KnownOriginalStorage(gs, y) = KnownOriginalStorage(fs, y)
    BY <1>1, <1>2, <1>5, KnownOriginalOver
  <2> QED BY <2>1, <2>2, <2>3 DEF SlotSeen, OriginalSeen
<1>7. Deleted(gs) = Deleted(fs) /\ LogsOf(gs) = LogsOf(fs)
  <2>1. Deleted(gs) = Deleted(lower) \cup g.deletes /\ Deleted(fs) = Deleted(lower) \cup f.deletes
    BY <1>1, <1>2, DeletedOver
  <2>2. LogsOf(gs) = LogsOf(fs)
    BY <1>1, <1>2, LogsOver
  <2> QED BY <1>2, <2>1, <2>2
<1>8. Look(B, gs, lost) = [s EXCEPT !.storage = Full!Put(@, x, v)]
  <2>1. IsLook(s, B, fs, lost)
    BY LookFields
  <2>2. Look(B, gs, lost) = StateOf(s.nonce, s.balance, s.code,
            [y \in Slots |-> SlotSeen(B, gs, lost, y)],
            [y \in Slots |-> OriginalSeen(B, gs, lost, y)], Deleted(gs), LogsOf(gs))
    BY <1>5, LookOther
  <2> HIDE DEF s, gs
  <2>3. [y \in Slots |-> SlotSeen(B, gs, lost, y)] = Full!Put(s.storage, x, v)
    <3> DEFINE p == [y \in Slots |-> SlotSeen(B, gs, lost, y)]
               q == s.storage
    <3>1. q = [y \in Slots |-> SlotSeen(B, fs, lost, y)]
      BY <2>1 DEF IsLook
    <3>2. p = [y \in Slots |-> p[y]] /\ \A y \in Slots : p[y] = SlotSeen(B, gs, lost, y)
      OBVIOUS
    <3> HIDE DEF p, q
    <3>3. DOMAIN q = Slots /\ \A y \in Slots : p[y] = IF y = x THEN v ELSE q[y]
      BY <1>6, <3>1, <3>2
    <3>4. p = Full!Put(q, x, v)
      BY <3>2, <3>3, PutIs
    <3> QED BY <3>4 DEF p, q
  <2>4. [y \in Slots |-> OriginalSeen(B, gs, lost, y)] = s.original
    BY <1>6, <2>1 DEF IsLook
  <2>5. Deleted(gs) = s.deleted /\ LogsOf(gs) = s.logs
    BY <1>7, <2>1 DEF IsLook
  <2>6. s = StateOf(s.nonce, s.balance, s.code, s.storage, s.original, s.deleted, s.logs)
    BY <2>1 DEF IsLook
  <2>7. \A w : [s EXCEPT !.storage = w]
          = StateOf(s.nonce, s.balance, s.code, w, s.original, s.deleted, s.logs)
    BY <2>6, StateExcept
  <2> QED BY <2>2, <2>3, <2>4, <2>5, <2>7
<1> QED BY <1>2, <1>4, <1>8

(* The slots of the account a are gone from the innermost substate of fs,  *)
(* which has the flag now.                                                 *)
Cleared(fs, gs, lost, a) ==
    /\ gs \in Seq(Substate) /\ gs # <<>>
    /\ Rest(gs) = Rest(fs)
    /\ \A x \in Slots : Inner(gs).storages[x] =
                            IF x[1] = a THEN Unset ELSE Inner(fs).storages[x]
    /\ \A b \in Addr : HasReset(Inner(gs), b) <=> b = a \/ HasReset(Inner(fs), b)
    /\ Look(backend, gs, lost)
         = [Look(backend, fs, lost) EXCEPT !.storage = Full!Emptied(@, a),
                                           !.original = Full!Emptied(@, a)]

LEMMA ResetStorageShows ==
    ASSUME backend \in Backend, NEW fs \in Seq(Substate), fs # <<>>, NEW a \in Addr, NEW lost
    PROVE  Cleared(fs, ResetStorage(fs, a), lost, a)
<1> DEFINE lower == Rest(fs)
           f == Inner(fs)
           e == WithoutStorage(f, {a})
           cleared == Append(lower, e)
           acc == AccountMut(cleared, a)
           flagged == [acc EXCEPT !.reset = TRUE]
           g == [e EXCEPT !.accounts[a] = flagged]
           gs == Append(lower, g)
           B == backend
           s == Look(B, fs, lost)
<1>1. lower \in Seq(Substate) /\ f \in Substate /\ fs = Append(lower, f)
  BY EndOfSeq
<1> HIDE DEF lower, f
<1>2. /\ e \in Substate /\ e.deletes = f.deletes /\ e.accounts = f.accounts /\ e.logs = f.logs
      /\ e.storages = [x \in Slots |-> IF x[1] \in {a} THEN Unset ELSE f.storages[x]]
  <2>1. [x \in Slots |-> IF x[1] \in {a} THEN Unset ELSE f.storages[x]]
            \in [Slots -> Values \cup {Unset}]
    BY <1>1, SubstateFields
  <2> QED BY <1>1, <2>1 DEF Substate, WithoutStorage
<1> HIDE DEF e
<1>3. /\ acc \in StackAccount
      /\ acc = [nonce |-> acc.nonce, balance |-> acc.balance, code |-> acc.code,
                reset |-> acc.reset]
      /\ EntrySeen(acc, B.accounts[a].code) = Seen(B, fs, a)
  <2>1. /\ acc \in StackAccount
        /\ acc = [nonce |-> acc.nonce, balance |-> acc.balance, code |-> acc.code,
                  reset |-> acc.reset]
        /\ EntrySeen(acc, B.accounts[a].code) = Seen(B, cleared, a)
    BY <1>1, <1>2, AccountMutIs
  <2>2. Seen(B, cleared, a) = Seen(B, fs, a)
    BY <1>1, <1>2, SameEntries
  <2> QED BY <2>1, <2>2
<1> HIDE DEF acc
<1>4. /\ flagged \in StackAccount /\ flagged.reset = TRUE
      /\ EntrySeen(flagged, B.accounts[a].code) = Seen(B, fs, a)
  <2>0. acc = [nonce |-> acc.nonce, balance |-> acc.balance, code |-> acc.code,
               reset |-> acc.reset]
    BY <1>3
  <2>1. flagged = [nonce |-> acc.nonce, balance |-> acc.balance, code |-> acc.code, reset |-> TRUE]
    <3>1. \A v : [acc EXCEPT !.reset = v]
                 = [nonce |-> acc.nonce, balance |-> acc.balance, code |-> acc.code, reset |-> v]
      BY <2>0
    <3> QED BY <3>1
  <2> HIDE DEF flagged
  <2>2. acc.nonce \in Nat /\ acc.balance \in Nat /\ acc.code \in BOOLEAN \cup {Unset}
    BY <1>3 DEF StackAccount
  <2>3. EntrySeen(flagged, B.accounts[a].code) = EntrySeen(acc, B.accounts[a].code)
    BY <2>1 DEF EntrySeen
  <2> QED BY <1>3, <2>1, <2>2, <2>3 DEF StackAccount
<1>5. flagged # Unset
  BY <1>4, UnsetIsNothing
<1> HIDE DEF flagged
<1>6. /\ g \in Substate /\ g.storages = e.storages /\ g.deletes = f.deletes /\ g.logs = f.logs
      /\ g.accounts = [f.accounts EXCEPT ![a] = flagged]
  BY <1>2, <1>4 DEF Substate
<1>7. \A b \in Addr : g.accounts[b] = IF b = a THEN flagged ELSE f.accounts[b]
  BY <1>1, <1>6, SubstateFields
<1>8. \A x \in Slots : g.storages[x] = IF x[1] = a THEN Unset ELSE f.storages[x]
  BY <1>2, <1>6
<1> HIDE DEF g
<1>9. \A b \in Addr : HasReset(g, b) <=> b = a \/ HasReset(f, b)
  <2> TAKE b \in Addr
  <2>1. CASE b = a
    BY <1>4, <1>5, <1>7, <2>1 DEF HasReset
  <2>2. CASE b # a
    BY <1>7, <2>2 DEF HasReset
  <2> QED BY <2>1, <2>2
<1>10. /\ ResetStorage(fs, a) = gs /\ gs \in Seq(Substate) /\ gs # <<>>
       /\ Rest(gs) = lower /\ Inner(gs) = g /\ Inner(fs) = f /\ Rest(fs) = lower
  <2>1. Inner(fs) = f /\ Rest(fs) = lower /\ InnerWith(fs, e) = cleared
    BY <1>1, <1>2, EndOfAppend
  <2>2. Inner(cleared) = e /\ InnerWith(cleared, g) = gs
    BY <1>1, <1>2, <1>6, EndOfAppend
  <2>3. ResetStorage(fs, a) = WithAccount(cleared, a, flagged)
    BY <2>1 DEF ResetStorage, flagged, acc, e
  <2>4. WithAccount(cleared, a, flagged) = InnerWith(cleared, g)
    BY <2>2 DEF WithAccount, g
  <2>5. gs \in Seq(Substate) /\ gs # <<>> /\ Rest(gs) = lower /\ Inner(gs) = g
    BY <1>1, <1>6, EndOfAppend
  <2> QED BY <2>1, <2>2, <2>3, <2>4, <2>5
<1>11. \A b \in Addr : Seen(B, gs, b) = Seen(B, fs, b)
  <2> TAKE b \in Addr
  <2>1. Seen(B, gs, b) = IF g.accounts[b] # Unset
                         THEN EntrySeen(g.accounts[b], B.accounts[b].code)
                         ELSE Seen(B, lower, b)
    BY <1>1, <1>6, SeenOver
  <2>2. Seen(B, fs, b) = IF f.accounts[b] # Unset
                         THEN EntrySeen(f.accounts[b], B.accounts[b].code)
                         ELSE Seen(B, lower, b)
    BY <1>1, SeenOver
  <2> QED BY <1>4, <1>5, <1>7, <2>1, <2>2
<1>12. \A y \in Slots :
           /\ SlotSeen(B, gs, lost, y) = IF y[1] = a THEN 0 ELSE SlotSeen(B, fs, lost, y)
           /\ OriginalSeen(B, gs, lost, y) = IF y[1] = a THEN 0 ELSE OriginalSeen(B, fs, lost, y)
  <2> TAKE y \in Slots
  <2>1. y[1] \in Addr
    BY DEF Slots
  <2>2. KnownStorage(gs, y) = IF y[1] = a THEN 0 ELSE KnownStorage(fs, y)
    <3>1. KnownStorage(gs, y) = IF g.storages[y] # Unset THEN g.storages[y]
                                ELSE IF HasReset(g, y[1]) THEN 0
                                ELSE KnownStorage(lower, y)
      BY <1>1, <1>6, KnownStorageOver
    <3>2. KnownStorage(fs, y) = IF f.storages[y] # Unset THEN f.storages[y]
                                ELSE IF HasReset(f, y[1]) THEN 0
                                ELSE KnownStorage(lower, y)
      BY <1>1, KnownStorageOver
    <3> HIDE DEF gs
    <3> QED BY <1>8, <1>9, <2>1, <3>1, <3>2
  <2>3. KnownOriginalStorage(gs, y) = IF y[1] = a THEN 0 ELSE KnownOriginalStorage(fs, y)
    <3>1. KnownOriginalStorage(gs, y) = IF HasReset(g, y[1]) THEN 0
                                        ELSE KnownOriginalStorage(lower, y)
      BY <1>1, <1>6, KnownOriginalOver
    <3>2. KnownOriginalStorage(fs, y) = IF HasReset(f, y[1]) THEN 0
                                        ELSE KnownOriginalStorage(lower, y)
      BY <1>1, KnownOriginalOver
    <3> HIDE DEF gs
    <3> QED BY <1>9, <2>1, <3>1, <3>2
  <2> QED BY <2>2, <2>3, UnsetIsNothing DEF SlotSeen, OriginalSeen
<1>13. Deleted(gs) = Deleted(fs) /\ LogsOf(gs) = LogsOf(fs)
  <2>1. Deleted(gs) = Deleted(lower) \cup g.deletes /\ Deleted(fs) = Deleted(lower) \cup f.deletes
    BY <1>1, <1>6, DeletedOver
  <2>2. LogsOf(gs) = LogsOf(fs)
    BY <1>1, <1>6, LogsOver
  <2> QED BY <1>6, <2>1, <2>2
<1>14. Look(B, gs, lost) = [s EXCEPT !.storage = Full!Emptied(@, a),
                                     !.original = Full!Emptied(@, a)]
  <2>1. IsLook(s, B, fs, lost)
    BY LookFields
  <2>2. Look(B, gs, lost) = StateOf(s.nonce, s.balance, s.code,
            [y \in Slots |-> SlotSeen(B, gs, lost, y)],
            [y \in Slots |-> OriginalSeen(B, gs, lost, y)], Deleted(gs), LogsOf(gs))
    BY <1>11, LookOther
  <2> HIDE DEF s, gs
  <2>3. [y \in Slots |-> SlotSeen(B, gs, lost, y)] = Full!Emptied(s.storage, a)
    <3>1. s.storage = [y \in Slots |-> SlotSeen(B, fs, lost, y)]
      BY <2>1 DEF IsLook
    <3> DEFINE q == s.storage
    <3> HIDE DEF q
    <3>2. \A y \in Slots : q[y] = SlotSeen(B, fs, lost, y)
      BY <3>1 DEF q
    <3>3. [y \in Slots |-> SlotSeen(B, gs, lost, y)] = Full!Emptied(q, a)
      BY <1>12, <3>2 DEF Full!Emptied, Full!Slots, Slots
    <3> QED BY <3>3 DEF q
  <2>4. [y \in Slots |-> OriginalSeen(B, gs, lost, y)] = Full!Emptied(s.original, a)
    <3>1. s.original = [y \in Slots |-> OriginalSeen(B, fs, lost, y)]
      BY <2>1 DEF IsLook
    <3> DEFINE q == s.original
    <3> HIDE DEF q
    <3>2. \A y \in Slots : q[y] = OriginalSeen(B, fs, lost, y)
      BY <3>1 DEF q
    <3>3. [y \in Slots |-> OriginalSeen(B, gs, lost, y)] = Full!Emptied(q, a)
      BY <1>12, <3>2 DEF Full!Emptied, Full!Slots, Slots
    <3> QED BY <3>3 DEF q
  <2>5. Deleted(gs) = s.deleted /\ LogsOf(gs) = s.logs
    BY <1>13, <2>1 DEF IsLook
  <2>6. s = StateOf(s.nonce, s.balance, s.code, s.storage, s.original, s.deleted, s.logs)
    BY <2>1 DEF IsLook
  <2>7. \A v, w : [s EXCEPT !.storage = v, !.original = w]
          = StateOf(s.nonce, s.balance, s.code, v, w, s.deleted, s.logs)
    BY <2>6, StateExceptTwo
  <2> QED BY <2>2, <2>3, <2>4, <2>5, <2>7
<1> QED BY <1>8, <1>9, <1>10, <1>14 DEF Cleared

-----------------------------------------------------------------------------
(* Substates come and go, and what is shown stays.                         *)

LEMMA LookSame ==
    ASSUME NEW B, NEW fs, NEW gs, NEW lost, NEW lost2,
           \A a \in Addr : Seen(B, gs, a) = Seen(B, fs, a),
           \A x \in Slots : /\ SlotSeen(B, gs, lost2, x) = SlotSeen(B, fs, lost, x)
                            /\ OriginalSeen(B, gs, lost2, x) = OriginalSeen(B, fs, lost, x),
           Deleted(gs) = Deleted(fs), LogsOf(gs) = LogsOf(fs)
    PROVE  Look(B, gs, lost2) = Look(B, fs, lost)
BY DEF Look

LEMMA NewFields ==
    /\ NewSubstate \in Substate
    /\ \A a \in Addr : NewSubstate.accounts[a] = Unset /\ ~HasReset(NewSubstate, a)
    /\ \A x \in Slots : NewSubstate.storages[x] = Unset
    /\ NewSubstate.deletes = {} /\ NewSubstate.logs = <<>>
BY DEF NewSubstate, Substate, HasReset

LEMMA EnterShows ==
    ASSUME NEW B \in Backend, NEW fs \in Seq(Substate), NEW lost
    PROVE  /\ Enter(fs) \in Seq(Substate) /\ Enter(fs) # <<>>
           /\ Rest(Enter(fs)) = fs /\ Inner(Enter(fs)) = NewSubstate
           /\ Look(B, Enter(fs), lost) = Look(B, fs, lost)
           /\ \A a \in Addr : Seen(B, Enter(fs), a) = Seen(B, fs, a)
<1> DEFINE f == NewSubstate
           gs == Append(fs, f)
<1>1. f \in Substate
  BY NewFields
<1>2. gs \in Seq(Substate) /\ gs # <<>> /\ Rest(gs) = fs /\ Inner(gs) = f
  BY <1>1, EndOfAppend
<1>3. /\ \A a \in Addr : f.accounts[a] = Unset /\ ~HasReset(f, a)
      /\ \A x \in Slots : f.storages[x] = Unset
      /\ f.deletes = {} /\ f.logs = <<>>
  BY NewFields
<1> HIDE DEF f
<1>4. \A a \in Addr : Seen(B, gs, a) = Seen(B, fs, a)
  BY <1>1, <1>3, SeenOver
<1>5. ASSUME NEW x \in Slots
      PROVE  /\ SlotSeen(B, gs, lost, x) = SlotSeen(B, fs, lost, x)
             /\ OriginalSeen(B, gs, lost, x) = OriginalSeen(B, fs, lost, x)
  <2>1. x[1] \in Addr
    BY DEF Slots
  <2>2. KnownStorage(gs, x) = KnownStorage(fs, x)
    BY <1>1, <1>3, <2>1, KnownStorageOver
  <2>3. KnownOriginalStorage(gs, x) = KnownOriginalStorage(fs, x)
    BY <1>1, <1>3, <2>1, KnownOriginalOver
  <2> QED BY <2>2, <2>3 DEF SlotSeen, OriginalSeen
<1>6. Deleted(gs) = Deleted(fs)
  <2>1. Deleted(gs) = Deleted(fs) \cup f.deletes
    BY <1>1, DeletedOver
  <2> QED BY <1>3, <2>1
<1>7. LogsOf(gs) = LogsOf(fs)
  <2>1. LogsOf(gs) = LogsOf(fs) \o f.logs /\ LogsOf(fs) \in Seq(Addr)
    BY <1>1, LogsOver
  <2> QED BY <1>3, <2>1, ConcatEmptySeq
<1>8. Look(B, gs, lost) = Look(B, fs, lost)
  BY <1>4, <1>5, <1>6, <1>7, LookSame
<1> QED BY <1>2, <1>4, <1>8 DEF Enter, f

(* What the store shows, before a transaction has changed anything.        *)
LEMMA NothingKnown ==
    ASSUME NEW B \in Backend
    PROVE  /\ \A a \in Addr : Seen(B, <<>>, a) = B.accounts[a]
           /\ \A x \in Slots : KnownStorage(<<>>, x) = Unset
           /\ \A x \in Slots : /\ SlotSeen(B, <<>>, {}, x) = B.storages[x]
                               /\ OriginalSeen(B, <<>>, {}, x) = B.storages[x]
           /\ Deleted(<<>>) = {} /\ LogsOf(<<>>) = <<>>
<1>1. DOMAIN <<>> = {}
  OBVIOUS
<1>2. \A a \in Addr : Seen(B, <<>>, a) = B.accounts[a]
  BY <1>1 DEF Seen, KnownAccount
<1>3. \A x \in Slots : KnownStorage(<<>>, x) = Unset
  BY <1>1 DEF KnownStorage
<1>4. \A x \in Slots : KnownOriginalStorage(<<>>, x) = Unset
  BY <1>1 DEF KnownOriginalStorage
<1>5. \A x \in Slots : SlotSeen(B, <<>>, {}, x) = B.storages[x]
  BY <1>3 DEF SlotSeen
<1>6. \A x \in Slots : OriginalSeen(B, <<>>, {}, x) = B.storages[x]
  BY <1>4, UnsetIsNothing DEF OriginalSeen
<1>7. Deleted(<<>>) = {}
  BY <1>1 DEF Deleted
<1>8. LogsOf(<<>>) = <<>>
  <2>1. [i \in DOMAIN <<>> |-> <<>>[i].logs] = <<>>
    BY <1>1
  <2>2. FlattenSeq(<<>>) = <<>>
    <3>1. <<>> \in Seq(Seq(Addr)) /\ Len(<<>>) = 0
      OBVIOUS
    <3> QED BY <3>1, FlattenSeqIs
  <2> QED BY <2>1, <2>2 DEF LogsOf
<1> QED BY <1>2, <1>3, <1>5, <1>6, <1>7, <1>8

LEMMA LookOfNothing ==
    ASSUME NEW B \in Backend
    PROVE  LET s == Look(B, <<>>, {})
           IN  /\ s \in Full!State
               /\ s.deleted = {} /\ s.logs = <<>> /\ s.original = s.storage
<1> DEFINE s == Look(B, <<>>, {})
<1>1. IsLook(s, B, <<>>, {})
  BY LookFields
<1> HIDE DEF s
<1>2. \A a \in Addr : B.accounts[a] \in Account
  BY BackendFields
<1>3. \A x \in Slots : B.storages[x] \in Values
  BY BackendFields
<1>4. s.nonce = [a \in Addr |-> B.accounts[a].nonce]
  BY <1>1, NothingKnown DEF IsLook
<1>5. s.balance = [a \in Addr |-> B.accounts[a].balance]
  BY <1>1, NothingKnown DEF IsLook
<1>6. s.code = [a \in Addr |-> B.accounts[a].code]
  BY <1>1, NothingKnown DEF IsLook
<1>7. s.storage = [x \in Slots |-> B.storages[x]]
  BY <1>1, NothingKnown DEF IsLook
<1>8. s.original = [x \in Slots |-> B.storages[x]]
  BY <1>1, NothingKnown DEF IsLook
<1>9. s.deleted = {} /\ s.logs = <<>>
  BY <1>1, NothingKnown DEF IsLook
<1>10. /\ s.nonce \in [Addr -> Nat] /\ s.balance \in [Addr -> Nat]
       /\ s.code \in [Addr -> BOOLEAN]
  BY <1>2, <1>4, <1>5, <1>6 DEF Account
<1>11. s.storage \in [Slots -> Values] /\ s.original \in [Slots -> Values]
  BY <1>3, <1>7, <1>8
<1>12. s.deleted \in SUBSET Addr /\ s.logs \in Seq(Addr)
  BY <1>9
<1>13. s = StateOf(s.nonce, s.balance, s.code, s.storage, s.original, s.deleted, s.logs)
  BY <1>1 DEF IsLook
<1>14. s \in Full!State
  BY <1>10, <1>11, <1>12, <1>13 DEF Full!State, StateOf, Full!Slots, Slots
<1> QED BY <1>7, <1>8, <1>9, <1>14 DEF s

(* What a commit makes of the entries of parent and child.                 *)
LEMMA MergedFields ==
    ASSUME NEW p \in Substate, NEW c \in Substate
    PROVE  LET m == Merged(p, c)
           IN  /\ m \in Substate
               /\ \A a \in Addr : m.accounts[a] = IF c.accounts[a] # Unset THEN c.accounts[a]
                                                  ELSE p.accounts[a]
               /\ \A x \in Slots : m.storages[x] = IF c.storages[x] # Unset THEN c.storages[x]
                                                   ELSE IF HasReset(c, x[1]) THEN Unset
                                                   ELSE p.storages[x]
               /\ m.deletes = p.deletes \cup c.deletes
               /\ m.logs = p.logs \o c.logs
<1> DEFINE m == Merged(p, c)
           as == {a \in Addr : HasReset(c, a)}
           w == WithoutStorage(p, as)
           left == [x \in Slots |-> IF x[1] \in as THEN Unset ELSE p.storages[x]]
           accs == Over(c.accounts, p.accounts)
           stores == Over(c.storages, left)
<1>1. w.storages = left
  BY DEF WithoutStorage, Substate
<1>2. m = [accounts |-> accs, storages |-> stores,
           deletes |-> p.deletes \cup c.deletes, logs |-> p.logs \o c.logs]
  BY <1>1 DEF Merged
<1>3. accs = [a \in Addr |-> IF c.accounts[a] # Unset THEN c.accounts[a] ELSE p.accounts[a]]
  BY SubstateFields DEF Over, OrElse
<1>4. stores = [x \in Slots |-> IF c.storages[x] # Unset THEN c.storages[x] ELSE left[x]]
  BY DEF Over, OrElse
<1>5. \A x \in Slots : x[1] \in Addr /\ left[x] = IF HasReset(c, x[1]) THEN Unset ELSE p.storages[x]
  BY DEF Slots
<1>6. /\ \A a \in Addr : accs[a] = IF c.accounts[a] # Unset THEN c.accounts[a] ELSE p.accounts[a]
      /\ accs \in [Addr -> StackAccount \cup {Unset}]
  <2>1. \A a \in Addr : /\ c.accounts[a] \in StackAccount \cup {Unset}
                        /\ p.accounts[a] \in StackAccount \cup {Unset}
    BY SubstateFields
  <2> HIDE DEF accs
  <2> QED BY <1>3, <2>1
<1>7. /\ \A x \in Slots : stores[x] = IF c.storages[x] # Unset THEN c.storages[x]
                                      ELSE IF HasReset(c, x[1]) THEN Unset
                                      ELSE p.storages[x]
      /\ stores \in [Slots -> Values \cup {Unset}]
  <2>1. \A x \in Slots : /\ c.storages[x] \in Values \cup {Unset}
                         /\ p.storages[x] \in Values \cup {Unset}
    BY SubstateFields
  <2> HIDE DEF stores, left
  <2> QED BY <1>4, <1>5, <2>1
<1>8. /\ p.deletes \cup c.deletes \in SUBSET Addr
      /\ p.logs \o c.logs \in Seq(Addr)
  <2>1. /\ p.deletes \in SUBSET Addr /\ c.deletes \in SUBSET Addr
        /\ p.logs \in Seq(Addr) /\ c.logs \in Seq(Addr)
    BY SubstateFields
  <2> QED BY <2>1, ConcatProperties
<1> HIDE DEF accs, stores, m
<1>9. m \in Substate
  BY <1>2, <1>6, <1>7, <1>8 DEF Substate
<1>10. /\ m.accounts = accs /\ m.storages = stores
       /\ m.deletes = p.deletes \cup c.deletes /\ m.logs = p.logs \o c.logs
  BY <1>2
<1> QED BY <1>6, <1>7, <1>9, <1>10 DEF m

LEMMA MergedReset ==
    ASSUME NEW p \in Substate, NEW c \in Substate, NEW a \in Addr
    PROVE  HasReset(Merged(p, c), a) <=>
               HasReset(c, a) \/ (HasReset(p, a) /\ a \notin ForgottenBy(p, c))
<1> DEFINE m == Merged(p, c)
<1>1. m.accounts[a] = IF c.accounts[a] # Unset THEN c.accounts[a] ELSE p.accounts[a]
  <2>1. DOMAIN p.accounts = Addr
    BY SubstateFields
  <2>2. m.accounts = Over(c.accounts, p.accounts)
    BY DEF Merged
  <2> HIDE DEF m
  <2> QED BY <2>1, <2>2 DEF Over, OrElse
<1> HIDE DEF m
<1>2. a \in ForgottenBy(p, c) <=> /\ HasReset(p, a)
                                  /\ c.accounts[a] # Unset /\ ~c.accounts[a].reset
  BY DEF ForgottenBy
<1>3. HasReset(m, a) <=> HasReset(c, a) \/ (HasReset(p, a) /\ a \notin ForgottenBy(p, c))
  BY <1>1, <1>2 DEF HasReset
<1> QED BY <1>3 DEF m

LEMMA KnowsNothing ==
    ASSUME NEW lower \in Seq(Substate), NEW f \in Substate, NEW a \in Addr,
           NothingUnderReset(lower, f), HasReset(f, a), NEW x \in Slots, x[1] = a
    PROVE  KnownStorage(lower, x) = Unset
<1>1. \A i \in DOMAIN lower : ~HasReset(lower[i], a) /\ lower[i].storages[x] = Unset
  BY DEF NothingUnderReset
<1> QED BY <1>1 DEF KnownStorage

SameAfterCommit(B, lower, p, c, lost) ==
    LET fs == Append(Append(lower, p), c)
        gs == Append(lower, Merged(p, c))
    IN  /\ ExitCommit(fs) = gs
        /\ \A a \in Addr : Seen(B, gs, a) = Seen(B, fs, a)
        /\ Look(B, gs, lost \cup ForgottenBy(p, c)) = Look(B, fs, lost)

(* A commit shows the caller what its callee saw.                          *)
LEMMA CommitShows ==
    ASSUME NEW B \in Backend, NEW lower \in Seq(Substate), NEW p \in Substate, NEW c \in Substate,
           NothingUnderReset(lower, p), NEW lost
    PROVE  SameAfterCommit(B, lower, p, c, lost)
<1> DEFINE mid == Append(lower, p)
           fs == Append(mid, c)
           m == Merged(p, c)
           gs == Append(lower, m)
           undone == ForgottenBy(p, c)
<1>1. mid \in Seq(Substate) /\ Rest(mid) = lower /\ Inner(mid) = p
  BY EndOfAppend
<1>2. /\ m \in Substate
      /\ \A a \in Addr : m.accounts[a] = IF c.accounts[a] # Unset THEN c.accounts[a]
                                         ELSE p.accounts[a]
      /\ \A x \in Slots : m.storages[x] = IF c.storages[x] # Unset THEN c.storages[x]
                                          ELSE IF HasReset(c, x[1]) THEN Unset
                                          ELSE p.storages[x]
      /\ m.deletes = p.deletes \cup c.deletes
      /\ m.logs = p.logs \o c.logs
  BY MergedFields
<1>3. \A a \in Addr : HasReset(m, a) <=>
          HasReset(c, a) \/ (HasReset(p, a) /\ a \notin undone)
  BY MergedReset
<1>4. \A a \in undone : HasReset(p, a)
  BY DEF ForgottenBy
<1>5. ExitCommit(fs) = gs
  <2>1. Rest(fs) = mid /\ Inner(fs) = c
    BY <1>1, EndOfAppend
  <2>2. InnerWith(mid, m) = gs
    BY <1>2, EndOfAppend
  <2> QED BY <1>1, <2>1, <2>2 DEF ExitCommit
<1> HIDE DEF m, undone
<1>6. \A a \in Addr : Seen(B, gs, a) = Seen(B, fs, a)
  <2> TAKE a \in Addr
  <2>1. Seen(B, gs, a) = IF m.accounts[a] # Unset
                         THEN EntrySeen(m.accounts[a], B.accounts[a].code)
                         ELSE Seen(B, lower, a)
    BY <1>2, SeenOver
  <2>2. Seen(B, fs, a) = IF c.accounts[a] # Unset
                         THEN EntrySeen(c.accounts[a], B.accounts[a].code)
                         ELSE Seen(B, mid, a)
    BY <1>1, SeenOver
  <2>3. Seen(B, mid, a) = IF p.accounts[a] # Unset
                          THEN EntrySeen(p.accounts[a], B.accounts[a].code)
                          ELSE Seen(B, lower, a)
    BY SeenOver
  <2> QED BY <1>2, <2>1, <2>2, <2>3
<1>7. ASSUME NEW x \in Slots
      PROVE  /\ SlotSeen(B, gs, lost \cup undone, x) = SlotSeen(B, fs, lost, x)
             /\ OriginalSeen(B, gs, lost \cup undone, x) = OriginalSeen(B, fs, lost, x)
  <2>1. x[1] \in Addr
    BY DEF Slots
  <2>2. KnownStorage(gs, x) = IF m.storages[x] # Unset THEN m.storages[x]
                              ELSE IF HasReset(m, x[1]) THEN 0
                              ELSE KnownStorage(lower, x)
    BY <1>2, KnownStorageOver
  <2>3. KnownStorage(fs, x) = IF c.storages[x] # Unset THEN c.storages[x]
                              ELSE IF HasReset(c, x[1]) THEN 0
                              ELSE KnownStorage(mid, x)
    BY <1>1, KnownStorageOver
  <2>4. KnownStorage(mid, x) = IF p.storages[x] # Unset THEN p.storages[x]
                               ELSE IF HasReset(p, x[1]) THEN 0
                               ELSE KnownStorage(lower, x)
    BY KnownStorageOver
  <2>5. HasReset(p, x[1]) => KnownStorage(lower, x) = Unset
    BY <2>1, KnowsNothing
  <2>6. SlotSeen(B, gs, lost \cup undone, x) = SlotSeen(B, fs, lost, x)
    <3> DEFINE kg == KnownStorage(gs, x)
               kf == KnownStorage(fs, x)
    <3>1. kg = kf \/ (kg = Unset /\ kf = 0 /\ x[1] \in undone)
      <4> HIDE DEF fs, gs, mid
      <4> QED BY <1>2, <1>3, <2>1, <2>2, <2>3, <2>4, <2>5
    <3>2. x[1] \in undone => kf # Unset
      <4> HIDE DEF fs, gs, mid
      <4> QED BY <1>4, <2>3, <2>4, UnsetIsNothing
    <3>3. SlotSeen(B, gs, lost \cup undone, x) =
              IF kg # Unset THEN kg ELSE IF x[1] \in lost \cup undone THEN 0 ELSE B.storages[x]
      BY DEF SlotSeen
    <3>4. SlotSeen(B, fs, lost, x) =
              IF kf # Unset THEN kf ELSE IF x[1] \in lost THEN 0 ELSE B.storages[x]
      BY DEF SlotSeen
    <3> HIDE DEF fs, gs, kg, kf
    <3> QED BY <3>1, <3>2, <3>3, <3>4, UnsetIsNothing
  <2>7. KnownOriginalStorage(gs, x) = IF HasReset(m, x[1]) THEN 0
                                      ELSE KnownOriginalStorage(lower, x)
    BY <1>2, KnownOriginalOver
  <2>8. KnownOriginalStorage(fs, x) = IF HasReset(c, x[1]) THEN 0
                                      ELSE KnownOriginalStorage(mid, x)
    BY <1>1, KnownOriginalOver
  <2>9. KnownOriginalStorage(mid, x) = IF HasReset(p, x[1]) THEN 0
                                       ELSE KnownOriginalStorage(lower, x)
    BY KnownOriginalOver
  <2>10. OriginalSeen(B, gs, lost \cup undone, x) = OriginalSeen(B, fs, lost, x)
    <3>1. (KnownOriginalStorage(gs, x) = 0 \/ x[1] \in lost \cup undone)
             <=> (KnownOriginalStorage(fs, x) = 0 \/ x[1] \in lost)
      <4> HIDE DEF fs, gs, mid
      <4> QED BY <1>3, <1>4, <2>1, <2>7, <2>8, <2>9
    <3> QED BY <3>1 DEF OriginalSeen
  <2> QED BY <2>6, <2>10
<1>8. Deleted(gs) = Deleted(fs)
  <2>1. Deleted(gs) = Deleted(lower) \cup m.deletes
    BY <1>2, DeletedOver
  <2>2. Deleted(fs) = Deleted(mid) \cup c.deletes
    BY <1>1, DeletedOver
  <2>3. Deleted(mid) = Deleted(lower) \cup p.deletes
    BY DeletedOver
  <2> QED BY <1>2, <2>1, <2>2, <2>3
<1>9. LogsOf(gs) = LogsOf(fs)
  <2>1. LogsOf(gs) = LogsOf(lower) \o m.logs /\ LogsOf(lower) \in Seq(Addr)
    BY <1>2, LogsOver
  <2>2. LogsOf(fs) = LogsOf(mid) \o c.logs
    BY <1>1, LogsOver
  <2>3. LogsOf(mid) = LogsOf(lower) \o p.logs
    BY LogsOver
  <2>4. p.logs \in Seq(Addr) /\ c.logs \in Seq(Addr)
    BY SubstateFields
  <2>5. (LogsOf(lower) \o p.logs) \o c.logs = LogsOf(lower) \o (p.logs \o c.logs)
    <3>1. \A q, r, s \in Seq(Addr) : (q \o r) \o s = q \o (r \o s)
      BY ConcatAssociative
    <3> QED BY <2>1, <2>4, <3>1
  <2> QED BY <1>2, <2>1, <2>2, <2>3, <2>5
<1> HIDE DEF fs, gs
<1>10. Look(B, gs, lost \cup undone) = Look(B, fs, lost)
  <2> DEFINE more == lost \cup undone
  <2>1. \A x \in Slots : /\ SlotSeen(B, gs, more, x) = SlotSeen(B, fs, lost, x)
                         /\ OriginalSeen(B, gs, more, x) = OriginalSeen(B, fs, lost, x)
    BY <1>7
  <2> HIDE DEF more
  <2>2. Look(B, gs, more) = Look(B, fs, lost)
    BY <1>6, <1>8, <1>9, <2>1, LookSame
  <2> QED BY <2>2 DEF more
<1> QED BY <1>5, <1>6, <1>10 DEF SameAfterCommit, fs, gs, m, undone

-----------------------------------------------------------------------------
(* What an account that is in use never loses.                             *)

(* From s to t no address goes out of use, and only one in use pays.       *)
Grown(s, t) ==
    \A a \in Addr :
        /\ s.nonce[a] > 0 => t.nonce[a] > 0
        /\ Full!Taken(s, a) => Full!Taken(t, a)
        /\ Full!Taken(t, a) \/ t.balance[a] >= s.balance[a]

Typed(s) ==
    /\ s = StateOf(s.nonce, s.balance, s.code, s.storage, s.original, s.deleted, s.logs)
    /\ s.nonce \in [Addr -> Nat] /\ s.balance \in [Addr -> Nat]
    /\ s.code \in [Addr -> BOOLEAN]

LEMMA LookTyped ==
    ASSUME NEW B \in Backend, NEW fs \in Seq(Substate), NEW lost
    PROVE  /\ Typed(Look(B, fs, lost))
           /\ \A a \in Addr : Full!Taken(Look(B, fs, lost), a) <=> InUse(Seen(B, fs, a))
<1> DEFINE s == Look(B, fs, lost)
<1>1. IsLook(s, B, fs, lost)
  BY LookFields
<1>2. \A a \in Addr : /\ Seen(B, fs, a).nonce \in Nat /\ Seen(B, fs, a).balance \in Nat
                      /\ Seen(B, fs, a).code \in BOOLEAN
  BY SeenType DEF Account
<1> HIDE DEF s
<1>3. /\ s.nonce \in [Addr -> Nat] /\ s.balance \in [Addr -> Nat]
      /\ s.code \in [Addr -> BOOLEAN]
  BY <1>1, <1>2 DEF IsLook
<1>4. \A a \in Addr : s.nonce[a] = Seen(B, fs, a).nonce /\ s.code[a] = Seen(B, fs, a).code
  BY <1>1 DEF IsLook
<1>5. \A a \in Addr : Full!Taken(s, a) <=> InUse(Seen(B, fs, a))
  BY <1>4 DEF Full!Taken, InUse
<1> QED BY <1>1, <1>3, <1>5 DEF Typed, IsLook, s

LEMMA PutAt ==
    ASSUME NEW T, NEW q \in [Addr -> T], NEW a, NEW v
    PROVE  \A b \in Addr : Full!Put(q, a, v)[b] = IF b = a THEN v ELSE q[b]
BY DEF Full!Put

LEMMA GrownTrans ==
    ASSUME NEW r, NEW s, NEW t, Typed(r), Typed(s), Typed(t), Grown(r, s), Grown(s, t)
    PROVE  Grown(r, t)
<1> SUFFICES ASSUME NEW a \in Addr
             PROVE  /\ r.nonce[a] > 0 => t.nonce[a] > 0
                    /\ Full!Taken(r, a) => Full!Taken(t, a)
                    /\ Full!Taken(t, a) \/ t.balance[a] >= r.balance[a]
  BY DEF Grown
<1>1. /\ r.nonce[a] > 0 => s.nonce[a] > 0
      /\ Full!Taken(r, a) => Full!Taken(s, a)
      /\ Full!Taken(s, a) \/ s.balance[a] >= r.balance[a]
  BY DEF Grown
<1>2. /\ s.nonce[a] > 0 => t.nonce[a] > 0
      /\ Full!Taken(s, a) => Full!Taken(t, a)
      /\ Full!Taken(t, a) \/ t.balance[a] >= s.balance[a]
  BY DEF Grown
<1>3. r.balance[a] \in Nat /\ s.balance[a] \in Nat /\ t.balance[a] \in Nat
  BY DEF Typed
<1> QED BY <1>1, <1>2, <1>3

LEMMA GrownSame ==
    ASSUME NEW s, Typed(s), NEW t, t.nonce = s.nonce, t.balance = s.balance, t.code = s.code
    PROVE  Grown(s, t)
<1>1. \A a \in Addr : s.balance[a] \in Nat
  BY DEF Typed
<1> QED BY <1>1 DEF Grown, Full!Taken

LEMMA GrownBumped ==
    ASSUME NEW s, Typed(s), NEW a \in Addr
    PROVE  Grown(s, Full!Bumped(s, a)) /\ Full!Bumped(s, a).nonce[a] > 0
<1> DEFINE t == Full!Bumped(s, a)
           n == Full!Put(s.nonce, a, s.nonce[a] + 1)
<1>1. t = [s EXCEPT !.nonce = n]
  BY DEF Full!Bumped
<1> HIDE DEF n, t
<1>2. t.nonce = n /\ t.balance = s.balance /\ t.code = s.code
  BY <1>1 DEF Typed, StateOf
<1>3. \A b \in Addr : n[b] = IF b = a THEN s.nonce[a] + 1 ELSE s.nonce[b]
  BY DEF Full!Put, Typed, n
<1>4. \A b \in Addr : s.nonce[b] \in Nat /\ s.balance[b] \in Nat
  BY DEF Typed
<1>5. t.nonce[a] > 0
  BY <1>2, <1>3, <1>4
<1>6. \A b \in Addr : s.nonce[b] > 0 => t.nonce[b] > 0
  BY <1>2, <1>3, <1>4
<1>7. Grown(s, t)
  BY <1>2, <1>4, <1>6 DEF Grown, Full!Taken
<1> QED BY <1>5, <1>7 DEF t

LEMMA GrownMoved ==
    ASSUME NEW s, Typed(s), NEW from \in Addr, NEW to \in Addr, NEW value \in Nat,
           value =< s.balance[from], Full!Taken(s, from)
    PROVE  Grown(s, Full!Moved(s, from, to, value))
<1> DEFINE t == Full!Moved(s, from, to, value)
           debited == Full!Put(s.balance, from, s.balance[from] - value)
           paid == Full!Put(debited, to, debited[to] + value)
<1>1. t = [s EXCEPT !.balance = paid]
  BY DEF Full!Moved
<1>2. \A b \in Addr : s.balance[b] \in Nat
  BY DEF Typed
<1>3. /\ \A b \in Addr : debited[b] = IF b = from THEN s.balance[from] - value ELSE s.balance[b]
      /\ debited \in [Addr -> Nat]
  <2>1. s.balance[from] - value \in Nat
    BY <1>2
  <2>2. s.balance \in [Addr -> Nat]
    BY DEF Typed
  <2> QED BY <2>1, <2>2 DEF Full!Put
<1> HIDE DEF debited
<1>4. \A b \in Addr : paid[b] = IF b = to THEN debited[to] + value ELSE debited[b]
  BY <1>3, PutAt
<1> HIDE DEF paid, t
<1>5. t.nonce = s.nonce /\ t.balance = paid /\ t.code = s.code
  BY <1>1 DEF Typed, StateOf
<1>6. \A b \in Addr : b # from => t.balance[b] >= s.balance[b]
  BY <1>2, <1>3, <1>4, <1>5
<1>7. \A b \in Addr : Full!Taken(t, b) <=> Full!Taken(s, b)
  BY <1>5 DEF Full!Taken
<1>8. Grown(s, t)
  BY <1>5, <1>6, <1>7 DEF Grown
<1> QED BY <1>8 DEF t

LEMMA GrownCode ==
    ASSUME NEW s, Typed(s), NEW a \in Addr, s.nonce[a] > 0, NEW c \in BOOLEAN
    PROVE  Grown(s, [s EXCEPT !.code = Full!Put(@, a, c)])
<1> DEFINE q == Full!Put(s.code, a, c)
           t == [s EXCEPT !.code = q]
<1>1. \A b \in Addr : q[b] = IF b = a THEN c ELSE s.code[b]
  BY DEF Full!Put, Typed
<1> HIDE DEF q
<1>2. t.nonce = s.nonce /\ t.balance = s.balance /\ t.code = q
  BY DEF Typed, StateOf
<1>3. \A b \in Addr : s.balance[b] \in Nat
  BY DEF Typed
<1> HIDE DEF t
<1>4. \A b \in Addr : Full!Taken(s, b) => Full!Taken(t, b)
  BY <1>1, <1>2 DEF Full!Taken
<1>5. Grown(s, t)
  BY <1>2, <1>3, <1>4 DEF Grown
<1> QED BY <1>5 DEF t, q

LEMMA GrownZero ==
    ASSUME NEW s, Typed(s), NEW a \in Addr, Full!Taken(s, a)
    PROVE  Grown(s, [s EXCEPT !.balance = Full!Put(@, a, 0)])
<1> DEFINE q == Full!Put(s.balance, a, 0)
           t == [s EXCEPT !.balance = q]
<1>1. \A b \in Addr : q[b] = IF b = a THEN 0 ELSE s.balance[b]
  BY DEF Full!Put, Typed
<1> HIDE DEF q
<1>2. t.nonce = s.nonce /\ t.balance = q /\ t.code = s.code
  BY DEF Typed, StateOf
<1>3. \A b \in Addr : s.balance[b] \in Nat
  BY DEF Typed
<1> HIDE DEF t
<1>4. \A b \in Addr : Full!Taken(t, b) <=> Full!Taken(s, b)
  BY <1>2 DEF Full!Taken
<1>5. \A b \in Addr : b # a => t.balance[b] >= s.balance[b]
  BY <1>1, <1>2, <1>3
<1>6. Grown(s, t)
  BY <1>2, <1>4, <1>5 DEF Grown
<1> QED BY <1>6 DEF t, q

-----------------------------------------------------------------------------
(* The parts of the invariant, for a stack that grows or shrinks.          *)

LEMMA GrownSeen ==
    ASSUME NEW B \in Backend, NEW fs \in Seq(Substate), NEW gs \in Seq(Substate),
           NEW lost, NEW lost2, Grown(Look(B, fs, lost), Look(B, gs, lost2)), NEW a \in Addr
    PROVE  /\ Seen(B, fs, a).nonce > 0 => Seen(B, gs, a).nonce > 0
           /\ InUse(Seen(B, fs, a)) => InUse(Seen(B, gs, a))
           /\ InUse(Seen(B, gs, a)) \/ Seen(B, gs, a).balance >= Seen(B, fs, a).balance
           /\ Seen(B, fs, a).balance \in Nat /\ Seen(B, gs, a).balance \in Nat
<1> DEFINE s == Look(B, fs, lost)
           t == Look(B, gs, lost2)
<1>1. /\ s.nonce[a] = Seen(B, fs, a).nonce /\ s.balance[a] = Seen(B, fs, a).balance
      /\ Full!Taken(s, a) <=> InUse(Seen(B, fs, a))
  BY LookAt, LookTyped
<1>2. /\ t.nonce[a] = Seen(B, gs, a).nonce /\ t.balance[a] = Seen(B, gs, a).balance
      /\ Full!Taken(t, a) <=> InUse(Seen(B, gs, a))
  BY LookAt, LookTyped
<1>3. /\ s.nonce[a] > 0 => t.nonce[a] > 0
      /\ Full!Taken(s, a) => Full!Taken(t, a)
      /\ Full!Taken(t, a) \/ t.balance[a] >= s.balance[a]
  BY DEF Grown
<1>4. Seen(B, fs, a).balance \in Nat /\ Seen(B, gs, a).balance \in Nat
  BY SeenType DEF Account
<1> HIDE DEF s, t
<1> QED BY <1>1, <1>2, <1>3, <1>4

(* The substate of f has become g, with slots of accounts in use only.     *)
SlotsAllowed(B, upper, f, g) ==
    /\ \A x \in Slots : g.storages[x] # Unset =>
           f.storages[x] # Unset \/ InUse(Seen(B, upper, x[1]))
    /\ \A b \in Addr : HasReset(g, b) = HasReset(f, b)

LEMMA FitsGrown ==
    ASSUME NEW B \in Backend, NEW lower \in Seq(Substate), NEW f \in Substate, NEW g \in Substate,
           NEW c, c.self \in Addr, Fits(B, lower, f, c),
           SlotsAllowed(B, Append(lower, f), f, g),
           NEW lost, NEW lost2,
           Grown(Look(B, Append(lower, f), lost), Look(B, Append(lower, g), lost2))
    PROVE  Fits(B, lower, g, c)
<1> DEFINE fs == Append(lower, f)
           gs == Append(lower, g)
<1>1. fs \in Seq(Substate) /\ gs \in Seq(Substate)
  BY EndOfAppend
<1>2. /\ UsedStays(B, lower, fs) /\ FundsStay(B, fs) /\ ContextInUse(B, lower, fs, c)
      /\ SlotsInUse(B, fs, f) /\ NothingUnderReset(lower, f)
  BY DEF Fits
<1>3. /\ \A x \in Slots : g.storages[x] # Unset =>
             f.storages[x] # Unset \/ InUse(Seen(B, fs, x[1]))
      /\ \A b \in Addr : HasReset(g, b) = HasReset(f, b)
  BY DEF SlotsAllowed
<1>4. Grown(Look(B, fs, lost), Look(B, gs, lost2))
  OBVIOUS
<1> HIDE DEF fs, gs
<1>5. \A a \in Addr :
          /\ Seen(B, fs, a).nonce > 0 => Seen(B, gs, a).nonce > 0
          /\ InUse(Seen(B, fs, a)) => InUse(Seen(B, gs, a))
          /\ InUse(Seen(B, gs, a)) \/ Seen(B, gs, a).balance >= Seen(B, fs, a).balance
          /\ Seen(B, fs, a).balance \in Nat /\ Seen(B, gs, a).balance \in Nat
  BY <1>1, <1>4, GrownSeen
<1>6. UsedStays(B, lower, gs)
  BY <1>2, <1>5 DEF UsedStays
<1>7. FundsStay(B, gs)
  <2> SUFFICES ASSUME NEW a \in Addr
               PROVE  InUse(Seen(B, gs, a)) \/ Seen(B, gs, a).balance >= B.accounts[a].balance
    BY DEF FundsStay
  <2>1. InUse(Seen(B, fs, a)) \/ Seen(B, fs, a).balance >= B.accounts[a].balance
    BY <1>2 DEF FundsStay
  <2>2. B.accounts[a].balance \in Nat
    BY BackendFields DEF Account
  <2> QED BY <1>5, <2>1, <2>2
<1>8. ContextInUse(B, lower, gs, c)
  BY <1>2, <1>5 DEF ContextInUse
<1>9. SlotsInUse(B, gs, g)
  <2>1. \A x \in Slots : x[1] \in Addr
    BY DEF Slots
  <2> QED BY <1>2, <1>3, <1>5, <2>1 DEF SlotsInUse
<1>10. NothingUnderReset(lower, g)
  BY <1>2, <1>3 DEF NothingUnderReset
<1> QED BY <1>6, <1>7, <1>8, <1>9, <1>10 DEF Fits, gs

(* What a stack keeps of the accounts of the store.                        *)
Based(B, fs) ==
    \A a \in Addr :
        /\ InUse(B.accounts[a]) => InUse(Seen(B, fs, a))
        /\ InUse(Seen(B, fs, a)) \/ Seen(B, fs, a).balance >= B.accounts[a].balance

LEMMA FitsBased ==
    ASSUME NEW B, NEW lower, NEW f, NEW c, Fits(B, lower, f, c)
    PROVE  Based(B, Append(lower, f))
BY DEF Fits, Based, UsedStays, FundsStay

LEMMA EmptyBased ==
    ASSUME NEW B \in Backend
    PROVE  Based(B, <<>>)
<1>1. \A a \in Addr : Seen(B, <<>>, a) = B.accounts[a] /\ B.accounts[a].balance \in Nat
  BY NothingKnown, BackendFields DEF Account
<1> QED BY <1>1 DEF Based

(* A substate on top, for another call.                                    *)
LEMMA FitsEntered ==
    ASSUME NEW B \in Backend, NEW lower \in Seq(Substate), NEW h \in Substate, NEW c,
           Based(B, lower), NEW lost, NEW lost2,
           Grown(Look(B, lower, lost), Look(B, Append(lower, h), lost2)),
           ContextInUse(B, lower, Append(lower, h), c),
           SlotsInUse(B, Append(lower, h), h), NothingUnderReset(lower, h)
    PROVE  Fits(B, lower, h, c)
<1> DEFINE gs == Append(lower, h)
<1>1. gs \in Seq(Substate) /\ Grown(Look(B, lower, lost), Look(B, gs, lost2))
  BY EndOfAppend
<1> HIDE DEF gs
<1>2. \A a \in Addr :
          /\ Seen(B, lower, a).nonce > 0 => Seen(B, gs, a).nonce > 0
          /\ InUse(Seen(B, lower, a)) => InUse(Seen(B, gs, a))
          /\ InUse(Seen(B, gs, a)) \/ Seen(B, gs, a).balance >= Seen(B, lower, a).balance
          /\ Seen(B, lower, a).balance \in Nat /\ Seen(B, gs, a).balance \in Nat
  BY <1>1, GrownSeen
<1>3. UsedStays(B, lower, gs)
  BY <1>2 DEF UsedStays, Based
<1>4. FundsStay(B, gs)
  <2> SUFFICES ASSUME NEW a \in Addr
               PROVE  InUse(Seen(B, gs, a)) \/ Seen(B, gs, a).balance >= B.accounts[a].balance
    BY DEF FundsStay
  <2>1. InUse(Seen(B, lower, a)) \/ Seen(B, lower, a).balance >= B.accounts[a].balance
    BY DEF Based
  <2>2. B.accounts[a].balance \in Nat
    BY BackendFields DEF Account
  <2> QED BY <1>2, <2>1, <2>2
<1> QED BY <1>3, <1>4 DEF Fits, gs

LEMMA NoSlots ==
    ASSUME NEW h, SameSlots(NewSubstate, h), NEW B, NEW upper, NEW lower
    PROVE  SlotsInUse(B, upper, h) /\ NothingUnderReset(lower, h)
BY NewFields DEF SameSlots, SlotsInUse, NothingUnderReset

(* The substate a commit leaves.                                           *)
LEMMA FitsMerged ==
    ASSUME NEW B \in Backend, NEW lower \in Seq(Substate), NEW p \in Substate, NEW q \in Substate,
           NEW c, NEW d, c.self \in Addr,
           Fits(B, lower, p, c), Fits(B, Append(lower, p), q, d)
    PROVE  Fits(B, lower, Merged(p, q), c)
<1> DEFINE mid == Append(lower, p)
           fs == Append(mid, q)
           m == Merged(p, q)
           gs == Append(lower, m)
<1>1. /\ UsedStays(B, lower, mid) /\ ContextInUse(B, lower, mid, c)
      /\ SlotsInUse(B, mid, p) /\ NothingUnderReset(lower, p)
  BY DEF Fits
<1>2. /\ UsedStays(B, mid, fs) /\ FundsStay(B, fs) /\ SlotsInUse(B, fs, q)
      /\ NothingUnderReset(mid, q)
  BY DEF Fits
<1>3. \A a \in Addr : Seen(B, gs, a) = Seen(B, fs, a)
  BY <1>1, CommitShows DEF SameAfterCommit
<1>4. \A x \in Slots : m.storages[x] # Unset => q.storages[x] # Unset \/ p.storages[x] # Unset
  <2>1. \A x \in Slots : m.storages[x] = IF q.storages[x] # Unset THEN q.storages[x]
                                         ELSE IF HasReset(q, x[1]) THEN Unset
                                         ELSE p.storages[x]
    BY MergedFields
  <2> HIDE DEF m
  <2> QED BY <2>1
<1>5. \A a \in Addr : HasReset(m, a) => HasReset(q, a) \/ HasReset(p, a)
  BY MergedReset
<1>6. \A i \in DOMAIN lower : i \in DOMAIN mid /\ mid[i] = lower[i]
  <2>1. DOMAIN lower = 1..Len(lower) /\ Len(lower) \in Nat
    BY LenProperties
  <2>2. mid \in Seq(Substate) /\ Len(mid) = Len(lower) + 1 /\ \A i \in 1..Len(lower) : mid[i] = lower[i]
    BY AppendProperties
  <2>3. DOMAIN mid = 1..Len(mid)
    BY <2>2, LenProperties
  <2> QED BY <2>1, <2>2, <2>3
<1> HIDE DEF mid, fs, m, gs
<1>7. UsedStays(B, lower, gs)
  BY <1>1, <1>2, <1>3 DEF UsedStays
<1>8. FundsStay(B, gs)
  BY <1>2, <1>3 DEF FundsStay
<1>9. ContextInUse(B, lower, gs, c)
  BY <1>1, <1>2, <1>3 DEF ContextInUse, UsedStays
<1>10. SlotsInUse(B, gs, m)
  <2>1. \A x \in Slots : x[1] \in Addr
    BY DEF Slots
  <2>2. \A x \in Slots : m.storages[x] # Unset => InUse(Seen(B, gs, x[1]))
    BY <1>1, <1>2, <1>3, <1>4, <2>1 DEF SlotsInUse, UsedStays
  <2>3. \A a \in Addr : HasReset(m, a) => Seen(B, gs, a).nonce > 0
    BY <1>1, <1>2, <1>3, <1>5 DEF SlotsInUse, UsedStays
  <2> QED BY <2>2, <2>3 DEF SlotsInUse
<1>11. NothingUnderReset(lower, m)
  BY <1>1, <1>2, <1>5, <1>6 DEF NothingUnderReset
<1> QED BY <1>7, <1>8, <1>9, <1>10, <1>11 DEF Fits, gs, m

LEMMA StackedAppend ==
    ASSUME NEW B, NEW lower \in Seq(Substate), NEW f \in Substate,
           NEW callers \in Seq(Context), NEW c \in Context, Len(callers) = Len(lower)
    PROVE  Stacked(B, Append(lower, f), Append(callers, c)) <=>
               Stacked(B, lower, callers) /\ Fits(B, lower, f, c)
<1> DEFINE fs == Append(lower, f)
           cs == Append(callers, c)
           n == Len(lower)
           At(i) == Fits(B, SubSeq(fs, 1, i - 1), fs[i], cs[i])
           Was(i) == Fits(B, SubSeq(lower, 1, i - 1), lower[i], callers[i])
<1>1. /\ Len(fs) = n + 1 /\ n \in Nat
      /\ \A i \in 1..n : fs[i] = lower[i] /\ cs[i] = callers[i]
      /\ fs[n + 1] = f /\ cs[n + 1] = c
  BY AppendProperties, LenProperties
<1>2. ASSUME NEW i \in 1..n PROVE SubSeq(fs, 1, i - 1) = SubSeq(lower, 1, i - 1)
  <2>1. i - 1 \in 0..Len(lower)
    BY <1>1
  <2> QED BY <2>1, PrefixOfAppend
<1>3. SubSeq(fs, 1, (n + 1) - 1) = lower
  <2>1. n \in 0..Len(lower) /\ (n + 1) - 1 = n
    BY <1>1
  <2>2. SubSeq(fs, 1, n) = SubSeq(lower, 1, n) /\ SubSeq(lower, 1, n) = lower
    BY <2>1, PrefixOfAppend
  <2> QED BY <2>1, <2>2
<1>4. ASSUME NEW i \in 1..n PROVE At(i) <=> Was(i)
  <2>1. fs[i] = lower[i] /\ cs[i] = callers[i] /\ SubSeq(fs, 1, i - 1) = SubSeq(lower, 1, i - 1)
    BY <1>1, <1>2
  <2> HIDE DEF fs, cs, n
  <2> QED BY <2>1
<1>5. At(n + 1) <=> Fits(B, lower, f, c)
  <2> HIDE DEF fs, cs, n
  <2> QED BY <1>1, <1>3
<1>6. Stacked(B, fs, cs) <=> \A i \in 1..(n + 1) : At(i)
  BY <1>1 DEF Stacked
<1>7. Stacked(B, lower, callers) <=> \A i \in 1..n : Was(i)
  BY DEF Stacked
<1> HIDE DEF fs, cs, At, Was, n
<1>8. \A i \in 1..(n + 1) : i \in 1..n \/ i = n + 1
  BY <1>1
<1>9. n + 1 \in 1..(n + 1) /\ \A i \in 1..n : i \in 1..(n + 1)
  BY <1>1
<1> QED BY <1>4, <1>5, <1>6, <1>7, <1>8, <1>9 DEF fs, cs

(* What is in use in a caller is in use in the running call.               *)
LEMMA UsedUpward ==
    ASSUME NEW B, NEW fs \in Seq(Substate), NEW cs, Stacked(B, fs, cs),
           NEW a \in Addr, ~InUse(Seen(B, fs, a))
    PROVE  \A i \in 1..Len(fs) : ~InUse(Seen(B, SubSeq(fs, 1, i), a))
<1> DEFINE n == Len(fs)
           Free(i) == ~InUse(Seen(B, SubSeq(fs, 1, i), a))
           N == {k \in Nat : k =< n => Free(n - k)}
<1>1. n \in Nat /\ SubSeq(fs, 1, n) = fs
  BY SubSeqFull, LenProperties
<1>2. ASSUME NEW i \in 1..n PROVE Free(i) => Free(i - 1)
  <2> DEFINE below == SubSeq(fs, 1, i - 1)
             upto == SubSeq(fs, 1, i)
  <2>1. Fits(B, below, fs[i], cs[i])
    BY DEF Stacked
  <2>2. upto = Append(below, fs[i])
    BY AppendPrefix DEF n
  <2>3. InUse(Seen(B, below, a)) => InUse(Seen(B, upto, a))
    <3> HIDE DEF below, upto
    <3> QED BY <2>1, <2>2 DEF Fits, UsedStays
  <2> QED BY <2>3
<1> HIDE DEF n
<1>3. 0 \in N
  <2>1. Free(n)
    BY <1>1, Zenon
  <2>2. n - 0 = n
    BY <1>1
  <2> HIDE DEF Free
  <2> QED BY <2>1, <2>2
<1>4. ASSUME NEW k \in Nat, k \in N PROVE k + 1 \in N
  <2> HIDE DEF Free
  <2> SUFFICES ASSUME k + 1 =< n PROVE Free(n - (k + 1))
    OBVIOUS
  <2>1. n - k \in 1..n /\ k =< n /\ (n - k) - 1 = n - (k + 1)
    BY <1>1
  <2>2. Free(n - k)
    BY <1>4, <2>1
  <2> QED BY <1>2, <2>1, <2>2
<1>5. Nat \subseteq N
  <2> HIDE DEF N
  <2> QED BY <1>3, <1>4, NatSetInduction
<1>6. ASSUME NEW i \in 1..n PROVE Free(i)
  <2>1. n - i \in Nat /\ n - i =< n /\ n - (n - i) = i
    BY <1>1
  <2> HIDE DEF Free
  <2> QED BY <1>5, <2>1
<1> QED BY <1>6 DEF n

(* An address that is not in use has no slot and no reset in any substate. *)
LEMMA UnusedIsClear ==
    ASSUME NEW B, NEW fs \in Seq(Substate), NEW cs, Stacked(B, fs, cs),
           NEW a \in Addr, ~InUse(Seen(B, fs, a))
    PROVE  \A i \in DOMAIN fs :
               /\ ~HasReset(fs[i], a)
               /\ \A x \in Slots : x[1] = a => fs[i].storages[x] = Unset
<1> SUFFICES ASSUME NEW i \in 1..Len(fs)
             PROVE  /\ ~HasReset(fs[i], a)
                    /\ \A x \in Slots : x[1] = a => fs[i].storages[x] = Unset
  BY LenProperties
<1> DEFINE below == SubSeq(fs, 1, i - 1)
           upto == SubSeq(fs, 1, i)
<1>1. Fits(B, below, fs[i], cs[i])
  BY DEF Stacked
<1>2. upto = Append(below, fs[i])
  BY AppendPrefix
<1>3. ~InUse(Seen(B, upto, a))
  BY UsedUpward
<1> HIDE DEF below, upto
<1>4. SlotsInUse(B, upto, fs[i])
  BY <1>1, <1>2 DEF Fits
<1> QED BY <1>3, <1>4 DEF SlotsInUse, InUse

-----------------------------------------------------------------------------
(* The refinement mapping: for each call, what its substates show.         *)

Lost(marks, n) == UNION {marks[i] : i \in 1..n}

AllShown(B, fs, marks) == [n \in DOMAIN fs |-> Look(B, SubSeq(fs, 1, n), Lost(marks, n))]

Looks(B) == {Look(B, p[1], p[2]) : p \in Seq(Substate) \X SUBSET Addr}

LEMMA LookInLooks ==
    ASSUME NEW B, NEW fs \in Seq(Substate), NEW lost \in SUBSET Addr
    PROVE  Look(B, fs, lost) \in Looks(B)
<1>1. <<fs, lost>> \in Seq(Substate) \X SUBSET Addr
  OBVIOUS
<1>2. \A p \in Seq(Substate) \X SUBSET Addr : Look(B, p[1], p[2]) \in Looks(B)
  BY DEF Looks
<1>3. Look(B, <<fs, lost>>[1], <<fs, lost>>[2]) \in Looks(B)
  BY <1>1, <1>2
<1> QED BY <1>3

Mapped == [n \in DOMAIN frames |-> Shown(n)]

LEMMA BasicIs ==
    ASSUME NEW fs, NEW a \in Addr, backend \in Backend
    PROVE  /\ Basic(fs, a).nonce = Seen(backend, fs, a).nonce
           /\ Basic(fs, a).balance = Seen(backend, fs, a).balance
           /\ Code(fs, a) = Seen(backend, fs, a).code
<1> DEFINE acc == KnownAccount(fs, a)
<1> HIDE DEF acc
<1>1. Seen(backend, fs, a) = IF acc = Unset THEN backend.accounts[a]
        ELSE [nonce |-> acc.nonce, balance |-> acc.balance,
              code |-> IF acc.code = Unset THEN backend.accounts[a].code ELSE acc.code]
  BY DEF Seen, acc
<1>2. Basic(fs, a) = IF acc = Unset
        THEN [nonce |-> backend.accounts[a].nonce, balance |-> backend.accounts[a].balance]
        ELSE [nonce |-> acc.nonce, balance |-> acc.balance]
  BY DEF Basic, acc, OrElse
<1>3. Code(fs, a) = IF acc = Unset THEN backend.accounts[a].code
                    ELSE IF acc.code = Unset THEN backend.accounts[a].code ELSE acc.code
  BY DEF Code, acc, OrElse
<1> QED BY <1>1, <1>2, <1>3

LEMMA ShownIs ==
    TypeOK => /\ Mapped = AllShown(backend, frames, forgot)
              /\ \A n \in DOMAIN frames :
                    Shown(n) = Look(backend, SubSeq(frames, 1, n), Lost(forgot, n))
<1> SUFFICES ASSUME TypeOK
             PROVE  /\ Mapped = AllShown(backend, frames, forgot)
                    /\ \A n \in DOMAIN frames :
                         Shown(n) = Look(backend, SubSeq(frames, 1, n), Lost(forgot, n))
  OBVIOUS
<1>0. backend \in Backend /\ frames \in Seq(Substate)
  BY DEF TypeOK
<1>1. ASSUME NEW n \in DOMAIN frames
      PROVE  Shown(n) = Look(backend, SubSeq(frames, 1, n), Lost(forgot, n))
  <2> DEFINE fs == SubSeq(frames, 1, n)
             lost == Lost(forgot, n)
  <2>1. DOMAIN fs = 1..n
    <3>1. n \in 1..Len(frames) /\ Len(frames) \in Nat
      BY <1>0, LenProperties
    <3>2. \A i \in 1..n : frames[i] \in Substate
      BY <1>0, <3>1, ElementOfSeq
    <3>3. fs \in Seq(Substate) /\ Len(fs) = n
      BY <3>1, <3>2, SubSeqProperties
    <3> HIDE DEF fs
    <3> QED BY <3>3, LenProperties
  <2>2. \A a \in Addr : /\ Basic(fs, a).nonce = Seen(backend, fs, a).nonce
                        /\ Basic(fs, a).balance = Seen(backend, fs, a).balance
                        /\ Code(fs, a) = Seen(backend, fs, a).code
    BY <1>0, BasicIs
  <2> HIDE DEF fs
  <2>3. \A x \in Slots : (\E i \in DOMAIN fs : x[1] \in forgot[i]) <=> x[1] \in lost
    BY <2>1 DEF Lost
  <2> HIDE DEF lost
  <2>4. \A x \in Slots : Promised(fs, forgot, x, Storage(fs, x), KnownStorage(fs, x))
                           = SlotSeen(backend, fs, lost, x)
    BY <2>3 DEF Promised, Storage, OrElse, SlotSeen
  <2>5. \A x \in Slots :
            Promised(fs, forgot, x, OriginalStorage(fs, x), KnownOriginalStorage(fs, x))
               = OriginalSeen(backend, fs, lost, x)
    BY <2>3, UnsetIsNothing
       DEF Promised, OriginalStorage, OrElse, OriginalSeen, KnownOriginalStorage
  <2>6. Shown(n) =
          [nonce    |-> [a \in Addr |-> Basic(fs, a).nonce],
           balance  |-> [a \in Addr |-> Basic(fs, a).balance],
           code     |-> [a \in Addr |-> Code(fs, a)],
           storage  |-> [x \in Slots |->
               Promised(fs, forgot, x, Storage(fs, x), KnownStorage(fs, x))],
           original |-> [x \in Slots |->
               Promised(fs, forgot, x, OriginalStorage(fs, x), KnownOriginalStorage(fs, x))],
           deleted  |-> Deleted(fs),
           logs     |-> LogsOf(fs)]
    BY DEF Shown, LogsOf, fs
  <2>7. Shown(n) = Look(backend, fs, lost)
    <3>1. /\ [a \in Addr |-> Basic(fs, a).nonce] = [a \in Addr |-> Seen(backend, fs, a).nonce]
          /\ [a \in Addr |-> Basic(fs, a).balance] = [a \in Addr |-> Seen(backend, fs, a).balance]
          /\ [a \in Addr |-> Code(fs, a)] = [a \in Addr |-> Seen(backend, fs, a).code]
      BY <2>2
    <3>2. [x \in Slots |-> Promised(fs, forgot, x, Storage(fs, x), KnownStorage(fs, x))]
            = [x \in Slots |-> SlotSeen(backend, fs, lost, x)]
      BY <2>4
    <3>3. [x \in Slots |->
               Promised(fs, forgot, x, OriginalStorage(fs, x), KnownOriginalStorage(fs, x))]
            = [x \in Slots |-> OriginalSeen(backend, fs, lost, x)]
      BY <2>5
    <3> QED BY <2>6, <3>1, <3>2, <3>3 DEF Look
  <2> QED BY <2>7 DEF fs, lost
<1>2. Mapped = AllShown(backend, frames, forgot)
  BY <1>1 DEF Mapped, AllShown
<1> QED BY <1>1, <1>2

LEMMA ShownIsPrimed ==
    TypeOK' => Mapped' = AllShown(backend', frames', forgot')
<1>1. TypeOK => Mapped = AllShown(backend, frames, forgot)
  BY ShownIs
<1>2. (TypeOK => Mapped = AllShown(backend, frames, forgot))'
  BY <1>1, PTL
<1> QED BY <1>2

ShownAppend(B, lower, f, marks, l) ==
    /\ AllShown(B, lower, marks) \in Seq(Looks(B))
    /\ Lost(marks, Len(lower)) \cup l \in SUBSET Addr
    /\ Lost(Append(marks, l), Len(lower) + 1) = Lost(marks, Len(lower)) \cup l
    /\ AllShown(B, Append(lower, f), Append(marks, l))
         = Append(AllShown(B, lower, marks),
                  Look(B, Append(lower, f), Lost(marks, Len(lower)) \cup l))

LEMMA AllShownAppend ==
    ASSUME NEW B, NEW lower \in Seq(Substate), NEW f \in Substate,
           NEW marks \in Seq(SUBSET Addr), NEW l \in SUBSET Addr, Len(marks) = Len(lower)
    PROVE  ShownAppend(B, lower, f, marks, l)
<1> DEFINE fs == Append(lower, f)
           ms == Append(marks, l)
           n == Len(lower)
           low == AllShown(B, lower, marks)
           all == AllShown(B, fs, ms)
           top == Look(B, fs, Lost(marks, n) \cup l)
<1>1. /\ fs \in Seq(Substate) /\ Len(fs) = n + 1 /\ n \in Nat
      /\ DOMAIN fs = 1..(n + 1) /\ DOMAIN lower = 1..n
      /\ \A i \in 1..n : ms[i] = marks[i] /\ marks[i] \in SUBSET Addr
      /\ ms[n + 1] = l
  <2>1. fs \in Seq(Substate) /\ Len(fs) = n + 1
    BY AppendProperties
  <2>2. DOMAIN fs = 1..Len(fs)
    BY <2>1, LenProperties
  <2> QED BY <2>1, <2>2, AppendProperties, LenProperties, ElementOfSeq
<1>2. /\ \A i \in 1..n : SubSeq(fs, 1, i) = SubSeq(lower, 1, i)
      /\ SubSeq(fs, 1, n + 1) = fs
  <2>1. \A i \in 1..n : i \in 0..Len(lower)
    BY <1>1
  <2> QED BY <2>1, PrefixOfAppend
<1> HIDE DEF fs, ms, n
<1>3. \A i \in 1..n : Lost(ms, i) = Lost(marks, i) /\ Lost(marks, i) \in SUBSET Addr
  <2> TAKE i \in 1..n
  <2>1. \A j \in 1..i : j \in 1..n
    BY <1>1
  <2> QED BY <1>1, <2>1 DEF Lost
<1>4. Lost(marks, n) \in SUBSET Addr
  BY <1>1 DEF Lost
<1>5. Lost(ms, n + 1) = Lost(marks, n) \cup l
  <2>1. \A j \in 1..(n + 1) : j \in 1..n \/ j = n + 1
    BY <1>1
  <2>2. n + 1 \in 1..(n + 1) /\ \A j \in 1..n : j \in 1..(n + 1)
    BY <1>1
  <2> QED BY <1>1, <2>1, <2>2 DEF Lost
<1>6. \A i \in 1..n : SubSeq(lower, 1, i) \in Seq(Substate)
  <2> TAKE i \in 1..n
  <2>1. \A j \in 1..i : lower[j] \in Substate
    BY <1>1, ElementOfSeq DEF n
  <2> QED BY <1>1, <2>1, SubSeqProperties
<1>7. low \in Seq(Looks(B)) /\ Len(low) = n
  <2>1. low = [i \in 1..n |-> Look(B, SubSeq(lower, 1, i), Lost(marks, i))]
    BY <1>1 DEF AllShown
  <2>2. \A i \in 1..n : Look(B, SubSeq(lower, 1, i), Lost(marks, i)) \in Looks(B)
    BY <1>3, <1>6, LookInLooks
  <2> HIDE DEF low
  <2> QED BY <1>1, <2>1, <2>2
<1>8. top \in Looks(B)
  <2>1. Lost(marks, n) \cup l \in SUBSET Addr
    BY <1>4
  <2> QED BY <1>1, <2>1, LookInLooks DEF top
<1>9. all = [i \in 1..(n + 1) |-> Look(B, SubSeq(fs, 1, i), Lost(ms, i))]
  BY <1>1 DEF AllShown
<1>10. \A i \in 1..n : low[i] = Look(B, SubSeq(lower, 1, i), Lost(marks, i))
  BY <1>1 DEF AllShown
<1> HIDE DEF low, all, top
<1>11. /\ \A i \in 1..n : all[i] = low[i]
       /\ all[n + 1] = top
  <2>1. \A i \in 1..(n + 1) : all[i] = Look(B, SubSeq(fs, 1, i), Lost(ms, i))
    BY <1>9
  <2>2. n + 1 \in 1..(n + 1) /\ \A j \in 1..n : j \in 1..(n + 1)
    BY <1>1
  <2>3. all[n + 1] = top
    BY <1>2, <1>5, <2>1, <2>2 DEF top
  <2> QED BY <1>2, <1>3, <1>10, <2>1, <2>2, <2>3
<1>12. all = Append(low, top)
  <2>1. /\ Append(low, top) \in Seq(Looks(B)) /\ Len(Append(low, top)) = n + 1
        /\ \A i \in 1..n : Append(low, top)[i] = low[i]
        /\ Append(low, top)[n + 1] = top
    BY <1>7, <1>8, AppendProperties
  <2>2. all \in Seq(Looks(B)) /\ Len(all) = n + 1
    <3>1. \A i \in 1..(n + 1) : all[i] \in Looks(B)
      <4>1. \A i \in 1..n : low[i] \in Looks(B)
        BY <1>7, ElementOfSeq
      <4>2. \A i \in 1..(n + 1) : i \in 1..n \/ i = n + 1
        BY <1>1
      <4> QED BY <1>8, <1>11, <4>1, <4>2
    <3>2. all = [i \in 1..(n + 1) |-> all[i]]
      BY <1>9
    <3> QED BY <1>1, <3>1, <3>2
  <2>3. \A i \in 1..(n + 1) : all[i] = Append(low, top)[i]
    <3>1. \A i \in 1..(n + 1) : i \in 1..n \/ i = n + 1
      BY <1>1
    <3> QED BY <1>11, <2>1, <3>1
  <2> QED BY <2>1, <2>2, <2>3, SeqEqual
<1> QED BY <1>4, <1>5, <1>7, <1>12 DEF ShownAppend, fs, ms, n, low, all, top

-----------------------------------------------------------------------------
(* The state before and after an action.                                   *)

(* The running call, its callers, and what all of them show.               *)
Opened(lower, f, callers, c, marks, l, lost) ==
    /\ lower \in Seq(Substate) /\ f \in Substate /\ frames = Append(lower, f)
    /\ callers \in Seq(Context) /\ c \in Context /\ ctx = Append(callers, c)
    /\ marks \in Seq(SUBSET Addr) /\ l \in SUBSET Addr /\ forgot = Append(marks, l)
    /\ Len(callers) = Len(lower) /\ Len(marks) = Len(lower)
    /\ lost = Lost(marks, Len(lower)) \cup l /\ lost \in SUBSET Addr
    /\ Mapped = Append(AllShown(backend, lower, marks), Look(backend, frames, lost))

LEMMA OpenedIs ==
    ASSUME TypeOK, frames # <<>>
    PROVE  Opened(Rest(frames), Inner(frames), Rest(ctx), Inner(ctx), Rest(forgot),
                  Inner(forgot), Lost(forgot, Len(frames)))
<1> DEFINE lower == Rest(frames)
           f == Inner(frames)
           callers == Rest(ctx)
           c == Inner(ctx)
           marks == Rest(forgot)
           l == Inner(forgot)
           lost == Lost(forgot, Len(frames))
<1>1. /\ frames \in Seq(Substate) /\ ctx \in Seq(Context) /\ forgot \in Seq(SUBSET Addr)
      /\ Len(ctx) = Len(frames) /\ Len(forgot) = Len(frames)
  BY DEF TypeOK
<1>2. Len(frames) \in Nat \ {0} /\ ctx # <<>> /\ forgot # <<>>
  BY <1>1, EmptySeq, LenProperties
<1>3. /\ lower \in Seq(Substate) /\ f \in Substate /\ frames = Append(lower, f)
      /\ Len(lower) = Len(frames) - 1
  BY <1>1, EndOfSeq
<1>4. /\ callers \in Seq(Context) /\ c \in Context /\ ctx = Append(callers, c)
      /\ Len(callers) = Len(ctx) - 1
  BY <1>1, <1>2, EndOfSeq
<1>5. /\ marks \in Seq(SUBSET Addr) /\ l \in SUBSET Addr /\ forgot = Append(marks, l)
      /\ Len(marks) = Len(forgot) - 1
  BY <1>1, <1>2, EndOfSeq
<1> HIDE DEF lower, f, callers, c, marks, l
<1>6. Len(callers) = Len(lower) /\ Len(marks) = Len(lower) /\ Len(frames) = Len(lower) + 1
  BY <1>1, <1>2, <1>3, <1>4, <1>5
<1>7. /\ lost = Lost(marks, Len(lower)) \cup l /\ lost \in SUBSET Addr
      /\ AllShown(backend, frames, forgot)
           = Append(AllShown(backend, lower, marks), Look(backend, frames, lost))
  <2>1. ShownAppend(backend, lower, f, marks, l)
    BY <1>3, <1>5, <1>6, AllShownAppend
  <2> QED BY <1>3, <1>5, <1>6, <2>1 DEF ShownAppend, lost
<1>8. Mapped = AllShown(backend, frames, forgot)
  BY ShownIs
<1> HIDE DEF lost
<1> QED BY <1>3, <1>4, <1>5, <1>6, <1>7, <1>8 DEF Opened, lower, f, callers, c, marks, l, lost

Depths(lower) ==
    /\ Len(lower) \in Nat /\ Len(ctx) \in Nat
    /\ Len(ctx) = 2 <=> Len(lower) = 1
    /\ Len(ctx) = 1 <=> lower = <<>>
    /\ Len(ctx) > 1 <=> lower # <<>>

LEMMA TopIs ==
    ASSUME NEW lower, NEW f, NEW callers, NEW c, NEW marks, NEW l, NEW lost,
           Opened(lower, f, callers, c, marks, l, lost)
    PROVE  /\ Rest(frames) = lower /\ Inner(frames) = f /\ frames # <<>>
           /\ frames \in Seq(Substate) /\ Len(frames) = Len(lower) + 1
           /\ Rest(ctx) = callers /\ Running = c /\ ctx # <<>> /\ Len(ctx) = Len(lower) + 1
           /\ Rest(forgot) = marks /\ Inner(forgot) = l /\ Len(forgot) = Len(lower) + 1
           /\ Full!Top = Look(backend, frames, lost)
           /\ Full!Running = c
           /\ Full!Rest(Mapped) = AllShown(backend, lower, marks)
           /\ Depths(lower)
<1>1. /\ Rest(frames) = lower /\ Inner(frames) = f /\ frames # <<>>
      /\ frames \in Seq(Substate) /\ Len(frames) = Len(lower) + 1
  BY EndOfAppend DEF Opened
<1>2. Rest(ctx) = callers /\ Inner(ctx) = c /\ ctx # <<>> /\ Len(ctx) = Len(lower) + 1
  BY EndOfAppend DEF Opened
<1>3. Rest(forgot) = marks /\ Inner(forgot) = l /\ Len(forgot) = Len(lower) + 1
  BY EndOfAppend DEF Opened
<1>4. Rest(Mapped) = AllShown(backend, lower, marks) /\ Inner(Mapped) = Look(backend, frames, lost)
  <2> DEFINE low == AllShown(backend, lower, marks)
             top == Look(backend, frames, lost)
  <2>1. low \in Seq(Looks(backend)) /\ top \in Looks(backend) /\ Mapped = Append(low, top)
    BY <1>1, AllShownAppend, LookInLooks DEF Opened, ShownAppend
  <2> HIDE DEF low, top
  <2>2. Rest(Mapped) = low /\ Inner(Mapped) = top
    BY <2>1, EndOfAppend
  <2> QED BY <2>2 DEF low, top
<1>5. Full!Top = Inner(Mapped)
  BY DEF Full!Top, Inner, Mapped
<1>6. Full!Rest(Mapped) = Rest(Mapped)
  BY DEF Full!Rest, Rest
<1>7. Running = Inner(ctx) /\ Full!Running = Inner(ctx)
  BY DEF Full!Running, Running, Inner
<1>8. Depths(lower)
  <2>1. Len(lower) \in Nat /\ lower \in Seq(Substate)
    BY LenProperties DEF Opened
  <2> DEFINE n == Len(lower)
             m == Len(ctx)
  <2>2. n \in Nat /\ m = n + 1
    BY <1>2, <2>1
  <2>3. n = 0 <=> lower = <<>>
    BY <2>1, EmptySeq
  <2> HIDE DEF n, m
  <2>4. m \in Nat /\ (m = 2 <=> n = 1) /\ (m = 1 <=> n = 0) /\ (m > 1 <=> n # 0)
    BY <2>2
  <2> QED BY <2>2, <2>3, <2>4 DEF Depths, n, m
<1> QED BY <1>1, <1>2, <1>3, <1>4, <1>5, <1>6, <1>7, <1>8

LEMMA AfterIs ==
    ASSUME TypeOK', NEW lower \in Seq(Substate), NEW f \in Substate, frames' = Append(lower, f),
           NEW marks \in Seq(SUBSET Addr), NEW l \in SUBSET Addr, forgot' = Append(marks, l),
           Len(marks) = Len(lower)
    PROVE  Mapped' = Append(AllShown(backend', lower, marks),
                            Look(backend', frames', Lost(marks, Len(lower)) \cup l))
<1>1. Mapped' = AllShown(backend', frames', forgot')
  BY ShownIsPrimed
<1>2. AllShown(backend', Append(lower, f), Append(marks, l))
        = Append(AllShown(backend', lower, marks),
                 Look(backend', Append(lower, f), Lost(marks, Len(lower)) \cup l))
  <2>1. ShownAppend(backend', lower, f, marks, l)
    BY AllShownAppend
  <2> QED BY <2>1 DEF ShownAppend
<1> QED BY <1>1, <1>2

LEMMA FailStep ==
    ASSUME StackInv, Fail
    PROVE  StackInv' /\ Full!Fail
<1> DEFINE lower == Rest(frames)
           f == Inner(frames)
           callers == Rest(ctx)
           c == Inner(ctx)
           marks == Rest(forgot)
           l == Inner(forgot)
           lost == Lost(forgot, Len(frames))
<1>1. TypeOK /\ Stacked(backend, frames, ctx)
  BY DEF StackInv
<1>2. Len(ctx) > 1 /\ Running.runs
  BY DEF Fail
<1>3. frames # <<>>
  BY <1>1, <1>2 DEF TypeOK
<1>4. Opened(lower, f, callers, c, marks, l, lost)
  BY <1>1, <1>3, OpenedIs
<1> HIDE DEF lower, f, callers, c, marks, l, lost
<1>5. /\ Rest(frames) = lower /\ Rest(ctx) = callers /\ Rest(forgot) = marks /\ ctx # <<>>
      /\ Full!Rest(Mapped) = AllShown(backend, lower, marks) /\ Full!Running = Running
  BY <1>4, TopIs
<1>6. /\ frames' = lower /\ ctx' = callers /\ forgot' = marks
      /\ outcome' = IF Len(ctx) = 2 THEN "failure" ELSE "none"
      /\ UNCHANGED <<backend, ops, txs>>
  BY <1>5 DEF Fail, ExitRevert
<1>7. TypeOK'
  <2>1. /\ lower \in Seq(Substate) /\ callers \in Seq(Context) /\ marks \in Seq(SUBSET Addr)
        /\ Len(callers) = Len(lower) /\ Len(marks) = Len(lower)
    BY <1>4 DEF Opened
  <2>2. Len(ctx) = 2 => Len(lower) = 1
    BY <1>4, TopIs DEF Depths
  <2> QED BY <1>1, <1>6, <2>1, <2>2 DEF TypeOK
<1>8. Stacked(backend', frames', ctx')
  <2>1. Stacked(backend, lower, callers)
    BY <1>1, <1>4, StackedAppend DEF Opened
  <2> QED BY <1>6, <2>1
<1>9. Mapped' = AllShown(backend, lower, marks)
  BY <1>6, <1>7, ShownIsPrimed
<1>10. outcome = "none"
  BY <1>1, <1>2 DEF TypeOK
<1>11. Full!Fail
  <2>1. Full!InContract
    BY <1>2, <1>5, <1>10 DEF Full!InContract, Full!CanAct
  <2>2. ctx' = Full!Rest(ctx)
    BY <1>5, <1>6 DEF Full!Rest, Rest
  <2>3. Mapped' = Full!Rest(Mapped)
    BY <1>5, <1>9
  <2> QED BY <1>6, <2>1, <2>2, <2>3 DEF Full!Fail, Mapped
<1> QED BY <1>7, <1>8, <1>11 DEF StackInv

-----------------------------------------------------------------------------
(* What the instructions make of the running call and of one they enter.   *)

LEMMA ContextShown ==
    ASSUME NEW B \in Backend, NEW lower, NEW upper \in Seq(Substate), NEW lost,
           NEW t, t = Look(B, upper, lost), NEW c, c.self \in Addr,
           c.create => t.nonce[c.self] > 0,
           c.runs => Full!Taken(t, c.self)
    PROVE  ContextInUse(B, lower, upper, c)
<1>1. t.nonce[c.self] = Seen(B, upper, c.self).nonce
  BY LookAt
<1>2. Full!Taken(t, c.self) <=> InUse(Seen(B, upper, c.self))
  BY LookTyped
<1> QED BY <1>1, <1>2 DEF ContextInUse

(* The running call, after a change of accounts.                           *)
LEMMA TurnedFits ==
    ASSUME backend \in Backend, NEW lower \in Seq(Substate), NEW f \in Substate,
           NEW c, c.self \in Addr, Fits(backend, lower, f, c), NEW lost, NEW gs, NEW t,
           Turned(Append(lower, f), gs, lost, t), Grown(Look(backend, Append(lower, f), lost), t)
    PROVE  /\ gs = Append(lower, Inner(gs)) /\ Inner(gs) \in Substate
           /\ Look(backend, gs, lost) = t
           /\ Fits(backend, lower, Inner(gs), c)
<1> DEFINE fs == Append(lower, f)
           g == Inner(gs)
<1>1. Rest(fs) = lower /\ Inner(fs) = f
  BY EndOfAppend
<1>2. /\ gs \in Seq(Substate) /\ gs # <<>> /\ Rest(gs) = lower
      /\ SameSlots(f, g) /\ Look(backend, gs, lost) = t
  BY <1>1 DEF Turned
<1>3. gs = Append(lower, g) /\ g \in Substate
  BY <1>2, EndOfSeq
<1> HIDE DEF g
<1>4. SlotsAllowed(backend, fs, f, g)
  BY <1>2 DEF SlotsAllowed, SameSlots
<1>5. Grown(Look(backend, Append(lower, f), lost), Look(backend, Append(lower, g), lost))
  BY <1>2, <1>3
<1>6. Fits(backend, lower, g, c)
  BY <1>3, <1>4, <1>5, FitsGrown
<1> QED BY <1>2, <1>3, <1>6 DEF g

(* A call that was entered and has changed accounts.                       *)
LEMMA TurnedEnter ==
    ASSUME backend \in Backend, NEW fs \in Seq(Substate), Based(backend, fs),
           NEW c, c.self \in Addr, NEW lost, NEW gs, NEW t,
           Turned(Enter(fs), gs, lost, t), Grown(Look(backend, fs, lost), t),
           c.create => t.nonce[c.self] > 0,
           c.runs => Full!Taken(t, c.self)
    PROVE  /\ gs = Append(fs, Inner(gs)) /\ Inner(gs) \in Substate
           /\ Look(backend, gs, lost) = t
           /\ Fits(backend, fs, Inner(gs), c)
<1> DEFINE h == Inner(gs)
<1>1. Rest(Enter(fs)) = fs /\ Inner(Enter(fs)) = NewSubstate
  BY EnterShows
<1>2. /\ gs \in Seq(Substate) /\ gs # <<>> /\ Rest(gs) = fs
      /\ SameSlots(NewSubstate, h) /\ Look(backend, gs, lost) = t
  BY <1>1 DEF Turned
<1>3. gs = Append(fs, h) /\ h \in Substate
  BY <1>2, EndOfSeq
<1> HIDE DEF h
<1>4. SlotsInUse(backend, Append(fs, h), h) /\ NothingUnderReset(fs, h)
  BY <1>2, NoSlots
<1>5. ContextInUse(backend, fs, Append(fs, h), c)
  BY <1>2, <1>3, ContextShown
<1>6. Grown(Look(backend, fs, lost), Look(backend, Append(fs, h), lost))
  BY <1>2, <1>3
<1>7. Fits(backend, fs, h, c)
  BY <1>3, <1>4, <1>5, <1>6, FitsEntered
<1> QED BY <1>2, <1>3, <1>7 DEF h

LEMMA EnterTransferShows ==
    ASSUME backend \in Backend, NEW fs \in Seq(Substate), NEW source \in Addr, NEW target \in Addr,
           NEW value \in Nat, NEW lost, value =< Look(backend, fs, lost).balance[source]
    PROVE  Turned(Enter(fs), Transfer(Touch(Enter(fs), target), source, target, value), lost,
                  Full!Moved(Look(backend, fs, lost), source, target, value))
<1> DEFINE es == Enter(fs)
           ts == Touch(es, target)
           s == Look(backend, fs, lost)
<1>1. es \in Seq(Substate) /\ es # <<>> /\ Look(backend, es, lost) = s
  BY EnterShows
<1> HIDE DEF es, s
<1>2. Turned(es, ts, lost, s)
  BY <1>1, TouchShows
<1> HIDE DEF ts
<1>3. ts \in Seq(Substate) /\ ts # <<>> /\ Look(backend, ts, lost) = s
  BY <1>2 DEF Turned
<1>4. value =< Seen(backend, ts, source).balance
  <2>1. Look(backend, ts, lost).balance[source] = Seen(backend, ts, source).balance
    BY LookAt
  <2> QED BY <1>3, <2>1 DEF s
<1>5. Turned(ts, Transfer(ts, source, target, value), lost, Full!Moved(s, source, target, value))
  BY <1>3, <1>4, TransferShows
<1>6. Turned(es, Transfer(ts, source, target, value), lost, Full!Moved(s, source, target, value))
  BY <1>2, <1>5, TurnedAgain
<1> QED BY <1>6 DEF es, ts, s

LEMMA EnterTouchShows ==
    ASSUME backend \in Backend, NEW fs \in Seq(Substate), NEW a \in Addr, NEW lost
    PROVE  Turned(Enter(fs), Touch(Enter(fs), a), lost, Look(backend, fs, lost))
<1> DEFINE es == Enter(fs)
<1>1. es \in Seq(Substate) /\ es # <<>> /\ Look(backend, es, lost) = Look(backend, fs, lost)
  BY EnterShows
<1> HIDE DEF es
<1>2. Turned(es, Touch(es, a), lost, Look(backend, es, lost))
  BY <1>1, TouchShows
<1> QED BY <1>1, <1>2 DEF es

LEMMA KilledShows ==
    ASSUME backend \in Backend, NEW fs \in Seq(Substate), fs # <<>>, NEW a \in Addr,
           NEW heir \in Addr, NEW lost
    PROVE  LET moved == Transfer(fs, a, heir, Basic(fs, a).balance)
           IN  Turned(fs, SetDeleted(ResetBalance(moved, a), a), lost,
                      Full!Killed(Look(backend, fs, lost), a, heir))
<1> DEFINE value == Basic(fs, a).balance
           s == Look(backend, fs, lost)
           ms == Transfer(fs, a, heir, value)
           moved == Full!Moved(s, a, heir, s.balance[a])
           zs == ResetBalance(ms, a)
           zero == [moved EXCEPT !.balance = Full!Put(@, a, 0)]
           ds == SetDeleted(zs, a)
           killed == [zero EXCEPT !.deleted = @ \cup {a}]
<1>1. /\ value = Seen(backend, fs, a).balance /\ value = s.balance[a]
      /\ value \in Nat /\ value =< Seen(backend, fs, a).balance
  <2>1. value = Seen(backend, fs, a).balance /\ s.balance[a] = Seen(backend, fs, a).balance
    BY BasicIs, LookAt
  <2>2. Seen(backend, fs, a).balance \in Nat
    BY SeenType DEF Account
  <2> HIDE DEF value, s
  <2> QED BY <2>1, <2>2
<1> HIDE DEF value
<1>2. Turned(fs, ms, lost, moved)
  BY <1>1, TransferShows
<1> HIDE DEF ms, moved, s
<1>3. ms \in Seq(Substate) /\ ms # <<>> /\ Look(backend, ms, lost) = moved
  BY <1>2 DEF Turned
<1>4. Turned(ms, zs, lost, zero)
  BY <1>3, ResetBalanceShows
<1> HIDE DEF zs, zero
<1>5. zs \in Seq(Substate) /\ zs # <<>> /\ Look(backend, zs, lost) = zero
  BY <1>4 DEF Turned
<1>6. Turned(zs, ds, lost, killed)
  BY <1>5, SetDeletedShows
<1> HIDE DEF ds, killed
<1>7. Turned(fs, ds, lost, killed)
  <2>1. Turned(fs, zs, lost, zero)
    BY <1>2, <1>4, TurnedAgain
  <2> QED BY <1>6, <2>1, TurnedAgain
<1>8. killed = Full!Killed(s, a, heir)
  <2>1. Typed(moved)
    BY <1>3, LookTyped
  <2>2. moved = StateOf(moved.nonce, moved.balance, moved.code, moved.storage,
                        moved.original, moved.deleted, moved.logs)
    BY <2>1 DEF Typed
  <2>3. \A v, w : [[moved EXCEPT !.balance = v] EXCEPT !.deleted = w]
                     = [moved EXCEPT !.balance = v, !.deleted = w]
    OBVIOUS
  <2>4. \A v : [moved EXCEPT !.balance = v].deleted = moved.deleted
    BY <2>2 DEF StateOf
  <2>5. killed = [moved EXCEPT !.balance = Full!Put(@, a, 0), !.deleted = @ \cup {a}]
    BY <2>3, <2>4 DEF killed, zero
  <2> QED BY <2>5 DEF Full!Killed, moved
<1> QED BY <1>7, <1>8 DEF ds, zs, ms, value, s

LEMMA GrownKilled ==
    ASSUME NEW s, Typed(s), NEW a \in Addr, NEW heir \in Addr, Full!Taken(s, a)
    PROVE  Grown(s, Full!Killed(s, a, heir))
<1> DEFINE value == s.balance[a]
           moved == Full!Moved(s, a, heir, value)
           zero == [moved EXCEPT !.balance = Full!Put(@, a, 0)]
           killed == Full!Killed(s, a, heir)
<1>1. value \in Nat /\ value =< s.balance[a]
  BY DEF Typed
<1>2. Grown(s, moved)
  <2> HIDE DEF value
  <2> QED BY <1>1, GrownMoved
<1>3. Typed(moved)
  <2> DEFINE q == Full!Put(Full!Put(s.balance, a, s.balance[a] - value), heir,
                           Full!Put(s.balance, a, s.balance[a] - value)[heir] + value)
  <2>1. q \in [Addr -> Nat]
    <3>1. s.balance \in [Addr -> Nat] /\ s.balance[a] - value \in Nat
      BY DEF Typed
    <3> DEFINE p == Full!Put(s.balance, a, s.balance[a] - value)
    <3>2. p \in [Addr -> Nat]
      BY <3>1 DEF Full!Put
    <3> HIDE DEF p, value
    <3>3. Full!Put(p, heir, p[heir] + value) \in [Addr -> Nat]
      BY <1>1, <3>2 DEF Full!Put
    <3> QED BY <3>3 DEF p
  <2>2. moved = [s EXCEPT !.balance = q]
    BY DEF Full!Moved
  <2> HIDE DEF q, moved
  <2>3. moved = StateOf(s.nonce, q, s.code, s.storage, s.original, s.deleted, s.logs)
    BY <2>2 DEF Typed, StateOf
  <2>4. /\ moved = StateOf(moved.nonce, moved.balance, moved.code, moved.storage,
                           moved.original, moved.deleted, moved.logs)
        /\ moved.nonce = s.nonce /\ moved.balance = q /\ moved.code = s.code
    BY <2>3 DEF StateOf
  <2> QED BY <2>1, <2>4 DEF Typed
<1>4. killed = [moved EXCEPT !.balance = Full!Put(@, a, 0), !.deleted = @ \cup {a}]
  BY DEF Full!Killed
<1> HIDE DEF moved, killed
<1>5. killed.nonce = moved.nonce /\ killed.code = moved.code
      /\ killed.balance = Full!Put(moved.balance, a, 0)
  BY <1>3, <1>4 DEF Typed, StateOf
<1>6. \A b \in Addr : /\ s.nonce[b] > 0 => moved.nonce[b] > 0
                      /\ Full!Taken(s, b) => Full!Taken(moved, b)
                      /\ Full!Taken(moved, b) \/ moved.balance[b] >= s.balance[b]
  BY <1>2 DEF Grown
<1>7. \A b \in Addr : Full!Taken(killed, b) <=> Full!Taken(moved, b)
  BY <1>5 DEF Full!Taken
<1>8. \A b \in Addr : b # a => killed.balance[b] = moved.balance[b]
  BY <1>3, <1>5, PutAt DEF Typed, Full!Put
<1> QED BY <1>5, <1>6, <1>7, <1>8 DEF Grown, killed

(* The substate of a contract that is created at a.                        *)
Newborn(fs, gs, lost, a, t) ==
    /\ gs \in Seq(Substate) /\ gs # <<>> /\ Rest(gs) = fs
    /\ \A x \in Slots : Inner(gs).storages[x] = Unset
    /\ \A b \in Addr : HasReset(Inner(gs), b) <=> b = a
    /\ Look(backend, gs, lost) = t

LEMMA BornShows ==
    ASSUME backend \in Backend, NEW fs \in Seq(Substate), NEW self \in Addr, NEW a \in Addr,
           NEW value \in Nat, NEW lost, value =< Look(backend, fs, lost).balance[self],
           Full!Taken(Look(backend, fs, lost), self)
    PROVE  LET gs == IncNonce(Transfer(ResetStorage(Enter(fs), a), self, a, value), a)
               s == Look(backend, fs, lost)
               t == Full!Born(s, self, a, value)
           IN  /\ Newborn(fs, gs, lost, a, t)
               /\ Grown(s, t) /\ t.nonce[a] > 0
<1> DEFINE es == Enter(fs)
           rs == ResetStorage(es, a)
           ts == Transfer(rs, self, a, value)
           gs == IncNonce(ts, a)
           s == Look(backend, fs, lost)
           r == [s EXCEPT !.storage = Full!Emptied(@, a), !.original = Full!Emptied(@, a)]
           m == Full!Moved(r, self, a, value)
           t == Full!Bumped(m, a)
<1>1. /\ es \in Seq(Substate) /\ es # <<>> /\ Rest(es) = fs /\ Inner(es) = NewSubstate
      /\ Look(backend, es, lost) = s
  BY EnterShows
<1>2. Typed(s)
  BY LookTyped
<1>3. Full!Born(s, self, a, value) = t
  BY DEF Full!Born
<1>4. value =< s.balance[self] /\ Full!Taken(s, self)
  OBVIOUS
<1>5. r.nonce = s.nonce /\ r.balance = s.balance /\ r.code = s.code
  <2> HIDE DEF s
  <2> QED BY <1>2 DEF Typed, StateOf
<1> HIDE DEF es, s
<1>6. Cleared(es, rs, lost, a)
  BY <1>1, ResetStorageShows
<1>7. /\ rs \in Seq(Substate) /\ rs # <<>> /\ Rest(rs) = fs
      /\ \A x \in Slots : Inner(rs).storages[x] = Unset
      /\ \A b \in Addr : HasReset(Inner(rs), b) <=> b = a
      /\ Look(backend, rs, lost) = r
  <2> HIDE DEF rs
  <2>1. /\ \A x \in Slots : NewSubstate.storages[x] = Unset
        /\ \A b \in Addr : ~HasReset(NewSubstate, b)
    BY NewFields
  <2> QED BY <1>1, <1>6, <2>1 DEF Cleared
<1> HIDE DEF rs, r
<1>8. Typed(r) /\ Grown(s, r)
  <2>1. Typed(r)
    BY <1>7, LookTyped
  <2> QED BY <1>2, <1>5, <2>1, GrownSame
<1>9. value =< r.balance[self] /\ Full!Taken(r, self)
  BY <1>4, <1>5 DEF Full!Taken
<1>10. Turned(rs, ts, lost, m) /\ Grown(r, m)
  <2>1. value =< Seen(backend, rs, self).balance
    <3>1. Look(backend, rs, lost).balance[self] = Seen(backend, rs, self).balance
      BY LookAt
    <3> QED BY <1>7, <1>9, <3>1
  <2>2. Turned(rs, ts, lost, m)
    BY <1>7, <2>1, TransferShows
  <2>3. Grown(r, m)
    BY <1>8, <1>9, GrownMoved
  <2> QED BY <2>2, <2>3
<1> HIDE DEF ts, m
<1>11. ts \in Seq(Substate) /\ ts # <<>> /\ Look(backend, ts, lost) = m /\ Typed(m)
  <2>1. ts \in Seq(Substate) /\ ts # <<>> /\ Look(backend, ts, lost) = m
    BY <1>10 DEF Turned
  <2> QED BY <2>1, LookTyped
<1>12. Turned(ts, gs, lost, t) /\ Grown(m, t) /\ t.nonce[a] > 0
  <2>1. Turned(ts, gs, lost, t)
    BY <1>11, IncNonceShows
  <2> QED BY <1>11, <2>1, GrownBumped
<1> HIDE DEF gs, t
<1>13. Turned(rs, gs, lost, t)
  BY <1>10, <1>12, TurnedAgain
<1>14. Newborn(fs, gs, lost, a, t)
  BY <1>7, <1>13 DEF Newborn, Turned, SameSlots
<1>15. Grown(s, t)
  <2>1. Typed(t)
    <3>1. gs \in Seq(Substate) /\ Look(backend, gs, lost) = t
      BY <1>14 DEF Newborn
    <3> QED BY <3>1, LookTyped
  <2>2. Grown(s, m)
    BY <1>2, <1>8, <1>10, <1>11, GrownTrans
  <2> QED BY <1>2, <1>11, <1>12, <2>1, <2>2, GrownTrans
<1> QED BY <1>3, <1>12, <1>14, <1>15 DEF gs, ts, rs, es, s, t

LEMMA NewbornFits ==
    ASSUME backend \in Backend, NEW fs \in Seq(Substate), Based(backend, fs),
           NEW cs, Stacked(backend, fs, cs), NEW a \in Addr, NEW lost,
           ~Full!Taken(Look(backend, fs, lost), a),
           NEW gs, NEW t, Newborn(fs, gs, lost, a, t), Grown(Look(backend, fs, lost), t),
           t.nonce[a] > 0, NEW c, c.self = a
    PROVE  /\ gs = Append(fs, Inner(gs)) /\ Inner(gs) \in Substate
           /\ Look(backend, gs, lost) = t
           /\ Fits(backend, fs, Inner(gs), c)
<1> DEFINE h == Inner(gs)
<1>1. /\ gs \in Seq(Substate) /\ gs # <<>> /\ Rest(gs) = fs
      /\ \A x \in Slots : h.storages[x] = Unset
      /\ \A b \in Addr : HasReset(h, b) <=> b = a
      /\ Look(backend, gs, lost) = t
  BY DEF Newborn
<1>2. gs = Append(fs, h) /\ h \in Substate
  BY <1>1, EndOfSeq
<1> HIDE DEF h
<1>3. t.nonce[a] = Seen(backend, gs, a).nonce
  BY <1>1, LookAt
<1>4. SlotsInUse(backend, gs, h)
  BY <1>1, <1>3 DEF SlotsInUse
<1>5. NothingUnderReset(fs, h)
  <2>1. ~InUse(Seen(backend, fs, a))
    BY LookTyped
  <2>2. \A i \in DOMAIN fs : /\ ~HasReset(fs[i], a)
                             /\ \A x \in Slots : x[1] = a => fs[i].storages[x] = Unset
    BY <2>1, UnusedIsClear
  <2> QED BY <1>1, <2>2 DEF NothingUnderReset
<1>6. ContextInUse(backend, fs, gs, c)
  BY <1>3 DEF ContextInUse, InUse
<1>7. Grown(Look(backend, fs, lost), Look(backend, gs, lost))
  BY <1>1
<1>8. Fits(backend, fs, h, c)
  BY <1>2, <1>4, <1>5, <1>6, <1>7, FitsEntered
<1> QED BY <1>1, <1>2, <1>8 DEF h

-----------------------------------------------------------------------------
(* One instruction, in the terms of the stack.                             *)

(* The running call has changed, and nothing below it.                     *)
LEMMA UpdateStep ==
    ASSUME StackInv, NEW lower, NEW f, NEW callers, NEW c, NEW marks, NEW l, NEW lost,
           Opened(lower, f, callers, c, marks, l, lost),
           NEW g \in Substate, Fits(backend, lower, g, c), frames' = Append(lower, g),
           UNCHANGED <<backend, ctx, forgot, txs>>, ops' = ops + 1,
           outcome' \in {"none", "success", "failure"}, outcome' # "none" => lower = <<>>
    PROVE  /\ StackInv'
           /\ Mapped' = Append(Full!Rest(Mapped), Look(backend, Append(lower, g), lost))
<1>1. TypeOK /\ Stacked(backend, frames, ctx)
  BY DEF StackInv
<1>2. /\ lower \in Seq(Substate) /\ f \in Substate /\ frames = Append(lower, f)
      /\ callers \in Seq(Context) /\ c \in Context /\ ctx = Append(callers, c)
      /\ marks \in Seq(SUBSET Addr) /\ l \in SUBSET Addr /\ forgot = Append(marks, l)
      /\ Len(callers) = Len(lower) /\ Len(marks) = Len(lower)
      /\ lost = Lost(marks, Len(lower)) \cup l
  BY DEF Opened
<1>3. /\ Full!Rest(Mapped) = AllShown(backend, lower, marks)
      /\ Len(frames) = Len(lower) + 1
  BY TopIs
<1>4. /\ Append(lower, g) \in Seq(Substate) /\ Len(Append(lower, g)) = Len(lower) + 1
      /\ lower = <<>> => Len(Append(lower, g)) = 1
  BY <1>2, EndOfAppend
<1>5. TypeOK'
  BY <1>1, <1>3, <1>4 DEF TypeOK
<1>6. Stacked(backend, lower, callers)
  BY <1>1, <1>2, StackedAppend
<1>7. Stacked(backend, Append(lower, g), Append(callers, c))
  BY <1>2, <1>6, StackedAppend
<1>8. Stacked(backend', frames', ctx')
  BY <1>2, <1>7
<1>9. Mapped' = Append(AllShown(backend', lower, marks),
                       Look(backend', frames', Lost(marks, Len(lower)) \cup l))
  BY <1>2, <1>5, AfterIs
<1> QED BY <1>2, <1>3, <1>5, <1>8, <1>9 DEF StackInv

(* The running call has changed, and entered another.                      *)
LEMMA PushStep ==
    ASSUME StackInv, NEW lower, NEW f, NEW callers, NEW c, NEW marks, NEW l, NEW lost,
           Opened(lower, f, callers, c, marks, l, lost),
           NEW g \in Substate, Fits(backend, lower, g, c),
           NEW h \in Substate, NEW d \in Context, Fits(backend, Append(lower, g), h, d),
           outcome = "none", Entered(Append(Append(lower, g), h), d)
    PROVE  /\ StackInv'
           /\ Mapped' = Append(Append(Full!Rest(Mapped), Look(backend, Append(lower, g), lost)),
                               Look(backend, Append(Append(lower, g), h), lost))
           /\ ctx' = Append(ctx, d) /\ outcome' = outcome
<1> DEFINE fs == Append(lower, g)
<1>1. TypeOK /\ Stacked(backend, frames, ctx)
  BY DEF StackInv
<1>2. /\ lower \in Seq(Substate) /\ f \in Substate /\ frames = Append(lower, f)
      /\ callers \in Seq(Context) /\ c \in Context /\ ctx = Append(callers, c)
      /\ marks \in Seq(SUBSET Addr) /\ l \in SUBSET Addr /\ forgot = Append(marks, l)
      /\ Len(callers) = Len(lower) /\ Len(marks) = Len(lower)
      /\ lost = Lost(marks, Len(lower)) \cup l /\ lost \in SUBSET Addr
  BY DEF Opened
<1>3. Full!Rest(Mapped) = AllShown(backend, lower, marks)
  BY TopIs
<1>4. /\ frames' = Append(fs, h) /\ ctx' = Append(ctx, d) /\ forgot' = Append(forgot, {})
      /\ ops' = ops + 1 /\ UNCHANGED <<backend, outcome, txs>>
  BY DEF Entered
<1>5. fs \in Seq(Substate) /\ Len(fs) = Len(lower) + 1
  BY <1>2, EndOfAppend
<1>6. /\ ctx \in Seq(Context) /\ Len(ctx) = Len(lower) + 1
      /\ forgot \in Seq(SUBSET Addr) /\ Len(forgot) = Len(lower) + 1
  <2>1. ctx \in Seq(Context) /\ Len(ctx) = Len(callers) + 1
    BY <1>2, EndOfAppend
  <2>2. forgot \in Seq(SUBSET Addr) /\ Len(forgot) = Len(marks) + 1
    BY <1>2, EndOfAppend
  <2> QED BY <1>2, <2>1, <2>2
<1>7. TypeOK'
  <2>1. frames' \in Seq(Substate) /\ Len(frames') = Len(fs) + 1
    BY <1>4, <1>5, EndOfAppend
  <2>2. ctx' \in Seq(Context) /\ Len(ctx') = Len(ctx) + 1
    BY <1>4, <1>6, EndOfAppend
  <2>3. forgot' \in Seq(SUBSET Addr) /\ Len(forgot') = Len(forgot) + 1
    BY <1>4, <1>6, EndOfAppend
  <2> QED BY <1>1, <1>4, <1>5, <1>6, <2>1, <2>2, <2>3 DEF TypeOK
<1>8. Stacked(backend', frames', ctx')
  <2>1. Stacked(backend, lower, callers)
    BY <1>1, <1>2, StackedAppend
  <2>2. Stacked(backend, fs, ctx)
    BY <1>2, <2>1, StackedAppend
  <2>3. Stacked(backend, Append(fs, h), Append(ctx, d))
    <3>1. Fits(backend, fs, h, d)
      OBVIOUS
    <3> HIDE DEF fs
    <3> QED BY <1>5, <1>6, <2>2, <3>1, StackedAppend
  <2> QED BY <1>4, <2>3
<1>9. Mapped' = Append(AllShown(backend, fs, forgot), Look(backend, Append(fs, h), lost))
  <2>1. Mapped' = Append(AllShown(backend', fs, forgot),
                         Look(backend', frames', Lost(forgot, Len(fs)) \cup {}))
    <3> HIDE DEF fs
    <3> QED BY <1>4, <1>5, <1>6, <1>7, AfterIs
  <2>2. Lost(forgot, Len(fs)) = lost
    <3>1. ShownAppend(backend, lower, g, marks, l)
      BY <1>2, AllShownAppend
    <3> QED BY <1>2, <1>5, <3>1 DEF ShownAppend
  <2> HIDE DEF fs
  <2> QED BY <1>4, <2>1, <2>2
<1>10. AllShown(backend, fs, forgot) = Append(Full!Rest(Mapped), Look(backend, fs, lost))
  <2>1. ShownAppend(backend, lower, g, marks, l)
    BY <1>2, AllShownAppend
  <2> QED BY <1>2, <1>3, <2>1 DEF ShownAppend
<1> QED BY <1>4, <1>7, <1>8, <1>9, <1>10 DEF StackInv

LEMMA OpenedFits ==
    ASSUME StackInv, NEW lower, NEW f, NEW callers, NEW c, NEW marks, NEW l, NEW lost,
           Opened(lower, f, callers, c, marks, l, lost)
    PROVE  /\ backend \in Backend /\ c.self \in Addr
           /\ c.create \in BOOLEAN /\ c.runs \in BOOLEAN
           /\ Stacked(backend, lower, callers) /\ Fits(backend, lower, f, c)
<1>1. TypeOK /\ Stacked(backend, frames, ctx)
  BY DEF StackInv
<1>2. /\ lower \in Seq(Substate) /\ f \in Substate /\ frames = Append(lower, f)
      /\ callers \in Seq(Context) /\ c \in Context /\ ctx = Append(callers, c)
      /\ Len(callers) = Len(lower)
  BY DEF Opened
<1>3. Stacked(backend, lower, callers) /\ Fits(backend, lower, f, c)
  BY <1>1, <1>2, StackedAppend
<1>4. c.self \in Addr /\ c.create \in BOOLEAN /\ c.runs \in BOOLEAN
  BY <1>2 DEF Context
<1> QED BY <1>1, <1>3, <1>4 DEF TypeOK

(* The caller of the running call, and how far the resets of the three     *)
(* histories reach.                                                        *)
Under(lower, callers, marks, l, below, p, above, b, older, k) ==
    /\ below \in Seq(Substate) /\ p \in Substate /\ lower = Append(below, p)
    /\ above \in Seq(Context) /\ b \in Context /\ callers = Append(above, b)
    /\ older \in Seq(SUBSET Addr) /\ k \in SUBSET Addr /\ marks = Append(older, k)
    /\ Len(above) = Len(below) /\ Len(older) = Len(below) /\ Len(lower) = Len(below) + 1
    /\ Lost(marks, Len(lower)) = Lost(older, Len(below)) \cup k
    /\ Stacked(backend, below, above) /\ Fits(backend, below, p, b) /\ b.self \in Addr
    /\ Full!Rest(Full!Rest(Mapped)) = AllShown(backend, below, older)

LEMMA UnderIs ==
    ASSUME StackInv, NEW lower, NEW f, NEW callers, NEW c, NEW marks, NEW l, NEW lost,
           Opened(lower, f, callers, c, marks, l, lost), lower # <<>>
    PROVE  Under(lower, callers, marks, l, Rest(lower), Inner(lower),
                 Rest(callers), Inner(callers), Rest(marks), Inner(marks))
<1> DEFINE below == Rest(lower)
           p == Inner(lower)
           above == Rest(callers)
           b == Inner(callers)
           older == Rest(marks)
           k == Inner(marks)
<1>1. /\ lower \in Seq(Substate) /\ callers \in Seq(Context) /\ marks \in Seq(SUBSET Addr)
      /\ Len(callers) = Len(lower) /\ Len(marks) = Len(lower)
  BY DEF Opened
<1>2. Len(lower) \in Nat \ {0} /\ callers # <<>> /\ marks # <<>>
  BY <1>1, EmptySeq, LenProperties
<1>3. /\ below \in Seq(Substate) /\ p \in Substate /\ lower = Append(below, p)
      /\ Len(below) = Len(lower) - 1
  BY <1>1, EndOfSeq
<1>4. /\ above \in Seq(Context) /\ b \in Context /\ callers = Append(above, b)
      /\ Len(above) = Len(callers) - 1
  BY <1>1, <1>2, EndOfSeq
<1>5. /\ older \in Seq(SUBSET Addr) /\ k \in SUBSET Addr /\ marks = Append(older, k)
      /\ Len(older) = Len(marks) - 1
  BY <1>1, <1>2, EndOfSeq
<1> HIDE DEF below, p, above, b, older, k
<1>6. Len(above) = Len(below) /\ Len(older) = Len(below) /\ Len(lower) = Len(below) + 1
  BY <1>1, <1>2, <1>3, <1>4, <1>5
<1>7. ShownAppend(backend, below, p, older, k)
  BY <1>3, <1>5, <1>6, AllShownAppend
<1>8. Lost(marks, Len(lower)) = Lost(older, Len(below)) \cup k
  BY <1>5, <1>6, <1>7 DEF ShownAppend
<1>9. Stacked(backend, below, above) /\ Fits(backend, below, p, b)
  <2>1. Stacked(backend, lower, callers)
    BY OpenedFits
  <2> QED BY <1>3, <1>4, <1>6, <2>1, StackedAppend
<1>10. b.self \in Addr
  BY <1>4 DEF Context
<1>11. Full!Rest(Full!Rest(Mapped)) = AllShown(backend, below, older)
  <2> DEFINE low == AllShown(backend, below, older)
             top == Look(backend, lower, Lost(older, Len(below)) \cup k)
  <2>1. Full!Rest(Mapped) = AllShown(backend, lower, marks)
    BY TopIs
  <2>2. low \in Seq(Looks(backend)) /\ AllShown(backend, lower, marks) = Append(low, top)
    BY <1>3, <1>5, <1>7 DEF ShownAppend
  <2>3. top \in Looks(backend)
    <3>1. Lost(older, Len(below)) \cup k \in SUBSET Addr
      BY <1>7 DEF ShownAppend
    <3> QED BY <1>1, <3>1, LookInLooks
  <2> HIDE DEF low, top
  <2>4. Rest(Append(low, top)) = low
    BY <2>2, <2>3, EndOfAppend
  <2>5. Full!Rest(Full!Rest(Mapped)) = Rest(Full!Rest(Mapped))
    BY DEF Full!Rest, Rest
  <2> QED BY <2>1, <2>2, <2>4, <2>5 DEF low
<1> QED BY <1>3, <1>4, <1>5, <1>6, <1>8, <1>9, <1>10, <1>11
        DEF Under, below, p, above, b, older, k

(* The state the caller goes on with.                                      *)
Returned(t, c, code) ==
    IF c.create THEN [t EXCEPT !.code = Full!Put(@, c.self, code)] ELSE t

(* The running call has changed, and is committed.                         *)
LEMMA CommitStep ==
    ASSUME StackInv, NEW lower, NEW f, NEW callers, NEW c, NEW marks, NEW l, NEW lost,
           Opened(lower, f, callers, c, marks, l, lost), lower # <<>>,
           NEW q \in Substate, Fits(backend, lower, q, c), NEW code \in BOOLEAN,
           Committed(Append(lower, q), code)
    PROVE  StackInv' /\ Full!HandOver(Look(backend, Append(lower, q), lost), code)
<1> DEFINE below == Rest(lower)
           p == Inner(lower)
           above == Rest(callers)
           b == Inner(callers)
           older == Rest(marks)
           k == Inner(marks)
           fs == Append(lower, q)
           m == Merged(p, q)
           undone == ForgottenBy(p, q)
           gs == Append(below, m)
           t == Look(backend, fs, lost)
           more == lost \cup undone
           hs == IF c.create THEN SetCode(gs, c.self, code) ELSE gs
<1>1. TypeOK /\ Stacked(backend, frames, ctx)
  BY DEF StackInv
<1>2. Under(lower, callers, marks, l, below, p, above, b, older, k)
  BY UnderIs
<1>3. /\ lower \in Seq(Substate)
      /\ callers \in Seq(Context) /\ c \in Context /\ ctx = Append(callers, c)
      /\ marks \in Seq(SUBSET Addr) /\ l \in SUBSET Addr /\ forgot = Append(marks, l)
      /\ lost = Lost(marks, Len(lower)) \cup l
  BY DEF Opened
<1>4. /\ Running = c /\ Full!Running = c /\ Rest(ctx) = callers
      /\ Rest(forgot) = marks /\ Inner(forgot) = l
  BY TopIs
<1>5. backend \in Backend /\ c.self \in Addr /\ c.create \in BOOLEAN
  BY OpenedFits
<1>6. Inner(lower) = p /\ Rest(fs) = lower /\ Inner(fs) = q /\ fs \in Seq(Substate)
  BY <1>3, EndOfAppend
<1> HIDE DEF below, p, above, b, older, k
<1>7. /\ below \in Seq(Substate) /\ p \in Substate /\ lower = Append(below, p)
      /\ above \in Seq(Context) /\ b \in Context /\ callers = Append(above, b)
      /\ older \in Seq(SUBSET Addr) /\ k \in SUBSET Addr /\ marks = Append(older, k)
      /\ Len(above) = Len(below) /\ Len(older) = Len(below) /\ Len(lower) = Len(below) + 1
      /\ Lost(marks, Len(lower)) = Lost(older, Len(below)) \cup k
      /\ Stacked(backend, below, above) /\ Fits(backend, below, p, b) /\ b.self \in Addr
      /\ Full!Rest(Full!Rest(Mapped)) = AllShown(backend, below, older)
  BY <1>2 DEF Under
<1>8. m \in Substate
  BY <1>7, MergedFields
<1>9. /\ ExitCommit(fs) = gs
      /\ \A a \in Addr : Seen(backend, gs, a) = Seen(backend, fs, a)
      /\ Look(backend, gs, more) = t
  <2>1. NothingUnderReset(below, p)
    BY <1>7 DEF Fits
  <2>2. SameAfterCommit(backend, below, p, q, lost)
    BY <1>5, <1>7, <2>1, CommitShows
  <2>3. fs = Append(Append(below, p), q)
    BY <1>7
  <2> QED BY <2>2, <2>3 DEF SameAfterCommit
<1>10. Fits(backend, below, m, b)
  <2>1. Fits(backend, Append(below, p), q, c)
    BY <1>7
  <2> QED BY <1>5, <1>7, <2>1, FitsMerged
<1>11. undone \in SUBSET Addr
  BY DEF ForgottenBy
<1>12. /\ frames' = hs /\ ctx' = callers
       /\ outcome' = IF Len(ctx) = 2 THEN "success" ELSE "none"
       /\ forgot' = InnerWith(marks, l \cup Inner(marks) \cup undone)
       /\ UNCHANGED <<backend, ops, txs>>
  BY <1>4, <1>6, <1>9 DEF Committed, p
<1>13. forgot' = Append(older, l \cup k \cup undone) /\ l \cup k \cup undone \in SUBSET Addr
  <2>1. l \cup k \cup undone \in SUBSET Addr
    BY <1>3, <1>7, <1>11
  <2>2. Inner(marks) = k
    BY DEF k
  <2> DEFINE e == l \cup k \cup undone
  <2>3. e \in SUBSET Addr /\ forgot' = InnerWith(Append(older, k), e)
    BY <1>7, <1>12, <2>1, <2>2
  <2> HIDE DEF e
  <2>4. older \in Seq(SUBSET Addr) /\ k \in SUBSET Addr /\ e \in SUBSET Addr
    BY <1>7, <2>3
  <2>5. InnerWith(Append(older, k), e) = Append(older, e)
    BY <2>4, EndOfAppend
  <2> QED BY <2>3, <2>5 DEF e
<1>14. Typed(t) /\ gs \in Seq(Substate) /\ gs # <<>>
  <2>1. Typed(t)
    BY <1>5, <1>6, LookTyped
  <2> HIDE DEF m
  <2>2. below \in Seq(Substate) /\ m \in Substate
    BY <1>7, <1>8
  <2>3. gs \in Seq(Substate) /\ gs # <<>>
    BY <2>2, EndOfAppend
  <2> QED BY <2>1, <2>3
<1>15. c.create => t.nonce[c.self] > 0
  <2>1. c.create => Seen(backend, fs, c.self).nonce > 0
    BY DEF Fits, ContextInUse
  <2>2. t.nonce[c.self] = Seen(backend, fs, c.self).nonce
    BY <1>5, LookAt
  <2> QED BY <2>1, <2>2
<1> HIDE DEF m, gs, t, undone, more, fs
<1>16. /\ hs = Append(below, Inner(hs)) /\ Inner(hs) \in Substate
       /\ Look(backend, hs, more) = Returned(t, c, code)
       /\ Fits(backend, below, Inner(hs), b)
  <2>1. CASE c.create
    <3> DEFINE u == [t EXCEPT !.code = Full!Put(@, c.self, code)]
    <3>1. hs = SetCode(gs, c.self, code) /\ Returned(t, c, code) = u
      BY <2>1 DEF Returned
    <3>2. Turned(gs, SetCode(gs, c.self, code), more,
                 [Look(backend, gs, more) EXCEPT !.code = Full!Put(@, c.self, code)])
      BY <1>5, <1>14, SetCodeShows
    <3>3. Turned(gs, SetCode(gs, c.self, code), more, u)
      BY <1>9, <3>2
    <3> HIDE DEF hs
    <3>4. Turned(Append(below, m), hs, more, u)
      BY <3>1, <3>3 DEF gs
    <3>5. Grown(t, u)
      BY <1>5, <1>14, <1>15, <2>1, GrownCode
    <3>6. Grown(Look(backend, Append(below, m), more), u)
      BY <1>9, <3>5 DEF gs
    <3> HIDE DEF u
    <3>7. /\ hs = Append(below, Inner(hs)) /\ Inner(hs) \in Substate
          /\ Look(backend, hs, more) = u
          /\ Fits(backend, below, Inner(hs), b)
      BY <1>5, <1>7, <1>8, <1>10, <3>4, <3>6, TurnedFits
    <3> QED BY <3>1, <3>7
  <2>2. CASE ~c.create
    <3>1. hs = gs /\ Returned(t, c, code) = t
      BY <2>2 DEF Returned
    <3>2. Inner(gs) = m
      BY <1>7, <1>8, EndOfAppend DEF gs
    <3> QED BY <1>8, <1>9, <1>10, <3>1, <3>2 DEF gs
  <2> QED BY <2>1, <2>2
<1> DEFINE g == Inner(hs)
<1>17. /\ g \in Substate /\ frames' = Append(below, g) /\ Fits(backend, below, g, b)
       /\ Look(backend, Append(below, g), more) = Returned(t, c, code)
  <2> HIDE DEF hs
  <2> QED BY <1>12, <1>16
<1> HIDE DEF g, hs
<1>18. TypeOK'
  <2>1. frames' \in Seq(Substate) /\ Len(frames') = Len(below) + 1
    BY <1>7, <1>17, EndOfAppend
  <2>2. forgot' \in Seq(SUBSET Addr) /\ Len(forgot') = Len(older) + 1
    BY <1>7, <1>13, EndOfAppend
  <2>3. ctx' \in Seq(Context) /\ Len(ctx') = Len(above) + 1
    BY <1>7, <1>12, EndOfAppend
  <2>4. outcome' # "none" => Len(frames') = 1
    <3>1. outcome' # "none" => Len(lower) = 1
      <4>1. Len(ctx) = 2 => Len(lower) = 1
        BY TopIs DEF Depths
      <4> QED BY <1>12, <4>1
    <3> QED BY <1>7, <2>1, <3>1
  <2>5. outcome' \in {"none", "success", "failure"}
    BY <1>12
  <2> QED BY <1>1, <1>7, <1>12, <2>1, <2>2, <2>3, <2>4, <2>5 DEF TypeOK
<1>19. Stacked(backend', frames', ctx')
  <2>1. Stacked(backend, Append(below, g), Append(above, b))
    BY <1>7, <1>17, StackedAppend
  <2> QED BY <1>7, <1>12, <1>17, <2>1
<1>20. Mapped' = Append(Full!Rest(Full!Rest(Mapped)), Returned(t, c, code))
  <2>1. Mapped' = Append(AllShown(backend', below, older),
                         Look(backend', frames', Lost(older, Len(below)) \cup (l \cup k \cup undone)))
    BY <1>7, <1>13, <1>17, <1>18, AfterIs
  <2>2. Lost(older, Len(below)) \cup (l \cup k \cup undone) = more
    BY <1>3, <1>7 DEF more
  <2> QED BY <1>7, <1>12, <1>17, <2>1, <2>2
<1>21. Full!HandOver(t, code)
  <2>1. ctx' = Full!Rest(ctx)
    BY <1>4, <1>12 DEF Full!Rest, Rest
  <2>2. Mapped' = Append(Full!Rest(Full!Rest(Mapped)),
                         IF Full!Running.create
                         THEN [t EXCEPT !.code = Full!Put(@, Full!Running.self, code)] ELSE t)
    BY <1>4, <1>20 DEF Returned
  <2> QED BY <1>12, <2>1, <2>2 DEF Full!HandOver, Mapped
<1> QED BY <1>18, <1>19, <1>21 DEF StackInv, t, fs

-----------------------------------------------------------------------------
(* Each action keeps the invariant and is a step of StateStack.            *)

(* A contract that runs is in use.                                         *)
LEMMA SelfInUse ==
    ASSUME StackInv, NEW lower, NEW f, NEW callers, NEW c, NEW marks, NEW l, NEW lost,
           Opened(lower, f, callers, c, marks, l, lost), lower # <<>>, c.runs
    PROVE  Full!Taken(Look(backend, frames, lost), c.self)
<1>1. Fits(backend, lower, f, c) /\ backend \in Backend /\ c.self \in Addr
  BY OpenedFits
<1>2. frames = Append(lower, f) /\ frames \in Seq(Substate)
  BY TopIs DEF Opened
<1>3. InUse(Seen(backend, frames, c.self))
  BY <1>1, <1>2 DEF Fits, ContextInUse
<1> QED BY <1>1, <1>2, <1>3, LookTyped

(* The nonce that a call or a creation uses.                               *)
NonceUsed(lower, c, lost, fs) ==
    /\ fs = Append(lower, Inner(fs)) /\ Inner(fs) \in Substate
    /\ Fits(backend, lower, Inner(fs), c)
    /\ Look(backend, fs, lost) = Full!Bumped(Look(backend, frames, lost), c.self)
    /\ Full!Taken(Look(backend, fs, lost), c.self)

LEMMA IncNonceFits ==
    ASSUME StackInv, NEW lower, NEW f, NEW callers, NEW c, NEW marks, NEW l, NEW lost,
           Opened(lower, f, callers, c, marks, l, lost)
    PROVE  NonceUsed(lower, c, lost, IncNonce(frames, c.self))
<1> DEFINE fs == IncNonce(frames, c.self)
           s == Look(backend, frames, lost)
           t == Full!Bumped(s, c.self)
<1>1. Fits(backend, lower, f, c) /\ backend \in Backend /\ c.self \in Addr
  BY OpenedFits
<1>2. /\ frames = Append(lower, f) /\ frames \in Seq(Substate) /\ frames # <<>>
      /\ lower \in Seq(Substate) /\ f \in Substate
  BY TopIs DEF Opened
<1>3. Turned(frames, fs, lost, t)
  BY <1>1, <1>2, IncNonceShows
<1>4. Grown(s, t) /\ t.nonce[c.self] > 0
  <2>1. Typed(s)
    BY <1>1, <1>2, LookTyped
  <2> HIDE DEF s
  <2> QED BY <1>1, <2>1, GrownBumped
<1> HIDE DEF fs, t
<1>5. /\ fs = Append(lower, Inner(fs)) /\ Inner(fs) \in Substate
      /\ Look(backend, fs, lost) = t
      /\ Fits(backend, lower, Inner(fs), c)
  <2>1. Turned(Append(lower, f), fs, lost, t) /\ Grown(Look(backend, Append(lower, f), lost), t)
    BY <1>2, <1>3, <1>4
  <2> QED BY <1>1, <1>2, <2>1, TurnedFits
<1>6. Full!Taken(t, c.self)
  BY <1>4 DEF Full!Taken
<1> QED BY <1>5, <1>6 DEF NonceUsed, fs, s, t

LEMMA BumpedKeeps ==
    ASSUME NEW s, Typed(s), NEW a
    PROVE  Full!Bumped(s, a).balance = s.balance /\ Full!Bumped(s, a).code = s.code
<1> DEFINE n == Full!Put(s.nonce, a, s.nonce[a] + 1)
<1>1. Full!Bumped(s, a) = [s EXCEPT !.nonce = n]
  BY DEF Full!Bumped
<1> HIDE DEF n
<1> QED BY <1>1 DEF Typed, StateOf

LEMMA CallStep ==
    ASSUME StackInv, NEW to \in Addr, NEW value \in Amounts, Call(to, value)
    PROVE  StackInv' /\ Full!Call(to, value)
<1> DEFINE lower == Rest(frames)
           f == Inner(frames)
           callers == Rest(ctx)
           c == Inner(ctx)
           marks == Rest(forgot)
           l == Inner(forgot)
           lost == Lost(forgot, Len(frames))
           fs == IF Len(ctx) = 1 THEN IncNonce(frames, Running.self) ELSE frames
           s == Look(backend, fs, lost)
           gs == Transfer(Touch(Enter(fs), to), Running.self, to, value)
           t == Full!Moved(s, Running.self, to, value)
           d == [self |-> to, create |-> FALSE, runs |-> Code(fs, to)]
<1>1. TypeOK /\ frames # <<>> /\ outcome = "none" /\ Running.runs
  BY DEF StackInv, Call, CanAct
<1>2. Opened(lower, f, callers, c, marks, l, lost)
  BY <1>1, OpenedIs
<1>3. value \in Nat
  BY StackAssumption
<1> HIDE DEF lower, f, callers, c, marks, l, lost
<1>4. Fits(backend, lower, f, c) /\ backend \in Backend /\ c.self \in Addr
  BY <1>2, OpenedFits
<1>5. /\ frames = Append(lower, f) /\ frames \in Seq(Substate) /\ frames # <<>>
      /\ lower \in Seq(Substate) /\ f \in Substate /\ Inner(frames) = f
  <2>1. frames = Append(lower, f) /\ lower \in Seq(Substate) /\ f \in Substate
    BY <1>2 DEF Opened
  <2>2. frames \in Seq(Substate) /\ frames # <<>> /\ Inner(frames) = f
    BY <1>2, TopIs
  <2> QED BY <2>1, <2>2
<1>6. /\ Running = c /\ Full!Running = c /\ ctx # <<>>
      /\ Full!Top = Look(backend, frames, lost)
  BY <1>2, TopIs
<1>7. Depths(lower)
  BY <1>2, TopIs
<1>8. /\ value =< Basic(fs, c.self).balance
      /\ Entered(gs, d)
  BY <1>6 DEF Call
<1>9. NonceUsed(lower, c, lost, IncNonce(frames, c.self))
  BY <1>2, IncNonceFits
<1>10. /\ fs = Append(lower, Inner(fs)) /\ Inner(fs) \in Substate
       /\ Fits(backend, lower, Inner(fs), c)
       /\ Full!Taken(s, c.self)
       /\ s = IF Len(ctx) = 1 THEN Full!Bumped(Full!Top, c.self) ELSE Full!Top
  <2>1. CASE Len(ctx) = 1
    <3>1. fs = IncNonce(frames, c.self)
      BY <1>6, <2>1
    <3> HIDE DEF fs
    <3> QED BY <1>6, <1>9, <2>1, <3>1 DEF NonceUsed
  <2>2. CASE Len(ctx) # 1
    <3>1. fs = frames /\ lower # <<>>
      BY <1>7, <2>2 DEF Depths
    <3>2. Full!Taken(Look(backend, frames, lost), c.self)
      BY <1>1, <1>2, <1>6, <3>1, SelfInUse
    <3> HIDE DEF fs
    <3> QED BY <1>4, <1>5, <1>6, <2>2, <3>1, <3>2
  <2> QED BY <2>1, <2>2
<1> DEFINE g == Inner(fs)
<1> HIDE DEF fs
<1>11. fs \in Seq(Substate) /\ fs = Append(lower, g) /\ g \in Substate
  <2>1. fs = Append(lower, g) /\ g \in Substate
    BY <1>10
  <2> HIDE DEF g
  <2> QED BY <1>5, <2>1, EndOfAppend
<1>12. Typed(s) /\ \A a \in Addr : /\ s.balance[a] = Seen(backend, fs, a).balance
                                   /\ s.code[a] = Seen(backend, fs, a).code
  BY <1>4, <1>11, LookTyped, LookAt
<1>13. value =< s.balance[c.self] /\ d.runs = s.code[to]
  BY <1>4, <1>8, <1>12, BasicIs
<1> HIDE DEF s, gs
<1>14. Turned(Enter(fs), gs, lost, t)
  BY <1>3, <1>4, <1>6, <1>11, <1>13, EnterTransferShows DEF s, gs
<1>15. Grown(s, t)
  BY <1>3, <1>4, <1>6, <1>10, <1>12, <1>13, GrownMoved
<1>16. d \in Context /\ d.self = to /\ d.create = FALSE
  <2>1. Code(fs, to) \in BOOLEAN
    BY <1>12, <1>13 DEF Typed
  <2> QED BY <2>1 DEF Context
<1>17. d.runs => Full!Taken(t, d.self)
  <2>1. d.runs => Full!Taken(s, to)
    BY <1>13 DEF Full!Taken
  <2>2. Full!Taken(s, to) => Full!Taken(t, to)
    BY <1>15 DEF Grown
  <2> HIDE DEF d, t
  <2> QED BY <1>16, <2>1, <2>2
<1>18. /\ gs = Append(fs, Inner(gs)) /\ Inner(gs) \in Substate
       /\ Look(backend, gs, lost) = t
       /\ Fits(backend, fs, Inner(gs), d)
  <2>1. Based(backend, fs)
    BY <1>10, FitsBased
  <2>2. Grown(Look(backend, fs, lost), t) /\ d.self \in Addr /\ ~d.create
    BY <1>15, <1>16 DEF s
  <2> HIDE DEF d, t
  <2> QED BY <1>4, <1>11, <1>14, <1>17, <2>1, <2>2, TurnedEnter
<1> DEFINE h == Inner(gs)
<1> HIDE DEF d, t, g
<1>19. /\ StackInv'
       /\ Mapped' = Append(Append(Full!Rest(Mapped), Look(backend, Append(lower, g), lost)),
                           Look(backend, Append(Append(lower, g), h), lost))
       /\ ctx' = Append(ctx, d) /\ outcome' = outcome
  <2>1. /\ h \in Substate /\ Fits(backend, Append(lower, g), h, d)
        /\ Entered(Append(Append(lower, g), h), d)
    BY <1>8, <1>11, <1>18
  <2>2. Fits(backend, lower, g, c)
    BY <1>10 DEF g
  <2> HIDE DEF h
  <2> QED BY <1>1, <1>2, <1>11, <1>16, <2>1, <2>2, PushStep
<1>20. Mapped' = Append(Append(Full!Rest(Mapped), s), t)
  BY <1>11, <1>18, <1>19 DEF s
<1>21. Full!Call(to, value)
  <2>1. Full!CanAct
    BY <1>1, <1>6 DEF Full!CanAct
  <2>2. Full!Push(s, t, d)
    BY <1>19, <1>20 DEF Full!Push, Mapped
  <2>3. d = [self |-> to, create |-> FALSE, runs |-> s.code[to]]
    BY <1>13 DEF d
  <2>4. s = IF Len(ctx) = 1 THEN Full!Bumped(Full!Top, Full!Running.self) ELSE Full!Top
    BY <1>6, <1>10
  <2>5. value =< s.balance[Full!Running.self] /\ t = Full!Moved(s, Full!Running.self, to, value)
    BY <1>6, <1>13 DEF t
  <2> QED BY <2>1, <2>2, <2>3, <2>4, <2>5 DEF Full!Call
<1> QED BY <1>19, <1>21

(* What an action of a running contract starts from.                       *)
Acts(lower, f, c, lost) ==
    /\ backend \in Backend /\ c.self \in Addr
    /\ Fits(backend, lower, f, c)
    /\ frames = Append(lower, f) /\ frames \in Seq(Substate) /\ frames # <<>>
    /\ lower \in Seq(Substate) /\ f \in Substate /\ Inner(frames) = f
    /\ Running = c /\ Full!Running = c /\ ctx # <<>>
    /\ Full!Top = Look(backend, frames, lost)
    /\ Typed(Full!Top)

LEMMA ActsIs ==
    ASSUME StackInv, NEW lower, NEW f, NEW callers, NEW c, NEW marks, NEW l, NEW lost,
           Opened(lower, f, callers, c, marks, l, lost)
    PROVE  Acts(lower, f, c, lost)
<1>1. backend \in Backend /\ c.self \in Addr /\ Fits(backend, lower, f, c)
  BY OpenedFits
<1>2. frames = Append(lower, f) /\ lower \in Seq(Substate) /\ f \in Substate
  BY DEF Opened
<1>3. /\ frames \in Seq(Substate) /\ frames # <<>> /\ Inner(frames) = f
      /\ Running = c /\ Full!Running = c /\ ctx # <<>>
      /\ Full!Top = Look(backend, frames, lost)
  BY TopIs
<1>4. Typed(Full!Top)
  BY <1>1, <1>3, LookTyped
<1> QED BY <1>1, <1>2, <1>3, <1>4 DEF Acts

LEMMA DelegateStep ==
    ASSUME StackInv, DelegateCall
    PROVE  StackInv' /\ Full!DelegateCall
<1> DEFINE lower == Rest(frames)
           f == Inner(frames)
           callers == Rest(ctx)
           c == Inner(ctx)
           marks == Rest(forgot)
           l == Inner(forgot)
           lost == Lost(forgot, Len(frames))
           s == Look(backend, frames, lost)
           gs == Touch(Enter(frames), c.self)
           d == [self |-> c.self, create |-> FALSE, runs |-> TRUE]
<1>1. TypeOK /\ frames # <<>> /\ outcome = "none" /\ Running.runs /\ Len(ctx) > 1
  BY DEF StackInv, DelegateCall, InContract, CanAct
<1>2. Opened(lower, f, callers, c, marks, l, lost)
  BY <1>1, OpenedIs
<1> HIDE DEF lower, f, callers, c, marks, l, lost
<1>3. Acts(lower, f, c, lost)
  BY <1>2, ActsIs
<1>4. lower # <<>>
  BY <1>1, <1>2, TopIs DEF Depths
<1>5. Entered(gs, d)
  BY <1>3 DEF DelegateCall, Acts
<1>6. Full!Taken(s, c.self)
  BY <1>1, <1>2, <1>3, <1>4, SelfInUse DEF Acts
<1>7. Turned(Enter(frames), gs, lost, s)
  BY <1>3, EnterTouchShows DEF Acts
<1>8. Grown(s, s)
  BY <1>3, GrownSame DEF Acts
<1>9. Based(backend, frames)
  BY <1>3, FitsBased DEF Acts
<1>10. d \in Context /\ d.self = c.self /\ d.create = FALSE
  BY <1>3 DEF Context, Acts
<1> HIDE DEF d, gs
<1>11. /\ gs = Append(frames, Inner(gs)) /\ Inner(gs) \in Substate
       /\ Look(backend, gs, lost) = s
       /\ Fits(backend, frames, Inner(gs), d)
  <2>1. backend \in Backend /\ frames \in Seq(Substate) /\ d.self \in Addr
    BY <1>3, <1>10 DEF Acts
  <2>2. Grown(Look(backend, frames, lost), s) /\ ~d.create /\ Full!Taken(s, d.self)
    BY <1>6, <1>8, <1>10
  <2> HIDE DEF s
  <2> QED BY <1>7, <1>9, <2>1, <2>2, TurnedEnter
<1> DEFINE h == Inner(gs)
<1>12. /\ StackInv'
       /\ Mapped' = Append(Append(Full!Rest(Mapped), Look(backend, Append(lower, f), lost)),
                           Look(backend, Append(Append(lower, f), h), lost))
       /\ ctx' = Append(ctx, d) /\ outcome' = outcome
  <2>1. /\ h \in Substate /\ Fits(backend, Append(lower, f), h, d)
        /\ Entered(Append(Append(lower, f), h), d)
    BY <1>3, <1>5, <1>11 DEF Acts
  <2>2. f \in Substate /\ Fits(backend, lower, f, c)
    BY <1>3 DEF Acts
  <2> HIDE DEF h
  <2> QED BY <1>1, <1>2, <1>10, <2>1, <2>2, PushStep
<1>13. Mapped' = Append(Append(Full!Rest(Mapped), Full!Top), Full!Top)
  BY <1>3, <1>11, <1>12 DEF Acts
<1>14. Full!DelegateCall
  <2>1. Full!InContract
    BY <1>1, <1>3 DEF Full!CanAct, Full!InContract, Acts
  <2>2. d = [self |-> Full!Running.self, create |-> FALSE, runs |-> TRUE]
    BY <1>3 DEF d, Acts
  <2>3. Full!Push(Full!Top, Full!Top, d)
    BY <1>12, <1>13 DEF Full!Push, Mapped
  <2> QED BY <2>1, <2>2, <2>3 DEF Full!DelegateCall
<1> QED BY <1>12, <1>14

(* An instruction that changes the running call's substate, and shows t.   *)
LEMMA InstructionStep ==
    ASSUME StackInv, NEW lower, NEW f, NEW callers, NEW c, NEW marks, NEW l, NEW lost,
           Opened(lower, f, callers, c, marks, l, lost),
           NEW gs, NEW t, gs = Append(lower, Inner(gs)), Inner(gs) \in Substate,
           Look(backend, gs, lost) = t, Fits(backend, lower, Inner(gs), c),
           InContract, Updated(gs)
    PROVE  StackInv' /\ Full!Update(t) /\ Full!InContract
<1>1. /\ outcome = "none" /\ Running.runs /\ Len(ctx) > 1
      /\ frames' = gs /\ ops' = ops + 1 /\ UNCHANGED <<backend, ctx, outcome, txs, forgot>>
  BY DEF InContract, CanAct, Updated
<1>2. Acts(lower, f, c, lost)
  BY ActsIs
<1> DEFINE g == Inner(gs)
<1>3. frames' = Append(lower, g) /\ g \in Substate /\ Fits(backend, lower, g, c)
  BY <1>1
<1>4. /\ UNCHANGED <<backend, ctx, forgot, txs>> /\ ops' = ops + 1
      /\ outcome' \in {"none", "success", "failure"} /\ outcome' = "none"
  BY <1>1
<1>5. Look(backend, Append(lower, g), lost) = t
  OBVIOUS
<1> HIDE DEF g
<1>6. StackInv' /\ Mapped' = Append(Full!Rest(Mapped), t)
  BY <1>3, <1>4, <1>5, UpdateStep
<1>7. Full!InContract
  BY <1>1, <1>2 DEF Full!InContract, Full!CanAct, Acts
<1> QED BY <1>1, <1>6, <1>7 DEF Full!Update, Mapped

LEMMA LogStep ==
    ASSUME StackInv, EmitLog
    PROVE  StackInv' /\ Full!EmitLog
<1> DEFINE lower == Rest(frames)
           f == Inner(frames)
           callers == Rest(ctx)
           c == Inner(ctx)
           marks == Rest(forgot)
           l == Inner(forgot)
           lost == Lost(forgot, Len(frames))
           s == Look(backend, frames, lost)
           t == [s EXCEPT !.logs = Append(@, c.self)]
           gs == Log(frames, c.self)
<1>1. TypeOK /\ frames # <<>> /\ InContract
  BY DEF StackInv, EmitLog, InContract, CanAct
<1>2. Opened(lower, f, callers, c, marks, l, lost)
  BY <1>1, OpenedIs
<1> HIDE DEF lower, f, callers, c, marks, l, lost
<1>3. Acts(lower, f, c, lost)
  BY <1>2, ActsIs
<1>4. Updated(gs)
  BY <1>3 DEF EmitLog, Acts
<1>5. Turned(frames, gs, lost, t)
  BY <1>3, LogShows DEF Acts
<1>6. Grown(s, t)
  <2>1. Typed(s)
    BY <1>3 DEF Acts
  <2>2. t.nonce = s.nonce /\ t.balance = s.balance /\ t.code = s.code
    BY <2>1 DEF Typed, StateOf
  <2> HIDE DEF s, t
  <2> QED BY <2>1, <2>2, GrownSame
<1>7. s = Full!Top /\ c = Full!Running
  BY <1>3 DEF Acts
<1> HIDE DEF t, gs
<1>8. /\ gs = Append(lower, Inner(gs)) /\ Inner(gs) \in Substate
      /\ Look(backend, gs, lost) = t
      /\ Fits(backend, lower, Inner(gs), c)
  <2>1. /\ backend \in Backend /\ lower \in Seq(Substate) /\ f \in Substate /\ c.self \in Addr
        /\ Fits(backend, lower, f, c) /\ frames = Append(lower, f)
    BY <1>3 DEF Acts
  <2>2. Turned(Append(lower, f), gs, lost, t) /\ Grown(Look(backend, Append(lower, f), lost), t)
    BY <1>5, <1>6, <2>1
  <2> QED BY <2>1, <2>2, TurnedFits
<1>9. StackInv' /\ Full!Update(t) /\ Full!InContract
  BY <1>1, <1>2, <1>4, <1>8, InstructionStep
<1> QED BY <1>7, <1>9 DEF Full!EmitLog, t

LEMMA StoreStep ==
    ASSUME StackInv, NEW k \in Keys, NEW v \in Values, Store(k, v)
    PROVE  StackInv' /\ Full!Store(k, v)
<1> DEFINE lower == Rest(frames)
           f == Inner(frames)
           callers == Rest(ctx)
           c == Inner(ctx)
           marks == Rest(forgot)
           l == Inner(forgot)
           lost == Lost(forgot, Len(frames))
           s == Look(backend, frames, lost)
           x == <<c.self, k>>
           t == [s EXCEPT !.storage = Full!Put(@, x, v)]
           gs == SetStorage(frames, x, v)
           g == Inner(gs)
<1>1. TypeOK /\ frames # <<>> /\ InContract /\ Running.runs /\ Len(ctx) > 1
  BY DEF StackInv, Store, InContract, CanAct
<1>2. Opened(lower, f, callers, c, marks, l, lost)
  BY <1>1, OpenedIs
<1> HIDE DEF lower, f, callers, c, marks, l, lost
<1>3. Acts(lower, f, c, lost)
  BY <1>2, ActsIs
<1>4. /\ backend \in Backend /\ lower \in Seq(Substate) /\ f \in Substate /\ c.self \in Addr
      /\ Fits(backend, lower, f, c) /\ frames = Append(lower, f)
      /\ frames \in Seq(Substate) /\ frames # <<>> /\ Inner(frames) = f /\ Running = c
      /\ c = Full!Running /\ s = Full!Top /\ Typed(s)
  BY <1>3 DEF Acts
<1>5. Updated(gs)
  BY <1>4 DEF Store
<1>6. x \in Slots /\ x[1] = c.self
  BY <1>4 DEF Slots
<1>7. InUse(Seen(backend, frames, c.self))
  <2>1. lower # <<>>
    BY <1>1, <1>2, TopIs DEF Depths
  <2>2. Full!Taken(Look(backend, frames, lost), c.self)
    BY <1>1, <1>2, <1>4, <2>1, SelfInUse
  <2> QED BY <1>4, <2>2, LookTyped
<1> HIDE DEF x
<1>8. /\ gs \in Seq(Substate) /\ gs # <<>> /\ Rest(gs) = Rest(frames)
      /\ g.accounts = f.accounts
      /\ g.storages = [f.storages EXCEPT ![x] = v]
      /\ Look(backend, gs, lost) = t
  <2>1. frames \in Seq(Substate) /\ frames # <<>> /\ backend \in Backend /\ Inner(frames) = f
    BY <1>4
  <2> HIDE DEF lower, f
  <2>2. /\ SetStorage(frames, x, v) \in Seq(Substate) /\ SetStorage(frames, x, v) # <<>>
        /\ Rest(SetStorage(frames, x, v)) = Rest(frames)
        /\ Inner(SetStorage(frames, x, v)).accounts = Inner(frames).accounts
        /\ Inner(SetStorage(frames, x, v)).storages = [Inner(frames).storages EXCEPT ![x] = v]
        /\ Look(backend, SetStorage(frames, x, v), lost)
             = [Look(backend, frames, lost) EXCEPT !.storage = Full!Put(@, x, v)]
    <3> HIDE DEF s, t, gs, g
    <3> QED BY <1>6, <2>1, SetStorageShows
  <2> QED BY <2>1, <2>2
<1> HIDE DEF gs
<1>9. gs = Append(lower, g) /\ g \in Substate
  <2>1. Rest(gs) = lower
    <3>1. Rest(frames) = lower
      BY <1>2, TopIs
    <3> QED BY <1>8, <3>1
  <2> QED BY <1>8, <2>1, EndOfSeq
<1> HIDE DEF g, s
<1>10. SlotsAllowed(backend, Append(lower, f), f, g)
  <2>1. \A b \in Addr : HasReset(g, b) = HasReset(f, b)
    BY <1>8 DEF HasReset
  <2>2. ASSUME NEW y \in Slots, g.storages[y] # Unset
        PROVE  f.storages[y] # Unset \/ InUse(Seen(backend, Append(lower, f), y[1]))
    <3>1. CASE y = x
      BY <1>4, <1>6, <1>7, <3>1
    <3>2. CASE y # x
      <4>1. g.storages[y] = f.storages[y]
        BY <1>4, <1>8, <3>2, SubstateFields
      <4> QED BY <2>2, <4>1
    <3> QED BY <3>1, <3>2
  <2> QED BY <2>1, <2>2 DEF SlotsAllowed
<1>11. Grown(s, t)
  <2>1. t.nonce = s.nonce /\ t.balance = s.balance /\ t.code = s.code
    BY <1>4 DEF Typed, StateOf
  <2> HIDE DEF t
  <2> QED BY <1>4, <2>1, GrownSame
<1> HIDE DEF t
<1>12. Fits(backend, lower, g, c)
  <2>1. Grown(Look(backend, Append(lower, f), lost), Look(backend, Append(lower, g), lost))
    BY <1>4, <1>8, <1>9, <1>11 DEF s
  <2> QED BY <1>4, <1>9, <1>10, <2>1, FitsGrown
<1>13. StackInv' /\ Full!Update(t) /\ Full!InContract
  <2>1. /\ gs = Append(lower, Inner(gs)) /\ Inner(gs) \in Substate
        /\ Fits(backend, lower, Inner(gs), c)
    BY <1>9, <1>12 DEF g
  <2> QED BY <1>1, <1>2, <1>5, <1>8, <2>1, InstructionStep
<1> QED BY <1>4, <1>13 DEF Full!Store, t, x

LEMMA ReturnStep ==
    ASSUME StackInv, NEW code \in BOOLEAN, Return(code)
    PROVE  StackInv' /\ Full!Return(code)
<1> DEFINE lower == Rest(frames)
           f == Inner(frames)
           callers == Rest(ctx)
           c == Inner(ctx)
           marks == Rest(forgot)
           l == Inner(forgot)
           lost == Lost(forgot, Len(frames))
<1>1. TypeOK /\ Len(ctx) > 1 /\ Committed(frames, code) /\ (code => Running.create)
  BY DEF StackInv, Return
<1>2. frames # <<>>
  <2>1. Len(frames) = Len(ctx)
    BY <1>1 DEF TypeOK
  <2> QED BY <1>1, <2>1
<1>3. Opened(lower, f, callers, c, marks, l, lost)
  BY <1>1, <1>2, OpenedIs
<1> HIDE DEF lower, f, callers, c, marks, l, lost
<1>4. /\ lower # <<>> /\ f \in Substate /\ Fits(backend, lower, f, c)
      /\ frames = Append(lower, f) /\ Running = c /\ c = Full!Running
      /\ Full!Top = Look(backend, frames, lost)
  <2>1. lower # <<>>
    BY <1>1, <1>3, TopIs DEF Depths
  <2>2. Acts(lower, f, c, lost)
    BY <1>3, ActsIs
  <2> QED BY <2>1, <2>2 DEF Acts
<1>5. StackInv' /\ Full!HandOver(Look(backend, Append(lower, f), lost), code)
  <2>1. Committed(Append(lower, f), code)
    BY <1>1, <1>4
  <2> QED BY <1>3, <1>4, <2>1, CommitStep
<1> QED BY <1>1, <1>4, <1>5 DEF Full!Return

LEMMA SelfDestructStep ==
    ASSUME StackInv, NEW heir \in Addr, SelfDestruct(heir)
    PROVE  StackInv' /\ Full!SelfDestruct(heir)
<1> DEFINE lower == Rest(frames)
           f == Inner(frames)
           callers == Rest(ctx)
           c == Inner(ctx)
           marks == Rest(forgot)
           l == Inner(forgot)
           lost == Lost(forgot, Len(frames))
           s == Look(backend, frames, lost)
           t == Full!Killed(s, c.self, heir)
           moved == Transfer(frames, c.self, heir, Basic(frames, c.self).balance)
           gs == SetDeleted(ResetBalance(moved, c.self), c.self)
           q == Inner(gs)
<1>1. TypeOK /\ frames # <<>> /\ outcome = "none" /\ Running.runs /\ Len(ctx) > 1
  BY DEF StackInv, SelfDestruct, InContract, CanAct
<1>2. Opened(lower, f, callers, c, marks, l, lost)
  BY <1>1, OpenedIs
<1> HIDE DEF lower, f, callers, c, marks, l, lost
<1>3. Acts(lower, f, c, lost)
  BY <1>2, ActsIs
<1>4. /\ backend \in Backend /\ lower \in Seq(Substate) /\ f \in Substate /\ c.self \in Addr
      /\ Fits(backend, lower, f, c) /\ frames = Append(lower, f)
      /\ frames \in Seq(Substate) /\ frames # <<>> /\ Running = c /\ ctx # <<>>
      /\ c = Full!Running /\ s = Full!Top /\ Typed(s)
  BY <1>3 DEF Acts
<1>5. Committed(gs, FALSE)
  BY <1>4 DEF SelfDestruct
<1>6. lower # <<>>
  BY <1>1, <1>2, TopIs DEF Depths
<1>7. Full!Taken(s, c.self)
  BY <1>1, <1>2, <1>4, <1>6, SelfInUse
<1>8. Turned(frames, gs, lost, t)
  BY <1>4, KilledShows
<1> HIDE DEF gs, s
<1>9. Grown(s, t)
  BY <1>4, <1>7, GrownKilled
<1> HIDE DEF t
<1>10. /\ gs = Append(lower, q) /\ q \in Substate
       /\ Look(backend, gs, lost) = t
       /\ Fits(backend, lower, q, c)
  <2>1. Turned(Append(lower, f), gs, lost, t) /\ Grown(Look(backend, Append(lower, f), lost), t)
    BY <1>4, <1>8, <1>9 DEF s
  <2> QED BY <1>4, <2>1, TurnedFits
<1> HIDE DEF q
<1>11. StackInv' /\ Full!HandOver(Look(backend, Append(lower, q), lost), FALSE)
  <2>1. Committed(Append(lower, q), FALSE)
    BY <1>5, <1>10
  <2> QED BY <1>2, <1>6, <1>10, <2>1, CommitStep
<1>12. Full!HandOver(Full!Killed(Full!Top, Full!Running.self, heir), FALSE)
  BY <1>4, <1>10, <1>11 DEF t
<1>13. Full!InContract
  BY <1>1, <1>4 DEF Full!InContract, Full!CanAct
<1> QED BY <1>11, <1>12, <1>13 DEF Full!SelfDestruct

LEMMA CreateStep ==
    ASSUME StackInv, NEW a \in Creatable, NEW value \in Amounts, Create(a, value)
    PROVE  StackInv' /\ Full!Create(a, value)
<1> DEFINE lower == Rest(frames)
           f == Inner(frames)
           callers == Rest(ctx)
           c == Inner(ctx)
           marks == Rest(forgot)
           l == Inner(forgot)
           lost == Lost(forgot, Len(frames))
           fs == IncNonce(frames, c.self)
           g == Inner(fs)
           s == Look(backend, fs, lost)
           gs == IncNonce(Transfer(ResetStorage(Enter(fs), a), c.self, a, value), a)
           h == Inner(gs)
           t == Full!Born(s, c.self, a, value)
           d == [self |-> a, create |-> TRUE, runs |-> TRUE]
<1>1. TypeOK /\ frames # <<>> /\ outcome = "none" /\ Running.runs
  BY DEF StackInv, Create, CanAct
<1>2. Opened(lower, f, callers, c, marks, l, lost)
  BY <1>1, OpenedIs
<1>3. value \in Nat /\ a \in Addr
  BY StackAssumption
<1> HIDE DEF lower, f, callers, c, marks, l, lost
<1>4. Acts(lower, f, c, lost)
  BY <1>2, ActsIs
<1>5. /\ backend \in Backend /\ lower \in Seq(Substate) /\ f \in Substate /\ c.self \in Addr
      /\ frames \in Seq(Substate) /\ frames = Append(lower, f) /\ Running = c /\ ctx # <<>>
      /\ c = Full!Running /\ Full!Top = Look(backend, frames, lost) /\ Typed(Full!Top)
  BY <1>4 DEF Acts
<1>6. /\ value =< Basic(frames, c.self).balance
      /\ IF Code(fs, a) \/ Basic(fs, a).nonce > 0
         THEN /\ frames' = ExitRevert(Enter(fs))
              /\ outcome' = IF Len(ctx) = 1 THEN "failure" ELSE "none"
              /\ ops' = ops + 1
              /\ UNCHANGED <<backend, ctx, txs, forgot>>
         ELSE Entered(gs, d)
  BY <1>5 DEF Create
<1>7. NonceUsed(lower, c, lost, fs)
  BY <1>2, IncNonceFits
<1> HIDE DEF fs
<1>8. /\ fs = Append(lower, g) /\ g \in Substate
      /\ Fits(backend, lower, g, c)
      /\ s = Full!Bumped(Full!Top, c.self)
      /\ Full!Taken(s, c.self)
  BY <1>5, <1>7 DEF NonceUsed
<1> HIDE DEF g
<1>9. fs \in Seq(Substate)
  BY <1>5, <1>8, EndOfAppend
<1>10. Typed(s) /\ s.balance = Full!Top.balance
  <2>1. Typed(s)
    BY <1>5, <1>9, LookTyped
  <2> HIDE DEF s
  <2>2. s.balance = Full!Top.balance
    BY <1>5, <1>8, BumpedKeeps
  <2> QED BY <2>1, <2>2
<1>11. Full!Taken(s, a) <=> Code(fs, a) \/ Basic(fs, a).nonce > 0
  BY <1>3, <1>5, <1>9, BasicIs, LookAt DEF Full!Taken
<1>12. value =< s.balance[c.self] /\ value =< Full!Top.balance[Full!Running.self]
  BY <1>5, <1>6, <1>10, BasicIs, LookAt
<1>13. Full!CanAct
  BY <1>1, <1>5 DEF Full!CanAct
<1>14. CASE Full!Taken(s, a)
  <2>1. /\ frames' = ExitRevert(Enter(fs))
        /\ outcome' = IF Len(ctx) = 1 THEN "failure" ELSE "none"
        /\ ops' = ops + 1
        /\ UNCHANGED <<backend, ctx, txs, forgot>>
    BY <1>6, <1>11, <1>14
  <2>2. frames' = Append(lower, g)
    <3>1. Rest(Enter(fs)) = fs
      BY <1>5, <1>9, EnterShows
    <3> QED BY <1>8, <2>1, <3>1 DEF ExitRevert
  <2>3. outcome' \in {"none", "success", "failure"} /\ (outcome' # "none" => lower = <<>>)
    <3>1. Len(ctx) = 1 => lower = <<>>
      BY <1>2, TopIs DEF Depths
    <3> QED BY <2>1, <3>1
  <2>4. StackInv' /\ Mapped' = Append(Full!Rest(Mapped), Look(backend, Append(lower, g), lost))
    BY <1>2, <1>8, <2>1, <2>2, <2>3, UpdateStep
  <2>5. Mapped' = Append(Full!Rest(Mapped), s)
    BY <1>8, <2>4
  <2>6. Full!Create(a, value)
    <3>1. s = Full!Bumped(Full!Top, Full!Running.self)
      BY <1>5, <1>8
    <3> HIDE DEF s
    <3> QED BY <1>12, <1>13, <1>14, <2>1, <2>5, <3>1 DEF Full!Create, Mapped
  <2> QED BY <2>4, <2>6
<1>15. CASE ~Full!Taken(s, a)
  <2>1. Entered(gs, d)
    BY <1>6, <1>11, <1>15
  <2>2. Newborn(fs, gs, lost, a, t) /\ Grown(s, t) /\ t.nonce[a] > 0
    BY <1>3, <1>5, <1>8, <1>9, <1>12, BornShows
  <2>3. d \in Context /\ d.self = a
    BY <1>3 DEF Context
  <2>4. Based(backend, fs)
    BY <1>8, FitsBased
  <2>5. Stacked(backend, fs, ctx)
    <3>1. /\ callers \in Seq(Context) /\ c \in Context /\ Len(callers) = Len(lower)
          /\ ctx = Append(callers, c)
      BY <1>2 DEF Opened
    <3>2. Stacked(backend, lower, callers)
      BY <1>2, OpenedFits
    <3> QED BY <1>5, <1>8, <3>1, <3>2, StackedAppend
  <2> HIDE DEF gs, t, d
  <2>6. /\ gs = Append(fs, h) /\ h \in Substate
        /\ Look(backend, gs, lost) = t
        /\ Fits(backend, fs, h, d)
    BY <1>3, <1>5, <1>9, <1>15, <2>2, <2>3, <2>4, <2>5, NewbornFits
  <2> HIDE DEF h
  <2>7. /\ StackInv'
        /\ Mapped' = Append(Append(Full!Rest(Mapped), Look(backend, Append(lower, g), lost)),
                            Look(backend, Append(Append(lower, g), h), lost))
        /\ ctx' = Append(ctx, d) /\ outcome' = outcome
    <3>1. /\ h \in Substate /\ Fits(backend, Append(lower, g), h, d)
          /\ Entered(Append(Append(lower, g), h), d)
      BY <1>8, <2>1, <2>6
    <3> QED BY <1>1, <1>2, <1>8, <2>3, <3>1, PushStep
  <2>8. Mapped' = Append(Append(Full!Rest(Mapped), s), t)
    BY <1>8, <2>6, <2>7
  <2>9. Full!Create(a, value)
    <3>1. s = Full!Bumped(Full!Top, Full!Running.self)
      BY <1>5, <1>8
    <3>2. Full!Push(s, t, d)
      BY <2>7, <2>8 DEF Full!Push, Mapped
    <3>3. t = Full!Born(s, Full!Running.self, a, value)
      BY <1>5 DEF t
    <3>4. d = [self |-> a, create |-> TRUE, runs |-> TRUE]
      BY DEF d
    <3> HIDE DEF s
    <3> QED BY <1>12, <1>13, <1>15, <3>1, <3>2, <3>3, <3>4 DEF Full!Create
  <2> QED BY <2>7, <2>9
<1> QED BY <1>14, <1>15

(* The substate that exec makes for the sender.                            *)
LEMMA BeginStep ==
    ASSUME StackInv, NEW sender \in Senders, Begin(sender)
    PROVE  StackInv' /\ Full!Begin(sender)
<1> DEFINE c == [self |-> sender, create |-> FALSE, runs |-> TRUE]
           s == Look(backend, <<>>, {})
<1>1. /\ frames' = <<NewSubstate>> /\ ctx' = <<c>> /\ forgot' = <<{}>> /\ txs' = txs + 1
      /\ UNCHANGED <<backend, outcome, ops>> /\ frames = <<>>
  BY DEF Begin
<1>2. /\ backend \in Backend /\ ops \in Nat /\ txs \in Nat /\ Len(frames) = 0 /\ ctx = <<>>
      /\ outcome \in {"none", "success", "failure"} /\ (outcome # "none" => Len(frames) = 1)
  BY <1>1 DEF StackInv, TypeOK
<1>3. c \in Context /\ c.self \in Addr
  BY StackAssumption DEF Context
<1>4. NewSubstate \in Substate
  BY NewFields
<1> HIDE DEF c
<1>5. /\ <<NewSubstate>> = Append(<<>>, NewSubstate)
      /\ <<{}>> = Append(<<>>, {})
      /\ <<>> \in Seq(Substate) /\ <<>> \in Seq(SUBSET Addr) /\ <<>> \in Seq(Context)
      /\ {} \in SUBSET Addr /\ Len(<<>>) = 0
  OBVIOUS
<1>6. <<c>> = Append(<<>>, c)
  OBVIOUS
<1>7. TypeOK'
  <2>1. frames' \in Seq(Substate) /\ ctx' \in Seq(Context) /\ forgot' \in Seq(SUBSET Addr)
    BY <1>1, <1>3, <1>4
  <2>2. Len(frames') = 1 /\ Len(ctx') = 1 /\ Len(forgot') = 1
    BY <1>1
  <2> QED BY <1>1, <1>2, <2>1, <2>2 DEF TypeOK
<1>8. Look(backend, Append(<<>>, NewSubstate), {}) = s /\ Typed(s)
  <2>1. Enter(<<>>) = Append(<<>>, NewSubstate)
    BY DEF Enter
  <2> QED BY <1>2, <1>5, <2>1, EnterShows, LookTyped
<1>9. Fits(backend, <<>>, NewSubstate, c)
  <2>1. Based(backend, <<>>)
    BY <1>2, EmptyBased
  <2>2. Grown(s, Look(backend, Append(<<>>, NewSubstate), {}))
    BY <1>8, GrownSame
  <2>3. ContextInUse(backend, <<>>, Append(<<>>, NewSubstate), c)
    BY DEF ContextInUse, c
  <2>4. SlotsInUse(backend, Append(<<>>, NewSubstate), NewSubstate) /\ NothingUnderReset(<<>>, NewSubstate)
    <3>1. SameSlots(NewSubstate, NewSubstate)
      BY <1>4 DEF SameSlots
    <3> QED BY <3>1, NoSlots
  <2> QED BY <1>2, <1>4, <1>5, <2>1, <2>2, <2>3, <2>4, FitsEntered
<1>10. Stacked(backend', frames', ctx')
  <2>1. Stacked(backend, <<>>, <<>>)
    BY DEF Stacked
  <2>2. Stacked(backend, Append(<<>>, NewSubstate), Append(<<>>, c))
    BY <1>3, <1>4, <1>5, <1>9, <2>1, StackedAppend
  <2> QED BY <1>1, <1>5, <1>6, <2>2
<1>11. Mapped' = <<s>>
  <2>1. Mapped' = Append(AllShown(backend', <<>>, <<>>),
                         Look(backend', frames', Lost(<<>>, Len(<<>>)) \cup {}))
    BY <1>1, <1>4, <1>5, <1>7, AfterIs
  <2>2. AllShown(backend', <<>>, <<>>) = <<>>
    BY DEF AllShown
  <2>3. Lost(<<>>, Len(<<>>)) \cup {} = {}
    BY DEF Lost
  <2>4. Look(backend', frames', {}) = s
    BY <1>1, <1>5, <1>8
  <2>5. Mapped' = Append(<<>>, Look(backend', frames', {}))
    BY <2>1, <2>2, <2>3
  <2>6. Mapped' = Append(<<>>, s)
    BY <2>4, <2>5
  <2> HIDE DEF s
  <2> QED BY <2>6
<1>12. /\ s \in Full!State
       /\ s.deleted = {} /\ s.logs = <<>> /\ s.original = s.storage
  BY <1>2, LookOfNothing
<1> HIDE DEF s
<1>13. Len(Mapped') = 1 /\ Mapped'[1] = s
  BY <1>11
<1>14. Full!Begin(sender)
  <2>1. ctx' = <<[self |-> sender, create |-> FALSE, runs |-> TRUE]>>
    BY <1>1 DEF c
  <2> QED BY <1>1, <1>2, <1>12, <1>13, <2>1 DEF Full!Begin, Mapped
<1> QED BY <1>7, <1>10, <1>14 DEF StackInv

-----------------------------------------------------------------------------
(* The end of a transaction.                                               *)

(* What a single substate shows, and what the store gets of it.            *)
LEMMA AppliedIs ==
    ASSUME backend \in Backend, NEW f \in Substate
    PROVE  LET r == Applied(f)
           IN  /\ r \in Backend
               /\ \A a \in Addr : r.accounts[a] = IF a \in f.deletes THEN NoAccount
                                                  ELSE Seen(backend, Append(<<>>, f), a)
               /\ \A x \in Slots : r.storages[x] = IF x[1] \in Modified(f) THEN ModifiedSlot(f, x)
                                                   ELSE backend.storages[x]
<1> DEFINE r == Applied(f)
<1>1. <<>> \in Seq(Substate) /\ <<f>> = Append(<<>>, f) /\ Append(<<>>, f) \in Seq(Substate)
  OBVIOUS
<1>2. \A a \in Addr : Seen(backend, Append(<<>>, f), a) \in Account
  BY <1>1, SeenType
<1>3. \A a \in Addr : ModifiedAccount(f, a) = Seen(backend, Append(<<>>, f), a)
  <2> SUFFICES ASSUME NEW a \in Addr
               PROVE  ModifiedAccount(f, a) = Seen(backend, Append(<<>>, f), a)
    OBVIOUS
  <2>1. EntrySeen(AccountMut(Append(<<>>, f), a), backend.accounts[a].code)
          = Seen(backend, Append(<<>>, f), a)
    BY <1>1, AccountMutIs
  <2>2. AccountMut(<<f>>, a) = AccountMut(Append(<<>>, f), a)
    BY <1>1
  <2>3. ModifiedAccount(f, a) = EntrySeen(AccountMut(<<f>>, a), backend.accounts[a].code)
    BY DEF ModifiedAccount, EntrySeen, OrElse
  <2> QED BY <2>1, <2>2, <2>3
<1>4. \A a \in Addr : a \notin f.deletes /\ a \notin Modified(f) =>
          backend.accounts[a] = Seen(backend, Append(<<>>, f), a)
  <2> SUFFICES ASSUME NEW a \in Addr, a \notin f.deletes, a \notin Modified(f)
               PROVE  backend.accounts[a] = Seen(backend, Append(<<>>, f), a)
    OBVIOUS
  <2>1. f.accounts[a] = Unset
    BY DEF Modified
  <2>2. Seen(backend, Append(<<>>, f), a) = Seen(backend, <<>>, a)
    BY <1>1, <2>1, SeenOver
  <2> QED BY <2>2, NothingKnown
<1>5. \A a \in Addr : r.accounts[a] = IF a \in f.deletes THEN NoAccount
                                      ELSE Seen(backend, Append(<<>>, f), a)
  BY <1>3, <1>4 DEF Applied
<1>6. \A x \in Slots : r.storages[x] = IF x[1] \in Modified(f) THEN ModifiedSlot(f, x)
                                       ELSE backend.storages[x]
  BY DEF Applied
<1>7. r = [accounts |-> r.accounts, storages |-> r.storages]
      /\ r.accounts = [a \in Addr |-> r.accounts[a]]
      /\ r.storages = [x \in Slots |-> r.storages[x]]
  BY DEF Applied
<1> HIDE DEF r
<1>8. r.accounts \in [Addr -> Account]
  <2>1. NoAccount \in Account
    BY DEF NoAccount, Account
  <2> QED BY <1>2, <1>5, <1>7, <2>1
<1>9. r.storages \in [Slots -> Values]
  <2>1. \A x \in Slots : f.storages[x] \in Values \cup {Unset} /\ backend.storages[x] \in Values
    BY SubstateFields, BackendFields
  <2>2. \A x \in Slots : r.storages[x] \in Values
    BY <1>6, <2>1, UnsetIsNothing DEF ModifiedSlot
  <2> QED BY <1>7, <2>2
<1> QED BY <1>5, <1>6, <1>7, <1>8, <1>9 DEF Backend, r

LEMMA OnlyFrame ==
    ASSUME TypeOK, outcome # "none"
    PROVE  /\ frames = Append(<<>>, frames[1]) /\ frames[1] \in Substate /\ Len(frames) = 1
           /\ ctx # <<>> /\ Len(ctx) = 1
<1>1. /\ frames \in Seq(Substate) /\ Len(frames) = 1 /\ Len(ctx) = 1 /\ ctx \in Seq(Context)
  BY DEF TypeOK
<1> QED BY <1>1

LEMMA FinishStep ==
    ASSUME StackInv, Finish
    PROVE  StackInv' /\ Full!Finish
<1>1. /\ outcome # "none"
      /\ backend' = IF outcome = "success" THEN Applied(frames[1]) ELSE backend
      /\ frames' = <<>> /\ ctx' = <<>> /\ forgot' = <<>> /\ outcome' = "none"
      /\ UNCHANGED <<ops, txs>>
  BY DEF Finish
<1>2. TypeOK /\ frames[1] \in Substate
  BY <1>1, OnlyFrame DEF StackInv
<1>3. backend' \in Backend
  BY <1>1, <1>2, AppliedIs DEF TypeOK
<1>4. TypeOK'
  <2>1. /\ <<>> \in Seq(Substate) /\ <<>> \in Seq(Context) /\ <<>> \in Seq(SUBSET Addr)
        /\ Len(<<>>) = 0
    OBVIOUS
  <2> QED BY <1>1, <1>2, <1>3, <2>1 DEF TypeOK
<1>5. Stacked(backend', frames', ctx')
  BY <1>1 DEF Stacked
<1>6. Mapped' = <<>>
  <2>1. Mapped' = AllShown(backend', frames', forgot')
    BY <1>4, ShownIsPrimed
  <2> QED BY <1>1, <2>1 DEF AllShown
<1>7. Full!Finish
  BY <1>1, <1>6 DEF Full!Finish, Mapped
<1> QED BY <1>4, <1>5, <1>7 DEF StackInv

(* When the action of Spec is one that ends a transaction.                 *)
LEMMA EndsWithFinish ==
    ASSUME TypeOK, [Next]_stackVars, outcome # "none", outcome' = "none"
    PROVE  Finish
<1>1. ~(Len(ctx) > 1)
  <2>1. Len(ctx) = 1
    BY OnlyFrame
  <2> QED BY <2>1
<1>2. CASE \E u \in Senders : Begin(u)
  BY <1>2 DEF Begin
<1>3. CASE \E to \in Addr, v \in Amounts : Call(to, v)
  BY <1>3 DEF Call, CanAct
<1>4. CASE DelegateCall
  BY <1>4 DEF DelegateCall, InContract, CanAct
<1>5. CASE \E a \in Creatable, v \in Amounts : Create(a, v)
  BY <1>5 DEF Create, CanAct
<1>6. CASE \E k \in Keys, v \in Values : Store(k, v)
  BY <1>6 DEF Store, InContract, CanAct
<1>7. CASE EmitLog
  BY <1>7 DEF EmitLog, InContract, CanAct
<1>8. CASE \E code \in BOOLEAN : Return(code)
  BY <1>1, <1>8 DEF Return
<1>9. CASE \E heir \in Addr : SelfDestruct(heir)
  BY <1>9 DEF SelfDestruct, InContract, CanAct
<1>10. CASE Fail
  BY <1>1, <1>10 DEF Fail
<1>11. CASE UNCHANGED stackVars
  BY <1>11 DEF stackVars
<1> QED BY <1>2, <1>3, <1>4, <1>5, <1>6, <1>7, <1>8, <1>9, <1>10, <1>11 DEF Next

(* What the transaction leaves in a slot.                                  *)
LEMMA SlotApplied ==
    ASSUME backend \in Backend, NEW f \in Substate, NEW x \in Slots
    PROVE  LET shown == Storage(Append(<<>>, f), x)
               kept == x[1] \in f.deletes \/ (shown = 0 /\ ~HasReset(f, x[1]))
           IN  Applied(f).storages[x] = IF kept THEN backend.storages[x] ELSE shown
<1> DEFINE shown == Storage(Append(<<>>, f), x)
           v == f.storages[x]
           b == backend.storages[x]
           flagged == HasReset(f, x[1])
           modified == x[1] \in Modified(f)
           gone == x[1] \in f.deletes
<1>1. shown = IF v # Unset THEN v ELSE IF flagged THEN 0 ELSE b
  <2>1. <<>> \in Seq(Substate) /\ KnownStorage(<<>>, x) = Unset
    BY NothingKnown
  <2>2. KnownStorage(Append(<<>>, f), x) = IF v # Unset THEN v ELSE IF flagged THEN 0 ELSE Unset
    BY <2>1, KnownStorageOver
  <2> QED BY <2>2, UnsetIsNothing DEF Storage, OrElse
<1>2. Applied(f).storages[x] =
        IF modified THEN IF v \notin {Unset, 0} THEN v ELSE IF flagged THEN 0 ELSE b ELSE b
  BY AppliedIs DEF ModifiedSlot
<1>3. gone => ~modified
  BY DEF Modified
<1>4. ~gone /\ ~modified => v = Unset /\ ~flagged
  <2> SUFFICES ASSUME ~gone, ~modified
               PROVE  v = Unset /\ ~flagged
    OBVIOUS
  <2>1. PICK a \in Addr, k \in Keys : x = <<a, k>>
    BY DEF Slots
  <2>2. x[1] = a
    BY <2>1
  <2> QED BY <2>1, <2>2 DEF Modified, HasReset
<1>5. 0 # Unset
  BY UnsetIsNothing
<1> HIDE DEF shown, v, b, flagged, modified, gone
<1>6. Applied(f).storages[x] = IF gone \/ (shown = 0 /\ ~flagged) THEN b ELSE shown
  BY <1>1, <1>2, <1>3, <1>4, <1>5
<1> QED BY <1>6 DEF shown, b, flagged, gone

-----------------------------------------------------------------------------
(* What the shown state says of one account.                               *)

LEMMA ShownAccountIs ==
    ASSUME TypeOK, NEW n \in DOMAIN frames, NEW a \in Addr
    PROVE  /\ SubSeq(frames, 1, n) \in Seq(Substate)
           /\ ShownAccount(n, a) = Seen(backend, SubSeq(frames, 1, n), a)
           /\ Seen(backend, SubSeq(frames, 1, n), a) \in Account
<1> DEFINE fs == SubSeq(frames, 1, n)
           s == Look(backend, fs, Lost(forgot, n))
<1>1. backend \in Backend /\ frames \in Seq(Substate) /\ n \in 1..Len(frames)
  BY DEF TypeOK
<1>2. fs \in Seq(Substate)
  BY <1>1
<1>3. Shown(n) = s
  BY ShownIs
<1> HIDE DEF fs
<1>4. Seen(backend, fs, a) \in Account
  BY <1>1, <1>2, SeenType
<1>5. /\ s.nonce[a] = Seen(backend, fs, a).nonce
      /\ s.balance[a] = Seen(backend, fs, a).balance
      /\ s.code[a] = Seen(backend, fs, a).code
  BY LookAt
<1> HIDE DEF s
<1>6. ShownAccount(n, a) = Seen(backend, fs, a)
  BY <1>3, <1>4, <1>5 DEF ShownAccount, Account
<1> QED BY <1>2, <1>4, <1>6 DEF fs

LEMMA BasedAt ==
    ASSUME StackInv, NEW n \in DOMAIN frames
    PROVE  Based(backend, SubSeq(frames, 1, n))
<1>1. frames \in Seq(Substate) /\ n \in 1..Len(frames)
  BY DEF StackInv, TypeOK
<1>2. Fits(backend, SubSeq(frames, 1, n - 1), frames[n], ctx[n])
  BY <1>1 DEF StackInv, Stacked
<1>3. SubSeq(frames, 1, n) = Append(SubSeq(frames, 1, n - 1), frames[n])
  BY <1>1, AppendPrefix
<1> QED BY <1>2, <1>3, FitsBased

LEMMA EmptyIs ==
    ASSUME backend \in Backend, NEW fs \in Seq(Substate), Based(backend, fs), NEW a \in Addr
    PROVE  IsEmpty(fs, a) <=> Seen(backend, fs, a) = NoAccount
<1> DEFINE acc == KnownAccount(fs, a)
           b == backend.accounts[a]
           seen == Seen(backend, fs, a)
<1>1. seen \in Account /\ b \in Account /\ acc \in StackAccount \cup {Unset}
  BY SeenType, BackendFields, KnownAccountType
<1>2. /\ InUse(b) => InUse(seen)
      /\ InUse(seen) \/ seen.balance >= b.balance
  BY DEF Based
<1>3. IsEmpty(fs, a) = IF KnownEmpty(fs, a) # Unset THEN KnownEmpty(fs, a) ELSE b = NoAccount
  BY DEF IsEmpty, OrElse
<1>4. KnownEmpty(fs, a) = IF acc = Unset THEN Unset
                          ELSE IF acc.balance # 0 \/ acc.nonce # 0 THEN FALSE
                          ELSE IF acc.code # Unset THEN ~acc.code
                          ELSE Unset
  BY DEF KnownEmpty
<1>5. seen = IF acc = Unset THEN b
             ELSE [nonce |-> acc.nonce, balance |-> acc.balance,
                   code |-> IF acc.code = Unset THEN b.code ELSE acc.code]
  BY DEF Seen
<1>6. TRUE # Unset /\ FALSE # Unset
  BY UnsetIsNothing
<1>7. \A r \in Account : r = NoAccount <=> r.nonce = 0 /\ r.balance = 0 /\ r.code = FALSE
  BY DEF Account, NoAccount
<1> SUFFICES IsEmpty(fs, a) <=> seen = NoAccount
  BY DEF seen
<1> HIDE DEF acc, b, seen
<1>8. CASE acc = Unset
  BY <1>3, <1>4, <1>5, <1>8
<1>9. CASE acc # Unset /\ (acc.balance # 0 \/ acc.nonce # 0)
  <2>1. KnownEmpty(fs, a) = FALSE
    BY <1>4, <1>9
  <2>2. seen # NoAccount
    BY <1>1, <1>5, <1>7, <1>9
  <2> QED BY <1>3, <1>6, <2>1, <2>2
<1>10. CASE acc # Unset /\ acc.balance = 0 /\ acc.nonce = 0 /\ acc.code # Unset
  <2>1. acc.code \in BOOLEAN
    BY <1>1, <1>10 DEF StackAccount
  <2>2. seen.nonce = 0 /\ seen.balance = 0 /\ seen.code = acc.code
    BY <1>5, <1>10
  <2>3. KnownEmpty(fs, a) = ~acc.code
    BY <1>4, <1>10
  <2>4. CASE acc.code = TRUE
    <3>1. KnownEmpty(fs, a) = FALSE
      BY <2>3, <2>4
    <3>2. seen # NoAccount
      BY <1>1, <1>7, <2>2, <2>4
    <3> QED BY <1>3, <1>6, <3>1, <3>2
  <2>5. CASE acc.code = FALSE
    <3>1. KnownEmpty(fs, a) = TRUE
      BY <2>3, <2>5
    <3>2. seen = NoAccount
      BY <1>1, <1>7, <2>2, <2>5
    <3> QED BY <1>3, <1>6, <3>1, <3>2
  <2> QED BY <2>1, <2>4, <2>5
<1>11. CASE acc # Unset /\ acc.balance = 0 /\ acc.nonce = 0 /\ acc.code = Unset
  <2>1. seen.nonce = 0 /\ seen.balance = 0 /\ seen.code = b.code
    BY <1>5, <1>11
  <2>2. seen = NoAccount <=> b.code = FALSE
    BY <1>1, <1>7, <2>1
  <2>3. b.code = FALSE => b.nonce = 0 /\ b.balance = 0
    <3> SUFFICES ASSUME b.code = FALSE
                 PROVE  b.nonce = 0 /\ b.balance = 0
      OBVIOUS
    <3>1. ~InUse(seen)
      BY <2>1 DEF InUse
    <3>2. ~(b.nonce > 0) /\ 0 >= b.balance
      BY <1>2, <2>1, <3>1 DEF InUse
    <3>3. b.nonce \in Nat /\ b.balance \in Nat
      BY <1>1 DEF Account
    <3> QED BY <3>2, <3>3
  <2>4. KnownEmpty(fs, a) = Unset
    BY <1>4, <1>11
  <2>5. b = NoAccount <=> b.code = FALSE
    BY <1>1, <1>7, <2>3
  <2> QED BY <1>3, <2>2, <2>4, <2>5
<1>12. acc # Unset => acc.balance \in Nat /\ acc.nonce \in Nat
  BY <1>1 DEF StackAccount
<1> QED BY <1>8, <1>9, <1>10, <1>11, <1>12

-----------------------------------------------------------------------------
LEMMA StackInitially ==
    ASSUME StackInit
    PROVE  StackInv /\ Full!StackInit
<1>1. /\ backend \in Backend /\ frames = <<>> /\ ctx = <<>> /\ forgot = <<>>
      /\ outcome = "none" /\ ops = 0 /\ txs = 0
  BY StackAssumption DEF StackInit
<1>2. TypeOK
  <2>1. /\ <<>> \in Seq(Substate) /\ <<>> \in Seq(Context) /\ <<>> \in Seq(SUBSET Addr)
        /\ Len(<<>>) = 0
    OBVIOUS
  <2> QED BY <1>1, <2>1 DEF TypeOK
<1>3. Stacked(backend, frames, ctx)
  BY <1>1 DEF Stacked
<1>4. Mapped = <<>>
  BY <1>1 DEF Mapped
<1> QED BY <1>1, <1>2, <1>3, <1>4 DEF StackInv, Full!StackInit, Mapped

(* One step of the substates is one of the whole states, or a stutter.     *)
LEMMA StackSteps ==
    ASSUME StackInv, [Next]_stackVars
    PROVE  StackInv' /\ [Full!StackNext]_Full!stackVars
<1>1. CASE \E u \in Senders : Begin(u)
  <2>1. PICK u \in Senders : Begin(u)
    BY <1>1
  <2>2. u \in Addr /\ StackInv' /\ Full!Begin(u)
    BY <2>1, BeginStep, StackAssumption
  <2> QED BY <2>2 DEF Full!StackNext
<1>2. CASE \E to \in Addr, v \in Amounts : Call(to, v)
  <2>1. PICK to \in Addr, v \in Amounts : Call(to, v)
    BY <1>2
  <2> QED BY <2>1, CallStep DEF Full!StackNext
<1>3. CASE DelegateCall
  BY <1>3, DelegateStep DEF Full!StackNext
<1>4. CASE \E a \in Creatable, v \in Amounts : Create(a, v)
  <2>1. PICK a \in Creatable, v \in Amounts : Create(a, v)
    BY <1>4
  <2>2. a \in Addr /\ StackInv' /\ Full!Create(a, v)
    BY <2>1, CreateStep, StackAssumption
  <2> QED BY <2>2 DEF Full!StackNext
<1>5. CASE \E k \in Keys, v \in Values : Store(k, v)
  <2>1. PICK k \in Keys, v \in Values : Store(k, v)
    BY <1>5
  <2> QED BY <2>1, StoreStep DEF Full!StackNext
<1>6. CASE EmitLog
  BY <1>6, LogStep DEF Full!StackNext
<1>7. CASE \E code \in BOOLEAN : Return(code)
  <2>1. PICK code \in BOOLEAN : Return(code)
    BY <1>7
  <2> QED BY <2>1, ReturnStep DEF Full!StackNext
<1>8. CASE \E heir \in Addr : SelfDestruct(heir)
  <2>1. PICK heir \in Addr : SelfDestruct(heir)
    BY <1>8
  <2> QED BY <2>1, SelfDestructStep DEF Full!StackNext
<1>9. CASE Fail
  BY <1>9, FailStep DEF Full!StackNext
<1>10. CASE Finish
  BY <1>10, FinishStep DEF Full!StackNext
<1>11. CASE UNCHANGED stackVars
  <2>1. UNCHANGED <<backend, frames, ctx, outcome, ops, txs, forgot>>
    BY <1>11 DEF stackVars
  <2>2. StackInv'
    BY <2>1 DEF StackInv, TypeOK, Stacked
  <2>3. Mapped' = Mapped
    <3>1. TypeOK /\ TypeOK'
      BY <2>2 DEF StackInv
    <3>2. Mapped = AllShown(backend, frames, forgot)
      BY <3>1, ShownIs
    <3>3. Mapped' = AllShown(backend', frames', forgot')
      BY <3>1, ShownIsPrimed
    <3> QED BY <2>1, <3>2, <3>3
  <2> QED BY <2>1, <2>2, <2>3 DEF Full!stackVars, Mapped
<1> QED BY <1>1, <1>2, <1>3, <1>4, <1>5, <1>6, <1>7, <1>8, <1>9, <1>10, <1>11 DEF Next

(* In every reachable state the substates stand one on another as Fits     *)
(* says: what a call has put into use stays in use for the calls above it, *)
(* an address not in use holds at least what the backend gives it, and no  *)
(* substate below a reset knows anything of the account that was reset     *)
(* (stack.rs:122-202, ethvm/tx/mod.rs:196-207).                            *)
THEOREM StackInvariant == Spec => []StackInv
<1>1. StackInit => StackInv
  BY StackInitially
<1>2. StackInv /\ [Next]_stackVars => StackInv'
  BY StackSteps
<1> QED BY <1>1, <1>2, PTL DEF Spec

(* Each variable has its type, and each substate a call and an entry of    *)
(* the history of its own (stack.rs:18-33).                                *)
THEOREM StackTypes == Spec => []TypeOK
<1>1. StackInv => TypeOK
  BY DEF StackInv
<1> QED BY <1>1, StackInvariant, PTL

(* is_empty answers for the account as the running call and each of its    *)
(* callers see it (stack.rs:203-220, 542-549).                             *)
THEOREM EmptyShown == Spec => []EmptyAsShown
<1>1. StackInv => EmptyAsShown
  <2> SUFFICES ASSUME StackInv, NEW n \in DOMAIN frames, NEW a \in Addr
               PROVE  IsEmpty(SubSeq(frames, 1, n), a) <=> ShownAccount(n, a) = NoAccount
    BY DEF EmptyAsShown
  <2>1. TypeOK /\ backend \in Backend
    BY DEF StackInv, TypeOK
  <2>2. /\ SubSeq(frames, 1, n) \in Seq(Substate)
        /\ ShownAccount(n, a) = Seen(backend, SubSeq(frames, 1, n), a)
    BY <2>1, ShownAccountIs
  <2>3. Based(backend, SubSeq(frames, 1, n))
    BY BasedAt
  <2> QED BY <2>1, <2>2, <2>3, EmptyIs
<1> QED BY <1>1, StackInvariant, PTL

(* When a transaction is over, the store shows what the outermost substate *)
(* showed, with the exceptions the property names (stack.rs:69-120,        *)
(* backend.rs:122-178).                                                    *)
THEOREM AppliedShown == Spec => AppliedAsShown
<1> DEFINE Ended == outcome # "none" /\ outcome' = "none" =>
        IF outcome = "failure" THEN UNCHANGED backend
        ELSE /\ \A a \in Addr :
                  backend'.accounts[a] = IF a \in frames[1].deletes THEN NoAccount
                                         ELSE ShownAccount(1, a)
             /\ \A x \in Slots :
                  LET kept == \/ x[1] \in frames[1].deletes
                              \/ Storage(frames, x) = 0 /\ ~HasReset(frames[1], x[1])
                  IN  backend'.storages[x] = IF kept THEN backend.storages[x]
                                             ELSE Storage(frames, x)
<1>1. TypeOK /\ [Next]_stackVars => Ended
  <2> SUFFICES ASSUME TypeOK, [Next]_stackVars, outcome # "none", outcome' = "none"
               PROVE  IF outcome = "failure" THEN UNCHANGED backend
                      ELSE /\ \A a \in Addr :
                                backend'.accounts[a] = IF a \in frames[1].deletes THEN NoAccount
                                                       ELSE ShownAccount(1, a)
                           /\ \A x \in Slots :
                                LET kept == \/ x[1] \in frames[1].deletes
                                            \/ Storage(frames, x) = 0 /\ ~HasReset(frames[1], x[1])
                                IN  backend'.storages[x] = IF kept THEN backend.storages[x]
                                                           ELSE Storage(frames, x)
    OBVIOUS
  <2>1. backend' = IF outcome = "success" THEN Applied(frames[1]) ELSE backend
    BY EndsWithFinish DEF Finish
  <2>2. outcome \in {"success", "failure"} /\ backend \in Backend
    BY DEF TypeOK
  <2>3. frames = Append(<<>>, frames[1]) /\ frames[1] \in Substate /\ Len(frames) = 1
    BY OnlyFrame
  <2>4. CASE outcome = "failure"
    BY <2>1, <2>4
  <2>5. CASE outcome = "success"
    <3>1. backend' = Applied(frames[1])
      BY <2>1, <2>5
    <3>2. ASSUME NEW a \in Addr
          PROVE  backend'.accounts[a] = IF a \in frames[1].deletes THEN NoAccount
                                        ELSE ShownAccount(1, a)
      <4>1. 1 \in DOMAIN frames /\ SubSeq(frames, 1, 1) = frames
        <5>1. frames \in Seq(Substate)
          BY DEF TypeOK
        <5> QED BY <2>3, <5>1
      <4>2. ShownAccount(1, a) = Seen(backend, frames, a)
        BY <4>1, ShownAccountIs
      <4>3. Applied(frames[1]).accounts[a] = IF a \in frames[1].deletes THEN NoAccount
                                             ELSE Seen(backend, Append(<<>>, frames[1]), a)
        BY <2>2, <2>3, AppliedIs
      <4> QED BY <2>3, <3>1, <4>2, <4>3
    <3>3. ASSUME NEW x \in Slots
          PROVE  backend'.storages[x] =
                   IF x[1] \in frames[1].deletes \/ (Storage(frames, x) = 0 /\ ~HasReset(frames[1], x[1]))
                   THEN backend.storages[x] ELSE Storage(frames, x)
      BY <2>2, <2>3, <3>1, SlotApplied
    <3> QED BY <2>5, <3>2, <3>3
  <2> QED BY <2>2, <2>4, <2>5
<1> QED BY <1>1, StackTypes, PTL DEF Spec, AppliedAsShown

(* The substates implement the stack of whole states: a call sees what its *)
(* callers left and what it did itself, hands it over when it succeeds and *)
(* leaves no trace when it fails (stack.rs:122-376).                       *)
THEOREM StackRefinement == Spec => ImplementsStateStack
<1>1. StackInit => Full!StackInit
  BY StackInitially
<1>2. StackInv /\ [Next]_stackVars => [Full!StackNext]_Full!stackVars
  BY StackSteps
<1> QED BY <1>1, <1>2, StackInvariant, PTL DEF Spec, ImplementsStateStack, Full!StackSpec
=============================================================================
