----------------------------- MODULE RpcProofs -----------------------------
(***************************************************************************)
(* What the Web3 servers do to the store and what the node lets them see:  *)
(* the proofs about Rpc.  The invariant of the temporary branches needs no *)
(* assumption about crashes; what a read returns needs the invariant of    *)
(* RecoveryProofs, which holds for RpcSpec because the servers take no     *)
(* step of the node; and what the queries for blocks, transactions and     *)
(* logs answer follows from the stored blocks being a chain.               *)
(***************************************************************************)
EXTENDS Rpc, RecoveryProofs

-----------------------------------------------------------------------------
(* The fields of a method's branch.                                        *)

LEMMA FieldsOfMethod ==
    ASSUME NEW m \in Methods
    PROVE  LET C == CreateFields(m)
               R == RemoveFields(m)
           IN  /\ Len(C) \in 2..3 /\ Len(R) \in 2..3
               /\ \A i \in 1..Len(C) : C[i] \in {"chain", "gas", "fuel"}
               /\ \A i, j \in 1..Len(C) : C[i] = C[j] => i = j
               /\ \A i, j \in 1..Len(R) : R[i] = R[j] => i = j
               /\ \A i \in 1..Len(R) : \E j \in 1..Len(C) : R[i] = C[j]
               /\ m \notin Mismatched => R = C
<1>1. EvmFields = <<"gas", "fuel">> /\ Len(EvmFields) = 2
  BY DEF EvmFields
<1>2. LedgerFields = <<"chain", "gas", "fuel">> /\ Len(LedgerFields) = 3
  BY DEF LedgerFields
<1>3. CASE m \in EvmMethods
  <2>1. CreateFields(m) = EvmFields /\ RemoveFields(m) = EvmFields
    BY <1>3 DEF CreateFields, RemoveFields, EvmMethods, LedgerMethods
  <2> QED BY <1>1, <2>1
<1>4. CASE m \in Mismatched
  <2>1. CreateFields(m) = LedgerFields /\ RemoveFields(m) = EvmFields
    BY <1>4 DEF CreateFields, RemoveFields, EvmMethods, LedgerMethods, Mismatched
  <2>2. \A i \in 1..2 : EvmFields[i] = LedgerFields[i + 1] /\ i + 1 \in 1..3
    BY <1>1, <1>2
  <2> QED BY <1>1, <1>2, <1>4, <2>1, <2>2
<1>5. CASE m \in LedgerMethods \ Mismatched
  <2>1. CreateFields(m) = LedgerFields /\ RemoveFields(m) = LedgerFields
    BY <1>5 DEF CreateFields, RemoveFields, EvmMethods, LedgerMethods, Mismatched
  <2> QED BY <1>2, <2>1
<1> QED BY <1>3, <1>4, <1>5 DEF Methods

LEMMA PrefixOfMethod ==
    ASSUME NEW m \in Methods, NEW h
    PROVE  /\ BranchName(m, h)[1] = Prefix(m)
           /\ m \in Mismatched => Prefix(m) \in Mismatched
           /\ Reads(m) \in {1, 2}
<1>1. BranchName(m, h)[1] = Prefix(m)
  BY DEF BranchName
<1>2. m \in Mismatched => Prefix(m) \in Mismatched
  BY DEF Prefix, Mismatched
<1>3. Reads(m) \in {1, 2}
  BY DEF Reads
<1> QED BY <1>1, <1>2, <1>3

-----------------------------------------------------------------------------
(* The invariant of the temporary branches.                                *)

NameIn(r) == BranchName(r.method, r.height)

(* The fields in which a request has its branch.                           *)
Holding(r) ==
    IF r.stage = "create" THEN {CreateFields(r.method)[i] : i \in 1..(r.at - 1)}
    ELSE IF r.stage = "remove"
    THEN {RemoveFields(r.method)[i] : i \in r.at..Len(RemoveFields(r.method))}
    ELSE {CreateFields(r.method)[i] : i \in 1..Len(CreateFields(r.method))}

IsRequest(r) ==
    /\ r = [stage |-> r.stage, method |-> r.method, height |-> r.height,
            since |-> r.since, at |-> r.at, seen |-> r.seen]
    /\ r.method \in Methods
    /\ r.stage \in {"create", "version", "read", "remove"}
    /\ r.at \in 1..3
    /\ r.stage = "create" => r.at =< Len(CreateFields(r.method))
    /\ r.stage = "remove" => r.at =< Len(RemoveFields(r.method))

(* A request field by field.                                               *)
With(stage, method, height, since, at, seen) ==
    [stage |-> stage, method |-> method, height |-> height,
     since |-> since, at |-> at, seen |-> seen]

OwnBranch(s, field) == [field |-> field, name |-> NameIn(req[s]), by |-> s]

ReqShape ==
    /\ req = [s \in Servers |-> req[s]]
    /\ \A s \in Servers : Busy(s) => IsRequest(req[s])

TempShape ==
    /\ \A b \in temp : /\ b = [field |-> b.field, name |-> b.name, by |-> b.by]
                       /\ b.field \in {"chain", "gas", "fuel"}
                       /\ b.by \in Servers
    /\ \A b, c \in temp : b.field = c.field /\ b.name = c.name => b = c

(* No request is open on a node that is down.                              *)
UpForRequests == \A s \in Servers : Busy(s) => pc # "down"

HoldsItsOwn ==
    \A s \in Servers : Busy(s) => \A f \in Holding(req[s]) : OwnBranch(s, f) \in temp

(* Of a name nobody disturbed, a server has what its request holds.        *)
HoldsNoMore ==
    \A s \in Servers :
        Busy(s) /\ req[s].method \notin Mismatched /\ NameIn(req[s]) \notin disturbed =>
            \A b \in temp : b.by = s /\ b.name = NameIn(req[s]) => b.field \in Holding(req[s])

TempInv ==
    /\ ReqShape /\ TempShape /\ UpForRequests /\ HoldsItsOwn /\ HoldsNoMore
    /\ LeftBehindHasCause

(* Every part of TempInv speaks of one request at a time, so a step of one *)
(* server is looked at from the request it has afterwards.                 *)

LEMMA ReqShapeKept ==
    ASSUME ReqShape, NEW s \in Servers, NEW q, q = IdleReq \/ IsRequest(q),
           req' = [req EXCEPT ![s] = q]
    PROVE  /\ ReqShape'
           /\ req'[s] = q
           /\ \A t \in Servers \ {s} : req'[t] = req[t]
<1>1. /\ req' = [t \in Servers |-> req'[t]]
      /\ req'[s] = q
      /\ \A t \in Servers \ {s} : req'[t] = req[t]
  BY DEF ReqShape
<1>2. ASSUME NEW t \in Servers, req'[t] # IdleReq
      PROVE  IsRequest(req'[t])
  BY <1>1, <1>2 DEF ReqShape, Busy
<1> QED BY <1>1, <1>2 DEF ReqShape, Busy

(* What the request a server answers next has, by stage.                   *)
LEMMA StageIs ==
    ASSUME ReqShape, NEW s \in Servers,
           req[s].stage \in {"create", "version", "read", "remove"}
    PROVE  Busy(s) /\ IsRequest(req[s])
<1>1. IdleReq.stage = "idle"
  BY DEF IdleReq
<1>2. req[s] # IdleReq
  BY <1>1
<1> QED BY <1>2 DEF Busy, ReqShape

(* A branch that nobody holds or disturbed bears the name of a method that *)
(* does not clean up.                                                      *)
LEMMA BranchOfServer ==
    ASSUME TempInv, NEW b \in temp
    PROVE  /\ b.by \in Servers
           /\ \/ Busy(b.by) /\ NameIn(req[b.by]) = b.name
              \/ b.name[1] \in Mismatched
              \/ b.name \in disturbed
BY DEF TempInv, TempShape, LeftBehindHasCause, NameOf, NameIn

-----------------------------------------------------------------------------
(* The steps of a request.                                                 *)

LEMMA ReceiveKeeps ==
    ASSUME TempInv, NEW s \in Servers, NEW r \in Requests, Receive(s, r), pc' = pc
    PROVE  TempInv'
<1> DEFINE q == [stage |-> "create", method |-> r.method, height |-> HeightFor(r),
                 since |-> Published, at |-> 1, seen |-> GenesisState]
<1>1. /\ ~Busy(s) /\ pc # "down"
      /\ req' = [req EXCEPT ![s] = q]
      /\ temp' = temp /\ disturbed' = disturbed
  BY DEF Receive, Serving
<1>2. r.method \in Methods
  BY RpcAssumption
<1>3. IsRequest(q) /\ q.stage = "create" /\ q.at = 1 /\ q.method \in Methods
  BY <1>2, FieldsOfMethod DEF IsRequest
<1> HIDE DEF q
<1>4. /\ ReqShape' /\ req'[s] = q
      /\ \A t \in Servers \ {s} : req'[t] = req[t]
  BY <1>1, <1>3, ReqShapeKept DEF TempInv
<1>5. Holding(q) = {}
  BY <1>3 DEF Holding
<1>6. TempShape' /\ UpForRequests'
  BY <1>1, <1>4 DEF TempInv, TempShape, UpForRequests, Busy
<1>7. HoldsItsOwn'
  <2> SUFFICES ASSUME NEW t \in Servers, Busy(t)', NEW f \in Holding(req'[t])
               PROVE  [field |-> f, name |-> NameIn(req'[t]), by |-> t] \in temp
    BY <1>1 DEF HoldsItsOwn, OwnBranch
  <2> QED BY <1>4, <1>5 DEF TempInv, HoldsItsOwn, OwnBranch, Busy
<1>8. HoldsNoMore'
  <2> SUFFICES ASSUME NEW t \in Servers, Busy(t)', req'[t].method \notin Mismatched,
                      NameIn(req'[t]) \notin disturbed,
                      NEW b \in temp, b.by = t, b.name = NameIn(req'[t])
               PROVE  b.field \in Holding(req'[t])
    BY <1>1 DEF HoldsNoMore
  <2>1. CASE t # s
    BY <1>4, <2>1 DEF TempInv, HoldsNoMore, Busy
  <2>2. CASE t = s
    <3>1. b.name[1] \in Mismatched
      BY <1>1, <2>2, BranchOfServer
    <3>2. b.name[1] = Prefix(q.method) /\ q.method \in Methods \ Mismatched
      BY <1>3, <1>4, <2>2, PrefixOfMethod DEF NameIn
    <3>3. Prefix(q.method) \notin Mismatched
      BY <3>2 DEF Prefix, Mismatched
    <3> QED BY <3>1, <3>2, <3>3
  <2> QED BY <2>1, <2>2
<1>9. LeftBehindHasCause'
  <2> SUFFICES ASSUME NEW b \in temp
               PROVE  \/ Busy(b.by)' /\ NameIn(req'[b.by]) = b.name
                      \/ b.name[1] \in Mismatched
                      \/ b.name \in disturbed
    BY <1>1 DEF LeftBehindHasCause, NameOf, NameIn
  <2>1. b.by \in Servers
    BY BranchOfServer
  <2> QED BY <1>1, <1>4, <2>1, BranchOfServer DEF Busy
<1> QED BY <1>4, <1>6, <1>7, <1>8, <1>9 DEF TempInv

LEMMA CreateFieldKeeps ==
    ASSUME TempInv, NEW s \in Servers, CreateField(s), pc' = pc
    PROVE  TempInv'
<1> DEFINE r == req[s]
           C == CreateFields(r.method)
           new == OwnBranch(s, C[r.at])
           q == req'[s]
<1>1. /\ r.stage = "create" /\ Busy(s) /\ IsRequest(r)
      /\ r.method \in Methods /\ r.at \in 1..Len(C) /\ Len(C) \in 2..3
  <2>1. r.stage = "create"
    BY DEF CreateField
  <2>2. Busy(s) /\ IsRequest(r)
    BY <2>1, StageIs DEF TempInv
  <2>3. Len(C) \in 2..3
    BY <2>2, FieldsOfMethod DEF IsRequest
  <2> QED BY <2>1, <2>2, <2>3 DEF IsRequest
<1>2. /\ ~Exists(C[r.at], NameIn(r))
      /\ temp' = temp \cup {new}
      /\ disturbed' = disturbed
  BY DEF CreateField, OwnBranch, NameOf, NameIn
<1>3. /\ req' = [req EXCEPT ![s] = q]
      /\ q.method = r.method /\ q.height = r.height
      /\ IF r.at < Len(C) THEN q.stage = "create" /\ q.at = r.at + 1
                          ELSE q.stage = "version" /\ r.at = Len(C)
      /\ IsRequest(q)
  <2>1. req = [t \in Servers |-> req[t]]
    BY DEF TempInv, ReqShape
  <2>2. CASE r.at < Len(C)
    <3>1. req' = [req EXCEPT ![s].at = @ + 1]
      BY <2>2 DEF CreateField
    <3>2. q = [r EXCEPT !.at = r.at + 1] /\ req' = [req EXCEPT ![s] = q]
      BY <2>1, <3>1
    <3>3. q = [stage |-> r.stage, method |-> r.method, height |-> r.height,
               since |-> r.since, at |-> r.at + 1, seen |-> r.seen]
      BY <1>1, <3>2 DEF IsRequest
    <3>4. r.at + 1 \in 1..3 /\ r.at + 1 =< Len(C)
      <4> DEFINE n == Len(C)
                 k == r.at
      <4>1. k \in 1..n /\ n \in 2..3 /\ k < n
        BY <1>1, <2>2
      <4> HIDE DEF n, k
      <4>2. k + 1 \in 1..3 /\ k + 1 =< n
        BY <4>1
      <4> QED BY <4>2 DEF n, k
    <3> HIDE DEF q, C
    <3>5. IsRequest(q)
      BY <1>1, <3>3, <3>4 DEF IsRequest, C
    <3> QED BY <1>1, <2>2, <3>2, <3>3, <3>5
  <2>3. CASE ~(r.at < Len(C))
    <3>1. req' = [req EXCEPT ![s].stage = "version"]
      BY <2>3 DEF CreateField
    <3>2. q = [r EXCEPT !.stage = "version"] /\ req' = [req EXCEPT ![s] = q]
      BY <2>1, <3>1
    <3>3. q = [stage |-> "version", method |-> r.method, height |-> r.height,
               since |-> r.since, at |-> r.at, seen |-> r.seen]
      BY <1>1, <3>2 DEF IsRequest
    <3>4. r.at = Len(C)
      BY <1>1, <2>3
    <3> HIDE DEF q, C
    <3>5. IsRequest(q)
      BY <1>1, <3>3, <3>4 DEF IsRequest, C
    <3> QED BY <1>1, <2>3, <3>2, <3>3, <3>4, <3>5
  <2> QED BY <2>2, <2>3
<1>4. /\ ReqShape'
      /\ \A t \in Servers \ {s} : req'[t] = req[t]
  <2> HIDE DEF q
  <2> QED BY <1>3, ReqShapeKept DEF TempInv
<1>5. NameIn(q) = NameIn(r) /\ Holding(q) = Holding(r) \cup {C[r.at]} /\ q # IdleReq
  <2>1. NameIn(q) = NameIn(r)
    BY <1>3 DEF NameIn
  <2>2. Holding(r) = {C[i] : i \in 1..(r.at - 1)}
    BY <1>1 DEF Holding
  <2>3. Holding(q) = {C[i] : i \in 1..r.at}
    <3> HIDE DEF q, r
    <3>1. CASE r.at < Len(C)
      BY <1>1, <1>3, <3>1 DEF Holding
    <3>2. CASE ~(r.at < Len(C))
      BY <1>1, <1>3, <3>2 DEF Holding
    <3> QED BY <3>1, <3>2
  <2>4. 1..r.at = (1..(r.at - 1)) \cup {r.at}
    BY <1>1
  <2>5. q # IdleReq
    <3>1. IdleReq.stage = "idle"
      BY DEF IdleReq
    <3> HIDE DEF q
    <3> QED BY <1>3, <3>1
  <2> QED BY <2>1, <2>2, <2>3, <2>4, <2>5
<1>6. new.field = C[r.at] /\ new.name = NameIn(r) /\ new.by = s
  BY DEF OwnBranch
<1> HIDE DEF q, new
<1>7. TempShape'
  <2>1. new = [field |-> new.field, name |-> new.name, by |-> new.by]
    BY DEF new, OwnBranch
  <2>2. C[r.at] \in {"chain", "gas", "fuel"}
    BY <1>1, FieldsOfMethod
  <2>3. \A b \in temp : ~(b.field = C[r.at] /\ b.name = NameIn(r))
    BY <1>2 DEF Exists
  <2> HIDE DEF C, r
  <2>4. \A b \in temp' : /\ b = [field |-> b.field, name |-> b.name, by |-> b.by]
                         /\ b.field \in {"chain", "gas", "fuel"}
                         /\ b.by \in Servers
    BY <1>2, <1>6, <2>1, <2>2 DEF TempInv, TempShape
  <2>5. \A b, c \in temp' : b.field = c.field /\ b.name = c.name => b = c
    BY <1>2, <1>6, <2>3 DEF TempInv, TempShape
  <2> QED BY <2>4, <2>5 DEF TempShape
<1>8. UpForRequests'
  BY <1>1, <1>4 DEF TempInv, UpForRequests, Busy
<1>9. HoldsItsOwn'
  <2> SUFFICES ASSUME NEW t \in Servers, Busy(t)', NEW f \in Holding(req'[t])
               PROVE  [field |-> f, name |-> NameIn(req'[t]), by |-> t] \in temp'
    BY DEF HoldsItsOwn, OwnBranch
  <2>1. CASE t # s
    BY <1>2, <1>4, <2>1 DEF TempInv, HoldsItsOwn, OwnBranch, Busy
  <2>2. CASE t = s
    <3>1. f \in Holding(r) \cup {C[r.at]}
      BY <1>5, <2>2 DEF q
    <3>2. CASE f = C[r.at]
      BY <1>2, <1>5, <2>2, <3>2 DEF new, OwnBranch, q
    <3>3. CASE f \in Holding(r)
      BY <1>1, <1>2, <1>5, <2>2, <3>3 DEF TempInv, HoldsItsOwn, OwnBranch, q
    <3> QED BY <3>1, <3>2, <3>3
  <2> QED BY <2>1, <2>2
<1>10. HoldsNoMore'
  <2> SUFFICES ASSUME NEW t \in Servers, Busy(t)', req'[t].method \notin Mismatched,
                      NameIn(req'[t]) \notin disturbed,
                      NEW b \in temp', b.by = t, b.name = NameIn(req'[t])
               PROVE  b.field \in Holding(req'[t])
    BY <1>2 DEF HoldsNoMore
  <2>1. CASE b = new
    BY <1>5, <1>6, <2>1 DEF q
  <2>2. CASE b \in temp /\ t = s
    BY <1>1, <1>3, <1>5, <2>2 DEF TempInv, HoldsNoMore, q
  <2>3. CASE b \in temp /\ t # s
    BY <1>4, <2>3 DEF TempInv, HoldsNoMore, Busy
  <2> QED BY <1>2, <2>1, <2>2, <2>3
<1>11. LeftBehindHasCause'
  <2> SUFFICES ASSUME NEW b \in temp'
               PROVE  \/ Busy(b.by)' /\ NameIn(req'[b.by]) = b.name
                      \/ b.name[1] \in Mismatched
                      \/ b.name \in disturbed
    BY <1>2 DEF LeftBehindHasCause, NameOf, NameIn
  <2>1. CASE b = new
    BY <1>5, <1>6, <2>1 DEF Busy, q
  <2>2. CASE b \in temp
    <3>1. b.by \in Servers
      BY <2>2, BranchOfServer
    <3>2. CASE b.by = s
      BY <1>5, <2>2, <3>2, BranchOfServer DEF Busy, q
    <3>3. CASE b.by # s
      BY <1>4, <2>2, <3>1, <3>3, BranchOfServer DEF Busy
    <3> QED BY <3>2, <3>3
  <2> QED BY <1>2, <2>1, <2>2
<1> QED BY <1>4, <1>7, <1>8, <1>9, <1>10, <1>11 DEF TempInv

(* A request is over: its branches have another cause, or are gone.        *)
LEMMA EndKeeps ==
    ASSUME TempInv, NEW s \in Servers, Busy(s),
           req' = [req EXCEPT ![s] = IdleReq], temp' \subseteq temp, pc' = pc,
           \A n : (\E b \in temp' : b.name = n) /\ n \in disturbed => n \in disturbed',
           \A b \in temp' : b.by = s /\ b.name = NameIn(req[s]) =>
              b.name[1] \in Mismatched \/ b.name \in disturbed',
           \A b \in temp : b \in temp' \/ b.by = s
    PROVE  TempInv'
<1>1. /\ ReqShape' /\ req'[s] = IdleReq
      /\ \A t \in Servers \ {s} : req'[t] = req[t]
  BY ReqShapeKept DEF TempInv
<1>2. TempShape'
  BY DEF TempInv, TempShape
<1>3. UpForRequests'
  BY <1>1 DEF TempInv, UpForRequests, Busy
<1>4. HoldsItsOwn'
  <2> SUFFICES ASSUME NEW t \in Servers, Busy(t)', NEW f \in Holding(req'[t])
               PROVE  [field |-> f, name |-> NameIn(req'[t]), by |-> t] \in temp'
    BY DEF HoldsItsOwn, OwnBranch
  <2>1. t # s /\ Busy(t) /\ req'[t] = req[t]
    BY <1>1 DEF Busy
  <2>2. OwnBranch(t, f) \in temp
    BY <2>1 DEF TempInv, HoldsItsOwn
  <2>3. OwnBranch(t, f).by # s
    BY <2>1 DEF OwnBranch
  <2> QED BY <2>1, <2>2, <2>3 DEF OwnBranch
<1>5. HoldsNoMore'
  <2> SUFFICES ASSUME NEW t \in Servers, Busy(t)', req'[t].method \notin Mismatched,
                      NameIn(req'[t]) \notin disturbed',
                      NEW b \in temp', b.by = t, b.name = NameIn(req'[t])
               PROVE  b.field \in Holding(req'[t])
    BY DEF HoldsNoMore
  <2>1. t # s /\ Busy(t) /\ req'[t] = req[t]
    BY <1>1 DEF Busy
  <2>2. b.name \notin disturbed
    OBVIOUS
  <2> QED BY <2>1, <2>2 DEF TempInv, HoldsNoMore
<1>6. LeftBehindHasCause'
  <2> SUFFICES ASSUME NEW b \in temp'
               PROVE  \/ Busy(b.by)' /\ NameIn(req'[b.by]) = b.name
                      \/ b.name[1] \in Mismatched
                      \/ b.name \in disturbed'
    BY DEF LeftBehindHasCause, NameOf, NameIn
  <2>1. /\ b.by \in Servers
        /\ \/ Busy(b.by) /\ NameIn(req[b.by]) = b.name
           \/ b.name[1] \in Mismatched
           \/ b.name \in disturbed
    BY BranchOfServer
  <2>2. CASE Busy(b.by) /\ NameIn(req[b.by]) = b.name /\ b.by = s
    BY <2>2
  <2>3. CASE Busy(b.by) /\ NameIn(req[b.by]) = b.name /\ b.by # s
    BY <1>1, <2>1, <2>3 DEF Busy
  <2>4. CASE b.name[1] \in Mismatched \/ b.name \in disturbed
    BY <2>4
  <2> QED BY <2>1, <2>2, <2>3, <2>4
<1> QED BY <1>1, <1>2, <1>3, <1>4, <1>5, <1>6 DEF TempInv

LEMMA CreateRefusedKeeps ==
    ASSUME TempInv, NEW s \in Servers, CreateRefused(s), pc' = pc
    PROVE  TempInv'
<1> DEFINE r == req[s]
           C == CreateFields(r.method)
<1>1. /\ r.stage = "create" /\ Busy(s) /\ IsRequest(r)
      /\ r.method \in Methods /\ r.at \in 1..Len(C) /\ Len(C) \in 2..3
  <2>1. r.stage = "create"
    BY DEF CreateRefused
  <2>2. Busy(s) /\ IsRequest(r)
    BY <2>1, StageIs DEF TempInv
  <2>3. Len(C) \in 2..3
    BY <2>2, FieldsOfMethod DEF IsRequest
  <2> QED BY <2>1, <2>2, <2>3 DEF IsRequest
<1>2. PICK b \in temp : b.field = C[r.at] /\ b.name = NameIn(r)
  BY DEF CreateRefused, Exists, NameOf, NameIn
<1>3. /\ req' = [req EXCEPT ![s] = IdleReq]
      /\ temp' = temp
      /\ disturbed \subseteq disturbed'
      /\ Contended(s) => NameIn(r) \in disturbed'
  BY DEF CreateRefused, AnswerAndIdle, NameOf, NameIn
<1>4. NameIn(r)[1] \in Mismatched \/ NameIn(r) \in disturbed'
  <2>1. \/ Busy(b.by) /\ NameIn(req[b.by]) = NameIn(r) /\ b.by \in Servers
        \/ NameIn(r)[1] \in Mismatched
        \/ NameIn(r) \in disturbed
    BY <1>2, BranchOfServer
  <2>2. CASE b.by \in Servers \ {s} /\ Busy(b.by) /\ NameIn(req[b.by]) = NameIn(r)
    <3>1. Contended(s)
      BY <2>2 DEF Contended, NameOf, NameIn
    <3> QED BY <1>3, <3>1
  <2>3. CASE b.by = s
    <3>1. C[r.at] \notin Holding(r)
      <4>1. Holding(r) = {C[i] : i \in 1..(r.at - 1)}
        BY <1>1 DEF Holding
      <4>2. \A i, j \in 1..Len(C) : C[i] = C[j] => i = j
        BY <1>1, FieldsOfMethod
      <4> HIDE DEF C, r
      <4> QED BY <1>1, <4>1, <4>2
    <3>2. r.method \in Mismatched \/ NameIn(r) \in disturbed
      BY <1>1, <1>2, <2>3, <3>1 DEF TempInv, HoldsNoMore
    <3>3. r.method \in Mismatched => NameIn(r)[1] \in Mismatched
      BY <1>1, PrefixOfMethod DEF NameIn
    <3> QED BY <1>3, <3>2, <3>3
  <2> QED BY <1>3, <2>1, <2>2, <2>3
<1> HIDE DEF r
<1> QED BY <1>1, <1>3, <1>4, EndKeeps DEF r

(* A request goes on without touching the store of branches.               *)
LEMMA GoOnKeeps ==
    ASSUME TempInv, NEW s \in Servers, Busy(s), NEW q, q # IdleReq, IsRequest(q),
           req' = [req EXCEPT ![s] = q], temp' = temp, disturbed' = disturbed, pc' = pc,
           NameIn(q) = NameIn(req[s]), q.method = req[s].method,
           Holding(q) \subseteq Holding(req[s]),
           q.method \notin Mismatched => Holding(q) = Holding(req[s])
    PROVE  TempInv'
<1>1. /\ ReqShape' /\ req'[s] = q
      /\ \A t \in Servers \ {s} : req'[t] = req[t]
  BY ReqShapeKept DEF TempInv
<1>2. \A t \in Servers : /\ Busy(t)' <=> Busy(t)
                         /\ NameIn(req'[t]) = NameIn(req[t])
                         /\ req'[t].method = req[t].method \/ ~Busy(t)
  BY <1>1 DEF Busy
<1>3. TempShape' /\ UpForRequests'
  BY <1>2 DEF TempInv, TempShape, UpForRequests
<1>4. HoldsItsOwn'
  <2> SUFFICES ASSUME NEW t \in Servers, Busy(t)', NEW f \in Holding(req'[t])
               PROVE  [field |-> f, name |-> NameIn(req'[t]), by |-> t] \in temp'
    BY DEF HoldsItsOwn, OwnBranch
  <2>1. f \in Holding(req[t])
    BY <1>1
  <2> QED BY <1>2, <2>1 DEF TempInv, HoldsItsOwn, OwnBranch
<1>5. HoldsNoMore'
  <2> SUFFICES ASSUME NEW t \in Servers, Busy(t)', req'[t].method \notin Mismatched,
                      NameIn(req'[t]) \notin disturbed',
                      NEW b \in temp', b.by = t, b.name = NameIn(req'[t])
               PROVE  b.field \in Holding(req'[t])
    BY DEF HoldsNoMore
  <2>1. b.field \in Holding(req[t])
    BY <1>2 DEF TempInv, HoldsNoMore
  <2>2. Holding(req'[t]) = Holding(req[t])
    BY <1>1
  <2> QED BY <2>1, <2>2
<1>6. LeftBehindHasCause'
  <2> SUFFICES ASSUME NEW b \in temp'
               PROVE  \/ Busy(b.by)' /\ NameIn(req'[b.by]) = b.name
                      \/ b.name[1] \in Mismatched
                      \/ b.name \in disturbed'
    BY DEF LeftBehindHasCause, NameOf, NameIn
  <2> QED BY <1>2, BranchOfServer
<1> QED BY <1>1, <1>3, <1>4, <1>5, <1>6 DEF TempInv

LEMMA NameVersionKeeps ==
    ASSUME TempInv, NEW s \in Servers, NameVersion(s), pc' = pc
    PROVE  TempInv'
<1> DEFINE r == req[s]
           C == CreateFields(r.method)
           q == [stage |-> "read", method |-> r.method, height |-> r.height,
                 since |-> r.since, at |-> 1, seen |-> r.seen]
<1>1. r.stage = "version" /\ Busy(s) /\ IsRequest(r) /\ r.method \in Methods
  BY StageIs DEF TempInv, NameVersion, IsRequest
<1>2. /\ Len(C) \in 2..3
      /\ DOMAIN C = 1..Len(C)
  <2>1. Len(C) \in 2..3
    BY <1>1, FieldsOfMethod
  <2>2. DOMAIN C = 1..Len(C)
    <3>1. DOMAIN EvmFields = 1..Len(EvmFields) /\ DOMAIN LedgerFields = 1..Len(LedgerFields)
      BY DEF EvmFields, LedgerFields
    <3> QED BY <3>1 DEF CreateFields
  <2> QED BY <2>1, <2>2
<1>3. Holding(r) = {C[i] : i \in 1..Len(C)}
  BY <1>1 DEF Holding
<1>4. \A i \in 1..Len(C) : Exists(C[i], NameOf(s))
  <2> SUFFICES ASSUME NEW i \in 1..Len(C) PROVE Exists(C[i], NameOf(s))
    OBVIOUS
  <2>1. OwnBranch(s, C[i]) \in temp
    BY <1>1, <1>3 DEF TempInv, HoldsItsOwn
  <2>2. OwnBranch(s, C[i]).field = C[i] /\ OwnBranch(s, C[i]).name = NameOf(s)
    BY DEF OwnBranch, NameOf, NameIn
  <2> QED BY <2>1, <2>2 DEF Exists
<1>5. /\ req' = [req EXCEPT ![s].stage = "read", ![s].at = 1]
      /\ temp' = temp /\ disturbed' = disturbed
  BY <1>2, <1>4 DEF NameVersion
<1>6. req' = [req EXCEPT ![s] = q]
  <2>1. req = [t \in Servers |-> req[t]]
    BY DEF TempInv, ReqShape
  <2>2. req' = [req EXCEPT ![s] = [[r EXCEPT !.stage = "read"] EXCEPT !.at = 1]]
    BY <1>5, <2>1
  <2>3. [[r EXCEPT !.stage = "read"] EXCEPT !.at = 1] = q
    <3> DEFINE r1 == [r EXCEPT !.stage = "read"]
    <3>1. r = With(r.stage, r.method, r.height, r.since, r.at, r.seen)
      BY <1>1 DEF IsRequest, With
    <3> HIDE DEF r
    <3>2. r1 = With("read", r.method, r.height, r.since, r.at, r.seen)
      BY <3>1 DEF With
    <3> HIDE DEF r1
    <3>3. [r1 EXCEPT !.at = 1] = With("read", r.method, r.height, r.since, 1, r.seen)
      BY <3>2 DEF With
    <3> QED BY <3>3 DEF With, r1
  <2> QED BY <2>2, <2>3
<1>7. IsRequest(q) /\ q # IdleReq
  BY <1>1 DEF IsRequest, IdleReq
<1>8. q.method = r.method /\ NameIn(q) = NameIn(r) /\ Holding(q) = Holding(r)
  BY <1>3 DEF NameIn, Holding
<1> HIDE DEF q, r
<1> QED BY <1>1, <1>5, <1>6, <1>7, <1>8, GoOnKeeps DEF r

LEMMA ReadKeeps ==
    ASSUME TempInv, NEW s \in Servers, Read(s), pc' = pc
    PROVE  TempInv'
<1> DEFINE r == req[s]
           C == CreateFields(r.method)
           R == RemoveFields(r.method)
<1>1. /\ r.stage = "read" /\ Busy(s) /\ IsRequest(r) /\ r.method \in Methods
      /\ temp' = temp /\ disturbed' = disturbed
      /\ req = [t \in Servers |-> req[t]]
  BY StageIs DEF TempInv, Read, IsRequest, ReqShape
<1>2. /\ Reads(r.method) \in {1, 2}
      /\ r.method \in Mismatched => NameIn(r)[1] \in Mismatched
  BY <1>1, PrefixOfMethod DEF NameIn
<1>3. Holding(r) = {C[i] : i \in 1..Len(C)}
  BY <1>1 DEF Holding
<1>4. CASE ReadFails(s) /\ r.method = "transaction_by_block_number_and_index"
  <2>1. req' = [req EXCEPT ![s] = IdleReq]
    BY <1>4 DEF Read, AnswerAndIdle
  <2>2. NameIn(r)[1] \in Mismatched
    BY <1>2, <1>4 DEF Mismatched
  <2> HIDE DEF r
  <2> QED BY <1>1, <2>1, <2>2, EndKeeps DEF r
<1>5. CASE /\ ~(ReadFails(s) /\ r.method = "transaction_by_block_number_and_index")
           /\ r.at < Reads(r.method)
  <2> DEFINE q == [stage |-> "read", method |-> r.method, height |-> r.height,
                   since |-> r.since, at |-> r.at + 1, seen |-> DefaultBranchState]
  <2>1. req' = [req EXCEPT ![s].at = @ + 1, ![s].seen = DefaultBranchState]
    BY <1>5 DEF Read
  <2>2. req' = [req EXCEPT ![s] = [[r EXCEPT !.at = r.at + 1]
                                      EXCEPT !.seen = DefaultBranchState]]
    BY <1>1, <2>1
  <2>3. [[r EXCEPT !.at = r.at + 1] EXCEPT !.seen = DefaultBranchState] = q
    <3> DEFINE r1 == [r EXCEPT !.at = r.at + 1]
               D == DefaultBranchState
    <3>1. r = With("read", r.method, r.height, r.since, r.at, r.seen)
      BY <1>1 DEF IsRequest, With
    <3> HIDE DEF r, D
    <3>2. r1 = With("read", r.method, r.height, r.since, r.at + 1, r.seen)
      BY <3>1 DEF With
    <3> HIDE DEF r1
    <3>3. [r1 EXCEPT !.seen = D] = With("read", r.method, r.height, r.since, r.at + 1, D)
      BY <3>2 DEF With
    <3> QED BY <3>3 DEF With, r1, D
  <2>4. IsRequest(q) /\ q # IdleReq
    <3>1. r.at + 1 \in 1..3
      BY <1>1, <1>2, <1>5 DEF IsRequest
    <3> QED BY <1>1, <3>1 DEF IsRequest, IdleReq
  <2>5. q.method = r.method /\ NameIn(q) = NameIn(r) /\ Holding(q) = Holding(r)
    BY <1>3 DEF NameIn, Holding
  <2> HIDE DEF q, r
  <2> QED BY <1>1, <2>2, <2>3, <2>4, <2>5, GoOnKeeps DEF r
<1>6. CASE /\ ~(ReadFails(s) /\ r.method = "transaction_by_block_number_and_index")
           /\ ~(r.at < Reads(r.method))
  <2> DEFINE q == [stage |-> "remove", method |-> r.method, height |-> r.height,
                   since |-> 0, at |-> 1, seen |-> DefaultBranchState]
  <2>1. req' = [req EXCEPT ![s].stage = "remove", ![s].at = 1, ![s].since = 0,
                           ![s].seen = DefaultBranchState]
    BY <1>6 DEF Read
  <2>2. req' = [req EXCEPT ![s] =
                  [[[[r EXCEPT !.stage = "remove"] EXCEPT !.at = 1] EXCEPT !.since = 0]
                      EXCEPT !.seen = DefaultBranchState]]
    BY <1>1, <2>1
  <2>3. [[[[r EXCEPT !.stage = "remove"] EXCEPT !.at = 1] EXCEPT !.since = 0]
            EXCEPT !.seen = DefaultBranchState] = q
    <3> DEFINE r1 == [r EXCEPT !.stage = "remove"]
               r2 == [r1 EXCEPT !.at = 1]
               r3 == [r2 EXCEPT !.since = 0]
               D == DefaultBranchState
    <3>1. r = With("read", r.method, r.height, r.since, r.at, r.seen)
      BY <1>1 DEF IsRequest, With
    <3> HIDE DEF r, D
    <3>2. r1 = With("remove", r.method, r.height, r.since, r.at, r.seen)
      BY <3>1 DEF With
    <3> HIDE DEF r1
    <3>3. r2 = With("remove", r.method, r.height, r.since, 1, r.seen)
      BY <3>2 DEF With
    <3> HIDE DEF r2
    <3>4. r3 = With("remove", r.method, r.height, 0, 1, r.seen)
      BY <3>3 DEF With
    <3> HIDE DEF r3
    <3>5. [r3 EXCEPT !.seen = D] = With("remove", r.method, r.height, 0, 1, D)
      BY <3>4 DEF With
    <3> QED BY <3>5 DEF With, r1, r2, r3, D
  <2>4. /\ Len(R) \in 2..3
        /\ \A i \in 1..Len(R) : \E j \in 1..Len(C) : R[i] = C[j]
        /\ r.method \notin Mismatched => R = C
    BY <1>1, FieldsOfMethod
  <2>5. IsRequest(q) /\ q # IdleReq
    <3>1. 1 =< Len(R)
      <4> HIDE DEF R
      <4> QED BY <2>4
    <3> QED BY <1>1, <3>1 DEF IsRequest, IdleReq
  <2>6. Holding(q) = {R[i] : i \in 1..Len(R)}
    BY DEF Holding
  <2>7. q.method = r.method /\ NameIn(q) = NameIn(r)
    BY DEF NameIn
  <2>8. /\ Holding(q) \subseteq Holding(r)
        /\ q.method \notin Mismatched => Holding(q) = Holding(r)
    <3> HIDE DEF q, R, C
    <3> QED BY <1>3, <2>4, <2>6, <2>7
  <2> HIDE DEF q, r
  <2> QED BY <1>1, <2>2, <2>3, <2>5, <2>7, <2>8, GoOnKeeps DEF r
<1> QED BY <1>4, <1>5, <1>6

(* The removal of one field: of the branch of that name, whoever made it.  *)
LEMMA RemoveFieldKeeps ==
    ASSUME TempInv, NEW s \in Servers, RemoveField(s), pc' = pc
    PROVE  TempInv'
<1> DEFINE r == req[s]
           C == CreateFields(r.method)
           R == RemoveFields(r.method)
           f == R[r.at]
           q == req'[s]
<1>1. /\ r.stage = "remove" /\ Busy(s) /\ IsRequest(r) /\ r.method \in Methods
      /\ r.at \in 1..3 /\ r.at =< Len(R)
      /\ req = [t \in Servers |-> req[t]]
  BY StageIs DEF TempInv, RemoveField, IsRequest, ReqShape
<1>2. /\ Len(R) \in 2..3
      /\ \A i, j \in 1..Len(R) : R[i] = R[j] => i = j
      /\ r.method \in Mismatched => NameIn(r)[1] \in Mismatched
  BY <1>1, FieldsOfMethod, PrefixOfMethod DEF NameIn
<1>3. /\ Holding(r) = {R[i] : i \in r.at..Len(R)}
      /\ f \in Holding(r)
  <2>1. Holding(r) = {R[i] : i \in r.at..Len(R)}
    BY <1>1 DEF Holding
  <2>2. r.at \in r.at..Len(R)
    <3> HIDE DEF r, R
    <3> QED BY <1>1, <1>2
  <2> QED BY <2>1, <2>2
<1>4. OwnBranch(s, f) \in temp
  BY <1>1, <1>3 DEF TempInv, HoldsItsOwn
<1>5. /\ temp' = {b \in temp : ~(b.field = f /\ b.name = NameIn(r))}
      /\ disturbed' = disturbed \cap {b.name : b \in temp'}
      /\ IF r.at < Len(R) THEN req' = [req EXCEPT ![s].at = @ + 1]
                          ELSE req' = [req EXCEPT ![s] = IdleReq]
  <2>1. Exists(f, NameOf(s))
    BY <1>4 DEF Exists, OwnBranch, NameOf, NameIn
  <2>2. \A b \in temp : [field |-> b.field, name |-> b.name] =
                          [field |-> f, name |-> NameIn(r)]
                        <=> b.field = f /\ b.name = NameIn(r)
    <3> HIDE DEF f, r
    <3> QED OBVIOUS
  <2>3. temp' = {b \in temp : [field |-> b.field, name |-> b.name] #
                                [field |-> f, name |-> NameIn(r)]}
    BY DEF RemoveField, NameOf, NameIn
  <2>4. disturbed' = disturbed \cap {b.name : b \in temp'}
    BY DEF RemoveField
  <2>5. IF r.at < Len(R) THEN req' = [req EXCEPT ![s].at = @ + 1]
                         ELSE req' = [req EXCEPT ![s] = IdleReq]
    BY <2>1 DEF RemoveField, AnswerAndIdle
  <2> HIDE DEF f, r, R
  <2> QED BY <2>2, <2>3, <2>4, <2>5
(* What goes is the server's own.                                          *)
<1>6. \A b \in temp : b \in temp' \/ b.by = s
  <2> SUFFICES ASSUME NEW b \in temp, b.field = f, b.name = NameIn(r) PROVE b.by = s
    BY <1>5
  <2>1. OwnBranch(s, f).field = f /\ OwnBranch(s, f).name = NameIn(r)
        /\ OwnBranch(s, f).by = s
    BY DEF OwnBranch
  <2> HIDE DEF f, r
  <2> QED BY <1>4, <2>1 DEF TempInv, TempShape
<1>7. \A b \in temp' : b \in temp /\ (b.by = s /\ b.name = NameIn(r) => b.field # f)
  BY <1>5
<1>8. \A n : (\E b \in temp' : b.name = n) /\ n \in disturbed => n \in disturbed'
  BY <1>5
<1>9. CASE ~(r.at < Len(R))
  <2>1. r.at = Len(R)
    <3> HIDE DEF r, R
    <3> QED BY <1>1, <1>2, <1>9
  <2>2. Holding(r) = {f}
    <3>1. r.at..Len(R) = {r.at}
      BY <1>1, <2>1
    <3> QED BY <1>3, <3>1
  <2>3. \A b \in temp' : b.by = s /\ b.name = NameIn(r) =>
            b.name[1] \in Mismatched \/ b.name \in disturbed'
    <3> SUFFICES ASSUME NEW b \in temp', b.by = s, b.name = NameIn(r),
                        r.method \notin Mismatched, NameIn(r) \notin disturbed'
                 PROVE  FALSE
      BY <1>2
    <3>1. NameIn(r) \notin disturbed /\ b \in temp /\ b.field # f
      BY <1>7, <1>8
    <3>2. b.field \in Holding(r)
      BY <1>1, <3>1 DEF TempInv, HoldsNoMore
    <3> QED BY <2>2, <3>1, <3>2
  <2>4. temp' \subseteq temp /\ req' = [req EXCEPT ![s] = IdleReq]
    BY <1>5, <1>9
  <2> HIDE DEF r
  <2> QED BY <1>1, <1>6, <1>8, <2>3, <2>4, EndKeeps DEF r
<1>10. CASE r.at < Len(R)
  <2>1. /\ q = [stage |-> "remove", method |-> r.method, height |-> r.height,
                since |-> r.since, at |-> r.at + 1, seen |-> r.seen]
        /\ req' = [req EXCEPT ![s] = q]
    <3>1. req' = [req EXCEPT ![s].at = @ + 1]
      BY <1>5, <1>10
    <3>2. q = [r EXCEPT !.at = r.at + 1] /\ req' = [req EXCEPT ![s] = q]
      BY <1>1, <3>1
    <3> QED BY <1>1, <3>2 DEF IsRequest
  <2>2. r.at + 1 \in 1..3 /\ r.at + 1 =< Len(R)
    <3> DEFINE n == Len(R)
               k == r.at
    <3>1. k \in 1..3 /\ n \in 2..3 /\ k < n
      BY <1>1, <1>2, <1>10
    <3> HIDE DEF n, k
    <3>2. k + 1 \in 1..3 /\ k + 1 =< n
      BY <3>1
    <3> QED BY <3>2 DEF n, k
  <2> HIDE DEF q
  <2>3. IsRequest(q) /\ q # IdleReq
    BY <1>1, <2>1, <2>2 DEF IsRequest, IdleReq
  <2>4. /\ ReqShape' /\ req'[s] = q
        /\ \A t \in Servers \ {s} : req'[t] = req[t]
    BY <2>1, <2>3, ReqShapeKept DEF TempInv
  <2>5. NameIn(q) = NameIn(r) /\ q.method = r.method
    BY <2>1 DEF NameIn
  <2>6. Holding(q) = Holding(r) \ {f}
    <3>1. Holding(q) = {R[i] : i \in (r.at + 1)..Len(R)}
      <4>1. q.stage = "remove" /\ q.method = r.method /\ q.at = r.at + 1
        BY <2>1
      <4> QED BY <4>1 DEF Holding
    <3> DEFINE n == Len(R)
               k == r.at
    <3>2. k \in 1..3 /\ n \in 2..3 /\ k < n
      BY <1>1, <1>2, <1>10
    <3>3. /\ Holding(q) = {R[i] : i \in (k + 1)..n} /\ Holding(r) = {R[i] : i \in k..n}
          /\ \A i, j \in 1..n : R[i] = R[j] => i = j
          /\ f = R[k]
      BY <1>2, <1>3, <3>1
    <3> HIDE DEF n, k, f, R, r
    <3>4. \A i \in k..n : i \in 1..n /\ (i = k \/ i \in (k + 1)..n)
      BY <3>2
    <3>5. \A i \in (k + 1)..n : i \in k..n /\ i # k
      BY <3>2
    <3>6. k \in k..n /\ k \in 1..n
      BY <3>2
    <3> QED BY <3>3, <3>4, <3>5, <3>6
  <2>7. TempShape' /\ UpForRequests'
    BY <1>1, <1>7, <2>4 DEF TempInv, TempShape, UpForRequests, Busy
  <2>8. HoldsItsOwn'
    <3> SUFFICES ASSUME NEW t \in Servers, Busy(t)', NEW g \in Holding(req'[t])
                 PROVE  [field |-> g, name |-> NameIn(req'[t]), by |-> t] \in temp'
      BY DEF HoldsItsOwn, OwnBranch
    <3>1. CASE t # s
      <4>1. OwnBranch(t, g) \in temp /\ OwnBranch(t, g).by # s
        BY <2>4, <3>1 DEF TempInv, HoldsItsOwn, Busy, OwnBranch
      <4> QED BY <1>6, <2>4, <3>1, <4>1 DEF OwnBranch
    <3>2. CASE t = s
      <4>1. g \in Holding(r) /\ g # f
        BY <2>4, <2>6, <3>2
      <4>2. OwnBranch(s, g) \in temp /\ OwnBranch(s, g).field # f
        BY <1>1, <4>1 DEF TempInv, HoldsItsOwn, OwnBranch
      <4>3. OwnBranch(s, g) \in temp'
        BY <1>5, <4>2
      <4> QED BY <2>4, <2>5, <3>2, <4>3 DEF OwnBranch
    <3> QED BY <3>1, <3>2
  <2>9. HoldsNoMore'
    <3> SUFFICES ASSUME NEW t \in Servers, Busy(t)', req'[t].method \notin Mismatched,
                        NameIn(req'[t]) \notin disturbed',
                        NEW b \in temp', b.by = t, b.name = NameIn(req'[t])
                 PROVE  b.field \in Holding(req'[t])
      BY DEF HoldsNoMore
    <3>1. b \in temp /\ b.name \notin disturbed
      BY <1>7, <1>8
    <3>2. CASE t # s
      BY <2>4, <3>1, <3>2 DEF TempInv, HoldsNoMore, Busy
    <3>3. CASE t = s
      <4>1. b.field \in Holding(r)
        BY <1>1, <2>4, <2>5, <3>1, <3>3 DEF TempInv, HoldsNoMore
      <4>2. b.field # f
        BY <1>7, <2>4, <2>5, <3>3
      <4> QED BY <2>4, <2>6, <3>3, <4>1, <4>2
    <3> QED BY <3>2, <3>3
  <2>10. LeftBehindHasCause'
    <3> SUFFICES ASSUME NEW b \in temp'
                 PROVE  \/ Busy(b.by)' /\ NameIn(req'[b.by]) = b.name
                        \/ b.name[1] \in Mismatched
                        \/ b.name \in disturbed'
      BY DEF LeftBehindHasCause, NameOf, NameIn
    <3>1. /\ b.by \in Servers
          /\ \/ Busy(b.by) /\ NameIn(req[b.by]) = b.name
             \/ b.name[1] \in Mismatched
             \/ b.name \in disturbed
      BY <1>7, BranchOfServer
    <3>2. b.name \in disturbed => b.name \in disturbed'
      BY <1>8
    <3>3. CASE b.by = s
      BY <2>3, <2>4, <2>5, <3>1, <3>2, <3>3 DEF Busy
    <3>4. CASE b.by # s
      BY <2>4, <3>1, <3>2, <3>4 DEF Busy
    <3> QED BY <3>3, <3>4
  <2> QED BY <2>4, <2>7, <2>8, <2>9, <2>10 DEF TempInv
<1> QED BY <1>9, <1>10

-----------------------------------------------------------------------------
(* The node beside the requests.                                           *)

(* A step of the node that takes the requests and their branches as they   *)
(* are, and does not go down.                                              *)
LEMMA NodeKeepsTemp ==
    ASSUME TempInv, UNCHANGED rpcVars, pc' = "down" => pc = "down"
    PROVE  TempInv'
<1>1. req' = req /\ temp' = temp /\ disturbed' = disturbed
  BY DEF rpcVars
<1> QED BY <1>1 DEF TempInv, ReqShape, TempShape, UpForRequests, HoldsItsOwn, HoldsNoMore,
     LeftBehindHasCause, Busy, NameOf, OwnBranch

LEMMA StaysUp ==
    ASSUME \/ NodeStep /\ ~StartNew
           \/ \E p \in Proposals : Decide(p)
           \/ \E tx \in CheckTxs : Check(tx)
    PROVE  pc' = "down" => pc = "down"
<1>1. CASE BeginBlock \/ Loaded \/ EndBlock \/ StoreHash \/ StoreBlock \/ TruncateSnapshot
             \/ WriteSnapshot
  BY <1>1 DEF BeginBlock, Loaded, EndBlock, StoreHash, StoreBlock, TruncateSnapshot,
       WriteSnapshot, Goto
<1>2. CASE RemoveCheck \/ RemoveDeliver \/ CreateDeliver \/ CreateCheck \/ Merge
  BY <1>2 DEF RemoveCheck, RemoveDeliver, CreateDeliver, CreateCheck, Merge, WriteStep, Die
<1>3. CASE PrepareMain \/ PrepareDeliver \/ PrepareCheck
  BY <1>3 DEF PrepareMain, PrepareDeliver, PrepareCheck, Prepare, WriteStep, Die
<1>4. CASE Deliver
  BY <1>4 DEF Deliver
<1>5. CASE StartFromSnapshot
  BY <1>5 DEF StartFromSnapshot, Goto, Die
<1>6. CASE \E p \in Proposals : Decide(p)
  BY <1>6 DEF Decide
<1>7. CASE \E tx \in CheckTxs : Check(tx)
  BY <1>7 DEF Check, recoveryVars
<1> QED BY <1>1, <1>2, <1>3, <1>4, <1>5, <1>6, <1>7 DEF NodeStep

LEMMA CrashNodeKeeps ==
    ASSUME TempInv, CrashNode
    PROVE  TempInv'
<1>1. /\ req' = [s \in Servers |-> IdleReq]
      /\ temp' = temp
      /\ disturbed' = disturbed \cup ({NameOf(s) : s \in {t \in Servers : Busy(t)}}
                                         \cap {b.name : b \in temp})
  BY DEF CrashNode
<1>2. \A s \in Servers : ~Busy(s)'
  BY <1>1 DEF Busy
<1>3. ReqShape' /\ TempShape' /\ UpForRequests' /\ HoldsItsOwn' /\ HoldsNoMore'
  BY <1>1, <1>2 DEF TempInv, ReqShape, TempShape, UpForRequests, HoldsItsOwn, HoldsNoMore
<1>4. LeftBehindHasCause'
  <2> SUFFICES ASSUME NEW b \in temp
               PROVE  b.name[1] \in Mismatched \/ b.name \in disturbed'
    BY <1>1 DEF LeftBehindHasCause
  <2>1. CASE Busy(b.by) /\ NameIn(req[b.by]) = b.name
    <3>1. b.by \in Servers /\ NameOf(b.by) = b.name
      BY <2>1, BranchOfServer DEF NameOf, NameIn
    <3> QED BY <1>1, <2>1, <3>1
  <2>2. CASE b.name[1] \in Mismatched \/ b.name \in disturbed
    BY <1>1, <2>2
  <2> QED BY <2>1, <2>2, BranchOfServer
<1> QED BY <1>3, <1>4 DEF TempInv

(* The store of a new ledger has no branch, and no request is open.        *)
LEMMA StartNewNodeKeeps ==
    ASSUME TempInv, StartNewNode
    PROVE  TempInv'
<1>1. pc = "down" /\ req' = req /\ temp' = {}
  BY DEF StartNewNode, StartNew, Goto
<1>2. \A s \in Servers : ~Busy(s) /\ ~Busy(s)'
  BY <1>1 DEF TempInv, UpForRequests, Busy
<1> QED BY <1>1, <1>2 DEF TempInv, ReqShape, TempShape, UpForRequests, HoldsItsOwn,
     HoldsNoMore, LeftBehindHasCause

LEMMA RpcInitGood == RpcInit => TempInv
<1> SUFFICES ASSUME RpcInit PROVE TempInv
  OBVIOUS
<1>1. req = [s \in Servers |-> IdleReq] /\ temp = {}
  BY DEF RpcInit
<1>2. \A s \in Servers : ~Busy(s)
  BY <1>1 DEF Busy
<1> QED BY <1>1, <1>2 DEF TempInv, ReqShape, TempShape, UpForRequests, HoldsItsOwn,
     HoldsNoMore, LeftBehindHasCause

(* What a step of the composition is to the node.                          *)
LEMMA RpcStepIs ==
    ASSUME [RpcNext]_allVars
    PROVE  \/ /\ \/ NodeStep /\ ~StartNew
                 \/ \E p \in Proposals : Decide(p)
                 \/ \E tx \in CheckTxs : Check(tx)
              /\ ~panicked
              /\ UNCHANGED rpcVars
           \/ CrashNode /\ ~panicked
           \/ StartNewNode /\ ~panicked
           \/ \E s \in Servers, r \in Requests : Receive(s, r) /\ UNCHANGED vars
           \/ \E s \in Servers : ServeStep(s)
           \/ UNCHANGED <<vars, rpcVars>>
<1>1. CASE NodeStepBesideRequests /\ ~panicked
  <2>1. NodeStep /\ UNCHANGED rpcVars
    BY <1>1 DEF NodeStepBesideRequests, NodeStep
  <2>2. ~StartNew
    <3> SUFFICES ASSUME StartNew PROVE FALSE
      OBVIOUS
    <3>1. pc = "down" /\ pc' = "idle" /\ snapshot = NoSnapshot
      BY DEF StartNew, Goto
    <3>2. ~StartFromSnapshot
      BY <3>1 DEF StartFromSnapshot
    <3> QED BY <1>1, <3>1, <3>2 DEF NodeStepBesideRequests, BeginBlock, Loaded, EndBlock,
         StoreHash, StoreBlock, TruncateSnapshot, WriteSnapshot, Goto, RemoveCheck,
         RemoveDeliver, CreateDeliver, CreateCheck, Merge, PrepareMain, PrepareDeliver,
         PrepareCheck, Prepare, WriteStep, Deliver
  <2> QED BY <1>1, <2>1, <2>2
<1>2. CASE (\E p \in Proposals : Decide(p) /\ UNCHANGED rpcVars) /\ ~panicked
  BY <1>2
<1>3. CASE (\E tx \in CheckTxs : SendRawTransaction(tx)) /\ ~panicked
  BY <1>3 DEF SendRawTransaction
<1>4. CASE UNCHANGED allVars
  BY <1>4 DEF allVars, vars, rpcVars
<1> QED BY <1>1, <1>2, <1>3, <1>4 DEF RpcNext

LEMMA RpcStepKeepsTemp == TempInv /\ [RpcNext]_allVars => TempInv'
<1> SUFFICES ASSUME TempInv, [RpcNext]_allVars PROVE TempInv'
  OBVIOUS
<1>1. CASE /\ \/ NodeStep /\ ~StartNew
              \/ \E p \in Proposals : Decide(p)
              \/ \E tx \in CheckTxs : Check(tx)
           /\ UNCHANGED rpcVars
  BY <1>1, StaysUp, NodeKeepsTemp
<1>2. CASE CrashNode
  BY <1>2, CrashNodeKeeps
<1>3. CASE StartNewNode
  BY <1>3, StartNewNodeKeeps
<1>4. CASE \E s \in Servers, r \in Requests : Receive(s, r) /\ UNCHANGED vars
  <2>1. pc' = pc
    BY <1>4 DEF vars
  <2> QED BY <1>4, <2>1, ReceiveKeeps
<1>5. ASSUME NEW s \in Servers, ServeStep(s) PROVE TempInv'
  <2>1. pc' = pc
    BY <1>5 DEF ServeStep, vars
  <2>2. CreateRefused(s) \/ CreateField(s) \/ NameVersion(s) \/ Read(s) \/ RemoveField(s)
    BY <1>5 DEF ServeStep
  <2> QED BY <2>1, <2>2, CreateRefusedKeeps, CreateFieldKeeps, NameVersionKeeps, ReadKeeps,
       RemoveFieldKeeps
<1>6. CASE UNCHANGED <<vars, rpcVars>>
  BY <1>6, NodeKeepsTemp DEF vars
<1> QED BY <1>1, <1>2, <1>3, <1>4, <1>5, <1>6, RpcStepIs

(* The invariant of the temporary branches, wherever the node may die.     *)
THEOREM TempKept == RpcSpec => []TempInv
BY RpcInitGood, RpcStepKeepsTemp, PTL DEF RpcSpec

(* While a request reads, and until it removes it, its branch is there and *)
(* its own in every field (common/mod.rs:85-106, rpc/utils.rs:31-61).      *)
THEOREM BranchesStay == RpcSpec => []BranchStaysForItsRequest
<1>1. TempInv => BranchStaysForItsRequest
  <2> SUFFICES ASSUME TempInv, NEW s \in Servers,
                      req[s].stage \in {"version", "read", "remove"},
                      NEW i \in (IF req[s].stage = "remove" THEN req[s].at ELSE 1)
                                   ..Len(RemoveFields(req[s].method))
               PROVE  [field |-> RemoveFields(req[s].method)[i], name |-> NameOf(s),
                       by |-> s] \in temp
    BY DEF BranchStaysForItsRequest
  <2> DEFINE r == req[s]
             C == CreateFields(r.method)
             R == RemoveFields(r.method)
  <2>1. Busy(s) /\ IsRequest(r) /\ r.method \in Methods
    BY StageIs DEF TempInv, IsRequest
  <2>2. R[i] \in Holding(r)
    <3>1. CASE r.stage = "remove"
      BY <3>1 DEF Holding
    <3>2. CASE r.stage # "remove"
      <4>1. Holding(r) = {C[j] : j \in 1..Len(C)}
        BY <3>2 DEF Holding
      <4>2. i \in 1..Len(R)
        BY <3>2
      <4> QED BY <2>1, <4>1, <4>2, FieldsOfMethod
    <3> QED BY <3>1, <3>2
  <2>3. OwnBranch(s, R[i]) \in temp
    BY <2>1, <2>2 DEF TempInv, HoldsItsOwn
  <2> QED BY <2>3 DEF OwnBranch, NameOf, NameIn
<1> QED BY <1>1, TempKept, PTL

(* A branch nobody works with was left by a method that removes from       *)
(* another State than it created on, or bears a name that two requests     *)
(* wanted at once or a crash caught in use (eth.rs:511-538, 736-778).      *)
THEOREM LeftoversHaveCause == RpcSpec => []LeftBehindHasCause
<1>1. TempInv => LeftBehindHasCause
  BY DEF TempInv
<1> QED BY <1>1, TempKept, PTL

-----------------------------------------------------------------------------
(* What the requests are to the node: nothing.  The steps of the           *)
(* composition are those of Recovery, so what is proved of Recovery holds. *)

LEMMA RpcStepsAreNodeSteps ==
    ASSUME [RpcNext]_allVars
    PROVE  [Next]_vars
<1>1. CASE /\ \/ NodeStep /\ ~StartNew
              \/ \E p \in Proposals : Decide(p)
              \/ \E tx \in CheckTxs : Check(tx)
           /\ ~panicked
  BY <1>1 DEF Next
<1>2. CASE CrashNode /\ ~panicked
  BY <1>2 DEF CrashNode, Next
<1>3. CASE StartNewNode /\ ~panicked
  BY <1>3 DEF StartNewNode, Next, NodeStep
<1>4. CASE UNCHANGED vars
  BY <1>4
<1>5. CASE \E s \in Servers : ServeStep(s)
  BY <1>5 DEF ServeStep
<1> QED BY <1>1, <1>2, <1>3, <1>4, <1>5, RpcStepIs

(* The servers leave the node alone: every behaviour of the composition is *)
(* one of the node, but for the fairness (rpc/eth.rs; ethvm/mod.rs:38-91). *)
THEOREM NodeUndisturbed == RpcSpec => RecoveryInit /\ [][Next]_vars
<1>1. RpcInit => RecoveryInit
  BY DEF RpcInit
<1>2. [RpcNext]_allVars => [Next]_vars
  BY RpcStepsAreNodeSteps
<1> QED BY <1>1, <1>2, PTL DEF RpcSpec

THEOREM RecoverableBesideRequests ==
    ASSUME CrashSites \subseteq SafeSites
    PROVE  RpcSpec => []RecInv
<1>1. RecInv /\ [Next]_vars => RecInv'
  BY StepKeeps
<1> QED BY <1>1, InitGood, NodeUndisturbed, PTL

-----------------------------------------------------------------------------
(* What a request carries, and what it reads.                              *)

LEMMA GenesisIsState == GenesisState \in EvmState
BY GenesisGood DEF GoodState

LEMMA MergedIs ==
    ASSUME RecInv
    PROVE  /\ Merged \in Nat
           /\ Merged =< Len(decided)
           /\ View(vs, Main) = At(decided, Merged).state
           /\ View(vs, Main) \in EvmState
           /\ Published \in Nat
           /\ Published =< Merged
<1> DEFINE L == LastBlockHeight
           K == LastKey(blockHashes)
<1>1. /\ L \in Nat /\ L =< Len(decided) /\ Len(decided) \in Nat
      /\ decided \in Seq(Proposal)
      /\ pc \in Storing => L < Len(decided)
  <2>1. L \in Nat /\ L =< Len(decided) /\ Len(decided) \in Nat /\ decided \in Seq(Proposal)
    BY LastBlockIs, DecidedChain DEF RecInv, RecFiles, RecBlocks
  <2>2. pc \in Storing => L < Len(decided)
    BY DEF RecInv, RecControl, Executing
  <2> QED BY <2>1, <2>2
<1>2. Merged = IF pc \in Storing THEN L + 1 ELSE L + 0
  BY DEF Merged, Storing
<1>3. Merged \in Nat /\ Merged =< Len(decided)
  BY <1>1, <1>2
<1>4. View(vs, Main) = At(decided, Merged).state
  BY <1>1, <1>2 DEF RecInv, RecState
<1>5. View(vs, Main) \in EvmState
  BY <1>1, <1>3, <1>4, AtType DEF GoodState
<1>6. K = IF pc = "storeBlock" THEN L + 1 ELSE L
  <2>1. DOMAIN blockHashes = 1..(IF pc = "storeBlock" THEN L + 1 ELSE L)
    BY DEF RecInv, RecFiles, RecBlocks
  <2> QED BY <1>1, <2>1, LastKeyOfInterval
<1>7. Published \in Nat /\ Published =< Merged
  <2>1. Published = IF K > L THEN K ELSE L
    BY DEF Published
  <2>2. pc = "storeBlock" => pc \in Storing
    BY DEF Storing
  <2> QED BY <1>1, <1>2, <1>6, <2>1, <2>2
<1> QED BY <1>3, <1>4, <1>5, <1>7

LEMMA HeightIs ==
    ASSUME RecInv, NEW r \in Requests, HeightFor(r) > 0
    PROVE  HeightFor(r) \in Nat \ {0}
<1> DEFINE hashes == IF r.method \in EvmMethods THEN blockHashes ELSE HeaderHashes
<1>1. PICK n \in Nat : DOMAIN hashes = 1..n
  <2>1. LastBlockHeight \in Nat /\ DOMAIN blocks = 1..LastBlockHeight
    BY DEF RecInv, RecFiles, RecBlocks
  <2>2. DOMAIN blockHashes =
          1..(IF pc = "storeBlock" THEN LastBlockHeight + 1 ELSE LastBlockHeight)
    BY DEF RecInv, RecFiles, RecBlocks
  <2>3. DOMAIN HeaderHashes = 1..LastBlockHeight
    BY <2>1 DEF HeaderHashes
  <2>4. LastBlockHeight + 1 \in Nat
    BY <2>1
  <2> QED BY <2>1, <2>2, <2>3, <2>4
<1>2. HeightFor(r) = BlockNumberToHeight(r.bn, hashes)
  BY DEF HeightFor
<1> HIDE DEF hashes
<1>3. r.bn \in BlockNumber
  BY RpcAssumption
<1>4. CASE r.bn.tag = "num"
  <2>1. r.bn.num \in Nat
    BY <1>3, <1>4 DEF BlockNumber, Latest, Earliest, Pending
  <2> QED BY <1>2, <1>4, <2>1 DEF BlockNumberToHeight
<1>5. CASE r.bn.tag = "hash"
  <2> DEFINE found == {h \in DOMAIN hashes : hashes[h] = r.bn.hash}
  <2>1. HeightFor(r) = IF found = {} THEN 0 ELSE Min(found)
    BY <1>2, <1>5 DEF BlockNumberToHeight, HeightOfHash
  <2>2. found \subseteq 1..n
    BY <1>1
  <2> HIDE DEF found
  <2>3. found # {} => Min(found) \in Nat
    <3>1. found \subseteq Nat
      BY <2>2
    <3> QED BY <3>1, MinOfSet
  <2> QED BY <2>1, <2>3
<1>6. CASE r.bn.tag = "latest"
  BY <1>1, <1>2, <1>6, LastKeyOfInterval DEF BlockNumberToHeight
<1>7. CASE r.bn.tag = "earliest"
  BY <1>2, <1>7 DEF BlockNumberToHeight
<1>8. CASE r.bn.tag = "pending"
  BY <1>2, <1>8 DEF BlockNumberToHeight
<1>9. r.bn.tag \in {"num", "hash", "latest", "earliest", "pending"}
  BY <1>3 DEF BlockNumber, Latest, Earliest, Pending
<1> QED BY <1>4, <1>5, <1>6, <1>7, <1>8, <1>9

LEMMA StoreBlockGrows ==
    ASSUME RecInv, RecInv', StoreBlock
    PROVE  Merged' = Merged
<1> DEFINE L == LastBlockHeight
           h == sb[Main].block.height
<1>1. /\ pc = "storeBlock" /\ pc' = "truncate"
      /\ blocks' = Insert(blocks, h, sb[Main].block)
  BY DEF StoreBlock, Goto
<1>2. h = L + 1 /\ L \in Nat
  BY <1>1, LastBlockIs DEF RecInv, RecRecord, Storing, RecFiles
<1>3. DOMAIN blocks' = 1..L \cup {L + 1}
  <2>1. DOMAIN blocks = 1..L
    BY DEF RecInv, RecFiles, RecBlocks
  <2> HIDE DEF L, h
  <2> QED BY <1>1, <1>2, <2>1 DEF Insert
<1>4. DOMAIN blocks' = 1..(L + 1) /\ L + 1 \in Nat
  BY <1>2, <1>3
<1>5. LastBlockHeight' = L + 1
  BY <1>4, LastKeyOfInterval DEF LastBlockHeight
<1> QED BY <1>1, <1>2, <1>5 DEF Merged

(* No block is taken back while a request is open.                         *)
LEMMA MergedGrows ==
    ASSUME RecInv, RecInv', pc # "down",
           \/ NodeStep /\ ~StartNew
           \/ \E p \in Proposals : Decide(p)
           \/ \E tx \in CheckTxs : Check(tx)
    PROVE  Merged =< Merged'
<1>1. Merged \in Nat /\ LastBlockHeight \in Nat
  BY MergedIs DEF RecInv, RecFiles, RecBlocks
<1>2. ASSUME blocks' = blocks, pc \in Storing => pc' \in Storing
      PROVE  Merged =< Merged'
  <2>1. LastBlockHeight' = LastBlockHeight
    BY <1>2, SameLedger
  <2>2. Merged = LastBlockHeight + (IF pc \in Storing THEN 1 ELSE 0)
    BY DEF Merged, Storing
  <2>3. Merged' = LastBlockHeight + (IF pc' \in Storing THEN 1 ELSE 0)
    BY <2>1 DEF Merged, Storing
  <2> QED BY <1>1, <1>2, <2>2, <2>3
<1>3. pc' # "dead"
  BY DEF RecInv, RecFiles, RecTypes, Sites, Refreshing, Preparing, Storing, Saving
<1>4. CASE BeginBlock \/ Loaded \/ EndBlock \/ StoreHash \/ TruncateSnapshot \/ WriteSnapshot
  BY <1>2, <1>4 DEF BeginBlock, Loaded, EndBlock, StoreHash, TruncateSnapshot, WriteSnapshot,
       Goto, ledgerVars, Storing
<1>5. CASE RemoveCheck \/ RemoveDeliver \/ CreateDeliver \/ CreateCheck \/ Merge
  <2>1. blocks' = blocks
    BY <1>3, <1>5 DEF RemoveCheck, RemoveDeliver, CreateDeliver, CreateCheck, Merge,
         WriteStep, Die
  <2>2. pc \notin Storing
    BY <1>5 DEF RemoveCheck, RemoveDeliver, CreateDeliver, CreateCheck, Merge, WriteStep,
         Storing
  <2> QED BY <1>2, <2>1, <2>2
<1>6. CASE PrepareMain \/ PrepareDeliver \/ PrepareCheck
  <2>1. blocks' = blocks
    BY <1>3, <1>6 DEF PrepareMain, PrepareDeliver, PrepareCheck, Prepare, WriteStep, Die
  <2>2. pc \notin Storing
    BY <1>6 DEF PrepareMain, PrepareDeliver, PrepareCheck, Prepare, WriteStep, Storing
  <2> QED BY <1>2, <2>1, <2>2
<1>7. CASE Deliver
  BY <1>2, <1>7 DEF Deliver, ApplyTx, TxRejected, TxFailed, TxApplied, Panic
<1>8. CASE StoreBlock
  BY <1>1, <1>8, StoreBlockGrows
<1>9. CASE StartFromSnapshot
  BY <1>9 DEF StartFromSnapshot, Goto
<1>10. CASE \E p \in Proposals : Decide(p)
  BY <1>2, <1>10 DEF Decide, ledgerVars
<1>11. CASE \E tx \in CheckTxs : Check(tx)
  BY <1>2, <1>11 DEF Check, ApplyTx, TxRejected, TxFailed, TxApplied, Panic, recoveryVars
<1> QED BY <1>4, <1>5, <1>6, <1>7, <1>8, <1>9, <1>10, <1>11 DEF NodeStep

(* A request of a height above 0 reads no older a state than was published *)
(* when it came in.                                                        *)
IsAnswerable(r) ==
    /\ r.height \in Nat \ {0}
    /\ r.since \in Nat
    /\ r.since =< Merged
    /\ r.seen \in EvmState

Answerable == \A s \in Servers : Busy(s) => IsAnswerable(req[s])

(* A step of a server is about its own request, and reads what is merged.  *)
LEMMA ServeStepIs ==
    ASSUME TempInv, NEW s \in Servers, ServeStep(s)
    PROVE  /\ \A t \in Servers \ {s} : req'[t] = req[t]
           /\ Busy(s)
           /\ Busy(s)' =>
                /\ req'[s].height = req[s].height
                /\ req'[s].since \in {req[s].since, 0}
                /\ req'[s].seen \in {req[s].seen, View(vs, Main)}
                /\ req[s].stage = "read" => req'[s].seen = View(vs, Main)
<1> DEFINE r == req[s]
           D == DefaultBranchState
<1>1. req = [t \in Servers |-> req[t]]
  BY DEF TempInv, ReqShape
<1>2. r.stage \in {"create", "version", "read", "remove"}
  BY DEF ServeStep, CreateRefused, CreateField, NameVersion, Read, RemoveField
<1>3. Busy(s) /\ IsRequest(r)
  BY <1>2, StageIs DEF TempInv
<1>4. r = With(r.stage, r.method, r.height, r.since, r.at, r.seen)
  BY <1>3 DEF IsRequest, With
<1>5. D = View(vs, Main)
  BY DEF DefaultBranchState
<1> HIDE DEF D
<1>6. CASE req' = [req EXCEPT ![s] = IdleReq]
  <2>1. ~Busy(s)' /\ \A t \in Servers \ {s} : req'[t] = req[t]
    BY <1>1, <1>6 DEF Busy
  <2> QED BY <1>3, <2>1
<1>7. CASE /\ req' = [req EXCEPT ![s].at = r.at + 1]
           /\ r.stage # "read"
  <2>1. /\ req'[s] = [r EXCEPT !.at = r.at + 1]
        /\ \A t \in Servers \ {s} : req'[t] = req[t]
    BY <1>1, <1>7
  <2> HIDE DEF r
  <2>2. req'[s] = With(r.stage, r.method, r.height, r.since, r.at + 1, r.seen)
    BY <1>4, <2>1 DEF With
  <2> QED BY <1>3, <1>7, <2>1, <2>2 DEF With, r
<1>8. CASE req' = [req EXCEPT ![s].stage = "version"] /\ r.stage # "read"
  <2>1. /\ req'[s] = [r EXCEPT !.stage = "version"]
        /\ \A t \in Servers \ {s} : req'[t] = req[t]
    BY <1>1, <1>8
  <2> HIDE DEF r
  <2>2. req'[s] = With("version", r.method, r.height, r.since, r.at, r.seen)
    BY <1>4, <2>1 DEF With
  <2> QED BY <1>3, <1>8, <2>1, <2>2 DEF With, r
<1>9. CASE req' = [req EXCEPT ![s].stage = "read", ![s].at = 1] /\ r.stage # "read"
  <2> DEFINE r1 == [r EXCEPT !.stage = "read"]
  <2>1. /\ req'[s] = [r1 EXCEPT !.at = 1]
        /\ \A t \in Servers \ {s} : req'[t] = req[t]
    BY <1>1, <1>9
  <2> HIDE DEF r
  <2>2. r1 = With("read", r.method, r.height, r.since, r.at, r.seen)
    BY <1>4 DEF With
  <2> HIDE DEF r1
  <2>3. req'[s] = With("read", r.method, r.height, r.since, 1, r.seen)
    BY <2>1, <2>2 DEF With
  <2>4. req[s].stage # "read"
    BY <1>9 DEF r
  <2> QED BY <1>3, <2>1, <2>3, <2>4 DEF With, r
<1>10. CASE req' = [req EXCEPT ![s].at = r.at + 1, ![s].seen = D]
  <2> DEFINE r1 == [r EXCEPT !.at = r.at + 1]
  <2>1. /\ req'[s] = [r1 EXCEPT !.seen = D]
        /\ \A t \in Servers \ {s} : req'[t] = req[t]
    BY <1>1, <1>10
  <2> HIDE DEF r
  <2>2. r1 = With(r.stage, r.method, r.height, r.since, r.at + 1, r.seen)
    BY <1>4 DEF With
  <2> HIDE DEF r1
  <2>3. req'[s] = With(r.stage, r.method, r.height, r.since, r.at + 1, D)
    BY <2>1, <2>2 DEF With
  <2> QED BY <1>3, <1>5, <2>1, <2>3 DEF With, r
<1>11. CASE req' = [req EXCEPT ![s].stage = "remove", ![s].at = 1, ![s].since = 0,
                               ![s].seen = D]
  <2> DEFINE r1 == [r EXCEPT !.stage = "remove"]
             r2 == [r1 EXCEPT !.at = 1]
             r3 == [r2 EXCEPT !.since = 0]
  <2>1. /\ req'[s] = [r3 EXCEPT !.seen = D]
        /\ \A t \in Servers \ {s} : req'[t] = req[t]
    BY <1>1, <1>11
  <2> HIDE DEF r
  <2>2. r1 = With("remove", r.method, r.height, r.since, r.at, r.seen)
    BY <1>4 DEF With
  <2> HIDE DEF r1
  <2>3. r2 = With("remove", r.method, r.height, r.since, 1, r.seen)
    BY <2>2 DEF With
  <2> HIDE DEF r2
  <2>4. r3 = With("remove", r.method, r.height, 0, 1, r.seen)
    BY <2>3 DEF With
  <2> HIDE DEF r3
  <2>5. req'[s] = With("remove", r.method, r.height, 0, 1, D)
    BY <2>1, <2>4 DEF With
  <2> QED BY <1>3, <1>5, <2>1, <2>5 DEF With, r
<1>12. CASE CreateRefused(s)
  BY <1>6, <1>12 DEF CreateRefused, AnswerAndIdle
<1>13. CASE CreateField(s)
  BY <1>7, <1>8, <1>13 DEF CreateField
<1>14. CASE NameVersion(s)
  BY <1>6, <1>9, <1>14 DEF NameVersion, AnswerAndIdle
<1>15. CASE Read(s)
  BY <1>6, <1>10, <1>11, <1>15 DEF Read, AnswerAndIdle, D
<1>16. CASE RemoveField(s)
  BY <1>6, <1>7, <1>16 DEF RemoveField, AnswerAndIdle
<1> QED BY <1>12, <1>13, <1>14, <1>15, <1>16 DEF ServeStep

LEMMA AnswerableKept ==
    ASSUME TempInv, RecInv, RecInv', Answerable, [RpcNext]_allVars
    PROVE  Answerable'
<1>1. \A s \in Servers : Busy(s) => pc # "down"
  BY DEF TempInv, UpForRequests
<1>2. CASE /\ \/ NodeStep /\ ~StartNew
              \/ \E p \in Proposals : Decide(p)
              \/ \E tx \in CheckTxs : Check(tx)
           /\ UNCHANGED rpcVars
  <2> SUFFICES ASSUME NEW s \in Servers, Busy(s)' PROVE IsAnswerable(req[s])'
    BY DEF Answerable
  <2>1. req' = req /\ Busy(s)
    BY <1>2 DEF rpcVars, Busy
  <2>2. Merged =< Merged' /\ Merged \in Nat /\ Merged' \in Nat
    <3>1. Merged \in Nat
      BY MergedIs
    <3>2. Merged' \in Int
      <4>1. LastBlockHeight' \in Nat
        BY DEF RecInv, RecFiles, RecBlocks
      <4> QED BY <4>1 DEF Merged
    <3>3. Merged =< Merged'
      BY <1>1, <1>2, <2>1, MergedGrows
    <3> QED BY <3>1, <3>2, <3>3
  <2>3. IsAnswerable(req[s])
    BY <2>1 DEF Answerable
  <2> QED BY <2>1, <2>2, <2>3 DEF IsAnswerable
<1>3. CASE CrashNode
  BY <1>3 DEF CrashNode, Answerable, Busy
<1>4. CASE StartNewNode
  <2>1. pc = "down" /\ req' = req
    BY <1>4 DEF StartNewNode, StartNew, Goto
  <2> QED BY <1>1, <2>1 DEF Answerable, Busy
<1>5. ASSUME NEW s \in Servers, NEW r \in Requests, Receive(s, r), UNCHANGED vars
      PROVE Answerable'
  <2> DEFINE q == [stage |-> "create", method |-> r.method, height |-> HeightFor(r),
                   since |-> Published, at |-> 1, seen |-> GenesisState]
  <2>1. /\ req' = [req EXCEPT ![s] = q] /\ HeightFor(r) > 0
        /\ req = [t \in Servers |-> req[t]]
        /\ Merged' = Merged
    BY <1>5 DEF Receive, vars, TempInv, ReqShape, Merged, LastBlockHeight
  <2>2. /\ q.height = HeightFor(r) /\ q.since = Published /\ q.seen = GenesisState
        /\ HeightFor(r) \in Nat \ {0}
        /\ Published \in Nat /\ Published =< Merged
    BY <2>1, HeightIs, MergedIs
  <2> HIDE DEF q
  <2>3. req'[s] = q /\ \A t \in Servers \ {s} : req'[t] = req[t]
    BY <2>1
  <2>4. \A t \in Servers \ {s} : Busy(t)' => IsAnswerable(req[t])
    BY <2>3 DEF Answerable, Busy
  <2> QED BY <2>1, <2>2, <2>3, <2>4, GenesisIsState DEF Answerable, IsAnswerable
<1>6. ASSUME NEW s \in Servers, ServeStep(s)
      PROVE Answerable'
  <2> SUFFICES ASSUME NEW t \in Servers, Busy(t)' PROVE IsAnswerable(req[t])'
    BY DEF Answerable
  <2>1. Merged' = Merged
    BY <1>6 DEF ServeStep, vars, Merged, LastBlockHeight
  <2>2. Merged \in Nat /\ View(vs, Main) \in EvmState
    BY MergedIs
  <2>3. CASE t # s
    <3>1. req'[t] = req[t] /\ Busy(t)
      BY <1>6, <2>3, ServeStepIs DEF Busy
    <3> QED BY <2>1, <3>1 DEF Answerable, IsAnswerable
  <2>4. CASE t = s
    <3>1. /\ Busy(s)
          /\ req'[s].height = req[s].height
          /\ req'[s].since \in {req[s].since, 0}
          /\ req'[s].seen \in {req[s].seen, View(vs, Main)}
      BY <1>6, <2>4, ServeStepIs
    <3>2. IsAnswerable(req[s])
      BY <3>1 DEF Answerable
    <3> QED BY <2>1, <2>2, <2>4, <3>1, <3>2 DEF IsAnswerable
  <2> QED BY <2>3, <2>4
<1>7. CASE UNCHANGED <<vars, rpcVars>>
  BY <1>7 DEF vars, rpcVars, Answerable, IsAnswerable, Busy, Merged, LastBlockHeight
<1> QED BY <1>2, <1>3, <1>4, <1>5, <1>6, <1>7, RpcStepIs

THEOREM AnswerableAlways ==
    ASSUME CrashSites \subseteq SafeSites
    PROVE  RpcSpec => []Answerable
<1>1. RpcInit => Answerable
  <2> SUFFICES ASSUME RpcInit PROVE Answerable
    OBVIOUS
  <2>1. req = [s \in Servers |-> IdleReq]
    BY DEF RpcInit
  <2> QED BY <2>1 DEF Answerable, Busy
<1>2. TempInv /\ RecInv /\ RecInv' /\ Answerable /\ [RpcNext]_allVars => Answerable'
  BY AnswerableKept
<1> QED BY <1>1, <1>2, TempKept, RecoverableBesideRequests, PTL DEF RpcSpec

(* The requests keep their types, beside a node that dies at safe sites.   *)
THEOREM RpcTypes ==
    ASSUME CrashSites \subseteq SafeSites
    PROVE  RpcSpec => []RpcTypeOK
<1>1. TempInv /\ Answerable => RpcTypeOK
  <2> SUFFICES ASSUME TempInv, Answerable PROVE RpcTypeOK
    OBVIOUS
  <2>1. ASSUME NEW s \in Servers, req[s] # IdleReq
        PROVE  /\ req[s].stage \in {"create", "version", "read", "remove"}
               /\ req[s].method \in Methods
               /\ req[s].height \in Nat \ {0}
               /\ req[s].since \in Nat
               /\ req[s].at \in 1..3
               /\ req[s].seen \in EvmState
    BY <2>1 DEF TempInv, ReqShape, Busy, IsRequest, Answerable, IsAnswerable
  <2>2. {"chain", "gas", "fuel"} \subseteq Range(LedgerFields)
    <3>1. /\ LedgerFields[1] = "chain" /\ LedgerFields[2] = "gas" /\ LedgerFields[3] = "fuel"
          /\ DOMAIN LedgerFields = 1..3
      BY DEF LedgerFields
    <3> QED BY <3>1 DEF Range
  <2>3. \A b \in temp : b.field \in Range(LedgerFields) /\ b.by \in Servers
    BY <2>2 DEF TempInv, TempShape
  <2>4. \A b, c \in temp : b.field = c.field /\ b.name = c.name => b = c
    BY DEF TempInv, TempShape
  <2> QED BY <2>1, <2>3, <2>4 DEF RpcTypeOK
<1> QED BY <1>1, TempKept, AnswerableAlways, PTL

(* A read returns the state after a whole number of decided blocks, not    *)
(* fewer than were published when the request came in: nothing of a block  *)
(* in process or of a mempool check (eth.rs:65-70; ethvm/mod.rs:62-79).    *)
THEOREM ReadsCommitted ==
    ASSUME CrashSites \subseteq SafeSites
    PROVE  RpcSpec => AnswersAreCommitted
<1>1. ASSUME TempInv, RecInv, Answerable, [RpcNext]_allVars, NEW s \in Servers,
             req[s].stage = "read", req'[s] # req[s], req'[s] # IdleReq
      PROVE  \E n \in req[s].since..Merged : req'[s].seen = Replay(n).state
  <2>1. Busy(s)
    BY <1>1, StageIs DEF TempInv
  <2>2. ASSUME NEW t \in Servers, ServeStep(t)
        PROVE  req'[s].seen = View(vs, Main)
    <3>1. t = s
      BY <1>1, <2>2, ServeStepIs
    <3> QED BY <1>1, <2>2, <3>1, ServeStepIs DEF Busy
  <2>3. ASSUME NEW t \in Servers, NEW r \in Requests, Receive(t, r)
        PROVE  FALSE
    BY <1>1, <2>1, <2>3 DEF Receive
  <2>4. \E t \in Servers : ServeStep(t)
    <3>1. ~UNCHANGED <<vars, rpcVars>>
      BY <1>1 DEF rpcVars
    <3>2. ~UNCHANGED rpcVars
      BY <1>1 DEF rpcVars
    <3>3. ~CrashNode /\ ~StartNewNode
      BY <1>1 DEF CrashNode, StartNewNode
    <3> QED BY <1>1, <2>3, <3>1, <3>2, <3>3, RpcStepIs
  <2>5. req'[s].seen = View(vs, Main)
    BY <2>2, <2>4
  <2>6. /\ Merged \in Nat
        /\ View(vs, Main) = Replay(Merged).state
        /\ req[s].since \in Nat /\ req[s].since =< Merged
    BY <1>1, <2>1, MergedIs, ReplayIsAt DEF Answerable, IsAnswerable
  <2>7. Merged \in req[s].since..Merged
    BY <2>6
  <2> QED BY <2>5, <2>6, <2>7
<1>2. TempInv /\ RecInv /\ Answerable /\ [RpcNext]_allVars =>
        [\A s \in Servers :
           req[s].stage = "read" /\ req'[s] # req[s] /\ req'[s] # IdleReq =>
              \E n \in req[s].since..Merged : req'[s].seen = Replay(n).state]_allVars
  BY <1>1
<1> QED BY <1>2, TempKept, RecoverableBesideRequests, AnswerableAlways, PTL
     DEF RpcSpec, AnswersAreCommitted
-----------------------------------------------------------------------------
(* The chain a query looks at: each height has one block, each hash one    *)
(* height, and each transaction one place.                                 *)

LEMMA ChainBesideRequests ==
    ASSUME CrashSites \subseteq SafeSites
    PROVE  RpcSpec => [](RecInv /\ ChainInv)
<1>1. RecInv /\ RecInv' /\ ChainInv /\ [Next]_vars => ChainInv'
  BY ChainStep
<1> QED BY <1>1, ChainInit, RecoverableBesideRequests, NodeUndisturbed, PTL

LEMMA OneElement ==
    ASSUME NEW n \in Nat
    PROVE  Min({n}) = n /\ Max({n}) = n
<1>1. Min({n}) = n
  BY DEF Min
<1>2. Max({n}) = n
  BY DEF Max
<1> QED BY <1>1, <1>2

LEMMA ChainIs ==
    ASSUME RecInv, ChainInv
    PROVE  /\ LastBlockHeight \in Nat
           /\ DOMAIN blocks = 1..LastBlockHeight
           /\ DOMAIN HeaderHashes = 1..LastBlockHeight
           /\ pc # "storeBlock" => DOMAIN blockHashes = 1..LastBlockHeight
           /\ \A h \in 1..LastBlockHeight :
                 /\ HeaderHashes[h] = blocks[h].hash
                 /\ blockHashes[h] = blocks[h].hash
                 /\ blocks[h].txs \in Seq(Txs)
                 /\ DOMAIN blocks[h].txs = 1..Len(blocks[h].txs)
                 /\ Len(blocks[h].txs) \in Nat
                 /\ BlockReceipts(blocks[h])
                 /\ \A i \in 1..Len(blocks[h].txs) :
                       blocks[h].txs[i] \in Txs /\ blocks[h].txs[i].kind = "evm"
                 /\ h > 1 => h - 1 \in 1..LastBlockHeight
                             /\ blocks[h].prev = blocks[h - 1].hash
           /\ \A h, k \in 1..LastBlockHeight :
                 /\ h # k => Apart(blocks[h].txs, blocks[k].txs)
                 /\ blocks[h].hash = blocks[k].hash => h = k
<1> DEFINE L == LastBlockHeight
<1>1. /\ L \in Nat /\ DOMAIN blocks = 1..L
      /\ DOMAIN HeaderHashes = 1..L
      /\ pc # "storeBlock" => DOMAIN blockHashes = 1..L
      /\ \A h \in 1..L : blocks[h] \in Block /\ blocks[h].height = h
  BY DEF RecInv, RecFiles, RecBlocks, HeaderHashes
<1>2. \A h \in 1..L :
         /\ SealedOn(blocks[h], IF h = 1 THEN <<>> ELSE blocks[h - 1].hash)
         /\ blockHashes[h] = blocks[h].hash
         /\ \A k \in 1..L : k # h => Apart(blocks[h].txs, blocks[k].txs)
  BY <1>1 DEF ChainInv, ChainBlocks
<1>3. \A h \in 1..L : HeaderHashes[h] = blocks[h].hash
  BY <1>1 DEF HeaderHashes
<1>4. ASSUME NEW h \in 1..L
      PROVE  /\ blocks[h].txs \in Seq(Txs)
             /\ DOMAIN blocks[h].txs = 1..Len(blocks[h].txs)
             /\ Len(blocks[h].txs) \in Nat
             /\ BlockReceipts(blocks[h])
             /\ \A i \in 1..Len(blocks[h].txs) :
                   blocks[h].txs[i] \in Txs /\ blocks[h].txs[i].kind = "evm"
             /\ h > 1 => h - 1 \in 1..L /\ blocks[h].prev = blocks[h - 1].hash
  <2>1. blocks[h].txs \in Seq(Txs)
    BY <1>1 DEF Block
  <2>2. /\ DOMAIN blocks[h].txs = 1..Len(blocks[h].txs)
        /\ Len(blocks[h].txs) \in Nat
        /\ \A i \in 1..Len(blocks[h].txs) : blocks[h].txs[i] \in Txs
    BY <2>1, LenProperties, ElementOfSeq
  <2>3. BlockReceipts(blocks[h]) /\ \A tx \in Range(blocks[h].txs) : tx.kind = "evm"
    BY <1>2 DEF SealedOn
  <2>4. \A i \in 1..Len(blocks[h].txs) : blocks[h].txs[i].kind = "evm"
    BY <2>2, <2>3 DEF Range
  <2>5. h > 1 => h - 1 \in 1..L /\ blocks[h].prev = blocks[h - 1].hash
    BY <1>1, <1>2 DEF SealedOn
  <2> QED BY <2>1, <2>2, <2>3, <2>4, <2>5
<1>5. ASSUME NEW h \in 1..L
      PROVE  blocks[h].hash[Len(blocks[h].hash)].height = h
  <2> DEFINE header == [height |-> blocks[h].height, proposer |-> blocks[h].proposer,
                        time |-> blocks[h].time, root |-> blocks[h].root,
                        receipts |-> blocks[h].receipts]
  <2>1. header \in Header /\ blocks[h].prev \in Seq(Header)
    BY <1>1 DEF Block, Header, Hash
  <2>2. blocks[h].hash = Append(blocks[h].prev, header)
    BY <1>2 DEF SealedOn, HeaderHash
  <2>3. header.height = h
    BY <1>1
  <2> HIDE DEF header
  <2> QED BY <2>1, <2>2, <2>3, AppendProperties
<1>6. \A h, k \in 1..L : blocks[h].hash = blocks[k].hash => h = k
  BY <1>5
<1> QED BY <1>1, <1>2, <1>3, <1>4, <1>6

LEMMA HashNamesBlock ==
    ASSUME RecInv, ChainInv, NEW h \in 1..LastBlockHeight
    PROVE  /\ {k \in DOMAIN blocks : blocks[k].hash = blocks[h].hash} = {h}
           /\ HeightOfHash(HeaderHashes, blocks[h].hash) = h
           /\ pc # "storeBlock" => HeightOfHash(blockHashes, blocks[h].hash) = h
           /\ Min({h}) = h /\ Max({h}) = h
<1> DEFINE L == LastBlockHeight
           hash == blocks[h].hash
<1>1. /\ L \in Nat /\ DOMAIN blocks = 1..L /\ DOMAIN HeaderHashes = 1..L
      /\ pc # "storeBlock" => DOMAIN blockHashes = 1..L
      /\ \A k \in 1..L : /\ HeaderHashes[k] = blocks[k].hash
                         /\ blockHashes[k] = blocks[k].hash
  BY ChainIs
<1>2. \A k \in 1..L : blocks[k].hash = hash <=> k = h
  BY ChainIs
<1> HIDE DEF L, hash
<1>3. h \in 1..L
  BY DEF L
<1>4. /\ {k \in DOMAIN blocks : blocks[k].hash = hash} = {h}
      /\ {k \in DOMAIN HeaderHashes : HeaderHashes[k] = hash} = {h}
      /\ pc # "storeBlock" => {k \in DOMAIN blockHashes : blockHashes[k] = hash} = {h}
  BY <1>1, <1>2, <1>3
<1>5. Min({h}) = h /\ Max({h}) = h
  BY <1>1, <1>3, OneElement
<1> QED BY <1>4, <1>5 DEF HeightOfHash, hash

LEMMA AnswersDiffer ==
    ASSUME NEW value
    PROVE  /\ Answer(value) # Failed /\ Answer(value) # Nothing /\ Failed # Nothing
           /\ Answer(value).value = value
BY DEF Answer, Failed, Nothing

(* A transaction of a stored block has its Web3 form.                      *)
LEMMA TxInBlock ==
    ASSUME RecInv, ChainInv, NEW h \in 1..LastBlockHeight, NEW i \in 1..Len(blocks[h].txs)
    PROVE  /\ blocks[h].receipts[blocks[h].txs[i]] =
                 [index |-> i - 1, gas |-> blocks[h].txs[i].gas,
                  blockGas |-> TxGas(blocks[h].txs)]
           /\ TxAt(blocks[h], h, i) =
                 Answer([hash |-> blocks[h].txs[i], blockHash |-> blocks[h].hash,
                         blockNumber |-> h, index |-> i - 1,
                         from |-> blocks[h].txs[i].from, value |-> blocks[h].txs[i].value])
<1> DEFINE tx == blocks[h].txs[i]
<1>1. BlockReceipts(blocks[h]) /\ tx.kind = "evm"
  BY ChainIs
<1>2. blocks[h].receipts[tx] =
         [index |-> i - 1, gas |-> tx.gas, blockGas |-> TxGas(blocks[h].txs)]
  BY <1>1 DEF BlockReceipts
<1>3. blocks[h].receipts[tx] # NoReceipt
  BY <1>2, ReceiptIsOne
<1>4. tx.kind # "native"
  BY <1>1
<1> QED BY <1>2, <1>3, <1>4 DEF TxAt, TxToWeb3Tx

(* Of answers that are all there, all are pushed.                          *)
LEMMA PushedAll ==
    ASSUME NEW n \in Nat, NEW answers, DOMAIN answers = 1..n,
           \A i \in 1..n : answers[i] # Nothing
    PROVE  Len(Pushed(answers)) = n
<1> DEFINE W == {answers[i].value : i \in 1..n}
           H == [p \in Seq(W) \X (1..n) |-> Append(p[1], answers[p[2]].value)]
           rhs(h) == [t \in SUBSET (DOMAIN answers) |->
                        IF t = {} THEN <<>>
                        ELSE IF answers[Max(t)] = Nothing THEN h[t \ {Max(t)}]
                        ELSE Append(h[t \ {Max(t)}], answers[Max(t)].value)]
           iter == CHOOSE h : h = rhs(h)
<1>1. Pushed(answers) = iter[DOMAIN answers]
  BY DEF Pushed, FoldLeft, MapThenFoldSet
<1>2. \A i \in 1..n : answers[i].value \in W
  OBVIOUS
<1> HIDE DEF W
<1>3. \A s \in Seq(W), k \in 1..n :
         /\ Append(s, answers[k].value) \in Seq(W)
         /\ Len(Append(s, answers[k].value)) = Len(s) + 1
  BY <1>2, AppendProperties
<1>4. <<>> \in Seq(W) /\ Len(<<>>) = 0
  BY EmptySeq
<1>5. /\ H \in [Seq(W) \X (1..n) -> Seq(W)]
      /\ \A s \in Seq(W), k \in 1..n : H[<<s, k>>] = Append(s, answers[k].value)
  BY <1>3
<1> HIDE DEF H
<1>6. PICK g \in [SUBSET (1..n) -> Seq(W)] :
           \A t \in SUBSET (1..n) :
               g[t] = IF t = {} THEN <<>> ELSE H[<<g[t \ {Max(t)}], Max(t)>>]
  <2>1. FoldByMaxDefined(n, Seq(W), <<>>, H)
    BY <1>4, <1>5, FoldByMaxExists
  <2> QED BY <2>1 DEF FoldByMaxDefined
<1>7. \A t \in SUBSET (1..n) : t # {} => Max(t) \in 1..n
  BY MaxOfSubset
<1>8. \A t \in SUBSET (1..n) :
         t # {} => g[t] = Append(g[t \ {Max(t)}], answers[Max(t)].value)
  BY <1>5, <1>6, <1>7
<1>9. g = rhs(g)
  BY <1>6, <1>7, <1>8
<1>10. iter = rhs(iter)
  <2> HIDE DEF rhs
  <2> QED BY <1>9
<1>11. FoldsByMax(iter, n, Seq(W), <<>>, H)
  <2> HIDE DEF iter
  <2>1. iter[{}] = <<>>
    BY <1>10
  <2>2. \A t \in SUBSET (1..n) :
           t # {} => iter[t] = Append(iter[t \ {Max(t)}], answers[Max(t)].value)
    BY <1>7, <1>10
  <2> QED BY <1>5, <1>7, <2>1, <2>2 DEF FoldsByMax
<1> HIDE DEF iter
<1>12. FoldLeftIs(n, Seq(W), <<>>, H, iter[1..n])
  BY <1>4, <1>5, <1>11, FoldByPrefixes
<1>13. PICK F : FoldsLeft(F, n, Seq(W), <<>>, H) /\ F[n] = Pushed(answers)
  BY <1>1, <1>12 DEF FoldLeftIs
<1> DEFINE N == {k \in Nat : k =< n => Len(F[k]) = k}
<1>14. 0 \in N
  BY <1>4, <1>13 DEF FoldsLeft
<1>15. ASSUME NEW k \in Nat, k \in N
       PROVE  k + 1 \in N
  <2> SUFFICES ASSUME k + 1 =< n PROVE Len(F[k + 1]) = k + 1
    OBVIOUS
  <2>1. k + 1 \in 1..n /\ (k + 1) - 1 = k /\ k \in 0..n /\ Len(F[k]) = k
    BY <1>15
  <2>2. F[k] \in Seq(W) /\ F[k + 1] = H[<<F[k], k + 1>>]
    BY <1>13, <2>1 DEF FoldsLeft
  <2>3. F[k + 1] = Append(F[k], answers[k + 1].value)
    BY <1>5, <2>1, <2>2
  <2> QED BY <1>3, <2>1, <2>2, <2>3
<1>16. Nat \subseteq N
  <2> HIDE DEF N
  <2> QED BY <1>14, <1>15, NatSetInduction
<1> QED BY <1>13, <1>16

LEMMA TxsInBlock ==
    ASSUME RecInv, ChainInv, NEW h \in 1..LastBlockHeight
    PROVE  \E web3Txs : /\ TxsToWeb3Txs(blocks[h], h) = Answer(web3Txs)
                        /\ Len(web3Txs) = Len(blocks[h].txs)
<1> DEFINE n == Len(blocks[h].txs)
           answers == [i \in DOMAIN blocks[h].txs |-> TxAt(blocks[h], h, i)]
<1>1. n \in Nat /\ DOMAIN blocks[h].txs = 1..n
  BY ChainIs
<1>2. \A i \in 1..n : answers[i] # Nothing /\ answers[i] # Failed
  <2> SUFFICES ASSUME NEW i \in 1..n
               PROVE  TxAt(blocks[h], h, i) # Nothing /\ TxAt(blocks[h], h, i) # Failed
    BY <1>1
  <2>1. PICK web3Tx : TxAt(blocks[h], h, i) = Answer(web3Tx)
    BY TxInBlock
  <2> QED BY <2>1, AnswersDiffer
<1>3. DOMAIN answers = 1..n
  BY <1>1
<1>4. TxsToWeb3Txs(blocks[h], h) =
         IF Failed \in Range(answers) THEN Failed ELSE Answer(Pushed(answers))
  BY DEF TxsToWeb3Txs
<1> HIDE DEF n, answers
<1>5. Len(Pushed(answers)) = n
  BY <1>1, <1>2, <1>3, PushedAll
<1>6. Failed \notin Range(answers)
  BY <1>2, <1>3 DEF Range
<1> QED BY <1>4, <1>5, <1>6 DEF n

LEMMA BlockAnswers ==
    ASSUME RecInv, ChainInv, NEW h \in 1..LastBlockHeight
    PROVE  \E web3Txs :
              LET b == blocks[h]
              IN  /\ Len(web3Txs) = Len(b.txs)
                  /\ BlockByNumber(h, TRUE) = Answer(FullBlock(b, h, web3Txs, 0, Nothing))
                  /\ BlockByNumber(h, FALSE) = Answer(HashesOnly(web3Txs))
                  /\ BlockByHash(b.hash, FALSE) = Answer(HashesOnly(web3Txs))
                  /\ BlockByHash(b.hash, TRUE) =
                        IF HasReceipt(b)
                        THEN Answer(FullBlock(b, h, web3Txs, AnyReceipt(b).blockGas,
                                              Answer(BlockBloom(b))))
                        ELSE Failed
<1> DEFINE b == blocks[h]
           found == {k \in DOMAIN blocks : blocks[k].hash = b.hash}
<1>1. DOMAIN blocks = 1..LastBlockHeight
  BY ChainIs
<1>2. found = {h} /\ Max({h}) = h
  BY HashNamesBlock
<1>3. PICK web3Txs : /\ TxsToWeb3Txs(b, h) = Answer(web3Txs)
                     /\ Len(web3Txs) = Len(b.txs)
  BY TxsInBlock
<1>4. ~ \E k \in DOMAIN blocks : TxsToWeb3Txs(blocks[k], k) = Failed
  <2> SUFFICES ASSUME NEW k \in DOMAIN blocks PROVE TxsToWeb3Txs(blocks[k], k) # Failed
    OBVIOUS
  <2>1. PICK others : TxsToWeb3Txs(blocks[k], k) = Answer(others)
    BY <1>1, TxsInBlock
  <2> QED BY <2>1, AnswersDiffer
<1>5. Answer(web3Txs) # Failed /\ Answer(web3Txs).value = web3Txs
  BY AnswersDiffer
<1>6. /\ BlockByNumber(h, TRUE) = Answer(FullBlock(b, h, web3Txs, 0, Nothing))
      /\ BlockByNumber(h, FALSE) = Answer(HashesOnly(web3Txs))
  BY <1>1, <1>3, <1>5 DEF BlockByNumber
<1>7. /\ BlockByHash(b.hash, FALSE) = Answer(HashesOnly(web3Txs))
      /\ BlockByHash(b.hash, TRUE) =
            IF HasReceipt(b)
            THEN Answer(FullBlock(b, h, web3Txs, AnyReceipt(b).blockGas,
                                  Answer(BlockBloom(b))))
            ELSE Failed
  <2>1. found # {} /\ Max(found) = h
    BY <1>2
  <2> QED BY <1>3, <1>4, <1>5, <2>1 DEF BlockByHash
<1> QED BY <1>3, <1>6, <1>7

(* The gas and the bloom of a block are those of its transactions.         *)
LEMMA BlockTotals ==
    ASSUME RecInv, ChainInv, NEW h \in 1..LastBlockHeight
    PROVE  /\ BlockBloom(blocks[h]) = EmittedBloom(blocks[h].txs)
           /\ HasReceipt(blocks[h]) =>
                AnyReceipt(blocks[h]).blockGas = TxGas(blocks[h].txs)
<1> DEFINE b == blocks[h]
           gas == TxGas(b.txs)
           any == CHOOSE tx \in Txs : b.receipts[tx] # NoReceipt
           bloomed == {x \in Range(b.root) \ {EmptyHash} : b.receipts[x] # NoReceipt}
           of(tx) == UNION {{l.address, l.topic} : l \in Range(ReceiptLogs(tx))}
<1>1. /\ b.txs \in Seq(Txs) /\ Range(b.txs) \subseteq Txs
      /\ {tx \in Txs : b.receipts[tx] # NoReceipt} = Range(b.txs)
      /\ b.root = Append(b.txs, EmptyHash)
      /\ \A i \in 1..Len(b.txs) :
           b.receipts[b.txs[i]] = [index |-> i - 1, gas |-> b.txs[i].gas, blockGas |-> gas]
      /\ DOMAIN b.txs = 1..Len(b.txs)
  BY ChainIs DEF BlockReceipts
<1>2. bloomed = Range(b.txs)
  <2>1. b.txs \in Seq(TxHash) /\ EmptyHash \in TxHash
    BY <1>1, SeqMonotonic DEF TxHash
  <2>2. Range(b.root) = Range(b.txs) \cup {EmptyHash}
    BY <1>1, <2>1, RangeAppended
  <2>3. EmptyHash \notin Txs
    BY TxsAssumption DEF Tx, EmptyHash
  <2> HIDE DEF b
  <2> QED BY <1>1, <2>2, <2>3
<1>3. \A tx \in Range(b.txs) :
         of(tx) = UNION {{l.address, l.topic} : l \in Range(Emits[tx])}
  <2> SUFFICES ASSUME NEW tx \in Range(b.txs)
               PROVE  of(tx) = UNION {{l.address, l.topic} : l \in Range(Emits[tx])}
    OBVIOUS
  <2> DEFINE logs == ReceiptLogs(tx)
             D == DOMAIN Emits[tx]
  <2>1. /\ DOMAIN logs = D
        /\ \A i \in D : logs[i].address = Emits[tx][i].address
                         /\ logs[i].topic = Emits[tx][i].topic
    BY DEF ReceiptLogs
  <2>2. /\ Range(logs) = {logs[i] : i \in D}
        /\ Range(Emits[tx]) = {Emits[tx][i] : i \in D}
    BY <2>1 DEF Range
  <2> HIDE DEF logs, D
  <2>3. UNION {{l.address, l.topic} : l \in Range(logs)}
           = UNION {{logs[i].address, logs[i].topic} : i \in D}
    BY <2>2
  <2>4. UNION {{l.address, l.topic} : l \in Range(Emits[tx])}
           = UNION {{Emits[tx][i].address, Emits[tx][i].topic} : i \in D}
    BY <2>2
  <2>5. UNION {{logs[i].address, logs[i].topic} : i \in D}
           = UNION {{Emits[tx][i].address, Emits[tx][i].topic} : i \in D}
    BY <2>1
  <2> QED BY <2>3, <2>4, <2>5 DEF logs
<1>4. BlockBloom(b) = UNION {of(x) : x \in bloomed}
  BY DEF BlockBloom
<1>5. BlockBloom(b) = EmittedBloom(b.txs)
  <2> DEFINE logsOf(tx) == Range(Emits[tx])
             R == Range(b.txs)
  <2>1. BlockBloom(b) = UNION {UNION {{l.address, l.topic} : l \in logsOf(x)} : x \in R}
    <3> HIDE DEF b, bloomed, of
    <3> QED BY <1>2, <1>3, <1>4
  <2>2. EmittedBloom(b.txs) = UNION {{l.address, l.topic} : l \in UNION {logsOf(x) : x \in R}}
    BY DEF EmittedBloom
  <2> HIDE DEF logsOf, R, b
  <2> QED BY <2>1, <2>2
<1>6. ASSUME HasReceipt(b) PROVE AnyReceipt(b).blockGas = gas
  <2>1. any \in Txs /\ b.receipts[any] # NoReceipt
    BY <1>6 DEF HasReceipt
  <2>2. PICK i \in 1..Len(b.txs) : any = b.txs[i]
    <3> HIDE DEF b, any
    <3> QED BY <1>1, <2>1 DEF Range
  <2>3. b.receipts[any] = [index |-> i - 1, gas |-> b.txs[i].gas, blockGas |-> gas]
    <3> HIDE DEF b, any, gas
    <3> QED BY <1>1, <2>2
  <2>4. b.receipts[any].blockGas = gas
    BY <2>3
  <2> QED BY <2>4 DEF AnyReceipt
<1> QED BY <1>5, <1>6

(* The queries for blocks agree, whatever the node went through and was    *)
(* asked: by hash and by number they give the same block but for its gas   *)
(* and its bloom, which are those of its transactions and given by hash    *)
(* alone; its parent is the one below it, and its count is the number of   *)
(* its transactions (eth.rs:238-452, 490-541).                             *)
THEOREM BlockQueries ==
    ASSUME CrashSites \subseteq SafeSites
    PROVE  RpcSpec => []BlockQueriesAgree
<1>1. ASSUME RecInv, ChainInv PROVE BlockQueriesAgree
  <2> SUFFICES ASSUME JustStored, NEW h \in DOMAIN blocks
               PROVE  LET hash   == blocks[h].hash
                          txs    == blocks[h].txs
                          full   == BlockByNumber(h, TRUE)
                          byHash == BlockByHash(hash, TRUE)
                      IN  /\ full # Failed /\ full.value.hash = hash
                          /\ full.value.gasUsed = 0 /\ full.value.logsBloom = Nothing
                          /\ BlockByHash(hash, FALSE) = BlockByNumber(h, FALSE)
                          /\ byHash = IF HasReceipt(blocks[h])
                                      THEN Answer(WithTotals(full.value, txs))
                                      ELSE Failed
                          /\ HeightOfHash(blockHashes, hash) = h
                          /\ h > 1 => HeightOfHash(blockHashes, full.value.parentHash) = h - 1
                          /\ TxCountByHash(hash) = Len(full.value.transactions)
                          /\ TxCountByNumber(h) = Len(full.value.transactions)
    BY DEF BlockQueriesAgree
  <2> DEFINE b == blocks[h]
             gas == TxGas(b.txs)
             bloom == EmittedBloom(b.txs)
             full == BlockByNumber(h, TRUE)
             byHash == BlockByHash(b.hash, TRUE)
  <2>1. pc # "storeBlock" /\ h \in 1..LastBlockHeight /\ DOMAIN blocks = 1..LastBlockHeight
    BY <1>1, ChainIs DEF JustStored
  <2>2. PICK web3Txs :
           /\ Len(web3Txs) = Len(b.txs)
           /\ full = Answer(FullBlock(b, h, web3Txs, 0, Nothing))
           /\ BlockByNumber(h, FALSE) = Answer(HashesOnly(web3Txs))
           /\ BlockByHash(b.hash, FALSE) = Answer(HashesOnly(web3Txs))
           /\ byHash = IF HasReceipt(b)
                       THEN Answer(FullBlock(b, h, web3Txs, AnyReceipt(b).blockGas,
                                             Answer(BlockBloom(b))))
                       ELSE Failed
    BY <1>1, <2>1, BlockAnswers
  <2> DEFINE whole == FullBlock(b, h, web3Txs, 0, Nothing)
  <2>3. full # Failed /\ full.value = whole
    BY <2>2, AnswersDiffer
  <2>4. /\ whole.hash = b.hash /\ whole.parentHash = b.prev
        /\ whole.transactions = web3Txs
        /\ whole.gasUsed = 0 /\ whole.logsBloom = Nothing
    BY DEF FullBlock
  <2>5. FullBlock(b, h, web3Txs, gas, Answer(bloom)) = WithTotals(whole, b.txs)
    <3> DEFINE some == Answer(bloom)
    <3>1. WithTotals(whole, b.txs) = [whole EXCEPT !.gasUsed = gas, !.logsBloom = some]
      BY DEF WithTotals
    <3> HIDE DEF gas, some
    <3>2. [whole EXCEPT !.gasUsed = gas] = FullBlock(b, h, web3Txs, gas, Nothing)
      BY DEF FullBlock
    <3>3. [FullBlock(b, h, web3Txs, gas, Nothing) EXCEPT !.logsBloom = some]
             = FullBlock(b, h, web3Txs, gas, some)
      BY DEF FullBlock
    <3> HIDE DEF whole
    <3>4. [whole EXCEPT !.gasUsed = gas, !.logsBloom = some]
             = [[whole EXCEPT !.gasUsed = gas] EXCEPT !.logsBloom = some]
      OBVIOUS
    <3> QED BY <3>1, <3>2, <3>3, <3>4 DEF some
  <2>6. /\ {k \in DOMAIN blocks : blocks[k].hash = b.hash} = {h} /\ Max({h}) = h
        /\ HeightOfHash(blockHashes, b.hash) = h
    BY <1>1, <2>1, HashNamesBlock
  <2>7. ASSUME h > 1 PROVE HeightOfHash(blockHashes, b.prev) = h - 1
    <3>1. h - 1 \in 1..LastBlockHeight /\ b.prev = blocks[h - 1].hash
      BY <1>1, <2>1, <2>7, ChainIs
    <3> QED BY <1>1, <2>1, <3>1, HashNamesBlock
  <2>8. TxCountByHash(b.hash) = Len(b.txs) /\ TxCountByNumber(h) = Len(b.txs)
    BY <2>6 DEF TxCountByHash, TxCountByNumber
  <2>9. /\ BlockBloom(b) = bloom
        /\ HasReceipt(b) => AnyReceipt(b).blockGas = gas
    BY <1>1, <2>1, BlockTotals
  <2> HIDE DEF full, byHash, whole, gas, bloom
  <2>10. /\ full.value.hash = b.hash /\ full.value.parentHash = b.prev
         /\ full.value.transactions = web3Txs
         /\ full.value.gasUsed = 0 /\ full.value.logsBloom = Nothing
    BY <2>3, <2>4
  <2>11. BlockByHash(b.hash, FALSE) = BlockByNumber(h, FALSE)
    BY <2>2
  <2>12. byHash = IF HasReceipt(b)
                  THEN Answer(WithTotals(full.value, b.txs))
                  ELSE Failed
    <3>1. CASE HasReceipt(b)
      <4>1. byHash = Answer(FullBlock(b, h, web3Txs, gas, Answer(bloom)))
        BY <2>2, <2>9, <3>1
      <4> QED BY <2>3, <2>5, <3>1, <4>1
    <3>2. CASE ~HasReceipt(b)
      BY <2>2, <3>2
    <3> QED BY <3>1, <3>2
  <2> QED BY <2>3, <2>6, <2>7, <2>8, <2>10, <2>11, <2>12, <2>2
          DEF full, byHash, gas, bloom
<1> QED BY <1>1, ChainBesideRequests, PTL

(* A transaction of the chain is where its receipt is, and nowhere else.   *)
LEMMA TxPlace ==
    ASSUME RecInv, ChainInv, NEW h \in 1..LastBlockHeight, NEW i \in 1..Len(blocks[h].txs)
    PROVE  LET tx == blocks[h].txs[i]
           IN  /\ tx \in Txs
               /\ {k \in DOMAIN blocks : Contains(blocks[k].txs, tx)} = {h}
               /\ {k \in DOMAIN blocks : tx \in ReceiptTxs(blocks[k])} = {h}
               /\ {k \in DOMAIN blocks[h].txs : blocks[h].txs[k] = tx} = {i}
               /\ Min({h}) = h /\ Max({h}) = h /\ Min({i}) = i
<1> DEFINE L == LastBlockHeight
           tx == blocks[h].txs[i]
<1>1. /\ L \in Nat /\ DOMAIN blocks = 1..L
      /\ \A k \in 1..L : /\ DOMAIN blocks[k].txs = 1..Len(blocks[k].txs)
                         /\ BlockReceipts(blocks[k])
                         /\ h # k => Apart(blocks[h].txs, blocks[k].txs)
      /\ tx \in Txs /\ Len(blocks[h].txs) \in Nat
  BY ChainIs
<1>2. tx \in Range(blocks[h].txs)
  BY <1>1 DEF Range
<1>3. \A k \in 1..L : tx \in Range(blocks[k].txs) <=> k = h
  BY <1>1, <1>2 DEF Apart
<1>4. \A k \in 1..L : Contains(blocks[k].txs, tx) <=> k = h
  <2>1. \A k \in 1..L : Contains(blocks[k].txs, tx) <=> tx \in Range(blocks[k].txs)
    BY <1>1 DEF Contains, Range
  <2> QED BY <1>3, <2>1
<1>5. \A k \in 1..L : tx \in ReceiptTxs(blocks[k]) <=> k = h
  <2>1. \A k \in 1..L : ReceiptTxs(blocks[k]) = Range(blocks[k].txs)
    BY <1>1 DEF ReceiptTxs, BlockReceipts
  <2> QED BY <1>3, <2>1
<1>6. \A k \in 1..Len(blocks[h].txs) : blocks[h].txs[k] = tx <=> k = i
  <2> SUFFICES ASSUME NEW k \in 1..Len(blocks[h].txs), blocks[h].txs[k] = tx
               PROVE  k = i
    OBVIOUS
  <2>1. \A j \in 1..Len(blocks[h].txs) : blocks[h].receipts[blocks[h].txs[j]].index = j - 1
    <3> TAKE j \in 1..Len(blocks[h].txs)
    <3>1. blocks[h].receipts[blocks[h].txs[j]] =
             [index |-> j - 1, gas |-> blocks[h].txs[j].gas,
              blockGas |-> TxGas(blocks[h].txs)]
      BY TxInBlock
    <3> QED BY <3>1
  <2>2. i - 1 = k - 1
    BY <2>1
  <2>3. i \in Int /\ k \in Int
    OBVIOUS
  <2> QED BY <2>2, <2>3
<1>7. Min({h}) = h /\ Max({h}) = h /\ Min({i}) = i
  <2>1. h \in Nat /\ i \in Nat
    OBVIOUS
  <2> QED BY <2>1, OneElement
<1> HIDE DEF tx, L
<1>8. h \in 1..L
  BY DEF L
<1>9. /\ {k \in DOMAIN blocks : Contains(blocks[k].txs, tx)} = {h}
      /\ {k \in DOMAIN blocks : tx \in ReceiptTxs(blocks[k])} = {h}
  BY <1>1, <1>4, <1>5, <1>8
<1>10. {k \in DOMAIN blocks[h].txs : blocks[h].txs[k] = tx} = {i}
  BY <1>1, <1>6, <1>8
<1> QED BY <1>1, <1>7, <1>9, <1>10 DEF tx

(* What the queries for a transaction give, in the chain and outside.      *)
LEMMA TxFound ==
    ASSUME RecInv, ChainInv, NEW h \in 1..LastBlockHeight, NEW i \in 1..Len(blocks[h].txs)
    PROVE  LET b  == blocks[h]
               tx == b.txs[i]
           IN  /\ TransactionByHash(tx) =
                     Answer([hash |-> tx, blockHash |-> b.hash, blockNumber |-> h,
                             index |-> i - 1, from |-> tx.from, value |-> tx.value])
               /\ TransactionReceipt(tx) =
                     Answer([transactionHash |-> tx, transactionIndex |-> i - 1,
                             blockHash |-> b.hash, blockNumber |-> h,
                             cumulativeGasUsed |-> TxGas(b.txs), gasUsed |-> tx.gas,
                             logs |-> Web3Logs(tx, b, h)])
               /\ TransactionByBlockHashAndIndex(b.hash, i - 1) = TransactionByHash(tx)
<1> DEFINE b == blocks[h]
           tx == b.txs[i]
           web3Tx == [hash |-> tx, blockHash |-> b.hash, blockNumber |-> h,
                      index |-> i - 1, from |-> tx.from, value |-> tx.value]
<1>1. /\ {k \in DOMAIN blocks : Contains(blocks[k].txs, tx)} = {h}
      /\ {k \in DOMAIN blocks : tx \in ReceiptTxs(blocks[k])} = {h}
      /\ {k \in DOMAIN b.txs : b.txs[k] = tx} = {i}
      /\ Min({h}) = h /\ Max({h}) = h /\ Min({i}) = i
  BY TxPlace
<1>2. TxAt(b, h, i) = Answer(web3Tx)
  BY TxInBlock
<1>3. TransactionByHash(tx) = TxAt(b, h, i)
  <2>1. {h} # {}
    OBVIOUS
  <2> HIDE DEF tx
  <2> QED BY <1>1, <2>1 DEF TransactionByHash
<1>4. b.receipts[tx] = [index |-> i - 1, gas |-> tx.gas, blockGas |-> TxGas(b.txs)]
  BY TxInBlock
<1>5. TransactionReceipt(tx) =
         Answer([transactionHash |-> tx, transactionIndex |-> i - 1,
                 blockHash |-> b.hash, blockNumber |-> h,
                 cumulativeGasUsed |-> TxGas(b.txs), gasUsed |-> tx.gas,
                 logs |-> Web3Logs(tx, b, h)])
  <2>1. /\ b.receipts[tx].index = i - 1 /\ b.receipts[tx].gas = tx.gas
        /\ b.receipts[tx].blockGas = TxGas(b.txs)
    BY <1>4
  <2> HIDE DEF tx
  <2> QED BY <1>1, <2>1 DEF TransactionReceipt
<1>6. TransactionByBlockHashAndIndex(b.hash, i - 1) = TxAt(b, h, i)
  <2>1. HeightOfHash(HeaderHashes, b.hash) = h
    BY HashNamesBlock
  <2>2. h \in DOMAIN blocks /\ i \in DOMAIN b.txs
    BY ChainIs
  <2>3. (i - 1) + 1 = i
    OBVIOUS
  <2> QED BY <2>1, <2>2, <2>3 DEF TransactionByBlockHashAndIndex, TransactionInBlock
<1> HIDE DEF web3Tx
<1>7. /\ TransactionByHash(tx) = Answer(web3Tx)
      /\ TransactionByBlockHashAndIndex(b.hash, i - 1) = TransactionByHash(tx)
  BY <1>2, <1>3, <1>6
<1> QED BY <1>5, <1>7 DEF web3Tx

LEMMA TxNotFound ==
    ASSUME RecInv, ChainInv, NEW tx \in Txs,
           \A h \in 1..LastBlockHeight : \A i \in 1..Len(blocks[h].txs) : blocks[h].txs[i] # tx
    PROVE  TransactionByHash(tx) = Nothing /\ TransactionReceipt(tx) = Nothing
<1>1. /\ DOMAIN blocks = 1..LastBlockHeight
      /\ \A h \in 1..LastBlockHeight : /\ DOMAIN blocks[h].txs = 1..Len(blocks[h].txs)
                                       /\ BlockReceipts(blocks[h])
  BY ChainIs
<1>2. {h \in DOMAIN blocks : Contains(blocks[h].txs, tx)} = {}
  BY <1>1 DEF Contains
<1>3. {h \in DOMAIN blocks : tx \in ReceiptTxs(blocks[h])} = {}
  <2>1. \A h \in 1..LastBlockHeight : ReceiptTxs(blocks[h]) = Range(blocks[h].txs)
    BY <1>1 DEF ReceiptTxs, BlockReceipts
  <2>2. \A h \in 1..LastBlockHeight : tx \notin Range(blocks[h].txs)
    BY <1>1 DEF Range
  <2> QED BY <1>1, <2>1, <2>2
<1> QED BY <1>2, <1>3 DEF TransactionByHash, TransactionReceipt

(* The queries for a transaction agree, whatever the node went through and *)
(* was asked: the search from below and the search for the receipt from    *)
(* above end in the same block, at the index the query by position takes   *)
(* (eth.rs:667-728, 783-827).                                              *)
THEOREM Lookups ==
    ASSUME CrashSites \subseteq SafeSites
    PROVE  RpcSpec => []LookupsAgree
<1>1. ASSUME RecInv, ChainInv PROVE LookupsAgree
  <2> SUFFICES ASSUME NEW tx \in Txs
               PROVE  LET byHash  == TransactionByHash(tx)
                          receipt == TransactionReceipt(tx)
                      IN  /\ (byHash = Nothing) <=> (receipt = Nothing)
                          /\ byHash # Nothing =>
                               /\ byHash # Failed
                               /\ receipt.value.blockHash = byHash.value.blockHash
                               /\ receipt.value.blockNumber = byHash.value.blockNumber
                               /\ receipt.value.transactionIndex = byHash.value.index
                               /\ receipt.value.gasUsed =< receipt.value.cumulativeGasUsed
                               /\ TransactionByBlockHashAndIndex(byHash.value.blockHash,
                                                                 byHash.value.index) = byHash
    BY DEF LookupsAgree
  <2>1. CASE \A h \in 1..LastBlockHeight : \A i \in 1..Len(blocks[h].txs) : blocks[h].txs[i] # tx
    BY <1>1, <2>1, TxNotFound
  <2>2. ASSUME NEW h \in 1..LastBlockHeight, NEW i \in 1..Len(blocks[h].txs),
               blocks[h].txs[i] = tx
        PROVE  LET byHash  == TransactionByHash(tx)
                   receipt == TransactionReceipt(tx)
               IN  /\ receipt # Nothing /\ byHash # Nothing /\ byHash # Failed
                   /\ receipt.value.blockHash = byHash.value.blockHash
                   /\ receipt.value.blockNumber = byHash.value.blockNumber
                   /\ receipt.value.transactionIndex = byHash.value.index
                   /\ receipt.value.gasUsed =< receipt.value.cumulativeGasUsed
                   /\ TransactionByBlockHashAndIndex(byHash.value.blockHash,
                                                     byHash.value.index) = byHash
    <3> DEFINE b == blocks[h]
               byHash == TransactionByHash(tx)
               receipt == TransactionReceipt(tx)
               web3Tx == [hash |-> tx, blockHash |-> b.hash, blockNumber |-> h,
                          index |-> i - 1, from |-> tx.from, value |-> tx.value]
               web3Receipt == [transactionHash |-> tx, transactionIndex |-> i - 1,
                               blockHash |-> b.hash, blockNumber |-> h,
                               cumulativeGasUsed |-> TxGas(b.txs), gasUsed |-> tx.gas,
                               logs |-> Web3Logs(tx, b, h)]
    <3>1. /\ byHash = Answer(web3Tx) /\ receipt = Answer(web3Receipt)
          /\ TransactionByBlockHashAndIndex(b.hash, i - 1) = byHash
      BY <1>1, <2>2, TxFound
    <3>2. tx.gas =< TxGas(b.txs)
      <4>1. b.txs \in Seq(Txs)
        BY <1>1, ChainIs
      <4> QED BY <2>2, <4>1, GasWithinBlock
    <3>3. /\ web3Tx.blockHash = b.hash /\ web3Tx.blockNumber = h /\ web3Tx.index = i - 1
          /\ web3Receipt.blockHash = b.hash /\ web3Receipt.blockNumber = h
          /\ web3Receipt.transactionIndex = i - 1 /\ web3Receipt.gasUsed = tx.gas
          /\ web3Receipt.cumulativeGasUsed = TxGas(b.txs)
      OBVIOUS
    <3> HIDE DEF web3Tx, web3Receipt, byHash, receipt
    <3>4. /\ byHash # Failed /\ byHash # Nothing /\ receipt # Nothing
          /\ byHash.value = web3Tx /\ receipt.value = web3Receipt
      BY <3>1, AnswersDiffer
    <3> QED BY <3>1, <3>2, <3>3, <3>4 DEF byHash, receipt
  <2> QED BY <2>1, <2>2
<1> QED BY <1>1, ChainBesideRequests, PTL
-----------------------------------------------------------------------------
(* Logs.                                                                   *)

(* A log the filter matches has its address and its topic in the bloom.    *)
LEMMA BloomKeeps ==
    ASSUME RecInv, ChainInv, NEW h \in 1..LastBlockHeight, NEW f,
           NEW log \in FilterBlockLogs(blocks[h], f, h)
    PROVE  InBloom(f, BlockBloom(blocks[h]))
<1> DEFINE b == blocks[h]
           bloomed == {x \in Range(b.root) \ {EmptyHash} : b.receipts[x] # NoReceipt}
           of(tx) == UNION {{l.address, l.topic} : l \in Range(ReceiptLogs(tx))}
<1>1. PICK tx \in ReceiptTxs(b) : log \in Web3Logs(tx, b, h)
  BY DEF FilterBlockLogs
<1>2. PICK i \in DOMAIN ReceiptLogs(tx) : log = Web3Log(ReceiptLogs(tx)[i], tx, b, h)
  BY <1>1 DEF Web3Logs
<1>3. f.address \in {Wildcard, log.address} /\ f.topic \in {Wildcard, log.topic}
  BY DEF FilterBlockLogs, Matches
<1>4. log.address = ReceiptLogs(tx)[i].address /\ log.topic = ReceiptLogs(tx)[i].topic
  BY <1>2 DEF Web3Log
<1>5. tx \in bloomed
  <2>1. /\ b.txs \in Seq(Txs) /\ tx \in Txs /\ b.receipts[tx] # NoReceipt
        /\ tx \in Range(b.txs) /\ b.root = Append(b.txs, EmptyHash)
    BY <1>1, ChainIs DEF ReceiptTxs, BlockReceipts
  <2>2. tx # EmptyHash
    BY <2>1, TxsAssumption DEF Tx, EmptyHash
  <2>3. tx \in Range(b.root)
    <3>1. b.txs \in Seq(TxHash) /\ EmptyHash \in TxHash
      BY <2>1, SeqMonotonic DEF TxHash
    <3> QED BY <2>1, <3>1, RangeAppended
  <2> QED BY <2>1, <2>2, <2>3
<1>6. {log.address, log.topic} \subseteq of(tx)
  <2>1. ReceiptLogs(tx)[i] \in Range(ReceiptLogs(tx))
    BY <1>2 DEF Range
  <2> QED BY <1>4, <2>1
<1>7. BlockBloom(b) = UNION {of(x) : x \in bloomed}
  BY DEF BlockBloom
<1> HIDE DEF b, bloomed, of
<1>8. {log.address, log.topic} \subseteq BlockBloom(b)
  BY <1>5, <1>6, <1>7
<1>9. InBloom(f, BlockBloom(b))
  BY <1>3, <1>8 DEF InBloom
<1> QED BY <1>9 DEF b

(* So a range has all the logs of the blocks in it.                        *)
LEMMA RangeFinds ==
    ASSUME RecInv, ChainInv, NEW f, NEW from, NEW to, NEW S,
           (1..LastBlockHeight) \cap LogRange(BlockNumberToHeight(from, HeaderHashes),
                                             BlockNumberToHeight(to, HeaderHashes)) = S
    PROVE  LogsOfRange(f, from, to) = UNION {FilterBlockLogs(blocks[h], f, h) : h \in S}
<1> DEFINE found == {h \in S : InBloom(f, BlockBloom(blocks[h]))}
<1>1. LogsOfRange(f, from, to) = UNION {FilterBlockLogs(blocks[h], f, h) : h \in found}
  <2>1. DOMAIN blocks = 1..LastBlockHeight
    BY ChainIs
  <2> QED BY <2>1 DEF LogsOfRange
<1>2. ASSUME NEW h \in S, h \notin found
      PROVE  FilterBlockLogs(blocks[h], f, h) = {}
  <2>1. h \in 1..LastBlockHeight
    OBVIOUS
  <2> QED BY <1>2, <2>1, BloomKeeps
<1> HIDE DEF found
<1>3. found \subseteq S
  BY DEF found
<1> QED BY <1>1, <1>2, <1>3

LEMMA LogsOfOne ==
    ASSUME RecInv, ChainInv, NEW h \in 1..LastBlockHeight, NEW f
    PROVE  LogsOfHash(f, blocks[h].hash) = FilterBlockLogs(blocks[h], f, h)
<1>1. HeightOfHash(HeaderHashes, blocks[h].hash) = h
  BY HashNamesBlock
<1>2. h # 0
  OBVIOUS
<1> QED BY <1>1, <1>2 DEF LogsOfHash

(* The logs of a transaction are told apart by their index in it.          *)
LogsMatching(f, tx, b, h) == {log \in Web3Logs(tx, b, h) : Matches(f, log)}

LEMMA TxLogsCounted ==
    ASSUME NEW f, NEW tx \in Txs, NEW b, NEW h
    PROVE  /\ IsFiniteSet(LogsMatching(f, tx, b, h))
           /\ Cardinality(LogsMatching(f, tx, b, h)) = Cardinality(MatchesOf(f, tx))
           /\ Cardinality(MatchesOf(f, tx)) \in Nat
           /\ \A log \in LogsMatching(f, tx, b, h) :
                 log.transactionHash = tx /\ log.blockNumber = h
<1> DEFINE n == Len(Emits[tx])
           S == MatchesOf(f, tx)
           T == LogsMatching(f, tx, b, h)
           web3(i) == Web3Log(ReceiptLogs(tx)[i], tx, b, h)
           g == [i \in S |-> web3(i)]
<1>1. /\ n \in Nat /\ DOMAIN Emits[tx] = 1..n /\ DOMAIN ReceiptLogs(tx) = 1..n
  <2>1. Emits[tx] \in Seq(EmittedLog)
    BY Web3Assumption
  <2> QED BY <2>1, LenProperties DEF ReceiptLogs
<1> HIDE DEF n
<1>2. \A i \in 1..n :
         /\ web3(i).address = Emits[tx][i].address /\ web3(i).topic = Emits[tx][i].topic
         /\ web3(i).transactionLogIndex = i - 1
         /\ web3(i).transactionHash = tx /\ web3(i).blockNumber = h
  BY <1>1 DEF Web3Log, ReceiptLogs
<1> HIDE DEF web3
<1>3. S \subseteq 1..n /\ \A i \in 1..n : Matches(f, web3(i)) <=> i \in S
  BY <1>1, <1>2 DEF MatchesOf, Matches
<1>4. T = {web3(i) : i \in S}
  <2>1. Web3Logs(tx, b, h) = {web3(i) : i \in 1..n}
    BY <1>1 DEF Web3Logs, web3
  <2> QED BY <1>3, <2>1 DEF LogsMatching
<1> HIDE DEF S, T
<1>5. IsFiniteSet(S) /\ Cardinality(S) \in Nat
  <2>1. IsFiniteSet(1..n)
    BY <1>1, FS_Interval
  <2> QED BY <1>3, <2>1, FS_Subset, FS_CardinalityType
<1>6. g \in Bijection(S, T)
  <2>1. \A i, j \in S : web3(i) = web3(j) => i = j
    <3>1. ASSUME NEW i \in S, NEW j \in S, web3(i) = web3(j)
          PROVE  i = j
      <4>1. i \in Int /\ j \in Int /\ i - 1 = j - 1
        BY <1>1, <1>2, <1>3, <3>1
      <4> QED BY <4>1
    <3> QED BY <3>1
  <2>2. g \in [S -> T] /\ \A i \in S : g[i] = web3(i)
    BY <1>4
  <2> HIDE DEF g
  <2>3. g \in Injection(S, T)
    BY <2>1, <2>2 DEF Injection, IsInjective
  <2>4. g \in Surjection(S, T)
    BY <1>4, <2>2 DEF Surjection
  <2> QED BY <2>3, <2>4 DEF Bijection
<1>7. IsFiniteSet(T) /\ Cardinality(T) = Cardinality(S)
  BY <1>5, <1>6, FS_Bijection DEF ExistsBijection
<1>8. \A log \in T : log.transactionHash = tx /\ log.blockNumber = h
  BY <1>2, <1>3, <1>4
<1> QED BY <1>5, <1>7, <1>8 DEF S, T

CountSteps(f, txs) ==
    [p \in Nat \X (1..Len(txs)) |-> p[1] + Cardinality(MatchesOf(f, txs[p[2]]))]

LEMMA MatchCountFolds ==
    ASSUME NEW f, NEW txs \in Seq(Txs)
    PROVE  FoldLeftIs(Len(txs), Nat, 0, CountSteps(f, txs), MatchCount(f, txs))
<1> DEFINE n == Len(txs)
           D == DOMAIN txs
           H == CountSteps(f, txs)
           rhs(h) == [t \in SUBSET D |->
                        IF t = {} THEN 0
                        ELSE h[t \ {Max(t)}] + Cardinality(MatchesOf(f, txs[Max(t)]))]
           iter == CHOOSE h : h = rhs(h)
<1>1. /\ n \in Nat /\ D = 1..n
      /\ \A i \in 1..n : Cardinality(MatchesOf(f, txs[i])) \in Nat
  BY LenProperties, ElementOfSeq, TxLogsCounted
<1>2. MatchCount(f, txs) = iter[D]
  BY DEF MatchCount, FoldLeft, MapThenFoldSet
<1> HIDE DEF n, D
<1>3. /\ H \in [Nat \X (1..n) -> Nat]
      /\ \A v \in Nat, k \in 1..n : H[<<v, k>>] = v + Cardinality(MatchesOf(f, txs[k]))
  BY <1>1 DEF CountSteps, n
<1> HIDE DEF H
<1>4. PICK g \in [SUBSET (1..n) -> Nat] :
           \A t \in SUBSET (1..n) :
               g[t] = IF t = {} THEN 0 ELSE H[<<g[t \ {Max(t)}], Max(t)>>]
  <2>1. FoldByMaxDefined(n, Nat, 0, H)
    BY <1>1, <1>3, FoldByMaxExists
  <2> QED BY <2>1 DEF FoldByMaxDefined
<1>5. \A t \in SUBSET (1..n) : t # {} => Max(t) \in 1..n
  BY <1>1, MaxOfSubset
<1>6. \A t \in SUBSET (1..n) : t # {} =>
         g[t] = g[t \ {Max(t)}] + Cardinality(MatchesOf(f, txs[Max(t)]))
  BY <1>3, <1>4, <1>5
<1>7. g = rhs(g)
  BY <1>1, <1>4, <1>6
<1>8. iter = rhs(iter)
  <2> HIDE DEF rhs
  <2> QED BY <1>7
<1>9. FoldsByMax(iter, n, Nat, 0, H)
  <2> HIDE DEF iter
  <2>1. iter[{}] = 0
    BY <1>1, <1>8
  <2>2. \A t \in SUBSET (1..n) : t # {} =>
            iter[t] = iter[t \ {Max(t)}] + Cardinality(MatchesOf(f, txs[Max(t)]))
    BY <1>1, <1>8
  <2> QED BY <1>3, <1>5, <2>1, <2>2 DEF FoldsByMax
<1> HIDE DEF iter
<1>10. FoldLeftIs(n, Nat, 0, H, iter[1..n])
  BY <1>1, <1>3, <1>9, FoldByPrefixes
<1> QED BY <1>1, <1>2, <1>10 DEF n, H

(* Those of a block are told apart by their transactions, each there once. *)
LEMMA BlockLogsCounted ==
    ASSUME RecInv, ChainInv, NEW f, NEW h \in 1..LastBlockHeight
    PROVE  /\ IsFiniteSet(FilterBlockLogs(blocks[h], f, h))
           /\ Cardinality(FilterBlockLogs(blocks[h], f, h)) = MatchCount(f, blocks[h].txs)
           /\ MatchCount(f, blocks[h].txs) \in Nat
           /\ \A log \in FilterBlockLogs(blocks[h], f, h) : log.blockNumber = h
<1> DEFINE b == blocks[h]
           txs == b.txs
           n == Len(txs)
           B == [j \in 1..n |-> LogsMatching(f, txs[j], b, h)]
<1>1. /\ txs \in Seq(Txs) /\ n \in Nat /\ DOMAIN txs = 1..n
      /\ \A j \in 1..n : txs[j] \in Txs
      /\ ReceiptTxs(b) = Range(txs)
  BY ChainIs DEF ReceiptTxs, BlockReceipts
<1>2. \A j, k \in 1..n : txs[j] = txs[k] => j = k
  <2> SUFFICES ASSUME NEW j \in 1..n, NEW k \in 1..n, txs[j] = txs[k] PROVE j = k
    OBVIOUS
  <2>1. /\ b.receipts[txs[j]] = [index |-> j - 1, gas |-> txs[j].gas, blockGas |-> TxGas(txs)]
        /\ b.receipts[txs[k]] = [index |-> k - 1, gas |-> txs[k].gas, blockGas |-> TxGas(txs)]
    BY TxInBlock
  <2>2. j - 1 = k - 1
    BY <2>1
  <2> QED BY <1>1, <2>2
<1> HIDE DEF b, txs, n
<1>3. \A j \in 1..n : /\ IsFiniteSet(B[j])
                      /\ Cardinality(B[j]) = Cardinality(MatchesOf(f, txs[j]))
                      /\ \A log \in B[j] : log.transactionHash = txs[j] /\ log.blockNumber = h
  <2> SUFFICES ASSUME NEW j \in 1..n
               PROVE  /\ IsFiniteSet(B[j])
                      /\ Cardinality(B[j]) = Cardinality(MatchesOf(f, txs[j]))
                      /\ \A log \in B[j] : log.transactionHash = txs[j] /\ log.blockNumber = h
    OBVIOUS
  <2>1. txs[j] \in Txs /\ B[j] = LogsMatching(f, txs[j], b, h)
    BY <1>1
  <2> HIDE DEF B
  <2> QED BY <2>1, TxLogsCounted
<1>4. \A j, k \in 1..n : j # k => B[j] \cap B[k] = {}
  <2> HIDE DEF B
  <2> QED BY <1>2, <1>3
<1>5. FilterBlockLogs(b, f, h) = UNION {B[j] : j \in 1..n}
  <2>1. FilterBlockLogs(b, f, h) = UNION {LogsMatching(f, tx, b, h) : tx \in Range(txs)}
    BY <1>1 DEF FilterBlockLogs, LogsMatching
  <2>2. Range(txs) = {txs[j] : j \in 1..n}
    BY <1>1 DEF Range
  <2> QED BY <2>1, <2>2
<1> HIDE DEF B
<1>6. PICK F : FoldsLeft(F, n, Nat, 0, CountSteps(f, txs)) /\ F[n] = MatchCount(f, txs)
  BY <1>1, MatchCountFolds DEF FoldLeftIs, n
<1>7. F[0] = 0 /\ F[n] \in Nat /\ \A k \in 1..n : F[k] = F[k - 1] + Cardinality(B[k])
  <2>1. F[0] = 0 /\ F[n] \in Nat
    BY <1>1, <1>6 DEF FoldsLeft
  <2>2. ASSUME NEW k \in 1..n
        PROVE  F[k] = F[k - 1] + Cardinality(B[k])
    <3>1. k - 1 \in 0..n
      BY <1>1
    <3>2. F[k - 1] \in Nat /\ F[k] = CountSteps(f, txs)[<<F[k - 1], k>>]
      BY <1>6, <3>1 DEF FoldsLeft
    <3>3. F[k] = F[k - 1] + Cardinality(MatchesOf(f, txs[k]))
      BY <3>2 DEF CountSteps, n
    <3> QED BY <1>3, <3>3
  <2> QED BY <2>1, <2>2
<1>8. IsFiniteSet(FilterBlockLogs(b, f, h)) /\ Cardinality(FilterBlockLogs(b, f, h)) = F[n]
  <2>1. \A j \in 1..n : IsFiniteSet(B[j])
    BY <1>3
  <2>2. F[0] = 0 /\ n \in Nat
    BY <1>1, <1>7
  <2>3. \A k \in 1..n : F[k] = F[k - 1] + Cardinality(B[k])
    BY <1>7
  <2>4. /\ IsFiniteSet(UNION {B[j] : j \in 1..n})
        /\ Cardinality(UNION {B[j] : j \in 1..n}) = F[n]
    BY ONLY <1>4, <2>1, <2>2, <2>3, CountUnion
  <2> QED BY <1>5, <2>4
<1>9. \A log \in FilterBlockLogs(b, f, h) : log.blockNumber = h
  BY <1>3, <1>5
<1> QED BY <1>6, <1>7, <1>8, <1>9 DEF b, txs

LEMMA MatchCountSum ==
    ASSUME NEW f, NEW S
    PROVE  MapThenSumSet(LAMBDA h : MatchCount(f, blocks[h].txs), S) =
              SumOf([h \in S |-> MatchCount(f, blocks[h].txs)], S)
<1> DEFINE c == [h \in S |-> MatchCount(f, blocks[h].txs)]
           left(g) == [s \in SUBSET S |->
                         IF s = {} THEN 0
                         ELSE MatchCount(f, blocks[CHOOSE x \in s : TRUE].txs)
                                + g[s \ {CHOOSE x \in s : TRUE}]]
           right(g) == [s \in SUBSET S |->
                          IF s = {} THEN 0
                          ELSE c[CHOOSE x \in s : TRUE] + g[s \ {CHOOSE x \in s : TRUE}]]
<1>1. \A g : left(g) = right(g)
  OBVIOUS
<1>2. (CHOOSE g : g = left(g)) = CHOOSE g : g = right(g)
  <2> HIDE DEF left, right
  <2> QED BY <1>1
<1> QED BY <1>2 DEF SumOf, MapThenSumSet, MapThenFoldSet

(* Those of the chain by the heights of their blocks.                      *)
LEMMA AllLogsCounted ==
    ASSUME RecInv, ChainInv, NEW f
    PROVE  LET all == UNION {FilterBlockLogs(blocks[h], f, h) : h \in 1..LastBlockHeight}
           IN  Cardinality(all) = SumOf([h \in 1..LastBlockHeight |-> MatchCount(f, blocks[h].txs)],
                                        1..LastBlockHeight)
<1> DEFINE L == LastBlockHeight
           B == [h \in 1..L |-> FilterBlockLogs(blocks[h], f, h)]
           c == [h \in 1..L |-> MatchCount(f, blocks[h].txs)]
           F == [m \in 0..L |-> SumOf(c, 1..m)]
<1>1. L \in Nat
  BY ChainIs
<1>2. \A h \in 1..L : /\ IsFiniteSet(B[h]) /\ Cardinality(B[h]) = c[h] /\ c[h] \in Nat
                      /\ \A log \in B[h] : log.blockNumber = h
  BY BlockLogsCounted
<1>3. UNION {FilterBlockLogs(blocks[h], f, h) : h \in 1..L} = UNION {B[h] : h \in 1..L}
  OBVIOUS
<1> HIDE DEF L, B, c
<1>4. \A j, k \in 1..L : j # k => B[j] \cap B[k] = {}
  BY <1>2
<1>5. F[0] = 0 /\ F[L] = SumOf(c, 1..L)
  <2>1. 1..0 = {} /\ 0 \in 0..L /\ L \in 0..L
    BY <1>1
  <2> QED BY <2>1, SumEmpty
<1>6. ASSUME NEW k \in 1..L
      PROVE  F[k] = F[k - 1] + Cardinality(B[k])
  <2> DEFINE S == 1..(k - 1)
  <2>1. /\ k \in Nat /\ k - 1 \in 0..L /\ k \in 0..L
        /\ 1..k = S \cup {k} /\ k \notin S
    BY <1>1
  <2>2. IsFiniteSet(S)
    BY <2>1, FS_Interval
  <2>3. \A y \in S \cup {k} : c[y] \in Int
    <3>1. \A y \in S \cup {k} : y \in 1..L
      BY <1>1
    <3> QED BY <1>2, <3>1
  <2>4. F[k] = SumOf(c, S \cup {k}) /\ F[k - 1] = SumOf(c, S)
    BY <2>1
  <2> HIDE DEF S, F
  <2>5. SumOf(c, S \cup {k}) = c[k] + SumOf(c, S) /\ SumOf(c, S) \in Int
    BY <2>1, <2>2, <2>3, SumAdd
  <2>6. c[k] \in Int /\ Cardinality(B[k]) = c[k]
    BY <1>2
  <2> QED BY <2>4, <2>5, <2>6
<1> HIDE DEF F
<1>7. Cardinality(UNION {B[h] : h \in 1..L}) = F[L]
  <2>1. \A h \in 1..L : IsFiniteSet(B[h])
    BY <1>2
  <2>2. F[0] = 0
    BY <1>5
  <2>3. \A k \in 1..L : F[k] = F[k - 1] + Cardinality(B[k])
    BY <1>6
  <2> QED BY ONLY <1>1, <1>4, <2>1, <2>2, <2>3, CountUnion
<1> QED BY <1>3, <1>5, <1>7 DEF L, c

(* The heights the ends of a range mean, cut to the last.                  *)
LEMMA RangeEnds ==
    ASSUME RecInv, ChainInv, JustStored
    PROVE  LET L        == LastBlockHeight
               range(from, to) == LogRange(BlockNumberToHeight(from, HeaderHashes),
                                           BlockNumberToHeight(to, HeaderHashes))
           IN  /\ range(Earliest, Latest) = 1..L
               /\ range(Num(0), Num(MaxHeight + 1)) = 0..L
               /\ range(Earliest, Pending) = {}
               /\ \A h \in 1..L : range(Num(h), ByHash(blocks[h].hash)) = {h}
<1> DEFINE L == LastBlockHeight
           height(bn) == BlockNumberToHeight(bn, HeaderHashes)
<1>1. L \in Nat /\ DOMAIN HeaderHashes = 1..L
  BY ChainIs
<1>2. L # 0
  <2>1. L = Len(acked) + 1 /\ Len(acked) \in Nat
    <3>1. acked \in Seq(Hash)
      BY DEF RecInv, RecFiles, RecTypes
    <3>2. pc \in Saving
      BY DEF JustStored, Saving
    <3> QED BY <3>1, <3>2, LenProperties DEF RecInv, RecFiles, RecAcked
  <2> QED BY <2>1
<1>3. L < MaxHeight + 1 /\ MaxHeight \in Nat
  <2>1. L =< Len(decided) /\ Len(decided) =< MaxHeight /\ Len(decided) \in Nat
    BY LenProperties DEF RecInv, RecFiles, RecTypes, RecBlocks, ChainInv, ChainBlocks
  <2> QED BY <1>1, <2>1, RecoveryAssumption
<1>4. /\ height(Earliest) = 1 /\ height(Latest) = L /\ height(Pending) = 0
      /\ \A n : height(Num(n)) = n
      /\ \A h \in 1..L : height(ByHash(blocks[h].hash)) = h
  <2>1. height(Latest) = L
    <3>1. LastKey(HeaderHashes) = L
      BY <1>1, LastKeyOfInterval
    <3> QED BY <3>1 DEF BlockNumberToHeight, Latest
  <2>2. height(Earliest) = 1 /\ height(Pending) = 0 /\ \A n : height(Num(n)) = n
    BY DEF BlockNumberToHeight, Earliest, Pending, Num
  <2>3. ASSUME NEW h \in 1..L
        PROVE  height(ByHash(blocks[h].hash)) = h
    <3>1. HeightOfHash(HeaderHashes, blocks[h].hash) = h
      BY HashNamesBlock
    <3> QED BY <3>1 DEF BlockNumberToHeight, ByHash
  <2> QED BY <2>1, <2>2, <2>3
<1> HIDE DEF height
<1>5. /\ LogRange(1, L) = 1..L
      /\ LogRange(0, MaxHeight + 1) = 0..L
      /\ LogRange(1, 0) = {}
      /\ \A h \in 1..L : LogRange(h, h) = {h}
  BY <1>1, <1>2, <1>3 DEF LogRange
<1> QED BY <1>4, <1>5 DEF height

(* A filter by range finds what it finds block by block, and as many logs  *)
(* as the transactions of the chain emitted that match it, whatever the    *)
(* node went through and was asked: neither the bloom nor the cutting of   *)
(* the range loses one, and no log is counted for two (eth.rs:829-881,     *)
(* ledger/mod.rs:360-368).                                                 *)
THEOREM Logs ==
    ASSUME CrashSites \subseteq SafeSites
    PROVE  RpcSpec => []LogsAgree
<1>1. ASSUME RecInv, ChainInv PROVE LogsAgree
  <2> DEFINE L == LastBlockHeight
             in(f, h) == FilterBlockLogs(blocks[h], f, h)
             all(f) == UNION {LogsOfHash(f, blocks[h].hash) : h \in DOMAIN blocks}
  <2>1. L \in Nat /\ DOMAIN blocks = 1..L
    BY <1>1, ChainIs
  <2>2. ASSUME NEW f PROVE all(f) = UNION {in(f, h) : h \in 1..L}
    <3>1. \A h \in 1..L : LogsOfHash(f, blocks[h].hash) = in(f, h)
      BY <1>1, LogsOfOne
    <3> QED BY <2>1, <3>1
  <2> SUFFICES ASSUME JustStored, NEW f \in Filters
               PROVE  /\ LogsOfRange(f, Earliest, Latest) = all(f)
                      /\ LogsOfRange(f, Num(0), Num(MaxHeight + 1)) = all(f)
                      /\ LogsOfRange(f, Earliest, Pending) = {}
                      /\ \A h \in DOMAIN blocks :
                           LogsOfRange(f, Num(h), ByHash(blocks[h].hash)) =
                               LogsOfHash(f, blocks[h].hash)
                      /\ Cardinality(all(f)) =
                           MapThenSumSet(LAMBDA h : MatchCount(f, blocks[h].txs), DOMAIN blocks)
    BY DEF LogsAgree
  <2>3. LogsOfRange(f, Earliest, Latest) = UNION {in(f, h) : h \in 1..L}
    <3>1. (1..L) \cap LogRange(BlockNumberToHeight(Earliest, HeaderHashes),
                              BlockNumberToHeight(Latest, HeaderHashes)) = 1..L
      BY <1>1, RangeEnds
    <3> QED BY <1>1, <3>1, RangeFinds
  <2>4. LogsOfRange(f, Num(0), Num(MaxHeight + 1)) = UNION {in(f, h) : h \in 1..L}
    <3>1. LogRange(BlockNumberToHeight(Num(0), HeaderHashes),
                   BlockNumberToHeight(Num(MaxHeight + 1), HeaderHashes)) = 0..L
      BY <1>1, RangeEnds
    <3>2. (1..L) \cap (0..L) = 1..L
      BY <2>1
    <3> QED BY <1>1, <3>1, <3>2, RangeFinds
  <2>5. LogsOfRange(f, Earliest, Pending) = {}
    <3>1. (1..L) \cap LogRange(BlockNumberToHeight(Earliest, HeaderHashes),
                              BlockNumberToHeight(Pending, HeaderHashes)) = {}
      BY <1>1, RangeEnds
    <3>2. LogsOfRange(f, Earliest, Pending) = UNION {in(f, h) : h \in {}}
      BY <1>1, <3>1, RangeFinds
    <3> QED BY <3>2
  <2>6. ASSUME NEW h \in DOMAIN blocks
        PROVE  LogsOfRange(f, Num(h), ByHash(blocks[h].hash)) = LogsOfHash(f, blocks[h].hash)
    <3>1. (1..L) \cap LogRange(BlockNumberToHeight(Num(h), HeaderHashes),
                              BlockNumberToHeight(ByHash(blocks[h].hash), HeaderHashes)) = {h}
      BY <1>1, <2>1, RangeEnds
    <3>2. LogsOfRange(f, Num(h), ByHash(blocks[h].hash)) = UNION {in(f, k) : k \in {h}}
      BY <1>1, <3>1, RangeFinds
    <3>3. LogsOfHash(f, blocks[h].hash) = in(f, h)
      BY <1>1, <2>1, LogsOfOne
    <3> HIDE DEF in
    <3> QED BY <3>2, <3>3
  <2>7. Cardinality(UNION {in(f, h) : h \in 1..L}) =
           MapThenSumSet(LAMBDA h : MatchCount(f, blocks[h].txs), 1..L)
    <3>1. Cardinality(UNION {in(f, h) : h \in 1..L}) =
             SumOf([h \in 1..L |-> MatchCount(f, blocks[h].txs)], 1..L)
      BY <1>1, AllLogsCounted
    <3> QED BY <3>1, MatchCountSum
  <2> HIDE DEF in, all, L
  <2> QED BY <2>1, <2>2, <2>3, <2>4, <2>5, <2>6, <2>7
<1> QED BY <1>1, ChainBesideRequests, PTL
=============================================================================
