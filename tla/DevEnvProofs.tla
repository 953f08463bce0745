---------------------------- MODULE DevEnvProofs ----------------------------
(***************************************************************************)
(* Proofs about DevEnv, for every set of environments and of ports and any *)
(* number of validators and commands.                                      *)
(*                                                                         *)
(* Two arguments meet in the inductive invariant.  One is about a command: *)
(* what its copy of the configuration has to do with the file, and which   *)
(* nodes a stop has left alone so far.  The other is about the cache, which*)
(* all commands share: it has the ports somebody needs and only those, but *)
(* for the causes; and while it is empty, one of the commands that are     *)
(* about to write holds what it had.                                       *)
(***************************************************************************)
EXTENDS DevEnv, FoldProofs, SequenceTheorems

Kinds == {"seed", "full", "node"}

StagesOf(cmd) ==
    CASE cmd \in {"create", "attach"} ->
           {"draw", "load", "truncate", "write", "save", "launch"}
      [] cmd = "start"   -> {"save", "launch"}
      [] cmd = "stop"    -> {"kill", "load", "truncate", "write"}
      [] cmd = "destroy" -> {"kill", "load", "truncate", "write", "remove"}
      [] cmd = "kick"    -> {"kill", "load", "truncate", "write", "save"}

HasSeed(env) == \E id \in DOMAIN env.nodes : env.nodes[id].kind = "seed"

Working(j) == j.stage \in {"load", "truncate", "write"}

(* A command that creates an environment and has not entered the seed.     *)
FromNothing(j) ==
    /\ j.cmd = "create"
    /\ j.env = Absent
    /\ j.stage = "draw" \/ Working(j)
    /\ Head(j.kinds) = "seed"

(* The command and its own copy of the configuration.                      *)
JobShape(j) ==
    /\ j.stage \in StagesOf(j.cmd)
    /\ j.failed => j.stage = "remove"
    /\ Len(j.ports) =< PortsPerNode
    /\ HasSeed(j.env) \/ FromNothing(j)
    /\ Allocates(j) /\ (j.stage = "draw" \/ Working(j)) => j.kinds # <<>>
    /\ Allocates(j) /\ j.stage = "draw" => Len(j.ports) < PortsPerNode
    /\ Allocates(j) /\ Working(j) => Len(j.ports) = PortsPerNode
    /\ Range(j.todo) \subseteq DOMAIN j.env.nodes
    /\ j.stage \in {"kill", "launch"} => j.todo # <<>>
    /\ ~Allocates(j) /\ Working(j) =>
         /\ j.todo # <<>>
         /\ Len(j.ports) \in 1..PortsPerNode
         /\ Range(j.ports) \subseteq Range(j.env.nodes[Head(j.todo)].ports)
    /\ j.cmd = "kick" =>
         IF j.stage = "save" THEN j.todo = <<>>
         ELSE Len(j.todo) = 1 /\ j.env.nodes[Head(j.todo)].kind = "node"

(* Its copy and the configuration there is.                                *)
JobCopy(j, env) ==
    /\ \/ j.cmd \in {"start", "stop", "destroy"} \/ j.stage = "launch"
       \/ j.cmd = "kick" /\ j.stage # "save"
       => j.env = env
    /\ j.cmd = "attach" =>
         \A id \in DOMAIN env.nodes : id \in DOMAIN j.env.nodes /\ j.env.nodes[id] = env.nodes[id]
    /\ j.cmd = "kick" =>
         \A id \in DOMAIN j.env.nodes : id \in DOMAIN env.nodes /\ j.env.nodes[id] = env.nodes[id]

(* The nodes a stop, a destroy or a kick has left alone so far.            *)
Remaining(j, env) ==
    CASE j.cmd \in {"create", "attach", "start"} -> DOMAIN env.nodes
      [] j.cmd \in {"stop", "destroy"} ->
           IF j.stage = "kill" THEN Range(j.todo)
           ELSE IF j.stage # "remove" THEN Range(Tail(j.todo))
           ELSE IF j.failed THEN DOMAIN env.nodes ELSE {}
      [] j.cmd = "kick" ->
           IF j.stage \in {"kill", "save"} THEN DOMAIN j.env.nodes
           ELSE DOMAIN env.nodes \ {Head(j.todo)}

Active(e) == job[e] # IdleJob

Seeded == \A e \in Envs : cfg[e] = Absent \/ HasSeed(cfg[e])

JobsOK ==
    \A e \in Envs : Active(e) => JobShape(job[e]) /\ JobCopy(job[e], cfg[e])

KilledGone ==
    \A e \in Envs, q \in running :
        Active(e) /\ q.env = e /\ q.id \in DOMAIN cfg[e].nodes
            => q.id \in Remaining(job[e], cfg[e])

PortsAt(env, ids) == UNION {Range(env.nodes[id].ports) : id \in ids}

(* The ports an environment needs: to its nodes and to those a command is  *)
(* creating.                                                               *)
Held(e) == PortsOf(cfg[e]) \cup (IF Active(e) THEN PortsOf(job[e].env) ELSE {})

AllHeld == UNION {Held(e) : e \in Envs}

(* The ports an environment has not given back.                            *)
Owned(e) ==
    IF Active(e) /\ job[e].cmd \in {"destroy", "kick"}
    THEN PortsAt(cfg[e], Remaining(job[e], cfg[e]))
         \cup (IF Working(job[e]) THEN Range(job[e].ports) ELSE {})
    ELSE Held(e)

AllOwned == UNION {Owned(e) : e \in Envs}

(* The cache has what is needed and nothing else.  Between truncation and  *)
(* write one of the commands that are about to write has it.               *)
CacheHasHeld ==
    /\ Readable => AllHeld \subseteq cache.ports \cup stale \cup released
    /\ cache.kind = "empty" =>
         \E h \in Envs : At(h, "write") /\ AllHeld \subseteq job[h].copy \cup stale \cup released

CacheIsOwned ==
    /\ Readable => cache.ports \subseteq AllOwned \cup stale \cup dropped
    /\ cache.kind = "empty" =>
         \E h \in Envs : At(h, "write") /\ job[h].copy \subseteq AllOwned \cup stale \cup dropped

NodesIn(e, env) == {[env |-> e, id |-> id, ports |-> env.nodes[id].ports] : id \in DOMAIN env.nodes}

NodesOf(e) == NodesIn(e, cfg[e]) \cup (IF Active(e) THEN NodesIn(e, job[e].env) ELSE {})

AllNodes == running \cup UNION {NodesOf(e) : e \in Envs}

NodesApart ==
    \A q, r \in AllNodes :
        q # r => Range(q.ports) \cap Range(r.ports) \subseteq stale \cup released \cup dropped

NodeMaps == UNION {[D -> Node] : D \in SUBSET Nat}

EnvRec == [nodes : NodeMaps, latest : Nat]

JobRec ==
    [cmd : {"create", "attach", "start", "stop", "destroy", "kick"},
     stage : {"draw", "load", "truncate", "write", "save", "launch", "kill", "remove"},
     env : EnvRec, kinds : Seq(Kinds), ports : Seq(AllPorts), todo : Seq(Nat),
     copy : SUBSET AllPorts, failed : BOOLEAN]

Process == [env : Envs, id : Nat, ports : Seq(AllPorts)]

Types ==
    /\ cache.kind \in {"holds", "empty", "garbled"} /\ cache.ports \subseteq AllPorts
    /\ cfg \in [Envs -> EnvRec]
    /\ job \in [Envs -> JobRec \cup {IdleJob}]
    /\ running \subseteq Process
    /\ stale \subseteq AllPorts /\ released \subseteq AllPorts /\ dropped \subseteq AllPorts
    /\ used \in 0..MaxCmds
    /\ \A e \in Envs : EnvOK(cfg[e])
    /\ \A e \in Envs : Active(e) => EnvOK(job[e].env)

DevInv ==
    /\ Types
    /\ Seeded
    /\ JobsOK
    /\ KilledGone
    /\ RunningIsConfigured
    /\ CacheHasHeld
    /\ CacheIsOwned
    /\ NodesApart

-----------------------------------------------------------------------------
(* The order of the ids.                                                   *)

Ascending(s, n) == \A i, k \in 1..n : i < k => s[i] < s[k]

(* A set of numbers up to n can be written in ascending order.             *)
LEMMA SortedExists ==
    ASSUME NEW n \in Nat, NEW S \in SUBSET (1..n)
    PROVE  \E s \in [1..Cardinality(S) -> S] :
             /\ \A i, k \in 1..Cardinality(S) : i < k => s[i] < s[k]
             /\ \A x \in S : \E i \in 1..Cardinality(S) : s[i] = x
<1> DEFINE Sorted(R) == \E s \in [1..Cardinality(R) -> R] :
             /\ \A i, k \in 1..Cardinality(R) : i < k => s[i] < s[k]
             /\ \A x \in R : \E i \in 1..Cardinality(R) : s[i] = x
           N == {m \in Nat : \A R \in SUBSET (1..m) : Sorted(R)}
<1>1. Sorted({})
  <2> DEFINE s == [i \in 1..0 |-> i]
  <2>1. Cardinality({}) = 0
    BY FS_EmptySet
  <2>2. s \in [1..0 -> {}]
    OBVIOUS
  <2> QED BY <2>1, <2>2
<1>2. 0 \in N
  <2>1. \A R \in SUBSET (1..0) : R = {}
    OBVIOUS
  <2> HIDE DEF Sorted
  <2> QED BY <1>1, <2>1
<1>3. ASSUME NEW m \in Nat, m \in N
      PROVE  m + 1 \in N
  <2> SUFFICES ASSUME NEW R \in SUBSET (1..(m + 1)) PROVE Sorted(R)
    <3> HIDE DEF Sorted
    <3> QED OBVIOUS
  <2>1. CASE m + 1 \notin R
    <3>1. R \in SUBSET (1..m)
      BY <2>1
    <3> HIDE DEF Sorted
    <3> QED BY <3>1, <1>3
  <2>2. CASE m + 1 \in R
    <3> DEFINE Q == R \ {m + 1}
    <3>1. Q \in SUBSET (1..m)
      OBVIOUS
    <3>2. Sorted(Q)
      <4> HIDE DEF Sorted
      <4> QED BY <3>1, <1>3
    <3>3. /\ IsFiniteSet(R)
          /\ Cardinality(R) = Cardinality(Q) + 1
          /\ Cardinality(Q) \in Nat
      <4>1. IsFiniteSet(1..(m + 1))
        BY FS_Interval
      <4>2. IsFiniteSet(R)
        BY <4>1, FS_Subset
      <4>3. IsFiniteSet(Q) /\ Cardinality(Q) = Cardinality(R) - 1
        BY <4>2, <2>2, FS_RemoveElement
      <4>4. Cardinality(R) \in Nat /\ Cardinality(Q) \in Nat
        BY <4>2, <4>3, FS_CardinalityType
      <4> QED BY <4>2, <4>3, <4>4
    <3> DEFINE c == Cardinality(Q)
    <3>4. PICK s \in [1..c -> Q] :
             /\ \A i, k \in 1..c : i < k => s[i] < s[k]
             /\ \A x \in Q : \E i \in 1..c : s[i] = x
      BY <3>2
    <3> DEFINE t == [i \in 1..(c + 1) |-> IF i = c + 1 THEN m + 1 ELSE s[i]]
    <3> HIDE DEF c
    <3>5. c \in Nat /\ Cardinality(R) = c + 1
      BY <3>3 DEF c
    <3>6. \A i \in 1..(c + 1) : i # c + 1 => i \in 1..c
      BY <3>5
    <3>7. t \in [1..(c + 1) -> R]
      BY <3>4, <3>6, <2>2
    <3>8. \A i \in 1..c : s[i] \in 1..m
      BY <3>1, <3>4
    <3>9. ASSUME NEW i \in 1..(c + 1), NEW k \in 1..(c + 1), i < k
          PROVE  t[i] < t[k]
      <4>1. i \in 1..c
        BY <3>9, <3>5
      <4>2. CASE k = c + 1
        BY <4>1, <4>2, <3>8, <3>5
      <4>3. CASE k # c + 1
        <5>1. k \in 1..c
          BY <4>3, <3>6
        <5>2. t[i] = s[i] /\ t[k] = s[k]
          BY <5>1, <4>1, <3>5
        <5> QED BY <5>1, <5>2, <4>1, <3>4, <3>9
      <4> QED BY <4>2, <4>3
    <3>10. ASSUME NEW x \in R
           PROVE  \E i \in 1..(c + 1) : t[i] = x
      <4>1. CASE x = m + 1
        <5>1. c + 1 \in 1..(c + 1) /\ t[c + 1] = m + 1
          BY <3>5
        <5> QED BY <5>1, <4>1
      <4>2. CASE x # m + 1
        <5>1. PICK i \in 1..c : s[i] = x
          BY <4>2, <3>4
        <5>2. i \in 1..(c + 1) /\ t[i] = x
          BY <5>1, <3>5
        <5> QED BY <5>2
      <4> QED BY <4>1, <4>2
    <3> HIDE DEF t
    <3> QED BY <3>5, <3>7, <3>9, <3>10
  <2> QED BY <2>1, <2>2
<1>4. Nat \subseteq N
  <2> HIDE DEF N
  <2> QED BY <1>2, <1>3, NatSetInduction
<1>5. Sorted(S)
  <2> HIDE DEF Sorted
  <2> QED BY <1>4
<1> QED BY <1>5

(* Every node of a kind is in the list of its kind.                        *)
LEMMA IdsOfAll ==
    ASSUME NEW env, EnvOK(env), NEW kind
    PROVE  LET ids == {id \in DOMAIN env.nodes : env.nodes[id].kind = kind}
           IN  /\ IdsOf(env, kind) \in Seq(ids)
               /\ Range(IdsOf(env, kind)) = ids
<1> DEFINE ids == {id \in DOMAIN env.nodes : env.nodes[id].kind = kind}
           s == IdsOf(env, kind)
           n == Cardinality(ids)
<1>1. env.latest \in Nat /\ ids \in SUBSET (1..env.latest)
  BY DEF EnvOK
<1>2. IsFiniteSet(ids) /\ n \in Nat
  <2> HIDE DEF ids
  <2>1. IsFiniteSet(1..env.latest)
    BY <1>1, FS_Interval
  <2>2. IsFiniteSet(ids)
    BY <1>1, <2>1, FS_Subset
  <2> QED BY <2>2, FS_CardinalityType
<1> HIDE DEF n
<1>3. PICK t \in [1..n -> ids] :
         /\ \A i, k \in 1..n : i < k => t[i] < t[k]
         /\ \A x \in ids : \E i \in 1..n : t[i] = x
  <2> HIDE DEF ids
  <2> QED BY <1>1, SortedExists DEF n
<1>4. /\ s \in [1..n -> ids]
      /\ \A i, k \in 1..n : i < k => s[i] < s[k]
  BY <1>3 DEF IdsOf, n
<1> HIDE DEF s, ids
<1>5. s \in Seq(ids) /\ DOMAIN s = 1..n
  BY <1>4, <1>2, SeqDef
<1>6. Range(s) \subseteq ids
  BY <1>4 DEF Range
<1>7. s \in Injection(1..n, ids)
  <2>1. \A i \in 1..n : s[i] \in Nat
    <3>1. \A x \in ids : x \in Nat
      BY <1>1
    <3> QED BY <3>1, <1>4
  <2>2. \A i, k \in 1..n : i # k => i < k \/ k < i
    BY <1>2
  <2>3. \A i, k \in 1..n : s[i] = s[k] => i = k
    BY <2>1, <2>2, <1>4
  <2> QED BY <2>3, <1>4 DEF Injection, IsInjective
<1>8. s \in Surjection(1..n, ids)
  <2>1. Cardinality(1..n) = Cardinality(ids)
    BY <1>2, FS_Interval DEF n
  <2> QED BY <2>1, <1>2, <1>7, FS_Injection
<1>9. ids \subseteq Range(s)
  BY <1>8, <1>4 DEF Surjection, Range
<1> QED BY <1>5, <1>6, <1>9 DEF s, ids

LEMMA RangeOfConcat ==
    ASSUME NEW S, NEW s \in Seq(S), NEW t \in Seq(S)
    PROVE  /\ s \o t \in Seq(S)
           /\ Range(s \o t) = Range(s) \cup Range(t)
<1>1. /\ s \o t \in Seq(S)
      /\ Len(s \o t) = Len(s) + Len(t)
      /\ \A i \in 1..Len(s) : (s \o t)[i] = s[i]
      /\ \A i \in Len(s)+1..Len(s)+Len(t) : (s \o t)[i] = t[i - Len(s)]
  BY ConcatProperties
<1>2. /\ Len(s) \in Nat /\ Len(t) \in Nat
      /\ DOMAIN s = 1..Len(s) /\ DOMAIN t = 1..Len(t) /\ DOMAIN (s \o t) = 1..Len(s \o t)
  BY <1>1, LenProperties
<1>3. ASSUME NEW i \in 1..Len(t)
      PROVE  i + Len(s) \in DOMAIN (s \o t) /\ (s \o t)[i + Len(s)] = t[i]
  <2>1. i + Len(s) \in Len(s)+1..Len(s)+Len(t) /\ (i + Len(s)) - Len(s) = i
    BY <1>2
  <2> QED BY <2>1, <1>1, <1>2
<1>4. ASSUME NEW i \in DOMAIN (s \o t)
      PROVE  (s \o t)[i] \in Range(s) \cup Range(t)
  <2>1. CASE i \in 1..Len(s)
    BY <2>1, <1>1, <1>2 DEF Range
  <2>2. CASE i \notin 1..Len(s)
    <3>1. i \in Len(s)+1..Len(s)+Len(t) /\ i - Len(s) \in 1..Len(t)
      BY <2>2, <1>1, <1>2
    <3> QED BY <3>1, <1>1, <1>2 DEF Range
  <2> QED BY <2>1, <2>2
<1>5. Range(s) \subseteq Range(s \o t)
  BY <1>1, <1>2 DEF Range
<1>6. Range(t) \subseteq Range(s \o t)
  BY <1>2, <1>3 DEF Range
<1>7. Range(s \o t) \subseteq Range(s) \cup Range(t)
  BY <1>4 DEF Range
<1> QED BY <1>1, <1>5, <1>6, <1>7

(* The head of a list and what comes after it.                             *)
LEMMA HeadAndTail ==
    ASSUME NEW S, NEW s \in Seq(S), s # <<>>
    PROVE  /\ Head(s) \in S /\ Tail(s) \in Seq(S)
           /\ Range(s) = {Head(s)} \cup Range(Tail(s))
           /\ Len(s) \in Nat /\ Len(s) >= 1 /\ Len(Tail(s)) = Len(s) - 1
           /\ Range(s) \subseteq S
<1>1. /\ Head(s) \in S /\ Tail(s) \in Seq(S) /\ Head(s) = s[1]
      /\ Len(Tail(s)) = Len(s) - 1 /\ Len(s) \in Nat /\ Len(s) >= 1
      /\ \A i \in 1..Len(Tail(s)) : Tail(s)[i] = s[i + 1]
  BY HeadTailProperties, EmptySeq, LenProperties
<1>2. DOMAIN s = 1..Len(s) /\ DOMAIN Tail(s) = 1..(Len(s) - 1)
  BY <1>1, LenProperties
<1>3. ASSUME NEW i \in DOMAIN s
      PROVE  s[i] \in {Head(s)} \cup Range(Tail(s))
  <2>1. CASE i = 1
    BY <2>1, <1>1
  <2>2. CASE i # 1
    <3>1. i - 1 \in 1..(Len(s) - 1) /\ (i - 1) + 1 = i
      BY <2>2, <1>2, <1>1
    <3> QED BY <3>1, <1>1, <1>2 DEF Range
  <2> QED BY <2>1, <2>2
<1>4. ASSUME NEW i \in DOMAIN Tail(s)
      PROVE  Tail(s)[i] \in Range(s)
  <2>1. i + 1 \in DOMAIN s
    BY <1>1, <1>2
  <2> QED BY <2>1, <1>1, <1>2 DEF Range
<1>5. Head(s) \in Range(s)
  BY <1>1, <1>2 DEF Range
<1>6. Range(s) \subseteq S
  BY <1>2, ElementOfSeq DEF Range
<1>7. Range(s) = {Head(s)} \cup Range(Tail(s))
  BY <1>3, <1>4, <1>5 DEF Range
<1> QED BY <1>1, <1>6, <1>7

LEMMA RangeOfEmpty == Range(<<>>) = {}
BY DEF Range

(* start and stop go through all the nodes of a configuration.             *)
LEMMA OrdersHaveAll ==
    ASSUME NEW env, EnvOK(env)
    PROVE  /\ StartOrder(env) \in Seq(Nat) /\ Range(StartOrder(env)) = DOMAIN env.nodes
           /\ StopOrder(env) \in Seq(Nat) /\ Range(StopOrder(env)) = DOMAIN env.nodes
           /\ HasSeed(env) => StartOrder(env) # <<>> /\ StopOrder(env) # <<>>
<1> DEFINE ids(kind) == {id \in DOMAIN env.nodes : env.nodes[id].kind = kind}
           D == DOMAIN env.nodes
<1>1. D \subseteq Nat /\ \A id \in D : env.nodes[id].kind \in Kinds
  BY DEF EnvOK, Node, Kinds
<1>2. D = ids("seed") \cup ids("full") \cup ids("node")
  BY <1>1 DEF Kinds
<1>3. ASSUME NEW kind
      PROVE  IdsOf(env, kind) \in Seq(Nat) /\ Range(IdsOf(env, kind)) = ids(kind)
  <2>1. IdsOf(env, kind) \in Seq(ids(kind)) /\ Range(IdsOf(env, kind)) = ids(kind)
    BY IdsOfAll
  <2>2. Seq(ids(kind)) \subseteq Seq(Nat)
    <3>1. ids(kind) \subseteq Nat
      BY <1>1
    <3> HIDE DEF ids
    <3> QED BY <3>1, SeqDef
  <2> QED BY <2>1, <2>2
<1> HIDE DEF ids, D
<1>4. ASSUME NEW s \in Seq(Nat), NEW t \in Seq(Nat), NEW u \in Seq(Nat)
       PROVE  /\ (s \o t) \o u \in Seq(Nat)
              /\ Range((s \o t) \o u) = Range(s) \cup Range(t) \cup Range(u)
  <2>1. s \o t \in Seq(Nat) /\ Range(s \o t) = Range(s) \cup Range(t)
    BY RangeOfConcat
  <2> DEFINE st == s \o t
  <2> HIDE DEF st
  <2>2. st \in Seq(Nat) /\ Range(st) = Range(s) \cup Range(t)
    BY <2>1 DEF st
  <2>3. st \o u \in Seq(Nat) /\ Range(st \o u) = Range(st) \cup Range(u)
    BY <2>2, RangeOfConcat
  <2> QED BY <2>2, <2>3 DEF st
<1>5. /\ StartOrder(env) \in Seq(Nat)
      /\ Range(StartOrder(env)) = ids("seed") \cup ids("full") \cup ids("node")
  BY <1>3, <1>4 DEF StartOrder
<1>6. /\ StopOrder(env) \in Seq(Nat)
      /\ Range(StopOrder(env)) = ids("seed") \cup ids("full") \cup ids("node")
  BY <1>3, <1>4 DEF StopOrder
<1>7. HasSeed(env) => D # {}
  BY DEF HasSeed, D
<1>8. HasSeed(env) => StartOrder(env) # <<>> /\ StopOrder(env) # <<>>
  BY <1>2, <1>5, <1>6, <1>7, RangeOfEmpty
<1> QED BY <1>2, <1>5, <1>6, <1>8 DEF D

-----------------------------------------------------------------------------
(* Ports that are held or owned are listed, and those of a process are     *)
(* held or were dropped.                                                   *)

LEMMA RemainingIds ==
    Types /\ JobsOK =>
        \A e \in Envs : Active(e) => Remaining(job[e], cfg[e]) \subseteq DOMAIN cfg[e].nodes
<1> SUFFICES ASSUME Types, JobsOK, NEW e \in Envs, Active(e)
             PROVE  Remaining(job[e], cfg[e]) \subseteq DOMAIN cfg[e].nodes
  OBVIOUS
<1> DEFINE j == job[e]
<1>1. j \in JobRec /\ JobShape(j) /\ JobCopy(j, cfg[e])
  BY DEF Types, JobsOK, Active
<1> HIDE DEF j
<1>2. CASE j.cmd \in {"create", "attach", "start"}
  BY <1>2 DEF Remaining, j
<1>3. CASE j.cmd \in {"stop", "destroy"}
  <2>1. j.env = cfg[e] /\ Range(j.todo) \subseteq DOMAIN cfg[e].nodes
    BY <1>1, <1>3 DEF JobCopy, JobShape
  <2>2. j.todo # <<>> => Range(Tail(j.todo)) \subseteq Range(j.todo)
    BY <1>1, HeadAndTail DEF JobRec
  <2>3. j.stage \in {"load", "truncate", "write"} => j.todo # <<>>
    BY <1>1, <1>3 DEF JobShape, Working, Allocates
  <2>4. j.stage \in {"kill", "load", "truncate", "write", "remove"}
    BY <1>1, <1>3 DEF JobShape, StagesOf
  <2> HIDE DEF JobRec
  <2>5. Remaining(j, cfg[e]) = IF j.stage = "kill" THEN Range(j.todo)
                               ELSE IF j.stage # "remove" THEN Range(Tail(j.todo))
                               ELSE IF j.failed THEN DOMAIN cfg[e].nodes ELSE {}
    BY <1>3 DEF Remaining
  <2> QED BY <2>1, <2>2, <2>3, <2>4, <2>5 DEF j
<1>4. CASE j.cmd = "kick"
  <2>1. DOMAIN j.env.nodes \subseteq DOMAIN cfg[e].nodes
    BY <1>1, <1>4 DEF JobCopy
  <2> QED BY <2>1, <1>4 DEF Remaining, j
<1> QED BY <1>1, <1>2, <1>3, <1>4 DEF JobRec

LEMMA OwnedIsHeld ==
    Types /\ JobsOK => \A f \in Envs : Owned(f) \subseteq Held(f)
<1> SUFFICES ASSUME Types, JobsOK, NEW e \in Envs
             PROVE  Owned(e) \subseteq Held(e)
  OBVIOUS
<1> DEFINE j == job[e]
<1>1. CASE Active(e) /\ j.cmd \in {"destroy", "kick"}
  <2>1. Remaining(j, cfg[e]) \subseteq DOMAIN cfg[e].nodes
    BY <1>1, RemainingIds
  <2>2. PortsAt(cfg[e], Remaining(j, cfg[e])) \subseteq PortsOf(cfg[e])
    BY <2>1 DEF PortsAt, PortsOf
  <2>3. j \in JobRec /\ JobShape(j)
    BY <1>1 DEF Types, JobsOK, Active
  <2>4. Working(j) => Range(j.ports) \subseteq PortsOf(j.env)
    <3> SUFFICES ASSUME Working(j) PROVE Range(j.ports) \subseteq PortsOf(j.env)
      OBVIOUS
    <3>1. /\ j.todo # <<>> /\ Range(j.todo) \subseteq DOMAIN j.env.nodes
          /\ Range(j.ports) \subseteq Range(j.env.nodes[Head(j.todo)].ports)
      BY <2>3, <1>1 DEF JobShape, Allocates
    <3>2. Head(j.todo) \in DOMAIN j.env.nodes
      BY <3>1, <2>3, HeadAndTail DEF JobRec
    <3> QED BY <3>1, <3>2 DEF PortsOf
  <2> HIDE DEF j
  <2> QED BY <1>1, <2>2, <2>4 DEF Owned, Held, j
<1>2. CASE ~(Active(e) /\ j.cmd \in {"destroy", "kick"})
  BY <1>2 DEF Owned
<1> QED BY <1>1, <1>2

LEMMA HeldIsListed == AllHeld \subseteq Listed
BY DEF AllHeld, Held, Listed, Active

LEMMA OwnedIsListed == Types /\ JobsOK => AllOwned \subseteq Listed
BY OwnedIsHeld, HeldIsListed DEF AllOwned, AllHeld

PortsAccounted == \A q \in AllNodes : Range(q.ports) \subseteq AllHeld \cup dropped

LEMMA PortsOfNodes == Types /\ RunningIsConfigured => PortsAccounted
<1> SUFFICES ASSUME Types, RunningIsConfigured, NEW q \in AllNodes
             PROVE  Range(q.ports) \subseteq AllHeld \cup dropped
  BY DEF PortsAccounted
<1>1. \A e \in Envs : \A env : \A r \in NodesIn(e, env) : Range(r.ports) \subseteq PortsOf(env)
  BY DEF NodesIn, PortsOf
<1>2. ASSUME NEW e \in Envs, q \in NodesOf(e)
      PROVE  Range(q.ports) \subseteq AllHeld
  <2>1. Range(q.ports) \subseteq Held(e)
    BY <1>1, <1>2 DEF NodesOf, Held
  <2> QED BY <2>1 DEF AllHeld
<1>3. CASE q \in running
  <2>1. CASE q.id \in DOMAIN cfg[q.env].nodes /\ cfg[q.env].nodes[q.id].ports = q.ports
    <3>1. q.env \in Envs
      BY <1>3 DEF Types, Process
    <3>2. Range(q.ports) \subseteq PortsOf(cfg[q.env])
      BY <2>1 DEF PortsOf
    <3> QED BY <3>1, <3>2 DEF AllHeld, Held
  <2>2. CASE Range(q.ports) \subseteq dropped
    BY <2>2
  <2> QED BY <1>3, <2>1, <2>2 DEF RunningIsConfigured
<1> QED BY <1>2, <1>3 DEF AllNodes

-----------------------------------------------------------------------------
(* Steps of a command on e.                                                *)

(* What the command does to its own copy and to the nodes decides whether  *)
(* jobs, configurations and processes stay in order.                       *)
LEMMA JobsStay ==
    ASSUME DevInv, Types', NEW e \in Envs,
           \A f \in Envs \ {e} : cfg'[f] = cfg[f] /\ job'[f] = job[f],
           cfg'[e] = Absent \/ HasSeed(cfg'[e]),
           Active(e)' => JobShape(job'[e]) /\ JobCopy(job'[e], cfg'[e]),
           \A q \in running' : q.env # e => q \in running,
           dropped \subseteq dropped',
           \A q \in running' : q.env = e =>
              \/ q.id \in DOMAIN cfg'[e].nodes /\ cfg'[e].nodes[q.id].ports = q.ports
              \/ Range(q.ports) \subseteq dropped',
           Active(e)' => \A q \in running' :
              q.env = e /\ q.id \in DOMAIN cfg'[e].nodes => q.id \in Remaining(job'[e], cfg'[e])
    PROVE  Seeded' /\ JobsOK' /\ KilledGone' /\ RunningIsConfigured'
<1>1. \A f \in Envs \ {e} : Active(f)' <=> Active(f)
  BY DEF Active
<1>2. Seeded'
  BY DEF DevInv, Seeded
<1>3. JobsOK'
  BY <1>1 DEF DevInv, JobsOK
<1>4. \A q \in running' : q.env \in Envs
  BY DEF Types, Process
<1>5. KilledGone'
  BY <1>1 DEF DevInv, KilledGone
<1>6. RunningIsConfigured'
  BY <1>4 DEF DevInv, RunningIsConfigured
<1> QED BY <1>2, <1>3, <1>5, <1>6

(* A step that leaves the cache alone and writes nothing.                  *)
LEMMA CacheStays ==
    ASSUME DevInv, Types', JobsOK', RunningIsConfigured', NEW e \in Envs,
           \A f \in Envs \ {e} : cfg'[f] = cfg[f] /\ job'[f] = job[f],
           ~At(e, "write"), cache' = cache, stale' = stale,
           dropped \subseteq dropped', released \cap Listed' \subseteq released',
           running' \subseteq AllNodes,
           NodesOf(e)' \subseteq NodesOf(e),
           Held(e)' \subseteq Held(e),
           Owned(e) \subseteq Owned(e)' \cup dropped'
    PROVE  CacheHasHeld' /\ CacheIsOwned' /\ NodesApart'
<1>1. \A f \in Envs \ {e} : /\ Active(f)' <=> Active(f)
                            /\ Held(f)' = Held(f)
                            /\ Owned(f)' = Owned(f)
                            /\ NodesOf(f)' = NodesOf(f)
  BY DEF Active, Held, Owned, NodesOf
<1>2. AllHeld' \subseteq AllHeld
  BY <1>1 DEF AllHeld
<1>3. AllOwned \subseteq AllOwned' \cup dropped'
  BY <1>1 DEF AllOwned
<1>4. AllNodes' \subseteq AllNodes
  BY <1>1 DEF AllNodes
<1>5. (AllHeld \subseteq Listed)'
  BY HeldIsListed, PTL
<1>6. released \cap AllHeld' \subseteq released'
  BY <1>5
<1>7. \A h \in Envs : At(h, "write") => At(h, "write")' /\ job'[h] = job[h]
  BY DEF At
<1>8. Readable' <=> Readable
  BY DEF Readable
<1>9. CacheHasHeld'
  <2>1. Readable' => AllHeld' \subseteq cache'.ports \cup stale' \cup released'
    BY <1>2, <1>6, <1>8 DEF DevInv, CacheHasHeld
  <2>2. ASSUME cache'.kind = "empty"
        PROVE  \E h \in Envs : At(h, "write")' /\ AllHeld' \subseteq job'[h].copy \cup stale' \cup released'
    <3>1. PICK h \in Envs : At(h, "write") /\ AllHeld \subseteq job[h].copy \cup stale \cup released
      BY <2>2 DEF DevInv, CacheHasHeld
    <3>2. AllHeld' \subseteq job'[h].copy \cup stale' \cup released'
      BY <3>1, <1>2, <1>6, <1>7
    <3> QED BY <3>1, <3>2, <1>7
  <2> QED BY <2>1, <2>2 DEF CacheHasHeld
<1>10. CacheIsOwned'
  <2>1. Readable' => cache'.ports \subseteq AllOwned' \cup stale' \cup dropped'
    BY <1>3, <1>8 DEF DevInv, CacheIsOwned
  <2>2. ASSUME cache'.kind = "empty"
        PROVE  \E h \in Envs : At(h, "write")' /\ job'[h].copy \subseteq AllOwned' \cup stale' \cup dropped'
    <3>1. PICK h \in Envs : At(h, "write") /\ job[h].copy \subseteq AllOwned \cup stale \cup dropped
      BY <2>2 DEF DevInv, CacheIsOwned
    <3>2. job'[h].copy \subseteq AllOwned' \cup stale' \cup dropped'
      BY <3>1, <1>3, <1>7
    <3> QED BY <3>1, <3>2, <1>7
  <2> QED BY <2>1, <2>2 DEF CacheIsOwned
<1>11. NodesApart'
  <2> SUFFICES ASSUME NEW q \in AllNodes', NEW r \in AllNodes', q # r
               PROVE  Range(q.ports) \cap Range(r.ports) \subseteq stale' \cup released' \cup dropped'
    BY DEF NodesApart
  <2>1. Range(q.ports) \cap Range(r.ports) \subseteq stale \cup released \cup dropped
    BY <1>4 DEF DevInv, NodesApart
  <2>2. Range(q.ports) \subseteq AllHeld' \cup dropped'
    <3>1. Types' /\ RunningIsConfigured' => PortsAccounted'
      BY PortsOfNodes, PTL
    <3> QED BY <3>1 DEF PortsAccounted
  <2> QED BY <2>1, <2>2, <1>6
<1> QED BY <1>9, <1>10, <1>11

LEMMA QuietStep ==
    ASSUME DevInv, Types', NEW e \in Envs,
           \A f \in Envs \ {e} : cfg'[f] = cfg[f] /\ job'[f] = job[f],
           cfg'[e] = Absent \/ HasSeed(cfg'[e]),
           Active(e)' => JobShape(job'[e]) /\ JobCopy(job'[e], cfg'[e]),
           \A q \in running' : q.env # e => q \in running,
           \A q \in running' : q.env = e =>
              \/ q.id \in DOMAIN cfg'[e].nodes /\ cfg'[e].nodes[q.id].ports = q.ports
              \/ Range(q.ports) \subseteq dropped',
           Active(e)' => \A q \in running' :
              q.env = e /\ q.id \in DOMAIN cfg'[e].nodes => q.id \in Remaining(job'[e], cfg'[e]),
           ~At(e, "write"), cache' = cache, stale' = stale,
           dropped \subseteq dropped', released \cap Listed' \subseteq released',
           running' \subseteq AllNodes,
           NodesOf(e)' \subseteq NodesOf(e),
           Held(e)' \subseteq Held(e),
           Owned(e) \subseteq Owned(e)' \cup dropped'
    PROVE  DevInv'
<1>1. Seeded' /\ JobsOK' /\ KilledGone' /\ RunningIsConfigured'
  BY JobsStay
<1>2. CacheHasHeld' /\ CacheIsOwned' /\ NodesApart'
  BY <1>1, CacheStays
<1> QED BY <1>1, <1>2 DEF DevInv

(* What DevInv says of one active command.                                 *)
LEMMA JobFacts ==
    ASSUME DevInv, NEW e \in Envs, Active(e)
    PROVE  /\ job[e] \in JobRec /\ EnvOK(job[e].env)
           /\ JobShape(job[e]) /\ JobCopy(job[e], cfg[e])
           /\ Held(e) = PortsOf(cfg[e]) \cup PortsOf(job[e].env)
           /\ NodesOf(e) = NodesIn(e, cfg[e]) \cup NodesIn(e, job[e].env)
           /\ \A q \in running : q.env = e /\ q.id \in DOMAIN cfg[e].nodes
                                   => q.id \in Remaining(job[e], cfg[e])
BY DEF DevInv, Types, JobsOK, KilledGone, Active, Held, NodesOf

LEMMA EnvFacts ==
    ASSUME DevInv, NEW e \in Envs
    PROVE  /\ cfg[e] \in EnvRec /\ EnvOK(cfg[e])
           /\ cfg[e] = Absent \/ HasSeed(cfg[e])
           /\ running \subseteq AllNodes
           /\ \A q \in running : q.env = e =>
                \/ q.id \in DOMAIN cfg[e].nodes /\ cfg[e].nodes[q.id].ports = q.ports
                \/ Range(q.ports) \subseteq dropped
BY DEF DevInv, Types, Seeded, AllNodes, RunningIsConfigured

LEMMA AbsentOK ==
    /\ Absent \in EnvRec /\ EnvOK(Absent) /\ DOMAIN Absent.nodes = {}
    /\ PortsOf(Absent) = {}
    /\ \A e : NodesIn(e, Absent) = {}
<1>1. DOMAIN Absent.nodes = {} /\ Absent.latest = 0
  BY DEF Absent
<1>2. Absent.nodes \in NodeMaps
  <2>1. Absent.nodes \in [{} -> Node]
    BY DEF Absent
  <2> QED BY <2>1 DEF NodeMaps
<1>3. Absent \in EnvRec
  <2> HIDE DEF NodeMaps
  <2> QED BY <1>2 DEF EnvRec, Absent
<1> QED BY <1>1, <1>3 DEF EnvOK, PortsOf, NodesIn

LEMMA BeginStep ==
    ASSUME DevInv, NEW e \in Envs, NEW j, Begin(e, j),
           j \in JobRec, EnvOK(j.env), JobShape(j), JobCopy(j, cfg[e]),
           DOMAIN cfg[e].nodes \subseteq Remaining(j, cfg[e]),
           j.env \in {cfg[e], Absent}
    PROVE  DevInv'
<1>1. /\ job[e] = IdleJob /\ cfg' = cfg /\ cache' = cache /\ running' = running
      /\ stale' = stale /\ released' = released /\ dropped' = dropped
      /\ used < MaxCmds /\ used' = used + 1
      /\ job' = [job EXCEPT ![e] = j]
  BY DEF Begin, history
<1>2. Types
  BY DEF DevInv
<1>3. job \in [Envs -> JobRec \cup {IdleJob}]
  BY <1>2 DEF Types
<1>4. /\ job'[e] = j /\ \A f \in Envs \ {e} : job'[f] = job[f] /\ cfg'[f] = cfg[f]
      /\ job' \in [Envs -> JobRec \cup {IdleJob}]
  BY <1>1, <1>3
<1>5. Active(e)' /\ ~Active(e)
  BY <1>1, <1>4 DEF Active, JobRec, IdleJob
<1>6. Types'
  <2>1. used' \in 0..MaxCmds
    BY <1>1, <1>2, DevEnvAssumption DEF Types
  <2>2. \A f \in Envs : Active(f)' => EnvOK(job'[f].env)
    BY <1>2, <1>4 DEF Types, Active
  <2> QED BY <1>1, <1>2, <1>4, <2>1, <2>2 DEF Types
<1>7. Held(e)' \subseteq Held(e)
  BY <1>1, <1>4, <1>5, AbsentOK DEF Held
<1>8. NodesOf(e)' \subseteq NodesOf(e)
  BY <1>1, <1>4, <1>5, AbsentOK DEF NodesOf
<1>9. Owned(e) \subseteq Owned(e)'
  <2>1. PortsOf(cfg[e]) \subseteq PortsAt(cfg[e], Remaining(j, cfg[e]))
    BY DEF PortsOf, PortsAt
  <2>2. Owned(e) = PortsOf(cfg[e])
    BY <1>5 DEF Owned, Held
  <2>3. PortsOf(cfg[e]) \subseteq Held(e)'
    BY <1>1 DEF Held
  <2> QED BY <1>1, <1>4, <2>1, <2>2, <2>3 DEF Owned
<1>10. ~At(e, "write")
  BY <1>5 DEF At, Active
<1>11. cfg'[e] = Absent \/ HasSeed(cfg'[e])
  BY <1>1, EnvFacts
<1>12. \A q \in running' : q.env = e =>
           \/ q.id \in DOMAIN cfg'[e].nodes /\ cfg'[e].nodes[q.id].ports = q.ports
           \/ Range(q.ports) \subseteq dropped'
  BY <1>1, EnvFacts
<1>13. running' \subseteq AllNodes
  BY <1>1, EnvFacts
<1> HIDE DEF DevInv
<1> QED BY <1>1, <1>4, <1>6, <1>7, <1>8, <1>9, <1>10, <1>11, <1>12, <1>13, QuietStep

LEMMA JobTypes ==
    ASSUME NEW cmd \in {"create", "attach", "start", "stop", "destroy", "kick"},
           NEW stage \in {"draw", "save", "kill"}, NEW env \in EnvRec,
           NEW kinds \in Seq(Kinds), NEW todo \in Seq(Nat),
           NEW j, j = Job(cmd, stage, env, kinds, todo)
    PROVE  /\ j \in JobRec
           /\ j.cmd = cmd /\ j.stage = stage /\ j.env = env /\ j.kinds = kinds
           /\ j.ports = <<>> /\ j.todo = todo /\ ~j.failed /\ ~Working(j)
BY DEF Job, JobRec, Working

LEMMA PortsPerNodePositive == PortsPerNode \in Nat /\ PortsPerNode >= 1
BY DevEnvAssumption, HeadAndTail DEF PortsPerNode

LEMMA NoPorts == Len(<<>>) =< PortsPerNode
BY PortsPerNodePositive

LEMMA HeadOfConcat ==
    ASSUME NEW S, NEW s \in Seq(S), NEW t \in Seq(S), Len(s) >= 1
    PROVE  s \o t \in Seq(S) /\ s \o t # <<>> /\ Head(s \o t) = s[1]
<1>1. /\ s \o t \in Seq(S) /\ Len(s \o t) = Len(s) + Len(t)
      /\ \A i \in 1..Len(s) : (s \o t)[i] = s[i]
  BY ConcatProperties
<1>2. Len(s) \in Nat /\ Len(t) \in Nat
  BY LenProperties
<1> DEFINE u == s \o t
<1> HIDE DEF u
<1>3. u \in Seq(S) /\ Len(u) >= 1 /\ u[1] = s[1]
  BY <1>1, <1>2 DEF u
<1>4. u # <<>> /\ Head(u) = u[1]
  BY <1>3, EmptySeq, HeadTailProperties
<1> QED BY <1>3, <1>4 DEF u

LEMMA CreateKeeps ==
    ASSUME DevInv, NEW e \in Envs, Create(e)
    PROVE  DevInv'
<1> DEFINE rest  == [i \in 1..ValidatorNum |-> "node"]
           first == <<"seed", "full">>
           kinds == first \o rest
           j     == Job("create", "draw", Absent, kinds, <<>>)
<1>1. first \in Seq(Kinds) /\ Len(first) = 2 /\ first[1] = "seed"
  BY DEF Kinds
<1>2. rest \in Seq(Kinds)
  BY DevEnvAssumption, SeqDef DEF Kinds
<1> HIDE DEF rest, first
<1>3. kinds \in Seq(Kinds) /\ kinds # <<>> /\ Head(kinds) = "seed"
  BY <1>1, <1>2, HeadOfConcat
<1> HIDE DEF kinds
<1>4. /\ j \in JobRec
      /\ j.cmd = "create" /\ j.stage = "draw" /\ j.env = Absent /\ j.kinds = kinds
      /\ j.ports = <<>> /\ j.todo = <<>> /\ ~j.failed /\ ~Working(j)
  <2>1. <<>> \in Seq(Nat)
    OBVIOUS
  <2> HIDE DEF j
  <2>2. j = Job("create", "draw", Absent, kinds, <<>>)
    BY DEF j
  <2> QED BY <2>1, <2>2, <1>3, AbsentOK DEF Job, JobRec, Working
<1> HIDE DEF j
<1>5. Begin(e, j)
  BY DEF Create, j, kinds, rest, first
<1>6. FromNothing(j)
  BY <1>3, <1>4 DEF FromNothing
<1>7. JobShape(j)
  BY <1>3, <1>4, <1>6, RangeOfEmpty, PortsPerNodePositive DEF JobShape, StagesOf, Allocates
<1>8. JobCopy(j, cfg[e])
  BY <1>4 DEF JobCopy
<1>9. Remaining(j, cfg[e]) = DOMAIN cfg[e].nodes
  BY <1>4 DEF Remaining
<1>10. EnvOK(j.env) /\ j.env \in {cfg[e], Absent}
  BY <1>4, AbsentOK
<1> HIDE DEF DevInv
<1> QED BY <1>4, <1>5, <1>7, <1>8, <1>9, <1>10, BeginStep

LEMMA LoadedOK ==
    ASSUME DevInv, NEW e \in Envs, Loads(e)
    PROVE  /\ cfg[e] \in EnvRec /\ EnvOK(cfg[e]) /\ HasSeed(cfg[e])
           /\ StartOrder(cfg[e]) \in Seq(Nat) /\ Range(StartOrder(cfg[e])) = DOMAIN cfg[e].nodes
           /\ StopOrder(cfg[e]) \in Seq(Nat) /\ Range(StopOrder(cfg[e])) = DOMAIN cfg[e].nodes
           /\ StartOrder(cfg[e]) # <<>> /\ StopOrder(cfg[e]) # <<>>
<1> HIDE DEF DevInv
<1>1. EnvOK(cfg[e]) /\ HasSeed(cfg[e]) /\ cfg[e] \in EnvRec
  BY EnvFacts DEF Loads
<1> QED BY <1>1, OrdersHaveAll

LEMMA StartKeeps ==
    ASSUME DevInv, NEW e \in Envs, Start(e)
    PROVE  DevInv'
<1> DEFINE todo == StartOrder(cfg[e])
           j == Job("start", "save", cfg[e], <<>>, todo)
<1>1. Loads(e) /\ Begin(e, j)
  BY DEF Start
<1> HIDE DEF j, todo, DevInv
<1>2. /\ cfg[e] \in EnvRec /\ EnvOK(cfg[e]) /\ HasSeed(cfg[e])
      /\ todo \in Seq(Nat) /\ Range(todo) = DOMAIN cfg[e].nodes
  BY <1>1, LoadedOK DEF todo
<1>3. /\ j \in JobRec
      /\ j.cmd = "start" /\ j.stage = "save" /\ j.env = cfg[e]
      /\ j.ports = <<>> /\ j.todo = todo /\ ~j.failed /\ ~Working(j)
  <2>1. <<>> \in Seq(Kinds)
    OBVIOUS
  <2>2. j = Job("start", "save", cfg[e], <<>>, todo)
    BY DEF j
  <2> QED BY <2>1, <2>2, <1>2 DEF Job, JobRec, Working
<1>4. JobShape(j) /\ JobCopy(j, cfg[e])
  BY <1>2, <1>3, NoPorts DEF JobShape, JobCopy, StagesOf, Allocates
<1>5. Remaining(j, cfg[e]) = DOMAIN cfg[e].nodes
  BY <1>3 DEF Remaining
<1> QED BY <1>1, <1>2, <1>3, <1>4, <1>5, BeginStep

LEMMA AttachKeeps ==
    ASSUME DevInv, NEW e \in Envs, AttachNode(e)
    PROVE  DevInv'
<1> DEFINE j == Job("attach", "draw", cfg[e], <<"node">>, <<>>)
<1>1. Loads(e) /\ Begin(e, j)
  BY DEF AttachNode
<1> HIDE DEF j, DevInv
<1>2. cfg[e] \in EnvRec /\ EnvOK(cfg[e]) /\ HasSeed(cfg[e])
  BY <1>1, LoadedOK
<1>3. /\ j \in JobRec
      /\ j.cmd = "attach" /\ j.stage = "draw" /\ j.env = cfg[e] /\ j.kinds = <<"node">>
      /\ j.ports = <<>> /\ j.todo = <<>> /\ ~j.failed /\ ~Working(j)
  <2>1. <<"node">> \in Seq(Kinds) /\ <<>> \in Seq(Nat)
    BY DEF Kinds
  <2>2. j = Job("attach", "draw", cfg[e], <<"node">>, <<>>)
    BY DEF j
  <2> QED BY <2>1, <2>2, <1>2 DEF Job, JobRec, Working
<1>4. JobShape(j) /\ JobCopy(j, cfg[e])
  BY <1>2, <1>3, RangeOfEmpty, PortsPerNodePositive DEF JobShape, JobCopy, StagesOf, Allocates
<1>5. Remaining(j, cfg[e]) = DOMAIN cfg[e].nodes
  BY <1>3 DEF Remaining
<1> QED BY <1>1, <1>2, <1>3, <1>4, <1>5, BeginStep

LEMMA StopKeeps ==
    ASSUME DevInv, NEW e \in Envs, NEW cmd \in {"stop", "destroy"}, Loads(e),
           Begin(e, Job(cmd, "kill", cfg[e], <<>>, StopOrder(cfg[e])))
    PROVE  DevInv'
<1> DEFINE todo == StopOrder(cfg[e])
           j == Job(cmd, "kill", cfg[e], <<>>, todo)
<1>1. Begin(e, j)
  OBVIOUS
<1> HIDE DEF j, todo, DevInv
<1>2. /\ cfg[e] \in EnvRec /\ EnvOK(cfg[e]) /\ HasSeed(cfg[e])
      /\ todo \in Seq(Nat) /\ Range(todo) = DOMAIN cfg[e].nodes /\ todo # <<>>
  BY LoadedOK DEF todo
<1>3. /\ j \in JobRec
      /\ j.cmd = cmd /\ j.stage = "kill" /\ j.env = cfg[e]
      /\ j.ports = <<>> /\ j.todo = todo /\ ~j.failed /\ ~Working(j)
  <2>1. <<>> \in Seq(Kinds)
    OBVIOUS
  <2>2. j = Job(cmd, "kill", cfg[e], <<>>, todo)
    BY DEF j
  <2> QED BY <2>1, <2>2, <1>2 DEF Job, JobRec, Working
<1>4. JobShape(j) /\ JobCopy(j, cfg[e])
  BY <1>2, <1>3, NoPorts DEF JobShape, JobCopy, StagesOf, Allocates
<1>5. Remaining(j, cfg[e]) = DOMAIN cfg[e].nodes
  BY <1>2, <1>3 DEF Remaining
<1> QED BY <1>1, <1>2, <1>3, <1>4, <1>5, BeginStep

LEMMA KickKeeps ==
    ASSUME DevInv, NEW e \in Envs, KickNode(e)
    PROVE  DevInv'
<1> DEFINE ids == IdsOf(cfg[e], "node")
           id == Last(ids)
           j == Job("kick", "kill", cfg[e], <<>>, <<id>>)
<1>1. Loads(e) /\ ids # <<>> /\ Begin(e, j)
  BY DEF KickNode
<1> HIDE DEF j, DevInv
<1>2. cfg[e] \in EnvRec /\ EnvOK(cfg[e]) /\ HasSeed(cfg[e])
  BY <1>1, LoadedOK
<1>3. id \in DOMAIN cfg[e].nodes /\ cfg[e].nodes[id].kind = "node" /\ id \in Nat
  <2> DEFINE S == {i \in DOMAIN cfg[e].nodes : cfg[e].nodes[i].kind = "node"}
  <2>1. ids \in Seq(S)
    BY <1>2, IdsOfAll
  <2> HIDE DEF S, ids
  <2>2. Len(ids) \in 1..Len(ids)
    BY <2>1, <1>1, EmptySeq, LenProperties
  <2>3. id \in S
    BY <2>1, <2>2, ElementOfSeq DEF Last
  <2>4. S \subseteq Nat
    BY <1>2 DEF S, EnvOK
  <2> QED BY <2>3, <2>4 DEF S
<1> HIDE DEF id
<1>4. /\ <<id>> \in Seq(Nat) /\ Range(<<id>>) = {id} /\ Len(<<id>>) = 1
      /\ <<id>> # <<>> /\ Head(<<id>>) = id
  BY <1>3 DEF Range
<1>5. /\ j \in JobRec
      /\ j.cmd = "kick" /\ j.stage = "kill" /\ j.env = cfg[e]
      /\ j.ports = <<>> /\ j.todo = <<id>> /\ ~j.failed /\ ~Working(j)
  <2>1. <<>> \in Seq(Kinds)
    OBVIOUS
  <2>2. j = Job("kick", "kill", cfg[e], <<>>, <<id>>)
    BY DEF j
  <2> QED BY <2>1, <2>2, <1>2, <1>4 DEF Job, JobRec, Working
<1>6. JobShape(j)
  BY <1>2, <1>3, <1>4, <1>5, NoPorts DEF JobShape, StagesOf, Allocates
<1>7. JobCopy(j, cfg[e])
  BY <1>5 DEF JobCopy
<1>8. Remaining(j, cfg[e]) = DOMAIN cfg[e].nodes
  BY <1>5 DEF Remaining
<1> QED BY <1>1, <1>2, <1>5, <1>6, <1>7, <1>8, BeginStep

LEMMA PortsTyped ==
    ASSUME NEW env, EnvOK(env)
    PROVE  /\ PortsOf(env) \subseteq AllPorts
           /\ \A id \in DOMAIN env.nodes : /\ env.nodes[id].ports \in Seq(AllPorts)
                                           /\ Len(env.nodes[id].ports) = PortsPerNode
                                           /\ id \in Nat
<1>1. \A id \in DOMAIN env.nodes :
         /\ id \in 1..env.latest /\ env.latest \in Nat /\ env.nodes[id] \in Node
         /\ Len(env.nodes[id].ports) = PortsPerNode
  BY DEF EnvOK
<1>2. \A id \in DOMAIN env.nodes : env.nodes[id].ports \in Seq(AllPorts) /\ id \in Nat
  BY <1>1 DEF Node
<1>3. \A s \in Seq(AllPorts) : Range(s) \subseteq AllPorts
  BY ElementOfSeq, LenProperties DEF Range
<1>4. PortsOf(env) \subseteq AllPorts
  BY <1>2, <1>3 DEF PortsOf
<1> QED BY <1>1, <1>2, <1>4

LEMMA FailKeeps ==
    ASSUME DevInv, NEW e \in Envs, Active(e), FailKeepingFiles(e),
           job[e].stage \in {"draw", "save", "load", "kill"},
           job[e].stage = "save" => Allocates(job[e])
    PROVE  DevInv'
<1> DEFINE j == job[e]
           failed == [j EXCEPT !.stage = "remove", !.failed = TRUE]
<1>1. /\ cfg' = cfg /\ cache' = cache /\ running' = running /\ used' = used /\ stale' = stale
      /\ job' = [job EXCEPT ![e] = IF j.cmd = "destroy" THEN failed ELSE IdleJob]
      /\ dropped' = IF Allocates(j) THEN dropped \cup (PortsOf(j.env) \ PortsOf(cfg[e])) ELSE dropped
      /\ released' = released \cap Listed'
  BY DEF FailKeepingFiles, Fail
<1>2. /\ j \in JobRec /\ EnvOK(j.env)
      /\ JobShape(j) /\ JobCopy(j, cfg[e])
      /\ Held(e) = PortsOf(cfg[e]) \cup PortsOf(j.env)
      /\ NodesOf(e) = NodesIn(e, cfg[e]) \cup NodesIn(e, j.env)
  BY JobFacts
<1>3. Types
  BY DEF DevInv
<1>4. Owned(e) \subseteq Held(e)
  BY OwnedIsHeld DEF DevInv
<1>5. job \in [Envs -> JobRec \cup {IdleJob}]
  BY <1>3 DEF Types
<1> HIDE DEF j
<1>6. /\ failed \in JobRec
      /\ failed.cmd = j.cmd /\ failed.env = j.env /\ failed.stage = "remove"
      /\ failed.failed = TRUE /\ failed.todo = j.todo /\ failed.ports = j.ports
  BY <1>2 DEF JobRec
<1> HIDE DEF failed
<1>7. /\ job'[e] = IF j.cmd = "destroy" THEN failed ELSE IdleJob
      /\ \A f \in Envs \ {e} : job'[f] = job[f] /\ cfg'[f] = cfg[f]
      /\ job' \in [Envs -> JobRec \cup {IdleJob}]
  BY <1>1, <1>5, <1>6
<1>8. Active(e)' <=> j.cmd = "destroy"
  BY <1>6, <1>7 DEF Active, JobRec, IdleJob
<1>9. dropped \subseteq dropped' /\ dropped' \subseteq AllPorts /\ released' \subseteq AllPorts
  BY <1>1, <1>2, <1>3, PortsTyped DEF Types
<1>10. Types'
  <2>1. \A f \in Envs : Active(f)' => EnvOK(job'[f].env)
    BY <1>2, <1>3, <1>6, <1>7, <1>8 DEF Types, Active
  <2> QED BY <1>1, <1>3, <1>7, <1>9, <2>1 DEF Types
<1>11. j.cmd = "destroy" => j.env = cfg[e] /\ ~Allocates(j)
  BY <1>2 DEF JobCopy, Allocates
<1>12. Active(e)' => JobShape(job'[e]) /\ JobCopy(job'[e], cfg'[e])
  <2> SUFFICES ASSUME j.cmd = "destroy" PROVE JobShape(failed) /\ JobCopy(failed, cfg[e])
    BY <1>1, <1>7, <1>8
  <2>1. ~FromNothing(j)
    BY DEF FromNothing
  <2>2. JobShape(failed)
    BY <1>2, <1>6, <2>1 DEF JobShape, StagesOf, Allocates, Working
  <2> QED BY <1>6, <1>11, <2>2 DEF JobCopy
<1>13. Active(e)' => Remaining(job'[e], cfg'[e]) = DOMAIN cfg'[e].nodes
  BY <1>1, <1>6, <1>7, <1>8 DEF Remaining
<1>14. Held(e)' \subseteq Held(e) /\ NodesOf(e)' \subseteq NodesOf(e)
  BY <1>1, <1>2, <1>6, <1>7, <1>8 DEF Held, NodesOf
<1>15. PortsOf(cfg[e]) \subseteq Owned(e)'
  <2>1. PortsOf(cfg'[e]) = PortsAt(cfg'[e], DOMAIN cfg'[e].nodes)
    BY DEF PortsOf, PortsAt
  <2>2. PortsOf(cfg'[e]) \subseteq Held(e)'
    BY DEF Held
  <2> QED BY <1>1, <1>13, <2>1, <2>2 DEF Owned
<1>16. Owned(e) \subseteq Owned(e)' \cup dropped'
  <2>1. CASE Allocates(j)
    BY <2>1, <1>1, <1>2, <1>4, <1>15
  <2>2. CASE ~Allocates(j)
    <3>1. j.cmd \in {"stop", "destroy", "kick"} /\ j.stage # "save"
      BY <2>2, <1>2 DEF j, JobRec, Allocates, JobShape, StagesOf
    <3>2. j.env = cfg[e]
      BY <3>1, <1>2 DEF JobCopy
    <3> QED BY <3>2, <1>2, <1>4, <1>15
  <2> QED BY <2>1, <2>2
<1>17. ~At(e, "write")
  BY DEF At
<1>18. /\ cfg'[e] = Absent \/ HasSeed(cfg'[e])
       /\ running' \subseteq AllNodes
       /\ \A q \in running' : q.env = e =>
             \/ q.id \in DOMAIN cfg'[e].nodes /\ cfg'[e].nodes[q.id].ports = q.ports
             \/ Range(q.ports) \subseteq dropped'
  BY <1>1, <1>9, EnvFacts
<1>19. Active(e)' => \A q \in running' :
          q.env = e /\ q.id \in DOMAIN cfg'[e].nodes => q.id \in Remaining(job'[e], cfg'[e])
  BY <1>13
<1>20. \A q \in running' : q.env # e => q \in running
  BY <1>1
<1>21. released \cap Listed' \subseteq released'
  BY <1>1
<1> HIDE DEF DevInv
<1> QED BY <1>1, <1>7, <1>9, <1>10, <1>12, <1>14, <1>16, <1>17, <1>18, <1>19, <1>20, <1>21, QuietStep

(* A step that changes what the command is at, and kills at most.          *)
LEMMA SameEnvStep ==
    ASSUME DevInv, NEW e \in Envs, Active(e), NEW j \in JobRec,
           cfg' = cfg, cache' = cache, used' = used,
           stale' = stale, released' = released, dropped' = dropped,
           job' = [job EXCEPT ![e] = j], j.env = job[e].env, j.cmd = job[e].cmd,
           running' \subseteq running, ~At(e, "write"),
           JobShape(j), JobCopy(j, cfg[e]),
           \A q \in running' :
              q.env = e /\ q.id \in DOMAIN cfg[e].nodes => q.id \in Remaining(j, cfg[e]),
           j.cmd \in {"destroy", "kick"} =>
              Owned(e) \subseteq PortsAt(cfg[e], Remaining(j, cfg[e]))
                                 \cup (IF Working(j) THEN Range(j.ports) ELSE {})
    PROVE  DevInv'
<1>1. /\ EnvOK(job[e].env)
      /\ Held(e) = PortsOf(cfg[e]) \cup PortsOf(job[e].env)
      /\ NodesOf(e) = NodesIn(e, cfg[e]) \cup NodesIn(e, job[e].env)
  BY JobFacts
<1>2. Types
  BY DEF DevInv
<1>3. job \in [Envs -> JobRec \cup {IdleJob}]
  BY <1>2 DEF Types
<1>4. /\ job'[e] = j
      /\ \A f \in Envs \ {e} : job'[f] = job[f] /\ cfg'[f] = cfg[f]
      /\ job' \in [Envs -> JobRec \cup {IdleJob}]
  BY <1>3
<1>5. Active(e)'
  BY <1>4 DEF Active, JobRec, IdleJob
<1>6. Types'
  <2>1. \A f \in Envs : Active(f)' => EnvOK(job'[f].env)
    BY <1>1, <1>2, <1>4 DEF Types, Active
  <2> QED BY <1>2, <1>4, <2>1 DEF Types
<1>7. Held(e)' = Held(e) /\ NodesOf(e)' = NodesOf(e)
  BY <1>1, <1>4, <1>5 DEF Held, NodesOf
<1>8. Owned(e) \subseteq Owned(e)'
  <2>1. CASE j.cmd \in {"destroy", "kick"}
    BY <2>1, <1>4, <1>5 DEF Owned
  <2>2. CASE j.cmd \notin {"destroy", "kick"}
    <3>1. Owned(e)' = Held(e)'
      BY <2>2, <1>4 DEF Owned
    <3>2. Owned(e) = Held(e)
      BY <2>2 DEF Owned
    <3> QED BY <3>1, <3>2, <1>7
  <2> QED BY <2>1, <2>2
<1>9. /\ cfg'[e] = Absent \/ HasSeed(cfg'[e])
      /\ running' \subseteq AllNodes
      /\ \A q \in running' : q.env = e =>
            \/ q.id \in DOMAIN cfg'[e].nodes /\ cfg'[e].nodes[q.id].ports = q.ports
            \/ Range(q.ports) \subseteq dropped'
  BY EnvFacts
<1>10. \A q \in running' : q.env # e => q \in running
  OBVIOUS
<1>11. Active(e)' => JobShape(job'[e]) /\ JobCopy(job'[e], cfg'[e])
  BY <1>4
<1>12. Active(e)' => \A q \in running' :
          q.env = e /\ q.id \in DOMAIN cfg'[e].nodes => q.id \in Remaining(job'[e], cfg'[e])
  BY <1>4
<1> HIDE DEF DevInv
<1> QED BY <1>4, <1>6, <1>7, <1>8, <1>9, <1>10, <1>11, <1>12, QuietStep

LEMMA AtStage ==
    ASSUME NEW e \in Envs, NEW stage, At(e, stage)
    PROVE  Active(e) /\ job[e].stage = stage
BY DEF At, Active

LEMMA DrawKeeps ==
    ASSUME DevInv, NEW e \in Envs, Draw(e)
    PROVE  DevInv'
<1> DEFINE j == job[e]
<1>1. Active(e) /\ j.stage = "draw"
  BY AtStage DEF Draw
<1>2. j \in JobRec /\ JobShape(j) /\ JobCopy(j, cfg[e])
  BY <1>1, JobFacts
<1>3. Allocates(j)
  BY <1>1, <1>2 DEF JobShape, StagesOf, JobRec, Allocates
<1>4. Len(j.ports) < PortsPerNode /\ j.ports \in Seq(AllPorts) /\ Len(j.ports) \in Nat
  BY <1>1, <1>2, <1>3, LenProperties DEF JobShape, JobRec
<1>5. PICK ports \in Seq(AllPorts), stage \in {"draw", "load"} :
         /\ job' = [job EXCEPT ![e] = [j EXCEPT !.ports = ports, !.stage = stage]]
         /\ stage = "draw" => Len(ports) < PortsPerNode
         /\ stage = "load" => Len(ports) = PortsPerNode
  <2>1. CASE Head(j.kinds) = "full" /\ e = Default
    <3>1. job' = [job EXCEPT ![e] = [j EXCEPT !.ports = Reserved, !.stage = "load"]]
      BY <2>1 DEF Draw
    <3>2. Reserved \in Seq(AllPorts) /\ Len(Reserved) = PortsPerNode
      <4>1. Reserved \in Seq(Range(Reserved)) /\ Range(Reserved) \subseteq AllPorts
        BY DevEnvAssumption DEF AllPorts
      <4>2. Seq(Range(Reserved)) \subseteq Seq(AllPorts)
        BY <4>1, SeqDef
      <4> QED BY <4>1, <4>2 DEF PortsPerNode
    <3> QED BY <3>1, <3>2
  <2>2. CASE ~(Head(j.kinds) = "full" /\ e = Default)
    <3>1. PICK p \in Ports :
             job' = [job EXCEPT ![e] = [j EXCEPT
                       !.ports = Append(j.ports, p),
                       !.stage = IF Len(Append(j.ports, p)) = PortsPerNode THEN "load" ELSE "draw"]]
      BY <2>2 DEF Draw
    <3>2. p \in AllPorts
      BY DEF AllPorts
    <3>3. Append(j.ports, p) \in Seq(AllPorts) /\ Len(Append(j.ports, p)) = Len(j.ports) + 1
      BY <1>4, <3>2, AppendProperties
    <3>4. Len(Append(j.ports, p)) # PortsPerNode => Len(Append(j.ports, p)) < PortsPerNode
      BY <3>3, <1>4, PortsPerNodePositive
    <3> QED BY <3>1, <3>3, <3>4
  <2> QED BY <2>1, <2>2
<1> DEFINE k == [j EXCEPT !.ports = ports, !.stage = stage]
<1>6. /\ k \in JobRec
      /\ k.cmd = j.cmd /\ k.env = j.env /\ k.stage = stage /\ k.ports = ports
      /\ k.kinds = j.kinds /\ k.todo = j.todo /\ k.failed = j.failed
  BY <1>2 DEF JobRec
<1>7. cfg' = cfg /\ cache' = cache /\ running' = running /\ used' = used
      /\ stale' = stale /\ released' = released /\ dropped' = dropped
  BY DEF Draw, history
<1>8. job' = [job EXCEPT ![e] = k] /\ ~At(e, "write")
  BY <1>1, <1>5 DEF At
<1> HIDE DEF k, j
<1>9. Allocates(k) /\ k.cmd # "kick" /\ k.cmd # "destroy"
  BY <1>3, <1>6 DEF Allocates
<1>10. k.stage \in StagesOf(k.cmd)
  BY <1>6, <1>9 DEF Allocates, StagesOf
<1>11. JobShape(k)
  <2>1. HasSeed(k.env) \/ FromNothing(k)
    BY <1>1, <1>2, <1>6 DEF JobShape, FromNothing, Working
  <2>2. Len(k.ports) =< PortsPerNode
    <3>1. Len(ports) =< PortsPerNode
      BY <1>5, LenProperties, PortsPerNodePositive
    <3> QED BY <3>1, <1>6
  <2> QED BY <1>1, <1>2, <1>3, <1>5, <1>6, <1>9, <1>10, <2>1, <2>2 DEF JobShape, Working
<1>12. JobCopy(k, cfg[e])
  BY <1>1, <1>2, <1>6, <1>9 DEF JobCopy, Allocates
<1>13. Remaining(k, cfg[e]) = DOMAIN cfg[e].nodes
  BY <1>9 DEF Remaining, Allocates
<1> HIDE DEF DevInv
<1> QED BY <1>1, <1>6, <1>7, <1>8, <1>9, <1>11, <1>12, <1>13, SameEnvStep DEF j

LEMMA LoadKeeps ==
    ASSUME DevInv, NEW e \in Envs, LoadCache(e)
    PROVE  DevInv'
<1> DEFINE j == job[e]
           k == [j EXCEPT !.copy = cache.ports, !.stage = "truncate"]
<1>1. Active(e) /\ j.stage = "load"
  BY AtStage DEF LoadCache
<1>2. /\ j \in JobRec /\ JobShape(j) /\ JobCopy(j, cfg[e])
      /\ \A q \in running : q.env = e /\ q.id \in DOMAIN cfg[e].nodes
                              => q.id \in Remaining(j, cfg[e])
  BY <1>1, JobFacts
<1>3. cache.ports \subseteq AllPorts
  BY DEF DevInv, Types
<1>4. /\ k \in JobRec
      /\ k.cmd = j.cmd /\ k.env = j.env /\ k.stage = "truncate" /\ k.ports = j.ports
      /\ k.kinds = j.kinds /\ k.todo = j.todo /\ k.failed = j.failed
  BY <1>2, <1>3 DEF JobRec
<1>5. cfg' = cfg /\ cache' = cache /\ running' = running /\ used' = used
      /\ stale' = stale /\ released' = released /\ dropped' = dropped
      /\ job' = [job EXCEPT ![e] = k]
  BY DEF LoadCache, history
<1>6. ~At(e, "write")
  BY <1>1 DEF At
<1> HIDE DEF k, j
<1>7. k.stage \in StagesOf(k.cmd)
  BY <1>1, <1>2, <1>4 DEF JobShape, StagesOf, JobRec
<1>8. Working(k) /\ Working(j)
  BY <1>1, <1>4 DEF Working
<1>9. JobShape(k)
  <2>1. HasSeed(k.env) \/ FromNothing(k)
    BY <1>2, <1>4, <1>8 DEF JobShape, FromNothing
  <2> QED BY <1>1, <1>2, <1>4, <1>7, <1>8, <2>1 DEF JobShape, Allocates
<1>10. JobCopy(k, cfg[e])
  BY <1>1, <1>2, <1>4 DEF JobCopy
<1>11. Remaining(k, cfg[e]) = Remaining(j, cfg[e])
  BY <1>1, <1>4 DEF Remaining
<1>12. k.cmd \in {"destroy", "kick"} =>
         Owned(e) = PortsAt(cfg[e], Remaining(k, cfg[e]))
                      \cup (IF Working(k) THEN Range(k.ports) ELSE {})
  BY <1>1, <1>4, <1>8, <1>11 DEF Owned, j
<1>13. /\ k.env = job[e].env /\ k.cmd = job[e].cmd
       /\ \A q \in running' :
              q.env = e /\ q.id \in DOMAIN cfg[e].nodes => q.id \in Remaining(k, cfg[e])
  BY <1>2, <1>4, <1>5, <1>11 DEF j
<1> HIDE DEF DevInv
<1> QED BY <1>1, <1>4, <1>5, <1>6, <1>9, <1>10, <1>12, <1>13, SameEnvStep

LEMMA KillKeeps ==
    ASSUME DevInv, NEW e \in Envs, Kill(e)
    PROVE  DevInv'
<1> DEFINE j == job[e]
           id == Head(j.todo)
           ports == j.env.nodes[id].ports
           k == [j EXCEPT !.ports = ports, !.stage = "load"]
<1>1. Active(e) /\ j.stage = "kill"
  BY AtStage DEF Kill
<1>2. /\ j \in JobRec /\ EnvOK(j.env) /\ JobShape(j) /\ JobCopy(j, cfg[e])
      /\ \A q \in running : q.env = e /\ q.id \in DOMAIN cfg[e].nodes
                              => q.id \in Remaining(j, cfg[e])
  BY <1>1, JobFacts
<1>3. /\ cfg' = cfg /\ cache' = cache /\ used' = used
      /\ stale' = stale /\ released' = released /\ dropped' = dropped
      /\ job' = [job EXCEPT ![e] = k]
      /\ running' = running \ Found(e, id)
  BY DEF Kill, history
<1> HIDE DEF j
<1>4. j.cmd \in {"stop", "destroy", "kick"}
  BY <1>1, <1>2 DEF JobShape, StagesOf, JobRec
<1>5. /\ j.todo # <<>> /\ j.todo \in Seq(Nat) /\ j.env = cfg[e]
      /\ Range(j.todo) = {id} \cup Range(Tail(j.todo))
      /\ Range(j.todo) \subseteq DOMAIN j.env.nodes
  <2>1. j.todo # <<>> /\ j.todo \in Seq(Nat) /\ Range(j.todo) \subseteq DOMAIN j.env.nodes
    BY <1>1, <1>2 DEF JobShape, JobRec
  <2>2. j.env = cfg[e]
    BY <1>1, <1>2, <1>4 DEF JobCopy
  <2> QED BY <2>1, <2>2, HeadAndTail
<1> HIDE DEF id
<1>6. ports \in Seq(AllPorts) /\ Len(ports) = PortsPerNode
  BY <1>2, <1>5, PortsTyped
<1>7. /\ k \in JobRec
      /\ k.cmd = j.cmd /\ k.env = j.env /\ k.stage = "load" /\ k.ports = ports
      /\ k.kinds = j.kinds /\ k.todo = j.todo /\ k.failed = j.failed
  BY <1>2, <1>6 DEF JobRec
<1> HIDE DEF k
<1>8. Working(k) /\ ~Working(j) /\ ~Allocates(k)
  BY <1>1, <1>4, <1>7 DEF Working, Allocates
<1>9. JobShape(k)
  <2>1. HasSeed(k.env)
    BY <1>1, <1>2, <1>7, <1>8 DEF JobShape, FromNothing
  <2>2. Len(k.ports) \in 1..PortsPerNode
    BY <1>6, <1>7, PortsPerNodePositive
  <2>3. Range(k.ports) \subseteq Range(k.env.nodes[Head(k.todo)].ports)
    BY <1>7 DEF id
  <2>4. k.stage \in StagesOf(k.cmd)
    BY <1>4, <1>7 DEF StagesOf
  <2>5. k.cmd = "kick" => Len(k.todo) = 1 /\ k.env.nodes[Head(k.todo)].kind = "node"
    BY <1>1, <1>2, <1>7 DEF JobShape
  <2> QED BY <1>1, <1>2, <1>5, <1>7, <1>8, <2>1, <2>2, <2>3, <2>4, <2>5 DEF JobShape
<1>10. JobCopy(k, cfg[e])
  BY <1>5, <1>7, <1>4 DEF JobCopy
<1>11. Remaining(k, cfg[e]) = IF j.cmd = "kick" THEN DOMAIN cfg[e].nodes \ {id}
                                              ELSE Range(Tail(j.todo))
  BY <1>4, <1>7 DEF Remaining, id
<1>12. Remaining(j, cfg[e]) \subseteq {id} \cup Remaining(k, cfg[e])
  <2>1. Remaining(j, cfg[e]) = IF j.cmd = "kick" THEN DOMAIN cfg[e].nodes ELSE Range(j.todo)
    BY <1>1, <1>4, <1>5 DEF Remaining
  <2> QED BY <1>5, <1>11, <2>1
<1>13. \A q \in running' : q.env = e => q.id # id
  BY <1>3 DEF Found, Matches
<1>14. \A q \in running' :
          q.env = e /\ q.id \in DOMAIN cfg[e].nodes => q.id \in Remaining(k, cfg[e])
  BY <1>2, <1>3, <1>12, <1>13
<1>15. k.cmd \in {"destroy", "kick"} =>
          Owned(e) \subseteq PortsAt(cfg[e], Remaining(k, cfg[e])) \cup Range(k.ports)
  <2> SUFFICES ASSUME k.cmd \in {"destroy", "kick"}
               PROVE  Owned(e) \subseteq PortsAt(cfg[e], Remaining(k, cfg[e])) \cup Range(k.ports)
    OBVIOUS
  <2>1. Owned(e) = PortsAt(cfg[e], Remaining(j, cfg[e]))
    BY <1>1, <1>7, <1>8 DEF Owned, j
  <2>2. PortsAt(cfg[e], Remaining(j, cfg[e]))
           \subseteq PortsAt(cfg[e], Remaining(k, cfg[e])) \cup Range(cfg[e].nodes[id].ports)
    BY <1>12 DEF PortsAt
  <2> QED BY <2>1, <2>2, <1>5, <1>7
<1>16. k.env = job[e].env /\ k.cmd = job[e].cmd /\ ~At(e, "write") /\ running' \subseteq running
  BY <1>1, <1>3, <1>7 DEF j, At
<1> HIDE DEF DevInv
<1> QED BY <1>1, <1>3, <1>7, <1>8, <1>9, <1>10, <1>14, <1>15, <1>16, SameEnvStep

LEMMA LaunchKeeps ==
    ASSUME DevInv, NEW e \in Envs, Launch(e)
    PROVE  DevInv'
<1> DEFINE j == job[e]
           id == Head(j.todo)
           node == [env |-> e, id |-> id, ports |-> j.env.nodes[id].ports]
           k == [j EXCEPT !.todo = Tail(j.todo)]
           last == Len(j.todo) = 1
<1>1. Active(e) /\ j.stage = "launch"
  BY AtStage DEF Launch
<1>2. /\ j \in JobRec /\ EnvOK(j.env) /\ JobShape(j) /\ JobCopy(j, cfg[e])
      /\ Held(e) = PortsOf(cfg[e]) \cup PortsOf(j.env)
      /\ NodesOf(e) = NodesIn(e, cfg[e]) \cup NodesIn(e, j.env)
  BY <1>1, JobFacts
<1>3. /\ cfg' = cfg /\ cache' = cache /\ used' = used
      /\ stale' = stale /\ released' = released /\ dropped' = dropped
      /\ job' = [job EXCEPT ![e] = IF last THEN IdleJob ELSE k]
      /\ running' = running \cup {node}
  BY DEF Launch, history
<1>4. Types
  BY DEF DevInv
<1>5. job \in [Envs -> JobRec \cup {IdleJob}]
  BY <1>4 DEF Types
<1> HIDE DEF j
<1>6. j.cmd \in {"create", "attach", "start"}
  BY <1>1, <1>2 DEF JobShape, StagesOf, JobRec
<1>7. /\ j.todo # <<>> /\ j.todo \in Seq(Nat) /\ j.env = cfg[e]
      /\ id \in DOMAIN cfg[e].nodes /\ id \in Nat
      /\ Tail(j.todo) \in Seq(Nat) /\ Range(Tail(j.todo)) \subseteq DOMAIN j.env.nodes
      /\ Len(Tail(j.todo)) = Len(j.todo) - 1 /\ Len(j.todo) \in Nat
  <2>1. j.todo # <<>> /\ j.todo \in Seq(Nat) /\ Range(j.todo) \subseteq DOMAIN j.env.nodes
    BY <1>1, <1>2 DEF JobShape, JobRec
  <2>2. j.env = cfg[e]
    BY <1>1, <1>2, <1>6 DEF JobCopy
  <2>3. /\ Head(j.todo) \in Nat /\ Tail(j.todo) \in Seq(Nat)
        /\ Range(j.todo) = {Head(j.todo)} \cup Range(Tail(j.todo))
        /\ Len(Tail(j.todo)) = Len(j.todo) - 1 /\ Len(j.todo) \in Nat
    BY <2>1, HeadAndTail
  <2> QED BY <2>1, <2>2, <2>3
<1>8. /\ k \in JobRec
      /\ k.cmd = j.cmd /\ k.env = j.env /\ k.stage = "launch" /\ k.ports = j.ports
      /\ k.kinds = j.kinds /\ k.todo = Tail(j.todo) /\ k.failed = j.failed
  BY <1>1, <1>2, <1>7 DEF JobRec
<1> HIDE DEF k
<1>9. /\ job'[e] = IF last THEN IdleJob ELSE k
      /\ \A f \in Envs \ {e} : job'[f] = job[f] /\ cfg'[f] = cfg[f]
      /\ job' \in [Envs -> JobRec \cup {IdleJob}]
  BY <1>3, <1>5, <1>8
<1>10. Active(e)' <=> ~last
  BY <1>8, <1>9 DEF Active, JobRec, IdleJob
<1>11. /\ node \in Process /\ node \in NodesIn(e, cfg[e])
       /\ cfg[e].nodes[id].ports = node.ports
  <2>1. cfg[e].nodes[id].ports \in Seq(AllPorts)
    BY <1>2, <1>7, PortsTyped
  <2> QED BY <1>7, <2>1 DEF Process, NodesIn
<1> HIDE DEF node
<1>12. node.env = e /\ node.id = id
  BY DEF node
<1>13. Types'
  <2>1. \A f \in Envs : Active(f)' => EnvOK(job'[f].env)
    BY <1>2, <1>4, <1>8, <1>9, <1>10 DEF Types, Active
  <2>2. running' \subseteq Process
    BY <1>3, <1>4, <1>11 DEF Types
  <2> QED BY <1>3, <1>4, <1>9, <2>1, <2>2 DEF Types
<1>14. Active(e)' => JobShape(job'[e]) /\ JobCopy(job'[e], cfg'[e])
  <2> SUFFICES ASSUME ~last PROVE JobShape(k) /\ JobCopy(k, cfg[e])
    BY <1>3, <1>9, <1>10
  <2>1. Tail(j.todo) # <<>>
    <3>1. Len(Tail(j.todo)) # 0
      BY <1>7
    <3>2. Len(<<>>) = 0
      OBVIOUS
    <3> HIDE DEF last
    <3> QED BY <3>1, <3>2
  <2>2. ~FromNothing(j) /\ ~Working(k)
    BY <1>1, <1>8 DEF FromNothing, Working
  <2>3. JobShape(k)
    BY <1>1, <1>2, <1>6, <1>7, <1>8, <2>1, <2>2 DEF JobShape
  <2>4. JobCopy(k, cfg[e])
    BY <1>6, <1>7, <1>8 DEF JobCopy
  <2> QED BY <2>3, <2>4
<1>15. Active(e)' => Remaining(job'[e], cfg'[e]) = DOMAIN cfg'[e].nodes
  BY <1>3, <1>6, <1>8, <1>9, <1>10 DEF Remaining
<1>16. Held(e)' \subseteq Held(e) /\ NodesOf(e)' \subseteq NodesOf(e)
  BY <1>2, <1>3, <1>8, <1>9, <1>10 DEF Held, NodesOf
<1>17. Owned(e) \subseteq Owned(e)'
  <2>1. Owned(e)' = Held(e)' /\ Owned(e) = Held(e)
    BY <1>6, <1>8, <1>9, <1>10 DEF Owned, j
  <2>2. Held(e) = PortsOf(cfg[e])
    BY <1>2, <1>7
  <2>3. PortsOf(cfg'[e]) \subseteq Held(e)'
    BY DEF Held
  <2> QED BY <1>3, <2>1, <2>2, <2>3
<1>18. /\ cfg'[e] = Absent \/ HasSeed(cfg'[e])
       /\ \A q \in running : q.env = e =>
             \/ q.id \in DOMAIN cfg'[e].nodes /\ cfg'[e].nodes[q.id].ports = q.ports
             \/ Range(q.ports) \subseteq dropped'
  BY <1>3, EnvFacts
<1>19. running' \subseteq AllNodes
  <2>1. node \in NodesOf(e)
    BY <1>11, <1>2
  <2> QED BY <1>3, <2>1, EnvFacts DEF AllNodes
<1>20. \A q \in running' : q.env = e =>
             \/ q.id \in DOMAIN cfg'[e].nodes /\ cfg'[e].nodes[q.id].ports = q.ports
             \/ Range(q.ports) \subseteq dropped'
  BY <1>3, <1>7, <1>11, <1>12, <1>18
<1>21. Active(e)' => \A q \in running' :
          q.env = e /\ q.id \in DOMAIN cfg'[e].nodes => q.id \in Remaining(job'[e], cfg'[e])
  BY <1>15
<1>22. \A q \in running' : q.env # e => q \in running
  BY <1>3, <1>12
<1>23. ~At(e, "write")
  BY <1>1 DEF At, j
<1> HIDE DEF DevInv
<1> QED BY <1>3, <1>9, <1>13, <1>14, <1>16, <1>17, <1>18, <1>19, <1>20, <1>21, <1>22, <1>23, QuietStep

LEMMA WriteCfgKeeps ==
    ASSUME DevInv, NEW e \in Envs, WriteCfg(e)
    PROVE  DevInv'
<1> DEFINE j == job[e]
           k == [j EXCEPT !.stage = "launch"]
           last == j.todo = <<>>
<1>1. Active(e) /\ j.stage = "save"
  BY AtStage DEF WriteCfg
<1>2. /\ j \in JobRec /\ EnvOK(j.env) /\ JobShape(j) /\ JobCopy(j, cfg[e])
      /\ Held(e) = PortsOf(cfg[e]) \cup PortsOf(j.env)
      /\ NodesOf(e) = NodesIn(e, cfg[e]) \cup NodesIn(e, j.env)
      /\ \A q \in running : q.env = e /\ q.id \in DOMAIN cfg[e].nodes
                              => q.id \in Remaining(j, cfg[e])
  BY <1>1, JobFacts
<1>3. /\ cfg' = [cfg EXCEPT ![e] = j.env] /\ cache' = cache /\ used' = used
      /\ stale' = stale /\ running' = running
      /\ released' = released \cap Listed'
      /\ dropped' = IF j.cmd = "create" THEN dropped \cup PortsOf(cfg[e]) ELSE dropped
      /\ job' = [job EXCEPT ![e] = IF last THEN IdleJob ELSE k]
  BY DEF WriteCfg
<1>4. Types
  BY DEF DevInv
<1>5. job \in [Envs -> JobRec \cup {IdleJob}] /\ cfg \in [Envs -> EnvRec]
  BY <1>4 DEF Types
<1> HIDE DEF j
<1>6. j.cmd \in {"create", "attach", "start", "kick"}
  BY <1>1, <1>2 DEF JobShape, StagesOf, JobRec
<1>7. /\ HasSeed(j.env) /\ j.env \in EnvRec
      /\ j.cmd = "kick" => last
      /\ Range(j.todo) \subseteq DOMAIN j.env.nodes
  BY <1>1, <1>2 DEF JobShape, FromNothing, Working, JobRec
<1>8. /\ k \in JobRec
      /\ k.cmd = j.cmd /\ k.env = j.env /\ k.stage = "launch" /\ k.ports = j.ports
      /\ k.kinds = j.kinds /\ k.todo = j.todo /\ k.failed = j.failed
  BY <1>2 DEF JobRec
<1> HIDE DEF k
<1>9. /\ job'[e] = IF last THEN IdleJob ELSE k
      /\ cfg'[e] = j.env
      /\ \A f \in Envs \ {e} : job'[f] = job[f] /\ cfg'[f] = cfg[f]
      /\ job' \in [Envs -> JobRec \cup {IdleJob}] /\ cfg' \in [Envs -> EnvRec]
  BY <1>3, <1>5, <1>7, <1>8
<1>10. Active(e)' <=> ~last
  BY <1>8, <1>9 DEF Active, JobRec, IdleJob
<1>11. dropped \subseteq dropped' /\ dropped' \subseteq AllPorts /\ released' \subseteq AllPorts
  <2>1. PortsOf(cfg[e]) \subseteq AllPorts
    BY <1>4, PortsTyped DEF Types
  <2> QED BY <2>1, <1>3, <1>4 DEF Types
<1>12. Types'
  <2>1. \A f \in Envs : Active(f)' => EnvOK(job'[f].env)
    BY <1>2, <1>4, <1>8, <1>9, <1>10 DEF Types, Active
  <2>2. \A f \in Envs : EnvOK(cfg'[f])
    BY <1>2, <1>4, <1>9 DEF Types
  <2> QED BY <1>3, <1>4, <1>9, <1>11, <2>1, <2>2 DEF Types
<1>13. Active(e)' => JobShape(job'[e]) /\ JobCopy(job'[e], cfg'[e])
  <2> SUFFICES ASSUME ~last PROVE JobShape(k) /\ JobCopy(k, j.env)
    BY <1>9, <1>10
  <2>1. ~Working(k) /\ k.cmd \in {"create", "attach", "start"}
    BY <1>6, <1>7, <1>8 DEF Working
  <2>2. JobShape(k)
    BY <1>1, <1>2, <1>7, <1>8, <2>1 DEF JobShape, StagesOf
  <2>3. JobCopy(k, j.env)
    BY <2>1, <1>8 DEF JobCopy
  <2> QED BY <2>2, <2>3
<1>14. Active(e)' => Remaining(job'[e], cfg'[e]) = DOMAIN cfg'[e].nodes
  BY <1>6, <1>7, <1>8, <1>9, <1>10 DEF Remaining
<1>15. Held(e)' = PortsOf(j.env) /\ NodesOf(e)' = NodesIn(e, j.env)
  BY <1>8, <1>9, <1>10 DEF Held, NodesOf
<1>16. Held(e)' \subseteq Held(e) /\ NodesOf(e)' \subseteq NodesOf(e)
  BY <1>2, <1>15
<1>17. j.cmd = "attach" =>
         /\ PortsOf(cfg[e]) \subseteq PortsOf(j.env)
         /\ \A id \in DOMAIN cfg[e].nodes :
               id \in DOMAIN j.env.nodes /\ j.env.nodes[id] = cfg[e].nodes[id]
  <2>1. j.cmd = "attach" =>
           \A id \in DOMAIN cfg[e].nodes :
               id \in DOMAIN j.env.nodes /\ j.env.nodes[id] = cfg[e].nodes[id]
    BY <1>2 DEF JobCopy
  <2> QED BY <2>1 DEF PortsOf
<1>18. j.cmd = "kick" =>
         /\ Remaining(j, cfg[e]) = DOMAIN j.env.nodes
         /\ \A id \in DOMAIN j.env.nodes :
               id \in DOMAIN cfg[e].nodes /\ j.env.nodes[id] = cfg[e].nodes[id]
  BY <1>1, <1>2 DEF JobCopy, Remaining
<1>19. j.cmd = "start" => j.env = cfg[e]
  BY <1>2 DEF JobCopy
<1>20. Owned(e) \subseteq Owned(e)' \cup dropped'
  <2>1. Owned(e)' = PortsOf(j.env)
    <3>1. ~(Active(e)' /\ job'[e].cmd \in {"destroy", "kick"})
      BY <1>6, <1>7, <1>8, <1>9, <1>10
    <3> QED BY <3>1, <1>15 DEF Owned
  <2>2. CASE j.cmd = "kick"
    <3>1. Owned(e) = PortsAt(cfg[e], DOMAIN j.env.nodes)
      BY <1>1, <1>18, <2>2 DEF Owned, Working, j
    <3>2. PortsAt(cfg[e], DOMAIN j.env.nodes) \subseteq PortsOf(j.env)
      BY <1>18, <2>2 DEF PortsAt, PortsOf
    <3> QED BY <2>1, <3>1, <3>2
  <2>3. CASE j.cmd # "kick"
    <3>1. Owned(e) = PortsOf(cfg[e]) \cup PortsOf(j.env)
      BY <1>2, <1>6, <2>3 DEF Owned, j
    <3>2. PortsOf(cfg[e]) \subseteq PortsOf(j.env) \cup dropped'
      BY <1>3, <1>6, <1>17, <1>19, <2>3
    <3> QED BY <2>1, <3>1, <3>2
  <2> QED BY <2>2, <2>3
<1>21. \A q \in running' : q.env = e =>
             \/ q.id \in DOMAIN cfg'[e].nodes /\ cfg'[e].nodes[q.id].ports = q.ports
             \/ Range(q.ports) \subseteq dropped'
  <2> SUFFICES ASSUME NEW q \in running, q.env = e, ~(Range(q.ports) \subseteq dropped')
               PROVE  q.id \in DOMAIN j.env.nodes /\ j.env.nodes[q.id].ports = q.ports
    BY <1>3, <1>9
  <2>1. q.id \in DOMAIN cfg[e].nodes /\ cfg[e].nodes[q.id].ports = q.ports
    BY <1>11, EnvFacts
  <2>2. Range(q.ports) \subseteq PortsOf(cfg[e])
    BY <2>1 DEF PortsOf
  <2>3. j.cmd # "create"
    BY <2>2, <1>3
  <2>4. CASE j.cmd = "kick"
    BY <2>1, <2>4, <1>2, <1>18
  <2> QED BY <2>1, <2>3, <2>4, <1>6, <1>17, <1>19
<1>22. running' \subseteq AllNodes /\ \A q \in running' : q.env # e => q \in running
  BY <1>3, EnvFacts
<1>23. Active(e)' => \A q \in running' :
          q.env = e /\ q.id \in DOMAIN cfg'[e].nodes => q.id \in Remaining(job'[e], cfg'[e])
  BY <1>14
<1>24. ~At(e, "write") /\ HasSeed(cfg'[e])
  BY <1>1, <1>7, <1>9 DEF At, j
<1>25. released \cap Listed' \subseteq released'
  BY <1>3
<1> HIDE DEF DevInv
<1> QED BY <1>3, <1>9, <1>11, <1>12, <1>13, <1>16, <1>20, <1>21, <1>22, <1>23, <1>24, <1>25, QuietStep

LEMMA RemoveDirKeeps ==
    ASSUME DevInv, NEW e \in Envs, RemoveDir(e)
    PROVE  DevInv'
<1> DEFINE j == job[e]
<1>1. Active(e) /\ j.stage = "remove"
  BY AtStage DEF RemoveDir
<1>2. /\ j \in JobRec /\ EnvOK(j.env) /\ JobShape(j) /\ JobCopy(j, cfg[e])
      /\ \A q \in running : q.env = e /\ q.id \in DOMAIN cfg[e].nodes
                              => q.id \in Remaining(j, cfg[e])
  BY <1>1, JobFacts
<1>3. /\ cfg' = [cfg EXCEPT ![e] = Absent] /\ cache' = cache /\ used' = used
      /\ stale' = stale /\ running' = running
      /\ released' = released \cap Listed'
      /\ dropped' = IF j.failed THEN dropped \cup PortsOf(cfg[e]) ELSE dropped
      /\ job' = [job EXCEPT ![e] = IdleJob]
  BY DEF RemoveDir
<1>4. Types
  BY DEF DevInv
<1>5. job \in [Envs -> JobRec \cup {IdleJob}] /\ cfg \in [Envs -> EnvRec]
  BY <1>4 DEF Types
<1> HIDE DEF j
<1>6. j.cmd = "destroy"
  BY <1>1, <1>2 DEF JobShape, StagesOf, JobRec
<1>7. Remaining(j, cfg[e]) = IF j.failed THEN DOMAIN cfg[e].nodes ELSE {}
  BY <1>1, <1>6 DEF Remaining
<1>8. /\ job'[e] = IdleJob /\ cfg'[e] = Absent
      /\ \A f \in Envs \ {e} : job'[f] = job[f] /\ cfg'[f] = cfg[f]
      /\ job' \in [Envs -> JobRec \cup {IdleJob}] /\ cfg' \in [Envs -> EnvRec]
  BY <1>3, <1>5, AbsentOK
<1>9. ~Active(e)'
  BY <1>8 DEF Active
<1>10. dropped \subseteq dropped' /\ dropped' \subseteq AllPorts /\ released' \subseteq AllPorts
  <2>1. PortsOf(cfg[e]) \subseteq AllPorts
    BY <1>4, PortsTyped DEF Types
  <2> QED BY <2>1, <1>3, <1>4 DEF Types
<1>11. Types'
  <2>1. \A f \in Envs : Active(f)' => EnvOK(job'[f].env)
    BY <1>4, <1>8, <1>9 DEF Types, Active
  <2>2. \A f \in Envs : EnvOK(cfg'[f])
    BY <1>4, <1>8, AbsentOK DEF Types
  <2> QED BY <1>3, <1>4, <1>8, <1>10, <2>1, <2>2 DEF Types
<1>12. Held(e)' = {} /\ NodesOf(e)' = {}
  BY <1>8, <1>9, AbsentOK DEF Held, NodesOf
<1>13. Owned(e) \subseteq dropped'
  <2>1. Owned(e) = PortsAt(cfg[e], Remaining(j, cfg[e]))
    BY <1>1, <1>6 DEF Owned, Working, j
  <2>2. PortsAt(cfg[e], {}) = {} /\ PortsAt(cfg[e], DOMAIN cfg[e].nodes) = PortsOf(cfg[e])
    BY DEF PortsAt, PortsOf
  <2> QED BY <2>1, <2>2, <1>3, <1>7
<1>14. \A q \in running' : q.env = e => Range(q.ports) \subseteq dropped'
  <2> SUFFICES ASSUME NEW q \in running, q.env = e
               PROVE  Range(q.ports) \subseteq dropped'
    BY <1>3
  <2>1. CASE Range(q.ports) \subseteq dropped
    BY <2>1, <1>10
  <2>2. CASE ~(Range(q.ports) \subseteq dropped)
    <3>1. q.id \in DOMAIN cfg[e].nodes /\ cfg[e].nodes[q.id].ports = q.ports
      BY <2>2, EnvFacts
    <3>2. Range(q.ports) \subseteq PortsOf(cfg[e])
      BY <3>1 DEF PortsOf
    <3>3. j.failed
      BY <3>1, <1>2, <1>7
    <3> QED BY <3>2, <3>3, <1>3
  <2> QED BY <2>1, <2>2
<1>15. running' \subseteq AllNodes /\ \A q \in running' : q.env # e => q \in running
  BY <1>3, EnvFacts
<1>16. ~At(e, "write")
  BY <1>1 DEF At, j
<1>17. released \cap Listed' \subseteq released'
  BY <1>3
<1> HIDE DEF DevInv
<1> QED BY <1>3, <1>8, <1>9, <1>10, <1>11, <1>12, <1>13, <1>14, <1>15, <1>16, <1>17, QuietStep

(* What Differ does not name, a copy has if it is needed, and has only if  *)
(* it is owned.                                                            *)
LEMMA CopyIsGood ==
    ASSUME DevInv, NEW copy \in SUBSET AllPorts
    PROVE  /\ AllHeld \subseteq copy \cup stale \cup Differ(copy) \cup released
           /\ copy \subseteq AllOwned \cup stale \cup Differ(copy) \cup dropped
           /\ Differ(copy) \subseteq AllPorts
<1>1. cache.kind \in {"holds", "empty", "garbled"} /\ cache.ports \subseteq AllPorts
  BY DEF DevInv, Types
<1>2. AllHeld \subseteq AllPorts
  BY PortsTyped DEF AllHeld, Held, DevInv, Types
<1>3. \A a, b : /\ a \subseteq b \cup SymDiff(a, b) /\ b \subseteq a \cup SymDiff(a, b)
                /\ SymDiff(a, b) \subseteq a \cup b
  BY DEF SymDiff
<1>4. CASE cache.kind = "holds"
  <2>1. Differ(copy) = SymDiff(copy, cache.ports)
    BY <1>4 DEF Differ
  <2>2. /\ AllHeld \subseteq cache.ports \cup stale \cup released
        /\ cache.ports \subseteq AllOwned \cup stale \cup dropped
    BY <1>4 DEF DevInv, CacheHasHeld, CacheIsOwned, Readable
  <2> QED BY <1>1, <1>3, <2>1, <2>2
<1>5. CASE cache.kind = "empty"
  <2>1. Differ(copy) = UNION {SymDiff(copy, job[f].copy) : f \in {g \in Envs : At(g, "write")}}
    BY <1>5 DEF Differ
  <2>2. \A h \in Envs : At(h, "write") =>
           /\ SymDiff(copy, job[h].copy) \subseteq Differ(copy)
           /\ job[h].copy \subseteq AllPorts
    <3>1. \A h \in Envs : At(h, "write") => job[h] \in JobRec
      BY DEF DevInv, Types, At
    <3> QED BY <2>1, <3>1 DEF JobRec
  <2>3. PICK h \in Envs : At(h, "write") /\ AllHeld \subseteq job[h].copy \cup stale \cup released
    BY <1>5 DEF DevInv, CacheHasHeld
  <2>4. PICK k \in Envs : At(k, "write") /\ job[k].copy \subseteq AllOwned \cup stale \cup dropped
    BY <1>5 DEF DevInv, CacheIsOwned
  <2>5. AllHeld \subseteq copy \cup stale \cup Differ(copy) \cup released
    BY <2>2, <2>3, <1>3
  <2>6. copy \subseteq AllOwned \cup stale \cup Differ(copy) \cup dropped
    BY <2>2, <2>4, <1>3
  <2>7. Differ(copy) \subseteq AllPorts
    BY <2>1, <2>2, <1>3
  <2> QED BY <2>5, <2>6, <2>7
<1>6. CASE cache.kind = "garbled"
  <2>1. Differ(copy) = AllPorts
    BY <1>6 DEF Differ
  <2> QED BY <1>2, <2>1
<1> QED BY <1>1, <1>4, <1>5, <1>6

LEMMA TruncateKeeps ==
    ASSUME DevInv, NEW e \in Envs, TruncateCache(e)
    PROVE  DevInv'
<1> DEFINE j == job[e]
           k == [j EXCEPT !.stage = "write"]
<1>1. Active(e) /\ j.stage = "truncate"
  BY AtStage DEF TruncateCache
<1>2. /\ j \in JobRec /\ EnvOK(j.env) /\ JobShape(j) /\ JobCopy(j, cfg[e])
      /\ Held(e) = PortsOf(cfg[e]) \cup PortsOf(j.env)
      /\ NodesOf(e) = NodesIn(e, cfg[e]) \cup NodesIn(e, j.env)
      /\ \A q \in running : q.env = e /\ q.id \in DOMAIN cfg[e].nodes
                              => q.id \in Remaining(j, cfg[e])
  BY <1>1, JobFacts
<1>3. /\ cfg' = cfg /\ cache' = Truncated /\ used' = used
      /\ stale' = stale \cup Differ(j.copy) /\ running' = running
      /\ released' = released /\ dropped' = dropped
      /\ job' = [job EXCEPT ![e] = k]
  BY DEF TruncateCache
<1>4. Types
  BY DEF DevInv
<1>5. job \in [Envs -> JobRec \cup {IdleJob}]
  BY <1>4 DEF Types
<1>6. /\ k \in JobRec
      /\ k.cmd = j.cmd /\ k.env = j.env /\ k.stage = "write" /\ k.ports = j.ports
      /\ k.kinds = j.kinds /\ k.todo = j.todo /\ k.failed = j.failed /\ k.copy = j.copy
  BY <1>2 DEF JobRec
<1>7. j.copy \in SUBSET AllPorts
  BY <1>2 DEF JobRec
<1> HIDE DEF k, j
<1>8. /\ job'[e] = k
      /\ \A f \in Envs \ {e} : job'[f] = job[f] /\ cfg'[f] = cfg[f]
      /\ job' \in [Envs -> JobRec \cup {IdleJob}]
  BY <1>3, <1>5, <1>6
<1>9. Active(e)'
  BY <1>6, <1>8 DEF Active, JobRec, IdleJob
<1>10. /\ AllHeld \subseteq j.copy \cup stale \cup Differ(j.copy) \cup released
       /\ j.copy \subseteq AllOwned \cup stale \cup Differ(j.copy) \cup dropped
       /\ Differ(j.copy) \subseteq AllPorts
  <2> HIDE DEF DevInv
  <2> QED BY <1>7, CopyIsGood
<1>11. Types'
  <2>1. \A f \in Envs : Active(f)' => EnvOK(job'[f].env)
    BY <1>2, <1>4, <1>6, <1>8 DEF Types, Active
  <2>2. cache'.kind \in {"holds", "empty", "garbled"} /\ cache'.ports \subseteq AllPorts
    BY <1>3 DEF Truncated
  <2> QED BY <1>3, <1>4, <1>8, <1>10, <2>1, <2>2 DEF Types
<1>12. Working(j) /\ Working(k)
  BY <1>1, <1>6 DEF Working
<1>13. JobShape(k) /\ JobCopy(k, cfg[e])
  <2>1. HasSeed(k.env) \/ FromNothing(k)
    BY <1>2, <1>6, <1>12 DEF JobShape, FromNothing
  <2>2. k.stage \in StagesOf(k.cmd)
    BY <1>1, <1>2, <1>6 DEF JobShape, StagesOf, JobRec
  <2>3. JobShape(k)
    BY <1>1, <1>2, <1>6, <1>12, <2>1, <2>2 DEF JobShape, Allocates
  <2>4. JobCopy(k, cfg[e])
    BY <1>1, <1>2, <1>6 DEF JobCopy
  <2> QED BY <2>3, <2>4
<1>14. Remaining(k, cfg[e]) = Remaining(j, cfg[e])
  BY <1>1, <1>6 DEF Remaining
<1>15. Seeded' /\ JobsOK' /\ KilledGone' /\ RunningIsConfigured'
  <2> HIDE DEF DevInv
  <2>1. cfg'[e] = Absent \/ HasSeed(cfg'[e])
    BY <1>3, EnvFacts
  <2>2. \A q \in running' : q.env = e =>
              \/ q.id \in DOMAIN cfg'[e].nodes /\ cfg'[e].nodes[q.id].ports = q.ports
              \/ Range(q.ports) \subseteq dropped'
    BY <1>3, EnvFacts
  <2>3. Active(e)' => JobShape(job'[e]) /\ JobCopy(job'[e], cfg'[e])
    BY <1>3, <1>8, <1>13
  <2>4. Active(e)' => \A q \in running' :
              q.env = e /\ q.id \in DOMAIN cfg'[e].nodes => q.id \in Remaining(job'[e], cfg'[e])
    BY <1>2, <1>3, <1>8, <1>14
  <2>5. dropped \subseteq dropped' /\ \A q \in running' : q.env # e => q \in running
    BY <1>3
  <2> QED BY <1>8, <1>11, <2>1, <2>2, <2>3, <2>4, <2>5, JobsStay
<1>16. \A f \in Envs : Active(f)' <=> Active(f)
  BY <1>1, <1>8, <1>9 DEF Active
<1>17. \A f \in Envs : Held(f)' = Held(f) /\ NodesOf(f)' = NodesOf(f)
  <2>1. Held(e)' = Held(e) /\ NodesOf(e)' = NodesOf(e)
    BY <1>2, <1>3, <1>6, <1>8, <1>9 DEF Held, NodesOf
  <2>2. \A f \in Envs \ {e} : Held(f)' = Held(f) /\ NodesOf(f)' = NodesOf(f)
    BY <1>8, <1>16 DEF Held, NodesOf
  <2> QED BY <2>1, <2>2
<1>18. \A f \in Envs : Owned(f)' = Owned(f)
  <2>1. Owned(e)' = Owned(e)
    <3>1. Owned(e)' = IF k.cmd \in {"destroy", "kick"}
                      THEN PortsAt(cfg[e], Remaining(k, cfg[e])) \cup Range(k.ports)
                      ELSE Held(e)'
      BY <1>3, <1>8, <1>9, <1>12 DEF Owned
    <3>2. Owned(e) = IF j.cmd \in {"destroy", "kick"}
                     THEN PortsAt(cfg[e], Remaining(j, cfg[e])) \cup Range(j.ports)
                     ELSE Held(e)
      BY <1>1, <1>12 DEF Owned, j
    <3> QED BY <3>1, <3>2, <1>6, <1>14, <1>17
  <2>2. \A f \in Envs \ {e} : Owned(f)' = Owned(f)
    BY <1>8, <1>16, <1>17 DEF Owned
  <2> QED BY <2>1, <2>2
<1>19. AllHeld' = AllHeld /\ AllOwned' = AllOwned /\ AllNodes' = AllNodes
  BY <1>3, <1>17, <1>18 DEF AllHeld, AllOwned, AllNodes
<1>20. At(e, "write")' /\ job'[e].copy = j.copy
  BY <1>6, <1>8, <1>9 DEF At, Active
<1>21. CacheHasHeld' /\ CacheIsOwned'
  <2>1. cache'.kind = "empty" /\ ~Readable'
    BY <1>3 DEF Truncated, Readable
  <2> QED BY <1>3, <1>10, <1>19, <1>20, <2>1 DEF CacheHasHeld, CacheIsOwned
<1>22. NodesApart'
  BY <1>3, <1>19 DEF DevInv, NodesApart
<1> QED BY <1>11, <1>15, <1>21, <1>22 DEF DevInv

(* The command after a node got its ports.                                 *)
EnteredNode(j) == [kind |-> Head(j.kinds), ports |-> j.ports]

LEMMA EnteredIs ==
    ASSUME NEW j \in JobRec, EnvOK(j.env), JobShape(j), Allocates(j), j.stage = "write"
    PROVE  LET id == NextNodeId(j.env)
               k  == Entered(j)
           IN  /\ k \in JobRec /\ k.cmd = j.cmd /\ k.stage \in {"draw", "save"}
               /\ EnvOK(k.env) /\ JobShape(k)
               /\ id \notin DOMAIN j.env.nodes
               /\ DOMAIN k.env.nodes = DOMAIN j.env.nodes \cup {id}
               /\ k.env.nodes[id] = EnteredNode(j)
               /\ \A i \in DOMAIN j.env.nodes : k.env.nodes[i] = j.env.nodes[i]
<1> DEFINE id    == NextNodeId(j.env)
           node  == EnteredNode(j)
           nodes == [i \in DOMAIN j.env.nodes \cup {id} |->
                       IF i = id THEN node ELSE j.env.nodes[i]]
           env   == [nodes |-> nodes, latest |-> id]
           next  == [j EXCEPT !.env = env, !.kinds = Tail(@), !.ports = <<>>, !.copy = {}]
           k     == Entered(j)
<1>1. /\ Working(j) /\ j.kinds \in Seq(Kinds) /\ j.kinds # <<>>
      /\ j.ports \in Seq(AllPorts) /\ Len(j.ports) = PortsPerNode
      /\ j.env.latest \in Nat /\ ~j.failed /\ j.failed \in BOOLEAN
      /\ j.todo \in Seq(Nat) /\ Range(j.todo) \subseteq DOMAIN j.env.nodes
      /\ j.cmd \in {"create", "attach"}
  BY DEF JobShape, Working, JobRec, EnvOK, Allocates
<1>2. Head(j.kinds) \in Kinds /\ Tail(j.kinds) \in Seq(Kinds)
  BY <1>1, HeadAndTail
<1>3. node \in Node /\ Len(node.ports) = PortsPerNode
  BY <1>1, <1>2 DEF EnteredNode, Node, Kinds
<1>4. id \in Nat /\ id \in 1..id /\ id = j.env.latest + 1 /\ id \notin DOMAIN j.env.nodes
  <2>1. id = j.env.latest + 1
    BY DEF NextNodeId
  <2> HIDE DEF id
  <2> QED BY <2>1, <1>1 DEF EnvOK
<1> HIDE DEF id, node
<1>5. /\ DOMAIN nodes = DOMAIN j.env.nodes \cup {id} /\ nodes[id] = node
      /\ \A i \in DOMAIN j.env.nodes : nodes[i] = j.env.nodes[i]
  BY <1>4
<1>6. \A i \in DOMAIN nodes : i \in 1..id /\ nodes[i] \in Node /\ Len(nodes[i].ports) = PortsPerNode
  <2>1. \A i \in DOMAIN j.env.nodes : /\ i \in 1..j.env.latest /\ j.env.nodes[i] \in Node
                                      /\ Len(j.env.nodes[i].ports) = PortsPerNode
    BY DEF EnvOK
  <2>2. 1..j.env.latest \subseteq 1..id
    BY <1>1, <1>4
  <2> HIDE DEF nodes
  <2> QED BY <2>1, <2>2, <1>3, <1>4, <1>5
<1>7. nodes \in NodeMaps
  <2>1. DOMAIN nodes \in SUBSET Nat
    <3> HIDE DEF nodes
    <3>1. \A i \in 1..id : i \in Nat
      BY <1>4
    <3> QED BY <3>1, <1>6
  <2>2. nodes \in [DOMAIN nodes -> Node]
    BY <1>6
  <2> HIDE DEF nodes
  <2> QED BY <2>1, <2>2 DEF NodeMaps
<1>8. HasSeed([nodes |-> nodes, latest |-> id])
  <2>1. CASE HasSeed(j.env)
    BY <2>1, <1>5 DEF HasSeed
  <2>2. CASE FromNothing(j)
    <3>1. node.kind = "seed"
      BY <2>2 DEF FromNothing, EnteredNode, node
    <3> QED BY <3>1, <1>5 DEF HasSeed
  <2> QED BY <2>1, <2>2 DEF JobShape
<1> HIDE DEF nodes
<1>9. /\ env \in EnvRec /\ EnvOK(env) /\ HasSeed(env)
      /\ env.nodes = nodes /\ env.latest = id
  BY <1>4, <1>6, <1>7, <1>8 DEF EnvRec, EnvOK
<1>10. /\ next \in JobRec
       /\ next.cmd = j.cmd /\ next.env = env /\ next.kinds = Tail(j.kinds) /\ next.ports = <<>>
       /\ next.todo = j.todo /\ ~next.failed /\ next.copy = {} /\ next.stage = "write"
  <2> HIDE DEF env
  <2>1. next.kinds = Tail(j.kinds) /\ next.ports = <<>>
    BY DEF JobRec
  <2>2. next.cmd = j.cmd /\ next.env = env
    BY DEF JobRec
  <2>3. next.todo = j.todo /\ next.failed = j.failed /\ next.copy = {} /\ next.stage = j.stage
    BY DEF JobRec
  <2>4. next \in JobRec
    <3>1. <<>> \in Seq(AllPorts) /\ {} \in SUBSET AllPorts
      OBVIOUS
    <3>2. env \in EnvRec
      BY <1>9
    <3> DEFINE n1 == [j EXCEPT !.env = env, !.kinds = Tail(j.kinds)]
               n2 == [n1 EXCEPT !.ports = <<>>]
    <3>3. n1 \in JobRec
      BY <3>2, <1>2 DEF JobRec
    <3> HIDE DEF n1
    <3>4. n2 \in JobRec
      BY <3>1, <3>3 DEF JobRec
    <3> HIDE DEF n2
    <3>5. [n2 EXCEPT !.copy = {}] \in JobRec
      BY <3>1, <3>4 DEF JobRec
    <3> QED BY <3>5 DEF n2, n1
  <2> HIDE DEF next
  <2> QED BY <1>1, <2>1, <2>2, <2>3, <2>4
<1>11. k = IF next.kinds # <<>> THEN [next EXCEPT !.stage = "draw"]
           ELSE IF j.cmd = "attach" THEN [next EXCEPT !.stage = "save", !.todo = <<id>>]
           ELSE [next EXCEPT !.stage = "save", !.todo = StartOrder(env), !.env.latest = NextNodeId(env)]
  BY DEF Entered, nodes, node, EnteredNode, id
<1> HIDE DEF k, next
<1>12. SUFFICES /\ k \in JobRec /\ k.cmd = j.cmd /\ k.stage \in {"draw", "save"}
                /\ k.env.nodes = nodes /\ EnvOK(k.env) /\ JobShape(k)
  BY <1>4, <1>5 DEF k, id, node
<1>13. CASE next.kinds # <<>>
  <2>1. k = [next EXCEPT !.stage = "draw"]
    BY <1>11, <1>13
  <2>2. /\ k \in JobRec /\ k.cmd = j.cmd /\ k.stage = "draw" /\ k.env = env
        /\ k.kinds # <<>> /\ k.ports = <<>> /\ k.todo = j.todo /\ ~k.failed
    <3> HIDE DEF env
    <3> QED BY <2>1, <1>10, <1>13 DEF JobRec
  <2>3. ~Working(k) /\ Allocates(k) /\ Len(k.ports) < PortsPerNode /\ k.cmd # "kick"
    BY <2>2, <1>1, PortsPerNodePositive DEF Working, Allocates
  <2>4. Range(k.todo) \subseteq DOMAIN k.env.nodes
    BY <2>2, <1>1, <1>5, <1>9
  <2>5. k.stage \in StagesOf(k.cmd)
    BY <2>2, <1>1 DEF StagesOf
  <2>6. JobShape(k)
    BY <2>2, <2>3, <2>4, <2>5, <1>9, NoPorts DEF JobShape
  <2> QED BY <2>2, <2>6, <1>9
<1>14. CASE next.kinds = <<>> /\ j.cmd = "attach"
  <2>1. k = [next EXCEPT !.stage = "save", !.todo = <<id>>]
    BY <1>11, <1>14
  <2>2. <<id>> \in Seq(Nat) /\ Range(<<id>>) = {id}
    BY <1>4 DEF Range
  <2>3. /\ k \in JobRec /\ k.cmd = j.cmd /\ k.stage = "save" /\ k.env = env
        /\ k.ports = <<>> /\ k.todo = <<id>> /\ ~k.failed
    <3> HIDE DEF env
    <3> QED BY <2>1, <2>2, <1>10 DEF JobRec
  <2>4. ~Working(k) /\ Allocates(k) /\ k.cmd # "kick"
    BY <2>3, <1>1, <1>14 DEF Working, Allocates
  <2>5. Range(k.todo) \subseteq DOMAIN k.env.nodes
    BY <2>2, <2>3, <1>5, <1>9
  <2>6. k.stage \in StagesOf(k.cmd)
    BY <2>3, <1>1 DEF StagesOf
  <2>7. JobShape(k)
    BY <2>3, <2>4, <2>5, <2>6, <1>9, NoPorts DEF JobShape
  <2> QED BY <2>3, <2>7, <1>9
<1>15. CASE next.kinds = <<>> /\ j.cmd # "attach"
  <2> DEFINE full == [env EXCEPT !.latest = NextNodeId(env)]
             todo == StartOrder(env)
  <2>1. k = [next EXCEPT !.stage = "save", !.todo = todo, !.env.latest = NextNodeId(env)]
    BY <1>11, <1>15
  <2>2. todo \in Seq(Nat) /\ Range(todo) = DOMAIN nodes
    <3> HIDE DEF env
    <3> QED BY <1>9, OrdersHaveAll
  <2>3. /\ full \in EnvRec /\ full.nodes = nodes /\ full.latest = id + 1
    <3>1. NextNodeId(env) = id + 1 /\ id + 1 \in Nat
      BY <1>4 DEF NextNodeId
    <3> HIDE DEF env
    <3> QED BY <3>1, <1>9 DEF EnvRec
  <2>4. EnvOK(full) /\ HasSeed(full)
    <3>1. id + 1 \in Nat /\ 1..id \subseteq 1..(id + 1)
      BY <1>4
    <3>2. \A i \in DOMAIN full.nodes : /\ i \in 1..(id + 1) /\ full.nodes[i] \in Node
                                       /\ Len(full.nodes[i].ports) = PortsPerNode
      BY <2>3, <3>1, <1>6
    <3>3. HasSeed(full)
      BY <2>3, <1>9 DEF HasSeed
    <3> HIDE DEF full
    <3> QED BY <2>3, <3>1, <3>2, <3>3 DEF EnvOK
  <2>5. k = [next EXCEPT !.stage = "save", !.todo = todo, !.env = full]
    <3> HIDE DEF env, todo
    <3> QED BY <2>1, <1>10 DEF JobRec
  <2> HIDE DEF full, todo
  <2>6. /\ k \in JobRec /\ k.cmd = j.cmd /\ k.stage = "save" /\ k.env = full
        /\ k.ports = <<>> /\ k.todo = todo /\ ~k.failed
    BY <2>2, <2>3, <2>5, <1>10 DEF JobRec
  <2>7. ~Working(k) /\ Allocates(k) /\ k.cmd # "kick"
    BY <2>6, <1>1 DEF Working, Allocates
  <2>8. k.stage \in StagesOf(k.cmd)
    BY <2>6, <1>1 DEF StagesOf
  <2>9. JobShape(k)
    BY <2>2, <2>3, <2>4, <2>6, <2>7, <2>8, NoPorts DEF JobShape
  <2> QED BY <2>3, <2>4, <2>6, <2>9
<1> QED BY <1>13, <1>14, <1>15

(* The command after a port was removed: it goes on with the node's next   *)
(* port, with the next node, or is done with all of them.                  *)
NextPort(j, k) ==
    /\ k.stage = "load" /\ k.env = j.env /\ k.todo = j.todo
    /\ Len(j.ports) > 1 /\ k.ports = Tail(j.ports)

NextNode(j, k) ==
    /\ k.stage = "kill" /\ k.env = j.env /\ k.todo = Tail(j.todo) /\ k.todo # <<>>
    /\ Len(j.ports) = 1 /\ k.ports = <<>>

NodesGone(j, k) ==
    /\ k.stage = "remove" /\ j.cmd = "destroy" /\ k.env = j.env /\ k.todo = <<>> /\ ~k.failed
    /\ Tail(j.todo) = <<>> /\ Len(j.ports) = 1 /\ k.ports = <<>>

NodeTakenOut(j, k) ==
    /\ k.stage = "save" /\ j.cmd = "kick" /\ k.todo = <<>>
    /\ Tail(j.todo) = <<>> /\ Len(j.ports) = 1 /\ k.ports = <<>>
    /\ DOMAIN k.env.nodes = DOMAIN j.env.nodes \ {Head(j.todo)}
    /\ \A id \in DOMAIN k.env.nodes : k.env.nodes[id] = j.env.nodes[id]

LEMMA RemovedIs ==
    ASSUME NEW j \in JobRec, EnvOK(j.env), JobShape(j), ~Allocates(j), j.stage = "write"
    PROVE  LET k == Removed(j)
           IN  \/ k = IdleJob /\ j.cmd = "stop" /\ Tail(j.todo) = <<>> /\ Len(j.ports) = 1
               \/ /\ k \in JobRec /\ k.cmd = j.cmd /\ EnvOK(k.env) /\ JobShape(k)
                  /\ NextPort(j, k) \/ NextNode(j, k) \/ NodesGone(j, k) \/ NodeTakenOut(j, k)
<1> DEFINE next == [j EXCEPT !.ports = <<>>, !.copy = {}, !.todo = Tail(@)]
           k    == Removed(j)
           id   == Head(j.todo)
<1>1. /\ Working(j) /\ ~j.failed /\ j.todo # <<>> /\ j.todo \in Seq(Nat)
      /\ Range(j.todo) \subseteq DOMAIN j.env.nodes
      /\ j.ports \in Seq(AllPorts) /\ Len(j.ports) \in 1..PortsPerNode
      /\ Range(j.ports) \subseteq Range(j.env.nodes[id].ports)
      /\ j.cmd \in {"stop", "destroy", "kick"}
      /\ j.env \in EnvRec
  BY DEF JobShape, Working, JobRec, Allocates, StagesOf
<1>2. HasSeed(j.env)
  BY <1>1 DEF JobShape, FromNothing
<1>3. j.cmd = "kick" => Len(j.todo) = 1 /\ j.env.nodes[id].kind = "node"
  BY DEF JobShape
<1>4. /\ Tail(j.todo) \in Seq(Nat) /\ Range(j.todo) = {id} \cup Range(Tail(j.todo))
      /\ Len(Tail(j.todo)) = Len(j.todo) - 1
      /\ Range(Tail(j.todo)) \subseteq DOMAIN j.env.nodes
  <2>1. /\ Tail(j.todo) \in Seq(Nat) /\ Range(j.todo) = {Head(j.todo)} \cup Range(Tail(j.todo))
        /\ Len(Tail(j.todo)) = Len(j.todo) - 1
    BY <1>1, HeadAndTail
  <2> QED BY <2>1, <1>1
<1>5. /\ j.ports # <<>> /\ Tail(j.ports) \in Seq(AllPorts)
      /\ Range(Tail(j.ports)) \subseteq Range(j.ports)
      /\ Len(Tail(j.ports)) = Len(j.ports) - 1
      /\ Len(j.ports) \in Nat
  <2>1. j.ports # <<>>
    <3>1. Len(j.ports) # 0
      BY <1>1, PortsPerNodePositive
    <3> QED BY <3>1
  <2> QED BY <1>1, <2>1, HeadAndTail
<1>6. j.cmd = "kick" => Tail(j.todo) = <<>>
  <2> DEFINE s == Tail(j.todo)
  <2>1. j.cmd = "kick" => s \in Seq(Nat) /\ Len(s) = 0
    BY <1>3, <1>4
  <2> HIDE DEF s
  <2>2. j.cmd = "kick" => s = <<>>
    BY <2>1, EmptySeq
  <2> QED BY <2>2 DEF s
<1> HIDE DEF id
<1>7. /\ next \in JobRec
      /\ next.cmd = j.cmd /\ next.env = j.env /\ next.ports = <<>>
      /\ next.todo = Tail(j.todo) /\ ~next.failed
  <2>1. <<>> \in Seq(AllPorts) /\ {} \in SUBSET AllPorts
    OBVIOUS
  <2> DEFINE n1 == [j EXCEPT !.ports = <<>>]
             n2 == [n1 EXCEPT !.copy = {}]
             n3 == [n2 EXCEPT !.todo = Tail(j.todo)]
  <2>2. /\ n1 \in JobRec
        /\ n1.cmd = j.cmd /\ n1.env = j.env /\ n1.ports = <<>> /\ n1.failed = j.failed
        /\ n1.todo = j.todo
    BY <2>1 DEF JobRec
  <2> HIDE DEF n1
  <2>3. /\ n2 \in JobRec
        /\ n2.cmd = j.cmd /\ n2.env = j.env /\ n2.ports = <<>> /\ n2.failed = j.failed
        /\ n2.todo = j.todo
    BY <2>1, <2>2 DEF JobRec
  <2> HIDE DEF n2
  <2>4. /\ n3 \in JobRec
        /\ n3.cmd = j.cmd /\ n3.env = j.env /\ n3.ports = <<>> /\ n3.failed = j.failed
        /\ n3.todo = Tail(j.todo)
    BY <1>4, <2>3 DEF JobRec
  <2>5. next = n3
    BY <2>3 DEF n1, n2
  <2> HIDE DEF n3, next
  <2> QED BY <1>1, <2>4, <2>5
<1>8. k = IF Len(j.ports) > 1 THEN [j EXCEPT !.ports = Tail(@), !.copy = {}, !.stage = "load"]
          ELSE IF next.todo # <<>> THEN [next EXCEPT !.stage = "kill"]
          ELSE CASE j.cmd = "stop"    -> IdleJob
                 [] j.cmd = "destroy" -> [next EXCEPT !.stage = "remove"]
                 [] j.cmd = "kick"    -> [next EXCEPT !.stage = "save",
                                            !.env.nodes = [i \in DOMAIN @ \ {id} |-> @[i]]]
  BY DEF Removed, id
<1> HIDE DEF k, next
<1>9. Len(j.ports) > 1 \/ Len(j.ports) = 1
  <2> DEFINE n == Len(j.ports)
  <2>1. n \in 1..PortsPerNode
    BY <1>1
  <2> HIDE DEF n
  <2>2. n > 1 \/ n = 1
    BY <2>1, PortsPerNodePositive
  <2> QED BY <2>2 DEF n
<1>10. SUFFICES
          \/ k = IdleJob /\ j.cmd = "stop" /\ Tail(j.todo) = <<>> /\ Len(j.ports) = 1
          \/ /\ k \in JobRec /\ k.cmd = j.cmd /\ EnvOK(k.env) /\ JobShape(k)
             /\ NextPort(j, k) \/ NextNode(j, k) \/ NodesGone(j, k) \/ NodeTakenOut(j, k)
  BY DEF k
<1>11. CASE Len(j.ports) > 1
  <2>1. k = [j EXCEPT !.ports = Tail(j.ports), !.copy = {}, !.stage = "load"]
    BY <1>8, <1>11
  <2>2. /\ k \in JobRec /\ k.cmd = j.cmd /\ k.env = j.env /\ k.stage = "load"
        /\ k.ports = Tail(j.ports) /\ k.todo = j.todo /\ ~k.failed
    <3>1. {} \in SUBSET AllPorts
      OBVIOUS
    <3> QED BY <2>1, <3>1, <1>1, <1>5 DEF JobRec
  <2>3. Working(k) /\ ~Allocates(k) /\ k.stage \in StagesOf(k.cmd)
    BY <2>2, <1>1 DEF Working, Allocates, StagesOf
  <2>4. Len(k.ports) \in 1..PortsPerNode
    BY <2>2, <1>1, <1>5, <1>11, PortsPerNodePositive
  <2>5. Range(k.ports) \subseteq Range(k.env.nodes[Head(k.todo)].ports)
    BY <2>2, <1>1, <1>5 DEF id
  <2>6. JobShape(k)
    BY <2>2, <2>3, <2>4, <2>5, <1>1, <1>2, <1>3 DEF JobShape, id
  <2> QED BY <2>2, <2>6, <1>11 DEF NextPort
<1>12. CASE Len(j.ports) = 1 /\ Tail(j.todo) # <<>>
  <2>1. k = [next EXCEPT !.stage = "kill"]
    BY <1>7, <1>8, <1>12
  <2>2. /\ k \in JobRec /\ k.cmd = j.cmd /\ k.env = j.env /\ k.stage = "kill"
        /\ k.ports = <<>> /\ k.todo = Tail(j.todo) /\ ~k.failed
    BY <2>1, <1>7 DEF JobRec
  <2>3. ~Working(k) /\ ~Allocates(k) /\ k.stage \in StagesOf(k.cmd) /\ k.cmd # "kick"
    BY <2>2, <1>1, <1>6, <1>12 DEF Working, Allocates, StagesOf
  <2>4. JobShape(k)
    BY <2>2, <2>3, <1>2, <1>4, <1>12, NoPorts DEF JobShape
  <2> QED BY <2>2, <2>4, <1>12 DEF NextNode
<1>13. CASE Len(j.ports) = 1 /\ Tail(j.todo) = <<>> /\ j.cmd = "stop"
  BY <1>7, <1>8, <1>13
<1>14. CASE Len(j.ports) = 1 /\ Tail(j.todo) = <<>> /\ j.cmd = "destroy"
  <2>1. k = [next EXCEPT !.stage = "remove"]
    BY <1>7, <1>8, <1>14
  <2>2. /\ k \in JobRec /\ k.cmd = j.cmd /\ k.env = j.env /\ k.stage = "remove"
        /\ k.ports = <<>> /\ k.todo = Tail(j.todo) /\ ~k.failed
    BY <2>1, <1>7 DEF JobRec
  <2>3. ~Working(k) /\ ~Allocates(k) /\ k.stage \in StagesOf(k.cmd) /\ k.cmd # "kick"
    BY <2>2, <1>14 DEF Working, Allocates, StagesOf
  <2>4. JobShape(k)
    BY <2>2, <2>3, <1>2, <1>4, NoPorts DEF JobShape
  <2> QED BY <2>2, <2>4, <1>14 DEF NodesGone
<1>15. CASE Len(j.ports) = 1 /\ Tail(j.todo) = <<>> /\ j.cmd = "kick"
  <2> DEFINE nodes == [i \in DOMAIN j.env.nodes \ {id} |-> j.env.nodes[i]]
             env   == [j.env EXCEPT !.nodes = nodes]
  <2>1. k = [next EXCEPT !.stage = "save",
                         !.env.nodes = [i \in DOMAIN next.env.nodes \ {id} |-> next.env.nodes[i]]]
    BY <1>7, <1>8, <1>15
  <2>2. k = [next EXCEPT !.stage = "save", !.env = env]
    BY <2>1, <1>7 DEF JobRec
  <2>3. /\ DOMAIN nodes = DOMAIN j.env.nodes \ {id}
        /\ \A i \in DOMAIN nodes : i \in DOMAIN j.env.nodes /\ nodes[i] = j.env.nodes[i]
    OBVIOUS
  <2>4. \A i \in DOMAIN j.env.nodes : i \in Nat /\ j.env.nodes[i] \in Node
    BY DEF EnvOK
  <2>5. nodes \in NodeMaps
    <3>1. DOMAIN nodes \in SUBSET Nat
      <4> HIDE DEF nodes
      <4> QED BY <2>3, <2>4
    <3>2. nodes \in [DOMAIN nodes -> Node]
      BY <2>4
    <3> HIDE DEF nodes
    <3> QED BY <3>1, <3>2 DEF NodeMaps
  <2> HIDE DEF nodes
  <2>6. env \in EnvRec /\ env.nodes = nodes /\ env.latest = j.env.latest
    BY <2>5, <1>1 DEF EnvRec
  <2> HIDE DEF env
  <2>7. EnvOK(env)
    BY <2>3, <2>6 DEF EnvOK
  <2>8. HasSeed(env)
    <3>1. PICK i \in DOMAIN j.env.nodes : j.env.nodes[i].kind = "seed"
      BY <1>2 DEF HasSeed
    <3>2. i # id
      BY <3>1, <1>3, <1>15
    <3>3. i \in DOMAIN env.nodes /\ env.nodes[i].kind = "seed"
      BY <2>3, <2>6, <3>1, <3>2
    <3> QED BY <3>3 DEF HasSeed
  <2>9. /\ k \in JobRec /\ k.cmd = j.cmd /\ k.env = env /\ k.stage = "save"
        /\ k.ports = <<>> /\ k.todo = Tail(j.todo) /\ ~k.failed
    BY <2>2, <2>6, <1>7 DEF JobRec
  <2>10. ~Working(k) /\ ~Allocates(k) /\ k.stage \in StagesOf(k.cmd)
    BY <2>9, <1>15 DEF Working, Allocates, StagesOf
  <2>11. JobShape(k)
    BY <2>8, <2>9, <2>10, <1>15, RangeOfEmpty, NoPorts DEF JobShape
  <2>12. NodeTakenOut(j, k)
    BY <2>3, <2>6, <2>9, <1>15 DEF NodeTakenOut, id
  <2> QED BY <2>7, <2>9, <2>11, <2>12
<1> QED BY <1>1, <1>9, <1>11, <1>12, <1>13, <1>14, <1>15

(* A write of the command on e that adds the ports new of at most one node *)
(* to its copy and takes out the ports gone.                               *)
WriteOf(e, copy, new, gone, nodes) ==
    /\ cache'.kind # "empty"
    /\ Readable' => cache'.ports = (copy \cup new) \ gone
    /\ stale \cup Differ(copy) \cup (copy \cap new) \subseteq stale'
    /\ dropped' = dropped /\ running' = running
    /\ (released \cup gone) \cap Listed' \subseteq released'
    /\ Held(e)' \subseteq Held(e) \cup new
    /\ new \subseteq Owned(e)'
    /\ Owned(e) \subseteq Owned(e)' \cup gone
    /\ NodesOf(e)' \subseteq NodesOf(e) \cup nodes
    /\ \A q, r \in nodes : q = r
    /\ \A q \in nodes : Range(q.ports) \subseteq new

LEMMA CacheWritten ==
    ASSUME DevInv, Types', JobsOK', RunningIsConfigured', NEW e \in Envs,
           \A f \in Envs \ {e} : cfg'[f] = cfg[f] /\ job'[f] = job[f],
           NEW copy \in SUBSET AllPorts, NEW new, NEW gone, NEW nodes,
           WriteOf(e, copy, new, gone, nodes)
    PROVE  CacheHasHeld' /\ CacheIsOwned' /\ NodesApart'
<1> USE DEF WriteOf
<1>1. \A f \in Envs \ {e} : /\ Active(f)' <=> Active(f)
                            /\ Held(f)' = Held(f)
                            /\ Owned(f)' = Owned(f)
                            /\ NodesOf(f)' = NodesOf(f)
  BY DEF Active, Held, Owned, NodesOf
<1>2. AllHeld' \subseteq AllHeld \cup new
  BY <1>1 DEF AllHeld
<1>3. AllOwned \subseteq AllOwned' \cup gone /\ new \subseteq AllOwned'
  BY <1>1 DEF AllOwned
<1>4. AllNodes' \subseteq AllNodes \cup nodes
  BY <1>1 DEF AllNodes
<1>5. AllHeld' \subseteq Listed'
  <2>1. (AllHeld \subseteq Listed)'
    BY HeldIsListed, PTL
  <2> QED BY <2>1
<1>6. /\ AllHeld \subseteq copy \cup stale \cup Differ(copy) \cup released
      /\ copy \subseteq AllOwned \cup stale \cup Differ(copy) \cup dropped
  <2> HIDE DEF DevInv
  <2> QED BY CopyIsGood
<1>7. CacheHasHeld'
  <2>1. AllHeld' \subseteq ((copy \cup new) \ gone) \cup stale' \cup released'
    BY <1>2, <1>5, <1>6
  <2> QED BY <2>1 DEF CacheHasHeld
<1>8. CacheIsOwned'
  <2>1. (copy \cup new) \ gone \subseteq AllOwned' \cup stale' \cup dropped'
    BY <1>3, <1>6
  <2> QED BY <2>1 DEF CacheIsOwned
<1>9. PortsAccounted'
  <2>1. Types' /\ RunningIsConfigured' => PortsAccounted'
    BY PortsOfNodes, PTL
  <2> QED BY <2>1
<1>10. PortsAccounted
  BY PortsOfNodes DEF DevInv
<1>11. new \subseteq AllHeld'
  <2>1. (Types /\ JobsOK => \A f \in Envs : Owned(f) \subseteq Held(f))'
    BY OwnedIsHeld, PTL
  <2> QED BY <2>1 DEF AllHeld
<1>12. NodesApart'
  <2> SUFFICES ASSUME NEW q \in AllNodes', NEW r \in AllNodes', q # r
               PROVE  Range(q.ports) \cap Range(r.ports) \subseteq stale' \cup released' \cup dropped'
    BY DEF NodesApart
  <2>1. released \cap AllHeld' \subseteq released'
    BY <1>5
  <2>2. ASSUME NEW p \in new, p \in AllHeld \cup dropped
        PROVE  p \in stale' \cup released' \cup dropped'
    BY <2>2, <2>1, <1>6, <1>11
  <2>3. CASE q \in AllNodes /\ r \in AllNodes
    <3>1. Range(q.ports) \cap Range(r.ports) \subseteq stale \cup released \cup dropped
      BY <2>3 DEF DevInv, NodesApart
    <3>2. Range(q.ports) \subseteq AllHeld' \cup dropped'
      BY <1>9 DEF PortsAccounted
    <3> QED BY <3>1, <3>2, <2>1
  <2>4. CASE q \in AllNodes /\ r \in nodes
    <3>1. Range(q.ports) \subseteq AllHeld \cup dropped /\ Range(r.ports) \subseteq new
      BY <2>4, <1>10 DEF PortsAccounted
    <3> QED BY <3>1, <2>2
  <2>5. CASE q \in nodes /\ r \in AllNodes
    <3>1. Range(r.ports) \subseteq AllHeld \cup dropped /\ Range(q.ports) \subseteq new
      BY <2>5, <1>10 DEF PortsAccounted
    <3> QED BY <3>1, <2>2
  <2> QED BY <2>3, <2>4, <2>5, <1>4
<1> QED BY <1>7, <1>8, <1>12

LEMMA WriteNewKeeps ==
    ASSUME DevInv, NEW e \in Envs, WriteCache(e), Allocates(job[e])
    PROVE  DevInv'
<1> DEFINE j    == job[e]
           k    == Entered(j)
           id   == NextNodeId(j.env)
           new  == Range(j.ports)
           node == [env |-> e, id |-> id, ports |-> j.ports]
<1>1. Active(e) /\ j.stage = "write"
  BY AtStage DEF WriteCache
<1>2. /\ j \in JobRec /\ EnvOK(j.env) /\ JobShape(j) /\ JobCopy(j, cfg[e])
      /\ Held(e) = PortsOf(cfg[e]) \cup PortsOf(j.env)
      /\ NodesOf(e) = NodesIn(e, cfg[e]) \cup NodesIn(e, j.env)
      /\ \A q \in running : q.env = e /\ q.id \in DOMAIN cfg[e].nodes
                              => q.id \in Remaining(j, cfg[e])
  BY <1>1, JobFacts
<1>3. /\ cfg' = cfg /\ used' = used /\ running' = running /\ dropped' = dropped
      /\ cache' = IF cache.size =< Cardinality(j.copy \cup new) THEN Holds(j.copy \cup new)
                                                               ELSE Garbled(cache.size)
      /\ stale' = stale \cup Differ(j.copy) \cup (j.copy \cap new)
      /\ released' = released \cap Listed'
      /\ job' = [job EXCEPT ![e] = k]
  BY DEF WriteCache, Updated
<1>4. Types
  BY DEF DevInv
<1>5. job \in [Envs -> JobRec \cup {IdleJob}]
  BY <1>4 DEF Types
<1>6. /\ k \in JobRec /\ k.cmd = j.cmd /\ k.stage \in {"draw", "save"}
      /\ EnvOK(k.env) /\ JobShape(k)
      /\ DOMAIN k.env.nodes = DOMAIN j.env.nodes \cup {id}
      /\ k.env.nodes[id] = EnteredNode(j)
      /\ \A i \in DOMAIN j.env.nodes : k.env.nodes[i] = j.env.nodes[i]
  <2> HIDE DEF DevInv
  <2> QED BY <1>1, <1>2, EnteredIs
<1>7. j.copy \in SUBSET AllPorts /\ new \subseteq AllPorts
  <2>1. j.copy \in SUBSET AllPorts /\ j.ports \in Seq(AllPorts)
    BY <1>2 DEF JobRec
  <2>2. \A s \in Seq(AllPorts) : Range(s) \subseteq AllPorts
    BY ElementOfSeq, LenProperties DEF Range
  <2> QED BY <2>1, <2>2
<1>8. j.cmd \in {"create", "attach"} /\ k.env.nodes[id].ports = j.ports
  BY <1>6 DEF Allocates, EnteredNode
<1> HIDE DEF k, j, id
<1>9. /\ job'[e] = k
      /\ \A f \in Envs \ {e} : job'[f] = job[f] /\ cfg'[f] = cfg[f]
      /\ job' \in [Envs -> JobRec \cup {IdleJob}]
  BY <1>3, <1>5, <1>6
<1>10. Active(e)'
  BY <1>6, <1>9 DEF Active, JobRec, IdleJob
<1>11. /\ cache'.kind # "empty" /\ cache'.kind \in {"holds", "empty", "garbled"}
       /\ cache'.ports \subseteq AllPorts
       /\ Readable' => cache'.ports = j.copy \cup new
  BY <1>3, <1>7 DEF Holds, Garbled, Readable
<1>12. Differ(j.copy) \subseteq AllPorts
  <2> HIDE DEF DevInv
  <2> QED BY <1>7, CopyIsGood
<1>13. Types'
  <2>1. \A f \in Envs : Active(f)' => EnvOK(job'[f].env)
    BY <1>4, <1>6, <1>9 DEF Types, Active
  <2>2. stale' \subseteq AllPorts /\ released' \subseteq AllPorts
    BY <1>3, <1>4, <1>7, <1>12 DEF Types
  <2> QED BY <1>3, <1>4, <1>9, <1>11, <2>1, <2>2 DEF Types
<1>14. JobCopy(k, cfg[e])
  BY <1>2, <1>6, <1>8 DEF JobCopy
<1>15. Remaining(k, cfg[e]) = DOMAIN cfg[e].nodes
  BY <1>6, <1>8 DEF Remaining
<1>16. Seeded' /\ JobsOK' /\ KilledGone' /\ RunningIsConfigured'
  <2> HIDE DEF DevInv
  <2>1. cfg'[e] = Absent \/ HasSeed(cfg'[e])
    BY <1>3, EnvFacts
  <2>2. \A q \in running' : q.env = e =>
              \/ q.id \in DOMAIN cfg'[e].nodes /\ cfg'[e].nodes[q.id].ports = q.ports
              \/ Range(q.ports) \subseteq dropped'
    BY <1>3, EnvFacts
  <2>3. Active(e)' => JobShape(job'[e]) /\ JobCopy(job'[e], cfg'[e])
    BY <1>3, <1>6, <1>9, <1>14
  <2>4. Active(e)' => \A q \in running' :
              q.env = e /\ q.id \in DOMAIN cfg'[e].nodes => q.id \in Remaining(job'[e], cfg'[e])
    BY <1>3, <1>9, <1>15
  <2>5. dropped \subseteq dropped' /\ \A q \in running' : q.env # e => q \in running
    BY <1>3
  <2> QED BY <1>9, <1>13, <2>1, <2>2, <2>3, <2>4, <2>5, JobsStay
<1>17. PortsOf(k.env) = PortsOf(j.env) \cup new
  BY <1>6, <1>8 DEF PortsOf
<1>18. NodesIn(e, k.env) \subseteq NodesIn(e, j.env) \cup {node}
  <2> SUFFICES ASSUME NEW i \in DOMAIN k.env.nodes
               PROVE  [env |-> e, id |-> i, ports |-> k.env.nodes[i].ports]
                         \in NodesIn(e, j.env) \cup {node}
    BY DEF NodesIn
  <2>1. CASE i = id
    BY <2>1, <1>8
  <2>2. CASE i # id
    BY <2>2, <1>6 DEF NodesIn
  <2> QED BY <2>1, <2>2
<1>19. Held(e)' = Held(e) \cup new
  BY <1>2, <1>3, <1>9, <1>10, <1>17 DEF Held
<1>20. Owned(e)' = Held(e)' /\ Owned(e) = Held(e)
  <2>1. Owned(e)' = Held(e)'
    BY <1>6, <1>8, <1>9 DEF Owned
  <2>2. Owned(e) = Held(e)
    BY <1>8 DEF Owned, j
  <2> QED BY <2>1, <2>2
<1>21. NodesOf(e)' \subseteq NodesOf(e) \cup {node}
  BY <1>2, <1>3, <1>9, <1>10, <1>18 DEF NodesOf
<1>22. CacheHasHeld' /\ CacheIsOwned' /\ NodesApart'
  <2>1. \A q \in {node} : Range(q.ports) \subseteq new
    OBVIOUS
  <2>2. Readable' => cache'.ports = (j.copy \cup new) \ {}
    BY <1>11
  <2>3. (released \cup {}) \cap Listed' \subseteq released'
    BY <1>3
  <2>4. stale \cup Differ(j.copy) \cup (j.copy \cap new) \subseteq stale'
    BY <1>3
  <2>5. /\ Held(e)' \subseteq Held(e) \cup new /\ new \subseteq Owned(e)'
        /\ Owned(e) \subseteq Owned(e)' \cup {}
    BY <1>19, <1>20
  <2>6. \A q, r \in {node} : q = r
    OBVIOUS
  <2>7. WriteOf(e, j.copy, new, {}, {node})
    <3> HIDE DEF new, node
    <3> QED BY <2>1, <2>2, <2>3, <2>4, <2>5, <2>6, <1>3, <1>11, <1>21 DEF WriteOf
  <2> HIDE DEF DevInv, new, node
  <2> QED BY <2>7, <1>7, <1>9, <1>13, <1>16, CacheWritten
<1> QED BY <1>13, <1>16, <1>22 DEF DevInv

LEMMA WriteOutKeeps ==
    ASSUME DevInv, NEW e \in Envs, WriteCache(e), ~Allocates(job[e])
    PROVE  DevInv'
<1> DEFINE j    == job[e]
           k    == Removed(j)
           id   == Head(j.todo)
           gone == {Head(j.ports)}
<1>1. Active(e) /\ j.stage = "write"
  BY AtStage DEF WriteCache
<1>2. /\ j \in JobRec /\ EnvOK(j.env) /\ JobShape(j) /\ JobCopy(j, cfg[e])
      /\ Held(e) = PortsOf(cfg[e]) \cup PortsOf(j.env)
      /\ NodesOf(e) = NodesIn(e, cfg[e]) \cup NodesIn(e, j.env)
      /\ \A q \in running : q.env = e /\ q.id \in DOMAIN cfg[e].nodes
                              => q.id \in Remaining(j, cfg[e])
  BY <1>1, JobFacts
<1>3. /\ cfg' = cfg /\ used' = used /\ running' = running /\ dropped' = dropped
      /\ cache' = IF cache.size =< Cardinality(j.copy \ gone) THEN Holds(j.copy \ gone)
                                                             ELSE Garbled(cache.size)
      /\ stale' = stale \cup Differ(j.copy)
      /\ released' = (released \cup gone) \cap Listed'
      /\ job' = [job EXCEPT ![e] = k]
  BY DEF WriteCache, Updated
<1>4. Types
  BY DEF DevInv
<1>5. job \in [Envs -> JobRec \cup {IdleJob}]
  BY <1>4 DEF Types
<1>6. \/ k = IdleJob /\ j.cmd = "stop" /\ Tail(j.todo) = <<>> /\ Len(j.ports) = 1
      \/ /\ k \in JobRec /\ k.cmd = j.cmd /\ EnvOK(k.env) /\ JobShape(k)
         /\ NextPort(j, k) \/ NextNode(j, k) \/ NodesGone(j, k) \/ NodeTakenOut(j, k)
  <2> HIDE DEF DevInv
  <2> QED BY <1>1, <1>2, RemovedIs
<1> HIDE DEF k, j
<1>7. /\ j.copy \in SUBSET AllPorts /\ j.ports \in Seq(AllPorts)
      /\ Len(j.ports) \in 1..PortsPerNode
      /\ j.todo \in Seq(Nat) /\ j.todo # <<>> /\ Range(j.todo) \subseteq DOMAIN j.env.nodes
      /\ j.cmd \in {"stop", "destroy", "kick"}
      /\ j.cmd = "kick" => Len(j.todo) = 1
      /\ Working(j) /\ j.env = cfg[e] /\ ~Allocates(j)
  <2>1. Working(j) /\ ~Allocates(j)
    BY <1>1 DEF Working, j
  <2>2. j.cmd \in {"stop", "destroy", "kick"}
    BY <1>2, <2>1 DEF JobRec, Allocates, JobShape, StagesOf, Working
  <2>3. j.env = cfg[e]
    BY <1>1, <1>2, <2>2 DEF JobCopy, j
  <2> QED BY <1>1, <1>2, <2>1, <2>2, <2>3 DEF JobShape, JobRec
<1>8. /\ Range(j.ports) = gone \cup Range(Tail(j.ports)) /\ gone \subseteq AllPorts
      /\ Len(j.ports) = 1 => Range(Tail(j.ports)) = {}
  <2>1. Len(j.ports) # 0
    BY <1>7, PortsPerNodePositive
  <2>2. j.ports # <<>>
    BY <2>1
  <2> DEFINE t == Tail(j.ports)
  <2>3. /\ Head(j.ports) \in AllPorts /\ t \in Seq(AllPorts) /\ Len(t) = Len(j.ports) - 1
        /\ Range(j.ports) = {Head(j.ports)} \cup Range(t)
    BY <1>7, <2>2, HeadAndTail
  <2> HIDE DEF t
  <2>4. Len(j.ports) = 1 => Len(t) = 0
    BY <2>3
  <2>5. Len(j.ports) = 1 => t = <<>>
    BY <2>3, <2>4, EmptySeq
  <2>6. Len(j.ports) = 1 => Range(t) = {}
    BY <2>5, RangeOfEmpty
  <2> QED BY <2>3, <2>6 DEF t
<1>9. /\ Range(j.todo) = {id} \cup Range(Tail(j.todo))
      /\ Tail(j.todo) = <<>> => Range(Tail(j.todo)) = {}
  BY <1>7, HeadAndTail, RangeOfEmpty
<1>10. Remaining(j, cfg[e]) = IF j.cmd = "kick" THEN DOMAIN cfg[e].nodes \ {id}
                                               ELSE Range(Tail(j.todo))
  BY <1>1, <1>7 DEF Remaining
<1> HIDE DEF id, gone
<1>11. k = IdleJob \/ k \in JobRec
  BY <1>6
<1>12. /\ job'[e] = k
       /\ \A f \in Envs \ {e} : job'[f] = job[f] /\ cfg'[f] = cfg[f]
       /\ job' \in [Envs -> JobRec \cup {IdleJob}]
  BY <1>3, <1>5, <1>11
<1>13. Active(e)' <=> k # IdleJob
  BY <1>12 DEF Active
<1>14. k \in JobRec => k # IdleJob
  BY DEF JobRec, IdleJob
<1>15. /\ cache'.kind # "empty" /\ cache'.kind \in {"holds", "empty", "garbled"}
       /\ cache'.ports \subseteq AllPorts
       /\ Readable' => cache'.ports = j.copy \ gone
  BY <1>3, <1>7 DEF Holds, Garbled, Readable
<1>16. Differ(j.copy) \subseteq AllPorts
  <2> HIDE DEF DevInv
  <2> QED BY <1>7, CopyIsGood
<1>17. Types'
  <2>1. \A f \in Envs : Active(f)' => EnvOK(job'[f].env)
    BY <1>4, <1>6, <1>12, <1>13 DEF Types, Active
  <2>2. stale' \subseteq AllPorts /\ released' \subseteq AllPorts
    BY <1>3, <1>4, <1>8, <1>16 DEF Types
  <2> QED BY <1>3, <1>4, <1>12, <1>15, <2>1, <2>2 DEF Types
<1>18. k # IdleJob => JobShape(k) /\ JobCopy(k, cfg[e])
  <2> SUFFICES ASSUME k # IdleJob PROVE JobShape(k) /\ JobCopy(k, cfg[e])
    OBVIOUS
  <2>1. /\ JobShape(k) /\ k.cmd = j.cmd
        /\ NextPort(j, k) \/ NextNode(j, k) \/ NodesGone(j, k) \/ NodeTakenOut(j, k)
    BY <1>6
  <2>2. CASE NodeTakenOut(j, k)
    <3>1. k.cmd = "kick" /\ k.stage = "save"
      BY <2>1, <2>2 DEF NodeTakenOut
    <3>2. \A i \in DOMAIN k.env.nodes : i \in DOMAIN cfg[e].nodes /\ k.env.nodes[i] = cfg[e].nodes[i]
      BY <2>2, <1>7 DEF NodeTakenOut
    <3> QED BY <2>1, <3>1, <3>2 DEF JobCopy
  <2>3. CASE ~NodeTakenOut(j, k)
    <3>1. k.env = cfg[e] /\ k.cmd # "attach"
      BY <2>1, <2>3, <1>7 DEF NextPort, NextNode, NodesGone
    <3> QED BY <2>1, <3>1 DEF JobCopy
  <2> QED BY <2>2, <2>3
<1>19. k # IdleJob => Remaining(k, cfg[e]) = Remaining(j, cfg[e])
  <2> SUFFICES ASSUME k # IdleJob PROVE Remaining(k, cfg[e]) = Remaining(j, cfg[e])
    OBVIOUS
  <2>1. k.cmd = j.cmd
    BY <1>6
  <2>2. CASE NextPort(j, k)
    BY <2>1, <2>2, <1>7, <1>10 DEF Remaining, NextPort, id
  <2>3. CASE NextNode(j, k)
    <3>1. j.cmd # "kick"
      <4>1. j.cmd = "kick" => Len(Tail(j.todo)) = 0 /\ Tail(j.todo) \in Seq(Nat)
        BY <1>7, HeadAndTail
      <4> DEFINE s == Tail(j.todo)
      <4> HIDE DEF s
      <4>2. s \in Seq(Nat) /\ Len(s) = 0 => s = <<>>
        BY EmptySeq
      <4> QED BY <4>1, <4>2, <2>3 DEF NextNode, s
    <3> QED BY <3>1, <2>1, <2>3, <1>7, <1>10 DEF Remaining, NextNode
  <2>4. CASE NodesGone(j, k)
    BY <2>1, <2>4, <1>9, <1>10 DEF Remaining, NodesGone
  <2>5. CASE NodeTakenOut(j, k)
    BY <2>1, <2>5, <1>7, <1>10 DEF Remaining, NodeTakenOut, id
  <2> QED BY <1>6, <2>2, <2>3, <2>4, <2>5
<1>20. Seeded' /\ JobsOK' /\ KilledGone' /\ RunningIsConfigured'
  <2> HIDE DEF DevInv
  <2>1. cfg'[e] = Absent \/ HasSeed(cfg'[e])
    BY <1>3, EnvFacts
  <2>2. \A q \in running' : q.env = e =>
              \/ q.id \in DOMAIN cfg'[e].nodes /\ cfg'[e].nodes[q.id].ports = q.ports
              \/ Range(q.ports) \subseteq dropped'
    BY <1>3, EnvFacts
  <2>3. Active(e)' => JobShape(job'[e]) /\ JobCopy(job'[e], cfg'[e])
    BY <1>3, <1>12, <1>13, <1>18
  <2>4. Active(e)' => \A q \in running' :
              q.env = e /\ q.id \in DOMAIN cfg'[e].nodes => q.id \in Remaining(job'[e], cfg'[e])
    BY <1>2, <1>3, <1>12, <1>13, <1>19
  <2>5. dropped \subseteq dropped' /\ \A q \in running' : q.env # e => q \in running
    BY <1>3
  <2> QED BY <1>12, <1>17, <2>1, <2>2, <2>3, <2>4, <2>5, JobsStay
<1>21. k # IdleJob => PortsOf(k.env) \subseteq PortsOf(cfg[e]) /\ NodesIn(e, k.env) \subseteq NodesIn(e, cfg[e])
  <2> SUFFICES ASSUME k # IdleJob, NEW i \in DOMAIN k.env.nodes
               PROVE  i \in DOMAIN cfg[e].nodes /\ k.env.nodes[i] = cfg[e].nodes[i]
    BY DEF PortsOf, NodesIn
  <2> QED BY <1>6, <1>7 DEF NextPort, NextNode, NodesGone, NodeTakenOut
<1>22. Held(e)' = PortsOf(cfg[e]) /\ NodesOf(e)' = NodesIn(e, cfg[e])
  BY <1>3, <1>12, <1>13, <1>21 DEF Held, NodesOf
<1>23. Owned(e) \subseteq Owned(e)' \cup gone
  <2>1. CASE j.cmd = "stop"
    <3>1. Owned(e)' = Held(e)'
      BY <2>1, <1>6, <1>12, <1>13 DEF Owned
    <3>2. Owned(e) = Held(e)
      BY <2>1 DEF Owned, j
    <3> QED BY <3>1, <3>2, <1>2, <1>7, <1>22
  <2>2. CASE j.cmd \in {"destroy", "kick"}
    <3>1. k # IdleJob /\ k.cmd = j.cmd
      BY <2>2, <1>6, <1>14
    <3>2. Owned(e) = PortsAt(cfg[e], Remaining(j, cfg[e])) \cup Range(j.ports)
      BY <2>2, <1>1, <1>7 DEF Owned, j
    <3>3. Owned(e)' = PortsAt(cfg[e], Remaining(j, cfg[e]))
                        \cup (IF Working(k) THEN Range(k.ports) ELSE {})
      BY <2>2, <3>1, <1>3, <1>12, <1>13, <1>19 DEF Owned
    <3>4. Range(j.ports) \subseteq gone \cup (IF Working(k) THEN Range(k.ports) ELSE {})
      <4>1. CASE NextPort(j, k)
        BY <4>1, <1>8 DEF NextPort, Working
      <4>2. CASE ~NextPort(j, k)
        <5>1. Len(j.ports) = 1
          BY <3>1, <4>2, <1>6 DEF NextNode, NodesGone, NodeTakenOut
        <5> QED BY <5>1, <1>8
      <4> QED BY <4>1, <4>2
    <3> QED BY <3>2, <3>3, <3>4
  <2> QED BY <2>1, <2>2, <1>7
<1>24. CacheHasHeld' /\ CacheIsOwned' /\ NodesApart'
  <2>1. WriteOf(e, j.copy, {}, gone, {})
    <3>1. Readable' => cache'.ports = (j.copy \cup {}) \ gone
      BY <1>15
    <3>2. stale \cup Differ(j.copy) \cup (j.copy \cap {}) \subseteq stale'
      BY <1>3
    <3>3. Held(e)' \subseteq Held(e) \cup {} /\ NodesOf(e)' \subseteq NodesOf(e) \cup {}
      BY <1>2, <1>22
    <3>4. (released \cup gone) \cap Listed' \subseteq released'
      BY <1>3
    <3> QED BY <3>1, <3>2, <3>3, <3>4, <1>3, <1>15, <1>23 DEF WriteOf
  <2> HIDE DEF DevInv
  <2> QED BY <2>1, <1>7, <1>12, <1>17, <1>20, CacheWritten
<1> QED BY <1>17, <1>20, <1>24 DEF DevInv

LEMMA FailureKeeps ==
    ASSUME DevInv, NEW e \in Envs, ToolFails(e) \/ DrawFails(e) \/ LoadFails(e) \/ KillFails(e)
    PROVE  /\ DevInv'
           /\ Active(e) /\ FailKeepingFiles(e)
           /\ job[e].stage \in {"draw", "save", "load", "kill"}
<1> HIDE DEF DevInv
<1>1. /\ Active(e) /\ FailKeepingFiles(e)
      /\ job[e].stage \in {"draw", "save", "load", "kill"}
      /\ job[e].stage = "save" => Allocates(job[e])
  <2>1. CASE ToolFails(e)
    BY <2>1 DEF ToolFails, Active
  <2>2. CASE DrawFails(e)
    BY <2>2, AtStage DEF DrawFails
  <2>3. CASE LoadFails(e)
    BY <2>3, AtStage DEF LoadFails
  <2>4. CASE KillFails(e)
    BY <2>4, AtStage DEF KillFails
  <2> QED BY <2>1, <2>2, <2>3, <2>4
<1> QED BY <1>1, FailKeeps

LEMMA DevStart == Init => DevInv
<1> SUFFICES ASSUME Init PROVE DevInv
  OBVIOUS
<1>1. /\ cache = Holds({}) /\ cfg = [e \in Envs |-> Absent] /\ running = {}
      /\ job = [e \in Envs |-> IdleJob] /\ used = 0
      /\ stale = {} /\ released = {} /\ dropped = {}
  BY DEF Init
<1>2. \A e \in Envs : cfg[e] = Absent /\ job[e] = IdleJob /\ ~Active(e)
  BY <1>1 DEF Active
<1>3. Types
  <2>1. cfg \in [Envs -> EnvRec] /\ job \in [Envs -> JobRec \cup {IdleJob}]
    BY <1>1, AbsentOK
  <2>2. cache.kind = "holds" /\ cache.ports = {}
    BY <1>1 DEF Holds
  <2>3. used \in 0..MaxCmds
    BY <1>1, DevEnvAssumption
  <2> QED BY <1>1, <1>2, <2>1, <2>2, <2>3, AbsentOK DEF Types
<1>4. Seeded /\ JobsOK /\ KilledGone /\ RunningIsConfigured
  BY <1>1, <1>2 DEF Seeded, JobsOK, KilledGone, RunningIsConfigured
<1>5. \A e \in Envs : Held(e) = {} /\ NodesOf(e) = {}
  BY <1>2, AbsentOK DEF Held, NodesOf
<1>6. AllHeld = {} /\ AllNodes = {}
  BY <1>1, <1>5 DEF AllHeld, AllNodes
<1>7. cache.ports = {} /\ cache.kind = "holds"
  BY <1>1 DEF Holds
<1>8. CacheHasHeld /\ CacheIsOwned /\ NodesApart
  BY <1>6, <1>7 DEF CacheHasHeld, CacheIsOwned, NodesApart
<1> QED BY <1>3, <1>4, <1>8 DEF DevInv

LEMMA DevStep == DevInv /\ [Next]_vars => DevInv'
<1> SUFFICES ASSUME DevInv, [Next]_vars PROVE DevInv'
  OBVIOUS
<1>1. CASE UNCHANGED vars
  BY <1>1 DEF vars, history, DevInv, Types, Seeded, JobsOK, KilledGone, RunningIsConfigured,
     CacheHasHeld, CacheIsOwned, NodesApart, Active, Held, Owned, AllHeld, AllOwned, NodesOf, AllNodes,
     At, Readable
<1>2. CASE Next
  <2> HIDE DEF DevInv
  <2>1. PICK e \in Envs :
        \/ Create(e) \/ Start(e) \/ Stop(e) \/ Destroy(e) \/ AttachNode(e) \/ KickNode(e)
        \/ ToolFails(e) \/ Draw(e) \/ DrawFails(e)
        \/ LoadCache(e) \/ LoadFails(e) \/ TruncateCache(e) \/ WriteCache(e)
        \/ WriteCfg(e) \/ Launch(e) \/ Kill(e) \/ KillFails(e) \/ RemoveDir(e)
    BY <1>2 DEF Next
  <2>2. CASE Create(e)
    BY <2>2, CreateKeeps
  <2>3. CASE Start(e)
    BY <2>3, StartKeeps
  <2>4. CASE Stop(e)
    BY <2>4, StopKeeps DEF Stop
  <2>5. CASE Destroy(e)
    BY <2>5, StopKeeps DEF Destroy
  <2>6. CASE AttachNode(e)
    BY <2>6, AttachKeeps
  <2>7. CASE KickNode(e)
    BY <2>7, KickKeeps
  <2>8. CASE ToolFails(e) \/ DrawFails(e) \/ LoadFails(e) \/ KillFails(e)
    BY <2>8, FailureKeeps
  <2>9. CASE Draw(e)
    BY <2>9, DrawKeeps
  <2>10. CASE LoadCache(e)
    BY <2>10, LoadKeeps
  <2>11. CASE TruncateCache(e)
    BY <2>11, TruncateKeeps
  <2>12. CASE WriteCache(e)
    BY <2>12, WriteNewKeeps, WriteOutKeeps
  <2>13. CASE WriteCfg(e)
    BY <2>13, WriteCfgKeeps
  <2>14. CASE Launch(e)
    BY <2>14, LaunchKeeps
  <2>15. CASE Kill(e)
    BY <2>15, KillKeeps
  <2>16. CASE RemoveDir(e)
    BY <2>16, RemoveDirKeeps
  <2> QED BY <2>1, <2>2, <2>3, <2>4, <2>5, <2>6, <2>7, <2>8, <2>9, <2>10, <2>11, <2>12,
             <2>13, <2>14, <2>15, <2>16
<1> QED BY <1>1, <1>2

(* The invariant of the development environments, in every reachable       *)
(* state: what each command's copy of the configuration has to do with the *)
(* file, which nodes a stop has left alone, and that the cache has what is *)
(* needed and only that, but for the causes the history names.             *)
THEOREM DevInvariant == Spec => []DevInv
<1>1. DevInv /\ [Next]_vars => DevInv'
  BY DevStep
<1> QED BY DevStart, <1>1, PTL DEF Spec

-----------------------------------------------------------------------------
(* The variables of every reachable state have the values their comments   *)
(* say.                                                                    *)
THEOREM DevTypes == Spec => []TypeOK
<1>1. DevInv => TypeOK
  <2> SUFFICES ASSUME DevInv PROVE TypeOK
    OBVIOUS
  <2>1. Types /\ JobsOK
    BY DEF DevInv
  <2>2. \A e \in Envs : Active(e) =>
           /\ job[e] \in JobRec /\ EnvOK(job[e].env)
           /\ Len(job[e].ports) =< PortsPerNode
    BY <2>1 DEF Types, JobsOK, JobShape, Active
  <2>3. \A e \in Envs : job[e] = IdleJob \/
         /\ job[e].stage \in {"draw", "load", "truncate", "write", "save", "launch",
                              "kill", "remove"}
         /\ EnvOK(job[e].env)
         /\ job[e].copy \subseteq AllPorts
         /\ Len(job[e].ports) =< PortsPerNode
    BY <2>2 DEF JobRec, Active
  <2> QED BY <2>1, <2>3 DEF Types, TypeOK
<1> QED BY <1>1, DevInvariant, PTL

(* Two nodes, configured or running, of any environments have a port in    *)
(* common only for one of the causes: an old copy of the cache, a port     *)
(* given back while the node kept it, an abandoned node (dev.rs:4-6).      *)
THEOREM PortsApart == Spec => []SharedPortsHaveCause
<1>1. DevInv => SharedPortsHaveCause
  <2> SUFFICES ASSUME DevInv PROVE SharedPortsHaveCause
    OBVIOUS
  <2>1. Occupants \subseteq AllNodes
    BY DEF Occupants, AllNodes, NodesOf, NodesIn
  <2> QED BY <2>1 DEF SharedPortsHaveCause, DevInv, NodesApart
<1> QED BY <1>1, DevInvariant, PTL

(* The ports of every configured node are in the cache, but for the causes *)
(* (dev.rs:281-347, 646-653).                                              *)
THEOREM UsedAreCached == Spec => []UsedPortsAreCached
<1>1. DevInv => UsedPortsAreCached
  BY DEF UsedPortsAreCached, DevInv, CacheHasHeld, AllHeld, Held
<1> QED BY <1>1, DevInvariant, PTL

(* The cache has no port that nobody has, but for the causes (dev.rs:234). *)
THEOREM CachedAreUsed == Spec => []CachedPortsAreUsed
<1>1. DevInv => CachedPortsAreUsed
  BY OwnedIsListed DEF CachedPortsAreUsed, DevInv, CacheIsOwned
<1> QED BY <1>1, DevInvariant, PTL

(* Every process is a node that stop, destroy and kick will find, unless   *)
(* its environment was created over or destroyed although its stop failed. *)
THEOREM RunningConfigured == Spec => []RunningIsConfigured
<1>1. DevInv => RunningIsConfigured
  BY DEF DevInv
<1> QED BY <1>1, DevInvariant, PTL

-----------------------------------------------------------------------------
(* A command ends in few ways.                                             *)
Ending(e) ==
    \/ FailKeepingFiles(e) /\ job[e].stage \in {"draw", "save", "load", "kill"}
    \/ WriteCache(e)
    \/ WriteCfg(e)
    \/ Launch(e)
    \/ RemoveDir(e)

(* A step of a command, by what it does to the command itself.             *)
LEMMA CommandsEnd ==
    ASSUME DevInv, Next, NEW e \in Envs, Active(e), ~Active(e)'
    PROVE  Ending(e)
<1>1. PICK f \in Envs :
        \/ Create(f) \/ Start(f) \/ Stop(f) \/ Destroy(f) \/ AttachNode(f) \/ KickNode(f)
        \/ ToolFails(f) \/ Draw(f) \/ DrawFails(f)
        \/ LoadCache(f) \/ LoadFails(f) \/ TruncateCache(f) \/ WriteCache(f)
        \/ WriteCfg(f) \/ Launch(f) \/ Kill(f) \/ KillFails(f) \/ RemoveDir(f)
  BY DEF Next
<1>2. job \in [Envs -> JobRec \cup {IdleJob}]
  BY DEF DevInv, Types
<1>3. job[e] # IdleJob /\ job'[e] = IdleJob
  BY DEF Active
<1>4. \A j \in JobRec : j # IdleJob
  BY DEF JobRec, IdleJob
<1>5. ASSUME NEW j, job' = [job EXCEPT ![f] = j]
      PROVE  f = e /\ j = IdleJob
  BY <1>2, <1>3, <1>5
<1>6. ASSUME NEW j, Begin(f, j)
      PROVE  FALSE
  BY <1>3, <1>5, <1>6 DEF Begin
<1>7. CASE Create(f) \/ Start(f) \/ Stop(f) \/ Destroy(f) \/ AttachNode(f) \/ KickNode(f)
  BY <1>6, <1>7 DEF Create, Start, Stop, Destroy, AttachNode, KickNode
<1>8. CASE ToolFails(f) \/ DrawFails(f) \/ LoadFails(f) \/ KillFails(f)
  <2>1. FailKeepingFiles(f) /\ job[f].stage \in {"draw", "save", "load", "kill"}
    <3> HIDE DEF DevInv
    <3> QED BY <1>8, FailureKeeps
  <2>2. f = e
    BY <2>1, <1>2, <1>3 DEF FailKeepingFiles, Fail
  <2> QED BY <2>1, <2>2 DEF Ending
<1>9. ASSUME NEW ports, NEW stage, NEW copy, job[f] \in JobRec,
             job' = [job EXCEPT ![f] = [@ EXCEPT !.ports = ports, !.stage = stage, !.copy = copy]]
      PROVE  FALSE
  <2>1. [job[f] EXCEPT !.ports = ports, !.stage = stage, !.copy = copy] = IdleJob
    BY <1>5, <1>9
  <2> QED BY <2>1, <1>9 DEF JobRec, IdleJob
<1>10. \A stage : At(f, stage) => job[f] \in JobRec
  BY <1>2 DEF At
<1>11. CASE Draw(f)
  <2>1. job[f] \in JobRec
    BY <1>10, <1>11 DEF Draw
  <2>2. PICK ports, stage : job' = [job EXCEPT ![f].ports = ports, ![f].stage = stage]
    BY <1>11 DEF Draw
  <2>3. job' = [job EXCEPT ![f] = [@ EXCEPT !.ports = ports, !.stage = stage, !.copy = job[f].copy]]
    BY <2>1, <2>2, <1>2 DEF JobRec
  <2> QED BY <2>1, <2>3, <1>9
<1>12. CASE LoadCache(f)
  <2>1. job[f] \in JobRec
    BY <1>10, <1>12 DEF LoadCache
  <2>2. job' = [job EXCEPT ![f] = [@ EXCEPT !.ports = job[f].ports, !.stage = "truncate",
                                            !.copy = cache.ports]]
    BY <2>1, <1>2, <1>12 DEF LoadCache, JobRec
  <2> QED BY <2>1, <2>2, <1>9
<1>13. CASE TruncateCache(f)
  <2>1. job[f] \in JobRec
    BY <1>10, <1>13 DEF TruncateCache
  <2>2. job' = [job EXCEPT ![f] = [@ EXCEPT !.ports = job[f].ports, !.stage = "write",
                                            !.copy = job[f].copy]]
    BY <2>1, <1>2, <1>13 DEF TruncateCache, JobRec
  <2> QED BY <2>1, <2>2, <1>9
<1>14. CASE Kill(f)
  <2>1. job[f] \in JobRec
    BY <1>10, <1>14 DEF Kill
  <2>2. PICK ports : job' = [job EXCEPT ![f].ports = ports, ![f].stage = "load"]
    BY <1>14 DEF Kill
  <2>3. job' = [job EXCEPT ![f] = [@ EXCEPT !.ports = ports, !.stage = "load", !.copy = job[f].copy]]
    BY <2>1, <2>2, <1>2 DEF JobRec
  <2> QED BY <2>1, <2>3, <1>9
<1>15. CASE WriteCache(f) \/ WriteCfg(f) \/ Launch(f) \/ RemoveDir(f)
  <2>1. PICK j : job' = [job EXCEPT ![f] = j]
    BY <1>15 DEF WriteCache, WriteCfg, Launch, RemoveDir
  <2>2. f = e
    BY <2>1, <1>5
  <2> QED BY <2>2, <1>15 DEF Ending
<1> QED BY <1>1, <1>7, <1>8, <1>11, <1>12, <1>13, <1>14, <1>15

(* A stop or destroy that met no error leaves no process of the nodes it   *)
(* had loaded; a kick leaves none that the configuration does not have     *)
(* (dev.rs:233-243, 265-275).                                              *)
THEOREM StopsLeaveNone == Spec => StopLeavesNone
<1> DEFINE Gone(e) ==
      /\ job[e].cmd = "stop" /\ job[e].stage = "write" =>
           \A q \in running' : q.env = e => q.id \notin DOMAIN cfg[e].nodes
      /\ job[e].cmd = "destroy" /\ ~job[e].failed =>
           \A q \in running' : q.env = e => q.id \notin DOMAIN cfg[e].nodes
      /\ job[e].cmd = "kick" =>
           \A q \in running' : q.env = e => q.id \in DOMAIN cfg'[e].nodes
                                            \/ Range(q.ports) \subseteq dropped
<1>1. ASSUME DevInv, DevInv', Next, NEW e \in Envs, job[e] # IdleJob, job'[e] = IdleJob
      PROVE  Gone(e)
  <2> DEFINE j == job[e]
  <2>1. Active(e) /\ Ending(e)
    <3> HIDE DEF DevInv
    <3>1. Active(e) /\ ~Active(e)'
      BY <1>1 DEF Active
    <3> QED BY <1>1, <3>1, CommandsEnd
  <2>2. /\ j \in JobRec /\ EnvOK(j.env) /\ JobShape(j) /\ JobCopy(j, cfg[e])
        /\ \A q \in running : q.env = e /\ q.id \in DOMAIN cfg[e].nodes
                                => q.id \in Remaining(j, cfg[e])
    BY <1>1, <2>1, JobFacts
  <2>3. job \in [Envs -> JobRec \cup {IdleJob}]
    BY <1>1 DEF DevInv, Types
  <2>4. RunningIsConfigured'
    BY <1>1 DEF DevInv
  <2> HIDE DEF DevInv, j
  <2>5. CASE FailKeepingFiles(e) /\ j.stage \in {"draw", "save", "load", "kill"}
    <3>1. j.cmd # "destroy"
      <4> SUFFICES ASSUME j.cmd = "destroy" PROVE FALSE
        OBVIOUS
      <4>1. job' = [job EXCEPT ![e] = [j EXCEPT !.stage = "remove", !.failed = TRUE]]
        BY <2>5 DEF FailKeepingFiles, Fail, j
      <4>2. [j EXCEPT !.stage = "remove", !.failed = TRUE] = IdleJob
        BY <4>1, <2>3, <1>1
      <4> QED BY <4>2, <2>2 DEF JobRec, IdleJob
    <3>2. j.cmd = "kick" => dropped' = dropped
      BY <2>5 DEF FailKeepingFiles, Fail, Allocates, j
    <3> QED BY <2>4, <2>5, <3>1, <3>2 DEF RunningIsConfigured, j
  <2>6. CASE WriteCache(e) /\ j.stage = "write"
    <3>1. j.cmd \in {"stop", "destroy", "kick"} =>
            j.cmd = "stop" /\ Tail(j.todo) = <<>>
      <4> SUFFICES ASSUME j.cmd \in {"stop", "destroy", "kick"}
                   PROVE  j.cmd = "stop" /\ Tail(j.todo) = <<>>
        OBVIOUS
      <4>1. ~Allocates(j)
        BY DEF Allocates
      <4>2. job' = [job EXCEPT ![e] = Removed(j)]
        BY <2>6, <4>1 DEF WriteCache, j
      <4>3. Removed(j) = IdleJob
        BY <4>2, <2>3, <1>1
      <4>4. Removed(j) \notin JobRec
        BY <4>3 DEF JobRec, IdleJob
      <4> QED BY <4>1, <4>4, <2>2, <2>6, RemovedIs
    <3>2. j.cmd = "stop" => Remaining(j, cfg[e]) = {}
      BY <2>6, <3>1, RangeOfEmpty DEF Remaining
    <3>3. running' = running
      BY <2>6 DEF WriteCache
    <3> QED BY <2>2, <3>1, <3>2, <3>3 DEF j
  <2>7. CASE WriteCfg(e) /\ j.stage = "save"
    <3>1. j.cmd \in {"create", "attach", "start", "kick"}
      BY <2>2, <2>7 DEF JobShape, StagesOf, JobRec
    <3>2. j.cmd = "kick" => dropped' = dropped
      BY <2>7 DEF WriteCfg, j
    <3> QED BY <2>4, <3>1, <3>2 DEF RunningIsConfigured, j
  <2>8. CASE Launch(e) /\ j.stage = "launch"
    <3>1. j.cmd \in {"create", "attach", "start"}
      BY <2>2, <2>8 DEF JobShape, StagesOf, JobRec
    <3> QED BY <3>1 DEF j
  <2>9. CASE RemoveDir(e) /\ j.stage = "remove"
    <3>1. j.cmd = "destroy"
      BY <2>2, <2>9 DEF JobShape, StagesOf, JobRec
    <3>2. ~j.failed => Remaining(j, cfg[e]) = {}
      BY <2>9, <3>1 DEF Remaining
    <3>3. running' = running
      BY <2>9 DEF RemoveDir
    <3> QED BY <2>2, <3>1, <3>2, <3>3 DEF j
  <2> QED BY <2>1, <2>5, <2>6, <2>7, <2>8, <2>9 DEF Ending, WriteCache, WriteCfg, Launch, RemoveDir, At, j
<1>2. DevInv /\ DevInv' /\ [Next]_vars =>
        [\A e \in Envs : job[e] # IdleJob /\ job'[e] = IdleJob => Gone(e)]_vars
  <2> SUFFICES ASSUME DevInv, DevInv', Next
               PROVE  \A e \in Envs : job[e] # IdleJob /\ job'[e] = IdleJob => Gone(e)
    OBVIOUS
  <2> HIDE DEF Gone, DevInv
  <2> QED BY <1>1
<1> QED BY <1>2, DevInvariant, PTL DEF Spec, StopLeavesNone
=============================================================================
