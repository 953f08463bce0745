------------------------------- MODULE DevEnv -------------------------------
(***************************************************************************)
(* `ovr dev`: environments of local nodes, src/src/bins/ovr/dev.rs.  An    *)
(* environment is a config.json with its nodes and their ports; the ports  *)
(* of all environments are recorded in one file, ports_cache, which every  *)
(* command reads, truncates and writes again without a lock.  Commands on  *)
(* different environments run at the same time.                            *)
(*                                                                         *)
(* A port is "free" for the code when it is not in the cache: its other    *)
(* test binds a UDP socket with ReusePort, which a TCP listener does not   *)
(* disturb (dev.rs:661-681).                                               *)
(***************************************************************************)
EXTENDS Integers, Sequences, FiniteSets, SequencesExt

CONSTANTS
    Envs,          \* names of environments
    Default,       \* the name whose full node gets the reserved ports
    Ports,         \* ports that may be drawn
    Reserved,      \* the reserved ports, as many as a node needs
    ValidatorNum,  \* validators an environment is created with
    Base,          \* ids are written in this base, 10 in the code
    MaxCmds        \* bound: commands in a behaviour

ASSUME DevEnvAssumption ==
    /\ Reserved \in Seq(Range(Reserved)) /\ Reserved # <<>>
    /\ Range(Reserved) \cap Ports = {}
    /\ ValidatorNum \in Nat
    /\ Base \in Nat \ {0, 1}
    /\ MaxCmds \in Nat

PortsPerNode == Len(Reserved)
AllPorts == Ports \cup Range(Reserved)

VARIABLES
    cache,     \* the file ports_cache
    cfg,       \* config.json of each environment
    running,   \* processes of nodes
    job,       \* the command that works on each environment
    used,      \* number of commands so far
    stale,     \* history: ports a command got wrong with an old copy of the cache
    released,  \* history: ports taken out of the cache that a node still has
    dropped    \* history: ports of nodes nobody looks after any more

history == <<stale, released, dropped>>
vars == <<cache, cfg, running, job, used, stale, released, dropped>>

(* The file: readable, empty between truncation and write, or two writes   *)
(* one over the other.  All ports have five digits, so the length of the   *)
(* file is that of the set.                                                *)
Holds(ports) == [kind |-> "holds", ports |-> ports, size |-> Cardinality(ports)]
Truncated == [kind |-> "empty", ports |-> {}, size |-> 0]
Garbled(size) == [kind |-> "garbled", ports |-> {}, size |-> size]

Readable == cache.kind = "holds"

(* An environment: nodes by id, and the latest id.                         *)
Absent == [nodes |-> <<>>, latest |-> 0]

PortsOf(env) == UNION {Range(env.nodes[id].ports) : id \in DOMAIN env.nodes}

(* The nodes of a kind in the order of their ids.                          *)
IdsOf(env, kind) ==
    LET ids == {id \in DOMAIN env.nodes : env.nodes[id].kind = kind}
    IN  CHOOSE s \in [1..Cardinality(ids) -> ids] :
            \A i, k \in 1..Cardinality(ids) : i < k => s[i] < s[k]

(* Faulty variant of StopOrder: the seed is forgotten.                     *)
StopWithoutSeed(env) == IdsOf(env, "node") \o IdsOf(env, "full")

StartOrder(env) == IdsOf(env, "seed") \o IdsOf(env, "full") \o IdsOf(env, "node")
StopOrder(env) == IdsOf(env, "node") \o IdsOf(env, "full") \o IdsOf(env, "seed")

(* Faulty variant of NextNodeId: the id is not counted up.                 *)
SameNodeId(env) == env.latest

NextNodeId(env) == env.latest + 1

(* grep finds a home whose path begins with that of the node: the node's   *)
(* own, and that of an id that begins with the digits of this one.         *)
Matches(id, other) == other = id \/ \E k \in 1..other : other \div Base^k = id

IdleJob == [cmd |-> "none"]

(* A command: env is its copy of the configuration, kinds the nodes it has *)
(* still to create, ports those it draws or removes, todo the nodes it     *)
(* starts or stops, copy what it read from the cache.                      *)
Job(cmd, stage, env, kinds, todo) ==
    [cmd |-> cmd, stage |-> stage, env |-> env, kinds |-> kinds, ports |-> <<>>,
     todo |-> todo, copy |-> {}, failed |-> FALSE]

Allocates(j) == j.cmd \in {"create", "attach"}

Listed ==
    (UNION {PortsOf(cfg[e]) : e \in Envs})
    \cup (UNION {PortsOf(job[e].env) \cup Range(job[e].ports) :
                   e \in {f \in Envs : job[f] # IdleJob}})

Init ==
    /\ cache = Holds({})
    /\ cfg = [e \in Envs |-> Absent]
    /\ running = {}
    /\ job = [e \in Envs |-> IdleJob]
    /\ used = 0
    /\ stale = {} /\ released = {} /\ dropped = {}

-----------------------------------------------------------------------------
(* The commands.  create does not look whether the environment is there;   *)
(* the others load its configuration and fail without it.                  *)

Begin(e, j) ==
    /\ job[e] = IdleJob
    /\ used < MaxCmds
    /\ used' = used + 1
    /\ job' = [job EXCEPT ![e] = j]
    /\ UNCHANGED <<cache, cfg, running, history>>

Create(e) ==
    Begin(e, Job("create", "draw", Absent,
                 <<"seed", "full">> \o [i \in 1..ValidatorNum |-> "node"], <<>>))

Loads(e) == cfg[e] # Absent

Start(e) == Loads(e) /\ Begin(e, Job("start", "save", cfg[e], <<>>, StartOrder(cfg[e])))

Stop(e) == Loads(e) /\ Begin(e, Job("stop", "kill", cfg[e], <<>>, StopOrder(cfg[e])))

(* Faulty variant of Destroy: the nodes are not stopped.                   *)
DestroyFilesOnly(e) == Loads(e) /\ Begin(e, Job("destroy", "remove", cfg[e], <<>>, <<>>))

Destroy(e) == Loads(e) /\ Begin(e, Job("destroy", "kill", cfg[e], <<>>, StopOrder(cfg[e])))

AttachNode(e) == Loads(e) /\ Begin(e, Job("attach", "draw", cfg[e], <<"node">>, <<>>))

(* kick_node takes the validator with the highest id.                      *)
KickNode(e) ==
    /\ Loads(e)
    /\ IdsOf(cfg[e], "node") # <<>>
    /\ Begin(e, Job("kick", "kill", cfg[e], <<>>, <<Last(IdsOf(cfg[e], "node"))>>))

-----------------------------------------------------------------------------
(* A step of a command.                                                    *)

At(e, stage) == job[e] # IdleJob /\ job[e].stage = stage

(* An error ends the command; destroy only logs it and goes on.            *)
Fail(e) ==
    /\ job' = [job EXCEPT ![e] = IF @.cmd = "destroy"
                                 THEN [@ EXCEPT !.stage = "remove", !.failed = TRUE]
                                 ELSE IdleJob]
    /\ dropped' = IF Allocates(job[e]) THEN dropped \cup (PortsOf(job[e].env) \ PortsOf(cfg[e]))
                                       ELSE dropped
    /\ released' = released \cap Listed'

FailKeepingFiles(e) == UNCHANGED <<cache, cfg, running, used, stale>> /\ Fail(e)

(* tendermint init, which alloc_resources and gen_genesis run, may fail.   *)
ToolFails(e) ==
    /\ job[e] # IdleJob /\ Allocates(job[e])
    /\ job[e].stage \in {"draw", "save"} /\ job[e].ports = <<>> /\ job[e].env # Absent
    /\ FailKeepingFiles(e)

(* alloc_ports, one draw a step; each looks at the cache anew and none at  *)
(* the ports drawn before.                                                 *)
Draw(e) ==
    /\ At(e, "draw")
    /\ IF Head(job[e].kinds) = "full" /\ e = Default
       THEN job' = [job EXCEPT ![e].ports = Reserved, ![e].stage = "load"]
       ELSE /\ Readable
            /\ \E p \in Ports \ cache.ports :
                 LET drawn == Append(job[e].ports, p)
                 IN  job' = [job EXCEPT
                               ![e].ports = drawn,
                               ![e].stage = IF Len(drawn) = PortsPerNode THEN "load" ELSE "draw"]
    /\ UNCHANGED <<cache, cfg, running, used, history>>

(* The cache does not decode, or 10000 draws find nothing.                 *)
DrawFails(e) ==
    /\ At(e, "draw")
    /\ ~(Head(job[e].kinds) = "full" /\ e = Default)
    /\ ~Readable \/ Ports \subseteq cache.ports
    /\ FailKeepingFiles(e)

(* PortsCache::set and rm: load, ...                                       *)
LoadCache(e) ==
    /\ At(e, "load")
    /\ Readable
    /\ job' = [job EXCEPT ![e].copy = cache.ports, ![e].stage = "truncate"]
    /\ UNCHANGED <<cache, cfg, running, used, history>>

LoadFails(e) == At(e, "load") /\ ~Readable /\ FailKeepingFiles(e)

(* ... and fs::write, which truncates before it writes.                    *)
Differ(copy) ==
    CASE cache.kind = "holds"   -> SymDiff(copy, cache.ports)
      [] cache.kind = "empty"   -> UNION {SymDiff(copy, job[f].copy) :
                                            f \in {g \in Envs : At(g, "write")}}
      [] cache.kind = "garbled" -> AllPorts

TruncateCache(e) ==
    /\ At(e, "truncate")
    /\ cache' = Truncated
    /\ job' = [job EXCEPT ![e].stage = "write"]
    /\ stale' = stale \cup Differ(job[e].copy)
    /\ UNCHANGED <<cfg, running, used, released, dropped>>

(* Faulty variants of Updated: set replaces what the cache had, or it      *)
(* leaves out the last port.                                               *)
Replaced(j) == IF Allocates(j) THEN Range(j.ports) ELSE j.copy \ {Head(j.ports)}

WithoutLast(j) == IF Allocates(j) THEN j.copy \cup Range(Front(j.ports))
                                  ELSE j.copy \ {Head(j.ports)}

Updated(j) == IF Allocates(j) THEN j.copy \cup Range(j.ports) ELSE j.copy \ {Head(j.ports)}

(* After a node got its ports it is entered; after the last, gen_genesis   *)
(* of a new environment uses up one more id.                               *)
Entered(j) ==
    LET id    == NextNodeId(j.env)
        node  == [kind |-> Head(j.kinds), ports |-> j.ports]
        nodes == [i \in DOMAIN j.env.nodes \cup {id} |->
                    IF i = id THEN node ELSE j.env.nodes[i]]
        env   == [nodes |-> nodes, latest |-> id]
        next  == [j EXCEPT !.env = env, !.kinds = Tail(@), !.ports = <<>>, !.copy = {}]
    IN  IF next.kinds # <<>> THEN [next EXCEPT !.stage = "draw"]
        ELSE IF j.cmd = "attach" THEN [next EXCEPT !.stage = "save", !.todo = <<id>>]
        ELSE [next EXCEPT !.stage = "save", !.todo = StartOrder(env), !.env.latest = NextNodeId(env)]

(* Faulty variant of Removed: the next node is taken after the first port. *)
RemovedOne(j) ==
    LET next == [j EXCEPT !.ports = <<>>, !.copy = {}, !.todo = Tail(@)]
    IN  IF next.todo # <<>> THEN [next EXCEPT !.stage = "kill"]
        ELSE CASE j.cmd = "stop"    -> IdleJob
               [] j.cmd = "destroy" -> [next EXCEPT !.stage = "remove"]
               [] j.cmd = "kick"    -> [next EXCEPT !.stage = "save",
                                                    !.env.nodes = [id \in DOMAIN @ \ {Head(j.todo)} |-> @[id]]]

(* After a port was removed comes the node's next, after the last of them  *)
(* the next node; then stop is done and destroy removes the files, while   *)
(* kick_node saves the configuration without the node.                     *)
Removed(j) ==
    LET next == [j EXCEPT !.ports = <<>>, !.copy = {}, !.todo = Tail(@)]
    IN  IF Len(j.ports) > 1 THEN [j EXCEPT !.ports = Tail(@), !.copy = {}, !.stage = "load"]
        ELSE IF next.todo # <<>> THEN [next EXCEPT !.stage = "kill"]
        ELSE CASE j.cmd = "stop"    -> IdleJob
               [] j.cmd = "destroy" -> [next EXCEPT !.stage = "remove"]
               [] j.cmd = "kick"    -> [next EXCEPT !.stage = "save",
                                                    !.env.nodes = [id \in DOMAIN @ \ {Head(j.todo)} |-> @[id]]]

(* The write begins at the start of the file: what another command wrote   *)
(* since the truncation is covered as far as the new contents reach.       *)
WriteCache(e) ==
    LET j == job[e]
    IN  /\ At(e, "write")
        /\ cache' = IF cache.size =< Cardinality(Updated(j)) THEN Holds(Updated(j))
                                                             ELSE Garbled(cache.size)
        /\ job' = [job EXCEPT ![e] = IF Allocates(j) THEN Entered(j) ELSE Removed(j)]
        /\ stale' = stale \cup Differ(j.copy)
                          \cup (IF Allocates(j) THEN j.copy \cap Range(j.ports) ELSE {})
        /\ UNCHANGED <<cfg, running, used, dropped>>
        /\ released' = (released \cup (IF Allocates(j) THEN {} ELSE {Head(j.ports)})) \cap Listed'

(* Env::start and kick_node write config.json ...                          *)
WriteCfg(e) ==
    /\ At(e, "save")
    /\ cfg' = [cfg EXCEPT ![e] = job[e].env]
    /\ job' = [job EXCEPT ![e] = IF @.todo = <<>> THEN IdleJob ELSE [@ EXCEPT !.stage = "launch"]]
    /\ dropped' = IF job[e].cmd = "create" THEN dropped \cup PortsOf(cfg[e]) ELSE dropped
    /\ released' = released \cap Listed'
    /\ UNCHANGED <<cache, running, used, stale>>

(* ... and Env::start starts the nodes in turn.                            *)
Launch(e) ==
    LET j  == job[e]
        id == Head(j.todo)
    IN  /\ At(e, "launch")
        /\ running' = running \cup {[env |-> e, id |-> id, ports |-> j.env.nodes[id].ports]}
        /\ job' = [job EXCEPT ![e] = IF Len(j.todo) = 1 THEN IdleJob
                                                        ELSE [j EXCEPT !.todo = Tail(j.todo)]]
        /\ UNCHANGED <<cache, cfg, used, history>>

Found(e, id) == {q \in running : q.env = e /\ Matches(id, q.id)}

(* Node::stop kills what bears the node's home.                            *)
Kill(e) ==
    LET id == Head(job[e].todo)
    IN  /\ At(e, "kill")
        /\ running' = running \ Found(e, id)
        /\ job' = [job EXCEPT ![e].ports = job[e].env.nodes[id].ports, ![e].stage = "load"]
        /\ UNCHANGED <<cache, cfg, used, history>>

(* With nothing to kill the shell command fails where xargs runs kill all  *)
(* the same (GNU), and not elsewhere.                                      *)
KillFails(e) ==
    /\ At(e, "kill")
    /\ Found(e, Head(job[e].todo)) = {}
    /\ FailKeepingFiles(e)

(* destroy removes the directory, whatever became of stop.                 *)
RemoveDir(e) ==
    /\ At(e, "remove")
    /\ cfg' = [cfg EXCEPT ![e] = Absent]
    /\ job' = [job EXCEPT ![e] = IdleJob]
    /\ dropped' = IF job[e].failed THEN dropped \cup PortsOf(cfg[e]) ELSE dropped
    /\ released' = released \cap Listed'
    /\ UNCHANGED <<cache, running, used, stale>>

Next ==
    \E e \in Envs :
        \/ Create(e) \/ Start(e) \/ Stop(e) \/ Destroy(e) \/ AttachNode(e) \/ KickNode(e)
        \/ ToolFails(e) \/ Draw(e) \/ DrawFails(e)
        \/ LoadCache(e) \/ LoadFails(e) \/ TruncateCache(e) \/ WriteCache(e)
        \/ WriteCfg(e) \/ Launch(e) \/ Kill(e) \/ KillFails(e) \/ RemoveDir(e)

Spec == Init /\ [][Next]_vars

-----------------------------------------------------------------------------
Node == [kind : {"seed", "full", "node"}, ports : Seq(AllPorts)]

EnvOK(env) ==
    /\ env.latest \in Nat
    /\ \A id \in DOMAIN env.nodes : id \in 1..env.latest /\ env.nodes[id] \in Node
                                    /\ Len(env.nodes[id].ports) = PortsPerNode

(* The variables have the values their comments say.                       *)
TypeOK ==
    /\ cache.ports \subseteq AllPorts
    /\ cache.kind \in {"holds", "empty", "garbled"}
    /\ \A e \in Envs : EnvOK(cfg[e])
    /\ \A e \in Envs : job[e] = IdleJob \/
         /\ job[e].stage \in {"draw", "load", "truncate", "write", "save", "launch",
                              "kill", "remove"}
         /\ EnvOK(job[e].env)
         /\ job[e].copy \subseteq AllPorts
         /\ Len(job[e].ports) =< PortsPerNode
    /\ stale \cup released \cup dropped \subseteq AllPorts
    /\ used \in 0..MaxCmds

(* The nodes of all environments: those a configuration has, and those     *)
(* that run.                                                               *)
Occupants ==
    running \cup
    UNION {{[env |-> e, id |-> id, ports |-> cfg[e].nodes[id].ports] :
              id \in DOMAIN cfg[e].nodes} : e \in Envs}

(* "Make sure all names and ports are unique" (dev.rs:4-6): two nodes have *)
(* a port in common only if a command worked with an old copy of the       *)
(* cache, a stop gave the port back while the node kept it, or the node    *)
(* was abandoned.                                                          *)
SharedPortsHaveCause ==
    \A q, r \in Occupants :
        q # r => Range(q.ports) \cap Range(r.ports) \subseteq stale \cup released \cup dropped

(* The cache has the ports of every configured node, so that no other node *)
(* gets them, but for the same causes (dev.rs:281-347, 646-653).           *)
UsedPortsAreCached ==
    Readable =>
        \A e \in Envs : PortsOf(cfg[e]) \subseteq cache.ports \cup stale \cup released

(* "Release all occupied ports" (dev.rs:234): no port stays in the cache   *)
(* that no node and no command has, unless it was abandoned or an old copy *)
(* brought it back.                                                        *)
CachedPortsAreUsed ==
    Readable => cache.ports \subseteq Listed \cup stale \cup dropped

(* Every process is a node of a configuration, or of the command that is   *)
(* starting it: stop, destroy and kick will find it.  Only an environment  *)
(* that was created over, or destroyed although its stop failed, leaves    *)
(* processes nobody finds (dev.rs:181, 249).                               *)
RunningIsConfigured ==
    \A q \in running :
        \/ q.id \in DOMAIN cfg[q.env].nodes /\ cfg[q.env].nodes[q.id].ports = q.ports
        \/ Range(q.ports) \subseteq dropped

(* A stop or destroy that met no error leaves no process of the nodes it   *)
(* had loaded, and a kick leaves none of the node it takes out of the      *)
(* configuration (dev.rs:233-243, 265-275).                                *)
StopLeavesNone ==
    [][\A e \in Envs :
         job[e] # IdleJob /\ job'[e] = IdleJob =>
           /\ job[e].cmd = "stop" /\ job[e].stage = "write" =>
                \A q \in running' : q.env = e => q.id \notin DOMAIN cfg[e].nodes
           /\ job[e].cmd = "destroy" /\ ~job[e].failed =>
                \A q \in running' : q.env = e => q.id \notin DOMAIN cfg[e].nodes
           /\ job[e].cmd = "kick" =>
                \A q \in running' : q.env = e => q.id \in DOMAIN cfg'[e].nodes
                                                 \/ Range(q.ports) \subseteq dropped]_vars
=============================================================================
