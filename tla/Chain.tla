------------------------------- MODULE Chain -------------------------------
(***************************************************************************)
(* What the node promises to consensus: a replicated state machine with no *)
(* branches, versions, caches or mempool.  Transactions are executed one   *)
(* after another on a working copy of the committed state; committing the  *)
(* block publishes the copy and the list of transactions that took effect. *)
(*                                                                         *)
(* The environment a block's transactions see is the one published by the  *)
(* block before it (src/src/ledger/mod.rs:137 copies the State of Main     *)
(* before :144 updates its vicinity): env is that of the last begun block. *)
(***************************************************************************)
EXTENDS EvmTx, Sequences

VARIABLES
    state,     \* the committed EVM state
    log,       \* for each committed block, the transactions that took effect
    env,       \* the vicinity last computed
    open,      \* a block is being executed
    work,      \* the state inside that block
    seen,      \* the vicinity its transactions see
    included   \* its transactions that took effect

chainVars == <<state, log, env, open, work, seen, included>>

ChainInit ==
    /\ state = GenesisState
    /\ log = <<>>
    /\ env = DefaultVicinity
    /\ open = FALSE
    /\ work = GenesisState
    /\ seen = DefaultVicinity
    /\ included = <<>>

ChainBegin(proposer, time) ==
    /\ ~open
    /\ open' = TRUE
    /\ work' = state
    /\ seen' = env
    /\ env' = [number |-> Len(log), coinbase |-> proposer, time |-> time]
    /\ included' = <<>>
    /\ UNCHANGED <<state, log>>

(* The fee is taken whether the execution succeeds or not.                 *)
ChainDeliver(tx) ==
    /\ open
    /\ work' = Outcome(tx, work, seen)
    /\ included' = IF Admissible(tx, work) /\ ExecSucceeds(tx)
                   THEN Append(included, tx)
                   ELSE included
    /\ UNCHANGED <<state, log, env, open, seen>>

ChainCommit ==
    /\ open
    /\ open' = FALSE
    /\ state' = work
    /\ log' = Append(log, included)
    /\ included' = <<>>
    /\ UNCHANGED <<env, work, seen>>

ChainNext ==
    \/ \E p \in Proposers, t \in Times : ChainBegin(p, t)
    \/ \E tx \in Txs : ChainDeliver(tx)
    \/ ChainCommit

ChainSpec == ChainInit /\ [][ChainNext]_chainVars
=============================================================================
