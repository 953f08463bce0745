------------------------------- MODULE EvmTx -------------------------------
(***************************************************************************)
(* One EVM transaction against one view of the state:                      *)
(* src/src/ethvm/tx/mod.rs, the checks of pre_exec, the effect of exec and *)
(* the fee StateBranch::charge_fee takes afterwards.                       *)
(*                                                                         *)
(* The bytecode interpreter (crate evm) is external.  What it does to the  *)
(* state is a fixed behaviour the transaction record carries:              *)
(*   "transfer"  moves value to the recipient and succeeds,                *)
(*   "stamp"     does so and stores the block environment it sees, the way *)
(*               a contract reading TIMESTAMP or NUMBER does,              *)
(*   "revert"    uses gas and fails.                                       *)
(* A record with kind "native" is the Tx::Native variant, whose apply      *)
(* always returns Err(None).                                               *)
(***************************************************************************)
EXTENDS Integers, FiniteSetsExt

CONSTANTS
    Addr,           \* account addresses
    Txs,            \* the transactions that can be submitted
    MinGasPrice,    \* State.gas_price, fixed when the chain is created
    MaxU256,        \* largest value of a U256
    Genesis,        \* [Addr -> balance] of the genesis file, 0 for none
    Proposers,      \* block proposers
    Times           \* block timestamps

Account == [nonce : Nat, balance : Nat]

(* The block environment (OvrVicinity): the fields that change per block.  *)
NoProposer == "none"
Vicinity == [number : Nat, coinbase : Proposers \cup {NoProposer}, time : Nat]

(* What is versioned: the addresses the store has an account for, the      *)
(* accounts (the default one for the others), and the contract storage.    *)
EvmState == [known : SUBSET Addr, accounts : [Addr -> Account], stamped : Vicinity]

Tx == [kind : {"evm", "native"}, from : Addr, to : Addr, nonce : Nat,
       price : Nat, limit : Nat, value : Nat, gas : Nat,
       exec : {"transfer", "stamp", "revert"}]

ASSUME ConstantsAssumption ==
    /\ MinGasPrice \in Nat
    /\ MaxU256 \in Nat
    /\ Genesis \in [Addr -> Nat]
    /\ Times \subseteq Nat
    /\ NoProposer \notin Proposers

(* The gas a transaction uses is not bounded by its limit: the gasometer   *)
(* starts at u64::MAX and the intrinsic cost of the transaction comes on   *)
(* top of the limit, which bounds the call alone (tx/mod.rs:102, 117).     *)
ASSUME TxsAssumption == Txs \subseteq Tx

(* An address is an H160.                                                  *)
ASSUME AddrAssumption == IsFiniteSet(Addr)

DefaultVicinity == [number |-> 0, coinbase |-> NoProposer, time |-> 0]

(* Nothing is known of an address the genesis file gives no balance.       *)
GenesisState ==
    [known    |-> {a \in Addr : Genesis[a] # 0},
     accounts |-> [a \in Addr |-> [nonce |-> 0, balance |-> Genesis[a]]],
     stamped  |-> DefaultVicinity]

Supply(st) == MapThenSumSet(LAMBDA a : st.accounts[a].balance, Addr)

FeeUsed(tx) == tx.gas * tx.price

(* The funds there are fit a U256, and so does the fee of any transaction  *)
(* with a price someone could pay.  Used gas is a u64, so both hold of any *)
(* genesis file handing out less than 2^192 in all; the code has no check. *)
ASSUME SupplyAssumption ==
    /\ Supply(GenesisState) =< MaxU256
    /\ \A tx \in Txs :
         tx.price =< Supply(GenesisState) => FeeUsed(tx) =< MaxU256

-----------------------------------------------------------------------------
(* pre_exec: a missing account reads as one with no nonce and no balance.  *)

CheckGasPrice(tx) == MinGasPrice =< tx.price

(* Faulty variant of CheckNonce: an old nonce passes.                      *)
LaxNonce(tx, st) == tx.nonce =< st.accounts[tx.from].nonce

CheckNonce(tx, st) == tx.nonce = st.accounts[tx.from].nonce

NeededAmount(tx) == tx.price * tx.limit + tx.value

(* Faulty variant of CheckBalance: the amount wraps around.                *)
WrappingBalance(tx, st) ==
    /\ tx.limit # 0
    /\ NeededAmount(tx) % (MaxU256 + 1) =< st.accounts[tx.from].balance

CheckBalance(tx, st) ==
    /\ tx.limit # 0
    /\ NeededAmount(tx) =< MaxU256
    /\ NeededAmount(tx) =< st.accounts[tx.from].balance

PreExec(tx, st) ==
    /\ CheckGasPrice(tx)
    /\ CheckNonce(tx, st)
    /\ CheckBalance(tx, st)

-----------------------------------------------------------------------------
(* exec: the nonce of the caller and the transfer, in that order.  When    *)
(* the interpreter fails no change reaches the store.                      *)

ExecSucceeds(tx) == tx.exec # "revert"

BumpNonce(accounts, a) == [accounts EXCEPT ![a].nonce = @ + 1]

SaturatingAdd(a, b) == IF a + b =< MaxU256 THEN a + b ELSE MaxU256

Transfer(accounts, from, to, value) ==
    LET debited == [accounts EXCEPT ![from].balance = @ - value]
    IN  [debited EXCEPT ![to].balance = SaturatingAdd(@, value)]

Exec(tx, st, vicinity) ==
    [known    |-> st.known \cup {tx.from, tx.to},
     accounts |-> Transfer(BumpNonce(st.accounts, tx.from),
                           tx.from, tx.to, tx.value),
     stamped  |-> IF tx.exec = "stamp" THEN vicinity ELSE st.stamped]

SaturatingSub(a, b) == IF b =< a THEN a - b ELSE 0

(* A product beyond a U256 panics, and so does charge_fee when there is a  *)
(* fee and no account to take it from.                                     *)
CanCharge(st, caller, amount) ==
    /\ amount =< MaxU256
    /\ amount = 0 \/ caller \in st.known

(* The caller pays what is left when that is less than the fee.            *)
ChargeFee(st, caller, amount) ==
    IF amount = 0 THEN st
    ELSE [st EXCEPT !.accounts[caller].balance = SaturatingSub(@, amount)]

-----------------------------------------------------------------------------
(* What a transaction does to the state, all told: nothing when it is not  *)
(* admitted, and otherwise its effect, if it has one, less its fee.        *)
Admissible(tx, st) == tx.kind = "evm" /\ PreExec(tx, st)

Outcome(tx, st, vicinity) ==
    IF ~Admissible(tx, st) THEN st
    ELSE ChargeFee(IF ExecSucceeds(tx) THEN Exec(tx, st, vicinity) ELSE st,
                   tx.from, FeeUsed(tx))
=============================================================================
