---------------------------- MODULE MCConsensus ----------------------------
(* A small instance of Consensus for TLC.                                  *)
EXTENDS Consensus

T(from, to, nonce, price, limit, value, gas, exec) ==
    [kind |-> "evm", from |-> from, to |-> to, nonce |-> nonce, price |-> price,
     limit |-> limit, value |-> value, gas |-> gas, exec |-> exec]

MCAddr == {"alice", "bob"}

(* Only alice has funds: bob's account appears with her first transfer.    *)
MCGenesis == [a \in MCAddr |-> IF a = "alice" THEN 9 ELSE 0]

(* A transfer that makes bob known, a failure with the same nonce that     *)
(* uses more gas than its limit, a contract call after it, bob's answer,   *)
(* which spends all he has and leaves two thirds of its fee unpaid, and    *)
(* the three ways a transaction is refused without a look at its execution.*)
MCTxs == {
    T("alice", "bob",   0, 1, 2, 3, 1, "transfer"),
    T("alice", "bob",   0, 1, 2, 0, 3, "revert"),
    T("alice", "alice", 1, 1, 1, 1, 1, "stamp"),
    T("bob",   "alice", 0, 1, 1, 2, 3, "transfer"),
    T("alice", "bob",   0, 0, 1, 0, 1, "transfer"),
    T("alice", "bob",   0, 4, 4, 1, 4, "transfer"),
    [T("alice", "bob",  0, 1, 1, 0, 1, "transfer") EXCEPT !.kind = "native"]}

(* The sixth transaction needs 17, which wraps around to 0 in a U256 whose *)
(* largest value is 16.                                                    *)
MCMaxU256 == 16
=============================================================================
