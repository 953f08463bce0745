------------------------------- MODULE MCRpc -------------------------------
(* A small instance of Rpc for TLC.                                        *)
EXTENDS Rpc, TLC

T(from, to, nonce, value, gas, exec) ==
    [kind |-> "evm", from |-> from, to |-> to, nonce |-> nonce, price |-> 1,
     limit |-> 2, value |-> value, gas |-> gas, exec |-> exec]

MCAddr == {"alice", "bob"}

MCGenesis == [a \in MCAddr |-> IF a = "alice" THEN 12 ELSE 0]

Pay   == T("alice", "bob", 0, 3, 1, "transfer")
Stamp == T("alice", "alice", 1, 0, 1, "stamp")

MCTxs == {Pay, Stamp}

(* Two logs of one transaction, the same log from another.                 *)
L(address, topic) == [address |-> address, topic |-> topic]

MCEmits ==
    [tx \in MCTxs |->
       IF tx = Pay THEN <<L("bob", "paid"), L("alice", "sent")>>
                   ELSE <<L("alice", "sent")>>]

(* Two transactions; decided again, both fail and leave no receipt.        *)
MCProposals == {[proposer |-> "v1", time |-> 1, txs |-> <<Pay, Stamp>>]}

MCCheckTxs == {Pay}

R(method, bn) == [method |-> method, bn |-> bn]

(* Reads of the newest block and of the first, two methods that share a    *)
(* prefix, one on the ledger's State, and one that does not clean up.      *)
MCRequests ==
    {R("call", Num(1)), R("estimate_gas", Latest),
     R("transaction_by_block_number_and_index", Num(1))}

Symmetry == Permutations(Servers)

LeakRequests == {R("block_transaction_count_by_number", Latest)}
=============================================================================
