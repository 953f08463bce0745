----------------------------- MODULE MCRecovery -----------------------------
(* A small instance of Recovery for TLC.                                   *)
EXTENDS Recovery

T(from, to, nonce, value, gas, exec) ==
    [kind |-> "evm", from |-> from, to |-> to, nonce |-> nonce, price |-> 1,
     limit |-> 2, value |-> value, gas |-> gas, exec |-> exec]

MCAddr == {"alice", "bob"}

MCGenesis == [a \in MCAddr |-> IF a = "alice" THEN 12 ELSE 0]

Pay    == T("alice", "bob", 0, 3, 1, "transfer")
Refuse == T("alice", "bob", 0, 0, 2, "revert")
Stamp  == T("alice", "alice", 1, 0, 1, "stamp")

(* Bob's answer uses more gas than its limit, and than he has left to pay. *)
Answer == T("bob", "alice", 0, 1, 3, "stamp")

(* The gas price may be zero, so an unknown account can submit.            *)
Free   == [T("bob", "alice", 0, 0, 1, "revert") EXCEPT !.price = 0]

MCTxs == {Pay, Refuse, Stamp, Answer, Free}

(* Two failures before a success, a block that records its environment,    *)
(* and an empty block.                                                     *)
MCProposals ==
    {[proposer |-> "v1", time |-> 1, txs |-> <<Free, Refuse, Pay>>],
     [proposer |-> "v1", time |-> 2, txs |-> <<Stamp, Answer>>],
     [proposer |-> "v1", time |-> 3, txs |-> <<>>]}

MCCheckTxs == {Free, Refuse, Pay}
=============================================================================
