------------------------------ MODULE MCStack ------------------------------
(* A small instance of OvrStack for TLC: a sender, a contract that can call *)
(* and create, and a contract with storage that may be destroyed and        *)
(* created again.                                                           *)
EXTENDS OvrStack

MCAddr == {"user", "factory", "child"}
MCKeys == {"k"}

Holding(child, slot) ==
    [accounts |-> [a \in MCAddr |->
         CASE a = "user"    -> [nonce |-> 0, balance |-> 1, code |-> FALSE]
           [] a = "factory" -> [nonce |-> 1, balance |-> 0, code |-> TRUE]
           [] a = "child"   -> child],
     storages |-> [x \in MCAddr \X MCKeys |-> IF x[1] = "child" THEN slot ELSE 0]]

(* The child stands with a value in its slot, or has been destroyed and    *)
(* has left the value behind.                                              *)
MCBackends == {
    Holding([nonce |-> 1, balance |-> 0, code |-> TRUE], 1),
    Holding(NoAccount, 1)}
=============================================================================
