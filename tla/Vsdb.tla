-------------------------------- MODULE Vsdb --------------------------------
(***************************************************************************)
(* The versioned key-value store (crate vsdb 0.16) as OVR uses it.  The    *)
(* crate is not part of the repository: these operators are read off the   *)
(* calls in src/src/ledger/mod.rs and src/src/common/mod.rs.               *)
(*                                                                         *)
(* A store is a function from branch names to branches.  A branch that     *)
(* exists is what it inherited when it was forked (base) followed by its   *)
(* own versions, oldest first.  A version is a name with the whole state   *)
(* the branch shows once that version is its newest.                       *)
(***************************************************************************)
EXTENDS Naturals, Sequences

Version(name, state) == [name |-> name, state |-> state]

Branch(base) == [base |-> base, vers |-> <<>>]

NoBranch == [none |-> TRUE]

(* The branches with version names in N and states in S.                   *)
BranchOf(N, S) ==
    [base : S, vers : Seq([name : N, state : S])] \cup {NoBranch}

BranchExists(vs, b) == vs[b] # NoBranch

HasVersions(vs, b) == vs[b].vers # <<>>

VersionExists(vs, b, name) ==
    \E i \in 1..Len(vs[b].vers) : vs[b].vers[i].name = name

(* What a read of the branch returns.                                      *)
View(vs, b) ==
    IF HasVersions(vs, b) THEN vs[b].vers[Len(vs[b].vers)].state
                          ELSE vs[b].base

-----------------------------------------------------------------------------
(* Each operation, and the condition under which the crate returns Ok.     *)

CanCreateVersion(vs, b, name) ==
    BranchExists(vs, b) /\ ~VersionExists(vs, b, name)

CreateVersion(vs, b, name) ==
    [vs EXCEPT ![b].vers = Append(@, Version(name, View(vs, b)))]

CanPopVersion(vs, b) == BranchExists(vs, b) /\ HasVersions(vs, b)

PopVersion(vs, b) ==
    [vs EXCEPT ![b].vers = SubSeq(@, 1, Len(@) - 1)]

CanWrite(vs, b) == BranchExists(vs, b) /\ HasVersions(vs, b)

Write(vs, b, state) ==
    [vs EXCEPT ![b].vers[Len(vs[b].vers)].state = state]

CanCreateBranch(vs, b, parent) ==
    BranchExists(vs, parent) /\ ~BranchExists(vs, b)

CreateBranch(vs, b, parent) == [vs EXCEPT ![b] = Branch(View(vs, parent))]

CanRemoveBranch(vs, b) == BranchExists(vs, b)

RemoveBranch(vs, b) == [vs EXCEPT ![b] = NoBranch]

CanMerge(vs, b, parent) == BranchExists(vs, b) /\ BranchExists(vs, parent)

(* The child's versions follow the parent's own and the child disappears.  *)
MergeToParent(vs, b, parent) ==
    [vs EXCEPT ![parent].vers = @ \o vs[b].vers,
               ![b] = NoBranch]
=============================================================================
