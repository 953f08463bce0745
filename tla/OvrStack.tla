------------------------------ MODULE OvrStack ------------------------------
(***************************************************************************)
(* The state a contract sees and changes while it runs                     *)
(* (src/src/ethvm/impls/stack.rs), and the change set that reaches the     *)
(* store when the transaction has succeeded (ethvm/impls/backend.rs).      *)
(*                                                                         *)
(* Every call has a substate of its own that holds what it changed; what   *)
(* it did not change is found in the substates of its callers, and below   *)
(* them in the backend.  The interpreter (crate evm) is external: an       *)
(* action is one instruction, with all the calls of StackState it makes.   *)
(*                                                                         *)
(* Left out: gas and its metadata, the accessed lists of later forks (the  *)
(* node runs Istanbul), and whether the store has an empty account or none.*)
(***************************************************************************)
EXTENDS Naturals, Sequences, SequencesExt

CONSTANTS
    Addr, Keys, Values, Amounts,
    Unset,      \* an entry a substate does not have, or None
    Senders,    \* addresses with a key, which send transactions
    Creatable,  \* addresses a contract can be created at
    Backends,   \* what the store may hold before the first transaction
    MaxDepth,   \* bound: substates of one transaction
    MaxOps,     \* bound: instructions
    MaxTxs      \* bound: transactions

Slots == Addr \X Keys

(* OvrAccount, and OvrStackAccount, whose code may be None.                *)
Account == [nonce : Nat, balance : Nat, code : BOOLEAN]
StackAccount == [nonce : Nat, balance : Nat, code : BOOLEAN \cup {Unset},
                 reset : BOOLEAN]

Backend == [accounts : [Addr -> Account], storages : [Slots -> Values]]

ASSUME StackAssumption ==
    /\ 0 \in Values
    /\ Unset \notin Values /\ Unset \notin BOOLEAN /\ Unset \notin StackAccount
    /\ Backends \subseteq Backend
    /\ Amounts \subseteq Nat
    /\ Creatable \subseteq Addr /\ Senders \subseteq Addr
    /\ MaxDepth \in Nat /\ MaxOps \in Nat /\ MaxTxs \in Nat

Substate == [accounts : [Addr -> StackAccount \cup {Unset}],
             storages : [Slots -> Values \cup {Unset}],
             deletes  : SUBSET Addr,
             logs     : Seq(Addr)]

NoAccount == [nonce |-> 0, balance |-> 0, code |-> FALSE]

VARIABLES
    backend,    \* the branch of the store the transaction runs on
    frames,     \* the substates, the one of the running call last
    ctx,        \* the calls of the interpreter they belong to
    outcome,    \* "none" until the outermost call has ended
    ops, txs,   \* instructions and transactions so far
    forgot      \* history: for each substate, the resets a commit undid in it

stackVars == <<backend, frames, ctx, outcome, ops, txs, forgot>>

NewSubstate ==
    [accounts |-> [a \in Addr |-> Unset],
     storages |-> [x \in Slots |-> Unset],
     deletes  |-> {},
     logs     |-> <<>>]

Running == ctx[Len(ctx)]
Rest(seq) == SubSeq(seq, 1, Len(seq) - 1)
Inner(fs) == fs[Len(fs)]
InnerWith(fs, f) == [fs EXCEPT ![Len(fs)] = f]

-----------------------------------------------------------------------------
(* Reads, through a stack of substates fs.                                 *)

HasReset(f, a) == f.accounts[a] # Unset /\ f.accounts[a].reset

(* What the innermost substate with an entry of its own knows.             *)
KnownAccount(fs, a) ==
    LET holders == {i \in DOMAIN fs : fs[i].accounts[a] # Unset}
    IN  IF holders = {} THEN Unset ELSE fs[Max(holders)].accounts[a]

(* In each substate from the innermost out: a value, or else a reset.      *)
KnownStorage(fs, x) ==
    LET deciding == {i \in DOMAIN fs : fs[i].storages[x] # Unset \/ HasReset(fs[i], x[1])}
    IN  IF deciding = {} THEN Unset
        ELSE IF fs[Max(deciding)].storages[x] # Unset
             THEN fs[Max(deciding)].storages[x]
             ELSE 0

KnownOriginalStorage(fs, x) ==
    IF \E i \in DOMAIN fs : HasReset(fs[i], x[1]) THEN 0 ELSE Unset

(* Faulty variant of KnownEmpty: no balance and no code is enough.         *)
EmptyWithNonce(fs, a) ==
    LET acc == KnownAccount(fs, a)
    IN  IF acc = Unset THEN Unset ELSE acc.balance = 0 /\ acc.code # TRUE

(* Decided only where the substates know enough.                           *)
KnownEmpty(fs, a) ==
    LET acc == KnownAccount(fs, a)
    IN  IF acc = Unset THEN Unset
        ELSE IF acc.balance # 0 \/ acc.nonce # 0 THEN FALSE
        ELSE IF acc.code # Unset THEN ~acc.code
        ELSE Unset

OrElse(known, default) == IF known # Unset THEN known ELSE default

Basic(fs, a) ==
    LET acc == OrElse(KnownAccount(fs, a), backend.accounts[a])
    IN  [nonce |-> acc.nonce, balance |-> acc.balance]

Code(fs, a) ==
    LET acc == KnownAccount(fs, a)
    IN  IF acc = Unset THEN backend.accounts[a].code
                       ELSE OrElse(acc.code, backend.accounts[a].code)

Storage(fs, x) == OrElse(KnownStorage(fs, x), backend.storages[x])

OriginalStorage(fs, x) == OrElse(KnownOriginalStorage(fs, x), backend.storages[x])

IsEmpty(fs, a) == OrElse(KnownEmpty(fs, a), backend.accounts[a] = NoAccount)

Deleted(fs) == UNION {fs[i].deletes : i \in DOMAIN fs}

-----------------------------------------------------------------------------
(* Writes, each to the innermost substate of fs.                           *)

(* Faulty variant of AccountMut: the copy of a caller's account keeps the  *)
(* flag that the caller reset it.                                          *)
CopiedWithFlag(fs, a) ==
    OrElse(KnownAccount(fs, a), [nonce |-> backend.accounts[a].nonce,
        balance |-> backend.accounts[a].balance, code |-> Unset, reset |-> FALSE])

(* The account account_mut finds or puts there.                            *)
AccountMut(fs, a) ==
    LET known == KnownAccount(fs, a)
    IN  IF Inner(fs).accounts[a] # Unset THEN Inner(fs).accounts[a]
        ELSE IF known # Unset THEN [known EXCEPT !.reset = FALSE]
        ELSE [nonce   |-> backend.accounts[a].nonce,
              balance |-> backend.accounts[a].balance,
              code    |-> Unset,
              reset   |-> FALSE]

WithAccount(fs, a, acc) == InnerWith(fs, [Inner(fs) EXCEPT !.accounts[a] = acc])

Touch(fs, a) == WithAccount(fs, a, AccountMut(fs, a))

IncNonce(fs, a) == WithAccount(fs, a, [AccountMut(fs, a) EXCEPT !.nonce = @ + 1])

SetCode(fs, a, code) == WithAccount(fs, a, [AccountMut(fs, a) EXCEPT !.code = code])

ResetBalance(fs, a) == WithAccount(fs, a, [AccountMut(fs, a) EXCEPT !.balance = 0])

(* For a value the source has: the sum of all balances is below 2^256, so  *)
(* the saturation of the credit never shows.                               *)
Transfer(fs, source, target, value) ==
    LET debited == WithAccount(fs, source,
                       [AccountMut(fs, source) EXCEPT !.balance = @ - value])
    IN  WithAccount(debited, target,
            [AccountMut(debited, target) EXCEPT !.balance = @ + value])

SetStorage(fs, x, value) == InnerWith(fs, [Inner(fs) EXCEPT !.storages[x] = value])

WithoutStorage(f, as) ==
    [f EXCEPT !.storages = [x \in Slots |-> IF x[1] \in as THEN Unset ELSE @[x]]]

ResetStorage(fs, a) ==
    LET cleared == InnerWith(fs, WithoutStorage(Inner(fs), {a}))
    IN  WithAccount(cleared, a, [AccountMut(cleared, a) EXCEPT !.reset = TRUE])

Log(fs, a) == InnerWith(fs, [Inner(fs) EXCEPT !.logs = Append(@, a)])

SetDeleted(fs, a) == InnerWith(fs, [Inner(fs) EXCEPT !.deletes = @ \cup {a}])

-----------------------------------------------------------------------------
(* Substates come and go.                                                  *)

Enter(fs) == Append(fs, NewSubstate)

Over(upper, lower) == [i \in DOMAIN lower |-> OrElse(upper[i], lower[i])]

(* The parent's storage of an account the child reset goes first.          *)
Merged(parent, exited) ==
    LET resets == {a \in Addr : HasReset(exited, a)}
    IN  [accounts |-> Over(exited.accounts, parent.accounts),
         storages |-> Over(exited.storages, WithoutStorage(parent, resets).storages),
         deletes  |-> parent.deletes \cup exited.deletes,
         logs     |-> parent.logs \o exited.logs]

ExitCommit(fs) == InnerWith(Rest(fs), Merged(Inner(Rest(fs)), Inner(fs)))

(* Faulty variant of ExitRevert: the parent's changes go as well.          *)
RevertTwo(fs) == Rest(Rest(fs))

(* exit_revert and exit_discard differ in gas only.                        *)
ExitRevert(fs) == Rest(fs)

(* Where the child has an entry of its own, its flag replaces the parent's.*)
ForgottenBy(parent, exited) ==
    {a \in Addr : HasReset(parent, a) /\ exited.accounts[a] # Unset
                                      /\ ~exited.accounts[a].reset}

-----------------------------------------------------------------------------
(* The change set, and what the backend makes of it.                       *)

(* Accounts that are deleted are not modified.                             *)
Modified(f) ==
    {a \in Addr : \/ f.accounts[a] # Unset
                  \/ \E k \in Keys : f.storages[<<a, k>>] # Unset} \ f.deletes

ModifiedAccount(f, a) ==
    LET acc == AccountMut(<<f>>, a)
    IN  [nonce   |-> acc.nonce,
         balance |-> acc.balance,
         code    |-> OrElse(acc.code, backend.accounts[a].code)]

(* Faulty variant of ModifiedSlot: the old values are not removed first.   *)
SlotWithoutReset(f, x) ==
    IF f.storages[x] \notin {Unset, 0} THEN f.storages[x] ELSE backend.storages[x]

(* A value other than zero is written, after a reset has removed the old.  *)
ModifiedSlot(f, x) ==
    IF f.storages[x] \notin {Unset, 0} THEN f.storages[x]
    ELSE IF HasReset(f, x[1]) THEN 0
    ELSE backend.storages[x]

(* Deleting an account leaves its storage.                                 *)
Applied(f) ==
    [accounts |-> [a \in Addr |->
        IF a \in f.deletes THEN NoAccount
        ELSE IF a \in Modified(f) THEN ModifiedAccount(f, a)
        ELSE backend.accounts[a]],
     storages |-> [x \in Slots |->
        IF x[1] \in Modified(f) THEN ModifiedSlot(f, x) ELSE backend.storages[x]]]

-----------------------------------------------------------------------------
(* The interpreter's calls.                                                *)

StackInit ==
    /\ backend \in Backends
    /\ frames = <<>> /\ ctx = <<>> /\ forgot = <<>>
    /\ outcome = "none"
    /\ ops = 0 /\ txs = 0

(* exec makes a substate for the sender, who then makes one call.          *)
Begin(sender) ==
    /\ frames = <<>>
    /\ txs < MaxTxs
    /\ frames' = <<NewSubstate>>
    /\ ctx' = <<[self |-> sender, create |-> FALSE, runs |-> TRUE]>>
    /\ forgot' = <<{}>>
    /\ txs' = txs + 1
    /\ UNCHANGED <<backend, outcome, ops>>

CanAct == frames # <<>> /\ outcome = "none" /\ Running.runs /\ ops < MaxOps
InContract == CanAct /\ Len(ctx) > 1

Entered(fs, context) ==
    /\ Len(frames) < MaxDepth
    /\ frames' = fs
    /\ ctx' = Append(ctx, context)
    /\ forgot' = Append(forgot, {})
    /\ ops' = ops + 1
    /\ UNCHANGED <<backend, outcome, txs>>

(* transact_call bumps the sender's nonce; every call touches its target   *)
(* and makes the transfer.  Without the funds all of it is reverted, so    *)
(* the call is not made.                                                   *)
Call(to, value) ==
    LET fs == IF Len(ctx) = 1 THEN IncNonce(frames, Running.self) ELSE frames
    IN  /\ CanAct
        /\ value =< Basic(fs, Running.self).balance
        /\ Entered(Transfer(Touch(Enter(fs), to), Running.self, to, value),
                   [self |-> to, create |-> FALSE, runs |-> Code(fs, to)])

(* DELEGATECALL: somebody else's code on one's own account.                *)
DelegateCall ==
    /\ InContract
    /\ Entered(Touch(Enter(frames), Running.self),
               [self |-> Running.self, create |-> FALSE, runs |-> TRUE])

(* CREATE, CREATE2 and transact_create.  A collision discards the substate *)
(* that was entered, and keeps the nonce that was used.                    *)
Create(a, value) ==
    LET fs == IncNonce(frames, Running.self)
    IN  /\ CanAct
        /\ value =< Basic(frames, Running.self).balance
        /\ IF Code(fs, a) \/ Basic(fs, a).nonce > 0
           THEN /\ frames' = ExitRevert(Enter(fs))
                /\ outcome' = IF Len(ctx) = 1 THEN "failure" ELSE "none"
                /\ ops' = ops + 1
                /\ UNCHANGED <<backend, ctx, txs, forgot>>
           ELSE Entered(IncNonce(Transfer(ResetStorage(Enter(fs), a),
                                          Running.self, a, value), a),
                        [self |-> a, create |-> TRUE, runs |-> TRUE])

Updated(fs) ==
    /\ frames' = fs
    /\ ops' = ops + 1
    /\ UNCHANGED <<backend, ctx, outcome, txs, forgot>>

Store(k, value) ==
    InContract /\ Updated(SetStorage(frames, <<Running.self, k>>, value))

EmitLog == InContract /\ Updated(Log(frames, Running.self))

(* The substate is committed; a contract that was created gets its code.   *)
Committed(fs, code) ==
    LET lower == ExitCommit(fs)
        undone == ForgottenBy(Inner(Rest(fs)), Inner(fs))
    IN  /\ frames' = IF Running.create THEN SetCode(lower, Running.self, code) ELSE lower
        /\ ctx' = Rest(ctx)
        /\ outcome' = IF Len(ctx) = 2 THEN "success" ELSE "none"
        /\ forgot' = InnerWith(Rest(forgot), Inner(forgot) \cup Inner(Rest(forgot)) \cup undone)
        /\ UNCHANGED <<backend, ops, txs>>

Return(code) ==
    /\ Len(ctx) > 1
    /\ code => Running.create
    /\ Committed(frames, code)

(* mark_delete, and the end of the call.                                   *)
SelfDestruct(heir) ==
    LET self == Running.self
        moved == Transfer(frames, self, heir, Basic(frames, self).balance)
    IN  /\ InContract
        /\ Committed(SetDeleted(ResetBalance(moved, self), self), FALSE)

Fail ==
    /\ Len(ctx) > 1 /\ Running.runs
    /\ frames' = ExitRevert(frames)
    /\ ctx' = Rest(ctx)
    /\ forgot' = Rest(forgot)
    /\ outcome' = IF Len(ctx) = 2 THEN "failure" ELSE "none"
    /\ UNCHANGED <<backend, ops, txs>>

(* A transaction that failed applies no change.                            *)
Finish ==
    /\ outcome # "none"
    /\ backend' = IF outcome = "success" THEN Applied(frames[1]) ELSE backend
    /\ frames' = <<>> /\ ctx' = <<>> /\ forgot' = <<>>
    /\ outcome' = "none"
    /\ UNCHANGED <<ops, txs>>

Next ==
    \/ \E u \in Senders : Begin(u)
    \/ \E to \in Addr, v \in Amounts : Call(to, v)
    \/ DelegateCall
    \/ \E a \in Creatable, v \in Amounts : Create(a, v)
    \/ \E k \in Keys, v \in Values : Store(k, v)
    \/ EmitLog
    \/ \E code \in BOOLEAN : Return(code)
    \/ \E heir \in Addr : SelfDestruct(heir)
    \/ Fail
    \/ Finish

Spec == StackInit /\ [][Next]_stackVars

-----------------------------------------------------------------------------
Context == [self : Addr, create : BOOLEAN, runs : BOOLEAN]

(* The types of all variables, and one call and one history entry for each *)
(* substate (stack.rs:18-33).                                              *)
TypeOK ==
    /\ backend \in Backend
    /\ frames \in Seq(Substate)
    /\ ctx \in Seq(Context)
    /\ forgot \in Seq(SUBSET Addr)
    /\ Len(ctx) = Len(frames) /\ Len(forgot) = Len(frames)
    /\ outcome \in {"none", "success", "failure"}
    /\ outcome # "none" => Len(frames) = 1
    /\ ops \in Nat /\ txs \in Nat

(* What the substates show of a slot, had no commit undone a reset.        *)
Promised(fs, lost, x, shown, known) ==
    IF known = Unset /\ (\E i \in DOMAIN fs : x[1] \in lost[i]) THEN 0 ELSE shown

Shown(n) ==
    LET fs == SubSeq(frames, 1, n)
    IN  [nonce    |-> [a \in Addr |-> Basic(fs, a).nonce],
         balance  |-> [a \in Addr |-> Basic(fs, a).balance],
         code     |-> [a \in Addr |-> Code(fs, a)],
         storage  |-> [x \in Slots |->
             Promised(fs, forgot, x, Storage(fs, x), KnownStorage(fs, x))],
         original |-> [x \in Slots |->
             Promised(fs, forgot, x, OriginalStorage(fs, x), KnownOriginalStorage(fs, x))],
         deleted  |-> Deleted(fs),
         logs     |-> FlattenSeq([i \in DOMAIN fs |-> fs[i].logs])]

ShownAccount(n, a) ==
    [nonce |-> Shown(n).nonce[a], balance |-> Shown(n).balance[a], code |-> Shown(n).code[a]]

Full == INSTANCE StateStack WITH states <- [n \in DOMAIN frames |-> Shown(n)]

(* Every call sees the state its callers left it and what it has changed   *)
(* itself, hands all of it over when it succeeds, and leaves no trace when *)
(* it fails, through any nesting of substates with any entries missing     *)
(* (stack.rs:122-376).  The one exception is what forgot records: a commit *)
(* over an account that the parent reset and the child only touched        *)
(* (stack.rs:160) brings back the storage the backend has of that account. *)
ImplementsStateStack == Full!StackSpec

(* The interpreter asks is_empty to price a call and to decide what a      *)
(* transfer creates: the answer is that of the account as the running call *)
(* sees it, although known_empty gives up where code or account is unknown *)
(* and the backend is asked about the account before the transaction       *)
(* (stack.rs:203-220, 542-549).                                            *)
EmptyAsShown ==
    \A n \in DOMAIN frames, a \in Addr :
        IsEmpty(SubSeq(frames, 1, n), a) <=> ShownAccount(n, a) = NoAccount

(* When a transaction is over, the store shows the accounts the outermost  *)
(* substate showed, less the deleted ones, and the storage it showed; only *)
(* where that is zero without a reset, or the account is deleted, does it  *)
(* still show what it had.  A transaction that failed has changed nothing  *)
(* (stack.rs:69-120, backend.rs:122-178, ethvm/tx/mod.rs:196-207).         *)
AppliedAsShown ==
    [][outcome # "none" /\ outcome' = "none" =>
        IF outcome = "failure" THEN UNCHANGED backend
        ELSE /\ \A a \in Addr :
                  backend'.accounts[a] = IF a \in frames[1].deletes THEN NoAccount
                                         ELSE ShownAccount(1, a)
             /\ \A x \in Slots :
                  LET kept == \/ x[1] \in frames[1].deletes
                              \/ Storage(frames, x) = 0 /\ ~HasReset(frames[1], x[1])
                  IN  backend'.storages[x] = IF kept THEN backend.storages[x]
                                             ELSE Storage(frames, x)]_stackVars

(* backend.rs:16 says "Ovr backend, storing all state values in vsdb": a   *)
(* slot of a living account that a successful transaction leaves at zero   *)
(* reads zero afterwards.                                                  *)
ZeroesAreStored ==
    [][outcome = "success" /\ outcome' = "none" =>
        \A x \in Slots :
            Storage(frames, x) = 0 /\ x[1] \notin Deleted(frames)
                => backend'.storages[x] = 0]_stackVars
=============================================================================
