----------------------------- MODULE StateStack -----------------------------
(***************************************************************************)
(* What the nested execution of contracts promises.  Every call works on a *)
(* whole state of its own, which begins as a copy of its caller's.  A call *)
(* that succeeds hands its state to the caller; one that fails leaves the  *)
(* caller with the state it had.  There are no overlays, no flags and no   *)
(* backend here: src/src/ethvm/impls/stack.rs (OvrStack) implements this.  *)
(***************************************************************************)
EXTENDS Naturals, Sequences

CONSTANTS
    Addr,       \* account addresses
    Keys,       \* storage keys
    Values,     \* storage values, 0 among them
    Amounts     \* amounts a call can transfer

Slots == Addr \X Keys

State == [nonce    : [Addr -> Nat],
          balance  : [Addr -> Nat],
          code     : [Addr -> BOOLEAN],
          storage  : [Slots -> Values],
          original : [Slots -> Values],   \* what the slot was worth before the transaction
          deleted  : SUBSET Addr,
          logs     : Seq(Addr)]

VARIABLES
    states,     \* one state per call, the running one last
    ctx,        \* for each of them: whose code it runs, and how
    outcome     \* "none" until the outermost call has ended

stackVars == <<states, ctx, outcome>>

Top == states[Len(states)]
Running == ctx[Len(ctx)]
Rest(seq) == SubSeq(seq, 1, Len(seq) - 1)

(* The sender of the transaction makes one call and then none.             *)
CanAct == ctx # <<>> /\ outcome = "none" /\ Running.runs
InContract == CanAct /\ Len(ctx) > 1

-----------------------------------------------------------------------------
(* Effects on one state.                                                   *)

Put(f, a, value) == [b \in DOMAIN f |-> IF b = a THEN value ELSE f[b]]

Bumped(s, a) == [s EXCEPT !.nonce = Put(@, a, @[a] + 1)]

Moved(s, from, to, value) ==
    LET debited == Put(s.balance, from, s.balance[from] - value)
    IN  [s EXCEPT !.balance = Put(debited, to, debited[to] + value)]

Emptied(slots, a) == [x \in Slots |-> IF x[1] = a THEN 0 ELSE slots[x]]

Born(s, from, a, value) ==
    Bumped(Moved([s EXCEPT !.storage = Emptied(@, a),
                           !.original = Emptied(@, a)], from, a, value), a)

Taken(s, a) == s.code[a] \/ s.nonce[a] > 0

Killed(s, a, heir) ==
    LET moved == Moved(s, a, heir, s.balance[a])
    IN  [moved EXCEPT !.balance = Put(@, a, 0), !.deleted = @ \cup {a}]

-----------------------------------------------------------------------------
StackInit == states = <<>> /\ ctx = <<>> /\ outcome = "none"

(* A transaction begins in some state, with nothing deleted or logged.     *)
Begin(sender) ==
    /\ ctx = <<>>
    /\ ctx' = <<[self |-> sender, create |-> FALSE, runs |-> TRUE]>>
    /\ UNCHANGED outcome
    /\ Len(states') = 1
    /\ states'[1] \in State
    /\ states'[1].deleted = {} /\ states'[1].logs = <<>>
    /\ states'[1].original = states'[1].storage

(* The caller keeps s and the callee starts in t.                          *)
Push(s, t, context) ==
    /\ ctx' = Append(ctx, context)
    /\ UNCHANGED outcome
    /\ states' = Append(Append(Rest(states), s), t)

Call(to, value) ==
    LET s == IF Len(ctx) = 1 THEN Bumped(Top, Running.self) ELSE Top
    IN  /\ CanAct
        /\ value =< s.balance[Running.self]
        /\ Push(s, Moved(s, Running.self, to, value),
                [self |-> to, create |-> FALSE, runs |-> s.code[to]])

(* Somebody else's code on one's own account.                              *)
DelegateCall ==
    /\ InContract
    /\ Push(Top, Top, [self |-> Running.self, create |-> FALSE, runs |-> TRUE])

(* A contract at an address that is taken is not created, and the creator  *)
(* has used a nonce all the same.                                          *)
Create(a, value) ==
    LET s == Bumped(Top, Running.self)
    IN  /\ CanAct
        /\ value =< Top.balance[Running.self]
        /\ IF Taken(s, a)
           THEN /\ outcome' = IF Len(ctx) = 1 THEN "failure" ELSE "none"
                /\ UNCHANGED ctx
                /\ states' = Append(Rest(states), s)
           ELSE Push(s, Born(s, Running.self, a, value),
                     [self |-> a, create |-> TRUE, runs |-> TRUE])

Update(s) == UNCHANGED <<ctx, outcome>> /\ states' = Append(Rest(states), s)

Store(k, v) ==
    InContract /\ Update([Top EXCEPT !.storage = Put(@, <<Running.self, k>>, v)])

EmitLog == InContract /\ Update([Top EXCEPT !.logs = Append(@, Running.self)])

(* The callee's state, with its code when it was created, for the caller's.*)
HandOver(s, deployed) ==
    LET t == IF Running.create THEN [s EXCEPT !.code = Put(@, Running.self, deployed)]
                               ELSE s
    IN  /\ ctx' = Rest(ctx)
        /\ outcome' = IF Len(ctx) = 2 THEN "success" ELSE "none"
        /\ states' = Append(Rest(Rest(states)), t)

Return(deployed) ==
    /\ Len(ctx) > 1
    /\ deployed => Running.create
    /\ HandOver(Top, deployed)

SelfDestruct(heir) == InContract /\ HandOver(Killed(Top, Running.self, heir), FALSE)

Fail ==
    /\ InContract
    /\ ctx' = Rest(ctx)
    /\ outcome' = IF Len(ctx) = 2 THEN "failure" ELSE "none"
    /\ states' = Rest(states)

Finish ==
    /\ outcome # "none"
    /\ states' = <<>> /\ ctx' = <<>> /\ outcome' = "none"

StackNext ==
    \/ \E u \in Addr : Begin(u)
    \/ \E to \in Addr, v \in Amounts : Call(to, v)
    \/ DelegateCall
    \/ \E a \in Addr, v \in Amounts : Create(a, v)
    \/ \E k \in Keys, v \in Values : Store(k, v)
    \/ EmitLog
    \/ \E deployed \in BOOLEAN : Return(deployed)
    \/ \E heir \in Addr : SelfDestruct(heir)
    \/ Fail
    \/ Finish

StackSpec == StackInit /\ [][StackNext]_stackVars
=============================================================================
