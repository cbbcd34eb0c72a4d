------------------------------- MODULE TraceOps -------------------------------
(***************************************************************************)
(* traceOps (client.go:736-890): from the flattened calls of a transaction *)
(* to the operations of the response.  One action per iteration of its two *)
(* loops.  The second loop ranges over a Go map: its order is a choice.    *)
(***************************************************************************)
EXTENDS Integers, Sequences, FiniteSets

CONSTANT Accounts

CallTypes == {"CALL", "CALLCODE", "DELEGATECALL", "STATICCALL"}
CreateTypes == {"CREATE", "CREATE2"}
TraceTypes == CallTypes \cup CreateTypes \cup {"SELFDESTRUCT"}

(* flatCall, without the gas and the text of the error.                    *)
FlatCall == [type : TraceTypes, from : Accounts, to : Accounts, value : Nat,
             revert : BOOLEAN]

VARIABLES
    stage,       \* "idle", "loop", "tail", "returned" or "fatal"
    calls,       \* the argument calls
    start,       \* the argument startIndex
    at,          \* index of the call that the loop is at
    ops,         \* the operations so far
    destroyed,   \* keys of the map destroyedAccounts
    balance,     \* its values; 0 where there is no key
    todo         \* keys that the second loop has not visited

opsVars == <<stage, calls, start, at, ops, destroyed, balance, todo>>

NoBalances == [a \in Accounts |-> 0]

OpsInit ==
    /\ stage = "idle"
    /\ calls = <<>>
    /\ start = 0
    /\ at = 1
    /\ ops = <<>>
    /\ destroyed = {}
    /\ balance = NoBalances
    /\ todo = {}

Start(cs, n) ==
    /\ stage = "idle"
    /\ stage' = "loop"
    /\ calls' = cs
    /\ start' = n
    /\ UNCHANGED <<at, ops, destroyed, balance, todo>>

-----------------------------------------------------------------------------
Status(tr) == IF tr.revert THEN "FAILURE" ELSE "SUCCESS"

(* An operation with a nil Amount has amount 0.                            *)
Op(index, related, tr, account, amount) ==
    [index |-> index, related |-> related, type |-> tr.type,
     status |-> Status(tr), account |-> account, amount |-> amount]

(* Calls without a value are left out; they may still change the map.      *)
ShouldAdd(tr) == tr.value # 0 \/ tr.type \notin CallTypes

(* A SELFDESTRUCT in favour of the account itself has no second half.      *)
Burns(tr) == tr.type = "SELFDESTRUCT" /\ tr.from = tr.to

FromOp(tr) == Op(Len(ops) + start, {}, tr, tr.from, -tr.value)

(* Mutant: the second index is counted without startIndex.                 *)
ToOpUnshifted(tr) ==
    Op(Len(ops) + 1, {Len(ops) + start}, tr, tr.to, tr.value)

ToOp(tr) ==
    LET last == FromOp(tr).index
    IN  Op(last + 1, {last}, tr, tr.to, tr.value)

NewOps(tr) ==
    IF ~ShouldAdd(tr) THEN <<>>
    ELSE IF Burns(tr) THEN <<FromOp(tr)>>
    ELSE <<FromOp(tr), ToOp(tr)>>

(* Mutant: the map is written for accounts that are not destroyed.         *)
AdjustAny(bal, keys, tr, a, v) ==
    IF ~tr.revert THEN [bal EXCEPT ![a] = @ + v] ELSE bal

(* Add v to the value of a key of the map, if the call took effect.        *)
Adjust(bal, keys, tr, a, v) ==
    IF a \in keys /\ ~tr.revert THEN [bal EXCEPT ![a] = @ + v] ELSE bal

MarkDestroyed(bal, tr) ==
    IF tr.type = "SELFDESTRUCT" THEN [bal EXCEPT ![tr.from] = 0] ELSE bal

Resurrect(bal, tr) ==
    IF tr.type \in CreateTypes THEN [bal EXCEPT ![tr.to] = 0] ELSE bal

(* The body of the first loop: debit from, mark it if it destroyed itself, *)
(* take to out of the map if it was created, and credit to.                *)
ProcessCall ==
    /\ stage = "loop"
    /\ at <= Len(calls)
    /\ LET tr      == calls[at]
           marked  == IF tr.type = "SELFDESTRUCT" THEN destroyed \cup {tr.from}
                      ELSE destroyed
           keys    == IF tr.type \in CreateTypes THEN marked \ {tr.to} ELSE marked
           debited == Adjust(balance, destroyed, tr, tr.from, -tr.value)
           reset   == Resurrect(MarkDestroyed(debited, tr), tr)
       IN  /\ ops' = ops \o NewOps(tr)
           /\ destroyed' = keys
           /\ balance' = IF Burns(tr) THEN reset
                         ELSE Adjust(reset, keys, tr, tr.to, tr.value)
    /\ at' = at + 1
    /\ UNCHANGED <<stage, calls, start, todo>>

(* Mutant: the second loop visits every account.                           *)
EndLoopAll ==
    /\ stage = "loop"
    /\ at > Len(calls)
    /\ stage' = "tail"
    /\ todo' = Accounts
    /\ UNCHANGED <<calls, start, at, ops, destroyed, balance>>

EndLoop ==
    /\ stage = "loop"
    /\ at > Len(calls)
    /\ stage' = "tail"
    /\ todo' = destroyed
    /\ UNCHANGED <<calls, start, at, ops, destroyed, balance>>

-----------------------------------------------------------------------------
DestructOp(a) ==
    [index |-> ops[Len(ops)].index + 1, related |-> {}, type |-> "DESTRUCT",
     status |-> "SUCCESS", account |-> a, amount |-> -balance[a]]

(* The body of the second loop.  A negative balance is log.Fatalf: the     *)
(* whole process exits.                                                    *)
VisitDestroyed(a) ==
    /\ stage = "tail"
    /\ a \in todo
    /\ \/ /\ balance[a] = 0
          /\ UNCHANGED <<stage, ops>>
       \/ /\ balance[a] < 0
          /\ stage' = "fatal"
          /\ UNCHANGED ops
       \/ /\ balance[a] > 0
          /\ ops' = Append(ops, DestructOp(a))
          /\ UNCHANGED stage
    /\ todo' = todo \ {a}
    /\ UNCHANGED <<calls, start, at, destroyed, balance>>

ReturnOps ==
    /\ stage = "tail"
    /\ todo = {}
    /\ stage' = "returned"
    /\ UNCHANGED <<calls, start, at, ops, destroyed, balance, todo>>

OpsStep ==
    \/ ProcessCall
    \/ EndLoop
    \/ \E a \in Accounts : VisitDestroyed(a)
    \/ ReturnOps

(* traceOps on its own, for any argument.                                  *)
OpsNext ==
    \/ \E cs \in Seq(FlatCall), n \in Nat : Start(cs, n)
    \/ OpsStep

OpsSpec == OpsInit /\ [][OpsNext]_opsVars

-----------------------------------------------------------------------------
Operation ==
    [index : Nat, related : SUBSET Nat, type : TraceTypes \cup {"DESTRUCT"},
     status : {"SUCCESS", "FAILURE"}, account : Accounts, amount : Int]

OpsTypeOK ==
    /\ stage \in {"idle", "loop", "tail", "returned", "fatal"}
    /\ calls \in Seq(FlatCall)
    /\ start \in Nat
    /\ at \in 1..(Len(calls) + 1)
    /\ ops \in Seq(Operation)
    /\ destroyed \subseteq Accounts
    /\ balance \in [Accounts -> Int]
    /\ todo \subseteq destroyed

(* The operations are numbered from startIndex without a gap, also across  *)
(* the skipped calls, the missing second halves and the DESTRUCT           *)
(* operations, whose numbers come from the operation before them           *)
(* (client.go:776, 826-835, 875); a related operation is the one before.   *)
OpsNumbered ==
    \A k \in 1..Len(ops) :
        /\ ops[k].index = start + k - 1
        /\ ops[k].related \subseteq {start + k - 2}

(* The balances of destroyed accounts are kept exactly for the keys of the *)
(* map, and a key with a balance implies an operation that the DESTRUCT    *)
(* operation can be numbered after: ops[len(ops)-1] never is out of range. *)
DestructHasPredecessor ==
    \A a \in Accounts : balance[a] # 0 => a \in destroyed /\ ops # <<>>
=============================================================================
