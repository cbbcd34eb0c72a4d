------------------------------ MODULE EvmLedger ------------------------------
(***************************************************************************)
(* populateTransactions (client.go:1181-1258) against what really happens  *)
(* to the balances, for a block of one transaction.  The EVM (outside the  *)
(* repository) runs the transaction on any code the called accounts may    *)
(* have.  call_tracer.js records its frames as a tree; the client decodes  *)
(* the tree, flattens it and derives the operations (TraceOps), next to    *)
(* those of the fee (FeeOps) and of the block's reward (BlockReward).  A   *)
(* reader who adds up the successful operations of an account expects the  *)
(* change of its balance.                                                  *)
(***************************************************************************)
EXTENDS TraceOps, FeeOps, BlockReward, Totals

CONSTANTS
    Sender, Miner,     \* accounts without code
    ZeroAddress,       \* what a missing address is decoded as
    Contracts,         \* accounts with code: any code
    Unborn,            \* addresses a CREATE may give to a new contract
    InitialBalance,
    Values,            \* values that calls transfer
    Shapes             \* the transactions and blocks of the model

(* A transaction and its block: what it pays for gas (FeeOps), the header  *)
(* (BlockReward), the accounts that are called or given a legacy, the      *)
(* instructions contracts use, and a bound of the model, the calls and     *)
(* creations.                                                              *)
ASSUME LedgerAssumption ==
    /\ {Sender, Miner, ZeroAddress} \cup Contracts \cup Unborn = Accounts
    /\ {Sender, Miner, ZeroAddress} \cap (Contracts \cup Unborn) = {}
    /\ Contracts \cap Unborn = {}
    /\ InitialBalance \in [Accounts -> Nat]
    /\ Values \subseteq Nat
    /\ \A s \in Shapes :
          /\ s.callees \subseteq Accounts
          /\ s.opcodes \subseteq CallTypes \cup {"CREATE", "SELFDESTRUCT", "REVERT"}
          /\ IsGasUse(s.gasUse)
          /\ IsHeader(s.header) /\ s.header.coinbase = Miner
          /\ s.maxFrames \in Nat \ {0}

VARIABLES
    bal,           \* balances, without the fees
    suicided,      \* contracts to be deleted at the end of the transaction
    born,          \* contracts created by the transaction
    frames,        \* the EVM's frames that run, the innermost last
    trace,         \* the calls that call_tracer.js recorded
    entered,       \* calls and creations so far (bounded by maxFrames)
    shape          \* which of Shapes the transaction has

evmVars == <<bal, suicided, born, frames, trace, entered, shape>>
ledgerVars == <<opsVars, evmVars>>

(* The tree of calls is kept as the list of its nodes, in the order they   *)
(* began.  within: the calls around it.  error: the tracer noted one.      *)
TracedCall ==
    [type : TraceTypes, from : Accounts, to : Accounts, value : Nat,
     error : BOOLEAN, within : SUBSET Nat]

Worlds == [bal : [Accounts -> Nat], suicided : SUBSET Accounts, born : SUBSET Unborn]

World == [bal |-> bal, suicided |-> suicided, born |-> born]

(* A frame: the account that runs, the world before the call, and the call *)
(* in the trace, which is on the tracer's callstack until the frame ends.  *)
OpenFrame == [self : Accounts, snapshot : Worlds, call : Nat \ {0}]

Frame(account) == [self |-> account, snapshot |-> World, call |-> Len(trace) + 1]

Init ==
    /\ OpsInit
    /\ bal = InitialBalance
    /\ suicided = {}
    /\ born = {}
    /\ frames = <<>>
    /\ trace = <<>>
    /\ entered = 0
    /\ shape \in Shapes

-----------------------------------------------------------------------------
Move(b, from, to, v) ==
    IF from = to THEN b ELSE [b EXCEPT ![from] = @ - v, ![to] = @ + v]

(* enter: a call inside of all those that are open.                        *)
Node(type, from, to, value) ==
    [type |-> type, from |-> from, to |-> to, value |-> value, error |-> FALSE,
     within |-> {frames[k].call : k \in 1..Len(frames)}]

Enter(node) == trace' = Append(trace, node)

(* exit: the address of a contract that was not created is deleted.  The   *)
(* call of the transaction itself is not entered: result takes its address *)
(* from the context.                                                       *)
Exit(list, i, error) ==
    [list EXCEPT ![i].error = error,
                 ![i].to = IF error /\ list[i].type \in CreateTypes /\ i # 1
                           THEN ZeroAddress ELSE @]

Self == frames[Len(frames)].self

HasCode(a) == a \in Contracts \cup born

Running == stage = "idle" /\ frames # <<>>

MayEnter == Running /\ HasCode(Self) /\ entered < shape.maxFrames

(* The transaction calls an account, or creates a contract.                *)
BeginTransaction(to, v) ==
    LET kind == IF to \in Unborn THEN "CREATE" ELSE "CALL"
    IN  /\ stage = "idle"
        /\ entered = 0
        /\ v <= bal[Sender]
        /\ bal' = Move(bal, Sender, to, v)
        /\ born' = born \cup (Unborn \cap {to})
        /\ frames' = <<Frame(to)>>
        /\ Enter(Node(kind, Sender, to, v))
        /\ entered' = 1
        /\ UNCHANGED <<opsVars, suicided, shape>>

(* CALL moves the value and runs the callee; CALLCODE, DELEGATECALL run    *)
(* its code in the place of the caller, and move nothing.  The tracer gets *)
(* the value of a CALLCODE, and none for a DELEGATECALL.                   *)
Call(kind, to, v) ==
    /\ MayEnter
    /\ kind \in shape.opcodes \cap CallTypes
    /\ v <= bal[Self]
    /\ kind \in {"DELEGATECALL", "STATICCALL"} => v = 0
    /\ bal' = IF kind = "CALL" THEN Move(bal, Self, to, v) ELSE bal
    /\ frames' = Append(frames, Frame(IF kind = "CALL" THEN to ELSE Self))
    /\ Enter(Node(kind, Self, to, v))
    /\ entered' = entered + 1
    /\ UNCHANGED <<opsVars, suicided, born, shape>>

Create(a, v) ==
    /\ MayEnter
    /\ "CREATE" \in shape.opcodes
    /\ a \in Unborn \ born
    /\ v <= bal[Self]
    /\ bal' = Move(bal, Self, a, v)
    /\ born' = born \cup {a}
    /\ frames' = Append(frames, Frame(a))
    /\ Enter(Node("CREATE", Self, a, v))
    /\ entered' = entered + 1
    /\ UNCHANGED <<opsVars, suicided, shape>>

(* The frame on top ends; with an error, all it did is undone.             *)
Leave(list, world, error) ==
    LET top == frames[Len(frames)]
        w   == IF error THEN top.snapshot ELSE world
    IN  /\ bal' = w.bal
        /\ suicided' = w.suicided
        /\ born' = w.born
        /\ frames' = SubSeq(frames, 1, Len(frames) - 1)
        /\ trace' = Exit(list, top.call, error)

Return ==
    /\ Running
    /\ Leave(trace, World, FALSE)
    /\ UNCHANGED <<opsVars, entered, shape>>

Fail ==
    /\ Running
    /\ "REVERT" \in shape.opcodes
    /\ HasCode(Self)
    /\ Leave(trace, World, TRUE)
    /\ UNCHANGED <<opsVars, entered, shape>>

(* SELFDESTRUCT gives the whole balance away (to itself: burns it), is     *)
(* traced as a frame of its own, and ends the frame it occurs in.          *)
SelfDestruct(to) ==
    /\ Running
    /\ HasCode(Self)
    /\ "SELFDESTRUCT" \in shape.opcodes
    /\ LET leaf  == Node("SELFDESTRUCT", Self, to, bal[Self])
           given == [Move(bal, Self, to, bal[Self]) EXCEPT ![Self] = 0]
       IN  Leave(Append(trace, leaf),
                 [World EXCEPT !.bal = given, !.suicided = @ \cup {Self}], FALSE)
    /\ UNCHANGED <<opsVars, entered, shape>>

-----------------------------------------------------------------------------
(* Call.UnmarshalJSON and flattenTraces: a call with an error has          *)
(* reverted, and so have all the calls it made.                            *)
Reverted(list, i) == list[i].error \/ \E j \in list[i].within : list[j].error

Flat(call, revert) ==
    [type |-> call.type, from |-> call.from, to |-> call.to, value |-> call.value,
     revert |-> revert]

(* Mutant: a call reverts only if it failed itself.                        *)
FlattenOwnError(list) == [i \in 1..Len(list) |-> Flat(list[i], list[i].error)]

Flatten(list) == [i \in 1..Len(list) |-> Flat(list[i], Reverted(list, i))]

FeesOf == feeOps(shape.gasUse, Sender, Miner)

RewardsOf == blockRewardOps(shape.header)

(* The transaction is final: its suicided contracts are deleted with what  *)
(* they hold.  populateTransaction numbers the trace's operations after    *)
(* those of the fee.                                                       *)
EndTransaction ==
    /\ stage = "idle"
    /\ frames = <<>>
    /\ trace # <<>>
    /\ bal' = [a \in Accounts |-> IF a \in suicided THEN 0 ELSE bal[a]]
    /\ Start(Flatten(trace), Len(FeesOf))
    /\ UNCHANGED <<suicided, born, frames, trace, entered, shape>>

EvmStep ==
    \/ \E to \in shape.callees, v \in Values : BeginTransaction(to, v)
    \/ \E kind \in CallTypes, to \in shape.callees, v \in Values : Call(kind, to, v)
    \/ \E a \in Unborn, v \in Values : Create(a, v)
    \/ \E to \in shape.callees : SelfDestruct(to)
    \/ Return
    \/ Fail

Next ==
    \/ EvmStep
    \/ EndTransaction
    \/ OpsStep /\ UNCHANGED evmVars

Spec == Init /\ [][Next]_ledgerVars

-----------------------------------------------------------------------------
LedgerTypeOK ==
    /\ OpsTypeOK
    /\ bal \in [Accounts -> Nat]
    /\ suicided \subseteq Contracts \cup born
    /\ born \subseteq Unborn
    /\ frames \in Seq(OpenFrame)
    /\ trace \in Seq(TracedCall)
    /\ entered \in 0..shape.maxFrames
    /\ shape \in Shapes

(* What a reader of the block books for an account, and what it gained.    *)
Booked(a) ==
    Total(Credits(RewardsOf, a)) + Total(Credits(FeesOf, a)) + Total(Credits(ops, a))

Rewarded(a) == Total(Rewards(shape.header, a))

Gained(a) ==
    bal[a] - InitialBalance[a] + Rewarded(a)
    - (IF a = Sender THEN ChargedToSender(shape.gasUse) ELSE 0)
    + (IF a = Miner THEN PaidToMiner(shape.gasUse) ELSE 0)

(* The two kinds of trace that client.go:800-859 books wrongly: it enters a *)
(* SELFDESTRUCT that was undone into the map of destroyed accounts, and it *)
(* takes the value given to a CALLCODE for a transfer.                     *)
RevertedDestruct == \E i \in 1..Len(calls) : calls[i].type = "SELFDESTRUCT" /\ calls[i].revert

PaidCallCode == \E i \in 1..Len(calls) : calls[i].type = "CALLCODE" /\ calls[i].value # 0

Tracked == stage = "returned" => \A a \in Accounts : Booked(a) = Gained(a)

(* client.go:1264-1280 takes the reward from the height alone.             *)
NobodyPaid == shape.header.engine # "ethash"

(* The operations of a block tell for every account what it gained or      *)
(* lost: by rewards, by fees, through nested and failed calls, creations,  *)
(* contracts that destroy themselves (also in favour of themselves or of   *)
(* each other) and are paid afterwards; and the process survives.  This is *)
(* README.md:90, "Comprehensive tracking of all ETH balance changes", but  *)
(* for the two kinds of trace and the kind of block above.                 *)
LedgerTracksBalances ==
    ~RevertedDestruct /\ ~PaidCallCode /\ ~NobodyPaid => Tracked /\ stage # "fatal"

(* README.md:90 says so for every network: what the reward operations of a *)
(* block book is what its miner and those of its uncles were paid.         *)
RewardsWerePaid ==
    stage = "returned" =>
        \A a \in Accounts : Rewarded(a) = Total(Credits(RewardsOf, a))

(* client.go:869-871 takes a negative balance of a destroyed account for   *)
(* impossible, and ends the process if it meets one.                       *)
NeverFatal == stage # "fatal"
=============================================================================
