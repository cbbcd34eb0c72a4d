---------------------------- MODULE EvmLedgerProofs ----------------------------
(***************************************************************************)
(* The operations of a block tell what every account gained, for any       *)
(* accounts, balances, code and length of the transaction: the proof of    *)
(* LedgerTracksBalances.                                                   *)
(*                                                                         *)
(* The argument: replaying the flattened calls on the initial balances,    *)
(* without those that reverted, gives the balances the EVM has.  While the *)
(* transaction runs this holds after its last call and, at the call of     *)
(* every open frame, for the frame's snapshot, so that it survives the     *)
(* failure of a frame.  traceOps then books, call by call, what the replay *)
(* moves, and its map of destroyed accounts has the balances of the replay.*)
(***************************************************************************)
EXTENDS EvmLedger, PaymentProofs

-----------------------------------------------------------------------------
(* traceOps for every list of calls over every set of accounts: the loop's *)
(* index arithmetic is right, and the second loop never reads ops[-1].     *)

(* What holds in each stage besides the properties themselves.             *)
StageInv ==
    /\ stage = "idle" => at = 1 /\ ops = <<>> /\ balance = NoBalances
    /\ stage \in {"idle", "loop"} => todo = {}

(* OpsNumbered alone is not inductive: a DESTRUCT operation takes its      *)
(* number from the operation before it, so there has to be one.            *)
OpsInv == OpsTypeOK /\ OpsNumbered /\ DestructHasPredecessor /\ StageInv

(* Before traceOps is called.                                              *)
LEMMA InitOpsInv == OpsInit => OpsInv
<1> SUFFICES ASSUME OpsInit PROVE OpsInv
  OBVIOUS
<1>1. OpsTypeOK
  BY DEF OpsInit, OpsTypeOK, NoBalances
<1>2. OpsNumbered /\ DestructHasPredecessor /\ StageInv
  BY DEF OpsInit, OpsNumbered, DestructHasPredecessor, StageInv, NoBalances
<1> QED BY <1>1, <1>2 DEF OpsInv

(* A call of traceOps, with any list and any start index.                  *)
LEMMA StartKeepsInv ==
    ASSUME NEW cs \in Seq(FlatCall), NEW n \in Nat, OpsInv, Start(cs, n)
    PROVE  OpsInv'
<1>1. /\ at' = 1 /\ ops' = <<>> /\ balance' = NoBalances /\ todo' = {}
      /\ stage' = "loop" /\ calls' = cs /\ start' = n /\ destroyed' = destroyed
  BY DEF OpsInv, StageInv, Start
<1>2. OpsTypeOK'
  BY <1>1, LenProperties DEF OpsInv, OpsTypeOK, NoBalances
<1>3. OpsNumbered' /\ DestructHasPredecessor' /\ StageInv'
  BY <1>1 DEF OpsNumbered, DestructHasPredecessor, StageInv, NoBalances
<1> QED BY <1>2, <1>3 DEF OpsInv

-----------------------------------------------------------------------------
(* The operations of one call are typed, and numbered after those so far.  *)
LEMMA NewOpsProperties ==
    ASSUME NEW tr \in FlatCall, OpsTypeOK
    PROVE  /\ NewOps(tr) \in Seq(Operation)
           /\ Len(NewOps(tr)) \in 0..2
           /\ \A k \in 1..Len(NewOps(tr)) :
                 /\ NewOps(tr)[k].index = start + Len(ops) + k - 1
                 /\ NewOps(tr)[k].related \subseteq {start + Len(ops) + k - 2}
           /\ tr.value # 0 => NewOps(tr) # <<>>
<1>0. /\ Len(ops) \in Nat /\ start \in Nat
      /\ tr.type \in TraceTypes /\ tr.from \in Accounts /\ tr.to \in Accounts
      /\ tr.value \in Nat /\ tr.revert \in BOOLEAN
  BY LenProperties DEF OpsTypeOK, FlatCall
<1>1. /\ FromOp(tr) \in Operation
      /\ FromOp(tr).index = Len(ops) + start
      /\ FromOp(tr).related = {}
  BY <1>0 DEF FromOp, Op, Operation, Status
<1>2. /\ ToOp(tr) \in Operation
      /\ ToOp(tr).index = Len(ops) + start + 1
      /\ ToOp(tr).related = {Len(ops) + start}
  BY <1>0, <1>1 DEF ToOp, Op, Operation, Status
<1> DEFINE one == <<FromOp(tr)>>
           two == <<FromOp(tr), ToOp(tr)>>
<1>3. /\ one \in Seq(Operation) /\ Len(one) = 1 /\ one[1] = FromOp(tr)
      /\ two \in Seq(Operation) /\ Len(two) = 2
      /\ two[1] = FromOp(tr) /\ two[2] = ToOp(tr)
  BY <1>1, <1>2
<1>4. NewOps(tr) = <<>> \/ NewOps(tr) = one \/ NewOps(tr) = two
  BY DEF NewOps
<1>5. tr.value # 0 => NewOps(tr) = one \/ NewOps(tr) = two
  BY DEF NewOps, ShouldAdd
<1> HIDE DEF one, two
<1>6. CASE NewOps(tr) = <<>>
  BY <1>5, <1>6, <1>3, EmptySeq
<1>7. CASE NewOps(tr) = one
  <2>1. one # <<>>
    BY DEF one
  <2>2. ASSUME NEW k \in 1..Len(one)
        PROVE  /\ one[k].index = start + Len(ops) + k - 1
               /\ one[k].related \subseteq {start + Len(ops) + k - 2}
    <3>1. k = 1
      BY <1>3
    <3>2. one[k].index = Len(ops) + start /\ one[k].related = {}
      BY <3>1, <1>3, <1>1
    <3> QED BY <3>1, <3>2, <1>0
  <2> QED BY <1>7, <2>1, <2>2, <1>3
<1>8. CASE NewOps(tr) = two
  <2>1. two # <<>>
    BY DEF two
  <2>2. ASSUME NEW k \in 1..Len(two)
        PROVE  /\ two[k].index = start + Len(ops) + k - 1
               /\ two[k].related \subseteq {start + Len(ops) + k - 2}
    <3>1. CASE k = 1
      <4>1. two[k].index = Len(ops) + start /\ two[k].related = {}
        BY <3>1, <1>3, <1>1
      <4> QED BY <3>1, <4>1, <1>0
    <3>2. CASE k = 2
      <4>1. /\ two[k].index = Len(ops) + start + 1
            /\ two[k].related = {Len(ops) + start}
        BY <3>2, <1>3, <1>2
      <4>2. /\ Len(ops) + start + 1 = start + Len(ops) + 2 - 1
            /\ Len(ops) + start = start + Len(ops) + 2 - 2
        BY <1>0
      <4> QED BY <3>2, <4>1, <4>2
    <3> QED BY <3>1, <3>2, <1>3
  <2> QED BY <1>8, <2>1, <2>2, <1>3
<1> QED BY <1>4, <1>6, <1>7, <1>8

(* One iteration of the first loop.                                        *)
LEMMA ProcessCallKeepsInv ==
    ASSUME OpsInv, ProcessCall
    PROVE  OpsInv'
<1> DEFINE tr      == calls[at]
           marked  == IF tr.type = "SELFDESTRUCT" THEN destroyed \cup {tr.from}
                      ELSE destroyed
           keys    == IF tr.type \in CreateTypes THEN marked \ {tr.to} ELSE marked
           debited == Adjust(balance, destroyed, tr, tr.from, -tr.value)
           reset   == Resurrect(MarkDestroyed(debited, tr), tr)
<1>0. /\ OpsTypeOK /\ OpsNumbered /\ DestructHasPredecessor
      /\ stage = "loop" /\ todo = {}
      /\ Len(calls) \in Nat /\ at \in 1..Len(calls)
      /\ ops \in Seq(Operation) /\ Len(ops) \in Nat /\ start \in Nat
      /\ balance \in [Accounts -> Int] /\ destroyed \subseteq Accounts
  BY LenProperties DEF OpsInv, OpsTypeOK, StageInv, ProcessCall
<1>1. tr \in FlatCall
  BY <1>0, ElementOfSeq DEF OpsTypeOK
<1>2. /\ tr.type \in TraceTypes /\ tr.from \in Accounts /\ tr.to \in Accounts
      /\ tr.value \in Nat /\ -tr.value \in Int /\ tr.revert \in BOOLEAN
  BY <1>1 DEF FlatCall
<1>3. /\ ops' = ops \o NewOps(tr)
      /\ destroyed' = keys
      /\ balance' = IF Burns(tr) THEN reset
                    ELSE Adjust(reset, keys, tr, tr.to, tr.value)
      /\ at' = at + 1
      /\ UNCHANGED <<stage, calls, start, todo>>
  BY DEF ProcessCall
<1> HIDE DEF tr
<1>4. /\ NewOps(tr) \in Seq(Operation)
      /\ Len(NewOps(tr)) \in 0..2
      /\ \A k \in 1..Len(NewOps(tr)) :
            /\ NewOps(tr)[k].index = start + Len(ops) + k - 1
            /\ NewOps(tr)[k].related \subseteq {start + Len(ops) + k - 2}
      /\ tr.value # 0 => NewOps(tr) # <<>>
  BY <1>0, <1>1, NewOpsProperties
<1>5. /\ ops' \in Seq(Operation)
      /\ Len(ops') = Len(ops) + Len(NewOps(tr))
      /\ \A k \in 1..Len(ops') :
            ops'[k] = IF k <= Len(ops) THEN ops[k] ELSE NewOps(tr)[k - Len(ops)]
  BY <1>0, <1>3, <1>4, ConcatProperties
<1>6. /\ debited \in [Accounts -> Int]
      /\ \A a \in Accounts : debited[a] # balance[a] =>
            a \in destroyed /\ tr.value # 0
  BY <1>0, <1>2 DEF Adjust
<1>7. /\ reset \in [Accounts -> Int]
      /\ \A a \in Accounts : reset[a] # 0 => reset[a] = debited[a]
      /\ tr.type \in CreateTypes => reset[tr.to] = 0
  <2> HIDE DEF debited
  <2> QED BY <1>2, <1>6 DEF Resurrect, MarkDestroyed
<1>8. /\ balance' \in [Accounts -> Int]
      /\ \A a \in Accounts : balance'[a] # reset[a] => a \in keys /\ tr.value # 0
  <2> HIDE DEF reset, keys
  <2> QED BY <1>2, <1>3, <1>7 DEF Adjust
<1>9. keys \subseteq Accounts
  BY <1>0, <1>2
<1>10. OpsTypeOK'
  <2>1. at' \in 1..(Len(calls') + 1)
    BY <1>0, <1>3
  <2> HIDE DEF keys
  <2> QED BY <2>1, <1>0, <1>3, <1>5, <1>8, <1>9 DEF OpsTypeOK
<1>11. OpsNumbered'
  <2> SUFFICES ASSUME NEW k \in 1..Len(ops')
               PROVE  /\ ops'[k].index = start + k - 1
                      /\ ops'[k].related \subseteq {start + k - 2}
    BY <1>3 DEF OpsNumbered
  <2>1. CASE k <= Len(ops)
    <3>1. k \in 1..Len(ops) /\ ops'[k] = ops[k]
      BY <2>1, <1>0, <1>5
    <3> QED BY <3>1, <1>0 DEF OpsNumbered
  <2>2. CASE ~(k <= Len(ops))
    <3> DEFINE i == k - Len(ops)
    <3>1. i \in 1..Len(NewOps(tr)) /\ ops'[k] = NewOps(tr)[i]
      BY <2>2, <1>0, <1>4, <1>5
    <3>2. start + Len(ops) + i - 1 = start + k - 1
          /\ start + Len(ops) + i - 2 = start + k - 2
      BY <1>0, <1>5
    <3> HIDE DEF i
    <3>3. /\ NewOps(tr)[i].index = start + Len(ops) + i - 1
          /\ NewOps(tr)[i].related \subseteq {start + Len(ops) + i - 2}
      BY <3>1, <1>4
    <3> QED BY <3>1, <3>2, <3>3
  <2> QED BY <2>1, <2>2
<1>12. DestructHasPredecessor'
  <2> SUFFICES ASSUME NEW a \in Accounts, balance'[a] # 0
               PROVE  a \in keys /\ ops' # <<>>
    BY <1>3 DEF DestructHasPredecessor
  <2>1. (ops # <<>> \/ tr.value # 0) => ops' # <<>>
    <3>1. (ops # <<>> => Len(ops) # 0) /\ (tr.value # 0 => Len(NewOps(tr)) # 0)
      BY <1>0, <1>4, EmptySeq
    <3> QED BY <3>1, <1>0, <1>4, <1>5, EmptySeq
  <2>2. CASE balance'[a] # reset[a]
    BY <2>1, <2>2, <1>8
  <2>3. CASE balance'[a] = reset[a]
    <3>1. debited[a] # 0 /\ (tr.type \in CreateTypes => a # tr.to)
      BY <2>3, <1>7
    <3>2. a \in destroyed /\ (ops # <<>> \/ tr.value # 0)
      BY <3>1, <1>0, <1>6 DEF DestructHasPredecessor
    <3>3. a \in keys
      BY <3>1, <3>2
    <3> QED BY <2>1, <3>2, <3>3
  <2> QED BY <2>2, <2>3
<1>13. StageInv'
  BY <1>0, <1>3 DEF StageInv
<1> QED BY <1>10, <1>11, <1>12, <1>13 DEF OpsInv

-----------------------------------------------------------------------------
(* One iteration of the second loop.                                       *)
LEMMA VisitKeepsInv ==
    ASSUME NEW a \in Accounts, OpsInv, VisitDestroyed(a)
    PROVE  OpsInv'
<1>0. /\ OpsTypeOK /\ OpsNumbered /\ DestructHasPredecessor
      /\ stage = "tail"
      /\ ops \in Seq(Operation) /\ Len(ops) \in Nat /\ start \in Nat
      /\ balance[a] \in Int
      /\ todo' = todo \ {a}
      /\ UNCHANGED <<calls, start, at, destroyed, balance>>
      /\ stage' \in {"tail", "fatal"}
  BY LenProperties DEF OpsInv, OpsTypeOK, VisitDestroyed
<1>1. CASE UNCHANGED ops
  <2>1. OpsTypeOK'
    BY <1>0, <1>1 DEF OpsTypeOK
  <2>2. OpsNumbered' /\ DestructHasPredecessor' /\ StageInv'
    BY <1>0, <1>1 DEF OpsNumbered, DestructHasPredecessor, StageInv
  <2> QED BY <2>1, <2>2 DEF OpsInv
<1>2. CASE balance[a] > 0 /\ ops' = Append(ops, DestructOp(a))
  <2>1. ops # <<>> /\ Len(ops) >= 1
    BY <1>0, <1>2, EmptySeq DEF DestructHasPredecessor
  <2>2. ops[Len(ops)].index = start + Len(ops) - 1
    BY <2>1, <1>0 DEF OpsNumbered
  <2>3. /\ DestructOp(a) \in Operation
        /\ DestructOp(a).index = start + (Len(ops) + 1) - 1
        /\ DestructOp(a).related = {}
    BY <2>1, <2>2, <1>0 DEF DestructOp, Operation
  <2> HIDE DEF DestructOp
  <2>4. /\ ops' \in Seq(Operation)
        /\ Len(ops') = Len(ops) + 1
        /\ \A k \in 1..Len(ops) : ops'[k] = ops[k]
        /\ ops'[Len(ops) + 1] = DestructOp(a)
    BY <1>0, <1>2, <2>3, AppendProperties
  <2>5. OpsTypeOK'
    BY <1>0, <2>4 DEF OpsTypeOK
  <2>6. OpsNumbered'
    <3> SUFFICES ASSUME NEW k \in 1..Len(ops')
                 PROVE  /\ ops'[k].index = start + k - 1
                        /\ ops'[k].related \subseteq {start + k - 2}
      BY <1>0 DEF OpsNumbered
    <3>1. CASE k \in 1..Len(ops)
      BY <3>1, <2>4, <1>0 DEF OpsNumbered
    <3>2. CASE k = Len(ops) + 1
      BY <3>2, <2>3, <2>4
    <3> QED BY <3>1, <3>2, <2>4, <1>0
  <2>7. ops' # <<>>
    BY <2>4, <1>0, EmptySeq
  <2>8. DestructHasPredecessor' /\ StageInv'
    BY <1>0, <2>7 DEF DestructHasPredecessor, StageInv
  <2> QED BY <2>5, <2>6, <2>8 DEF OpsInv
<1> QED BY <1>1, <1>2 DEF VisitDestroyed

(* The ends of the loops, and steps outside of traceOps.                   *)
LEMMA OtherStepsKeepInv ==
    ASSUME OpsInv, EndLoop \/ ReturnOps \/ UNCHANGED opsVars
    PROVE  OpsInv'
<1>1. OpsTypeOK'
  BY DEF OpsInv, OpsTypeOK, EndLoop, ReturnOps, opsVars
<1>2. OpsNumbered'
  BY DEF OpsInv, OpsNumbered, EndLoop, ReturnOps, opsVars
<1>3. DestructHasPredecessor'
  BY DEF OpsInv, DestructHasPredecessor, EndLoop, ReturnOps, opsVars
<1>4. StageInv'
  BY DEF OpsInv, StageInv, EndLoop, ReturnOps, opsVars
<1> QED BY <1>1, <1>2, <1>3, <1>4 DEF OpsInv

(* Every step keeps the invariant.                                         *)
LEMMA OpsStepKeepsInv == OpsInv /\ [OpsNext]_opsVars => OpsInv'
<1> SUFFICES ASSUME OpsInv, [OpsNext]_opsVars PROVE OpsInv'
  OBVIOUS
<1>1. ASSUME NEW cs \in Seq(FlatCall), NEW n \in Nat, Start(cs, n) PROVE OpsInv'
  BY <1>1, StartKeepsInv
<1>2. CASE ProcessCall
  BY <1>2, ProcessCallKeepsInv
<1>3. ASSUME NEW a \in Accounts, VisitDestroyed(a) PROVE OpsInv'
  BY <1>3, VisitKeepsInv
<1>4. CASE EndLoop \/ ReturnOps \/ UNCHANGED opsVars
  BY <1>4, OtherStepsKeepInv
<1> QED BY <1>1, <1>2, <1>3, <1>4 DEF OpsNext, OpsStep

-----------------------------------------------------------------------------
(* The inductive invariant of traceOps (client.go:736-890).                *)
THEOREM OpsInvariant == OpsSpec => []OpsInv
<1>1. OpsInit => OpsInv
  BY InitOpsInv
<1>2. OpsInv /\ [OpsNext]_opsVars => OpsInv'
  BY OpsStepKeepsInv
<1> QED BY <1>1, <1>2, PTL DEF OpsSpec

(* Whatever calls a transaction made, its operations are numbered from     *)
(* startIndex without a gap (client.go:776, 826-835, 875).                 *)
THEOREM OpsAlwaysNumbered == OpsSpec => []OpsNumbered
<1>1. OpsInv => OpsNumbered
  BY DEF OpsInv
<1> QED BY <1>1, OpsInvariant, PTL

(* The index expression ops[len(ops)-1] of the second loop (client.go:875) *)
(* is never evaluated on an empty slice.                                   *)
THEOREM DestructAlwaysHasPredecessor == OpsSpec => []DestructHasPredecessor
<1>1. OpsInv => DestructHasPredecessor
  BY DEF OpsInv
<1> QED BY <1>1, OpsInvariant, PTL

(* The variables of traceOps keep their types, and the second loop visits  *)
(* only keys of the map (client.go:864).                                   *)
THEOREM OpsTypesKept == OpsSpec => []OpsTypeOK
<1>1. OpsInv => OpsTypeOK
  BY DEF OpsInv
<1> QED BY <1>1, OpsInvariant, PTL

-----------------------------------------------------------------------------
(* The replay of the calls, and what holds while the EVM and traceOps run. *)

(* What a call does to the balances.                                       *)
Effect(c, b) ==
    IF c.revert \/ c.type \in CallTypes \ {"CALL"} THEN b
    ELSE IF c.type = "SELFDESTRUCT"
         THEN [Move(b, c.from, c.to, c.value) EXCEPT ![c.from] = 0]
         ELSE Move(b, c.from, c.to, c.value)

(* The balances after each of a list of calls.                             *)
Replayed(cs) ==
    LET after[i \in 0..Len(cs)] ==
            IF i = 0 THEN InitialBalance ELSE Effect(cs[i], after[i-1])
    IN  after

Destructs(c) == c.type = "SELFDESTRUCT" /\ ~c.revert

(* The accounts that have destroyed themselves after n calls.              *)
Gone(cs, n) == {cs[i].from : i \in {j \in 1..n : Destructs(cs[j])}}

(* What the EVM guarantees of the calls it reports: a SELFDESTRUCT has the *)
(* whole balance, and no contract is created where one has destroyed       *)
(* itself.                                                                 *)
CallsInv(cs) ==
    /\ \A i \in 1..Len(cs) :
          /\ cs[i].type \in {"DELEGATECALL", "STATICCALL"} => cs[i].value = 0
          /\ Destructs(cs[i]) => cs[i].value = Replayed(cs)[i-1][cs[i].from]
    /\ \A i, j \in 1..Len(cs) :
          i < j /\ Destructs(cs[i]) /\ cs[j].type \in CreateTypes => cs[i].from # cs[j].to

(* After n calls the world is the one that the calls tell of.              *)
Tells(cs, n, world) == Replayed(cs)[n] = world.bal /\ Gone(cs, n) = world.suicided

(* An open call has no error, and is around all that came after it.        *)
TraceInv(list, open) ==
    /\ \A i \in 1..Len(list) : list[i].within \subseteq 1..(i-1)
    /\ \A k \in 1..Len(open) :
          LET c == open[k].call
          IN  /\ c \in 1..Len(list)
              /\ ~list[c].error
              /\ \A i \in (c+1)..Len(list) : c \in list[i].within
              /\ \A j \in 1..(k-1) : open[j].call < c

WorldInv(world) == world.suicided \subseteq Contracts \cup world.born

(* The calls tell of the world, and, those before an open frame's own, of  *)
(* the snapshot of the frame.                                              *)
Explains(list, open, world) ==
    /\ TraceInv(list, open)
    /\ CallsInv(Flatten(list))
    /\ Tells(Flatten(list), Len(list), world)
    /\ \A k \in 1..Len(open) :
          /\ Tells(Flatten(list), open[k].call - 1, open[k].snapshot)
          /\ WorldInv(open[k].snapshot)

(* While the transaction runs.                                             *)
RunInv ==
    /\ destroyed = {}
    /\ entered = 0 => trace = <<>> /\ frames = <<>>
    /\ Explains(trace, frames, World)

LastBalance == Replayed(calls)[Len(calls)]

LoopInv ==
    /\ destroyed = Gone(calls, at - 1)
    /\ \A a \in destroyed : balance[a] = Replayed(calls)[at - 1][a]
    /\ \A a \in Accounts :
          Total(Credits(ops, a)) = Replayed(calls)[at - 1][a] - InitialBalance[a]

(* The second loop takes away what the destroyed accounts were left with.  *)
TailInv ==
    /\ destroyed = suicided
    /\ \A a \in destroyed : balance[a] = LastBalance[a]
    /\ \A a \in Accounts :
          Total(Credits(ops, a)) =
              (IF a \in destroyed \ todo THEN 0 ELSE LastBalance[a]) - InitialBalance[a]

(* While traceOps runs.                                                    *)
BookInv ==
    /\ CallsInv(calls)
    /\ Gone(calls, Len(calls)) = suicided
    /\ LastBalance \in [Accounts -> Nat]
    /\ bal = [a \in Accounts |-> IF a \in suicided THEN 0 ELSE LastBalance[a]]
    /\ ~RevertedDestruct /\ ~PaidCallCode =>
          /\ stage # "fatal"
          /\ stage = "loop" => LoopInv
          /\ stage \in {"tail", "returned"} => TailInv
          /\ stage = "returned" => todo = {}

(* The inductive invariant.                                                *)
LedgerInv ==
    /\ LedgerTypeOK
    /\ OpsInv
    /\ stage = "idle" => RunInv
    /\ stage # "idle" => BookInv

-----------------------------------------------------------------------------
(* Transfers.                                                              *)
LEMMA EffectTyped ==
    ASSUME NEW c \in FlatCall, NEW b \in [Accounts -> Int]
    PROVE  Effect(c, b) \in [Accounts -> Int]
<1>1. c.from \in Accounts /\ c.to \in Accounts /\ c.value \in Int
  BY DEF FlatCall
<1>2. Move(b, c.from, c.to, c.value) \in [Accounts -> Int]
  BY <1>1 DEF Move
<1> QED BY <1>1, <1>2 DEF Effect

(* What a call does to one account.                                        *)
LEMMA EffectAt ==
    ASSUME NEW c \in FlatCall, NEW b \in [Accounts -> Int], NEW a \in Accounts
    PROVE  /\ c.revert \/ c.type \in CallTypes \ {"CALL"} => Effect(c, b)[a] = b[a]
           /\ ~c.revert /\ c.type \in {"CALL"} \cup CreateTypes =>
                 Effect(c, b)[a] = b[a] - (IF a = c.from THEN c.value ELSE 0)
                                        + (IF a = c.to THEN c.value ELSE 0)
           /\ ~c.revert /\ c.type = "SELFDESTRUCT" =>
                 Effect(c, b)[a] = IF a = c.from THEN 0
                                   ELSE b[a] + (IF a = c.to THEN c.value ELSE 0)
<1>1. c.from \in Accounts /\ c.to \in Accounts /\ c.value \in Int /\ b[a] \in Int
  BY DEF FlatCall
<1>2. Move(b, c.from, c.to, c.value) \in [Accounts -> Int]
  BY <1>1 DEF Move
<1>3. Move(b, c.from, c.to, c.value)[a] =
        b[a] - (IF a = c.from THEN c.value ELSE 0) + (IF a = c.to THEN c.value ELSE 0)
  BY <1>1 DEF Move
<1>4. CASE c.revert \/ c.type \in CallTypes \ {"CALL"}
  BY <1>4 DEF Effect, CallTypes, CreateTypes
<1>5. CASE ~c.revert /\ c.type \in {"CALL"} \cup CreateTypes
  BY <1>3, <1>5 DEF Effect, CallTypes, CreateTypes
<1>6. CASE ~c.revert /\ c.type = "SELFDESTRUCT"
  <2>1. Effect(c, b) = [Move(b, c.from, c.to, c.value) EXCEPT ![c.from] = 0]
    BY <1>6 DEF Effect, CallTypes
  <2>2. Effect(c, b)[a] = IF a = c.from THEN 0 ELSE Move(b, c.from, c.to, c.value)[a]
    BY <1>1, <1>2, <2>1
  <2> QED BY <1>1, <1>3, <1>6, <2>2 DEF CallTypes, CreateTypes
<1> QED BY <1>4, <1>5, <1>6

(* The replay of a list of calls, call by call.                            *)
LEMMA ReplayUnfolds ==
    ASSUME NEW cs \in Seq(FlatCall)
    PROVE  /\ Replayed(cs) \in [0..Len(cs) -> [Accounts -> Int]]
           /\ Replayed(cs)[0] = InitialBalance
           /\ \A i \in 1..Len(cs) : Replayed(cs)[i] = Effect(cs[i], Replayed(cs)[i-1])
<1> DEFINE n == Len(cs)
           B == [Accounts -> Int]
           Run(f) == f = [i \in 0..n |-> IF i = 0 THEN InitialBalance
                                         ELSE Effect(cs[i], f[i-1])]
           F == [i \in 1..n |-> [b \in B |-> Effect(cs[i], b)]]
<1>1. n \in Nat /\ InitialBalance \in B /\ \A i \in 1..n : cs[i] \in FlatCall
  BY LenProperties, ElementOfSeq, LedgerAssumption
<1>2. F \in [1..n -> [B -> B]]
  BY <1>1, EffectTyped
<1>3. \A i \in 1..n, b \in B : F[i][b] = Effect(cs[i], b)
  OBVIOUS
<1> HIDE DEF F, B, n
<1>4. PICK f \in [0..n -> B] : Recursive(f, n, InitialBalance, F)
  BY <1>1, <1>2, Recursion
<1>5. Run(f)
  <2>1. ASSUME NEW i \in 0..n
        PROVE  f[i] = IF i = 0 THEN InitialBalance ELSE Effect(cs[i], f[i-1])
    <3>1. CASE i = 0
      BY <1>4, <3>1 DEF Recursive
    <3>2. CASE i \in 1..n
      <4>1. i - 1 \in 0..n
        BY <1>1, <3>2
      <4> QED BY <1>3, <1>4, <3>2, <4>1 DEF Recursive
    <3> QED BY <1>1, <3>1, <3>2
  <2>2. f = [i \in 0..n |-> f[i]]
    OBVIOUS
  <2> QED BY <2>1, <2>2
<1>6. ASSUME NEW g, Run(g)
      PROVE  /\ g \in [0..n -> B]
             /\ g[0] = InitialBalance
             /\ \A i \in 1..n : g[i] = Effect(cs[i], g[i-1])
  <2> DEFINE T == {i \in 0..n : g[i] \in B}
  <2>1. \A i \in 0..n : g[i] = IF i = 0 THEN InitialBalance ELSE Effect(cs[i], g[i-1])
    BY <1>6
  <2>2. 0 \in T
    BY <1>1, <2>1
  <2>3. ASSUME NEW i \in 1..n, i - 1 \in T PROVE i \in T
    <3>1. i \in 0..n /\ g[i] = Effect(cs[i], g[i-1])
      BY <1>1, <2>1
    <3>2. g[i-1] \in [Accounts -> Int]
      BY <2>3 DEF B
    <3>3. Effect(cs[i], g[i-1]) \in B
      BY <1>1, <3>2, EffectTyped DEF B
    <3> QED BY <3>1, <3>3
  <2> HIDE DEF T
  <2>4. 0..n \subseteq T
    BY <1>1, <2>2, <2>3, Upward
  <2>5. \A i \in 0..n : g[i] \in B
    BY <2>4 DEF T
  <2>6. g \in [0..n -> B]
    BY <1>6, <2>5
  <2>7. g[0] = InitialBalance /\ \A i \in 1..n : g[i] = Effect(cs[i], g[i-1])
    BY <1>1, <2>1
  <2> QED BY <2>6, <2>7
<1>7. Run(CHOOSE g : Run(g))
  <2> HIDE DEF Run
  <2> QED BY <1>5
<1>8. Replayed(cs) = CHOOSE g : Run(g)
  BY DEF Replayed, n
<1> HIDE DEF Run
<1>9. /\ Replayed(cs) \in [0..n -> B]
      /\ Replayed(cs)[0] = InitialBalance
      /\ \A i \in 1..n : Replayed(cs)[i] = Effect(cs[i], Replayed(cs)[i-1])
  BY <1>6, <1>7, <1>8
<1> QED BY <1>9 DEF n, B

(* Lists that begin alike are replayed alike.                              *)
LEMMA ReplayAgrees ==
    ASSUME NEW cs \in Seq(FlatCall), NEW ds \in Seq(FlatCall), NEW n \in Nat,
           n <= Len(cs), n <= Len(ds), \A i \in 1..n : cs[i] = ds[i]
    PROVE  \A i \in 0..n : Replayed(cs)[i] = Replayed(ds)[i] /\ Gone(cs, i) = Gone(ds, i)
<1> DEFINE T == {i \in 0..n : Replayed(cs)[i] = Replayed(ds)[i]}
<1>1. Len(cs) \in Nat /\ Len(ds) \in Nat
  BY LenProperties
<1>2. 0 \in T
  BY ReplayUnfolds
<1>3. ASSUME NEW i \in 1..n, i - 1 \in T PROVE i \in T
  <2>1. i \in 1..Len(cs) /\ i \in 1..Len(ds) /\ cs[i] = ds[i] /\ i \in 0..n
    BY <1>1
  <2>2. Replayed(cs)[i-1] = Replayed(ds)[i-1]
    BY <1>3
  <2>3. /\ Replayed(cs)[i] = Effect(cs[i], Replayed(cs)[i-1])
        /\ Replayed(ds)[i] = Effect(ds[i], Replayed(ds)[i-1])
    BY <2>1, ReplayUnfolds
  <2> QED BY <2>1, <2>2, <2>3
<1> HIDE DEF T
<1>4. 0..n \subseteq T
  BY <1>2, <1>3, Upward
<1>5. \A i \in 0..n : Gone(cs, i) = Gone(ds, i)
  <2> TAKE i \in 0..n
  <2>1. \A j \in 1..i : cs[j] = ds[j]
    OBVIOUS
  <2> QED BY <2>1 DEF Gone
<1> QED BY <1>4, <1>5 DEF T

(* Calls that reverted change nothing.                                     *)
LEMMA ReplayStays ==
    ASSUME NEW cs \in Seq(FlatCall), NEW n \in 0..Len(cs),
           \A i \in (n+1)..Len(cs) : cs[i].revert
    PROVE  Replayed(cs)[Len(cs)] = Replayed(cs)[n] /\ Gone(cs, Len(cs)) = Gone(cs, n)
<1> DEFINE T == {i \in 0..(Len(cs) - n) : Replayed(cs)[n + i] = Replayed(cs)[n]}
<1>1. Len(cs) \in Nat /\ n \in Nat /\ Len(cs) - n \in Nat
  BY LenProperties
<1>2. 0 \in T
  BY <1>1
<1>3. ASSUME NEW i \in 1..(Len(cs) - n), i - 1 \in T PROVE i \in T
  <2>1. /\ n + i \in 1..Len(cs) /\ n + i \in (n+1)..Len(cs) /\ n + (i - 1) = n + i - 1
        /\ i \in 0..(Len(cs) - n)
    BY <1>1
  <2>2. Replayed(cs)[n + i] = Effect(cs[n + i], Replayed(cs)[n + i - 1])
    BY <2>1, ReplayUnfolds
  <2>3. Effect(cs[n + i], Replayed(cs)[n + i - 1]) = Replayed(cs)[n + i - 1]
    BY <2>1 DEF Effect
  <2> QED BY <1>3, <2>1, <2>2, <2>3
<1> HIDE DEF T
<1>4. 0..(Len(cs) - n) \subseteq T
  BY <1>1, <1>2, <1>3, Upward
<1>5. Len(cs) - n \in T /\ n + (Len(cs) - n) = Len(cs)
  BY <1>1, <1>4
<1>6. {j \in 1..Len(cs) : Destructs(cs[j])} = {j \in 1..n : Destructs(cs[j])}
  BY <1>1 DEF Destructs
<1> QED BY <1>5, <1>6 DEF T, Gone

(* One more call: one more account is gone, if it destroys itself.         *)
LEMMA GoneStep ==
    ASSUME NEW cs, NEW n \in Nat
    PROVE  Gone(cs, n + 1) = Gone(cs, n) \cup {cs[i].from : i \in {j \in {n + 1} : Destructs(cs[j])}}
<1>1. {j \in 1..(n+1) : Destructs(cs[j])}
        = {j \in 1..n : Destructs(cs[j])} \cup {j \in {n + 1} : Destructs(cs[j])}
  OBVIOUS
<1> QED BY <1>1 DEF Gone

-----------------------------------------------------------------------------
(* The flattened trace.                                                    *)
LEMMA FlattenTyped ==
    ASSUME NEW list \in Seq(TracedCall)
    PROVE  /\ Flatten(list) \in Seq(FlatCall)
           /\ Len(Flatten(list)) = Len(list)
           /\ \A i \in 1..Len(list) : Flatten(list)[i] = Flat(list[i], Reverted(list, i))
<1>1. Len(list) \in Nat /\ \A i \in 1..Len(list) : list[i] \in TracedCall
  BY LenProperties, ElementOfSeq
<1>2. \A i \in 1..Len(list) : Reverted(list, i) \in BOOLEAN
  BY <1>1 DEF Reverted, TracedCall
<1>3. \A i \in 1..Len(list) : Flat(list[i], Reverted(list, i)) \in FlatCall
  BY <1>1, <1>2 DEF Flat, FlatCall, TracedCall
<1> QED BY <1>1, <1>3 DEF Flatten

(* The calls so far are flattened as before when one more begins.          *)
FlattenedWith(list, node) ==
    LET more == Append(list, node)
        n    == Len(list)
    IN  /\ more \in Seq(TracedCall) /\ Len(more) = n + 1
        /\ \A i \in 1..n : more[i] = list[i]
        /\ more[n + 1] = node
        /\ \A i \in 1..n : Flatten(more)[i] = Flatten(list)[i]
        /\ Flatten(more)[n + 1] = Flat(node, FALSE)

(* A call that has no error, inside of calls that have none.               *)
LEMMA FlattenAppend ==
    ASSUME NEW list \in Seq(TracedCall), NEW node \in TracedCall,
           \A i \in 1..Len(list) : list[i].within \subseteq 1..(i-1),
           node.within \subseteq 1..Len(list),
           ~node.error, \A j \in node.within : ~list[j].error
    PROVE  FlattenedWith(list, node)
<1> DEFINE n == Len(list)
           more == Append(list, node)
<1>1. /\ n \in Nat
      /\ more \in Seq(TracedCall) /\ Len(more) = n + 1
      /\ \A i \in 1..n : more[i] = list[i]
      /\ more[n + 1] = node
  BY LenProperties, AppendProperties
<1> HIDE DEF more, n
<1>2. ASSUME NEW i \in 1..n PROVE Reverted(more, i) = Reverted(list, i)
  <2>1. \A j \in list[i].within : j \in 1..n
    BY <1>1 DEF n
  <2> QED BY <1>1, <2>1 DEF Reverted
<1>3. Reverted(more, n + 1) = FALSE
  <2>1. \A j \in node.within : more[j] = list[j]
    BY <1>1 DEF n
  <2> QED BY <1>1, <2>1 DEF Reverted
<1>4. \A i \in 1..n : Flatten(more)[i] = Flatten(list)[i]
  BY <1>1, <1>2, FlattenTyped DEF n
<1>5. Flatten(more)[n + 1] = Flat(node, FALSE)
  <2>1. n + 1 \in 1..Len(more)
    BY <1>1
  <2>2. Flatten(more)[n + 1] = Flat(more[n + 1], Reverted(more, n + 1))
    BY <2>1, <1>1, FlattenTyped
  <2> QED BY <2>2, <1>1, <1>3
<1> QED BY <1>1, <1>4, <1>5 DEF FlattenedWith, more, n

(* One more call: the replay goes one step further.                        *)
LEMMA AppendExplains ==
    ASSUME NEW list \in Seq(TracedCall), NEW open \in Seq(OpenFrame),
           NEW world, NEW after, NEW node \in TracedCall,
           Explains(list, open, world), WorldInv(world), world.bal \in [Accounts -> Int],
           ~node.error, node.within = {open[k].call : k \in 1..Len(open)},
           node.type \in {"DELEGATECALL", "STATICCALL"} => node.value = 0,
           node.type \in CreateTypes => node.to \notin world.suicided,
           node.type = "SELFDESTRUCT" => node.value = world.bal[node.from],
           after.bal = Effect(Flat(node, FALSE), world.bal),
           after.suicided = world.suicided \cup
               (IF node.type = "SELFDESTRUCT" THEN {node.from} ELSE {})
    PROVE  /\ Explains(Append(list, node), open, after)
           /\ Tells(Flatten(Append(list, node)), Len(list), world)
<1> DEFINE n == Len(list)
           more == Append(list, node)
           F == Flatten(list)
           G == Flatten(more)
<1>1. /\ TraceInv(list, open) /\ CallsInv(F) /\ Tells(F, n, world)
      /\ \A k \in 1..Len(open) : Tells(F, open[k].call - 1, open[k].snapshot)
                                   /\ WorldInv(open[k].snapshot)
  BY DEF Explains
<1>2. /\ \A j \in node.within : j \in 1..n /\ ~list[j].error
      /\ \A i \in 1..n : list[i].within \subseteq 1..(i-1)
  BY <1>1 DEF TraceInv
<1>3. /\ more \in Seq(TracedCall) /\ Len(more) = n + 1
      /\ \A i \in 1..n : more[i] = list[i]
      /\ more[n + 1] = node
      /\ \A i \in 1..n : G[i] = F[i]
      /\ G[n + 1] = Flat(node, FALSE)
  <2>1. /\ node.within \subseteq 1..Len(list)
        /\ \A j \in node.within : ~list[j].error
        /\ \A i \in 1..Len(list) : list[i].within \subseteq 1..(i-1)
    BY <1>2
  <2> HIDE DEF F, G, more, n
  <2>2. FlattenedWith(list, node)
    BY <2>1, FlattenAppend
  <2> QED BY <2>2 DEF FlattenedWith, F, G, more, n
<1>4. /\ n \in Nat
      /\ F \in Seq(FlatCall) /\ Len(F) = n
      /\ G \in Seq(FlatCall) /\ Len(G) = n + 1
  BY <1>3, LenProperties, FlattenTyped
<1> HIDE DEF more, F, G, n
<1>5. \A i \in 0..n : Replayed(F)[i] = Replayed(G)[i] /\ Gone(F, i) = Gone(G, i)
  <2>1. n <= Len(F) /\ n <= Len(G) /\ \A i \in 1..n : F[i] = G[i]
    BY <1>3, <1>4
  <2> QED BY <2>1, <1>4, ReplayAgrees
<1>6. Replayed(G)[n] = world.bal /\ Gone(G, n) = world.suicided
  BY <1>1, <1>4, <1>5 DEF Tells
<1>7. Replayed(G)[n + 1] = after.bal
  <2>1. Replayed(G)[n + 1] = Effect(G[n + 1], Replayed(G)[n])
    <3>1. \A i \in 1..Len(G) : Replayed(G)[i] = Effect(G[i], Replayed(G)[i-1])
      BY <1>4, ReplayUnfolds
    <3> DEFINE i == n + 1
    <3>2. i \in 1..Len(G) /\ i - 1 = n
      BY <1>4
    <3> HIDE DEF i
    <3>3. Replayed(G)[i] = Effect(G[i], Replayed(G)[n])
      BY <3>1, <3>2
    <3> QED BY <3>3 DEF i
  <2> QED BY <2>1, <1>3, <1>6
<1>8. Destructs(G[n + 1]) <=> node.type = "SELFDESTRUCT"
  BY <1>3 DEF Destructs, Flat
<1>9. Gone(G, n + 1) = after.suicided
  <2>1. G[n + 1].from = node.from
    BY <1>3 DEF Flat
  <2>2. Gone(G, n + 1) = Gone(G, n) \cup {G[i].from : i \in {j \in {n + 1} : Destructs(G[j])}}
    BY <1>4, GoneStep
  <2> QED BY <2>1, <2>2, <1>6, <1>8
<1>10. Tells(G, n + 1, after) /\ Tells(G, n, world)
  BY <1>6, <1>7, <1>9 DEF Tells
<1>11. \A k \in 1..Len(open) : Tells(G, open[k].call - 1, open[k].snapshot)
  <2> TAKE k \in 1..Len(open)
  <2>1. open[k].call - 1 \in 0..n
    BY <1>1, <1>4 DEF TraceInv, n
  <2> QED BY <2>1, <1>1, <1>5 DEF Tells
<1>12. TraceInv(more, open)
  <2>1. ASSUME NEW i \in 1..(n + 1) PROVE more[i].within \subseteq 1..(i-1)
    <3>1. CASE i \in 1..n
      BY <3>1, <1>2, <1>3
    <3>2. CASE i = n + 1
      BY <3>2, <1>2, <1>3, <1>4
    <3> QED BY <3>1, <3>2, <1>4
  <2>2. ASSUME NEW k \in 1..Len(open)
        PROVE  /\ open[k].call \in 1..(n + 1)
               /\ ~more[open[k].call].error
               /\ \A i \in (open[k].call + 1)..(n + 1) : open[k].call \in more[i].within
               /\ \A j \in 1..(k-1) : open[j].call < open[k].call
    <3> DEFINE c == open[k].call
    <3>1. /\ c \in 1..n /\ ~list[c].error
          /\ \A i \in (c+1)..n : c \in list[i].within
          /\ \A j \in 1..(k-1) : open[j].call < c
      BY <1>1 DEF TraceInv, n
    <3>2. c \in node.within
      OBVIOUS
    <3> HIDE DEF c
    <3>3. ASSUME NEW i \in (c + 1)..(n + 1) PROVE c \in more[i].within
      <4>1. CASE i \in (c+1)..n
        <5>1. i \in 1..n
          BY <4>1, <3>1
        <5> QED BY <4>1, <5>1, <3>1, <1>3
      <4>2. CASE i = n + 1
        BY <4>2, <3>2, <1>3
      <4> QED BY <4>1, <4>2, <3>1, <1>4
    <3>4. c \in 1..(n + 1) /\ ~more[c].error
      BY <3>1, <1>3, <1>4
    <3> QED BY <3>1, <3>3, <3>4 DEF c
  <2> QED BY <2>1, <2>2, <1>3 DEF TraceInv
<1>13. CallsInv(G)
  <2>1. ASSUME NEW i \in 1..(n + 1)
        PROVE  /\ G[i].type \in {"DELEGATECALL", "STATICCALL"} => G[i].value = 0
               /\ Destructs(G[i]) => G[i].value = Replayed(G)[i-1][G[i].from]
    <3>1. CASE i \in 1..n
      <4>1. i - 1 \in 0..n /\ i \in 1..Len(F) /\ G[i] = F[i]
        BY <3>1, <1>3, <1>4
      <4>2. /\ F[i].type \in {"DELEGATECALL", "STATICCALL"} => F[i].value = 0
            /\ Destructs(F[i]) => F[i].value = Replayed(F)[i-1][F[i].from]
        BY <4>1, <1>1 DEF CallsInv
      <4> QED BY <4>1, <4>2, <1>5
    <3>2. CASE i = n + 1
      <4>1. i - 1 = n
        BY <3>2, <1>4
      <4>2. G[i].type = node.type /\ G[i].value = node.value /\ G[i].from = node.from
        BY <3>2, <1>3 DEF Flat
      <4>3. Replayed(G)[i-1] = world.bal
        BY <4>1, <1>6
      <4> QED BY <3>2, <4>2, <4>3, <1>8
    <3> QED BY <3>1, <3>2, <1>4
  <2>2. ASSUME NEW i \in 1..(n + 1), NEW j \in 1..(n + 1), i < j, Destructs(G[i]),
               G[j].type \in CreateTypes
        PROVE  G[i].from # G[j].to
    <3>1. i \in 1..n /\ G[i] = F[i]
      BY <2>2, <1>3, <1>4
    <3>2. CASE j \in 1..n
      BY <2>2, <3>1, <3>2, <1>1, <1>3, <1>4 DEF CallsInv
    <3>3. CASE j = n + 1
      <4>1. G[i].from \in Gone(G, n)
        BY <2>2, <3>1 DEF Gone
      <4>2. G[j].type = node.type /\ G[j].to = node.to
        BY <3>3, <1>3 DEF Flat
      <4> QED BY <2>2, <4>1, <4>2, <1>6
    <3> QED BY <3>2, <3>3, <1>4
  <2> QED BY <2>1, <2>2, <1>4 DEF CallsInv
<1>14. Explains(more, open, after)
  BY <1>1, <1>3, <1>10, <1>11, <1>12, <1>13 DEF Explains, G
<1> QED BY <1>10, <1>14 DEF more, G, n

-----------------------------------------------------------------------------
(* Frames.  The frame of a call that begins joins the open ones, with the  *)
(* world before the call as its snapshot.                                  *)
LEMMA PushExplains ==
    ASSUME NEW list \in Seq(TracedCall), NEW open \in Seq(OpenFrame),
           NEW node \in TracedCall, NEW frame \in OpenFrame, NEW after,
           Explains(Append(list, node), open, after),
           \A k \in 1..Len(open) : open[k].call \in 1..Len(list),
           ~node.error, frame.call = Len(list) + 1,
           Tells(Flatten(Append(list, node)), Len(list), frame.snapshot),
           WorldInv(frame.snapshot)
    PROVE  Explains(Append(list, node), Append(open, frame), after)
<1> DEFINE n == Len(list)
           m == Len(open)
           more == Append(list, node)
           wide == Append(open, frame)
<1>1. /\ n \in Nat /\ m \in Nat
      /\ Len(more) = n + 1 /\ more[n + 1] = node
      /\ Len(wide) = m + 1 /\ wide[m + 1] = frame
      /\ \A k \in 1..m : wide[k] = open[k] /\ open[k].call \in 1..n
  BY LenProperties, AppendProperties
<1>2. /\ TraceInv(more, open) /\ CallsInv(Flatten(more))
      /\ Tells(Flatten(more), Len(more), after)
      /\ \A k \in 1..m : Tells(Flatten(more), open[k].call - 1, open[k].snapshot)
                           /\ WorldInv(open[k].snapshot)
  BY DEF Explains
<1>3. frame.call = n + 1 /\ Tells(Flatten(more), n, frame.snapshot)
  OBVIOUS
<1> HIDE DEF more, wide, n, m
<1>4. ASSUME NEW k \in 1..(m + 1)
      PROVE  LET c == wide[k].call
             IN  /\ c \in 1..(n + 1)
                 /\ ~more[c].error
                 /\ \A i \in (c+1)..(n + 1) : c \in more[i].within
                 /\ \A j \in 1..(k-1) : wide[j].call < c
  <2>1. CASE k \in 1..m
    <3>1. \A j \in 1..(k-1) : j \in 1..m
      BY <2>1, <1>1
    <3> QED BY <2>1, <3>1, <1>1, <1>2 DEF TraceInv, m
  <2>2. CASE k = m + 1
    <3>1. wide[k].call = n + 1
      BY <2>2, <1>1, <1>3
    <3>2. \A j \in 1..(k-1) : j \in 1..m
      BY <2>2, <1>1
    <3>3. \A j \in 1..(k-1) : wide[j].call < n + 1
      BY <3>2, <1>1
    <3>4. \A i \in (n + 1 + 1)..(n + 1) : FALSE
      BY <1>1
    <3> QED BY <3>1, <3>3, <3>4, <1>1
  <2> QED BY <2>1, <2>2, <1>1
<1>5. TraceInv(more, wide)
  BY <1>1, <1>2, <1>4 DEF TraceInv
<1>6. ASSUME NEW k \in 1..(m + 1)
      PROVE  Tells(Flatten(more), wide[k].call - 1, wide[k].snapshot) /\ WorldInv(wide[k].snapshot)
  <2>1. CASE k \in 1..m
    BY <2>1, <1>1, <1>2
  <2>2. CASE k = m + 1
    <3>1. wide[k] = frame
      BY <2>2, <1>1
    <3>2. frame.call - 1 = n
      BY <1>1, <1>3
    <3> QED BY <3>1, <3>2, <1>3
  <2> QED BY <2>1, <2>2, <1>1
<1> QED BY <1>1, <1>2, <1>5, <1>6 DEF Explains, more, wide

(* The frames around the one that ends.                                    *)
LEMMA FrontProperties ==
    ASSUME NEW open \in Seq(OpenFrame), open # <<>>
    PROVE  /\ Len(open) \in Nat \ {0}
           /\ SubSeq(open, 1, Len(open) - 1) \in Seq(OpenFrame)
           /\ Len(SubSeq(open, 1, Len(open) - 1)) = Len(open) - 1
           /\ \A k \in 1..(Len(open) - 1) : SubSeq(open, 1, Len(open) - 1)[k] = open[k]
<1> DEFINE m == Len(open)
<1>1. m \in Nat \ {0} /\ \A k \in 1..m : open[k] \in OpenFrame
  BY LenProperties, ElementOfSeq, EmptySeq
<1> HIDE DEF m
<1>2. m - 1 \in Int /\ \A k \in 1..(m-1) : open[k] \in OpenFrame
  BY <1>1
<1>3. /\ SubSeq(open, 1, m - 1) \in Seq(OpenFrame)
      /\ Len(SubSeq(open, 1, m - 1)) = IF 1 <= m - 1 THEN m - 1 - 1 + 1 ELSE 0
      /\ \A k \in 1..(m - 1 - 1 + 1) : SubSeq(open, 1, m - 1)[k] = open[1 + k - 1]
  BY <1>2, SubSeqProperties
<1>4. Len(SubSeq(open, 1, m - 1)) = m - 1
  BY <1>1, <1>3
<1>5. ASSUME NEW k \in 1..(m-1) PROVE SubSeq(open, 1, m - 1)[k] = open[k]
  <2>1. m - 1 - 1 + 1 = m - 1 /\ 1 + k - 1 = k
    BY <1>1
  <2> QED BY <2>1, <1>3
<1> QED BY <1>1, <1>3, <1>4, <1>5 DEF m

(* A frame that ends well leaves the others as they are.                   *)
LEMMA PopExplains ==
    ASSUME NEW list \in Seq(TracedCall), NEW open \in Seq(OpenFrame), NEW world,
           open # <<>>, Explains(list, open, world)
    PROVE  Explains(list, SubSeq(open, 1, Len(open) - 1), world)
<1> DEFINE front == SubSeq(open, 1, Len(open) - 1)
<1>1. /\ Len(front) = Len(open) - 1 /\ Len(open) \in Nat
      /\ \A k \in 1..(Len(open) - 1) : front[k] = open[k]
  BY FrontProperties
<1>2. \A k \in 1..(Len(open) - 1) :
        k \in 1..Len(open) /\ \A j \in 1..(k-1) : j \in 1..(Len(open) - 1)
  BY <1>1
<1> HIDE DEF front
<1>3. /\ TraceInv(list, open) /\ CallsInv(Flatten(list))
      /\ Tells(Flatten(list), Len(list), world)
      /\ \A k \in 1..Len(open) : Tells(Flatten(list), open[k].call - 1, open[k].snapshot)
                                   /\ WorldInv(open[k].snapshot)
  BY DEF Explains
<1>4. ASSUME NEW k \in 1..(Len(open) - 1)
      PROVE  LET c == front[k].call
             IN  /\ c \in 1..Len(list)
                 /\ ~list[c].error
                 /\ \A i \in (c+1)..Len(list) : c \in list[i].within
                 /\ \A j \in 1..(k-1) : front[j].call < c
  <2>1. k \in 1..Len(open) /\ front[k] = open[k]
    BY <1>1, <1>2
  <2>2. \A j \in 1..(k-1) : front[j] = open[j]
    BY <1>1, <1>2
  <2> QED BY <2>1, <2>2, <1>3 DEF TraceInv
<1>5. TraceInv(list, front)
  BY <1>1, <1>3, <1>4 DEF TraceInv
<1> QED BY <1>1, <1>2, <1>3, <1>5 DEF Explains, front

(* What exit and result write into call c: the error and the address.      *)
Ended(call, c, error) ==
    [call EXCEPT !.error = error,
                 !.to = IF error /\ call.type \in CreateTypes /\ c # 1
                        THEN ZeroAddress ELSE @]

(* exit and result write into one call.                                    *)
LEMMA ExitProperties ==
    ASSUME NEW list \in Seq(TracedCall), NEW c \in 1..Len(list), NEW error \in BOOLEAN
    PROVE  /\ Exit(list, c, error) \in Seq(TracedCall)
           /\ Len(Exit(list, c, error)) = Len(list)
           /\ \A i \in 1..Len(list) : i # c => Exit(list, c, error)[i] = list[i]
           /\ Exit(list, c, error)[c] = Ended(list[c], c, error)
<1> DEFINE last == Ended(list[c], c, error)
<1>1. /\ Len(list) \in Nat /\ list \in [1..Len(list) -> TracedCall]
      /\ list[c] \in TracedCall /\ ZeroAddress \in Accounts
  BY LenProperties, ElementOfSeq, LedgerAssumption
<1>2. last \in TracedCall
  BY <1>1 DEF TracedCall, Ended
<1>3. Exit(list, c, error) = [list EXCEPT ![c] = last]
  BY <1>1 DEF Exit, TracedCall, Ended
<1> HIDE DEF last
<1>4. [list EXCEPT ![c] = last] \in Seq(TracedCall)
  BY <1>2, ExceptSeq
<1>5. Len([list EXCEPT ![c] = last]) = Len(list)
  BY <1>2, ExceptSeq
<1>6. /\ [list EXCEPT ![c] = last][c] = last
      /\ \A i \in 1..Len(list) : i # c => [list EXCEPT ![c] = last][i] = list[i]
  BY <1>1
<1> QED BY <1>3, <1>4, <1>5, <1>6 DEF last

(* A call that returned had no error, and gets none.                       *)
LEMMA ExitWell ==
    ASSUME NEW list \in Seq(TracedCall), NEW c \in 1..Len(list), ~list[c].error
    PROVE  Exit(list, c, FALSE) = list
<1>1. list[c] \in TracedCall /\ list \in [1..Len(list) -> TracedCall]
  BY LenProperties, ElementOfSeq
<1>2. list[c].error = FALSE
  BY <1>1 DEF TracedCall
<1> QED BY <1>1, <1>2 DEF Exit, TracedCall

(* A frame that fails: its call and all calls since have reverted, so the  *)
(* replay is back at the frame's snapshot.                                 *)
LEMMA UndoExplains ==
    ASSUME NEW list \in Seq(TracedCall), NEW open \in Seq(OpenFrame), NEW world,
           open # <<>>, Explains(list, open, world)
    PROVE  LET top == open[Len(open)]
           IN  Explains(Exit(list, top.call, TRUE), SubSeq(open, 1, Len(open) - 1),
                        top.snapshot)
<1> DEFINE m == Len(open)
           n == Len(list)
           top == open[m]
           c == top.call
           left == Exit(list, c, TRUE)
           front == SubSeq(open, 1, m - 1)
           F == Flatten(list)
           G == Flatten(left)
<1>1. /\ TraceInv(list, open) /\ CallsInv(F) /\ Tells(F, n, world)
      /\ \A k \in 1..m : Tells(F, open[k].call - 1, open[k].snapshot)
                           /\ WorldInv(open[k].snapshot)
  BY DEF Explains
<1>2. /\ m \in Nat \ {0} /\ n \in Nat /\ m \in 1..m
      /\ Len(front) = m - 1
      /\ \A k \in 1..(m - 1) : k \in 1..m /\ front[k] = open[k]
  BY FrontProperties, LenProperties
<1>3. /\ \A i \in 1..n : list[i] \in TracedCall /\ list[i].within \subseteq 1..(i-1)
      /\ c \in 1..n
      /\ \A i \in (c+1)..n : c \in list[i].within
      /\ \A j \in 1..(m-1) : open[j].call < c
  BY <1>1, <1>2, ElementOfSeq DEF TraceInv
<1>4. /\ left \in Seq(TracedCall) /\ Len(left) = n
      /\ \A i \in 1..n : i # c => left[i] = list[i]
      /\ left[c] = [list[c] EXCEPT !.error = TRUE,
                                   !.to = IF list[c].type \in CreateTypes /\ c # 1
                                          THEN ZeroAddress ELSE @]
  <2>1. c \in 1..Len(list) /\ TRUE \in BOOLEAN
    BY <1>3
  <2> HIDE DEF c
  <2>2. /\ Exit(list, c, TRUE) \in Seq(TracedCall)
        /\ Len(Exit(list, c, TRUE)) = Len(list)
        /\ \A i \in 1..Len(list) : i # c => Exit(list, c, TRUE)[i] = list[i]
        /\ Exit(list, c, TRUE)[c] = Ended(list[c], c, TRUE)
    BY <2>1, ExitProperties
  <2> QED BY <2>2 DEF Ended
<1>5. \A k \in 1..(m-1) : open[k].call \in 1..n /\ ~list[open[k].call].error
                            /\ \A i \in (open[k].call+1)..n : open[k].call \in list[i].within
  BY <1>1, <1>2 DEF TraceInv
<1>6. Tells(F, c - 1, top.snapshot) /\ WorldInv(top.snapshot)
  BY <1>1, <1>2
<1>7. top.snapshot.born \subseteq Unborn
  <2>1. top \in OpenFrame
    BY <1>2, ElementOfSeq
  <2> QED BY <2>1 DEF OpenFrame, Worlds
<1>8. /\ F \in Seq(FlatCall) /\ Len(F) = n
      /\ \A i \in 1..n : F[i] = Flat(list[i], Reverted(list, i))
  BY FlattenTyped
<1>9. /\ G \in Seq(FlatCall) /\ Len(G) = n
      /\ \A i \in 1..n : G[i] = Flat(left[i], Reverted(left, i))
  <2> HIDE DEF left
  <2> QED BY <1>4, FlattenTyped
<1> HIDE DEF m, n, top, left, front, F, G
<1>10. c \in Nat /\ c >= 1 /\ c <= n
  BY <1>2, <1>3
<1> HIDE DEF c
<1>11. \A i \in 1..n : /\ left[i].within = list[i].within
                       /\ left[i].type = list[i].type
                       /\ left[i].from = list[i].from
                       /\ left[i].value = list[i].value
                       /\ left[i].to \in {list[i].to, ZeroAddress}
  <2>1. /\ left[c].within = list[c].within /\ left[c].type = list[c].type
        /\ left[c].from = list[c].from /\ left[c].value = list[c].value
        /\ left[c].to \in {list[c].to, ZeroAddress}
    BY <1>3, <1>4 DEF TracedCall
  <2> QED BY <2>1, <1>4
<1>12. left[c].error
  BY <1>3, <1>4 DEF TracedCall
<1>13. ASSUME NEW i \in 1..(c-1) PROVE i \in 1..n /\ G[i] = F[i]
  <2>1. i \in 1..n /\ i # c /\ \A j \in list[i].within : j \in 1..n /\ j # c
    BY <1>2, <1>3, <1>10
  <2>2. left[i] = list[i] /\ \A j \in list[i].within : left[j] = list[j]
    BY <2>1, <1>4
  <2>3. Reverted(left, i) = Reverted(list, i)
    BY <2>2 DEF Reverted
  <2> QED BY <2>1, <2>2, <2>3, <1>8, <1>9
<1>14. ASSUME NEW i \in c..n PROVE i \in 1..n /\ G[i].revert
  <2>1. i \in 1..n
    BY <1>10
  <2>2. Reverted(left, i)
    <3>1. CASE i = c
      BY <3>1, <1>12 DEF Reverted
    <3>2. CASE i \in (c+1)..n
      BY <3>2, <2>1, <1>3, <1>11, <1>12 DEF Reverted
    <3> QED BY <3>1, <3>2, <1>10
  <2> QED BY <2>1, <2>2, <1>9 DEF Flat
<1>15. \A i \in 0..(c-1) : Replayed(F)[i] = Replayed(G)[i] /\ Gone(F, i) = Gone(G, i)
  <2>1. c - 1 \in Nat /\ c - 1 <= Len(F) /\ c - 1 <= Len(G)
    BY <1>2, <1>8, <1>9, <1>10
  <2>2. \A i \in 1..(c-1) : F[i] = G[i]
    BY <1>13
  <2> QED BY <2>1, <2>2, <1>8, <1>9, ReplayAgrees
<1>16. Replayed(G)[n] = Replayed(G)[c-1] /\ Gone(G, n) = Gone(G, c - 1)
  <2>1. c - 1 \in 0..Len(G) /\ c - 1 + 1 = c
    BY <1>2, <1>9, <1>10
  <2>2. \A i \in (c-1+1)..Len(G) : G[i].revert
    BY <2>1, <1>9, <1>14
  <2> QED BY <2>1, <2>2, <1>9, ReplayStays
<1>17. Tells(G, n, top.snapshot)
  <2>1. c - 1 \in 0..(c-1)
    BY <1>10
  <2> QED BY <2>1, <1>6, <1>15, <1>16 DEF Tells
<1>18. ASSUME NEW k \in 1..(m-1)
       PROVE  Tells(G, open[k].call - 1, open[k].snapshot) /\ WorldInv(open[k].snapshot)
  <2>1. open[k].call - 1 \in 0..(c-1)
    BY <1>2, <1>3, <1>5, <1>10
  <2>2. Tells(F, open[k].call - 1, open[k].snapshot) /\ WorldInv(open[k].snapshot)
    BY <1>1, <1>2
  <2> QED BY <2>1, <2>2, <1>15 DEF Tells
<1>19. CallsInv(G)
  <2>1. ASSUME NEW i \in 1..n
        PROVE  /\ G[i].type = F[i].type /\ G[i].value = F[i].value
               /\ G[i].from = F[i].from
               /\ G[i].to \in {F[i].to, ZeroAddress}
    <3>1. /\ F[i].type = list[i].type /\ F[i].value = list[i].value
          /\ F[i].from = list[i].from /\ F[i].to = list[i].to
      BY <1>8 DEF Flat
    <3>2. /\ G[i].type = left[i].type /\ G[i].value = left[i].value
          /\ G[i].from = left[i].from /\ G[i].to = left[i].to
      BY <1>9 DEF Flat
    <3> QED BY <3>1, <3>2, <1>11
  <2>2. \A i \in 1..n : Destructs(G[i]) => i \in 1..(c-1) /\ Destructs(F[i])
    <3> SUFFICES ASSUME NEW i \in 1..n, Destructs(G[i])
                 PROVE  i \in 1..(c-1) /\ Destructs(F[i])
      OBVIOUS
    <3>1. i \notin c..n
      BY <1>14 DEF Destructs
    <3>2. i \in 1..(c-1)
      BY <3>1, <1>10
    <3> QED BY <3>2, <1>13
  <2>3. ASSUME NEW i \in 1..n
        PROVE  /\ G[i].type \in {"DELEGATECALL", "STATICCALL"} => G[i].value = 0
               /\ Destructs(G[i]) => G[i].value = Replayed(G)[i-1][G[i].from]
    <3>1. /\ F[i].type \in {"DELEGATECALL", "STATICCALL"} => F[i].value = 0
          /\ Destructs(F[i]) => F[i].value = Replayed(F)[i-1][F[i].from]
      BY <1>1, <1>8 DEF CallsInv
    <3>2. CASE Destructs(G[i])
      <4>1. Destructs(F[i]) /\ i - 1 \in 0..(c-1)
        BY <3>2, <2>2, <1>10
      <4> QED BY <4>1, <3>1, <2>1, <1>15
    <3> QED BY <3>1, <3>2, <2>1
  <2>4. ASSUME NEW i \in 1..n, NEW j \in 1..n, i < j, Destructs(G[i]),
               G[j].type \in CreateTypes
        PROVE  G[i].from # G[j].to
    <3>1. i \in 1..(c-1) /\ Destructs(F[i]) /\ F[j].type \in CreateTypes
      BY <2>4, <2>1, <2>2
    <3>2. F[i].from # F[j].to
      BY <3>1, <2>4, <1>1, <1>8 DEF CallsInv
    <3>3. F[i].from \in Gone(F, c - 1)
      BY <3>1 DEF Gone
    <3>4. F[i].from \in Contracts \cup Unborn
      BY <3>3, <1>6, <1>7 DEF Tells, WorldInv
    <3>5. F[i].from # ZeroAddress
      BY <3>4, LedgerAssumption
    <3> QED BY <3>2, <3>5, <2>1
  <2> QED BY <2>3, <2>4, <1>9 DEF CallsInv
<1>20. TraceInv(left, front)
  <2>1. ASSUME NEW k \in 1..(m-1)
        PROVE  LET d == front[k].call
               IN  /\ d \in 1..n
                   /\ ~left[d].error
                   /\ \A i \in (d+1)..n : d \in left[i].within
                   /\ \A j \in 1..(k-1) : front[j].call < d
    <3> DEFINE d == open[k].call
    <3>0. \A j \in 1..(k-1) : open[j].call < d
      BY <1>1, <1>2 DEF TraceInv, m
    <3>1. d \in 1..n /\ d < c /\ ~list[d].error
      BY <1>3, <1>5
    <3>2. ~left[d].error
      BY <3>1, <1>4, <1>10
    <3>3. \A i \in (d+1)..n : d \in left[i].within
      <4> TAKE i \in (d+1)..n
      <4>1. i \in 1..n
        BY <3>1
      <4> QED BY <4>1, <1>5, <1>11
    <3>4. \A j \in 1..(k-1) : front[j].call < d
      <4> TAKE j \in 1..(k-1)
      <4>1. front[j] = open[j]
        BY <1>2
      <4> QED BY <4>1, <3>0
    <3> QED BY <3>1, <3>2, <3>3, <3>4, <1>2
  <2>2. \A i \in 1..n : left[i].within \subseteq 1..(i-1)
    BY <1>3, <1>11
  <2> QED BY <2>1, <2>2, <1>2, <1>4 DEF TraceInv
<1>21. Explains(left, front, top.snapshot)
  BY <1>2, <1>4, <1>17, <1>18, <1>19, <1>20 DEF Explains, G
<1> QED BY <1>21 DEF left, front, top, c, m

-----------------------------------------------------------------------------
(* The transaction runs.  A transfer of what an account has leaves no debt. *)
LEMMA MoveTyped ==
    ASSUME NEW b \in [Accounts -> Nat], NEW from \in Accounts, NEW to \in Accounts,
           NEW v \in Nat, v <= b[from]
    PROVE  Move(b, from, to, v) \in [Accounts -> Nat]
<1>1. b[from] \in Nat /\ b[to] \in Nat /\ b[from] - v \in Nat /\ b[to] + v \in Nat
  OBVIOUS
<1> QED BY <1>1 DEF Move

(* The world is one that a frame can keep.                                 *)
LEMMA WorldTyped ==
    ASSUME LedgerTypeOK
    PROVE  /\ World \in Worlds /\ WorldInv(World)
           /\ World.bal = bal /\ World.suicided = suicided /\ World.born = born
           /\ bal \in [Accounts -> Int]
           /\ Contracts \subseteq Accounts /\ Unborn \subseteq Accounts
           /\ Sender \in Accounts /\ Miner \in Accounts /\ ZeroAddress \in Accounts
<1>1. /\ Contracts \subseteq Accounts /\ Unborn \subseteq Accounts
      /\ Sender \in Accounts /\ Miner \in Accounts /\ ZeroAddress \in Accounts
  BY LedgerAssumption
<1>2. World.bal = bal /\ World.suicided = suicided /\ World.born = born
  BY DEF World
<1>3. /\ bal \in [Accounts -> Nat] /\ suicided \subseteq Accounts
      /\ suicided \subseteq Contracts \cup born /\ born \subseteq Unborn
  BY <1>1 DEF LedgerTypeOK
<1>4. World \in Worlds /\ bal \in [Accounts -> Int]
  BY <1>3 DEF World, Worlds
<1> QED BY <1>1, <1>2, <1>3, <1>4 DEF WorldInv

(* A call begins: all that holds of the trace holds with one more, and     *)
(* with its frame, if it has one.                                          *)
LEMMA EnterExplains ==
    ASSUME LedgerTypeOK, Explains(trace, frames, World),
           NEW type \in TraceTypes, NEW from \in Accounts, NEW to \in Accounts,
           NEW value \in Nat, NEW after,
           type \in {"DELEGATECALL", "STATICCALL"} => value = 0,
           type \in CreateTypes => to \notin suicided,
           type = "SELFDESTRUCT" => value = bal[from],
           after.bal = Effect(Flat(Node(type, from, to, value), FALSE), bal),
           after.suicided = suicided \cup (IF type = "SELFDESTRUCT" THEN {from} ELSE {})
    PROVE  /\ Append(trace, Node(type, from, to, value)) \in Seq(TracedCall)
           /\ Explains(Append(trace, Node(type, from, to, value)), frames, after)
           /\ \A self \in Accounts :
                 /\ Append(frames, Frame(self)) \in Seq(OpenFrame)
                 /\ Explains(Append(trace, Node(type, from, to, value)),
                             Append(frames, Frame(self)), after)
<1> DEFINE node == Node(type, from, to, value)
<1>1. /\ trace \in Seq(TracedCall) /\ frames \in Seq(OpenFrame)
      /\ Len(trace) \in Nat
      /\ \A k \in 1..Len(frames) : frames[k] \in OpenFrame
  BY LenProperties, ElementOfSeq DEF LedgerTypeOK
<1>2. node \in TracedCall /\ ~node.error /\ node.to = to /\ node.from = from
      /\ node.type = type /\ node.value = value
      /\ node.within = {frames[k].call : k \in 1..Len(frames)}
  <2>1. {frames[k].call : k \in 1..Len(frames)} \subseteq Nat
    BY <1>1 DEF OpenFrame
  <2> QED BY <2>1 DEF Node, TracedCall
<1>3. /\ World \in Worlds /\ WorldInv(World)
      /\ World.bal = bal /\ World.suicided = suicided /\ bal \in [Accounts -> Int]
  BY WorldTyped
<1>4. after.bal = Effect(Flat(node, FALSE), World.bal)
      /\ after.suicided = World.suicided \cup (IF type = "SELFDESTRUCT" THEN {from} ELSE {})
  BY <1>3
<1>5. Append(trace, node) \in Seq(TracedCall)
  BY <1>1, <1>2, AppendProperties
<1> HIDE DEF node
<1>6. /\ Explains(Append(trace, node), frames, after)
      /\ Tells(Flatten(Append(trace, node)), Len(trace), World)
  BY <1>1, <1>2, <1>3, <1>4, AppendExplains
<1>7. ASSUME NEW self \in Accounts
      PROVE  /\ Append(frames, Frame(self)) \in Seq(OpenFrame)
             /\ Explains(Append(trace, node), Append(frames, Frame(self)), after)
  <2>1. /\ Frame(self) \in OpenFrame /\ Frame(self).call = Len(trace) + 1
        /\ Frame(self).snapshot = World
    BY <1>1, <1>3 DEF Frame, OpenFrame
  <2>2. Append(frames, Frame(self)) \in Seq(OpenFrame)
    BY <1>1, <2>1, AppendProperties
  <2>3. \A k \in 1..Len(frames) : frames[k].call \in 1..Len(trace)
    BY DEF Explains, TraceInv
  <2>4. Tells(Flatten(Append(trace, node)), Len(trace), Frame(self).snapshot)
        /\ WorldInv(Frame(self).snapshot)
    BY <2>1, <1>3, <1>6
  <2> HIDE DEF Frame
  <2>5. Explains(Append(trace, node), Append(frames, Frame(self)), after)
    BY <1>1, <1>2, <1>6, <2>1, <2>3, <2>4, PushExplains
  <2> QED BY <2>2, <2>5
<1> QED BY <1>5, <1>6, <1>7 DEF node

(* What a step of the EVM has to keep.                                     *)
RunningInv == LedgerTypeOK /\ OpsInv /\ stage = "idle" /\ RunInv

(* A step that begins a call keeps what has to be kept.                    *)
LEMMA EnterStepKeeps ==
    ASSUME RunningInv,
           NEW type \in TraceTypes \ {"SELFDESTRUCT"}, NEW from \in Accounts,
           NEW to \in Accounts, NEW value \in Nat, NEW self \in Accounts,
           type \in {"DELEGATECALL", "STATICCALL"} => value = 0,
           type \in CreateTypes => to \notin suicided,
           value <= bal[from],
           bal' = IF type \in {"CALL"} \cup CreateTypes THEN Move(bal, from, to, value) ELSE bal,
           born' \subseteq Unborn, born \subseteq born',
           frames' = Append(frames, Frame(self)),
           Enter(Node(type, from, to, value)),
           entered < shape.maxFrames, entered' = entered + 1,
           UNCHANGED <<opsVars, suicided, shape>>
    PROVE  RunningInv'
<1> DEFINE node == Node(type, from, to, value)
<1>1. /\ LedgerTypeOK /\ RunInv /\ Explains(trace, frames, World) /\ OpsInv /\ stage = "idle"
  BY DEF RunningInv, RunInv
<1>2. Effect(Flat(node, FALSE), bal) = bal'
  BY DEF Effect, Flat, Node, TraceTypes, CallTypes, CreateTypes
<1>3. World'.bal = bal' /\ World'.suicided = suicided
  BY DEF World
<1>4. bal' \in [Accounts -> Nat]
  BY <1>1, MoveTyped DEF LedgerTypeOK
<1>5. /\ trace' \in Seq(TracedCall) /\ frames' \in Seq(OpenFrame)
      /\ Explains(trace', frames', World')
  <2> HIDE DEF World
  <2>1. type \in TraceTypes /\ type # "SELFDESTRUCT"
    OBVIOUS
  <2>2. World'.suicided = suicided \cup (IF type = "SELFDESTRUCT" THEN {from} ELSE {})
    BY <1>3, <2>1
  <2>3. World'.bal = Effect(Flat(Node(type, from, to, value), FALSE), bal)
    BY <1>2, <1>3
  <2>4. trace' = Append(trace, Node(type, from, to, value))
    BY DEF Enter
  <2> HIDE DEF node
  <2>5. /\ Append(trace, Node(type, from, to, value)) \in Seq(TracedCall)
        /\ Append(frames, Frame(self)) \in Seq(OpenFrame)
        /\ Explains(Append(trace, Node(type, from, to, value)),
                    Append(frames, Frame(self)), World')
    BY <1>1, <2>1, <2>2, <2>3, EnterExplains
  <2> QED BY <2>4, <2>5
<1>6. OpsInv'
  BY <1>1, OtherStepsKeepInv
<1>7. entered' \in 0..(shape'.maxFrames) /\ entered' # 0
  <2>1. shape.maxFrames \in Nat /\ entered \in 0..shape.maxFrames
    BY <1>1, LedgerAssumption DEF LedgerTypeOK
  <2> QED BY <2>1
<1>8. LedgerTypeOK'
  BY <1>1, <1>4, <1>5, <1>6, <1>7 DEF LedgerTypeOK, OpsInv
<1>9. RunInv'
  BY <1>1, <1>5, <1>7 DEF RunInv, opsVars
<1> QED BY <1>1, <1>6, <1>8, <1>9 DEF RunningInv, opsVars

(* The call of the transaction itself.                                     *)
LEMMA BeginKeeps ==
    ASSUME RunningInv, NEW to \in shape.callees, NEW v \in Values, BeginTransaction(to, v)
    PROVE  RunningInv'
<1> DEFINE kind == IF to \in Unborn THEN "CREATE" ELSE "CALL"
<1>1. LedgerTypeOK /\ RunInv
  BY DEF RunningInv
<1>2. /\ shape \in Shapes /\ shape.callees \subseteq Accounts /\ Values \subseteq Nat
      /\ shape.maxFrames \in Nat \ {0} /\ born \subseteq Unborn
  BY <1>1, LedgerAssumption DEF LedgerTypeOK
<1>3. /\ to \in Accounts /\ v \in Nat /\ Sender \in Accounts
  BY <1>1, <1>2, WorldTyped
<1>4. /\ entered = 0 /\ trace = <<>> /\ frames = <<>>
  BY <1>1 DEF BeginTransaction, RunInv
<1>5. suicided = {}
  <2>1. Tells(Flatten(trace), Len(trace), World) /\ Len(trace) = 0
    BY <1>1, <1>4 DEF RunInv, Explains
  <2>2. Gone(Flatten(trace), 0) = {}
    BY DEF Gone
  <2> QED BY <2>1, <2>2 DEF Tells, World
<1>6. kind \in TraceTypes \ {"SELFDESTRUCT"} /\ kind \in {"CALL"} \cup CreateTypes
      /\ kind \notin {"DELEGATECALL", "STATICCALL"}
  BY DEF TraceTypes, CallTypes, CreateTypes
<1>7. /\ v <= bal[Sender]
      /\ bal' = Move(bal, Sender, to, v)
      /\ born' \subseteq Unborn /\ born \subseteq born'
      /\ frames' = <<Frame(to)>>
      /\ Enter(Node(kind, Sender, to, v))
      /\ entered' = entered + 1 /\ entered < shape.maxFrames
      /\ UNCHANGED <<opsVars, suicided, shape>>
  BY <1>2, <1>4 DEF BeginTransaction
<1>8. frames' = Append(frames, Frame(to))
  BY <1>4, <1>7
<1> HIDE DEF kind
<1> QED BY <1>3, <1>5, <1>6, <1>7, <1>8, EnterStepKeeps

(* The frame on top, and the account it runs for.                          *)
LEMMA TopTyped ==
    ASSUME LedgerTypeOK, frames # <<>>
    PROVE  /\ Len(frames) \in Nat \ {0} /\ Len(frames) \in 1..Len(frames)
           /\ frames[Len(frames)] \in OpenFrame
           /\ Self \in Accounts
<1>1. frames \in Seq(OpenFrame)
  BY DEF LedgerTypeOK
<1>2. Len(frames) \in Nat \ {0}
  BY <1>1, LenProperties, EmptySeq
<1>3. Len(frames) \in 1..Len(frames)
  BY <1>2
<1>4. frames[Len(frames)] \in OpenFrame
  BY <1>1, <1>3, ElementOfSeq
<1> QED BY <1>2, <1>3, <1>4 DEF Self, OpenFrame

(* A call, of any of the four kinds.                                       *)
LEMMA CallKeeps ==
    ASSUME RunningInv, NEW kind \in CallTypes, NEW to \in shape.callees, NEW v \in Values,
           Call(kind, to, v)
    PROVE  RunningInv'
<1>1. LedgerTypeOK
  BY DEF RunningInv
<1>2. /\ shape.callees \subseteq Accounts /\ Values \subseteq Nat /\ born \subseteq Unborn
  BY <1>1, LedgerAssumption DEF LedgerTypeOK
<1>3. /\ to \in Accounts /\ v \in Nat /\ Self \in Accounts
  BY <1>1, <1>2, TopTyped DEF Call, MayEnter, Running
<1>4. /\ kind \in TraceTypes \ {"SELFDESTRUCT"} /\ kind \notin CreateTypes
      /\ kind \in {"CALL"} \cup CreateTypes <=> kind = "CALL"
  BY DEF TraceTypes, CallTypes, CreateTypes
<1> DEFINE self == IF kind = "CALL" THEN to ELSE Self
<1>5. self \in Accounts
  BY <1>3
<1>6. /\ kind \in {"DELEGATECALL", "STATICCALL"} => v = 0
      /\ v <= bal[Self]
      /\ bal' = IF kind \in {"CALL"} \cup CreateTypes THEN Move(bal, Self, to, v) ELSE bal
      /\ born' \subseteq Unborn /\ born \subseteq born'
      /\ frames' = Append(frames, Frame(self))
      /\ Enter(Node(kind, Self, to, v))
      /\ entered < shape.maxFrames /\ entered' = entered + 1
      /\ UNCHANGED <<opsVars, suicided, shape>>
  BY <1>2, <1>4 DEF Call, MayEnter
<1> HIDE DEF self
<1> QED BY <1>3, <1>4, <1>5, <1>6, EnterStepKeeps

(* A creation: no contract has destroyed itself at the address.            *)
LEMMA CreateKeeps ==
    ASSUME RunningInv, NEW a \in Unborn, NEW v \in Values, Create(a, v)
    PROVE  RunningInv'
<1>1. LedgerTypeOK
  BY DEF RunningInv
<1>2. /\ Values \subseteq Nat /\ born \subseteq Unborn
      /\ suicided \subseteq Contracts \cup born /\ Contracts \cap Unborn = {}
  BY <1>1, LedgerAssumption DEF LedgerTypeOK
<1>3. /\ a \in Accounts /\ v \in Nat /\ Self \in Accounts
  BY <1>1, <1>2, WorldTyped, TopTyped DEF Create, MayEnter, Running
<1>4. a \notin suicided
  BY <1>2 DEF Create
<1>5. /\ "CREATE" \in TraceTypes \ {"SELFDESTRUCT"}
      /\ "CREATE" \in {"CALL"} \cup CreateTypes
      /\ "CREATE" \notin {"DELEGATECALL", "STATICCALL"}
  BY DEF TraceTypes, CallTypes, CreateTypes
<1>6. /\ v <= bal[Self]
      /\ bal' = Move(bal, Self, a, v)
      /\ born' \subseteq Unborn /\ born \subseteq born'
      /\ frames' = Append(frames, Frame(a))
      /\ Enter(Node("CREATE", Self, a, v))
      /\ entered < shape.maxFrames /\ entered' = entered + 1
      /\ UNCHANGED <<opsVars, suicided, shape>>
  BY <1>2 DEF Create, MayEnter
<1> QED BY <1>3, <1>4, <1>5, <1>6, EnterStepKeeps

(* The frame on top ends: the world is the given one or the snapshot.      *)
LEMMA LeaveKeeps ==
    ASSUME RunningInv, Running, NEW list \in Seq(TracedCall), NEW world \in Worlds,
           WorldInv(world), NEW error \in BOOLEAN,
           Explains(list, frames, world),
           Leave(list, world, error),
           UNCHANGED <<opsVars, entered, shape>>
    PROVE  RunningInv'
<1> DEFINE m == Len(frames)
           top == frames[m]
           c == top.call
           w == IF error THEN top.snapshot ELSE world
<1>1. /\ LedgerTypeOK /\ OpsInv /\ RunInv /\ stage = "idle" /\ frames # <<>>
      /\ frames \in Seq(OpenFrame)
  BY DEF RunningInv, Running, LedgerTypeOK
<1>2. m \in 1..m /\ top \in OpenFrame
  BY <1>1, TopTyped
<1>3. /\ c \in 1..Len(list) /\ ~list[c].error
      /\ top.snapshot \in Worlds /\ WorldInv(top.snapshot)
  BY <1>2 DEF Explains, TraceInv, OpenFrame
<1>4. w \in Worlds /\ WorldInv(w)
  BY <1>3
<1>5. /\ bal' = w.bal /\ suicided' = w.suicided /\ born' = w.born
      /\ frames' = SubSeq(frames, 1, m - 1)
      /\ trace' = Exit(list, c, error)
  BY DEF Leave
<1>6. /\ bal' \in [Accounts -> Nat] /\ born' \subseteq Unborn
      /\ suicided' \subseteq Contracts \cup born'
  BY <1>4, <1>5 DEF Worlds, WorldInv
<1>7. frames' \in Seq(OpenFrame)
  BY <1>1, <1>5, FrontProperties
<1>8. trace' \in Seq(TracedCall)
  <2> HIDE DEF c
  <2> QED BY <1>3, <1>5, ExitProperties
<1>9. World'.bal = w.bal /\ World'.suicided = w.suicided
  BY <1>5 DEF World
<1>10. Explains(trace', frames', w)
  <2>1. CASE error
    <3>1. Explains(Exit(list, frames[Len(frames)].call, TRUE),
                   SubSeq(frames, 1, Len(frames) - 1), frames[Len(frames)].snapshot)
      BY <1>1, UndoExplains
    <3> QED BY <2>1, <3>1, <1>5
  <2>2. CASE ~error
    <3>1. Exit(list, c, FALSE) = list
      <4> HIDE DEF c
      <4> QED BY <1>3, ExitWell
    <3>2. Explains(list, SubSeq(frames, 1, Len(frames) - 1), world)
      BY <1>1, PopExplains
    <3> QED BY <2>2, <3>1, <3>2, <1>5
  <2> QED BY <2>1, <2>2
<1> HIDE DEF w
<1>11. Explains(trace', frames', World')
  BY <1>9, <1>10 DEF Explains, Tells
<1>12. OpsInv'
  BY <1>1, OtherStepsKeepInv
<1>13. LedgerTypeOK'
  BY <1>1, <1>6, <1>7, <1>8, <1>12 DEF LedgerTypeOK, OpsInv
<1>14. RunInv'
  BY <1>1, <1>11 DEF RunInv, opsVars
<1> QED BY <1>1, <1>12, <1>13, <1>14 DEF RunningInv, opsVars

(* The end of a frame, without or with an error.                           *)
LEMMA EndsKeep ==
    ASSUME RunningInv, Return \/ Fail
    PROVE  RunningInv'
<1>1. /\ LedgerTypeOK /\ Explains(trace, frames, World)
      /\ trace \in Seq(TracedCall)
  BY DEF RunningInv, RunInv, LedgerTypeOK
<1>2. World \in Worlds /\ WorldInv(World)
  BY <1>1, WorldTyped
<1>3. /\ Running /\ UNCHANGED <<opsVars, entered, shape>>
      /\ Leave(trace, World, FALSE) \/ Leave(trace, World, TRUE)
  BY DEF Return, Fail
<1> QED BY <1>1, <1>2, <1>3, LeaveKeeps

(* A SELFDESTRUCT: a call without a frame, and the end of one.             *)
LEMMA SelfDestructKeeps ==
    ASSUME RunningInv, NEW to \in shape.callees, SelfDestruct(to)
    PROVE  RunningInv'
<1> DEFINE given == [Move(bal, Self, to, bal[Self]) EXCEPT ![Self] = 0]
           leaf  == Node("SELFDESTRUCT", Self, to, bal[Self])
           after == [World EXCEPT !.bal = given, !.suicided = @ \cup {Self}]
<1>1. /\ LedgerTypeOK /\ Explains(trace, frames, World) /\ frames # <<>>
      /\ HasCode(Self)
  BY DEF RunningInv, RunInv, SelfDestruct, Running
<1>2. /\ to \in Accounts /\ Self \in Accounts
      /\ bal \in [Accounts -> Nat] /\ bal[Self] \in Nat
      /\ suicided \subseteq Contracts \cup born /\ born \subseteq Unborn
  BY <1>1, TopTyped, LedgerAssumption DEF LedgerTypeOK
<1>3. Move(bal, Self, to, bal[Self]) \in [Accounts -> Nat]
  BY <1>2, MoveTyped
<1>4. given \in [Accounts -> Nat]
  BY <1>2, <1>3
<1>5. given = Effect(Flat(leaf, FALSE), bal)
  BY DEF Effect, Flat, Node, CallTypes
<1> HIDE DEF given
<1>6. /\ after.bal = given /\ after.suicided = suicided \cup {Self} /\ after.born = born
      /\ after = [bal |-> given, suicided |-> suicided \cup {Self}, born |-> born]
  <2>1. after = [bal |-> given, suicided |-> suicided \cup {Self}, born |-> born]
    <3> DEFINE mid == [World EXCEPT !.bal = given]
    <3>1. mid = [bal |-> given, suicided |-> suicided, born |-> born]
      BY DEF World
    <3>2. after = [mid EXCEPT !.suicided = @ \cup {Self}]
      OBVIOUS
    <3> HIDE DEF mid, after
    <3> QED BY <3>1, <3>2
  <2> HIDE DEF after
  <2> QED BY <2>1
<1>7. after \in Worlds /\ WorldInv(after)
  <2>1. Self \in Contracts \cup born
    BY <1>1 DEF HasCode
  <2>2. suicided \cup {Self} \subseteq Accounts
    BY <1>1, <1>2, WorldTyped
  <2> QED BY <2>1, <2>2, <1>2, <1>4, <1>6 DEF Worlds, WorldInv
<1> HIDE DEF after
<1>8. /\ Append(trace, leaf) \in Seq(TracedCall)
      /\ Explains(Append(trace, leaf), frames, after)
  <2>1. /\ "SELFDESTRUCT" \in TraceTypes /\ "SELFDESTRUCT" \notin CreateTypes
        /\ "SELFDESTRUCT" \notin {"DELEGATECALL", "STATICCALL"}
    BY DEF TraceTypes, CreateTypes
  <2>2. /\ after.bal = Effect(Flat(Node("SELFDESTRUCT", Self, to, bal[Self]), FALSE), bal)
        /\ after.suicided = suicided \cup
               (IF "SELFDESTRUCT" = "SELFDESTRUCT" THEN {Self} ELSE {})
    BY <1>5, <1>6
  <2> HIDE DEF leaf
  <2>3. /\ Append(trace, Node("SELFDESTRUCT", Self, to, bal[Self])) \in Seq(TracedCall)
        /\ Explains(Append(trace, Node("SELFDESTRUCT", Self, to, bal[Self])), frames, after)
    BY <1>1, <1>2, <2>1, <2>2, EnterExplains
  <2> QED BY <2>3 DEF leaf
<1>9. /\ Running /\ Leave(Append(trace, leaf), after, FALSE)
      /\ UNCHANGED <<opsVars, entered, shape>>
  BY DEF SelfDestruct, after, given
<1> QED BY <1>7, <1>8, <1>9, LeaveKeeps

(* Every step of the EVM.                                                  *)
LEMMA EvmKeepsInv ==
    ASSUME RunningInv, EvmStep
    PROVE  RunningInv'
BY BeginKeeps, CallKeeps, CreateKeeps, SelfDestructKeeps, EndsKeep DEF EvmStep

-----------------------------------------------------------------------------
(* There are two or three fee operations to number the others after.       *)
LEMMA FeesCounted == Len(FeesOf) \in Nat
<1> DEFINE u      == shape.gasUse
           burned == FeeBurned(u)
           earned == IF burned = NoFee THEN FeeAmount(u) ELSE FeeAmount(u) - burned
           p      == FeeOp(0, {}, Sender, -earned)
           q      == FeeOp(1, {0}, Miner, earned)
           z      == FeeOp(2, {}, Sender, -burned)
<1>1. FeesOf = <<p, q>> \/ FeesOf = Append(<<p, q>>, z)
  BY DEF FeesOf, feeOps
<1> HIDE DEF p, q, z
<1>2. Len(<<p, q>>) = 2
  OBVIOUS
<1>3. Len(Append(<<p, q>>, z)) = 3
  BY AppendThird
<1> QED BY <1>1, <1>2, <1>3

(* The transaction ends and its flattened trace becomes the argument of    *)
(* traceOps: the replay has ended with the EVM's balances.                 *)
LEMMA EndKeeps ==
    ASSUME RunningInv, EndTransaction
    PROVE  LedgerTypeOK' /\ OpsInv' /\ stage' = "loop" /\ BookInv'
<1> DEFINE cs == Flatten(trace)
<1>1. /\ LedgerTypeOK /\ OpsInv /\ trace \in Seq(TracedCall)
      /\ destroyed = {} /\ at = 1 /\ ops = <<>>
      /\ CallsInv(cs) /\ Tells(cs, Len(trace), World)
      /\ bal \in [Accounts -> Nat]
  BY DEF RunningInv, RunInv, LedgerTypeOK, OpsInv, StageInv, Explains
<1>2. cs \in Seq(FlatCall) /\ Len(cs) = Len(trace)
  BY <1>1, FlattenTyped
<1>3. /\ Start(cs, Len(FeesOf))
      /\ stage' = "loop" /\ calls' = cs /\ at' = 1 /\ ops' = <<>> /\ destroyed' = {}
      /\ bal' = [a \in Accounts |-> IF a \in suicided THEN 0 ELSE bal[a]]
      /\ UNCHANGED <<suicided, born, frames, trace, entered, shape>>
  BY <1>1 DEF EndTransaction, Start
<1>4. OpsInv'
  BY <1>1, <1>2, <1>3, FeesCounted, StartKeepsInv
<1>5. LedgerTypeOK'
  BY <1>1, <1>3, <1>4 DEF LedgerTypeOK, OpsInv
<1> HIDE DEF cs
<1>6. Replayed(cs)[Len(cs)] = bal /\ Gone(cs, Len(cs)) = suicided
  BY <1>1, <1>2 DEF Tells, World
<1>7. LastBalance' = bal
  BY <1>3, <1>6 DEF LastBalance
<1>8. LoopInv'
  <2>1. at' - 1 = 0 /\ Gone(cs, 0) = {} /\ Replayed(cs)[0] = InitialBalance
    BY <1>2, <1>3, ReplayUnfolds DEF Gone
  <2>2. ASSUME NEW a \in Accounts
        PROVE  Total(Credits(ops', a)) = Replayed(cs)[0][a] - InitialBalance[a]
    <3>1. Credits(<<>>, a) = <<>>
      BY DEF Credits
    <3>2. InitialBalance[a] \in Int
      BY LedgerAssumption
    <3> QED BY <1>3, <2>1, <3>1, <3>2, TotalEmpty
  <2> QED BY <1>3, <2>1, <2>2 DEF LoopInv
<1>9. BookInv'
  BY <1>1, <1>3, <1>6, <1>7, <1>8 DEF BookInv
<1> QED BY <1>3, <1>4, <1>5, <1>9

-----------------------------------------------------------------------------
(* An operation books a whole number.                                      *)
LEMMA CreditTyped ==
    ASSUME NEW op \in Operation, NEW a
    PROVE  Credit(op, a) \in Int
BY DEF Credit, Operation

(* What the operations of one call book for an account.                    *)
LEMMA NewOpsBook ==
    ASSUME NEW tr \in FlatCall, OpsTypeOK, NEW a \in Accounts
    PROVE  Total(Credits(NewOps(tr), a)) =
              IF tr.revert \/ ~ShouldAdd(tr) THEN 0
              ELSE (IF a = tr.to /\ ~Burns(tr) THEN tr.value ELSE 0)
                   - (IF a = tr.from THEN tr.value ELSE 0)
<1> DEFINE p == FromOp(tr)
           q == ToOp(tr)
<1>1. tr.value \in Int /\ tr.revert \in BOOLEAN
  BY DEF FlatCall
<1>2. /\ Credit(p, a) = IF a = tr.from /\ ~tr.revert THEN -tr.value ELSE 0
      /\ Credit(q, a) = IF a = tr.to /\ ~tr.revert THEN tr.value ELSE 0
  BY DEF Credit, FromOp, ToOp, Op, Status
<1>3. Credit(p, a) \in Int /\ Credit(q, a) \in Int
  BY <1>1, <1>2
<1>4. NewOps(tr) = IF ~ShouldAdd(tr) THEN <<>> ELSE IF Burns(tr) THEN <<p>> ELSE <<p, q>>
  BY DEF NewOps
<1> HIDE DEF p, q
<1>5. Total(Credits(<<>>, a)) = 0
  <2>1. Credits(<<>>, a) = <<>>
    BY DEF Credits
  <2> QED BY <2>1, TotalEmpty
<1>6. Total(Credits(<<p>>, a)) = Credit(p, a)
  <2>1. Credits(<<p>>, a) = <<Credit(p, a)>>
    BY DEF Credits
  <2> QED BY <2>1, <1>3, TotalOfOne
<1>7. Total(Credits(<<p, q>>, a)) = Credit(p, a) + Credit(q, a)
  BY <1>3, CreditsOfTwo
<1> QED BY <1>1, <1>2, <1>4, <1>5, <1>6, <1>7

(* What the guards of the property and the EVM say of the next call.       *)
LEMMA NextCall ==
    ASSUME OpsTypeOK, CallsInv(calls), ~RevertedDestruct, ~PaidCallCode,
           NEW i \in 1..Len(calls), NEW tr, tr = calls[i]
    PROVE  /\ tr \in FlatCall
           /\ tr.type \in CallTypes \ {"CALL"} => tr.value = 0
           /\ tr.type = "SELFDESTRUCT" =>
                 Destructs(tr) /\ tr.value = Replayed(calls)[i-1][tr.from]
           /\ tr.type \in CreateTypes => tr.to \notin Gone(calls, i - 1)
           /\ Gone(calls, i) = Gone(calls, i - 1) \cup
                 (IF tr.type = "SELFDESTRUCT" THEN {tr.from} ELSE {})
<1>1. calls \in Seq(FlatCall) /\ Len(calls) \in Nat
  BY LenProperties DEF OpsTypeOK
<1>2. tr \in FlatCall
  BY <1>1, ElementOfSeq
<1>3. tr.type \in CallTypes \ {"CALL"} => tr.value = 0
  BY DEF CallsInv, PaidCallCode, CallTypes
<1>4. tr.type = "SELFDESTRUCT" => Destructs(tr) /\ tr.value = Replayed(calls)[i-1][tr.from]
  BY DEF CallsInv, RevertedDestruct, Destructs
<1>5. ASSUME tr.type \in CreateTypes, NEW j \in 1..(i-1), Destructs(calls[j])
      PROVE  calls[j].from # tr.to
  <2>1. j \in 1..Len(calls) /\ j < i
    BY <1>1
  <2> QED BY <1>5, <2>1 DEF CallsInv
<1>6. tr.type \in CreateTypes => tr.to \notin Gone(calls, i - 1)
  BY <1>5 DEF Gone
<1>7. Gone(calls, i) = Gone(calls, i - 1) \cup
        {calls[j].from : j \in {k \in {i} : Destructs(calls[k])}}
  <2> DEFINE n == i - 1
  <2>1. n \in Nat /\ n + 1 = i
    BY <1>1
  <2> HIDE DEF n
  <2>2. Gone(calls, n + 1) = Gone(calls, n) \cup
          {calls[j].from : j \in {k \in {n + 1} : Destructs(calls[k])}}
    BY <2>1, GoneStep
  <2> QED BY <2>1, <2>2 DEF n
<1>8. {calls[j].from : j \in {k \in {i} : Destructs(calls[k])}} =
        IF tr.type = "SELFDESTRUCT" THEN {tr.from} ELSE {}
  BY <1>4 DEF Destructs
<1> QED BY <1>2, <1>3, <1>4, <1>6, <1>7, <1>8

(* The map of destroyed accounts follows the replay: keys that stay get    *)
(* what the call moves, and a new key starts at zero, whatever the account *)
(* gave away before.                                                       *)
LEMMA MapFollows ==
    ASSUME OpsTypeOK, ProcessCall,
           NEW tr \in FlatCall, tr = calls[at],
           NEW b \in [Accounts -> Int], \A a \in destroyed : balance[a] = b[a],
           tr.type \in CallTypes \ {"CALL"} => tr.value = 0,
           tr.type = "SELFDESTRUCT" => ~tr.revert,
           tr.type \in CreateTypes => tr.to \notin destroyed
    PROVE  /\ destroyed' = destroyed \cup
                  (IF tr.type = "SELFDESTRUCT" THEN {tr.from} ELSE {})
           /\ \A a \in destroyed' : balance'[a] = Effect(tr, b)[a]
<1> DEFINE marked  == IF tr.type = "SELFDESTRUCT" THEN destroyed \cup {tr.from}
                      ELSE destroyed
           keys    == IF tr.type \in CreateTypes THEN marked \ {tr.to} ELSE marked
           debited == Adjust(balance, destroyed, tr, tr.from, -tr.value)
           reset   == Resurrect(MarkDestroyed(debited, tr), tr)
<1>1. /\ tr.from \in Accounts /\ tr.to \in Accounts /\ tr.value \in Int
      /\ tr.type \in TraceTypes /\ tr.revert \in BOOLEAN
      /\ balance \in [Accounts -> Int] /\ destroyed \subseteq Accounts
      /\ \A a \in destroyed : a \in Accounts /\ b[a] \in Int
  <2>1. /\ tr.from \in Accounts /\ tr.to \in Accounts /\ tr.value \in Int
        /\ tr.type \in TraceTypes /\ tr.revert \in BOOLEAN
    BY DEF FlatCall
  <2>2. balance \in [Accounts -> Int] /\ destroyed \subseteq Accounts
    BY DEF OpsTypeOK
  <2> QED BY <2>1, <2>2
<1>2. /\ destroyed' = keys
      /\ balance' = IF Burns(tr) THEN reset ELSE Adjust(reset, keys, tr, tr.to, tr.value)
  BY DEF ProcessCall
<1>3. keys = destroyed \cup (IF tr.type = "SELFDESTRUCT" THEN {tr.from} ELSE {})
  BY DEF CreateTypes
<1>4. /\ debited \in [Accounts -> Int]
      /\ \A a \in Accounts :
            debited[a] = IF a = tr.from /\ a \in destroyed /\ ~tr.revert
                         THEN balance[a] - tr.value ELSE balance[a]
  BY <1>1 DEF Adjust
<1> HIDE DEF debited
<1>5. /\ reset \in [Accounts -> Int]
      /\ \A a \in Accounts :
            reset[a] = IF \/ tr.type = "SELFDESTRUCT" /\ a = tr.from
                          \/ tr.type \in CreateTypes /\ a = tr.to
                       THEN 0 ELSE debited[a]
  BY <1>1, <1>4 DEF Resurrect, MarkDestroyed, CreateTypes
<1> HIDE DEF reset, keys
<1>6. \A a \in Accounts :
        balance'[a] = IF ~Burns(tr) /\ a = tr.to /\ a \in keys /\ ~tr.revert
                      THEN reset[a] + tr.value ELSE reset[a]
  BY <1>1, <1>2, <1>5 DEF Adjust
<1>7. ASSUME NEW a \in keys PROVE balance'[a] = Effect(tr, b)[a]
  <2>1. a \in Accounts /\ (tr.type # "SELFDESTRUCT" => a \in destroyed)
    BY <1>1, <1>3
  <2>2. /\ tr.revert \/ tr.type \in CallTypes \ {"CALL"} => Effect(tr, b)[a] = b[a]
        /\ ~tr.revert /\ tr.type \in {"CALL"} \cup CreateTypes =>
              Effect(tr, b)[a] = b[a] - (IF a = tr.from THEN tr.value ELSE 0)
                                      + (IF a = tr.to THEN tr.value ELSE 0)
        /\ ~tr.revert /\ tr.type = "SELFDESTRUCT" =>
              Effect(tr, b)[a] = IF a = tr.from THEN 0
                                 ELSE b[a] + (IF a = tr.to THEN tr.value ELSE 0)
    BY <2>1, EffectAt
  <2>3. CASE tr.type = "SELFDESTRUCT"
    <3>1. ~tr.revert /\ tr.type \notin CreateTypes
      BY <2>3 DEF CreateTypes
    <3>2. CASE a = tr.from
      BY <2>1, <2>2, <2>3, <3>1, <3>2, <1>5, <1>6 DEF Burns
    <3>3. CASE a # tr.from
      <4>1. a \in destroyed /\ balance[a] = b[a] /\ b[a] \in Int
        BY <3>3, <1>1, <1>3
      <4>2. reset[a] = balance[a]
        BY <2>1, <3>1, <3>3, <1>4, <1>5
      <4> QED BY <2>1, <2>2, <2>3, <3>1, <3>3, <4>1, <4>2, <1>6 DEF Burns
    <3> QED BY <3>2, <3>3
  <2>4. CASE tr.type # "SELFDESTRUCT"
    <3>1. a \in destroyed /\ balance[a] = b[a] /\ b[a] \in Int /\ ~Burns(tr)
      BY <2>1, <2>4, <1>1 DEF Burns
    <3>2. reset[a] = debited[a]
      BY <2>1, <2>4, <3>1, <1>5
    <3>3. CASE tr.revert
      BY <2>1, <2>2, <3>1, <3>2, <3>3, <1>4, <1>6
    <3>4. CASE ~tr.revert /\ tr.type \in CallTypes \ {"CALL"}
      BY <2>1, <2>2, <3>1, <3>2, <3>4, <1>1, <1>4, <1>6
    <3>5. CASE ~tr.revert /\ tr.type \in {"CALL"} \cup CreateTypes
      BY <2>1, <2>2, <3>1, <3>2, <3>5, <1>1, <1>4, <1>6
    <3> QED BY <2>4, <3>3, <3>4, <3>5, <1>1 DEF TraceTypes
  <2> QED BY <2>3, <2>4
<1> QED BY <1>2, <1>3, <1>7

(* The first loop books what the replay moves.                             *)
LEMMA ProcessCallBooks ==
    ASSUME LedgerTypeOK, OpsInv, BookInv, ProcessCall, UNCHANGED evmVars
    PROVE  BookInv'
<1>1. /\ OpsTypeOK /\ stage = "loop" /\ calls \in Seq(FlatCall) /\ Len(calls) \in Nat
      /\ at \in 1..Len(calls) /\ at' = at + 1
      /\ ops \in Seq(Operation) /\ ops' = ops \o NewOps(calls[at])
      /\ UNCHANGED <<stage, calls, bal, suicided, todo>>
      /\ CallsInv(calls)
  BY LenProperties DEF OpsInv, OpsTypeOK, ProcessCall, evmVars, BookInv
<1>2. ASSUME ~RevertedDestruct, ~PaidCallCode
      PROVE  LoopInv'
  <2> DEFINE tr == calls[at]
             R  == Replayed(calls)
             b  == R[at-1]
  <2>1. LoopInv
    BY <1>1, <1>2 DEF BookInv
  <2>2. /\ tr \in FlatCall
        /\ tr.type \in CallTypes \ {"CALL"} => tr.value = 0
        /\ tr.type = "SELFDESTRUCT" => Destructs(tr) /\ tr.value = R[at-1][tr.from]
        /\ tr.type \in CreateTypes => tr.to \notin Gone(calls, at - 1)
        /\ Gone(calls, at) = Gone(calls, at - 1) \cup
              (IF tr.type = "SELFDESTRUCT" THEN {tr.from} ELSE {})
    BY <1>1, <1>2, NextCall
  <2>3. R[at] = Effect(tr, b) /\ b \in [Accounts -> Int]
    <3>1. at - 1 \in 0..Len(calls)
      BY <1>1
    <3> QED BY <3>1, <1>1, ReplayUnfolds
  <2>4. destroyed = Gone(calls, at - 1) /\ \A a \in destroyed : balance[a] = b[a]
    BY <2>1 DEF LoopInv
  <2> HIDE DEF tr, R, b
  <2>5. /\ destroyed' = destroyed \cup (IF tr.type = "SELFDESTRUCT" THEN {tr.from} ELSE {})
        /\ \A a \in destroyed' : balance'[a] = Effect(tr, b)[a]
    <3>1. tr.type = "SELFDESTRUCT" => ~tr.revert
      BY <2>2 DEF Destructs
    <3>2. tr = calls[at]
      BY DEF tr
    <3> QED BY <1>1, <2>2, <2>3, <2>4, <3>1, <3>2, MapFollows
  <2>6. ASSUME NEW a \in Accounts
        PROVE  Total(Credits(ops', a)) = R[at][a] - InitialBalance[a]
    <3>1. ops' = ops \o NewOps(tr) /\ NewOps(tr) \in Seq(Operation)
      BY <1>1, <2>2, NewOpsProperties DEF tr
    <3>2. \A op \in Operation : Credit(op, a) \in Int
      BY CreditTyped
    <3>3. Total(Credits(ops', a)) = Total(Credits(ops, a)) + Total(Credits(NewOps(tr), a))
      BY <1>1, <3>1, <3>2, CreditsConcat
    <3>4. Total(Credits(NewOps(tr), a)) =
              IF tr.revert \/ ~ShouldAdd(tr) THEN 0
              ELSE (IF a = tr.to /\ ~Burns(tr) THEN tr.value ELSE 0)
                   - (IF a = tr.from THEN tr.value ELSE 0)
      BY <1>1, <2>2, NewOpsBook
    <3>5. Total(Credits(ops, a)) = b[a] - InitialBalance[a]
      BY <2>1 DEF LoopInv, b, R
    <3>6. /\ b[a] \in Int /\ InitialBalance[a] \in Int /\ tr.value \in Int
          /\ tr.type \in TraceTypes /\ tr.revert \in BOOLEAN
      BY <2>2, <2>3, LedgerAssumption DEF FlatCall
    <3>7. /\ tr.revert \/ tr.type \in CallTypes \ {"CALL"} => Effect(tr, b)[a] = b[a]
          /\ ~tr.revert /\ tr.type \in {"CALL"} \cup CreateTypes =>
                Effect(tr, b)[a] = b[a] - (IF a = tr.from THEN tr.value ELSE 0)
                                        + (IF a = tr.to THEN tr.value ELSE 0)
          /\ ~tr.revert /\ tr.type = "SELFDESTRUCT" =>
                Effect(tr, b)[a] = IF a = tr.from THEN 0
                                   ELSE b[a] + (IF a = tr.to THEN tr.value ELSE 0)
      BY <2>2, <2>3, EffectAt
    <3>8. Effect(tr, b)[a] - b[a] = Total(Credits(NewOps(tr), a))
      <4>1. CASE tr.revert \/ tr.type \in CallTypes \ {"CALL"}
        BY <4>1, <2>2, <3>4, <3>6, <3>7 DEF ShouldAdd
      <4>2. CASE ~tr.revert /\ tr.type \in {"CALL"} \cup CreateTypes
        <5>1. ~Burns(tr) /\ (~ShouldAdd(tr) => tr.value = 0)
          BY <4>2 DEF Burns, ShouldAdd, CreateTypes
        <5> QED BY <4>2, <5>1, <3>4, <3>6, <3>7
      <4>3. CASE ~tr.revert /\ tr.type = "SELFDESTRUCT"
        <5>1. ShouldAdd(tr) /\ (Burns(tr) <=> tr.from = tr.to)
          BY <4>3 DEF Burns, ShouldAdd, CallTypes
        <5>2. a = tr.from => tr.value = b[a]
          BY <4>3, <2>2 DEF b
        <5> QED BY <4>3, <5>1, <5>2, <3>4, <3>6, <3>7
      <4> QED BY <4>1, <4>2, <4>3, <3>6 DEF TraceTypes
    <3>9. Effect(tr, b)[a] = b[a] + Total(Credits(NewOps(tr), a))
      <4>1. Total(Credits(NewOps(tr), a)) \in Int
        BY <3>4, <3>6
      <4>2. Effect(tr, b)[a] \in Int
        BY <2>2, <2>3, EffectTyped
      <4> QED BY <4>1, <4>2, <3>6, <3>8
    <3>10. Total(Credits(NewOps(tr), a)) \in Int
      BY <3>4, <3>6
    <3> QED BY <2>3, <3>3, <3>5, <3>6, <3>9, <3>10
  <2>7. at' - 1 = at
    BY <1>1
  <2> QED BY <2>2, <2>3, <2>4, <2>5, <2>6, <2>7, <1>1 DEF LoopInv, R
<1>3. /\ RevertedDestruct' = RevertedDestruct /\ PaidCallCode' = PaidCallCode
      /\ LastBalance' = LastBalance
  BY <1>1 DEF RevertedDestruct, PaidCallCode, LastBalance
<1> QED BY <1>1, <1>2, <1>3 DEF BookInv

(* The second loop takes from an account what it was left with, which is   *)
(* never negative: log.Fatalf is not reached.                              *)
LEMMA VisitBooks ==
    ASSUME LedgerTypeOK, OpsInv, BookInv, NEW x \in Accounts, VisitDestroyed(x),
           UNCHANGED evmVars
    PROVE  BookInv'
<1>1. /\ OpsTypeOK /\ DestructHasPredecessor /\ stage = "tail" /\ x \in todo
      /\ ops \in Seq(Operation) /\ Len(ops) \in Nat
      /\ todo \subseteq destroyed /\ todo' = todo \ {x}
      /\ UNCHANGED <<calls, destroyed, balance, bal, suicided>>
      /\ LastBalance \in [Accounts -> Nat]
      /\ start \in Nat /\ OpsNumbered
  BY LenProperties DEF OpsInv, OpsTypeOK, VisitDestroyed, evmVars, BookInv
<1>2. /\ RevertedDestruct' = RevertedDestruct /\ PaidCallCode' = PaidCallCode
      /\ LastBalance' = LastBalance
  BY <1>1 DEF RevertedDestruct, PaidCallCode, LastBalance
<1>3. ASSUME ~RevertedDestruct, ~PaidCallCode
      PROVE  stage' = "tail" /\ TailInv'
  <2>1. TailInv
    BY <1>1, <1>3 DEF BookInv
  <2>2. balance[x] = LastBalance[x] /\ LastBalance[x] \in Nat
    BY <1>1, <2>1 DEF TailInv
  <2>3. /\ stage' = "tail"
        /\ \/ balance[x] = 0 /\ ops' = ops
           \/ balance[x] > 0 /\ ops' = Append(ops, DestructOp(x))
    BY <1>1, <2>2 DEF VisitDestroyed
  <2>4. ASSUME NEW a \in Accounts
        PROVE  Total(Credits(ops', a)) =
                  (IF a \in destroyed \ todo' THEN 0 ELSE LastBalance[a]) - InitialBalance[a]
    <3>1. Total(Credits(ops, a)) =
            (IF a \in destroyed \ todo THEN 0 ELSE LastBalance[a]) - InitialBalance[a]
      BY <2>1 DEF TailInv
    <3>2. LastBalance[a] \in Int /\ InitialBalance[a] \in Int
      BY <1>1, LedgerAssumption
    <3>3. a \in destroyed \ todo' <=> a \in destroyed \ todo \/ a = x
      BY <1>1
    <3>4. Total(Credits(ops', a)) =
            Total(Credits(ops, a)) - (IF a = x THEN LastBalance[x] ELSE 0)
      <4>1. CASE balance[x] = 0 /\ ops' = ops
        BY <4>1, <2>2, <3>1, <3>2
      <4>2. CASE balance[x] > 0 /\ ops' = Append(ops, DestructOp(x))
        <5>1. ops # <<>> /\ Len(ops) \in 1..Len(ops)
          BY <1>1, <2>2, <4>2, EmptySeq DEF DestructHasPredecessor
        <5>2. ops[Len(ops)].index \in Nat
          <6>1. ops[Len(ops)] \in Operation
            BY <5>1, <1>1, ElementOfSeq
          <6> QED BY <6>1 DEF Operation
        <5>3. DestructOp(x) \in Operation
          BY <5>2, <2>2 DEF DestructOp, Operation
        <5>4. Credit(DestructOp(x), a) = IF a = x THEN -LastBalance[x] ELSE 0
          BY <2>2 DEF Credit, DestructOp
        <5>5. \A op \in Operation : Credit(op, a) \in Int
          BY CreditTyped
        <5> HIDE DEF DestructOp
        <5>6. Total(Credits(ops', a)) = Total(Credits(ops, a)) + Credit(DestructOp(x), a)
          BY <4>2, <5>3, <5>5, <1>1, CreditsAppend
        <5> QED BY <5>4, <5>6, <2>2, <3>1, <3>2
      <4> QED BY <2>3, <4>1, <4>2
    <3>5. a = x => a \notin destroyed \ todo
      BY <1>1
    <3> QED BY <3>1, <3>2, <3>3, <3>4, <3>5
  <2> QED BY <1>1, <1>2, <2>1, <2>3, <2>4 DEF TailInv
<1> QED BY <1>1, <1>2, <1>3 DEF BookInv

(* The first loop hands its map to the second; the function returns when   *)
(* every key was visited.                                                  *)
LEMMA OtherStepsBook ==
    ASSUME LedgerTypeOK, OpsInv, BookInv, EndLoop \/ ReturnOps, UNCHANGED evmVars
    PROVE  BookInv'
<1>1. /\ OpsTypeOK /\ Len(calls) \in Nat /\ at \in 1..(Len(calls) + 1)
      /\ UNCHANGED <<calls, at, ops, destroyed, balance, bal, suicided>>
      /\ stage' \in {"tail", "returned"}
      /\ LastBalance \in [Accounts -> Nat]
  BY LenProperties DEF OpsInv, OpsTypeOK, EndLoop, ReturnOps, evmVars, BookInv
<1>2. /\ RevertedDestruct' = RevertedDestruct /\ PaidCallCode' = PaidCallCode
      /\ LastBalance' = LastBalance
  BY <1>1 DEF RevertedDestruct, PaidCallCode, LastBalance
<1>3. ASSUME ~RevertedDestruct, ~PaidCallCode
      PROVE  TailInv' /\ (stage' = "returned" => todo' = {})
  <2>1. CASE EndLoop
    <3>1. LoopInv /\ at - 1 = Len(calls) /\ todo' = destroyed /\ stage' = "tail"
      BY <1>1, <1>3, <2>1 DEF EndLoop, BookInv
    <3>2. Replayed(calls)[at - 1] = LastBalance /\ Gone(calls, at - 1) = suicided
      BY <3>1 DEF LastBalance, BookInv
    <3> QED BY <1>1, <1>2, <3>1, <3>2 DEF LoopInv, TailInv
  <2>2. CASE ReturnOps
    <3>1. TailInv /\ todo' = todo /\ todo = {}
      BY <1>3, <2>2 DEF ReturnOps, BookInv
    <3> QED BY <1>1, <1>2, <3>1 DEF TailInv
  <2> QED BY <2>1, <2>2
<1> QED BY <1>1, <1>2, <1>3 DEF BookInv

-----------------------------------------------------------------------------
(* Before the transaction there is nothing to explain.                     *)
LEMMA InitLedgerInv == Init => LedgerInv
<1> SUFFICES ASSUME Init PROVE LedgerInv
  OBVIOUS
<1>1. OpsInv /\ stage = "idle" /\ destroyed = {}
  BY InitOpsInv DEF Init, OpsInit
<1>2. shape.maxFrames \in Nat /\ InitialBalance \in [Accounts -> Nat]
  BY LedgerAssumption DEF Init
<1>3. LedgerTypeOK
  BY <1>1, <1>2 DEF Init, LedgerTypeOK, OpsInv
<1>4. /\ <<>> \in Seq(TracedCall) /\ Len(<<>>) = 0
      /\ Flatten(<<>>) \in Seq(FlatCall) /\ Len(Flatten(<<>>)) = 0
  BY EmptySeq, FlattenTyped
<1>5. Replayed(Flatten(<<>>))[0] = InitialBalance
  BY <1>4, ReplayUnfolds
<1>6. Tells(Flatten(<<>>), 0, World)
  BY <1>5 DEF Tells, Gone, World, Init
<1>7. CallsInv(Flatten(<<>>)) /\ TraceInv(<<>>, <<>>)
  BY <1>4 DEF CallsInv, TraceInv
<1>8. Explains(<<>>, <<>>, World)
  BY <1>4, <1>6, <1>7 DEF Explains
<1>9. trace = <<>> /\ frames = <<>>
  BY DEF Init
<1>10. RunInv
  BY <1>1, <1>8, <1>9 DEF RunInv
<1> QED BY <1>1, <1>3, <1>10 DEF LedgerInv

(* Every step keeps the invariant.                                         *)
LEMMA StepKeepsLedgerInv == LedgerInv /\ [Next]_ledgerVars => LedgerInv'
<1> SUFFICES ASSUME LedgerInv, [Next]_ledgerVars PROVE LedgerInv'
  OBVIOUS
<1>1. LedgerTypeOK /\ OpsInv
  BY DEF LedgerInv
<1>2. CASE EvmStep
  <2>1. stage = "idle"
    BY <1>2 DEF EvmStep, BeginTransaction, Call, Create, MayEnter, SelfDestruct, Return,
                Fail, Running
  <2>2. RunningInv
    BY <1>1, <2>1 DEF LedgerInv, RunningInv
  <2> QED BY <1>2, <2>2, EvmKeepsInv DEF LedgerInv, RunningInv
<1>3. CASE EndTransaction
  <2>1. RunningInv
    BY <1>1, <1>3 DEF LedgerInv, RunningInv, EndTransaction
  <2> QED BY <1>3, <2>1, EndKeeps DEF LedgerInv
<1>4. CASE OpsStep /\ UNCHANGED evmVars
  <2>1. stage \in {"loop", "tail"} /\ stage' # "idle"
    BY <1>4 DEF OpsStep, ProcessCall, EndLoop, VisitDestroyed, ReturnOps
  <2>2. BookInv
    BY <2>1 DEF LedgerInv
  <2>3. OpsInv'
    BY <1>1, <1>4, ProcessCallKeepsInv, VisitKeepsInv, OtherStepsKeepInv DEF OpsStep
  <2>4. LedgerTypeOK'
    BY <1>1, <1>4, <2>3 DEF LedgerTypeOK, OpsInv, evmVars
  <2>5. BookInv'
    BY <1>1, <1>4, <2>2, ProcessCallBooks, VisitBooks, OtherStepsBook DEF OpsStep
  <2> QED BY <2>1, <2>3, <2>4, <2>5 DEF LedgerInv
<1>5. CASE UNCHANGED ledgerVars
  <2>1. OpsInv'
    BY <1>1, <1>5, OtherStepsKeepInv DEF ledgerVars
  <2>2. LedgerTypeOK'
    BY <1>1, <1>5, <2>1 DEF LedgerTypeOK, OpsInv, ledgerVars, evmVars
  <2>3. RunInv' = RunInv
    BY <1>5 DEF RunInv, World, ledgerVars, evmVars, opsVars
  <2>4. /\ RevertedDestruct' = RevertedDestruct /\ PaidCallCode' = PaidCallCode
        /\ LastBalance' = LastBalance
    BY <1>5 DEF RevertedDestruct, PaidCallCode, LastBalance, ledgerVars, opsVars
  <2>5. LoopInv' = LoopInv /\ TailInv' = TailInv
    BY <1>5, <2>4 DEF LoopInv, TailInv, ledgerVars, opsVars, evmVars
  <2>6. BookInv' = BookInv
    BY <1>5, <2>4, <2>5 DEF BookInv, ledgerVars, opsVars, evmVars
  <2>7. stage' = stage
    BY <1>5 DEF ledgerVars, opsVars
  <2> QED BY <2>1, <2>2, <2>3, <2>6, <2>7 DEF LedgerInv
<1> QED BY <1>2, <1>3, <1>4, <1>5 DEF Next

(* The inductive invariant of the transaction and of its operations.       *)
THEOREM LedgerInvariant == Spec => []LedgerInv
<1>1. Init => LedgerInv
  BY InitLedgerInv
<1>2. LedgerInv /\ [Next]_ledgerVars => LedgerInv'
  BY StepKeepsLedgerInv
<1> QED BY <1>1, <1>2, PTL DEF Spec

(* The trace, the frames and the variables of traceOps keep their types;   *)
(* no account is ever in debt, and only contracts destroy themselves.      *)
THEOREM LedgerTypesKept == Spec => []LedgerTypeOK
<1>1. LedgerInv => LedgerTypeOK
  BY DEF LedgerInv
<1> QED BY <1>1, LedgerInvariant, PTL

(* What a reader adds up is what every account gained.                     *)
LEMMA InvTracksBalances == LedgerInv => LedgerTracksBalances
<1> SUFFICES ASSUME LedgerInv, ~RevertedDestruct, ~PaidCallCode, ~NobodyPaid
             PROVE  Tracked /\ stage # "fatal"
  BY DEF LedgerTracksBalances
<1>1. stage # "fatal"
  BY DEF LedgerInv, BookInv
<1>2. ASSUME stage = "returned", NEW a \in Accounts
      PROVE  Booked(a) = Gained(a)
  <2>1. BookInv /\ TailInv /\ todo = {}
    BY <1>2 DEF LedgerInv, BookInv
  <2>2. shape \in Shapes
    BY DEF LedgerInv, LedgerTypeOK
  <2>3. IsGasUse(shape.gasUse) /\ IsHeader(shape.header) /\ shape.header.engine = "ethash"
    BY <2>2, LedgerAssumption DEF NobodyPaid
  <2>4. LastBalance[a] \in Int /\ InitialBalance[a] \in Int
    BY <2>1, LedgerAssumption DEF BookInv
  <2>5. bal[a] = IF a \in suicided THEN 0 ELSE LastBalance[a]
    BY <2>1 DEF BookInv
  <2>6. Total(Credits(ops, a)) = bal[a] - InitialBalance[a]
    BY <2>1, <2>5 DEF TailInv
  <2>7. /\ ChargedToSender(shape.gasUse) \in Int /\ PaidToMiner(shape.gasUse) \in Int
        /\ Total(Credits(FeesOf, a)) =
              (IF a = Miner THEN PaidToMiner(shape.gasUse) ELSE 0)
              - (IF a = Sender THEN ChargedToSender(shape.gasUse) ELSE 0)
    BY <2>3, FeesBooked DEF FeesOf
  <2>8. Total(Credits(RewardsOf, a)) = Rewarded(a) /\ Rewarded(a) \in Int
    BY <2>3, RewardsBooked DEF RewardsOf, Rewarded
  <2>9. bal[a] \in Int
    BY <2>4, <2>5
  <2> QED BY <2>4, <2>6, <2>7, <2>8, <2>9 DEF Booked, Gained
<1> QED BY <1>1, <1>2 DEF Tracked

(* For every set of accounts, initial balance, code, header and use of gas *)
(* (README.md:90): in the end the operations of the reward, of the fee and *)
(* of the trace (client.go:500-534, 736-890, 935-996, 1281-1349) add up to *)
(* what each account gained, and log.Fatalf (client.go:869) is not reached, *)
(* but for the two kinds of trace and the kind of block that the property  *)
(* names.                                                                  *)
THEOREM BalancesAreTracked == Spec => []LedgerTracksBalances
BY LedgerInvariant, InvTracksBalances, PTL

(* A block whose traces have neither a SELFDESTRUCT that was undone nor a  *)
(* CALLCODE with a value does not end the process (client.go:869), however *)
(* it was sealed: those two are the only reasons for a negative balance.   *)
THEOREM FatalOnlyForCause == Spec => [](~RevertedDestruct /\ ~PaidCallCode => NeverFatal)
<1>1. LedgerInv => (~RevertedDestruct /\ ~PaidCallCode => NeverFatal)
  BY DEF LedgerInv, BookInv, NeverFatal
<1> QED BY <1>1, LedgerInvariant, PTL

(* In a block too the operations are numbered after those of the fee       *)
(* (client.go:776, 826-835, 875, 1207-1216), and ops[len(ops)-1] exists.   *)
THEOREM BlockOpsNumbered == Spec => [](OpsNumbered /\ DestructHasPredecessor)
<1>1. LedgerInv => OpsNumbered /\ DestructHasPredecessor
  BY DEF LedgerInv, OpsInv
<1> QED BY <1>1, LedgerInvariant, PTL
=============================================================================
