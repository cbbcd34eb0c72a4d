-------------------------------- MODULE FeeOps --------------------------------
(***************************************************************************)
(* What a transaction pays for its gas: effectiveGasPrice, calculateGas    *)
(* and feeOps (client.go:500-534, 935-996), as pure operators, and next to *)
(* them what the protocol charges.  NoFee stands for a nil *big.Int.       *)
(***************************************************************************)
EXTENDS Integers, Sequences

CONSTANT NoFee

ASSUME FeeAssumption == NoFee \notin Int

(* A transaction and the base fee of its block.  Before EIP-1559 there is  *)
(* no base fee, and no dynamic-fee transaction (type 2).                   *)
IsGasUse(u) ==
    /\ DOMAIN u = {"type", "gasPrice", "tipCap", "feeCap", "gasUsed", "baseFee"}
    /\ u.type \in {0, 1, 2}
    /\ u.gasPrice \in Nat /\ u.tipCap \in Nat /\ u.feeCap \in Nat /\ u.gasUsed \in Nat
    /\ u.baseFee \in Nat \cup {NoFee}
    /\ u.type = 2 => u.baseFee # NoFee /\ u.feeCap >= u.baseFee
    /\ u.type # 2 /\ u.baseFee # NoFee => u.gasPrice >= u.baseFee

Least(m, n) == IF m <= n THEN m ELSE n

-----------------------------------------------------------------------------
effectiveGasPrice(u) ==
    IF u.type # 2 THEN u.gasPrice
    ELSE Least(u.tipCap, u.feeCap - u.baseFee) + u.baseFee

FeeAmount(u) == u.gasUsed * effectiveGasPrice(u)

FeeBurned(u) == IF u.baseFee = NoFee THEN NoFee ELSE u.gasUsed * u.baseFee

FeeOp(index, related, account, amount) ==
    [index |-> index, related |-> related, type |-> "FEE", status |-> "SUCCESS",
     account |-> account, amount |-> amount]

(* The miner earns what is not burned.  The sender's debit is split in     *)
(* two: what the miner earns, and what is burned.                          *)
feeOps(u, sender, miner) ==
    LET burned == FeeBurned(u)
        earned == IF burned = NoFee THEN FeeAmount(u) ELSE FeeAmount(u) - burned
        paid   == << FeeOp(0, {}, sender, -earned), FeeOp(1, {0}, miner, earned) >>
    IN  IF burned = NoFee THEN paid
        ELSE Append(paid, FeeOp(2, {}, sender, -burned))

-----------------------------------------------------------------------------
(* The protocol's side: what state_transition takes from the sender and    *)
(* gives to the miner.                                                     *)
ChargedToSender(u) ==
    u.gasUsed * (IF u.type = 2 THEN Least(u.tipCap + u.baseFee, u.feeCap)
                 ELSE u.gasPrice)

PaidToMiner(u) ==
    u.gasUsed * (IF u.baseFee = NoFee THEN u.gasPrice
                 ELSE IF u.type = 2 THEN Least(u.tipCap, u.feeCap - u.baseFee)
                 ELSE u.gasPrice - u.baseFee)
=============================================================================
