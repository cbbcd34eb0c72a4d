----------------------------- MODULE BlockReward -----------------------------
(***************************************************************************)
(* What a block pays to those who found it: miningReward and               *)
(* blockRewardTransaction (client.go:1260-1349), as pure operators, and    *)
(* next to them what the protocol pays.                                    *)
(*                                                                         *)
(* The code multiplies with a float64.  That loses nothing: the rewards    *)
(* are 5, 3 and 2 * 10^18 wei, which have at most 45 significant bits, and *)
(* a block has at most two uncles; the product is whole because 32 divides *)
(* each reward.                                                            *)
(***************************************************************************)
EXTENDS Integers, Sequences

CONSTANTS
    FrontierReward, ByzantiumReward, ConstantinopleReward,
    ByzantiumBlock, ConstantinopleBlock     \* the heights of the forks

ASSUME RewardAssumption ==
    /\ \A w \in {FrontierReward, ByzantiumReward, ConstantinopleReward} :
          w \in Nat /\ w % 32 = 0
    /\ ByzantiumBlock \in Nat
    /\ ConstantinopleBlock \in Nat

MaxUncleDepth == 8

(* A block that carries a reward operation; its uncles by miner and height.*)
(* engine: how the network seals blocks.                                   *)
IsHeader(h) ==
    /\ DOMAIN h = {"number", "coinbase", "uncles", "engine"}
    /\ h.number \in Nat
    /\ h.engine \in {"ethash", "clique"}
    /\ Len(h.uncles) \in Nat /\ DOMAIN h.uncles = 1..Len(h.uncles)
    /\ \A i \in 1..Len(h.uncles) : h.uncles[i].number \in Nat

-----------------------------------------------------------------------------
miningReward(number) ==
    CASE number >= ConstantinopleBlock -> ConstantinopleReward
      [] number < ConstantinopleBlock /\ number >= ByzantiumBlock -> ByzantiumReward
      [] OTHER -> FrontierReward

MinerReward(h) ==
    miningReward(h.number) + (Len(h.uncles) * miningReward(h.number)) \div 32

UncleReward(h, i) ==
    (h.uncles[i].number + MaxUncleDepth - h.number)
    * (miningReward(h.number) \div MaxUncleDepth)

RewardOp(index, type, account, amount) ==
    [index |-> index, related |-> {}, type |-> type, status |-> "SUCCESS",
     account |-> account, amount |-> amount]

blockRewardOps(h) ==
    <<RewardOp(0, "MINER_REWARD", h.coinbase, MinerReward(h))>>
    \o [i \in 1..Len(h.uncles) |->
           RewardOp(i, "UNCLE_REWARD", h.uncles[i].miner, UncleReward(h, i))]

-----------------------------------------------------------------------------
(* The protocol's side: consensus/ethash's accumulateRewards pays the      *)
(* miner an extra 1/32 for each uncle; clique pays nobody.                 *)
PaidToCoinbase(h) ==
    IF h.engine # "ethash" THEN 0
    ELSE miningReward(h.number) + Len(h.uncles) * (miningReward(h.number) \div 32)

PaidToUncle(h, i) ==
    IF h.engine # "ethash" THEN 0
    ELSE ((h.uncles[i].number + 8 - h.number) * miningReward(h.number)) \div 8

(* The payments to the coinbase and to the miners of the uncles.           *)
Rewards(h, a) ==
    <<IF a = h.coinbase THEN PaidToCoinbase(h) ELSE 0>>
    \o [i \in 1..Len(h.uncles) |-> IF h.uncles[i].miner = a THEN PaidToUncle(h, i) ELSE 0]
=============================================================================
