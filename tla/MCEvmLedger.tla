----------------------------- MODULE MCEvmLedger -----------------------------
(***************************************************************************)
(* A sender, two contracts, one address for a new contract, and blocks     *)
(* before, between and after the forks that changed the reward.  Rewards   *)
(* are in units of 1/32 ETH.                                               *)
(***************************************************************************)
EXTENDS FlattenTraces, TLC

CONSTANTS s, m, z, x, y, n

MCAccounts == {s, m, z, x, y, n}
MCInitialBalance == (s :> 1) @@ (m :> 0) @@ (z :> 0) @@ (x :> 1) @@ (y :> 0) @@ (n :> 0)

Use(type, price, tip, cap, used, base) ==
    [type |-> type, gasPrice |-> price, tipCap |-> tip, feeCap |-> cap,
     gasUsed |-> used, baseFee |-> base]

FreeGas == {Use(0, 0, 0, 0, 1, NoFee)}

(* Each type of transaction with the fields it has, before and after London. *)
AllGas == {u \in {Use(0, p, 0, 0, 2, b) : p \in {0, 1, 3}, b \in 0..2 \cup {NoFee}}
                 \cup {Use(2, 0, t, c, 2, b) : t \in 0..2, c \in 0..3, b \in {0, 2}} :
             IsGasUse(u)}

Header(num, uncles, engine) ==
    [number |-> num, coinbase |-> m, uncles |-> uncles, engine |-> engine]

Uncle(who, num) == [miner |-> who, number |-> num]

(* No uncle, a near one and the farthest, of the miner itself and others,  *)
(* at the heights around the forks (10 and 20).                            *)
Headers ==
    {Header(num, <<>>, "ethash") : num \in {9, 10}}
    \cup {Header(num, <<Uncle(s, num - 1), Uncle(m, num - 7)>>, "ethash") : num \in {9, 10}}
    \cup {Header(num, <<Uncle(x, num - 2)>>, "ethash") : num \in {19, 20}}

PlainHeader == Header(1, <<>>, "ethash")

Shape(gas, header, callees, opcodes, limit) ==
    [gasUse |-> gas, header |-> header, callees |-> callees, opcodes |-> opcodes,
     maxFrames |-> limit]

Basic == {"CALL", "SELFDESTRUCT", "REVERT"}
Every == Basic \cup {"CREATE", "CALLCODE", "DELEGATECALL", "STATICCALL"}

LongTraces == {Shape(u, PlainHeader, {x, n}, Basic \cup {"CREATE"}, 4) : u \in FreeGas}
AllFees    == {Shape(u, PlainHeader, {x, y, n}, Every, 2) : u \in AllGas}
AllRewards == {Shape(u, h, {x}, Basic, 1) : u \in FreeGas, h \in Headers}

MCShapes == LongTraces \cup AllFees \cup AllRewards
FatalShapes == {Shape(u, PlainHeader, {x, y}, Basic, 4) : u \in FreeGas}
CliqueShapes == {Shape(u, Header(1, <<>>, "clique"), {x}, Basic, 1) : u \in FreeGas}
=============================================================================
