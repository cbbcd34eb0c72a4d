-------------------------------- MODULE MCNode --------------------------------
(***************************************************************************)
(* The chains of the small instances.  Two branches; a1 and b1 share t2;   *)
(* t1 is in a1, is dropped when b1 takes over, and is back in b2:          *)
(*                                                                         *)
(*            +-- a1 <<t1, t2>>                                            *)
(*        g --+                                                            *)
(*            +-- b1 <<t2>> --- b2 <<t1>>                                  *)
(*                                                                         *)
(* So a receipt that is asked for while a1 is being read may be missing,   *)
(* be of another block of the same height, or of another height.           *)
(***************************************************************************)
EXTENDS Naturals, TLC

CONSTANTS g, a1, b1, b2, t1, t2, r1, r2, r3

MCBlocks == {g, a1, b1, b2}
MCTxIds == {t1, t2}
MCNumber == (g :> 0) @@ (a1 :> 1) @@ (b1 :> 1) @@ (b2 :> 2)
MCTxs == (g :> <<>>) @@ (a1 :> <<t1, t2>>) @@ (b1 :> <<t2>>) @@ (b2 :> <<t1>>)

MCChains == {{g, a1}, {g, b1}, {g, b1, b2}}
OneChain == {{g, b1, b2}}

ByHash(b) == [by |-> "hash", hash |-> b]
ByIndex(n) == [by |-> "index", index |-> n]

(* By hash, by index, and the current block; the genesis block too.        *)
MCIdents == {ByHash(a1), ByIndex(0), ByIndex(2), [by |-> "current"]}
OneIdent == {ByIndex(2)}

(* The server's asserter accepts no BlockIdentifier without a hash.        *)
MCTxWants == [block : {ByHash(a1), ByHash(b2), ByHash(g)}, tx : MCTxIds]
OneTxWant == {[block |-> ByHash(b2), tx |-> t1]}

OneReq == {r1}
TwoReqs == {r1, r2}
OtherReq == {r3}
=============================================================================
