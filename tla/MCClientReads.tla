---- MODULE MCClientReads ----
(* Requests of all kinds, for one unit, on the chains of MCNode. *)
EXTENDS ClientReads, MCNode

CONSTANT r4

NoReqs == {}
OneOfEach == {r1, r3, r4}
TxAndQuery == {r1, r4}
FourthReq == {r4}

(* Balances and calls by hash, by a height that may be missing, by both,   *)
(* by the height of the genesis block, and of the current block.           *)
Query(kind, hash, index, valid) ==
    [kind |-> kind, hash |-> hash, index |-> index, tx |-> t1, valid |-> valid]

MCQueryWants ==
    {Query(k, h, i, TRUE) :
        k \in {"balance", "eth_call"}, h \in {a1, NoBlock}, i \in {0, 1, 2, NoIndex}}
    \cup {Query("eth_getBlockByNumber", NoBlock, i, TRUE) : i \in {2, NoIndex}}
    \cup {Query(k, NoBlock, NoIndex, TRUE) :
             k \in {"status", "eth_getTransactionReceipt", "eth_estimateGas", "unknown"}}
    \cup {Query("eth_call", NoBlock, NoIndex, FALSE)}
OneQuery == {Query("status", NoBlock, NoIndex, TRUE)}
====
