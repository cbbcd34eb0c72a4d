---- MODULE MCTxFetch ----
(* TxFetch on the chains of MCNode. *)
EXTENDS TxFetch, MCNode
====
