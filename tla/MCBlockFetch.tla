---- MODULE MCBlockFetch ----
(* BlockFetch on the chains of MCNode. *)
EXTENDS BlockFetch, MCNode
====
