----------------------------- MODULE ClientReads -----------------------------
(***************************************************************************)
(* All reads of the one ethereum.Client at once: requests of /block,       *)
(* /block/transaction and of the queries share geth and the trace          *)
(* semaphore.                                                              *)
(***************************************************************************)
EXTENDS BlockFetch, TxFetch, Queries

ASSUME ReadsAssumption ==
    /\ Callers = BlockReqs \cup TxReqs \cup QueryReqs
    /\ BlockReqs \cap TxReqs = {}
    /\ QueryReqs \cap (BlockReqs \cup TxReqs) = {}

ReadsNext ==
    \/ \E r \in BlockReqs :
          (BlockArrive(r) \/ BlockStep(r) \/ Disconnect(r)) /\ UNCHANGED body
    \/ \E r \in QueryReqs :
          (QueryArrive(r) \/ QueryStep(r) \/ Disconnect(r)) /\ UNCHANGED body
    \/ TxNext

ReadsFairness ==
    /\ \A r \in BlockReqs : WF_txVars(BlockStep(r) /\ UNCHANGED body)
    /\ \A r \in QueryReqs : WF_txVars(QueryStep(r) /\ UNCHANGED body)
    /\ TxFairness

ReadsSpec == TxInit /\ [][ReadsNext]_txVars /\ ReadsFairness

-----------------------------------------------------------------------------
(* A goroutine is known to the semaphore only inside getBlockTraces or     *)
(* getTransactionTraces, and when none is there every unit is free and     *)
(* nobody is queued: no way out of the two functions leaks a unit.         *)
IdleGateIsFree ==
    /\ \A r \in Callers : slot[r] # "none" => pc[r] = "tracing"
    /\ (\A r \in Callers : pc[r] # "tracing") => cur = 0 /\ waiters = <<>>

(* Every request is answered, however the two kinds of request compete for *)
(* the units and whoever hangs up: none waits at the gate for ever.        *)
EveryRequestAnswered == \A r \in Callers : Open(r) ~> pc[r] = "done"
=============================================================================
