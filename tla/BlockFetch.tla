------------------------------ MODULE BlockFetch ------------------------------
(***************************************************************************)
(* /block: BlockAPIService.Block, Client.Block, getParsedBlock, getBlock   *)
(* and the calls it makes, one action per call of geth.  Between two calls *)
(* geth may change its canonical chain and other requests may run.         *)
(***************************************************************************)
EXTENDS ReadRequests

CONSTANTS
    BlockReqs,     \* the requests of /block
    BlockIdents    \* the identifiers they ask for

ASSUME BlockAssumption ==
    /\ BlockReqs \subseteq Callers
    /\ BlockIdents \subseteq Idents

(* The error of the service for an error of Client.Block.                  *)
BlockCode(why) == IF why = "orphaned" THEN "orphaned" ELSE "geth"

BlockFails(r, why) == Reply(r, BlockCode(why), why, NoParts)

BlockArrive(r) == \E id \in BlockIdents : Arrive(r, id, "fetch")

(* eth_getBlockByHash or eth_getBlockByNumber, with all transactions.      *)
FetchBlock(r) ==
    /\ pc[r] = "fetch"
    /\ LET b == Resolve(want[r], chain, known)
       IN  IF b = NoBlock
           THEN BlockFails(r, "notFound")
           ELSE Proceed(r, "uncles", [NoParts EXCEPT !.header = b])
    /\ UNCHANGED <<nodeVars, gateVars>>

(* The header's roots and the lists of the body agree, and the uncles are  *)
(* read by the hash of the block.  A reply that fails a check is an error  *)
(* like any other of this call (BlockCallFails).                           *)
GetUncles(r) ==
    /\ pc[r] = "uncles"
    /\ Proceed(r, "receipts", got[r])
    /\ UNCHANGED <<nodeVars, gateVars>>

(* One element of the batch of eth_getTransactionReceipt.  geth serves the *)
(* elements one after the other, each from the chain of that moment.       *)
ServeReceipt(r) ==
    LET b == got[r].header
        n == Len(got[r].receipts) + 1
    IN  /\ pc[r] = "receipts"
        /\ n <= Len(Txs[b])
        /\ \E part \in {TxBlock(chain, Txs[b][n]), RpcError} :
              Proceed(r, "receipts",
                      [got[r] EXCEPT !.receipts = Append(@, part)])
        /\ UNCHANGED <<nodeVars, gateVars>>

(* getBlockReceipts looks at the elements in order and returns the error   *)
(* of the first one that is not a receipt of the block.                    *)
ReceiptError(part) ==
    CASE part = RpcError -> "rpc"
      [] part = NoBlock  -> "emptyReceipt"
      [] OTHER           -> "orphaned"

(* Mutant: only nil receipts are rejected, their block is not compared.    *)
CheckReceiptsUnmatched(r) ==
    LET b == got[r].header
        rs == got[r].receipts
        bad == {i \in 1..Len(rs) : rs[i] \notin Blocks}
    IN  /\ pc[r] = "receipts"
        /\ Len(rs) = Len(Txs[b])
        /\ IF bad = {}
           THEN Proceed(r, IF Number[b] = 0 THEN "populate" ELSE "traces", got[r])
           ELSE BlockFails(r, "rpc")
        /\ UNCHANGED <<nodeVars, gateVars>>

CheckReceipts(r) ==
    LET b == got[r].header
        rs == got[r].receipts
        bad == {i \in 1..Len(rs) : rs[i] # b}
    IN  /\ pc[r] = "receipts"
        /\ Len(rs) = Len(Txs[b])
        /\ \/ /\ bad = {}
              /\ Proceed(r, IF Number[b] = 0 THEN "populate" ELSE "traces",
                         got[r])
           \/ \E i \in bad :
                 /\ \A j \in bad : i <= j
                 /\ BlockFails(r, ReceiptError(rs[i]))
        /\ UNCHANGED <<nodeVars, gateVars>>

(* getBlockTraces: acquire a unit, perhaps wait for it.                    *)
AcquireForBlock(r) ==
    /\ pc[r] = "traces"
    /\ Acquire(r)
    /\ Proceed(r, "tracing", got[r])
    /\ UNCHANGED nodeVars

ResumeForBlock(r) ==
    /\ pc[r] = "tracing"
    /\ Resume(r)
    /\ UNCHANGED <<nodeVars, reqVars>>

GiveUpBlockTraces(r) ==
    /\ pc[r] = "tracing"
    /\ r \in gone
    /\ Abandon(r)
    /\ BlockFails(r, "canceled")
    /\ UNCHANGED nodeVars

(* debug_traceBlockByHash returns, and the unit is released.  The element  *)
(* of a transaction whose tracer failed has no result.                     *)
BlockTracesReturn(r) ==
    /\ pc[r] = "tracing"
    /\ Release(r)
    /\ \E tr \in {got[r].header, NoBlock} :
          Proceed(r, "populate", [got[r] EXCEPT !.trace = tr])
    /\ UNCHANGED nodeVars

(* getBlock pairs the transactions with receipts and traces, and           *)
(* populateTransactions flattens each trace: a missing one is a nil        *)
(* pointer there.  Genesis has no traces, and no transaction to need one.  *)
PopulateBlock(r) ==
    /\ pc[r] = "populate"
    /\ IF Txs[got[r].header] # <<>> /\ got[r].trace = NoBlock
       THEN Reply(r, "aborted", "nilTrace", NoParts)
       ELSE Reply(r, "ok", "", got[r])
    /\ UNCHANGED <<nodeVars, gateVars>>

(* Mutant: the deferred Release comes before Acquire, and so is run by     *)
(* calls that fail without a unit.                                         *)
BlockCallFailsReleasing(r) ==
    /\ pc[r] \in {"fetch", "uncles", "receipts", "tracing"}
    /\ Notify(cur - 1, waiters, [slot EXCEPT ![r] = "none"])
    /\ BlockFails(r, "rpc")
    /\ UNCHANGED nodeVars

(* Mutant: Release is called on the path of success only.                  *)
BlockCallFailsLeaking(r) ==
    /\ pc[r] \in {"fetch", "uncles", "receipts", "tracing"}
    /\ pc[r] = "tracing" => slot[r] = "calling"
    /\ BlockFails(r, "rpc")
    /\ UNCHANGED <<nodeVars, gateVars>>

(* A call of geth fails: it is refused, times out (the client's 120s), is  *)
(* canceled with the request, or its reply does not parse.                 *)
BlockCallFails(r) ==
    /\ \/ /\ pc[r] \in {"fetch", "uncles", "receipts"}
          /\ UNCHANGED gateVars
       \/ /\ pc[r] = "tracing"
          /\ Release(r)
    /\ BlockFails(r, "rpc")
    /\ UNCHANGED nodeVars

-----------------------------------------------------------------------------
(* The steps the goroutine of r takes, given that its calls return.        *)
BlockStep(r) ==
    \/ FetchBlock(r)
    \/ GetUncles(r)
    \/ ServeReceipt(r)
    \/ CheckReceipts(r)
    \/ AcquireForBlock(r)
    \/ ResumeForBlock(r)
    \/ GiveUpBlockTraces(r)
    \/ BlockTracesReturn(r)
    \/ PopulateBlock(r)
    \/ BlockCallFails(r)

BlockNext ==
    \/ \E r \in BlockReqs : BlockArrive(r) \/ BlockStep(r) \/ Disconnect(r)
    \/ \E c \in Chains : NewHead(c)

(* A goroutine that can run does, and each of its calls ends by the        *)
(* client's timeout at the latest: BlockStep always has an outcome that    *)
(* moves it on, except while it is blocked at the gate.                    *)
BlockFairness == \A r \in BlockReqs : WF_readVars(BlockStep(r))

BlockSpec == RequestsInit /\ [][BlockNext]_readVars /\ BlockFairness

-----------------------------------------------------------------------------
(* The implementation of the abstract specification.                       *)
IsWhole(parts) ==
    LET b == parts.header
    IN  /\ Len(parts.receipts) = Len(Txs[b])
        /\ \A i \in 1..Len(parts.receipts) : parts.receipts[i] = b
        /\ Txs[b] # <<>> => parts.trace = b

AbstractResult(a) ==
    CASE a.code = "none"     -> [code |-> "none", block |-> NoBlock]
      [] a.code = "ok"       -> [code  |-> IF IsWhole(a.parts) THEN "ok" ELSE "torn",
                                 block |-> a.parts.header]
      [] a.code = "orphaned" -> [code |-> "orphaned", block |-> NoBlock]
      [] OTHER               -> [code |-> "failed", block |-> NoBlock]

Promise == INSTANCE BlockRead WITH
    phase  <- [r \in BlockReqs |-> CASE pc[r] = "idle" -> "idle"
                                     [] pc[r] = "done" -> "answered"
                                     [] OTHER          -> "open"],
    wanted <- [r \in BlockReqs |-> want[r]],
    result <- [r \in BlockReqs |-> AbstractResult(answer[r])],
    seen   <- [r \in BlockReqs |-> seen[r]]

(* /block keeps the promise of BlockRead through every interleaving of its *)
(* calls with reorganisations (client.go:413-498, 590-630): what it        *)
(* answers is one whole block the request could name, and "orphaned" is    *)
(* answered only when the chain really took a transaction away.            *)
KeepsPromise == Promise!Spec

(* errors.go:123-131: ErrBlockOrphaned "is returned when a block being     *)
(* processed is orphaned and it is not possible to gather all receipts".   *)
(* Here: whenever the receipts could not be gathered although every call   *)
(* succeeded, the answer is the retriable one.                             *)
MissingReceiptIsRetriable ==
    \A r \in BlockReqs :
        answer[r].why \in {"orphaned", "emptyReceipt"} => Retriable(answer[r].code)
=============================================================================
