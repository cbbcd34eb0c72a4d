------------------------------- MODULE TxFetch -------------------------------
(***************************************************************************)
(* /block/transaction: BlockAPIService.BlockTransaction and                *)
(* Client.Transaction, one action per call of geth.  The transaction and   *)
(* its receipt and trace are looked up by the transaction's hash, and so   *)
(* on the chain of the moment; the header is the one of the block that the *)
(* request names.                                                          *)
(***************************************************************************)
EXTENDS ReadRequests

CONSTANTS
    TxReqs,      \* the requests of /block/transaction
    TxWants      \* what they ask for: a block identifier and a transaction

ASSUME TxAssumption ==
    /\ TxReqs \subseteq Callers
    /\ TxWants \subseteq [block : Idents, tx : TxIds]

VARIABLE
    body     \* body[r]: blockHash of the looked-up transaction; NoBlock: null

txVars == <<readVars, body>>

TxInit == RequestsInit /\ body = [r \in Callers |-> NoBlock]

TxReply(r, code, why, parts) ==
    Reply(r, code, why, parts) /\ body' = [body EXCEPT ![r] = NoBlock]

(* BlockTransaction maps every error to ErrGeth.                           *)
TxFails(r, why) == TxReply(r, "geth", why, NoParts)

TxPanics(r, why) == TxReply(r, "aborted", why, NoParts)

TxArrive(r) ==
    /\ \E w \in TxWants : Arrive(r, w, "lookup")
    /\ UNCHANGED body

(* eth_getTransactionByHash.  A transaction that is not on the chain may   *)
(* be in the mempool: geth then returns it with a null blockHash.          *)
LookupTx(r) ==
    /\ pc[r] = "lookup"
    /\ LET b == TxBlock(chain, want[r].tx)
       IN  \/ /\ b = NoBlock
              /\ TxFails(r, "notFound")
           \/ /\ Proceed(r, "header", got[r])
              /\ body' = [body EXCEPT ![r] = b]
    /\ UNCHANGED <<nodeVars, gateVars>>

(* The header of the block that was asked for.                             *)
ReadHeader(r) ==
    /\ pc[r] = "header"
    /\ LET b == Resolve(want[r].block, chain, known)
       IN  IF b = NoBlock
           THEN TxFails(r, "notFound")
           ELSE /\ Proceed(r, "receipt", [got[r] EXCEPT !.header = b])
                /\ UNCHANGED body
    /\ UNCHANGED <<nodeVars, gateVars>>

(* Mutant: the receipt is compared with the block of the request.          *)
ReadReceiptOfHeader(r) ==
    /\ pc[r] = "receipt"
    /\ LET part == TxBlock(chain, want[r].tx)
       IN  IF part = got[r].header
           THEN /\ Proceed(r, "traces", [got[r] EXCEPT !.receipts = <<part>>])
                /\ UNCHANGED body
           ELSE TxFails(r, "orphaned")
    /\ UNCHANGED <<nodeVars, gateVars>>

(* eth_getTransactionReceipt.  A null result is an error too (NotFound),   *)
(* and there is no receipt to look at then either.                         *)
TxReceipt(r) == {TxBlock(chain, want[r].tx), RpcError}

(* Transaction compares the block hashes before it looks at the error:     *)
(* without a receipt, whatever the reason, or with a null blockHash, a nil *)
(* pointer is read.                                                        *)
ReadReceipt(r) ==
    /\ pc[r] = "receipt"
    /\ \E part \in TxReceipt(r) :
          \/ /\ part \in {NoBlock, RpcError} \/ body[r] = NoBlock
             /\ TxPanics(r, "nilReceipt")
          \/ /\ part \in Blocks /\ body[r] # NoBlock /\ part # body[r]
             /\ TxFails(r, "orphaned")
          \/ /\ part \in Blocks /\ part = body[r]
             /\ Proceed(r, IF Number[got[r].header] = 0 THEN "populate"
                           ELSE "traces",
                        [got[r] EXCEPT !.receipts = <<part>>])
             /\ UNCHANGED body
    /\ UNCHANGED <<nodeVars, gateVars>>

(* getTransactionTraces.                                                   *)
AcquireForTx(r) ==
    /\ pc[r] = "traces"
    /\ Acquire(r)
    /\ Proceed(r, "tracing", got[r])
    /\ UNCHANGED <<nodeVars, body>>

ResumeForTx(r) ==
    /\ pc[r] = "tracing"
    /\ Resume(r)
    /\ UNCHANGED <<nodeVars, reqVars, body>>

GiveUpTxTraces(r) ==
    /\ pc[r] = "tracing"
    /\ r \in gone
    /\ Abandon(r)
    /\ TxFails(r, "canceled")
    /\ UNCHANGED nodeVars

(* Mutant: the trace is the one of the block that was asked for.           *)
TxTracesOfHeader(r) ==
    /\ pc[r] = "tracing"
    /\ Release(r)
    /\ Proceed(r, "populate", [got[r] EXCEPT !.trace = got[r].header])
    /\ UNCHANGED <<nodeVars, body>>

(* debug_traceTransaction runs the transaction in the block that includes  *)
(* it now; it is an error of the call if there is none.                    *)
TxTracesReturn(r) ==
    /\ pc[r] = "tracing"
    /\ Release(r)
    /\ LET b == TxBlock(chain, want[r].tx)
       IN  IF b = NoBlock
           THEN TxFails(r, "rpc")
           ELSE /\ Proceed(r, "populate", [got[r] EXCEPT !.trace = b])
                /\ UNCHANGED body
    /\ UNCHANGED nodeVars

(* calculateGas takes the base fee from the header.  The header of another *)
(* block may give another fee, one the transaction does not pay (an        *)
(* error), or, before London, none (a nil pointer).                        *)
FeeOutcomes(header, receipt) ==
    IF header = receipt THEN {"fine"} ELSE {"fine", "low", "none"}

(* populateTransaction flattens the trace: nil for a header of height 0.   *)
PopulateTx(r) ==
    /\ pc[r] = "populate"
    /\ \E fee \in FeeOutcomes(got[r].header, got[r].receipts[1]) :
          \/ /\ fee = "low"
             /\ TxFails(r, "fee")
          \/ /\ fee = "none"
             /\ TxPanics(r, "nilFee")
          \/ /\ fee = "fine" /\ got[r].trace = NoBlock
             /\ TxPanics(r, "nilTrace")
          \/ /\ fee = "fine" /\ got[r].trace # NoBlock
             /\ TxReply(r, "ok", "", got[r])
    /\ UNCHANGED <<nodeVars, gateVars>>

(* Mutant: the deferred Release comes before Acquire.                      *)
TxCallFailsReleasing(r) ==
    /\ pc[r] \in {"lookup", "header", "tracing"}
    /\ Notify(cur - 1, waiters, [slot EXCEPT ![r] = "none"])
    /\ TxFails(r, "rpc")
    /\ UNCHANGED nodeVars

(* Mutant: Release is called on the path of success only.                  *)
TxCallFailsLeaking(r) ==
    /\ pc[r] \in {"lookup", "header", "tracing"}
    /\ pc[r] = "tracing" => slot[r] = "calling"
    /\ TxFails(r, "rpc")
    /\ UNCHANGED <<nodeVars, gateVars>>

(* A call of geth fails.                                                   *)
TxCallFails(r) ==
    /\ \/ /\ pc[r] \in {"lookup", "header"}
          /\ UNCHANGED gateVars
       \/ /\ pc[r] = "tracing"
          /\ Release(r)
    /\ TxFails(r, "rpc")
    /\ UNCHANGED nodeVars

-----------------------------------------------------------------------------
TxStep(r) ==
    \/ LookupTx(r)
    \/ ReadHeader(r)
    \/ ReadReceipt(r)
    \/ AcquireForTx(r)
    \/ ResumeForTx(r)
    \/ GiveUpTxTraces(r)
    \/ TxTracesReturn(r)
    \/ PopulateTx(r)
    \/ TxCallFails(r)

TxNext ==
    \/ \E r \in TxReqs :
          \/ TxArrive(r)
          \/ TxStep(r)
          \/ Disconnect(r) /\ UNCHANGED body
    \/ \E c \in Chains : NewHead(c) /\ UNCHANGED body

TxFairness == \A r \in TxReqs : WF_txVars(TxStep(r))

TxSpec == TxInit /\ [][TxNext]_txVars /\ TxFairness

-----------------------------------------------------------------------------
TxTypeOK ==
    /\ RequestsTypeOK
    /\ body \in [Callers -> Blocks \cup {NoBlock}]

Receipt(a) == a.parts.receipts[1]

(* The receipt and the trace of an answer come from blocks that were       *)
(* canonical while the request was open, whatever block the request named  *)
(* and whatever geth did meanwhile (client.go:225-273).                    *)
TxAnswerWasCanonical ==
    \A r \in TxReqs : answer[r].code = "ok" =>
        /\ \E c \in seen[r] : Receipt(answer[r]) \in c
        /\ \E c \in seen[r] : answer[r].parts.trace \in c
        /\ want[r].tx \in TxSet(Receipt(answer[r])) \cap TxSet(answer[r].parts.trace)

(* An answer is put together from four calls, and nothing compares their    *)
(* blocks but the lookup and the receipt (client.go:225-273).  Whatever    *)
(* geth's chains did in between, as long as the transaction itself stayed  *)
(* in one block the receipt and the trace are of that block, the header is *)
(* too unless the request named one that was not on these chains or does   *)
(* not hold the transaction, and no request is told of an orphan.          *)
TornOnlyIfMoved ==
    \A r \in TxReqs, b \in Blocks :
        LET parts == answer[r].parts
        IN  /\ pc[r] = "done" /\ seen[r] # {}
            /\ \A c \in seen[r] : TxBlock(c, want[r].tx) = b
            => /\ answer[r].why # "orphaned"
               /\ answer[r].code = "ok" =>
                     /\ parts.receipts = <<b>> /\ parts.trace = b
                     /\ /\ want[r].tx \in TxSet(parts.header)
                        /\ \E c \in seen[r] : parts.header \in c
                        => parts.header = b

(* "Note that the receipt is not available for pending transactions"       *)
(* (client.go:998-999): a transaction without a receipt is an error that   *)
(* Transaction reports (client.go:259-261), it never crashes the handler.  *)
MissingReceiptIsReported ==
    \A r \in TxReqs : answer[r].why # "nilReceipt"
=============================================================================
