------------------------------- MODULE Queries -------------------------------
(***************************************************************************)
(* The queries of an online process that need no trace: /network/status,   *)
(* /account/balance and /call (Client.Status, Balance and Call), one       *)
(* action per call of geth.  An offline process answers all of them with   *)
(* ErrUnavailableOffline and calls nothing.                                *)
(***************************************************************************)
EXTENDS ReadRequests

CONSTANTS
    QueryReqs,       \* the requests of these endpoints
    QueryWants,      \* what they ask for
    NoIndex,         \* an index that is not given; NoBlock: a hash not given
    SkipGethAdmin    \* SKIP_GETH_ADMIN: geth's admin API is not to be called

(* The parameters of /call are checked before geth is called: valid.       *)
Kinds == {"status", "balance", "eth_getBlockByNumber", "eth_getTransactionReceipt",
          "eth_call", "eth_estimateGas", "unknown"}

ASSUME QueryAssumption ==
    /\ QueryReqs \subseteq Callers
    /\ NoIndex \notin Nat
    /\ SkipGethAdmin \in BOOLEAN
    /\ QueryWants \subseteq [kind : Kinds, hash : Blocks \cup {NoBlock},
                             index : Nat \cup {NoIndex}, tx : TxIds, valid : BOOLEAN]

QueryFails(r, code, why) == Reply(r, code, why, NoParts)

QueryAnswers(r, parts) == Reply(r, "ok", "", parts)

ByHashOf(w) == IF w.hash \in known THEN w.hash ELSE NoBlock

QueryArrive(r) ==
    \E w \in QueryWants : Arrive(r, w, "query")

-----------------------------------------------------------------------------
(* Status: the header of the current block, eth_syncing, admin_peers.      *)
StatusHeader(r) ==
    /\ pc[r] = "query" /\ want[r].kind = "status"
    /\ Proceed(r, "sync", [got[r] EXCEPT !.header = Tip(chain)])

SyncProgress(r) ==
    /\ pc[r] = "sync"
    /\ IF SkipGethAdmin THEN QueryAnswers(r, got[r]) ELSE Proceed(r, "peers", got[r])

Peers(r) ==
    /\ pc[r] = "peers"
    /\ QueryAnswers(r, got[r])

-----------------------------------------------------------------------------
(* Balance: one GraphQL query for the block's identity and the account's   *)
(* state; a hash counts more than an index.                                *)
BalanceBlock(w) ==
    CASE w.hash # NoBlock                       -> ByHashOf(w)
      [] w.hash = NoBlock /\ w.index # NoIndex  -> BlockAt(chain, w.index)
      [] w.hash = NoBlock /\ w.index = NoIndex  -> Tip(chain)

(* The response names b, and its amount, nonce and code are of b's state.   *)
OfBlock(b) == [header |-> b, receipts |-> <<>>, trace |-> b]

(* Mutant: the errors of the reply are not looked at.                      *)
BalanceErrorsIgnored(r) ==
    /\ pc[r] = "query" /\ want[r].kind = "balance"
    /\ LET b == BalanceBlock(want[r])
       IN  IF b = NoBlock THEN QueryFails(r, "aborted", "nullBlock")
           ELSE QueryAnswers(r, OfBlock(b))

(* Mutant: the block's identity and the account's state in two calls.      *)
BalanceInTwoCalls(r) ==
    /\ pc[r] = "query" /\ want[r].kind = "balance"
    /\ LET b == BalanceBlock(want[r])
       IN  CASE b = NoBlock -> QueryFails(r, "geth", "notFound")
             [] b # NoBlock /\ got[r].header = NoBlock ->
                  Proceed(r, "query", [got[r] EXCEPT !.header = b])
             [] b # NoBlock /\ got[r].header # NoBlock ->
                  QueryAnswers(r, [got[r] EXCEPT !.trace = b])

(* Geth reports an unknown hash as an error.  A height it does not have is *)
(* a null block and no error: the balance is cut out of an empty string.   *)
Balance(r) ==
    /\ pc[r] = "query" /\ want[r].kind = "balance"
    /\ LET b == BalanceBlock(want[r])
       IN  CASE b # NoBlock ->
                  QueryAnswers(r, OfBlock(b))
             [] b = NoBlock /\ want[r].hash # NoBlock -> QueryFails(r, "geth", "notFound")
             [] b = NoBlock /\ want[r].hash = NoBlock -> QueryFails(r, "aborted", "nullBlock")

-----------------------------------------------------------------------------
(* Call.                                                                   *)
RejectCall(r) ==
    /\ pc[r] = "query"
    /\ \/ /\ want[r].kind = "unknown"
          /\ QueryFails(r, "method", "invalid")
       \/ /\ want[r].kind \in Kinds \ {"unknown", "status", "balance"}
          /\ ~want[r].valid
          /\ QueryFails(r, "params", "invalid")

Calls(r, method) == pc[r] = "query" /\ want[r].kind = method /\ want[r].valid

(* blockByNumber: an index that is not given is the latest block.  A null  *)
(* leaves the map it is decoded into as it was made, so that the test for  *)
(* "not found" never holds: a height that the chain does not have is       *)
(* answered with an empty result, NoBlock.                                 *)
GetBlockByNumber(r) ==
    /\ Calls(r, "eth_getBlockByNumber")
    /\ LET b == IF want[r].index = NoIndex THEN Tip(chain)
                ELSE BlockAt(chain, want[r].index)
       IN  QueryAnswers(r, [got[r] EXCEPT !.header = b])

GetTransactionReceipt(r) ==
    /\ Calls(r, "eth_getTransactionReceipt")
    /\ LET b == TxBlock(chain, want[r].tx)
       IN  IF b = NoBlock THEN QueryFails(r, "geth", "notFound")
           ELSE QueryAnswers(r, [got[r] EXCEPT !.receipts = <<b>>])

(* contractCall: an index above 0, else a hash, else the latest block.  An *)
(* index that is not given is 0, like the one of the genesis block.        *)
CallBlock(w) ==
    LET index == IF w.index = NoIndex THEN 0 ELSE w.index
    IN  CASE index > 0                       -> BlockAt(chain, index)
          [] index = 0 /\ w.hash # NoBlock   -> ByHashOf(w)
          [] index = 0 /\ w.hash = NoBlock   -> Tip(chain)

ContractCall(r) ==
    /\ Calls(r, "eth_call")
    /\ LET b == CallBlock(want[r])
       IN  IF b = NoBlock THEN QueryFails(r, "geth", "rpc")
           ELSE QueryAnswers(r, [got[r] EXCEPT !.trace = b])

EstimateGas(r) ==
    /\ Calls(r, "eth_estimateGas")
    /\ QueryAnswers(r, [got[r] EXCEPT !.trace = Tip(chain)])

(* A call of geth fails, or its client has gone.                           *)
QueryCallFails(r) ==
    /\ \/ /\ pc[r] = "query"
          /\ want[r].kind # "unknown" /\ want[r].valid
       \/ pc[r] \in {"sync", "peers"}
    /\ QueryFails(r, "geth", "rpc")

-----------------------------------------------------------------------------
QueryStep(r) ==
    /\ \/ StatusHeader(r) \/ SyncProgress(r) \/ Peers(r)
       \/ Balance(r)
       \/ RejectCall(r)
       \/ GetBlockByNumber(r) \/ GetTransactionReceipt(r)
       \/ ContractCall(r) \/ EstimateGas(r)
       \/ QueryCallFails(r)
    /\ UNCHANGED <<nodeVars, gateVars>>

-----------------------------------------------------------------------------
(* The block a request is about, on the chain c.  /call with index 0 is    *)
(* answered for the latest block instead of the genesis block, and with an *)
(* index and a hash for the index (client.go:1053-1058).                   *)
Subject(w, c) ==
    CASE w.kind = "eth_getTransactionReceipt" -> TxBlock(c, w.tx)
      [] w.kind \in {"balance", "eth_call"} /\ w.hash # NoBlock -> w.hash
      [] w.kind \in {"balance", "eth_call"} /\ w.hash = NoBlock /\ w.index # NoIndex
           -> BlockAt(c, w.index)
      [] w.kind = "eth_getBlockByNumber" /\ w.index # NoIndex -> BlockAt(c, w.index)
      [] OTHER -> Tip(c)

MistakenCall(w) ==
    /\ w.kind = "eth_call"
    /\ \/ w.index = 0 /\ w.hash = NoBlock
       \/ w.index # NoIndex /\ w.hash # NoBlock

PartsOf(a) ==
    {a.parts.header, a.parts.trace} \cup {a.parts.receipts[i] : i \in DOMAIN a.parts.receipts}

(* The answer a to w is right on the chain c: all there is in it is of the *)
(* subject.  One with nothing in it is of eth_getBlockByNumber.            *)
RightOn(c, w, a) ==
    LET b == Subject(w, c)
    IN  /\ b = NoBlock => w.kind = "eth_getBlockByNumber"
        /\ PartsOf(a) \ {NoBlock} = {b} \ {NoBlock}

(* A query is answered for the block it names, as the chain was at one     *)
(* moment while it was open, in all its parts: a balance is never told     *)
(* with the identity of another block ("we must use graphql to get the     *)
(* balance atomically", client.go:1407-1410; README.md:92), a status names *)
(* a block that was the current one, and an empty result is told only of a *)
(* height that the chain did not have (client.go:1027-1035).               *)
QueryAnswersItsBlock ==
    \A r \in QueryReqs : answer[r].code = "ok" /\ ~MistakenCall(want[r]) =>
        \E c \in seen[r] : RightOn(c, want[r], answer[r])

(* Of all queries only a balance asked for by a height the chain does not  *)
(* have crashes the handler (client.go:1450).                              *)
OnlyUnknownHeightAborts ==
    \A r \in QueryReqs : answer[r].code = "aborted" =>
        /\ want[r].kind = "balance" /\ want[r].hash = NoBlock
        /\ \E c \in seen[r] : BlockAt(c, want[r].index) = NoBlock
=============================================================================
