---------------------------- MODULE ReadRequests ----------------------------
(***************************************************************************)
(* What the reads of /block and /block/transaction and the queries have   *)
(* in common.  The HTTP server runs every request in a goroutine of its    *)
(* own; the requests share geth (EthNode) and the trace semaphore          *)
(* (TraceGate), and nothing else.  A request serves one client call and is *)
(* then done.                                                              *)
(***************************************************************************)
EXTENDS EthNode, TraceGate

CONSTANT RpcError     \* the error of one element of a batch call

ASSUME RequestAssumption == RpcError \notin Blocks \cup {NoBlock}

VARIABLES
    pc,        \* pc[r]: the next call or step of the goroutine r
    want,      \* want[r]: what the client asked for
    got,       \* got[r]: what the goroutine has read from geth so far
    answer,    \* answer[r]: the response
    gone,      \* requests whose context ended (the client hung up)
    seen       \* history: the chains that were canonical while r was open

reqVars == <<pc, want, got, answer, gone, seen>>
readVars == <<nodeVars, gateVars, reqVars>>

(* The parts of a response that come from different calls of geth, each by *)
(* the block it is about: what identifies the block, receipts, and what    *)
(* was computed on the block's state, a trace or a balance.  The latter is *)
(* NoBlock until it is there, or when geth left out a result.              *)
Part  == Blocks \cup {NoBlock, RpcError}
Parts == [header : Blocks \cup {NoBlock}, receipts : Seq(Part),
          trace : Blocks \cup {NoBlock}]

NoParts == [header |-> NoBlock, receipts |-> <<>>, trace |-> NoBlock]

(* "ok", ErrBlockOrphaned, ErrGeth, ErrCallParametersInvalid,              *)
(* ErrCallMethodInvalid; and "aborted": the handler panicked, net/http     *)
(* recovered and closed the connection without a response.                 *)
Codes == {"none", "ok", "orphaned", "geth", "params", "method", "aborted"}

(* The cause: quoted in the details of the error (wrapErr), or the nil     *)
(* pointer that was read.                                                  *)
Whys == {"", "notFound", "rpc", "canceled", "emptyReceipt", "orphaned",
         "fee", "nilReceipt", "nilFee", "nilTrace", "nullBlock", "invalid"}

Answers == [code : Codes, why : Whys, parts : Parts]

NoAnswer == [code |-> "none", why |-> "", parts |-> NoParts]

(* The field Retriable of services/errors.go.                              *)
Retriable(code) == code = "orphaned"

Stages == {"idle", "fetch", "uncles", "receipts", "lookup", "header",
           "receipt", "traces", "tracing", "populate", "query", "sync", "peers",
          "done"}

Open(r) == pc[r] \notin {"idle", "done"}

-----------------------------------------------------------------------------
RequestsInit ==
    /\ NodeInit
    /\ GateInit
    /\ pc = [r \in Callers |-> "idle"]
    /\ want = [r \in Callers |-> [by |-> "none"]]
    /\ got = [r \in Callers |-> NoParts]
    /\ answer = [r \in Callers |-> NoAnswer]
    /\ gone = {}
    /\ seen = [r \in Callers |-> {}]

Arrive(r, w, stage) ==
    /\ pc[r] = "idle"
    /\ pc' = [pc EXCEPT ![r] = stage]
    /\ want' = [want EXCEPT ![r] = w]
    /\ seen' = [seen EXCEPT ![r] = {chain}]
    /\ UNCHANGED <<nodeVars, gateVars, got, answer, gone>>

(* The handler returns; what its goroutine had read is gone.               *)
Reply(r, code, why, parts) ==
    /\ pc' = [pc EXCEPT ![r] = "done"]
    /\ answer' = [answer EXCEPT ![r] =
                     [code |-> code, why |-> why, parts |-> parts]]
    /\ got' = [got EXCEPT ![r] = NoParts]
    /\ UNCHANGED <<want, gone, seen>>

(* The goroutine goes on to its next stage with what it has read.          *)
Proceed(r, stage, parts) ==
    /\ pc' = [pc EXCEPT ![r] = stage]
    /\ got' = [got EXCEPT ![r] = parts]
    /\ UNCHANGED <<want, answer, gone, seen>>

Disconnect(r) ==
    /\ Open(r)
    /\ r \notin gone
    /\ gone' = gone \cup {r}
    /\ UNCHANGED <<nodeVars, gateVars, pc, want, got, answer, seen>>

NewHead(c) ==
    /\ SetCanonical(c)
    /\ seen' = [r \in Callers |->
                   IF Open(r) THEN seen[r] \cup {c} ELSE seen[r]]
    /\ UNCHANGED <<gateVars, pc, want, got, answer, gone>>

RequestsTypeOK ==
    /\ NodeTypeOK
    /\ GateTypeOK
    /\ pc \in [Callers -> Stages]
    /\ got \in [Callers -> Parts]
    /\ answer \in [Callers -> Answers]
    /\ gone \subseteq Callers
    /\ seen \in [Callers -> SUBSET Chains]
=============================================================================
