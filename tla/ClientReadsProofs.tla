-------------------------- MODULE ClientReadsProofs --------------------------
(***************************************************************************)
(* The reads never misuse the gate, for any number of requests and units   *)
(* and on any chains: every step of a request is a step of TraceGate, or   *)
(* none, and a request that is not inside getBlockTraces or                *)
(* getTransactionTraces has no unit and no place in the queue.             *)
(* And their answers are right side by side: what BlockFetch promises of   *)
(* /block, and what is promised of /block/transaction and of the queries,  *)
(* holds however the steps of the requests, the units and geth interleave. *)
(***************************************************************************)
EXTENDS ClientReads, TraceGateProofs, BlockFetchProofs

(* slot and pc agree on who is at the gate.                                *)
GateFollowsPc == \A r \in Callers : slot[r] # "none" => pc[r] = "tracing"

ReadsInv == GateInv /\ pc \in [Callers -> Stages] /\ GateFollowsPc

GoesTo(r, s) == s \in Stages /\ pc' = [pc EXCEPT ![r] = s]

(* The shapes that a step of r can have, as far as the gate is concerned.  *)
OutsideGate(r) == UNCHANGED gateVars /\ pc[r] # "tracing" /\ \E s : GoesTo(r, s)
EntersGate(r)  == Acquire(r) /\ GoesTo(r, "tracing")
StaysInGate(r) == Resume(r) /\ UNCHANGED pc
LeavesGate(r)  == (Abandon(r) \/ Release(r)) /\ \E s : GoesTo(r, s)

GateShape(r) ==
    OutsideGate(r) \/ EntersGate(r) \/ StaysInGate(r) \/ LeavesGate(r)

-----------------------------------------------------------------------------
(* Whoever a release wakes was at the gate already.                        *)
LEMMA NotifyWakesBlocked ==
    ASSUME NEW n, NEW ws, NEW sl, Notify(n, ws, sl),
           NEW d \in Callers, slot'[d] # "none", Len(ws) \in Nat,
           n \in Int, n <= MaxTraceConcurrency
    PROVE  sl[d] # "none" \/ \E i \in 1..Len(ws) : ws[i] = d
<1> DEFINE free == MaxTraceConcurrency - n
           k    == IF Len(ws) < free THEN Len(ws) ELSE free
<1>1. slot' = [c \in Callers |->
                  IF \E i \in 1..k : ws[i] = c THEN "granted" ELSE sl[c]]
  BY DEF Notify
<1>2. \A i \in 1..k : i \in 1..Len(ws)
  BY GateAssumption
<1> HIDE DEF k
<1> QED BY <1>1, <1>2

(* Such a step keeps the gate in order, and slot and pc in agreement.      *)
LEMMA ShapeKeepsInv ==
    ASSUME ReadsInv, NEW r \in Callers, GateShape(r)
    PROVE  ReadsInv'
<1> USE GateAssumption
<1>0. /\ GateInv /\ GateTypeOK /\ QueueIsBlocked /\ NoLostWakeup
      /\ pc \in [Callers -> Stages] /\ GateFollowsPc
      /\ waiters \in Seq(Callers) /\ Len(waiters) \in Nat
  BY LenProperties DEF ReadsInv, GateInv, GateTypeOK
<1>1. pc' \in [Callers -> Stages]
  BY <1>0 DEF GateShape, OutsideGate, EntersGate, StaysInGate, LeavesGate, GoesTo
<1>2. GateInv'
  <2>1. CASE UNCHANGED gateVars
    BY <2>1, <1>0, StepKeepsInv
  <2>2. CASE Acquire(r) \/ Resume(r) \/ Abandon(r) \/ Release(r)
    BY <2>2, <1>0, AcquireKeepsInv, ResumeKeepsInv, AbandonKeepsInv,
       ReleaseKeepsInv
  <2> QED BY <2>1, <2>2 DEF GateShape, OutsideGate, EntersGate, StaysInGate,
                            LeavesGate
<1>3. ASSUME NEW d \in Callers, slot'[d] # "none"
      PROVE  pc'[d] = "tracing"
  <2>1. CASE OutsideGate(r)
    BY <2>1, <1>0, <1>3 DEF OutsideGate, GoesTo, GateFollowsPc, gateVars
  <2>2. CASE EntersGate(r)
    <3>1. d = r \/ slot'[d] = slot[d]
      BY <2>2, <1>0 DEF EntersGate, Acquire, GateTypeOK
    <3> QED BY <3>1, <2>2, <1>0, <1>3 DEF EntersGate, GoesTo, GateFollowsPc, Stages
  <2>3. CASE StaysInGate(r)
    <3>1. slot[d] # "none"
      BY <2>3, <1>0, <1>3 DEF StaysInGate, Resume, GateTypeOK
    <3> QED BY <3>1, <2>3, <1>0 DEF StaysInGate, GateFollowsPc
  <2>4. CASE LeavesGate(r)
    <3> DEFINE freed == [slot EXCEPT ![r] = "none"]
    <3>1. d # r => pc'[d] = pc[d]
      BY <2>4, <1>0 DEF LeavesGate, GoesTo
    <3>2. d # r /\ slot[d] # "none"
      <4>1. CASE Abandon(r)
        <5>1. cur = MaxTraceConcurrency
          <6>1. waiters # <<>>
            BY <4>1 DEF Abandon
          <6> QED BY <6>1, <1>0 DEF NoLostWakeup
        <5>2. slot' = freed
          BY <4>1, <5>1, <1>0 DEF Abandon
        <5> QED BY <5>2, <1>0, <1>3 DEF GateTypeOK
      <4>2. CASE Release(r)
        <5>1. Notify(cur - 1, waiters, freed) /\ slot[r] = "calling"
          BY <4>2 DEF Release
        <5>2. cur - 1 \in Int /\ cur - 1 <= MaxTraceConcurrency
          BY <1>0 DEF GateTypeOK
        <5>3. freed[d] # "none" \/ \E i \in 1..Len(waiters) : waiters[i] = d
          <6> HIDE DEF freed
          <6> QED BY <5>1, <5>2, <1>0, <1>3, NotifyWakesBlocked
        <5>4. CASE freed[d] # "none"
          BY <5>4, <1>0 DEF GateTypeOK
        <5>5. CASE \E i \in 1..Len(waiters) : waiters[i] = d
          <6>1. slot[d] = "waiting"
            BY <5>5, <1>0 DEF QueueIsBlocked
          <6> QED BY <6>1, <5>1
        <5> QED BY <5>3, <5>4, <5>5
      <4> QED BY <4>1, <4>2, <2>4 DEF LeavesGate
    <3> QED BY <3>1, <3>2, <1>0 DEF GateFollowsPc
  <2> QED BY <2>1, <2>2, <2>3, <2>4 DEF GateShape
<1>4. GateFollowsPc'
  BY <1>3 DEF GateFollowsPc
<1> QED BY <1>1, <1>2, <1>4 DEF ReadsInv

-----------------------------------------------------------------------------
(* Each action of /block has one of the shapes.                            *)
LEMMA BlockStepShape ==
    ASSUME ReadsInv, NEW r \in BlockReqs, BlockArrive(r) \/ BlockStep(r)
    PROVE  GateShape(r)
<1> USE DEF GoesTo, Stages
<1>1. CASE BlockArrive(r)
  BY <1>1 DEF BlockArrive, Arrive, GateShape, OutsideGate
<1>2. CASE FetchBlock(r)
  BY <1>2 DEF FetchBlock, BlockFails, Reply, Proceed, GateShape, OutsideGate
<1>3. CASE GetUncles(r)
  BY <1>3 DEF GetUncles, Proceed, GateShape, OutsideGate
<1>4. CASE ServeReceipt(r)
  <2>1. /\ UNCHANGED gateVars /\ pc[r] = "receipts"
        /\ pc' = [pc EXCEPT ![r] = "receipts"]
    BY <1>4 DEF ServeReceipt, Proceed
  <2> QED BY <2>1 DEF GateShape, OutsideGate
<1>5. CASE CheckReceipts(r)
  <2>1. /\ UNCHANGED gateVars /\ pc[r] = "receipts"
        /\ \E s \in {"populate", "traces", "done"} : pc' = [pc EXCEPT ![r] = s]
    BY <1>5 DEF CheckReceipts, BlockFails, Reply, Proceed
  <2> QED BY <2>1 DEF GateShape, OutsideGate
<1>6. CASE AcquireForBlock(r)
  BY <1>6 DEF AcquireForBlock, Proceed, GateShape, EntersGate
<1>7. CASE ResumeForBlock(r)
  BY <1>7 DEF ResumeForBlock, reqVars, GateShape, StaysInGate
<1>8. CASE GiveUpBlockTraces(r)
  BY <1>8 DEF GiveUpBlockTraces, BlockFails, Reply, GateShape, LeavesGate
<1>9. CASE BlockTracesReturn(r)
  BY <1>9 DEF BlockTracesReturn, Proceed, GateShape, LeavesGate
<1>10. CASE PopulateBlock(r)
  BY <1>10 DEF PopulateBlock, Reply, GateShape, OutsideGate
<1>11. CASE BlockCallFails(r)
  BY <1>11 DEF BlockCallFails, BlockFails, Reply, GateShape, OutsideGate, LeavesGate
<1> QED BY <1>1, <1>2, <1>3, <1>4, <1>5, <1>6, <1>7, <1>8, <1>9, <1>10, <1>11
        DEF BlockStep

(* Each action of /block/transaction has one of the shapes.                *)
LEMMA TxStepShape ==
    ASSUME ReadsInv, NEW r \in TxReqs, TxArrive(r) \/ TxStep(r)
    PROVE  GateShape(r)
<1> USE DEF GoesTo, Stages, TxFails, TxPanics, TxReply, Reply, Proceed
<1>1. CASE TxArrive(r)
  BY <1>1 DEF TxArrive, Arrive, GateShape, OutsideGate
<1>2. CASE LookupTx(r)
  BY <1>2 DEF LookupTx, GateShape, OutsideGate
<1>3. CASE ReadHeader(r)
  BY <1>3 DEF ReadHeader, GateShape, OutsideGate
<1>4. CASE ReadReceipt(r)
  <2>1. /\ UNCHANGED gateVars /\ pc[r] = "receipt"
        /\ \E s \in {"populate", "traces", "done"} : pc' = [pc EXCEPT ![r] = s]
    BY <1>4 DEF ReadReceipt
  <2> QED BY <2>1 DEF GateShape, OutsideGate
<1>5. CASE AcquireForTx(r)
  BY <1>5 DEF AcquireForTx, GateShape, EntersGate
<1>6. CASE ResumeForTx(r)
  BY <1>6 DEF ResumeForTx, reqVars, GateShape, StaysInGate
<1>7. CASE GiveUpTxTraces(r)
  BY <1>7 DEF GiveUpTxTraces, GateShape, LeavesGate
<1>8. CASE TxTracesReturn(r)
  BY <1>8 DEF TxTracesReturn, GateShape, LeavesGate
<1>9. CASE PopulateTx(r)
  <2>1. /\ UNCHANGED gateVars /\ pc[r] = "populate"
        /\ pc' = [pc EXCEPT ![r] = "done"]
    BY <1>9 DEF PopulateTx
  <2> QED BY <2>1 DEF GateShape, OutsideGate
<1>10. CASE TxCallFails(r)
  BY <1>10 DEF TxCallFails, GateShape, OutsideGate, LeavesGate
<1> QED BY <1>1, <1>2, <1>3, <1>4, <1>5, <1>6, <1>7, <1>8, <1>9, <1>10 DEF TxStep

(* The queries never come near the gate.                                   *)
LEMMA QueryStepShape ==
    ASSUME ReadsInv, NEW r \in QueryReqs, QueryArrive(r) \/ QueryStep(r)
    PROVE  GateShape(r)
<1> DEFINE near == UNCHANGED gateVars /\ pc[r] # "tracing"
           goes == \E s \in {"query", "sync", "peers", "done"} : pc' = [pc EXCEPT ![r] = s]
<1> USE DEF QueryFails, QueryAnswers, Reply, Proceed
<1>1. near
  <2>1. CASE QueryArrive(r)
    BY <2>1 DEF QueryArrive, Arrive
  <2>2. CASE QueryStep(r)
    BY <2>2 DEF QueryStep, StatusHeader, SyncProgress, Peers, Balance, RejectCall,
                Calls, GetBlockByNumber, GetTransactionReceipt, ContractCall,
                EstimateGas, QueryCallFails
  <2> QED BY <2>1, <2>2
<1>2. goes
  <2>1. CASE QueryArrive(r)
    BY <2>1 DEF QueryArrive, Arrive
  <2>2. CASE StatusHeader(r) \/ SyncProgress(r) \/ Peers(r)
    BY <2>2 DEF StatusHeader, SyncProgress, Peers
  <2>3. CASE Balance(r)
    BY <2>3 DEF Balance
  <2>4. CASE RejectCall(r) \/ QueryCallFails(r)
    BY <2>4 DEF RejectCall, QueryCallFails
  <2>5. CASE GetBlockByNumber(r) \/ GetTransactionReceipt(r)
    BY <2>5 DEF GetBlockByNumber, GetTransactionReceipt
  <2>6. CASE ContractCall(r) \/ EstimateGas(r)
    BY <2>6 DEF ContractCall, EstimateGas
  <2> QED BY <2>1, <2>2, <2>3, <2>4, <2>5, <2>6 DEF QueryStep
<1> QED BY <1>1, <1>2 DEF GateShape, OutsideGate, GoesTo, Stages

(* So does every step of the reads; new heads and arrivals are outside.    *)
LEMMA ReadsStepKeepsInv == ReadsInv /\ [ReadsNext]_txVars => ReadsInv'
<1> SUFFICES ASSUME ReadsInv, [ReadsNext]_txVars PROVE ReadsInv'
  OBVIOUS
<1>1. ASSUME NEW r \in BlockReqs, BlockArrive(r) \/ BlockStep(r)
      PROVE  ReadsInv'
  BY <1>1, BlockStepShape, ShapeKeepsInv, BlockAssumption
<1>2. ASSUME NEW r \in TxReqs, TxArrive(r) \/ TxStep(r)
      PROVE  ReadsInv'
  BY <1>2, TxStepShape, ShapeKeepsInv, TxAssumption
<1>7. ASSUME NEW r \in QueryReqs, QueryArrive(r) \/ QueryStep(r)
      PROVE  ReadsInv'
  BY <1>7, QueryStepShape, ShapeKeepsInv, QueryAssumption
<1>3. CASE UNCHANGED <<gateVars, pc>>
  <2>1. GateInv'
    BY <1>3, StepKeepsInv DEF ReadsInv
  <2> QED BY <1>3, <2>1 DEF ReadsInv, GateFollowsPc, gateVars
<1>4. ASSUME NEW r, Disconnect(r) PROVE UNCHANGED <<gateVars, pc>>
  BY <1>4 DEF Disconnect
<1>5. ASSUME NEW c, NewHead(c) PROVE UNCHANGED <<gateVars, pc>>
  BY <1>5 DEF NewHead
<1>6. CASE UNCHANGED txVars
  BY <1>6, <1>3 DEF txVars, readVars, reqVars
<1> QED BY <1>1, <1>2, <1>3, <1>4, <1>5, <1>6, <1>7 DEF ReadsNext, TxNext

-----------------------------------------------------------------------------
(* The inductive invariant of the reads, as far as the gate goes.          *)
THEOREM ReadsInvariant == ReadsSpec => []ReadsInv
<1>1. TxInit => ReadsInv
  <2> SUFFICES ASSUME TxInit PROVE ReadsInv
    OBVIOUS
  <2>1. GateInv
    BY InitGateInv DEF TxInit, RequestsInit
  <2> QED BY <2>1 DEF TxInit, RequestsInit, GateInit, ReadsInv, GateFollowsPc, Stages
<1>2. ReadsInv /\ [ReadsNext]_txVars => ReadsInv'
  BY ReadsStepKeepsInv
<1> QED BY <1>1, <1>2, PTL DEF ReadsSpec

(* No way out of getBlockTraces or getTransactionTraces leaks a unit of    *)
(* the semaphore (client.go:536-588): when no request is in them, all      *)
(* units are free and nobody is queued.                                    *)
THEOREM IdleGateIsAlwaysFree == ReadsSpec => []IdleGateIsFree
<1>1. ReadsInv => IdleGateIsFree
  <2> SUFFICES ASSUME ReadsInv PROVE IdleGateIsFree
    OBVIOUS
  <2>1. ASSUME \A r \in Callers : pc[r] # "tracing"
        PROVE  cur = 0 /\ waiters = <<>>
    <3>1. \A r \in Callers : slot[r] = "none"
      BY <2>1 DEF ReadsInv, GateFollowsPc
    <3>2. Holders = {}
      BY <3>1 DEF Holders
    <3>3. cur = 0
      BY <3>2, FS_EmptySet DEF ReadsInv, GateInv, UnitsAccounted
    <3>4. cur # MaxTraceConcurrency
      BY <3>3, GateAssumption
    <3> QED BY <3>3, <3>4 DEF ReadsInv, GateInv, NoLostWakeup
  <2> QED BY <2>1 DEF ReadsInv, GateFollowsPc, IdleGateIsFree
<1> QED BY <1>1, ReadsInvariant, PTL
-----------------------------------------------------------------------------
(* What the requests read and answer.                                      *)
AnswerTypes ==
    /\ NodeTypeOK
    /\ pc \in [Callers -> Stages]
    /\ want = [r \in Callers |-> want[r]]
    /\ got \in [Callers -> Parts]
    /\ answer \in [Callers -> Answers]
    /\ gone \subseteq Callers
    /\ seen \in [Callers -> SUBSET Chains]
    /\ body \in [Callers -> Blocks \cup {NoBlock}]

(* The block that includes the transaction of r on a chain r has seen.     *)
OnChain(r, b) == \E c \in seen[r] : b = TxBlock(c, want[r].tx)

TxOk(r, parts) ==
    /\ \E b : parts.receipts = <<b>> /\ b # NoBlock /\ OnChain(r, b)
    /\ parts.trace # NoBlock /\ OnChain(r, parts.trace)

ChainChanged(r) == \E a, b : a # b /\ OnChain(r, a) /\ OnChain(r, b)

TxInv(r) ==
    /\ Open(r) => chain \in seen[r] /\ want[r] \in TxWants
    /\ ~Open(r) => got[r] = NoParts
    /\ pc[r] # "done" => answer[r] = NoAnswer
    /\ got[r].trace = NoBlock \/ OnChain(r, got[r].trace)
    /\ pc[r] \in {"header", "receipt", "traces", "tracing", "populate"} =>
          OnChain(r, body[r])
    /\ pc[r] \in {"traces", "tracing", "populate"} =>
          got[r].receipts = <<body[r]>> /\ body[r] # NoBlock
    /\ answer[r].code = "ok" => TxOk(r, answer[r].parts)
    /\ answer[r].why = "orphaned" => ChainChanged(r)

AnsweredRight(r) ==
    answer[r].code = "ok" /\ ~MistakenCall(want[r]) =>
        \E c \in seen[r] : RightOn(c, want[r], answer[r])

AbortedForHeight(r) ==
    answer[r].code = "aborted" =>
        /\ want[r].kind = "balance" /\ want[r].hash = NoBlock
        /\ \E c \in seen[r] : BlockAt(c, want[r].index) = NoBlock

QueryInv(r) ==
    /\ Open(r) => chain \in seen[r] /\ want[r] \in QueryWants
    /\ pc[r] \notin {"sync", "peers"} => got[r] = NoParts
    /\ pc[r] # "done" => answer[r] = NoAnswer
    /\ pc[r] \in {"sync", "peers"} =>
          /\ want[r].kind = "status"
          /\ got[r].receipts = <<>> /\ got[r].trace = NoBlock
          /\ \E c \in seen[r] : got[r].header = Tip(c)
    /\ AnsweredRight(r)
    /\ AbortedForHeight(r)

AllInv ==
    /\ ReadsInv
    /\ AnswerTypes
    /\ BlockInv
    /\ \A r \in TxReqs : TxInv(r)
    /\ \A r \in QueryReqs : QueryInv(r)

-----------------------------------------------------------------------------
(* A step of r leaves the other requests, and geth, as they are.           *)
Frame(r) ==
    /\ UNCHANGED <<chain, known, reorgs>>
    /\ \A q \in Callers \ {r} :
          /\ pc'[q] = pc[q] /\ want'[q] = want[q] /\ got'[q] = got[q]
          /\ answer'[q] = answer[q] /\ seen'[q] = seen[q] /\ body'[q] = body[q]

(* What a step that goes on to the stage s, or answers a, leaves behind.    *)
Proceeded(r, s, parts, b) ==
    /\ AnswerTypes' /\ Frame(r)
    /\ pc'[r] = s /\ got'[r] = parts /\ body'[r] = b
    /\ want'[r] = want[r] /\ seen'[r] = seen[r] /\ answer'[r] = answer[r]

Replied(r, a, b) ==
    /\ AnswerTypes' /\ Frame(r)
    /\ pc'[r] = "done" /\ got'[r] = NoParts /\ body'[r] = b
    /\ want'[r] = want[r] /\ seen'[r] = seen[r] /\ answer'[r] = a

(* The parts of a request that has read nothing.                           *)
LEMMA NothingIsParts == NoParts \in Parts
<1>1. NoParts.receipts \in Seq(Part)
  BY DEF NoParts
<1> QED BY <1>1 DEF NoParts, Parts

(* A step that keeps the fetched bodies writes each one back.              *)
LEMMA BodyIsKept ==
    ASSUME AnswerTypes, NEW r \in Callers, UNCHANGED body
    PROVE  \E b \in Blocks \cup {NoBlock} : body' = [body EXCEPT ![r] = b]
BY DEF AnswerTypes

(* The three ways in which a step changes the state of its request.        *)
LEMMA ArriveFrame ==
    ASSUME AnswerTypes, NEW r \in Callers, NEW w, NEW s \in Stages,
           NEW b \in Blocks \cup {NoBlock}, body' = [body EXCEPT ![r] = b],
           Arrive(r, w, s)
    PROVE  /\ AnswerTypes' /\ Frame(r)
           /\ pc[r] = "idle" /\ pc'[r] = s /\ want'[r] = w /\ seen'[r] = {chain}
           /\ got'[r] = got[r] /\ answer'[r] = answer[r]
BY DEF AnswerTypes, Arrive, Frame, nodeVars, NodeTypeOK

(* A request that makes its next call.                                     *)
LEMMA ProceedFrame ==
    ASSUME AnswerTypes, NEW r \in Callers, NEW s \in Stages, NEW parts \in Parts,
           NEW b \in Blocks \cup {NoBlock},
           Proceed(r, s, parts), body' = [body EXCEPT ![r] = b], UNCHANGED nodeVars
    PROVE  Proceeded(r, s, parts, b)
BY DEF AnswerTypes, Proceed, Proceeded, Frame, nodeVars, NodeTypeOK

(* A request that is answered.                                             *)
LEMMA ReplyFrame ==
    ASSUME AnswerTypes, NEW r \in Callers, NEW code \in Codes, NEW why \in Whys,
           NEW parts \in Parts, NEW b \in Blocks \cup {NoBlock},
           Reply(r, code, why, parts), body' = [body EXCEPT ![r] = b], UNCHANGED nodeVars
    PROVE  Replied(r, [code |-> code, why |-> why, parts |-> parts], b)
<1> DEFINE a == [code |-> code, why |-> why, parts |-> parts]
<1>1. a \in Answers
  BY DEF Answers
<1>2. /\ pc' = [pc EXCEPT ![r] = "done"] /\ answer' = [answer EXCEPT ![r] = a]
      /\ got' = [got EXCEPT ![r] = NoParts] /\ UNCHANGED <<want, gone, seen>>
  BY DEF Reply
<1> HIDE DEF a
<1>3. /\ AnswerTypes' /\ Frame(r)
      /\ pc'[r] = "done" /\ got'[r] = NoParts /\ body'[r] = b
      /\ want'[r] = want[r] /\ seen'[r] = seen[r] /\ answer'[r] = a
  BY <1>1, <1>2, NothingIsParts DEF AnswerTypes, Frame, nodeVars, NodeTypeOK, Stages
<1> QED BY <1>3 DEF a, Replied

(* A request's own condition outlives a step of another one.               *)
LEMMA FrameKeepsTx ==
    ASSUME NEW r \in Callers, Frame(r), NEW q \in TxReqs \ {r}, TxInv(q)
    PROVE  TxInv(q)'
BY TxAssumption DEF Frame, TxInv, Open, OnChain, TxOk, ChainChanged

(* A query's condition outlives a step of another request.                 *)
LEMMA FrameKeepsQuery ==
    ASSUME NEW r \in Callers, Frame(r), NEW q \in QueryReqs \ {r}, QueryInv(q)
    PROVE  QueryInv(q)'
BY QueryAssumption DEF Frame, QueryInv, Open, AnsweredRight, AbortedForHeight

(* A block read's condition outlives a step of another request.            *)
LEMMA FrameKeepsBlock ==
    ASSUME NEW r \in Callers, Frame(r), AnswerTypes', NEW q \in BlockReqs \ {r}, ReadInv(q)
    PROVE  ReadInv(q)'
BY BlockAssumption DEF Frame, ReadInv, Open, Reading, Paired, NamedSoFar, Served

-----------------------------------------------------------------------------
(* /block/transaction.                                                     *)
LEMMA TxProceeds ==
    ASSUME AnswerTypes, NEW r \in TxReqs, TxInv(r), Open(r),
           NEW s \in {"header", "receipt", "traces", "tracing", "populate"},
           NEW parts \in Parts, NEW b \in Blocks \cup {NoBlock},
           Proceed(r, s, parts), body' = [body EXCEPT ![r] = b], UNCHANGED nodeVars,
           OnChain(r, b), parts.trace = NoBlock \/ OnChain(r, parts.trace),
           s \in {"traces", "tracing", "populate"} => parts.receipts = <<b>> /\ b # NoBlock
    PROVE  AnswerTypes' /\ Frame(r) /\ TxInv(r)'
<1>1. s \in Stages /\ r \in Callers
  BY TxAssumption DEF Stages
<1>2. /\ AnswerTypes' /\ Frame(r)
      /\ pc'[r] = s /\ got'[r] = parts /\ body'[r] = b
      /\ want'[r] = want[r] /\ seen'[r] = seen[r] /\ answer'[r] = answer[r]
  <2>1. Proceeded(r, s, parts, b)
    BY <1>1, ProceedFrame
  <2> QED BY <2>1 DEF Proceeded
<1>3. \A x : OnChain(r, x)' <=> OnChain(r, x)
  BY <1>2 DEF OnChain
<1>4. answer'[r] = NoAnswer
  BY <1>2 DEF TxInv, Open
<1>5. OnChain(r, body[r])' /\ (parts.trace = NoBlock \/ OnChain(r, got[r].trace)')
  BY <1>2 DEF OnChain
<1>6. Open(r)' /\ chain' \in seen'[r] /\ want'[r] \in TxWants
  BY <1>2 DEF Open, TxInv, Frame
<1>a. NoAnswer.code = "none" /\ NoAnswer.why = ""
  BY DEF NoAnswer
<1>7. answer'[r].code = "none" /\ answer'[r].why = ""
  BY <1>4, <1>a
<1>8. TxInv(r)'
  BY <1>2, <1>4, <1>5, <1>6, <1>7 DEF TxInv
<1> QED BY <1>2, <1>8

(* An answer of Client.Transaction that the condition allows.              *)
LEMMA TxReplies ==
    ASSUME AnswerTypes, NEW r \in TxReqs, TxInv(r), NEW code \in Codes, NEW why \in Whys,
           NEW parts \in Parts, TxReply(r, code, why, parts), UNCHANGED nodeVars,
           code = "ok" => TxOk(r, parts), why = "orphaned" => ChainChanged(r)
    PROVE  AnswerTypes' /\ Frame(r) /\ TxInv(r)'
<1>1. /\ AnswerTypes' /\ Frame(r)
      /\ pc'[r] = "done" /\ got'[r] = NoParts
      /\ want'[r] = want[r] /\ seen'[r] = seen[r]
      /\ answer'[r] = [code |-> code, why |-> why, parts |-> parts]
  <2>1. r \in Callers /\ NoBlock \in Blocks \cup {NoBlock}
    BY TxAssumption
  <2>2. Reply(r, code, why, parts) /\ body' = [body EXCEPT ![r] = NoBlock]
    BY DEF TxReply
  <2>3. Replied(r, [code |-> code, why |-> why, parts |-> parts], NoBlock)
    BY <2>1, <2>2, ReplyFrame
  <2> QED BY <2>3 DEF Replied
<1>a. answer'[r].code = code /\ answer'[r].why = why /\ answer'[r].parts = parts
  BY <1>1
<1>2. code = "ok" => TxOk(r, answer[r].parts)'
  BY <1>1, <1>a DEF TxOk, OnChain
<1>3. why = "orphaned" => ChainChanged(r)'
  BY <1>1 DEF ChainChanged, OnChain
<1>4. got'[r].trace = NoBlock
  BY <1>1 DEF NoParts
<1>5. TxInv(r)'
  BY <1>1, <1>a, <1>2, <1>3, <1>4 DEF TxInv, Open
<1> QED BY <1>1, <1>5

(* Every step of a request keeps its condition.                            *)
LEMMA TxStepKeepsAnswers ==
    ASSUME AnswerTypes, NEW r \in TxReqs, TxInv(r), TxStep(r)
    PROVE  AnswerTypes' /\ Frame(r) /\ TxInv(r)'
<1> USE DEF TxFails, TxPanics
<1>0. /\ r \in Callers /\ chain \in Chains /\ got[r] \in Parts /\ NoParts \in Parts
      /\ body[r] \in Blocks \cup {NoBlock} /\ pc[r] \in Stages
  BY TxAssumption, NothingIsParts DEF AnswerTypes, NodeTypeOK
<1>f. ASSUME NEW code \in {"geth", "aborted"},
             NEW why \in {"notFound", "rpc", "canceled", "fee", "nilReceipt", "nilFee", "nilTrace"},
             TxReply(r, code, why, NoParts), UNCHANGED nodeVars
      PROVE  AnswerTypes' /\ Frame(r) /\ TxInv(r)'
  BY <1>0, <1>f, TxReplies DEF Codes, Whys
<1>n. OnChain(r, TxBlock(chain, want[r].tx)) \/ ~Open(r)
  BY DEF TxInv, OnChain
<1>b. UNCHANGED body => body' = [body EXCEPT ![r] = body[r]]
  BY DEF AnswerTypes
<1>1. CASE LookupTx(r)
  <2>1. pc[r] = "lookup" /\ Open(r) /\ UNCHANGED nodeVars
    BY <1>1 DEF LookupTx, Open
  <2>2. PICK b : b = TxBlock(chain, want[r].tx)
    OBVIOUS
  <2>3. b \in Blocks \cup {NoBlock}
    BY <1>0, <2>2, TxBlockIsThere, NodeAssumption
  <2>4. CASE TxFails(r, "notFound")
    BY <2>1, <2>4, <1>f
  <2>5. CASE Proceed(r, "header", got[r]) /\ body' = [body EXCEPT ![r] = b]
    <3>1. OnChain(r, b) /\ (got[r].trace = NoBlock \/ OnChain(r, got[r].trace))
      BY <1>n, <2>1, <2>2 DEF TxInv
    <3> QED BY <1>0, <2>1, <2>3, <2>5, <3>1, TxProceeds
  <2> QED BY <1>1, <2>2, <2>4, <2>5 DEF LookupTx
<1>2. CASE ReadHeader(r)
  <2>1. pc[r] = "header" /\ Open(r) /\ UNCHANGED nodeVars
    BY <1>2 DEF ReadHeader, Open
  <2>2. PICK b : b = Resolve(want[r].block, chain, known)
    OBVIOUS
  <2>3. CASE b = NoBlock
    BY <1>2, <2>1, <2>2, <2>3, <1>f DEF ReadHeader
  <2>4. CASE b # NoBlock
    <3> DEFINE p == [got[r] EXCEPT !.header = b]
    <3>1. Proceed(r, "receipt", p) /\ UNCHANGED body
      BY <1>2, <2>2, <2>4 DEF ReadHeader
    <3>2. b \in Blocks
      BY <1>0, <2>1, <2>2, <2>4, ResolvedIsBlock, TxAssumption DEF TxInv
    <3>3. p \in Parts /\ p.trace = got[r].trace
      BY <1>0, <3>2 DEF Parts
    <3> HIDE DEF p
    <3>4. OnChain(r, body[r]) /\ (p.trace = NoBlock \/ OnChain(r, p.trace))
      BY <2>1, <3>3 DEF TxInv
    <3> QED BY <1>0, <1>b, <2>1, <3>1, <3>3, <3>4, TxProceeds
  <2> QED BY <2>3, <2>4
<1>3. CASE ReadReceipt(r)
  <2>1. pc[r] = "receipt" /\ Open(r) /\ UNCHANGED nodeVars /\ OnChain(r, body[r])
    BY <1>3 DEF ReadReceipt, Open, TxInv
  <2>2. CASE TxPanics(r, "nilReceipt")
    BY <2>1, <2>2, <1>f
  <2>3. CASE \E part \in TxReceipt(r) :
                part \in Blocks /\ part # body[r] /\ TxFails(r, "orphaned")
    <3>1. PICK part \in TxReceipt(r) :
                part \in Blocks /\ part # body[r] /\ TxFails(r, "orphaned")
      BY <2>3
    <3>2. part = TxBlock(chain, want[r].tx)
      BY <3>1, RequestAssumption DEF TxReceipt
    <3>3. ChainChanged(r)
      BY <1>n, <2>1, <3>1, <3>2 DEF ChainChanged
    <3> QED BY <1>0, <2>1, <3>1, <3>3, TxReplies DEF Codes, Whys
  <2>4. CASE \E part \in TxReceipt(r), s \in {"populate", "traces"} :
                /\ part \in Blocks /\ part = body[r] /\ UNCHANGED body
                /\ Proceed(r, s, [got[r] EXCEPT !.receipts = <<part>>])
    <3>1. PICK part \in TxReceipt(r), s \in {"populate", "traces"} :
                /\ part \in Blocks /\ part = body[r] /\ UNCHANGED body
                /\ Proceed(r, s, [got[r] EXCEPT !.receipts = <<part>>])
      BY <2>4
    <3> DEFINE p == [got[r] EXCEPT !.receipts = <<part>>]
    <3>2. p \in Parts /\ p.trace = got[r].trace /\ p.receipts = <<part>>
      <4>1. <<part>> \in Seq(Part)
        BY <3>1 DEF Part
      <4> QED BY <1>0, <4>1 DEF Parts
    <3>3. Proceed(r, s, p)
      BY <3>1
    <3> HIDE DEF p
    <3>4. p.trace = NoBlock \/ OnChain(r, p.trace)
      BY <3>2 DEF TxInv
    <3>5. part # NoBlock
      BY <3>1, NodeAssumption
    <3> QED BY <1>0, <1>b, <2>1, <3>1, <3>2, <3>3, <3>4, <3>5, TxProceeds
  <2> QED BY <1>3, <2>2, <2>3, <2>4 DEF ReadReceipt
<1>4. CASE AcquireForTx(r)
  <2>1. /\ pc[r] = "traces" /\ Open(r) /\ UNCHANGED <<nodeVars, body>>
        /\ Proceed(r, "tracing", got[r])
    BY <1>4 DEF AcquireForTx, Open
  <2>2. /\ OnChain(r, body[r]) /\ got[r].receipts = <<body[r]>> /\ body[r] # NoBlock
        /\ got[r].trace = NoBlock \/ OnChain(r, got[r].trace)
    BY <2>1 DEF TxInv
  <2> QED BY <1>0, <1>b, <2>1, <2>2, TxProceeds
<1>5. CASE ResumeForTx(r)
  <2>1. UNCHANGED <<nodeVars, reqVars, body>>
    BY <1>5 DEF ResumeForTx
  <2>2. UNCHANGED <<chain, known, reorgs, pc, want, got, answer, gone, seen, body>>
    BY <2>1 DEF nodeVars, reqVars
  <2> QED BY <2>2 DEF AnswerTypes, NodeTypeOK, Frame, TxInv, Open, OnChain, TxOk, ChainChanged
<1>6. CASE GiveUpTxTraces(r)
  BY <1>6, <1>f DEF GiveUpTxTraces
<1>7. CASE TxTracesReturn(r)
  <2>1. pc[r] = "tracing" /\ Open(r) /\ UNCHANGED nodeVars
    BY <1>7 DEF TxTracesReturn, Open
  <2>2. PICK b : b = TxBlock(chain, want[r].tx)
    OBVIOUS
  <2>3. CASE b = NoBlock
    BY <1>7, <2>1, <2>2, <2>3, <1>f DEF TxTracesReturn
  <2>4. CASE b # NoBlock
    <3> DEFINE p == [got[r] EXCEPT !.trace = b]
    <3>1. Proceed(r, "populate", p) /\ UNCHANGED body
      BY <1>7, <2>2, <2>4 DEF TxTracesReturn
    <3>2. b \in Blocks
      BY <1>0, <2>2, <2>4, TxBlockIsThere, NodeAssumption
    <3>3. p \in Parts /\ p.trace = b /\ p.receipts = got[r].receipts
      BY <1>0, <3>2 DEF Parts
    <3> HIDE DEF p
    <3>4. OnChain(r, body[r]) /\ OnChain(r, p.trace) /\ p.receipts = <<body[r]>> /\ body[r] # NoBlock
      BY <1>n, <2>1, <2>2, <3>3 DEF TxInv
    <3> QED BY <1>0, <1>b, <2>1, <3>1, <3>3, <3>4, TxProceeds
  <2> QED BY <2>3, <2>4
<1>8. CASE PopulateTx(r)
  <2>1. pc[r] = "populate" /\ UNCHANGED nodeVars
    BY <1>8 DEF PopulateTx
  <2>2. CASE TxFails(r, "fee") \/ TxPanics(r, "nilFee") \/ TxPanics(r, "nilTrace")
    BY <2>1, <2>2, <1>f
  <2>3. CASE got[r].trace # NoBlock /\ TxReply(r, "ok", "", got[r])
    <3>1. TxOk(r, got[r])
      BY <2>1, <2>3 DEF TxInv, TxOk
    <3> QED BY <1>0, <2>1, <2>3, <3>1, TxReplies DEF Codes, Whys
  <2> QED BY <1>8, <2>2, <2>3 DEF PopulateTx
<1>9. CASE TxCallFails(r)
  BY <1>9, <1>f DEF TxCallFails
<1> QED BY <1>1, <1>2, <1>3, <1>4, <1>5, <1>6, <1>7, <1>8, <1>9 DEF TxStep

-----------------------------------------------------------------------------
(* The queries.                                                            *)

(* All parts that are there are of block b, and one is.                    *)
Tells(parts, b) ==
    /\ {parts.header, parts.trace} \subseteq {b, NoBlock}
    /\ \/ parts.receipts = <<>> /\ b \in {parts.header, parts.trace}
       \/ parts.receipts = <<b>>

(* There is no block, and no part: eth_getBlockByNumber answers so too.    *)
TellsNothing(w, c, parts) ==
    /\ w.kind = "eth_getBlockByNumber"
    /\ Subject(w, c) = NoBlock /\ parts = NoParts

TellsSubject(w, cs, parts) ==
    \/ MistakenCall(w)
    \/ \E c \in cs : \/ Subject(w, c) # NoBlock /\ Tells(parts, Subject(w, c))
                     \/ TellsNothing(w, c, parts)

NoSuchHeight(w, cs) ==
    /\ w.kind = "balance" /\ w.hash = NoBlock
    /\ \E c \in cs : BlockAt(c, w.index) = NoBlock

(* An answer that tells of one block is made of that block alone.          *)
LEMMA TellsIsSet ==
    ASSUME NEW a, NEW b, b # NoBlock, Tells(a.parts, b)
    PROVE  PartsOf(a) \ {NoBlock} = {b}
<1>1. CASE a.parts.receipts = <<>> /\ b \in {a.parts.header, a.parts.trace}
  BY <1>1 DEF Tells, PartsOf
<1>2. CASE a.parts.receipts = <<b>>
  <2>1. {a.parts.receipts[i] : i \in DOMAIN a.parts.receipts} = {b}
    BY <1>2
  <2> QED BY <2>1 DEF Tells, PartsOf
<1> QED BY <1>1, <1>2 DEF Tells

(* An answer that tells nothing has no parts.                              *)
LEMMA NothingIsNoSet ==
    ASSUME NEW a, a.parts = NoParts
    PROVE  PartsOf(a) \ {NoBlock} = {}
<1>1. a.parts.header = NoBlock /\ a.parts.trace = NoBlock /\ a.parts.receipts = <<>>
  BY DEF NoParts
<1> QED BY <1>1 DEF PartsOf

(* An answer to a query that the condition allows.                         *)
LEMMA QueryReplies ==
    ASSUME AnswerTypes, NEW r \in QueryReqs, QueryInv(r),
           NEW code \in Codes, NEW why \in Whys, NEW parts \in Parts,
           Reply(r, code, why, parts), UNCHANGED nodeVars,
           NEW was \in Blocks \cup {NoBlock}, body' = [body EXCEPT ![r] = was],
           code = "ok" => TellsSubject(want[r], seen[r], parts),
           code = "aborted" => NoSuchHeight(want[r], seen[r])
    PROVE  AnswerTypes' /\ Frame(r) /\ QueryInv(r)'
<1>0. r \in Callers
  BY QueryAssumption
<1>1. /\ AnswerTypes' /\ Frame(r)
      /\ pc'[r] = "done" /\ got'[r] = NoParts
      /\ want'[r] = want[r] /\ seen'[r] = seen[r]
      /\ answer'[r] = [code |-> code, why |-> why, parts |-> parts]
  <2>1. Replied(r, [code |-> code, why |-> why, parts |-> parts], was)
    BY <1>0, ReplyFrame
  <2> QED BY <2>1 DEF Replied
<1>2. answer'[r].code = code /\ answer'[r].parts = parts
  BY <1>1
<1>3. AnsweredRight(r)'
  <2> SUFFICES ASSUME code = "ok", ~MistakenCall(want[r])
               PROVE  \E c \in seen[r] : RightOn(c, want[r], answer'[r])
    BY <1>1, <1>2 DEF AnsweredRight
  <2>1. PICK c \in seen[r] : \/ /\ Subject(want[r], c) # NoBlock
                                /\ Tells(parts, Subject(want[r], c))
                             \/ TellsNothing(want[r], c, parts)
    BY DEF TellsSubject
  <2>2. CASE Subject(want[r], c) # NoBlock /\ Tells(parts, Subject(want[r], c))
    <3>1. PartsOf(answer'[r]) \ {NoBlock} = {Subject(want[r], c)}
      BY <1>2, <2>2, TellsIsSet
    <3> QED BY <2>2, <3>1 DEF RightOn
  <2>3. CASE TellsNothing(want[r], c, parts)
    <3>1. PartsOf(answer'[r]) \ {NoBlock} = {}
      BY <1>2, <2>3, NothingIsNoSet DEF TellsNothing
    <3> QED BY <2>3, <3>1 DEF RightOn, TellsNothing
  <2> QED BY <2>1, <2>2, <2>3
<1>4. AbortedForHeight(r)'
  BY <1>1, <1>2 DEF AbortedForHeight, NoSuchHeight
<1>5. QueryInv(r)'
  BY <1>1, <1>3, <1>4 DEF QueryInv, Open
<1> QED BY <1>1, <1>5

(* No step of a query breaks its condition.                                *)
LEMMA QueryStepKeepsAnswers ==
    ASSUME AnswerTypes, NEW r \in QueryReqs, QueryInv(r), QueryStep(r),
           NEW was \in Blocks \cup {NoBlock}, body' = [body EXCEPT ![r] = was]
    PROVE  AnswerTypes' /\ Frame(r) /\ QueryInv(r)'
<1>w. PICK w : w = want[r]
  OBVIOUS
<1>0. /\ r \in Callers /\ chain \in Chains /\ got[r] \in Parts /\ NoParts \in Parts
      /\ UNCHANGED nodeVars
  BY QueryAssumption, NothingIsParts DEF AnswerTypes, NodeTypeOK, QueryStep
<1>f. ASSUME NEW code \in {"geth", "params", "method"}, NEW why \in {"notFound", "rpc", "invalid"},
             QueryFails(r, code, why)
      PROVE  AnswerTypes' /\ Frame(r) /\ QueryInv(r)'
  <2>1. code \in Codes /\ why \in Whys /\ code # "ok" /\ code # "aborted"
    BY DEF Codes, Whys
  <2> QED BY <1>0, <1>f, <2>1, QueryReplies DEF QueryFails
<1>a. ASSUME NEW parts \in Parts, QueryAnswers(r, parts),
             TellsSubject(w, seen[r], parts)
      PROVE  AnswerTypes' /\ Frame(r) /\ QueryInv(r)'
  BY <1>0, <1>a, <1>w, QueryReplies DEF QueryAnswers, Codes, Whys
<1>p. ASSUME NEW s \in {"sync", "peers"}, NEW p \in Parts, Proceed(r, s, p), w.kind = "status",
             p.receipts = <<>>, p.trace = NoBlock, \E c \in seen[r] : p.header = Tip(c), Open(r)
      PROVE  AnswerTypes' /\ Frame(r) /\ QueryInv(r)'
  <2>0. Proceed(r, s, p) /\ s \in Stages
    BY <1>p DEF Stages
  <2>a. p \in Parts /\ UNCHANGED nodeVars
    BY <1>0, <1>p
  <2>1. /\ AnswerTypes' /\ Frame(r)
        /\ pc'[r] = s /\ got'[r] = p
        /\ want'[r] = want[r] /\ seen'[r] = seen[r] /\ answer'[r] = answer[r]
    <3>1. Proceeded(r, s, p, was)
      BY <1>0, <2>0, <2>a, ProceedFrame
    <3> QED BY <3>1 DEF Proceeded
  <2>2. AnsweredRight(r)' /\ AbortedForHeight(r)' /\ answer'[r] = NoAnswer
    BY <2>1, <1>p DEF QueryInv, AnsweredRight, AbortedForHeight, Open
  <2>3. Open(r)' /\ chain' \in seen'[r] /\ want'[r] \in QueryWants
    BY <2>1, <1>p DEF QueryInv, Open, Frame
  <2>4. QueryInv(r)'
    BY <1>w, <1>p, <2>1, <2>2, <2>3 DEF QueryInv
  <2> QED BY <2>1, <2>4
<1>q. ASSUME pc[r] = "query"
      PROVE  /\ Open(r) /\ chain \in seen[r] /\ got[r] = NoParts
             /\ w \in [kind : Kinds, hash : Blocks \cup {NoBlock},
                       index : Nat \cup {NoIndex}, tx : TxIds, valid : BOOLEAN]
  BY <1>q, <1>w, QueryAssumption DEF QueryInv, Open
<1>h. ASSUME NEW b \in Blocks, got[r] = NoParts
      PROVE  /\ [got[r] EXCEPT !.header = b] \in Parts
             /\ [got[r] EXCEPT !.trace = b] \in Parts
             /\ OfBlock(b) \in Parts
             /\ [got[r] EXCEPT !.receipts = <<b>>] \in Parts
             /\ [got[r] EXCEPT !.header = b].receipts = <<>>
             /\ [got[r] EXCEPT !.header = b].trace = NoBlock
             /\ [got[r] EXCEPT !.header = b].header = b
             /\ Tells([got[r] EXCEPT !.header = b], b)
             /\ Tells([got[r] EXCEPT !.trace = b], b)
             /\ Tells(OfBlock(b), b)
             /\ Tells([got[r] EXCEPT !.receipts = <<b>>], b)
  <2>1. <<b>> \in Seq(Part) /\ <<>> \in Seq(Part)
    BY DEF Part
  <2>2. got[r] = [header |-> NoBlock, receipts |-> <<>>, trace |-> NoBlock]
    BY <1>h DEF NoParts
  <2> DEFINE x == [header |-> NoBlock, receipts |-> <<>>, trace |-> NoBlock]
  <2>3. /\ [x EXCEPT !.header = b] = [header |-> b, receipts |-> <<>>, trace |-> NoBlock]
        /\ [x EXCEPT !.trace = b] = [header |-> NoBlock, receipts |-> <<>>, trace |-> b]
        /\ [x EXCEPT !.receipts = <<b>>]
             = [header |-> NoBlock, receipts |-> <<b>>, trace |-> NoBlock]
    OBVIOUS
  <2>4. ASSUME NEW h \in {b, NoBlock}, NEW t \in {b, NoBlock}, NEW rs \in {<<>>, <<b>>},
               rs = <<b>> \/ b \in {h, t}
        PROVE  /\ [header |-> h, receipts |-> rs, trace |-> t] \in Parts
               /\ Tells([header |-> h, receipts |-> rs, trace |-> t], b)
    BY <2>1, <2>4 DEF Parts, Tells
  <2> QED BY <2>2, <2>3, <2>4 DEF OfBlock
<1>s. ASSUME NEW c \in seen[r], NEW parts, Subject(w, c) # NoBlock, Tells(parts, Subject(w, c))
      PROVE  TellsSubject(w, seen[r], parts)
  BY <1>s DEF TellsSubject
<1>m. MistakenCall(w) => \A parts : TellsSubject(w, seen[r], parts)
  BY DEF TellsSubject
<1>t. Tip(chain) \in Blocks
  BY <1>0, TipIsThere, NodeAssumption
<1>n. NoBlock \notin Blocks
  BY NodeAssumption
<1>c. ASSUME NEW n PROVE BlockAt(chain, n) = NoBlock \/ BlockAt(chain, n) \in Blocks
  BY <1>0, NodeAssumption DEF BlockAt
<1>1. CASE StatusHeader(r)
  <2>1. pc[r] = "query" /\ w.kind = "status"
        /\ Proceed(r, "sync", [got[r] EXCEPT !.header = Tip(chain)])
    BY <1>1, <1>w DEF StatusHeader
  <2> DEFINE p == [got[r] EXCEPT !.header = Tip(chain)]
  <2>2. p \in Parts /\ p.receipts = <<>> /\ p.trace = NoBlock /\ p.header = Tip(chain)
    BY <1>q, <1>h, <1>t, <2>1
  <2> HIDE DEF p
  <2>3. Proceed(r, "sync", p)
    BY <2>1 DEF p
  <2> QED BY <1>q, <1>p, <2>1, <2>2, <2>3
<1>2. CASE SyncProgress(r) \/ Peers(r)
  <2>1. /\ pc[r] \in {"sync", "peers"} /\ Open(r) /\ w.kind = "status"
        /\ got[r].receipts = <<>> /\ got[r].trace = NoBlock
    BY <1>2, <1>w DEF SyncProgress, Peers, Open, QueryInv
  <2>2. PICK c \in seen[r] : got[r].header = Tip(c)
    BY <2>1 DEF QueryInv
  <2>3. CASE Proceed(r, "peers", got[r])
    BY <1>0, <1>p, <2>1, <2>2, <2>3
  <2>4. CASE QueryAnswers(r, got[r])
    <3>1. Subject(w, c) = Tip(c)
      BY <2>1 DEF Subject
    <3>2. Tip(c) # NoBlock
      BY <1>0, <1>n, TipIsThere, NodeAssumption, QueryAssumption DEF AnswerTypes
    <3>3. Tells(got[r], Tip(c))
      BY <2>1, <2>2 DEF Tells
    <3> QED BY <1>0, <1>a, <1>s, <2>4, <3>1, <3>2, <3>3
  <2> QED BY <1>2, <2>3, <2>4 DEF SyncProgress, Peers
<1>3. CASE Balance(r)
  <2>b. PICK b : b = BalanceBlock(w)
    OBVIOUS
  <2>1. pc[r] = "query" /\ w.kind = "balance"
    BY <1>3, <1>w DEF Balance
  <2>2. b # NoBlock => b \in Blocks /\ b = Subject(w, chain)
    BY <1>c, <1>q, <1>t, <2>b, <2>1 DEF BalanceBlock, Subject, ByHashOf
  <2>3. CASE b # NoBlock
    <3>1. QueryAnswers(r, OfBlock(b))
      BY <1>3, <1>w, <2>b, <2>3 DEF Balance
    <3> QED BY <1>a, <1>h, <1>q, <1>s, <2>1, <2>2, <2>3, <3>1
  <2>4. CASE b = NoBlock /\ w.hash # NoBlock
    <3>1. QueryFails(r, "geth", "notFound")
      BY <1>3, <1>w, <2>b, <2>4 DEF Balance
    <3> QED BY <1>f, <3>1
  <2>5. CASE b = NoBlock /\ w.hash = NoBlock
    <3>1. QueryFails(r, "aborted", "nullBlock")
      BY <1>3, <1>w, <2>b, <2>5 DEF Balance
    <3>2. BlockAt(chain, w.index) = NoBlock
      BY <1>n, <1>t, <2>b, <2>5 DEF BalanceBlock
    <3>3. NoSuchHeight(want[r], seen[r])
      BY <1>q, <1>w, <2>1, <2>5, <3>2 DEF NoSuchHeight
    <3>4. Reply(r, "aborted", "nullBlock", NoParts)
      BY <3>1 DEF QueryFails
    <3>5. "aborted" \in Codes /\ "nullBlock" \in Whys
      BY DEF Codes, Whys
    <3> QED BY <1>0, <3>3, <3>4, <3>5, QueryReplies
  <2> QED BY <2>3, <2>4, <2>5
<1>4. CASE RejectCall(r) \/ QueryCallFails(r)
  <2>1. \/ QueryFails(r, "method", "invalid") \/ QueryFails(r, "params", "invalid")
        \/ QueryFails(r, "geth", "rpc")
    BY <1>4 DEF RejectCall, QueryCallFails
  <2> QED BY <1>f, <2>1
<1>5. CASE GetBlockByNumber(r)
  <2>b. PICK b : b = IF w.index = NoIndex THEN Tip(chain) ELSE BlockAt(chain, w.index)
    OBVIOUS
  <2>1. pc[r] = "query" /\ w.kind = "eth_getBlockByNumber"
    BY <1>5, <1>w DEF GetBlockByNumber, Calls
  <2>2. b = Subject(w, chain) /\ (b # NoBlock => b \in Blocks)
    BY <1>c, <1>t, <2>b, <2>1 DEF Subject
  <2>3. QueryAnswers(r, [got[r] EXCEPT !.header = b])
    BY <1>5, <1>w, <2>b DEF GetBlockByNumber
  <2>4. CASE b # NoBlock
    BY <1>a, <1>h, <1>q, <1>s, <2>1, <2>2, <2>3, <2>4
  <2>5. CASE b = NoBlock
    <3>1. [got[r] EXCEPT !.header = b] = NoParts
      BY <1>q, <2>1, <2>5 DEF NoParts
    <3>2. TellsSubject(w, seen[r], NoParts)
      BY <1>q, <2>1, <2>2, <2>5 DEF TellsSubject, TellsNothing
    <3> QED BY <1>0, <1>a, <2>3, <3>1, <3>2
  <2> QED BY <2>4, <2>5
<1>6. CASE GetTransactionReceipt(r)
  <2>b. PICK b : b = TxBlock(chain, w.tx)
    OBVIOUS
  <2>1. pc[r] = "query" /\ w.kind = "eth_getTransactionReceipt"
    BY <1>6, <1>w DEF GetTransactionReceipt, Calls
  <2>2. b # NoBlock => b \in Blocks /\ b = Subject(w, chain)
    BY <1>0, <2>b, <2>1, TxBlockIsThere, NodeAssumption DEF Subject
  <2>3. \/ QueryFails(r, "geth", "notFound")
        \/ b # NoBlock /\ QueryAnswers(r, [got[r] EXCEPT !.receipts = <<b>>])
    BY <1>6, <1>w, <2>b DEF GetTransactionReceipt
  <2> QED BY <1>a, <1>f, <1>h, <1>q, <1>s, <2>1, <2>2, <2>3
<1>7. CASE ContractCall(r)
  <2>b. PICK b : b = CallBlock(w)
    OBVIOUS
  <2>1. pc[r] = "query" /\ w.kind = "eth_call"
    BY <1>7, <1>w DEF ContractCall, Calls
  <2>2. b # NoBlock => b \in Blocks
    BY <1>c, <1>q, <1>t, <2>b, <2>1 DEF CallBlock, ByHashOf
  <2>3. b # NoBlock => MistakenCall(w) \/ b = Subject(w, chain)
    <3> SUFFICES ASSUME b # NoBlock, ~MistakenCall(w) PROVE b = Subject(w, chain)
      OBVIOUS
    <3>1. CASE w.index = NoIndex
      BY <1>q, <2>b, <2>1, <3>1 DEF CallBlock, Subject, ByHashOf
    <3>2. CASE w.index # NoIndex
      <4>1. w.hash = NoBlock /\ w.index \in Nat \ {0}
        BY <1>q, <2>1, <3>2 DEF MistakenCall
      <4> QED BY <2>b, <2>1, <3>2, <4>1 DEF CallBlock, Subject
    <3> QED BY <3>1, <3>2
  <2>4. \/ QueryFails(r, "geth", "rpc")
        \/ b # NoBlock /\ QueryAnswers(r, [got[r] EXCEPT !.trace = b])
    BY <1>7, <1>w, <2>b DEF ContractCall
  <2> QED BY <1>a, <1>f, <1>h, <1>q, <1>s, <1>m, <2>1, <2>2, <2>3, <2>4
<1>8. CASE EstimateGas(r)
  <2>1. /\ pc[r] = "query" /\ w.kind = "eth_estimateGas"
        /\ QueryAnswers(r, [got[r] EXCEPT !.trace = Tip(chain)])
    BY <1>8, <1>w DEF EstimateGas, Calls
  <2>2. Subject(w, chain) = Tip(chain)
    BY <2>1 DEF Subject
  <2> QED BY <1>a, <1>h, <1>n, <1>q, <1>s, <1>t, <2>1, <2>2
<1> QED BY <1>1, <1>2, <1>3, <1>4, <1>5, <1>6, <1>7, <1>8 DEF QueryStep

-----------------------------------------------------------------------------
(* /block.                                                                 *)
LEMMA BlockStepFrame ==
    ASSUME AnswerTypes, BlockInv, NEW r \in BlockReqs, BlockArrive(r) \/ BlockStep(r),
           NEW was \in Blocks \cup {NoBlock}, body' = [body EXCEPT ![r] = was]
    PROVE  AnswerTypes' /\ Frame(r)
<1>0. r \in Callers /\ chain \in Chains /\ got[r] \in Parts /\ NoParts \in Parts
  BY BlockAssumption, NothingIsParts DEF AnswerTypes, NodeTypeOK
<1>p. ASSUME NEW s \in {"uncles", "receipts", "populate", "traces", "tracing"},
             NEW parts \in Parts, Proceed(r, s, parts), UNCHANGED nodeVars
      PROVE  AnswerTypes' /\ Frame(r)
  <2>1. s \in Stages
    BY DEF Stages
  <2> QED BY <1>0, <1>p, <2>1, ProceedFrame DEF Proceeded
<1>f. ASSUME NEW why \in {"notFound", "rpc", "canceled", "emptyReceipt", "orphaned"},
             BlockFails(r, why), UNCHANGED nodeVars
      PROVE  AnswerTypes' /\ Frame(r)
  <2>1. why \in Whys /\ BlockCode(why) \in Codes
    BY DEF BlockCode, Codes, Whys
  <2> QED BY <1>0, <1>f, <2>1, ReplyFrame DEF BlockFails, Replied
<1>1. CASE BlockArrive(r)
  BY <1>0, <1>1, ArriveFrame DEF BlockArrive, Stages
<1>2. CASE FetchBlock(r)
  <2>0. UNCHANGED nodeVars
    BY <1>2 DEF FetchBlock
  <2>1. PICK b : b = Resolve(want[r], chain, known)
    OBVIOUS
  <2>2. CASE b = NoBlock
    BY <1>2, <1>f, <2>0, <2>1, <2>2 DEF FetchBlock
  <2>3. CASE b # NoBlock
    <3>1. want[r] \in Idents
      BY <1>2, BlockAssumption DEF FetchBlock, BlockInv, ReadInv, Open
    <3>2. b \in Blocks
      BY <1>0, <2>1, <2>3, <3>1, ResolvedIsBlock
    <3>3. [NoParts EXCEPT !.header = b] \in Parts
      BY <1>0, <3>2 DEF Parts
    <3> QED BY <1>2, <1>p, <2>0, <2>1, <2>3, <3>3 DEF FetchBlock
  <2> QED BY <2>2, <2>3
<1>3. CASE GetUncles(r)
  BY <1>0, <1>3, <1>p DEF GetUncles
<1>4. CASE ServeReceipt(r)
  <2>1. PICK part \in {TxBlock(chain, Txs[got[r].header][Len(got[r].receipts) + 1]), RpcError} :
           /\ Proceed(r, "receipts", [got[r] EXCEPT !.receipts = Append(@, part)])
           /\ UNCHANGED nodeVars
    BY <1>4 DEF ServeReceipt
  <2>2. part \in Part
    BY <1>0, TxBlockIsPart DEF Part
  <2>3. [got[r] EXCEPT !.receipts = Append(@, part)] \in Parts
    <3>1. PICK rs : rs = got[r].receipts
      OBVIOUS
    <3>2. rs \in Seq(Part) /\ Append(rs, part) \in Seq(Part)
      BY <1>0, <2>2, <3>1 DEF Parts
    <3> QED BY <1>0, <3>1, <3>2 DEF Parts
  <2> QED BY <1>p, <2>1, <2>3
<1>5. CASE CheckReceipts(r)
  <2>1. CASE \E s \in {"populate", "traces"} : Proceed(r, s, got[r]) /\ UNCHANGED nodeVars
    BY <1>0, <1>p, <2>1
  <2>2. CASE \E part : BlockFails(r, ReceiptError(part)) /\ UNCHANGED nodeVars
    BY <1>f, <2>2 DEF ReceiptError
  <2> QED BY <1>5, <2>1, <2>2 DEF CheckReceipts
<1>6. CASE AcquireForBlock(r)
  BY <1>0, <1>6, <1>p DEF AcquireForBlock
<1>7. CASE ResumeForBlock(r)
  <2>1. UNCHANGED <<nodeVars, reqVars>>
    BY <1>7 DEF ResumeForBlock
  <2>2. UNCHANGED <<chain, known, reorgs, pc, want, got, answer, gone, seen>>
    BY <2>1 DEF nodeVars, reqVars
  <2> QED BY <2>2 DEF AnswerTypes, NodeTypeOK, Frame
<1>8. CASE GiveUpBlockTraces(r)
  BY <1>8, <1>f DEF GiveUpBlockTraces
<1>9. CASE BlockTracesReturn(r)
  <2>1. PICK tr \in {got[r].header, NoBlock} :
           /\ Proceed(r, "populate", [got[r] EXCEPT !.trace = tr])
           /\ UNCHANGED nodeVars
    BY <1>9 DEF BlockTracesReturn
  <2>2. [got[r] EXCEPT !.trace = tr] \in Parts
    BY <1>0 DEF Parts
  <2> QED BY <1>p, <2>1, <2>2
<1>10. CASE PopulateBlock(r)
  <2>0. UNCHANGED nodeVars
    BY <1>10 DEF PopulateBlock
  <2>1. Reply(r, "aborted", "nilTrace", NoParts) \/ Reply(r, "ok", "", got[r])
    BY <1>10 DEF PopulateBlock
  <2>2. "nilTrace" \in Whys /\ "" \in Whys /\ "aborted" \in Codes /\ "ok" \in Codes
    BY DEF Codes, Whys
  <2>3. CASE Reply(r, "aborted", "nilTrace", NoParts)
    BY <1>0, <2>0, <2>2, <2>3, ReplyFrame DEF Replied
  <2>4. CASE Reply(r, "ok", "", got[r])
    BY <1>0, <2>0, <2>2, <2>4, ReplyFrame DEF Replied
  <2> QED BY <2>1, <2>3, <2>4
<1>11. CASE BlockCallFails(r)
  BY <1>11, <1>f DEF BlockCallFails
<1> QED BY <1>1, <1>2, <1>3, <1>4, <1>5, <1>6, <1>7, <1>8, <1>9, <1>10, <1>11
        DEF BlockStep

-----------------------------------------------------------------------------
(* All requests together.                                                  *)

(* A request of /block/transaction keeps its condition from its arrival.   *)
LEMMA TxFrame ==
    ASSUME AnswerTypes, NEW r \in TxReqs, TxInv(r), TxArrive(r) \/ TxStep(r)
    PROVE  AnswerTypes' /\ Frame(r) /\ TxInv(r)'
<1>1. CASE TxStep(r)
  BY <1>1, TxStepKeepsAnswers
<1>2. CASE TxArrive(r)
  <2>1. PICK w \in TxWants : Arrive(r, w, "lookup") /\ UNCHANGED body
    BY <1>2 DEF TxArrive
  <2>2. PICK b \in Blocks \cup {NoBlock} : body' = [body EXCEPT ![r] = b]
    BY <2>1, BodyIsKept, TxAssumption
  <2>3. /\ AnswerTypes' /\ Frame(r)
        /\ pc[r] = "idle" /\ pc'[r] = "lookup" /\ want'[r] = w /\ seen'[r] = {chain}
        /\ got'[r] = got[r] /\ answer'[r] = answer[r]
    BY <2>1, <2>2, ArriveFrame, TxAssumption DEF Stages
  <2>4. /\ got[r].trace = NoBlock /\ answer[r] = NoAnswer
        /\ answer[r].code = "none" /\ answer[r].why = ""
    <3>1. NoAnswer.code = "none" /\ NoAnswer.why = "" /\ NoParts.trace = NoBlock
      BY DEF NoAnswer, NoParts
    <3> QED BY <2>3, <3>1 DEF TxInv, Open
  <2> QED BY <2>3, <2>4 DEF TxInv, Open, Frame
<1> QED BY <1>1, <1>2

(* And so does a query.                                                    *)
LEMMA QueryFrame ==
    ASSUME AnswerTypes, NEW r \in QueryReqs, QueryInv(r), QueryArrive(r) \/ QueryStep(r),
           UNCHANGED body
    PROVE  AnswerTypes' /\ Frame(r) /\ QueryInv(r)'
<1>0. PICK b \in Blocks \cup {NoBlock} : body' = [body EXCEPT ![r] = b]
  BY BodyIsKept, QueryAssumption
<1>1. CASE QueryStep(r)
  BY <1>0, <1>1, QueryStepKeepsAnswers
<1>2. CASE QueryArrive(r)
  <2>1. PICK w \in QueryWants : Arrive(r, w, "query")
    BY <1>2 DEF QueryArrive
  <2>2. /\ AnswerTypes' /\ Frame(r)
        /\ pc[r] = "idle" /\ pc'[r] = "query" /\ want'[r] = w /\ seen'[r] = {chain}
        /\ got'[r] = got[r] /\ answer'[r] = answer[r]
    BY <1>0, <2>1, ArriveFrame, QueryAssumption DEF Stages
  <2>3. /\ got[r] = NoParts /\ answer[r] = NoAnswer /\ answer[r].code = "none"
    <3>1. NoAnswer.code = "none"
      BY DEF NoAnswer
    <3> QED BY <2>2, <3>1 DEF QueryInv
  <2>4. AnsweredRight(r)' /\ AbortedForHeight(r)'
    BY <2>2, <2>3 DEF AnsweredRight, AbortedForHeight
  <2> QED BY <2>2, <2>3, <2>4 DEF QueryInv, Open, Frame
<1> QED BY <1>1, <1>2

(* A step of one request keeps the conditions of all, if it keeps its own. *)
LEMMA FrameKeepsAll ==
    ASSUME AllInv, ReadsInv', AnswerTypes', NEW r \in Callers, Frame(r),
           r \in BlockReqs => BlockInv', r \in TxReqs => TxInv(r)',
           r \in QueryReqs => QueryInv(r)'
    PROVE  AllInv'
<1>1. ASSUME NEW q \in TxReqs PROVE TxInv(q)'
  BY <1>1, FrameKeepsTx DEF AllInv
<1>2. ASSUME NEW q \in QueryReqs PROVE QueryInv(q)'
  BY <1>2, FrameKeepsQuery DEF AllInv
<1>3. BlockInv'
  <2> SUFFICES ASSUME r \notin BlockReqs PROVE BlockInv'
    OBVIOUS
  <2>1. \A q \in BlockReqs : ReadInv(q)'
    BY FrameKeepsBlock DEF AllInv, BlockInv
  <2>2. ReadTypes'
    BY DEF AnswerTypes, NodeTypeOK, ReadTypes
  <2> QED BY <2>1, <2>2 DEF BlockInv
<1> QED BY <1>1, <1>2, <1>3 DEF AllInv

(* A new head adds to what was seen, and so to what may be answered.       *)
LEMMA NewHeadKeepsAll ==
    ASSUME AllInv, ReadsInv', NEW c \in Chains, NewHead(c), UNCHANGED body
    PROVE  AllInv'
<1>1. /\ chain' = c /\ known' = known \cup c /\ reorgs' = reorgs + 1 /\ reorgs < MaxReorgs
      /\ UNCHANGED <<pc, want, got, answer, gone, body>>
      /\ \A r \in Callers : seen'[r] = IF Open(r) THEN seen[r] \cup {c} ELSE seen[r]
      /\ seen' \in [Callers -> SUBSET Chains]
  BY DEF NewHead, SetCanonical, AllInv, AnswerTypes
<1>2. AnswerTypes'
  BY <1>1, NodeAssumption DEF AllInv, AnswerTypes, NodeTypeOK
<1>3. BlockInv'
  BY NewHeadKeepsInv DEF AllInv
<1>4. ASSUME NEW r \in TxReqs PROVE TxInv(r)'
  <2>1. TxInv(r) /\ r \in Callers
    BY TxAssumption DEF AllInv
  <2>2. \A b : OnChain(r, b) => \E d \in seen'[r] : b = TxBlock(d, want[r].tx)
    BY <1>1, <2>1 DEF OnChain
  <2>3. CASE Open(r)
    <3>1. answer[r].code = "none" /\ answer[r].why = ""
      <4>1. NoAnswer.code = "none" /\ NoAnswer.why = ""
        BY DEF NoAnswer
      <4> QED BY <2>1, <2>3, <4>1 DEF TxInv, Open
    <3> QED BY <1>1, <2>1, <2>2, <2>3, <3>1 DEF TxInv, Open, OnChain
  <2>4. CASE ~Open(r)
    BY <1>1, <2>1, <2>4 DEF TxInv, Open, OnChain, TxOk, ChainChanged
  <2> QED BY <2>3, <2>4
<1>5. ASSUME NEW r \in QueryReqs PROVE QueryInv(r)'
  <2>1. QueryInv(r) /\ r \in Callers
    BY QueryAssumption DEF AllInv
  <2>2. CASE Open(r)
    <3>1. answer[r].code = "none"
      <4>1. NoAnswer.code = "none"
        BY DEF NoAnswer
      <4> QED BY <2>1, <2>2, <4>1 DEF QueryInv, Open
    <3>2. AnsweredRight(r)' /\ AbortedForHeight(r)'
      BY <1>1, <3>1 DEF AnsweredRight, AbortedForHeight
    <3> QED BY <1>1, <2>1, <2>2, <3>2 DEF QueryInv, Open
  <2>3. CASE ~Open(r)
    <3>1. seen'[r] = seen[r]
      BY <1>1, <2>1, <2>3
    <3> QED BY <1>1, <2>1, <2>3, <3>1 DEF QueryInv, Open, AnsweredRight, AbortedForHeight
  <2> QED BY <2>2, <2>3
<1> QED BY <1>2, <1>3, <1>4, <1>5 DEF AllInv

(* The end of a context changes none of the conditions.                    *)
LEMMA QuietKeepsConditions ==
    ASSUME AllInv, UNCHANGED <<chain, known, pc, want, got, answer, seen, body>>
    PROVE  BlockInv' /\ (\A r \in TxReqs : TxInv(r)') /\ (\A r \in QueryReqs : QueryInv(r)')
<1>1. BlockInv'
  BY DEF AllInv, BlockInv, ReadTypes, ReadInv, Open, Reading, Paired, NamedSoFar, Served
<1>2. ASSUME NEW r \in TxReqs PROVE TxInv(r)'
  BY DEF AllInv, TxInv, Open, OnChain, TxOk, ChainChanged
<1>3. ASSUME NEW r \in QueryReqs PROVE QueryInv(r)'
  BY DEF AllInv, QueryInv, Open, AnsweredRight, AbortedForHeight
<1> QED BY <1>1, <1>2, <1>3

(* Every step of the reads keeps every condition.                          *)
LEMMA ReadsStepKeepsAll == AllInv /\ [ReadsNext]_txVars => AllInv'
<1> SUFFICES ASSUME AllInv, [ReadsNext]_txVars PROVE AllInv'
  OBVIOUS
<1>0. ReadsInv' /\ ReadsInv /\ AnswerTypes /\ BlockInv
  BY ReadsStepKeepsInv DEF AllInv
<1>1. ASSUME NEW r \in BlockReqs, BlockArrive(r) \/ BlockStep(r), UNCHANGED body
      PROVE  AllInv'
  <2>2. r \in Callers /\ r \notin TxReqs /\ r \notin QueryReqs
    BY ReadsAssumption
  <2>3. PICK b \in Blocks \cup {NoBlock} : body' = [body EXCEPT ![r] = b]
    BY <1>0, <1>1, <2>2, BodyIsKept
  <2>1. AnswerTypes' /\ Frame(r) /\ BlockInv'
    BY <1>0, <1>1, <2>3, BlockStepFrame, BlockStepKeepsInv
  <2> QED BY <1>0, <2>1, <2>2, FrameKeepsAll
<1>2. ASSUME NEW r \in TxReqs, TxArrive(r) \/ TxStep(r)
      PROVE  AllInv'
  <2>1. AnswerTypes' /\ Frame(r) /\ TxInv(r)'
    BY <1>0, <1>2, TxFrame DEF AllInv
  <2>2. r \in Callers /\ r \notin BlockReqs /\ r \notin QueryReqs
    BY ReadsAssumption
  <2> QED BY <1>0, <2>1, <2>2, FrameKeepsAll
<1>3. ASSUME NEW r \in QueryReqs, QueryArrive(r) \/ QueryStep(r), UNCHANGED body
      PROVE  AllInv'
  <2>1. AnswerTypes' /\ Frame(r) /\ QueryInv(r)'
    BY <1>0, <1>3, QueryFrame DEF AllInv
  <2>2. r \in Callers /\ r \notin BlockReqs /\ r \notin TxReqs
    BY ReadsAssumption
  <2> QED BY <1>0, <2>1, <2>2, FrameKeepsAll
<1>4. ASSUME NEW r, r \in Callers, Disconnect(r), UNCHANGED body
      PROVE  AllInv'
  <2>1. /\ UNCHANGED <<chain, known, reorgs, pc, want, got, answer, seen, body>>
        /\ gone' = gone \cup {r}
    BY <1>4 DEF Disconnect, nodeVars
  <2>2. AnswerTypes' /\ Frame(r)
    BY <1>0, <1>4, <2>1 DEF AnswerTypes, NodeTypeOK, Frame
  <2>3. BlockInv' /\ (r \in TxReqs => TxInv(r)') /\ (r \in QueryReqs => QueryInv(r)')
    BY <2>1, QuietKeepsConditions
  <2> QED BY <1>0, <1>4, <2>2, <2>3, FrameKeepsAll
<1>5. CASE UNCHANGED txVars
  <2>1. UNCHANGED <<chain, known, reorgs, pc, want, got, answer, gone, seen, body>>
    BY <1>5 DEF txVars, readVars, reqVars, nodeVars
  <2>2. AnswerTypes'
    BY <1>0, <2>1 DEF AnswerTypes, NodeTypeOK
  <2> QED BY <1>0, <2>1, <2>2, QuietKeepsConditions DEF AllInv
<1> QED BY <1>0, <1>1, <1>2, <1>3, <1>4, <1>5, NewHeadKeepsAll, ReadsAssumption
        DEF ReadsNext, TxNext

(* The conditions hold at the start.                                       *)
LEMMA InitAll == TxInit => AllInv
<1> SUFFICES ASSUME TxInit PROVE AllInv
  OBVIOUS
<1>1. ReadsInv
  BY InitGateInv DEF TxInit, RequestsInit, GateInit, ReadsInv, GateFollowsPc, Stages
<1>2. BlockInv
  BY InitKeepsInv DEF TxInit
<1>3. NoAnswer \in Answers /\ NoAnswer.code = "none" /\ NoAnswer.why = "" /\ NoParts.trace = NoBlock
  BY NothingIsParts DEF NoAnswer, NoParts, Answers, Codes, Whys
<1>4. AnswerTypes
  <2>1. NodeTypeOK
    BY NodeAssumption DEF TxInit, RequestsInit, NodeInit, NodeTypeOK
  <2>2. /\ pc = [r \in Callers |-> "idle"] /\ "idle" \in Stages
        /\ want = [r \in Callers |-> [by |-> "none"]]
        /\ got = [r \in Callers |-> NoParts] /\ answer = [r \in Callers |-> NoAnswer]
        /\ gone = {} /\ seen = [r \in Callers |-> {}]
        /\ body = [r \in Callers |-> NoBlock]
    BY DEF TxInit, RequestsInit, Stages
  <2>3. want = [r \in Callers |-> want[r]]
    BY <2>2
  <2> QED BY <1>3, <2>1, <2>2, <2>3, NothingIsParts DEF AnswerTypes
<1>5. \A r \in Callers : /\ pc[r] = "idle" /\ got[r] = NoParts /\ answer[r] = NoAnswer
  BY DEF TxInit, RequestsInit
<1>6. \A r \in TxReqs : TxInv(r)
  BY <1>3, <1>5, TxAssumption DEF TxInv, Open
<1>7. \A r \in QueryReqs : QueryInv(r)
  BY <1>3, <1>5, QueryAssumption DEF QueryInv, Open, AnsweredRight, AbortedForHeight
<1> QED BY <1>1, <1>2, <1>4, <1>6, <1>7 DEF AllInv

-----------------------------------------------------------------------------
(* The inductive invariant of all reads together.                          *)
THEOREM AllReadsInvariant == ReadsSpec => []AllInv
BY InitAll, ReadsStepKeepsAll, PTL DEF ReadsSpec

(* Every variable keeps its type, whatever requests run together.          *)
THEOREM ReadsTypesKept == ReadsSpec => []TxTypeOK
<1>1. AllInv => TxTypeOK
  BY DEF AllInv, ReadsInv, GateInv, AnswerTypes, TxTypeOK, RequestsTypeOK
<1> QED BY <1>1, AllReadsInvariant, PTL

(* What the requests share with geth and the gate keeps its type.          *)
THEOREM RequestTypesKept == ReadsSpec => []RequestsTypeOK
<1>1. TxTypeOK => RequestsTypeOK
  BY DEF TxTypeOK
<1> QED BY <1>1, ReadsTypesKept, PTL

(* The receipt and the trace of /block/transaction come from blocks that   *)
(* were canonical while the request was open (client.go:225-273).          *)
THEOREM TxAnswersWereCanonical == ReadsSpec => []TxAnswerWasCanonical
<1>1. AllInv => TxAnswerWasCanonical
  <2> SUFFICES ASSUME AllInv, NEW r \in TxReqs, answer[r].code = "ok"
               PROVE  /\ \E c \in seen[r] : Receipt(answer[r]) \in c
                      /\ \E c \in seen[r] : answer[r].parts.trace \in c
                      /\ want[r].tx \in TxSet(Receipt(answer[r])) \cap TxSet(answer[r].parts.trace)
    BY DEF TxAnswerWasCanonical
  <2>1. TxOk(r, answer[r].parts) /\ seen[r] \subseteq Chains
    BY TxAssumption DEF AllInv, TxInv, AnswerTypes
  <2>2. PICK b : answer[r].parts.receipts = <<b>> /\ b # NoBlock /\ OnChain(r, b)
    BY <2>1 DEF TxOk
  <2>3. Receipt(answer[r]) = b
    BY <2>2 DEF Receipt
  <2>4. ASSUME NEW d, d # NoBlock, OnChain(r, d)
        PROVE  (\E c \in seen[r] : d \in c) /\ want[r].tx \in TxSet(d)
    BY <2>1, <2>4, TxBlockIsThere DEF OnChain
  <2>5. /\ (\E c \in seen[r] : b \in c) /\ want[r].tx \in TxSet(b)
    BY <2>2, <2>4
  <2>6. /\ \E c \in seen[r] : answer[r].parts.trace \in c
        /\ want[r].tx \in TxSet(answer[r].parts.trace)
    BY <2>1, <2>4 DEF TxOk
  <2> QED BY <2>3, <2>5, <2>6
<1> QED BY <1>1, AllReadsInvariant, PTL

(* /block/transaction is told of no orphan and mixes no blocks while the   *)
(* transaction stays where it is, whatever else the chains of geth do      *)
(* (client.go:225-273).                                                    *)
THEOREM TornOnlyIfEverMoved == ReadsSpec => []TornOnlyIfMoved
<1>1. AllInv => TornOnlyIfMoved
  <2> SUFFICES ASSUME AllInv, NEW r \in TxReqs, NEW b \in Blocks, seen[r] # {},
                      \A c \in seen[r] : TxBlock(c, want[r].tx) = b
               PROVE  /\ answer[r].why # "orphaned"
                      /\ answer[r].code = "ok" =>
                            /\ answer[r].parts.receipts = <<b>>
                            /\ answer[r].parts.trace = b
                            /\ /\ want[r].tx \in TxSet(answer[r].parts.header)
                               /\ \E c \in seen[r] : answer[r].parts.header \in c
                               => answer[r].parts.header = b
    BY DEF TornOnlyIfMoved
  <2>1. TxInv(r) /\ seen[r] \subseteq Chains
    BY TxAssumption DEF AllInv, AnswerTypes
  <2>2. \A d : OnChain(r, d) <=> d = b
    BY DEF OnChain
  <2>3. answer[r].why # "orphaned"
    BY <2>1, <2>2 DEF TxInv, ChainChanged
  <2>4. answer[r].code = "ok" => answer[r].parts.receipts = <<b>> /\ answer[r].parts.trace = b
    BY <2>1, <2>2 DEF TxInv, TxOk
  <2>5. ASSUME NEW h, NEW c \in seen[r], h \in c, want[r].tx \in TxSet(h)
        PROVE  h = b
    <3>1. TxBlock(c, want[r].tx) \in c /\ want[r].tx \in TxSet(TxBlock(c, want[r].tx))
      BY <2>5 DEF TxBlock
    <3> QED BY <2>1, <2>5, <3>1, NodeAssumption
  <2> QED BY <2>3, <2>4, <2>5
<1> QED BY <1>1, AllReadsInvariant, PTL

(* A balance, a status and the answer of a /call are about the block they  *)
(* name, as it was at one moment (client.go:276-294, 1405-1475).           *)
THEOREM QueriesAnswerTheirBlock == ReadsSpec => []QueryAnswersItsBlock
<1>1. AllInv => QueryAnswersItsBlock
  BY DEF AllInv, QueryInv, AnsweredRight, QueryAnswersItsBlock
<1> QED BY <1>1, AllReadsInvariant, PTL

(* Nothing but a height that the chain does not have aborts a query        *)
(* (client.go:1450).                                                       *)
THEOREM OnlyUnknownHeightEverAborts == ReadsSpec => []OnlyUnknownHeightAborts
<1>1. AllInv => OnlyUnknownHeightAborts
  BY DEF AllInv, QueryInv, AbortedForHeight, OnlyUnknownHeightAborts
<1> QED BY <1>1, AllReadsInvariant, PTL

(* /block keeps its promise among requests of all kinds: the others share  *)
(* geth and the gate with it, and neither lets them change its answer.     *)
THEOREM BlockKeepsPromiseAmongAll == ReadsSpec => KeepsPromise
<1>1. AllInv /\ [ReadsNext]_txVars => [Promise!Next]_(Promise!abstractVars)
  <2> SUFFICES ASSUME AllInv, [ReadsNext]_txVars
               PROVE  [Promise!Next]_(Promise!abstractVars)
    OBVIOUS
  <2>0. BlockInv /\ AnswerTypes
    BY DEF AllInv
  <2>1. ASSUME NEW r \in Callers, Frame(r), r \notin BlockReqs
        PROVE  UNCHANGED Promise!abstractVars
    <3>1. /\ UNCHANGED <<chain, known, reorgs>>
          /\ \A q \in BlockReqs : /\ pc'[q] = pc[q] /\ want'[q] = want[q]
                                 /\ answer'[q] = answer[q] /\ seen'[q] = seen[q]
      BY <2>1, BlockAssumption DEF Frame
    <3> QED BY <3>1 DEF Promise!abstractVars, Promise!nodeVars
  <2>2. CASE UNCHANGED txVars
    BY <2>2 DEF txVars, readVars, reqVars, nodeVars, Promise!abstractVars, Promise!nodeVars
  <2>3. ASSUME NEW c \in Chains, NewHead(c) PROVE Promise!Next
    BY <2>0, <2>3, NewHeadMaps DEF Promise!Next
  <2>4. ASSUME NEW r \in BlockReqs, BlockArrive(r) \/ BlockStep(r) \/ Disconnect(r)
        PROVE  [Promise!Next]_(Promise!abstractVars)
    BY <2>0, <2>4, RequestStepMaps
  <2>5. ASSUME NEW r, Disconnect(r) PROVE UNCHANGED Promise!abstractVars
    BY <2>5 DEF Disconnect, nodeVars, Promise!abstractVars, Promise!nodeVars
  <2>6. ASSUME NEW r \in TxReqs, TxArrive(r) \/ TxStep(r)
        PROVE  UNCHANGED Promise!abstractVars
    BY <2>0, <2>1, <2>6, TxFrame, ReadsAssumption DEF AllInv
  <2>7. ASSUME NEW r \in QueryReqs, QueryArrive(r) \/ QueryStep(r), UNCHANGED body
        PROVE  UNCHANGED Promise!abstractVars
    BY <2>0, <2>1, <2>7, QueryFrame, ReadsAssumption DEF AllInv
  <2> QED BY <2>2, <2>3, <2>4, <2>5, <2>6, <2>7 DEF ReadsNext, TxNext
<1>2. TxInit => Promise!Init
  BY InitMaps DEF TxInit
<1> QED BY <1>1, <1>2, AllReadsInvariant, PTL DEF ReadsSpec, KeepsPromise, Promise!Spec
=============================================================================
