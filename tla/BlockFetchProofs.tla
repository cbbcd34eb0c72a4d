--------------------------- MODULE BlockFetchProofs ---------------------------
(***************************************************************************)
(* BlockFetch implements BlockRead, for any blocks, chains, requests,      *)
(* units of the semaphore and number of reorganisations.  The argument: a  *)
(* receipt comes from a chain that the request has seen; a block whose     *)
(* receipts all agree with it was therefore canonical, and one receipt     *)
(* that does not agree shows a chain that took a transaction away.         *)
(***************************************************************************)
EXTENDS BlockFetch, TLAPS

(* The header of a block has been read, and it is paired with receipts.    *)
Reading(r) == pc[r] \in {"uncles", "receipts", "traces", "tracing", "populate"}
Paired(r)  == pc[r] \in {"traces", "tracing", "populate"}

(* The identifier named b on a chain that the request has seen.            *)
NamedSoFar(r, b) == \E c \in seen[r] : Resolve(want[r], c, known) = b

(* An element of the batch of receipts of b.                               *)
Served(r, b, i, part) ==
    part = RpcError \/ \E c \in seen[r] : part = TxBlock(c, Txs[b][i])

ReadTypes ==
    /\ chain \in Chains
    /\ pc \in [Callers -> Stages]
    /\ want = [r \in Callers |-> want[r]]
    /\ got \in [Callers -> Parts]
    /\ answer = [r \in Callers |-> answer[r]]
    /\ seen \in [Callers -> SUBSET Chains]

ReadInv(r) ==
    LET b  == got[r].header
        rs == got[r].receipts
    IN  /\ Open(r) => chain \in seen[r] /\ want[r] \in BlockIdents
        /\ Reading(r) =>
              /\ b \in Blocks /\ NamedSoFar(r, b) /\ got[r].trace \in {b, NoBlock}
              /\ Len(rs) <= Len(Txs[b])
              /\ \A i \in 1..Len(rs) : Served(r, b, i, rs[i])
        /\ Paired(r) =>
              /\ Len(rs) = Len(Txs[b])
              /\ \A i \in 1..Len(rs) : rs[i] = b

BlockInv == ReadTypes /\ \A r \in BlockReqs : ReadInv(r)

-----------------------------------------------------------------------------
(* What geth finds on a chain is a block of that chain, or nothing.        *)
LEMMA TipIsThere == ASSUME NEW c \in Chains PROVE Tip(c) \in c
BY NodeAssumption DEF Tip

(* A transaction that a chain holds is in the block it is found in.        *)
LEMMA TxBlockIsThere ==
    ASSUME NEW c \in Chains, NEW t, TxBlock(c, t) # NoBlock
    PROVE  TxBlock(c, t) \in c /\ t \in TxSet(TxBlock(c, t))
BY DEF TxBlock

(* The block of a transaction is a part of a read, or nothing.             *)
LEMMA TxBlockIsPart ==
    ASSUME NEW c \in Chains, NEW t
    PROVE  TxBlock(c, t) \in Part
BY TxBlockIsThere, NodeAssumption DEF Part

(* An identifier that geth can resolve names a block.                      *)
LEMMA ResolvedIsBlock ==
    ASSUME NEW id \in Idents, NEW c \in Chains, NEW stored,
           Resolve(id, c, stored) # NoBlock
    PROVE  Resolve(id, c, stored) \in Blocks
<1> DEFINE b == Resolve(id, c, stored)
<1>0. c \subseteq Blocks
  BY NodeAssumption
<1>1. CASE id \in [by : {"hash"}, hash : Blocks]
  BY <1>1 DEF Resolve
<1>2. CASE id \in [by : {"index"}, index : {Number[d] : d \in Blocks}]
  <2>1. b = BlockAt(c, id.index)
    BY <1>2 DEF Resolve
  <2>2. b \in c
    BY <2>1 DEF BlockAt
  <2> QED BY <2>2, <1>0
<1>3. CASE id \in [by : {"current"}]
  <2>1. b = Tip(c)
    BY <1>3 DEF Resolve
  <2> QED BY <2>1, <1>0, TipIsThere
<1> QED BY <1>1, <1>2, <1>3 DEF Idents

(* What geth has stored stays: a block that was found is found again.      *)
LEMMA ResolvedStays ==
    ASSUME NEW id \in Idents, NEW c, NEW less, NEW more, less \subseteq more,
           Resolve(id, c, less) # NoBlock
    PROVE  Resolve(id, c, more) = Resolve(id, c, less)
<1>1. CASE id.by = "hash"
  BY <1>1 DEF Resolve
<1>2. CASE id.by # "hash"
  BY <1>2 DEF Resolve, Idents
<1> QED BY <1>1, <1>2

(* The transactions of a block are found in it, on the chains that have it.*)
LEMMA LostIsElsewhere ==
    ASSUME NEW c \in Chains, NEW b \in Blocks, NEW i \in 1..Len(Txs[b]),
           TxBlock(c, Txs[b][i]) \notin {NoBlock, b}
    PROVE  b \notin c
<1> DEFINE t == Txs[b][i]
           d == TxBlock(c, t)
<1>1. d \in c /\ t \in TxSet(d)
  BY TxBlockIsThere
<1>2. t \in TxSet(b)
  BY DEF TxSet
<1> QED BY <1>1, <1>2, NodeAssumption

-----------------------------------------------------------------------------
(* A step that neither geth nor the other requests notice.                 *)
Alone(r) ==
    /\ UNCHANGED <<chain, known>>
    /\ ReadTypes'
    /\ \A q \in BlockReqs \ {r} :
          /\ pc'[q] = pc[q] /\ want'[q] = want[q]
          /\ got'[q] = got[q] /\ seen'[q] = seen[q]

(* A step of one read leaves the conditions of the others alone.           *)
LEMMA AloneKeepsOthers ==
    ASSUME BlockInv, NEW r \in BlockReqs, Alone(r), ReadInv(r)'
    PROVE  BlockInv'
<1>1. ASSUME NEW q \in BlockReqs \ {r} PROVE ReadInv(q)'
  BY <1>1 DEF BlockInv, Alone, ReadInv, Open, Reading, Paired, NamedSoFar, Served
<1> QED BY <1>1 DEF BlockInv, Alone

(* Nothing is required of a request that has been answered.                *)
LEMMA ReplyKeepsInv ==
    ASSUME BlockInv, NEW r \in BlockReqs, NEW code, NEW why, NEW parts,
           Reply(r, code, why, parts), UNCHANGED nodeVars
    PROVE  BlockInv'
<1> USE BlockAssumption
<1>1. NoParts \in Parts
  BY DEF NoParts, Parts, Part
<1>2. Alone(r)
  BY <1>1 DEF BlockInv, ReadTypes, Reply, Alone, nodeVars, Stages
<1>3. pc'[r] = "done"
  BY DEF BlockInv, ReadTypes, Reply
<1>4. ReadInv(r)'
  BY <1>3 DEF ReadInv, Open, Reading, Paired
<1> QED BY <1>2, <1>4, AloneKeepsOthers

(* A step that goes on to another stage is one of its read alone.          *)
LEMMA ProceedsAlone ==
    ASSUME BlockInv, NEW r \in BlockReqs, NEW s \in Stages, NEW parts \in Parts,
           Proceed(r, s, parts), UNCHANGED nodeVars
    PROVE  /\ Alone(r)
           /\ pc'[r] = s /\ got'[r] = parts
           /\ want'[r] = want[r] /\ seen'[r] = seen[r]
BY BlockAssumption DEF BlockInv, ReadTypes, Proceed, Alone, nodeVars

-----------------------------------------------------------------------------
(* Every action keeps the invariant.                                       *)
LEMMA ArriveKeepsInv ==
    ASSUME BlockInv, NEW r \in BlockReqs, BlockArrive(r)
    PROVE  BlockInv'
<1> USE BlockAssumption
<1>1. PICK id \in BlockIdents : Arrive(r, id, "fetch")
  BY DEF BlockArrive
<1>2. Alone(r)
  BY <1>1 DEF Arrive, Alone, BlockInv, ReadTypes, nodeVars, Stages
<1>3. pc'[r] = "fetch" /\ want'[r] = id /\ seen'[r] = {chain} /\ chain' = chain
  BY <1>1 DEF Arrive, BlockInv, ReadTypes, nodeVars
<1>4. ReadInv(r)'
  BY <1>3 DEF ReadInv, Open, Reading, Paired
<1> QED BY <1>2, <1>4, AloneKeepsOthers

(* The first call of getBlock brings the block that was asked for.         *)
LEMMA FetchKeepsInv ==
    ASSUME BlockInv, NEW r \in BlockReqs, FetchBlock(r)
    PROVE  BlockInv'
<1>a. PICK b : b = Resolve(want[r], chain, known)
  OBVIOUS
<1> DEFINE p == [NoParts EXCEPT !.header = b]
<1>0. UNCHANGED nodeVars /\ pc[r] = "fetch"
  BY DEF FetchBlock
<1>1. CASE b = NoBlock
  BY <1>a, <1>0, <1>1, ReplyKeepsInv DEF FetchBlock, BlockFails
<1>2. CASE b # NoBlock
  <2>1. chain \in seen[r] /\ want[r] \in Idents /\ chain \in Chains
    BY <1>0, BlockAssumption DEF BlockInv, ReadInv, Open, ReadTypes
  <2>2. b \in Blocks
    BY <1>a, <1>2, <2>1, ResolvedIsBlock
  <2>3. p \in Parts /\ p.header = b /\ p.receipts = <<>> /\ p.trace = NoBlock
    <3> DEFINE S == Seq(Blocks \cup {NoBlock, RpcError})
    <3>1. p = [header |-> b, receipts |-> <<>>, trace |-> NoBlock]
      BY DEF NoParts
    <3>2. <<>> \in S
      OBVIOUS
    <3> HIDE DEF p, S
    <3>3. p \in [header : Blocks \cup {NoBlock}, receipts : S, trace : Blocks \cup {NoBlock}]
      BY <2>2, <3>1, <3>2
    <3>4. p.header = b /\ p.receipts = <<>> /\ p.trace = NoBlock
      BY <3>1
    <3> QED BY <3>3, <3>4 DEF Parts, Part, S
  <2>4. Proceed(r, "uncles", p)
    BY <1>a, <1>2 DEF FetchBlock
  <2>5. /\ Alone(r)
        /\ pc'[r] = "uncles" /\ got'[r] = p
        /\ want'[r] = want[r] /\ seen'[r] = seen[r]
    BY <1>0, <2>3, <2>4, ProceedsAlone DEF Stages
  <2>6. NamedSoFar(r, b)'
    BY <1>a, <2>1, <2>5 DEF NamedSoFar, Alone
  <2>7. ReadInv(r)'
    <3>1. Len(p.receipts) = 0 /\ Len(Txs[b]) \in Nat
      <4>1. Txs[b] \in Seq(TxIds)
        BY <2>2, NodeAssumption
      <4>2. Len(<<>>) = 0
        OBVIOUS
      <4> QED BY <2>3, <4>1, <4>2
    <3>2. Open(r) /\ chain' = chain
      BY <1>0, <2>5 DEF Open, Alone
    <3>3. chain' \in seen'[r] /\ want'[r] \in BlockIdents
      BY <3>2, <2>5 DEF BlockInv, ReadInv
    <3>4. got'[r].header = b /\ got'[r].receipts = <<>> /\ got'[r].trace = NoBlock
      BY <2>3, <2>5
    <3> HIDE DEF p
    <3>5. /\ Len(got'[r].receipts) <= Len(Txs[b])
          /\ \A i \in 1..Len(got'[r].receipts) : FALSE
      BY <3>1, <3>4, <2>3
    <3>6. pc'[r] = "uncles" /\ ~Paired(r)'
      BY <2>5 DEF Paired
    <3> QED BY <3>3, <3>4, <3>5, <3>6, <2>2, <2>6 DEF ReadInv
  <2> QED BY <2>5, <2>7, AloneKeepsOthers
<1> QED BY <1>1, <1>2

(* Going on with the same parts, or with a receipt or a trace more.        *)
LEMMA SamePartsKeepInv ==
    ASSUME BlockInv, NEW r \in BlockReqs, NEW s, Proceed(r, s, got[r]),
           UNCHANGED nodeVars, Reading(r),
           \/ s = "receipts"
           \/ /\ s \in {"traces", "tracing", "populate"}
              /\ Len(got[r].receipts) = Len(Txs[got[r].header])
              /\ \A i \in 1..Len(got[r].receipts) : got[r].receipts[i] = got[r].header
    PROVE  BlockInv'
<1>1. /\ Alone(r)
      /\ pc'[r] = s /\ got'[r] = got[r]
      /\ want'[r] = want[r] /\ seen'[r] = seen[r]
  <2>1. s \in Stages /\ got[r] \in Parts
    BY BlockAssumption DEF Stages, BlockInv, ReadTypes
  <2> QED BY <2>1, ProceedsAlone
<1>2. ReadInv(r) /\ Open(r)
  BY DEF BlockInv, Reading, Open
<1>3. ReadInv(r)'
  BY <1>1, <1>2 DEF ReadInv, Reading, Paired, Open, NamedSoFar, Served, Alone
<1> QED BY <1>1, <1>3, AloneKeepsOthers

(* The receipts of getBlockReceipts are asked for in their order.          *)
LEMMA ServeKeepsInv ==
    ASSUME BlockInv, NEW r \in BlockReqs, ServeReceipt(r)
    PROVE  BlockInv'
<1>a. PICK b, rs : b = got[r].header /\ rs = got[r].receipts
  OBVIOUS
<1> DEFINE n == Len(rs) + 1
<1>0. /\ pc[r] = "receipts" /\ n <= Len(Txs[b])
      /\ UNCHANGED nodeVars
  BY <1>a DEF ServeReceipt
<1>1. PICK part \in {TxBlock(chain, Txs[b][n]), RpcError} :
         Proceed(r, "receipts", [got[r] EXCEPT !.receipts = Append(@, part)])
  BY <1>a DEF ServeReceipt
<1> DEFINE p == [got[r] EXCEPT !.receipts = Append(@, part)]
<1>2. /\ ReadInv(r) /\ got[r] \in Parts /\ chain \in Chains
      /\ Open(r) /\ Reading(r) /\ ~Paired(r) /\ chain \in seen[r]
  BY <1>0, BlockAssumption
     DEF BlockInv, ReadTypes, Open, Reading, Paired, ReadInv
<1>3. part \in Part
  BY <1>2, TxBlockIsPart DEF Part
<1>4. rs \in Seq(Part) /\ Len(rs) \in Nat
  BY <1>a, <1>2 DEF Parts
<1>5. p \in Parts /\ p.header = b /\ p.receipts = Append(rs, part) /\ p.trace = got[r].trace
  <2>1. Append(rs, part) \in Seq(Part)
    BY <1>3, <1>4
  <2>2. p = [got[r] EXCEPT !.receipts = Append(rs, part)]
    BY <1>a
  <2> QED BY <1>a, <1>2, <2>1, <2>2 DEF Parts
<1>6. /\ Alone(r)
      /\ pc'[r] = "receipts" /\ got'[r] = p
      /\ want'[r] = want[r] /\ seen'[r] = seen[r]
  BY <1>0, <1>1, <1>5, ProceedsAlone DEF Stages
<1> HIDE DEF p
<1>7. /\ b \in Blocks /\ NamedSoFar(r, b) /\ got[r].trace \in {b, NoBlock}
      /\ \A i \in 1..Len(rs) : Served(r, b, i, rs[i])
  BY <1>a, <1>2 DEF ReadInv
<1>8. Served(r, b, n, part)
  BY <1>1, <1>2 DEF Served
<1>9. ASSUME NEW i \in 1..Len(p.receipts)
      PROVE  Served(r, b, i, p.receipts[i])
  <2>1. CASE i = n
    <3>1. p.receipts[i] = part
      BY <2>1, <1>4, <1>5
    <3> QED BY <3>1, <2>1, <1>8
  <2>2. CASE i # n
    <3>1. i \in 1..Len(rs) /\ p.receipts[i] = rs[i]
      BY <2>2, <1>3, <1>4, <1>5
    <3> QED BY <3>1, <1>7
  <2> QED BY <2>1, <2>2
<1>14. UNCHANGED <<chain, known>>
  BY <1>6 DEF Alone
<1>10. /\ NamedSoFar(r, b)'
       /\ \A i \in 1..Len(got'[r].receipts) : Served(r, b, i, got[r].receipts[i])'
  BY <1>14, <1>6, <1>7, <1>9 DEF NamedSoFar, Served
<1>11. Len(p.receipts) <= Len(Txs[b])
  BY <1>0, <1>4, <1>5
<1>12. Open(r)' /\ ~Paired(r)' /\ chain' \in seen'[r] /\ want'[r] \in BlockIdents
  BY <1>2, <1>6 DEF Open, Paired, ReadInv, Alone
<1>13. ReadInv(r)'
  BY <1>5, <1>6, <1>7, <1>10, <1>11, <1>12 DEF ReadInv, Paired
<1> QED BY <1>6, <1>13, AloneKeepsOthers

(* The checks of getBlockReceipts let only the right receipts pass.        *)
LEMMA CheckKeepsInv ==
    ASSUME BlockInv, NEW r \in BlockReqs, CheckReceipts(r)
    PROVE  BlockInv'
<1> DEFINE b == got[r].header
           rs == got[r].receipts
           bad == {i \in 1..Len(rs) : rs[i] # b}
<1>0. pc[r] = "receipts" /\ Len(rs) = Len(Txs[b]) /\ UNCHANGED nodeVars
  BY DEF CheckReceipts
<1>1. CASE bad = {} /\ Proceed(r, IF Number[b] = 0 THEN "populate" ELSE "traces", got[r])
  BY <1>0, <1>1, SamePartsKeepInv DEF Reading, Proceed
<1>2. CASE \E i \in bad : BlockFails(r, ReceiptError(rs[i]))
  BY <1>0, <1>2, ReplyKeepsInv DEF BlockFails
<1> QED BY <1>1, <1>2 DEF CheckReceipts

(* A read that comes to populateTransactions has all its parts.            *)
LEMMA PopulateIsWhole ==
    ASSUME BlockInv, NEW r \in BlockReqs, pc[r] = "populate",
           ~(Txs[got[r].header] # <<>> /\ got[r].trace = NoBlock)
    PROVE  IsWhole(got[r]) /\ got[r].header \in Blocks
BY DEF BlockInv, ReadInv, Reading, Paired, IsWhole

(* No step of a read breaks the invariant.                                 *)
LEMMA BlockStepKeepsInv ==
    ASSUME BlockInv, NEW r \in BlockReqs, BlockArrive(r) \/ BlockStep(r)
    PROVE  BlockInv'
<1>1. CASE BlockArrive(r)
  BY <1>1, ArriveKeepsInv
<1>2. CASE FetchBlock(r)
  BY <1>2, FetchKeepsInv
<1>3. CASE GetUncles(r)
  BY <1>3, SamePartsKeepInv DEF GetUncles, Reading
<1>4. CASE ServeReceipt(r)
  BY <1>4, ServeKeepsInv
<1>5. CASE CheckReceipts(r)
  BY <1>5, CheckKeepsInv
<1>6. CASE AcquireForBlock(r)
  BY <1>6, SamePartsKeepInv DEF AcquireForBlock, Reading, Paired, BlockInv, ReadInv
<1>7. CASE ResumeForBlock(r)
  <2>1. UNCHANGED <<chain, known, pc, want, got, answer, seen>>
    BY <1>7 DEF ResumeForBlock, nodeVars, reqVars
  <2> QED BY <2>1 DEF BlockInv, ReadTypes, ReadInv, Open, Reading, Paired, NamedSoFar, Served
<1>8. CASE GiveUpBlockTraces(r)
  BY <1>8, ReplyKeepsInv DEF GiveUpBlockTraces, BlockFails
<1>9. CASE BlockTracesReturn(r)
  <2>1. PICK tr \in {got[r].header, NoBlock} :
           Proceed(r, "populate", [got[r] EXCEPT !.trace = tr])
    BY <1>9 DEF BlockTracesReturn
  <2> DEFINE p == [got[r] EXCEPT !.trace = tr]
  <2>2. /\ got[r] \in Parts /\ ReadInv(r) /\ pc[r] = "tracing"
        /\ Reading(r) /\ Paired(r) /\ Open(r) /\ UNCHANGED nodeVars
    BY <1>9, BlockAssumption
       DEF BlockTracesReturn, BlockInv, ReadTypes, Reading, Paired, Open
  <2>3. p \in Parts /\ p.header = got[r].header /\ p.receipts = got[r].receipts
        /\ p.trace = tr
    BY <2>2 DEF Parts, ReadInv
  <2>4. /\ Alone(r)
        /\ pc'[r] = "populate" /\ got'[r] = p
        /\ want'[r] = want[r] /\ seen'[r] = seen[r]
    BY <2>1, <2>2, <2>3, ProceedsAlone DEF Stages
  <2> HIDE DEF p
  <2>5. ReadInv(r)'
    BY <2>2, <2>3, <2>4 DEF ReadInv, Reading, Paired, Open, NamedSoFar, Served, Alone
  <2> QED BY <2>4, <2>5, AloneKeepsOthers
<1>10. CASE PopulateBlock(r)
  BY <1>10, ReplyKeepsInv DEF PopulateBlock
<1>11. CASE BlockCallFails(r)
  BY <1>11, ReplyKeepsInv DEF BlockCallFails, BlockFails
<1> QED BY <1>1, <1>2, <1>3, <1>4, <1>5, <1>6, <1>7, <1>8, <1>9, <1>10, <1>11
        DEF BlockStep

(* A reorganisation adds a chain to those seen, and blocks to those known. *)
LEMMA NewHeadKeepsInv ==
    ASSUME BlockInv, NEW c \in Chains, NewHead(c)
    PROVE  BlockInv'
<1> USE BlockAssumption
<1>1. /\ chain' = c /\ known \subseteq known'
      /\ UNCHANGED <<pc, want, got, answer>>
      /\ \A r \in Callers : seen[r] \subseteq seen'[r] /\ (Open(r) => c \in seen'[r])
      /\ seen' \in [Callers -> SUBSET Chains]
  BY DEF NewHead, SetCanonical, BlockInv, ReadTypes
<1>2. ReadTypes'
  BY <1>1 DEF BlockInv, ReadTypes
<1>3. ASSUME NEW r \in BlockReqs PROVE ReadInv(r)'
  <2>1. ReadInv(r)
    BY DEF BlockInv
  <2>2. Open(r)' => chain' \in seen'[r] /\ want'[r] \in BlockIdents
    BY <1>1, <2>1 DEF Open, ReadInv
  <2>3. ASSUME NEW b \in Blocks, NamedSoFar(r, b), want[r] \in Idents
        PROVE  NamedSoFar(r, b)'
    <3>1. PICK d \in seen[r] : Resolve(want[r], d, known) = b
      BY <2>3 DEF NamedSoFar
    <3>2. Resolve(want[r], d, known') = b
      BY <1>1, <2>3, <3>1, ResolvedStays, NodeAssumption
    <3> QED BY <1>1, <3>1, <3>2 DEF NamedSoFar
  <2>4. ASSUME NEW b, NEW i, NEW part, Served(r, b, i, part)
        PROVE  Served(r, b, i, part)'
    BY <1>1, <2>4 DEF Served
  <2>5. Reading(r) => want[r] \in Idents
    BY <2>1 DEF ReadInv, Open, Reading
  <2> QED BY <1>1, <2>1, <2>2, <2>3, <2>4, <2>5 DEF ReadInv, Reading, Paired
<1> QED BY <1>2, <1>3 DEF BlockInv

(* No step of /block breaks the invariant.                                 *)
LEMMA NextKeepsInv == BlockInv /\ [BlockNext]_readVars => BlockInv'
<1> SUFFICES ASSUME BlockInv, [BlockNext]_readVars PROVE BlockInv'
  OBVIOUS
<1>1. ASSUME NEW r \in BlockReqs, Disconnect(r) PROVE BlockInv'
  <2>1. UNCHANGED <<chain, known, pc, want, got, answer, seen>>
    BY <1>1 DEF Disconnect, nodeVars
  <2> QED BY <2>1 DEF BlockInv, ReadTypes, ReadInv, Open, Reading, Paired, NamedSoFar, Served
<1>2. CASE UNCHANGED readVars
  <2>1. UNCHANGED <<chain, known, pc, want, got, answer, seen>>
    BY <1>2 DEF nodeVars, readVars, reqVars
  <2> QED BY <2>1 DEF BlockInv, ReadTypes, ReadInv, Open, Reading, Paired, NamedSoFar, Served
<1> QED BY <1>1, <1>2, BlockStepKeepsInv, NewHeadKeepsInv DEF BlockNext

(* The invariant holds at the start.                                       *)
LEMMA InitKeepsInv == RequestsInit => BlockInv
BY NodeAssumption, BlockAssumption
   DEF RequestsInit, NodeInit, BlockInv, ReadTypes, ReadInv, Open, Reading, Paired,
       NoParts, Parts, Part, Stages

(* The inductive invariant of the reads of blocks.                         *)
THEOREM BlockInvariant == BlockSpec => []BlockInv
BY InitKeepsInv, NextKeepsInv, PTL DEF BlockSpec

-----------------------------------------------------------------------------
(* The steps of the implementation, seen as steps of the promise.          *)

(* The answer of an open request closes it.                                *)
LEMMA ReplyCloses ==
    ASSUME BlockInv, NEW r \in BlockReqs, Open(r),
           NEW code, NEW why, NEW parts, Reply(r, code, why, parts),
           UNCHANGED nodeVars, NEW k, NEW b,
           AbstractResult([code |-> code, why |-> why, parts |-> parts])
              = [code |-> k, block |-> b]
    PROVE  Promise!Close(r, k, b)
<1> USE BlockAssumption
<1>1. /\ pc' = [pc EXCEPT ![r] = "done"]
      /\ answer' = [answer EXCEPT ![r] = [code |-> code, why |-> why, parts |-> parts]]
      /\ UNCHANGED <<nodeVars, want, seen>>
      /\ pc \in [Callers -> Stages] /\ DOMAIN answer = Callers /\ r \in Callers
  BY DEF Reply, BlockInv, ReadTypes
<1>2. \A q \in BlockReqs \ {r} : pc'[q] = pc[q] /\ AbstractResult(answer'[q]) = AbstractResult(answer[q])
  BY <1>1
<1>3. pc'[r] = "done" /\ AbstractResult(answer'[r]) = [code |-> k, block |-> b]
  BY <1>1
<1> HIDE DEF AbstractResult
<1> QED BY <1>1, <1>2, <1>3 DEF Promise!Close, Promise!nodeVars, Open, nodeVars

(* Going on is invisible.                                                  *)
LEMMA ProceedStutters ==
    ASSUME BlockInv, NEW r \in BlockReqs, Open(r), NEW s \in Stages \ {"idle", "done"},
           NEW parts, Proceed(r, s, parts), UNCHANGED nodeVars
    PROVE  UNCHANGED Promise!abstractVars
<1>1. /\ pc' = [pc EXCEPT ![r] = s]
      /\ UNCHANGED <<nodeVars, want, seen, answer>>
      /\ pc \in [Callers -> Stages] /\ r \in Callers
  BY BlockAssumption DEF Proceed, BlockInv, ReadTypes
<1>2. \A q \in BlockReqs : (pc'[q] = "idle" <=> pc[q] = "idle") /\ (pc'[q] = "done" <=> pc[q] = "done")
  BY <1>1, BlockAssumption DEF Open
<1> QED BY <1>1, <1>2 DEF Promise!abstractVars, Promise!nodeVars, nodeVars

(* A failure of any other kind is promised to nobody.                      *)
LEMMA FailureIsAllowed ==
    ASSUME BlockInv, NEW r \in BlockReqs, Open(r), NEW code \in {"geth", "aborted"},
           NEW why, NEW parts, Reply(r, code, why, parts), UNCHANGED nodeVars
    PROVE  Promise!AnswerFailed(r)
<1>1. AbstractResult([code |-> code, why |-> why, parts |-> parts])
         = [code |-> "failed", block |-> NoBlock]
  BY DEF AbstractResult
<1> QED BY <1>1, ReplyCloses DEF Promise!AnswerFailed

(* The request is open from its arrival.                                   *)
LEMMA ArriveAsks ==
    ASSUME BlockInv, NEW r \in BlockReqs, NEW id \in BlockIdents, Arrive(r, id, "fetch")
    PROVE  Promise!Ask(r, id)
<1>1. /\ pc[r] = "idle"
      /\ pc' = [pc EXCEPT ![r] = "fetch"]
      /\ want' = [want EXCEPT ![r] = id]
      /\ seen' = [seen EXCEPT ![r] = {chain}]
      /\ UNCHANGED <<nodeVars, answer>>
      /\ pc \in [Callers -> Stages] /\ DOMAIN want = Callers
      /\ DOMAIN seen = Callers /\ r \in Callers
  BY BlockAssumption DEF Arrive, BlockInv, ReadTypes
<1> QED BY <1>1, BlockAssumption
        DEF Promise!Ask, Promise!nodeVars, nodeVars

(* A receipt from another block shows a chain that took the transaction.   *)
LEMMA OrphanedIsHonest ==
    ASSUME BlockInv, NEW r \in BlockReqs, pc[r] = "receipts", UNCHANGED nodeVars,
           NEW i \in 1..Len(got[r].receipts), got[r].receipts[i] # got[r].header,
           BlockFails(r, ReceiptError(got[r].receipts[i]))
    PROVE  Promise!AnswerOrphaned(r) \/ Promise!AnswerFailed(r)
<1>0. Open(r) /\ ReadInv(r) /\ ReadTypes
  BY DEF Open, BlockInv
<1>a. PICK b, part : b = got[r].header /\ part = got[r].receipts[i]
  OBVIOUS
<1>1. CASE ReceiptError(part) # "orphaned"
  BY <1>0, <1>a, <1>1, FailureIsAllowed DEF BlockFails, BlockCode
<1>2. CASE ReceiptError(part) = "orphaned"
  <2>1. part # RpcError /\ part # NoBlock /\ part # b
    BY <1>a, <1>2 DEF ReceiptError
  <2>2. /\ b \in Blocks /\ NamedSoFar(r, b)
        /\ Len(got[r].receipts) <= Len(Txs[b]) /\ Served(r, b, i, part)
    BY <1>0, <1>a DEF ReadInv, Reading
  <2>3. PICK c \in seen[r] : part = TxBlock(c, Txs[b][i])
    BY <2>1, <2>2 DEF Served
  <2>4. c \in Chains /\ i \in 1..Len(Txs[b])
    <3>1. got[r].receipts \in Seq(Part) /\ Txs[b] \in Seq(TxIds) /\ c \in Chains
      BY <1>0, <2>2, NodeAssumption, BlockAssumption DEF ReadTypes, Parts
    <3> QED BY <3>1, <2>2
  <2>5. b \notin c
    BY <2>1, <2>2, <2>3, <2>4, LostIsElsewhere
  <2>6. Promise!Named(r, b)
    BY <2>2 DEF NamedSoFar, Promise!Named, Promise!Resolve, Resolve, Promise!BlockAt, BlockAt,
               Promise!Tip, Tip
  <2>7. Promise!LostTransaction(r, b)
    <3>1. Txs[b][i] \in TxSet(b)
      BY <2>4 DEF TxSet
    <3>2. TxBlock(c, Txs[b][i]) # NoBlock
      BY <2>1, <2>3
    <3>3. \A t : Promise!TxBlock(c, t) = TxBlock(c, t)
      BY DEF Promise!TxBlock, TxBlock, Promise!TxSet, TxSet
    <3>4. Promise!TxSet(b) = TxSet(b)
      BY DEF Promise!TxSet, TxSet
    <3>5. Promise!TxBlock(c, Txs[b][i]) # NoBlock /\ Txs[b][i] \in Promise!TxSet(b)
      BY <3>1, <3>2, <3>3, <3>4
    <3>6. c \in [q \in BlockReqs |-> seen[q]][r]
      BY <2>3
    <3> QED BY <2>5, <3>5, <3>6 DEF Promise!LostTransaction
  <2>8. Promise!Close(r, "orphaned", NoBlock)
    <3>1. AbstractResult([code |-> "orphaned", why |-> "orphaned", parts |-> NoParts])
             = [code |-> "orphaned", block |-> NoBlock]
      BY DEF AbstractResult
    <3>2. Reply(r, "orphaned", "orphaned", NoParts)
      BY <1>a, <1>2 DEF BlockFails, BlockCode
    <3> QED BY <1>0, <3>1, <3>2, ReplyCloses
  <2> QED BY <2>2, <2>6, <2>7, <2>8 DEF Promise!AnswerOrphaned
<1> QED BY <1>1, <1>2

(* The block that is answered is whole; if it has transactions, its first  *)
(* receipt came from a chain that had it.                                  *)
LEMMA PopulateAnswers ==
    ASSUME BlockInv, NEW r \in BlockReqs, PopulateBlock(r)
    PROVE  Promise!AnswerBlock(r) \/ Promise!AnswerFailed(r)
<1>0. pc[r] = "populate" /\ Open(r) /\ ReadInv(r) /\ ReadTypes /\ UNCHANGED nodeVars
  BY DEF PopulateBlock, Open, BlockInv
<1>1. CASE Reply(r, "aborted", "nilTrace", NoParts)
  BY <1>0, <1>1, FailureIsAllowed
<1>2. CASE ~(Txs[got[r].header] # <<>> /\ got[r].trace = NoBlock) /\ Reply(r, "ok", "", got[r])
  <2>a. PICK b : b = got[r].header
    OBVIOUS
  <2>1. IsWhole(got[r]) /\ b \in Blocks
    BY <1>0, <1>2, <2>a, PopulateIsWhole
  <2>2. NamedSoFar(r, b) /\ \A i \in 1..Len(got[r].receipts) : Served(r, b, i, got[r].receipts[i])
    BY <1>0, <2>a DEF ReadInv, Reading
  <2>3. Txs[b] = <<>> \/ Promise!WasCanonical(r, b)
    <3> SUFFICES ASSUME Txs[b] # <<>> PROVE Promise!WasCanonical(r, b)
      OBVIOUS
    <3>1. Txs[b] \in Seq(TxIds)
      BY <2>1, NodeAssumption
    <3>2. 1 \in 1..Len(got[r].receipts) /\ got[r].receipts[1] = b
      <4>1. 1 \in 1..Len(Txs[b])
        BY <3>1
      <4> QED BY <4>1, <2>1, <2>a DEF IsWhole
    <3>3. PICK c \in seen[r] : b = TxBlock(c, Txs[b][1])
      BY <2>1, <2>2, <3>2, RequestAssumption DEF Served
    <3>4. c \in Chains /\ b # NoBlock
      BY <1>0, <2>1, NodeAssumption, BlockAssumption DEF ReadTypes
    <3>5. b \in c
      BY <3>3, <3>4, TxBlockIsThere
    <3> QED BY <3>5 DEF Promise!WasCanonical
  <2>4. Promise!MayAnswer(r, b)
    BY <2>2, <2>3 DEF NamedSoFar, Promise!MayAnswer, Promise!Named, Promise!Resolve, Resolve,
                      Promise!BlockAt, BlockAt, Promise!Tip, Tip
  <2>5. AbstractResult([code |-> "ok", why |-> "", parts |-> got[r]])
           = [code |-> "ok", block |-> b]
    BY <2>1, <2>a DEF AbstractResult
  <2>6. Promise!Close(r, "ok", b)
    BY <1>0, <1>2, <2>5, ReplyCloses
  <2> QED BY <2>1, <2>4, <2>6 DEF Promise!AnswerBlock
<1> QED BY <1>1, <1>2 DEF PopulateBlock

(* Every action of a request is one of the promise, or invisible to it.    *)
LEMMA RequestStepMaps ==
    ASSUME BlockInv, NEW r \in BlockReqs, BlockArrive(r) \/ BlockStep(r) \/ Disconnect(r)
    PROVE  [Promise!Next]_(Promise!abstractVars)
<1> DEFINE Closed == Promise!AnswerBlock(r) \/ Promise!AnswerOrphaned(r) \/ Promise!AnswerFailed(r)
<1>0. ASSUME Closed PROVE Promise!Next
  BY <1>0 DEF Promise!Next
<1>1. CASE BlockArrive(r)
  <2>1. PICK id \in BlockIdents : Arrive(r, id, "fetch")
    BY <1>1 DEF BlockArrive
  <2>2. Promise!Ask(r, id)
    BY <2>1, ArriveAsks
  <2> QED BY <2>2 DEF Promise!Next
<1>2. CASE FetchBlock(r)
  <2>1. pc[r] = "fetch" /\ Open(r) /\ UNCHANGED nodeVars
    BY <1>2 DEF FetchBlock, Open
  <2>2. CASE Reply(r, "geth", "notFound", NoParts)
    BY <2>1, <2>2, <1>0, FailureIsAllowed
  <2>3. CASE \E parts : Proceed(r, "uncles", parts)
    BY <2>1, <2>3, ProceedStutters DEF Stages
  <2> QED BY <1>2, <2>2, <2>3 DEF FetchBlock, BlockFails, BlockCode
<1>3. CASE GetUncles(r)
  BY <1>3, ProceedStutters DEF GetUncles, Open, Stages
<1>4. CASE ServeReceipt(r)
  <2>1. pc[r] = "receipts" /\ UNCHANGED nodeVars /\ \E parts : Proceed(r, "receipts", parts)
    BY <1>4 DEF ServeReceipt
  <2> QED BY <2>1, ProceedStutters DEF Open, Stages
<1>5. CASE CheckReceipts(r)
  <2>1. pc[r] = "receipts" /\ Open(r) /\ UNCHANGED nodeVars
    BY <1>5 DEF CheckReceipts, Open
  <2>2. CASE \E s \in {"populate", "traces"} : Proceed(r, s, got[r])
    BY <2>1, <2>2, ProceedStutters DEF Stages
  <2>3. ASSUME NEW i \in 1..Len(got[r].receipts), got[r].receipts[i] # got[r].header,
               BlockFails(r, ReceiptError(got[r].receipts[i]))
        PROVE  Closed
    BY <2>1, <2>3, OrphanedIsHonest
  <2> HIDE DEF Closed
  <2> QED BY <1>0, <1>5, <2>2, <2>3 DEF CheckReceipts
<1>6. CASE AcquireForBlock(r)
  BY <1>6, ProceedStutters DEF AcquireForBlock, Open, Stages
<1>7. CASE ResumeForBlock(r)
  BY <1>7 DEF ResumeForBlock, reqVars, nodeVars, Promise!abstractVars, Promise!nodeVars
<1>8. CASE GiveUpBlockTraces(r)
  <2>1. Open(r) /\ UNCHANGED nodeVars /\ Reply(r, "geth", "canceled", NoParts)
    BY <1>8 DEF GiveUpBlockTraces, Open, BlockFails, BlockCode
  <2> QED BY <1>0, <2>1, FailureIsAllowed
<1>9. CASE BlockTracesReturn(r)
  <2>1. Open(r) /\ UNCHANGED nodeVars /\ \E parts : Proceed(r, "populate", parts)
    BY <1>9 DEF BlockTracesReturn, Open
  <2> QED BY <2>1, ProceedStutters DEF Stages
<1>10. CASE PopulateBlock(r)
  BY <1>0, <1>10, PopulateAnswers
<1>11. CASE BlockCallFails(r)
  <2>1. Open(r) /\ UNCHANGED nodeVars /\ Reply(r, "geth", "rpc", NoParts)
    BY <1>11 DEF BlockCallFails, Open, BlockFails, BlockCode
  <2> QED BY <1>0, <2>1, FailureIsAllowed
<1>12. CASE Disconnect(r)
  BY <1>12 DEF Disconnect, nodeVars, Promise!abstractVars, Promise!nodeVars
<1> QED BY <1>1, <1>2, <1>3, <1>4, <1>5, <1>6, <1>7, <1>8, <1>9, <1>10, <1>11, <1>12
        DEF BlockStep

(* A new head is one for both.                                             *)
LEMMA NewHeadMaps ==
    ASSUME BlockInv, NEW c \in Chains, NewHead(c)
    PROVE  Promise!HeadChanges(c)
<1>1. /\ SetCanonical(c)
      /\ UNCHANGED <<pc, want, answer>>
      /\ \A r \in BlockReqs : seen'[r] = IF Open(r) THEN seen[r] \cup {c} ELSE seen[r]
  BY BlockAssumption DEF NewHead
<1> QED BY <1>1 DEF Promise!HeadChanges, Promise!SetCanonical, SetCanonical, Open

(* Nothing has been asked for.                                             *)
LEMMA InitMaps == RequestsInit => Promise!Init
<1> SUFFICES ASSUME RequestsInit PROVE Promise!Init
  OBVIOUS
<1>1. AbstractResult(NoAnswer) = Promise!Nothing
  BY DEF AbstractResult, NoAnswer, Promise!Nothing
<1>2. \A r \in BlockReqs : /\ pc[r] = "idle" /\ want[r] = [by |-> "none"]
                           /\ answer[r] = NoAnswer /\ seen[r] = {}
  BY BlockAssumption DEF RequestsInit
<1>3. \A r \in BlockReqs : AbstractResult(answer[r]) = Promise!Nothing
  BY <1>1, <1>2
<1>4. Promise!NodeInit
  BY DEF RequestsInit, NodeInit, Promise!NodeInit
<1> HIDE DEF AbstractResult
<1> QED BY <1>2, <1>3, <1>4 DEF Promise!Init

(* /block keeps its promise: every behaviour of its calls, of clients that *)
(* hang up and of reorganisations between any two of them is, seen from    *)
(* outside, one of BlockRead (client.go:296-498, 590-630).                 *)
THEOREM BlockKeepsPromise == BlockSpec => KeepsPromise
<1>1. BlockInv /\ [BlockNext]_readVars => [Promise!Next]_(Promise!abstractVars)
  <2> SUFFICES ASSUME BlockInv, [BlockNext]_readVars
               PROVE  [Promise!Next]_(Promise!abstractVars)
    OBVIOUS
  <2>1. CASE UNCHANGED readVars
    BY <2>1 DEF readVars, reqVars, nodeVars, Promise!abstractVars, Promise!nodeVars
  <2>2. ASSUME NEW c \in Chains, NewHead(c) PROVE Promise!Next
    BY <2>2, NewHeadMaps DEF Promise!Next
  <2> QED BY <2>1, <2>2, RequestStepMaps DEF BlockNext
<1> QED BY <1>1, InitMaps, BlockInvariant, PTL DEF BlockSpec, KeepsPromise, Promise!Spec
=============================================================================
