------------------------------ MODULE BlockRead ------------------------------
(***************************************************************************)
(* What /block promises while geth reorganises: the abstract specification *)
(* that BlockFetch implements.  A request is open from its arrival to its  *)
(* answer; seen[r] collects the chains that were canonical meanwhile.      *)
(*                                                                         *)
(*  - A block is answered whole or not at all: its header, its receipts    *)
(*    and its traces are of one block, the one the identifier named on a   *)
(*    chain the request has seen.                                          *)
(*  - A block with transactions is answered only if it was canonical at    *)
(*    some moment of the request, even when it was asked for by hash.      *)
(*  - ErrBlockOrphaned, which tells the client to try again, is answered   *)
(*    only if a chain the request has seen had moved one of the block's    *)
(*    transactions to another block.                                       *)
(***************************************************************************)
EXTENDS EthNode

CONSTANTS
    BlockReqs,
    BlockIdents

VARIABLES
    phase,      \* "idle", "open" or "answered"
    wanted,     \* the identifier asked for
    result,     \* the answer
    seen        \* chains that were canonical while the request was open

abstractVars == <<nodeVars, phase, wanted, result, seen>>

Nothing == [code |-> "none", block |-> NoBlock]

Init ==
    /\ NodeInit
    /\ phase = [r \in BlockReqs |-> "idle"]
    /\ wanted = [r \in BlockReqs |-> [by |-> "none"]]
    /\ result = [r \in BlockReqs |-> Nothing]
    /\ seen = [r \in BlockReqs |-> {}]

Ask(r, id) ==
    /\ phase[r] = "idle"
    /\ phase' = [phase EXCEPT ![r] = "open"]
    /\ wanted' = [wanted EXCEPT ![r] = id]
    /\ seen' = [seen EXCEPT ![r] = {chain}]
    /\ UNCHANGED <<nodeVars, result>>

Named(r, b) == \E c \in seen[r] : Resolve(wanted[r], c, known) = b

WasCanonical(r, b) == \E c \in seen[r] : b \in c

LostTransaction(r, b) ==
    \E c \in seen[r] : b \notin c /\ \E t \in TxSet(b) : TxBlock(c, t) # NoBlock

MayAnswer(r, b) == Named(r, b) /\ (Txs[b] = <<>> \/ WasCanonical(r, b))

Close(r, code, b) ==
    /\ phase[r] = "open"
    /\ phase' = [phase EXCEPT ![r] = "answered"]
    /\ result' = [result EXCEPT ![r] = [code |-> code, block |-> b]]
    /\ UNCHANGED <<nodeVars, wanted, seen>>

AnswerBlock(r) == \E b \in Blocks : MayAnswer(r, b) /\ Close(r, "ok", b)

AnswerOrphaned(r) ==
    /\ \E b \in Blocks : Named(r, b) /\ LostTransaction(r, b)
    /\ Close(r, "orphaned", NoBlock)

AnswerFailed(r) == Close(r, "failed", NoBlock)

HeadChanges(c) ==
    /\ SetCanonical(c)
    /\ seen' = [r \in BlockReqs |->
                   IF phase[r] = "open" THEN seen[r] \cup {c} ELSE seen[r]]
    /\ UNCHANGED <<phase, wanted, result>>

Next ==
    \/ \E r \in BlockReqs :
          \/ \E id \in BlockIdents : Ask(r, id)
          \/ AnswerBlock(r)
          \/ AnswerOrphaned(r)
          \/ AnswerFailed(r)
    \/ \E c \in Chains : HeadChanges(c)

Spec == Init /\ [][Next]_abstractVars
=============================================================================
