------------------------------- MODULE EthNode -------------------------------
(***************************************************************************)
(* geth, as far as the reads of ethereum.Client can tell its states apart. *)
(* geth is not part of the repository: this module is what the code relies *)
(* on when it calls eth_getBlockBy*, eth_getTransaction*,                   *)
(* eth_getTransactionReceipt and debug_trace* (client.go:213-630).         *)
(*                                                                         *)
(* geth stores every block it has imported (known) and has one canonical   *)
(* chain at a time.  Reads by block hash are answered from the store, so   *)
(* they never change.  Reads by number, by transaction hash, and of        *)
(* receipts are answered from the chain that is canonical at that moment.  *)
(***************************************************************************)
EXTENDS Naturals, Sequences, FiniteSets

CONSTANTS
    Blocks,       \* block hashes
    NoBlock,      \* the null result
    Genesis,
    Number,       \* Number[b]: the height of b
    Txs,          \* Txs[b]: the transaction hashes of b, in order
    TxIds,
    Chains,       \* the canonical chains geth may have, as sets of blocks
    MaxReorgs     \* bound of the model: changes of the canonical chain

TxSet(b) == {Txs[b][i] : i \in 1..Len(Txs[b])}

(* A chain has a last block and one block per height, and includes a       *)
(* transaction at most once (an account's nonces increase).  The genesis   *)
(* block has none.                                                         *)
ASSUME NodeAssumption ==
    /\ Genesis \in Blocks
    /\ NoBlock \notin Blocks
    /\ Number \in [Blocks -> Nat]
    /\ Txs \in [Blocks -> Seq(TxIds)]
    /\ Chains \subseteq SUBSET Blocks
    /\ MaxReorgs \in Nat
    /\ Number[Genesis] = 0
    /\ Txs[Genesis] = <<>>
    /\ \A c \in Chains :
          /\ Genesis \in c
          /\ \E b \in c : \A d \in c : Number[d] <= Number[b]
          /\ \A a, b \in c : Number[a] = Number[b] => a = b
          /\ \A a, b \in c : TxSet(a) \cap TxSet(b) # {} => a = b

VARIABLES
    chain,      \* the canonical chain
    known,      \* every block geth has stored
    reorgs      \* changes of the chain so far (bounded by MaxReorgs)

nodeVars == <<chain, known, reorgs>>

NodeInit ==
    /\ chain \in Chains
    /\ known = chain
    /\ reorgs = 0

(* New blocks arrive: the chain grows, or another branch takes over.  It   *)
(* is never cut back to an ancestor.                                       *)
SetCanonical(c) ==
    /\ reorgs < MaxReorgs
    /\ ~(c \subseteq chain)
    /\ chain' = c
    /\ known' = known \cup c
    /\ reorgs' = reorgs + 1

-----------------------------------------------------------------------------
(* What a read finds on the chain c.                                       *)
BlockAt(c, n) ==
    IF \E b \in c : Number[b] = n
    THEN CHOOSE b \in c : Number[b] = n
    ELSE NoBlock

Tip(c) == CHOOSE b \in c : \A d \in c : Number[d] <= Number[b]

(* The block that includes the transaction: what eth_getTransactionByHash  *)
(* and eth_getTransactionReceipt put in their field blockHash.             *)
TxBlock(c, t) ==
    IF \E b \in c : t \in TxSet(b)
    THEN CHOOSE b \in c : t \in TxSet(b)
    ELSE NoBlock

-----------------------------------------------------------------------------
(* A PartialBlockIdentifier: a hash, else an index, else the current block *)
(* (Client.Block, client.go:304-319).  The hash of a block geth has not    *)
(* stored is one of Blocks too.                                            *)
Idents ==
    [by : {"hash"}, hash : Blocks]
    \cup [by : {"index"}, index : {Number[b] : b \in Blocks}]
    \cup [by : {"current"}]

Resolve(id, c, stored) ==
    CASE id.by = "hash"    -> IF id.hash \in stored THEN id.hash ELSE NoBlock
      [] id.by = "index"   -> BlockAt(c, id.index)
      [] id.by = "current" -> Tip(c)

NodeTypeOK ==
    /\ chain \in Chains
    /\ known \subseteq Blocks
    /\ chain \subseteq known
    /\ reorgs \in 0..MaxReorgs
=============================================================================
