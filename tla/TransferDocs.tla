----------------------------- MODULE TransferDocs -----------------------------
(***************************************************************************)
(* The documents of the construction API and what its handlers compute     *)
(* from them: pure operators.  All documents but the signed transaction    *)
(* are strings that the service itself encodes and decodes (types.go); a   *)
(* signed transaction is in the JSON of go-ethereum.                       *)
(***************************************************************************)
EXTENDS Integers, Sequences

CONSTANTS
    Accounts,          \* accounts, each with a key of its own
    Nobody,            \* the sender recovered from a signature of something else
    TransferGasLimit,
    MaxInt,            \* the largest int64
    MaxBig             \* the largest number hexutil.DecodeBig takes

ASSUME DocsAssumption ==
    /\ Nobody \notin Accounts
    /\ TransferGasLimit \in Nat \ {0}
    /\ MaxInt \in Nat \ {0}
    /\ MaxBig \in Nat

(* An address as it is written: of an account, all lower case ("plain"),   *)
(* in mixed case with the right or a wrong checksum, or no address at all. *)
Spellings == {"checksum", "plain", "mistyped", "garbage"}
Addresses == [account : Accounts, spelling : Spellings]
Operations == [address : Addresses, amount : Int]

(* ChecksumAddress takes every spelling of an address, and gives the right *)
(* checksum to a wrong one.                                                *)
IsAddress(w) == w.spelling # "garbage"
AddressOf(a) == [account |-> a, spelling |-> "checksum"]
ChecksumAddress(w) == AddressOf(w.account)

-----------------------------------------------------------------------------
(* MatchOperations with the descriptions of Preprocess and Payloads: one   *)
(* debit and one credit in any order, of any amounts.                      *)
Clear(o) ==
    /\ Len(o) = 2
    /\ \E i \in 1..2 : o[i].amount < 0
    /\ \E i \in 1..2 : o[i].amount > 0

Debit(o)  == o[CHOOSE i \in 1..2 : o[i].amount < 0]
Credit(o) == o[CHOOSE i \in 1..2 : o[i].amount > 0]

(* Two's complement of the product that suggests the fee.                  *)
Int64(x) == ((x + MaxInt + 1) % (2 * (MaxInt + 1))) - (MaxInt + 1)

(* Mutant: the product is not cut to 64 bits.                              *)
SuggestedFeeUnbounded(price) == price * TransferGasLimit

SuggestedFee(price) == Int64(Int64(price) * TransferGasLimit)

(* Numbers travel in hexadecimal; one that is too long is not taken back.  *)
Hex(n) == [hex |-> n]
Unhex(h) == h.hex
Fits(h) == h.hex <= MaxBig

EncodeMetadata(nonce, price) == [nonce |-> Hex(nonce), gasPrice |-> Hex(price)]

(* Mutant: the two numbers change places.                                  *)
DecodeMetadataSwapped(w) ==
    [nonce |-> Unhex(w.gasPrice), gasPrice |-> Unhex(w.nonce)]

DecodeMetadata(w) ==
    [nonce |-> Unhex(w.nonce), gasPrice |-> Unhex(w.gasPrice)]

EncodeTransaction(t) ==
    [from |-> t.from, to |-> t.to, value |-> Hex(t.value),
     nonce |-> Hex(t.nonce), gasPrice |-> Hex(t.gasPrice)]

(* Mutant: two numbers change places.                                      *)
DecodeTransactionSwapped(w) ==
    [from |-> w.from, to |-> w.to, value |-> Unhex(w.value),
     nonce |-> Unhex(w.gasPrice), gasPrice |-> Unhex(w.nonce)]

DecodeTransaction(w) ==
    [from |-> w.from, to |-> w.to, value |-> Unhex(w.value),
     nonce |-> Unhex(w.nonce), gasPrice |-> Unhex(w.gasPrice)]

(* The transaction of an intent; the credit decides on the value.          *)
Transfer(o, meta) ==
    [from |-> ChecksumAddress(Debit(o).address),
     to |-> ChecksumAddress(Credit(o).address), value |-> Credit(o).amount,
     nonce |-> meta.nonce, gasPrice |-> meta.gasPrice]

-----------------------------------------------------------------------------
(* What is signed and sent to geth does not name the sender.  Gas limit,   *)
(* data and chain are the same in every transaction.                       *)
Body(t) == [to |-> t.to.account, value |-> t.value,
            nonce |-> t.nonce, gasPrice |-> t.gasPrice]

Bodies == [to : Accounts, value : Nat, nonce : Nat, gasPrice : Nat]
Signatures == [key : Accounts, body : Bodies]
SignedTransactions == [body : Bodies, signature : Signatures]

Sender(s) == IF s.signature.body = s.body THEN s.signature.key ELSE Nobody

(* The operations that Parse reports of a transfer, and what a client      *)
(* compares in them with its own.                                          *)
TransferOps(from, to, value) ==
    <<[address |-> ChecksumAddress(from), amount |-> -value],
      [address |-> ChecksumAddress(to), amount |-> value]>>

ParseUnsigned(w) ==
    LET t == DecodeTransaction(w) IN TransferOps(t.from, t.to, t.value)

ParseSigned(s) == TransferOps(AddressOf(Sender(s)), AddressOf(s.body.to), s.body.value)

SameTransfer(o, p) ==
    /\ Debit(o).address.account = Debit(p).address.account
    /\ Debit(o).amount = Debit(p).amount
    /\ Credit(o).address.account = Credit(p).address.account
    /\ Credit(o).amount = Credit(p).amount

Balanced(o) == Debit(o).amount = -Credit(o).amount
=============================================================================
