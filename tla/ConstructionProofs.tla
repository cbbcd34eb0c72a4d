-------------------------- MODULE ConstructionProofs --------------------------
(***************************************************************************)
(* The construction flow for any flows, accounts, intents and prices: what *)
(* a flow hands on from call to call is what its client wrote down and     *)
(* Metadata read for it, and so is what gets into geth's pool.  Hence the  *)
(* API keeps the promise of TransferPool.                                  *)
(***************************************************************************)
EXTENDS Construction, TLAPS

-----------------------------------------------------------------------------
(* Numbers of int64 that stay in range are themselves.                     *)
LEMMA Int64InRange ==
    ASSUME NEW x \in Int, x >= 0, x <= MaxInt
    PROVE  Int64(x) = x
<1> DEFINE y == x + MaxInt + 1
           m == 2 * (MaxInt + 1)
<1>1. y \in Int /\ m \in Nat \ {0} /\ 0 <= y /\ y < m
  BY DocsAssumption
<1> HIDE DEF y, m
<1>2. y % m = y
  BY <1>1
<1> QED BY <1>2, DocsAssumption DEF Int64, y, m

(* An Int64 is one.                                                        *)
LEMMA Int64Type == ASSUME NEW x \in Int PROVE Int64(x) \in -(MaxInt + 1)..MaxInt
<1> DEFINE y == x + MaxInt + 1
           m == 2 * (MaxInt + 1)
<1>1. y \in Int /\ m \in Nat \ {0}
  BY DocsAssumption
<1> HIDE DEF y, m
<1>2. y % m \in 0..(m - 1)
  BY <1>1
<1> QED BY <1>2, DocsAssumption DEF Int64, y, m

(* The suggested fee is what the transfer can cost at most, or that        *)
(* overflows.                                                              *)
LEMMA FeeOrOverflow ==
    ASSUME NEW p \in Nat
    PROVE  SuggestedFee(p) = p * TransferGasLimit \/ p * TransferGasLimit > MaxInt
<1> SUFFICES ASSUME p * TransferGasLimit <= MaxInt
             PROVE  SuggestedFee(p) = p * TransferGasLimit
  BY DocsAssumption DEF DocsAssumption
<1> DEFINE fee == p * TransferGasLimit
<1>1. fee \in Nat /\ p <= fee
  <2>1. \A a, b \in Nat : b > 0 => a * b \in Nat /\ a <= a * b
    OBVIOUS
  <2> QED BY <2>1, DocsAssumption
<1>2. Int64(p) = p
  BY <1>1, Int64InRange, DocsAssumption
<1>3. Int64(fee) = fee
  BY <1>1, Int64InRange
<1> QED BY <1>2, <1>3 DEF SuggestedFee

-----------------------------------------------------------------------------
(* The two sides of an intent that Preprocess has nothing against.         *)
LEMMA Sides ==
    ASSUME NEW o \in Seq(Operations), Objection(o) = "none"
    PROVE  /\ Clear(o)
           /\ Debit(o) \in Operations /\ Debit(o).amount < 0
           /\ Credit(o) \in Operations /\ Credit(o).amount > 0
<1>1. Clear(o)
  BY DEF Objection
<1>2. \A i \in 1..2 : o[i] \in Operations
  BY <1>1 DEF Clear
<1> QED BY <1>1, <1>2 DEF Clear, Debit, Credit

(* What Parse reports of a transfer, seen by the client.                   *)
LEMMA ClientCompares ==
    ASSUME NEW o, NEW from, NEW to, NEW v \in Int, v > 0
    PROVE  SameTransfer(o, TransferOps(from, to, v)) <=>
               /\ Debit(o).address.account = from.account
               /\ Debit(o).amount = -v
               /\ Credit(o).address.account = to.account
               /\ Credit(o).amount = v
<1> DEFINE p == TransferOps(from, to, v)
<1>1. p[1].amount < 0 /\ p[2].amount > 0 /\ p[1].amount = -v /\ p[2].amount = v
  BY DEF TransferOps
<1>2. Debit(p) = p[1] /\ Credit(p) = p[2]
  <2> HIDE DEF p
  <2>1. ~(p[2].amount < 0) /\ ~(p[1].amount > 0)
    BY <1>1
  <2>2. (CHOOSE i \in 1..2 : p[i].amount < 0) = 1
    BY <1>1, <2>1
  <2>3. (CHOOSE i \in 1..2 : p[i].amount > 0) = 2
    BY <1>1, <2>1
  <2> QED BY <2>2, <2>3 DEF Debit, Credit
<1>3. p[1].address.account = from.account /\ p[2].address.account = to.account
  BY DEF TransferOps, ChecksumAddress, AddressOf
<1> QED BY <1>1, <1>2, <1>3 DEF SameTransfer

-----------------------------------------------------------------------------
(* The inductive invariant.  The transaction of f as its operations and    *)
(* its quote make it.                                                      *)
From(f) == Debit(ops[f]).address.account
Tx(f) == Transfer(ops[f], DecodeMetadata(quote[f].metadata))

Maps ==
    /\ stage \in [Flows -> Stages]
    /\ outcome \in [Flows -> Outcomes]
    /\ nonce \in [Flows -> Nat]
    /\ DOMAIN ops = Flows /\ DOMAIN doc = Flows
    /\ DOMAIN quote = Flows /\ DOMAIN payload = Flows
    /\ saw \in [Flows -> SUBSET SignedTransactions]
    /\ displaced \in [Flows -> SUBSET SignedTransactions]
    /\ told \in [Flows -> {"nothing", "listed", "missing"}]
    /\ astray \subseteq Flows

GethOK ==
    /\ pool \subseteq SignedTransactions
    /\ next \in [Accounts -> Nat]
    /\ signatures \subseteq Signatures

(* What f carries: the options, the quote, the payload, the unsigned and   *)
(* the signed transaction.                                                 *)
OpsOK(f) ==
    /\ stage[f] # "idle" => ops[f] \in Intents
    /\ stage[f] \notin {"idle", "preprocess"} => Objection(ops[f]) = "none"

OptionsOK(f) ==
    stage[f] \in {"metadata", "price", "payloads"} =>
        doc[f] = ChecksumAddress(Debit(ops[f]).address)

QuoteOK(f) ==
    stage[f] \in Quoted => \E p \in Prices :
        quote[f] = [metadata |-> EncodeMetadata(nonce[f], p), fee |-> SuggestedFee(p)]

UnsignedOK(f) ==
    /\ stage[f] \in Unsigned => doc[f] = EncodeTransaction(Tx(f))
    /\ stage[f] \in Unsigned \cup Combined =>
          payload[f] = [key |-> From(f), body |-> Body(Tx(f))]

SignedOK(f) ==
    /\ stage[f] \in Combined =>
          /\ doc[f] \in [body : Bodies, signature : Signatures \cup {Invalid}]
          /\ doc[f].body = Body(Tx(f))
    /\ stage[f] = "check" /\ f \notin astray => doc[f].signature = payload[f]
    /\ stage[f] = "submit" =>
          doc[f] \in SignedTransactions /\ SameTransfer(ops[f], ParseSigned(doc[f]))

PapersOK(f) == OpsOK(f) /\ OptionsOK(f) /\ QuoteOK(f) /\ UnsignedOK(f) /\ SignedOK(f)

(* The nonce of f was taken by nothing that was in the pool when it was    *)
(* read; and what f displaced came after that.                             *)
NonceWasFree(f) ==
    /\ stage[f] \in Quoted \cup {"price"} =>
          \A s \in saw[f] : Sender(s) = From(f) => s.body.nonce # nonce[f]
    /\ displaced[f] \cap saw[f] = {}
    /\ stage[f] # "submit" => displaced[f] = {}

(* Why a flow stopped: it lies with its client.                            *)
Stopped == {"unclear", "address", "unparsable", "aborted", "refused"}

CauseOK(f) == outcome[f] \in Stopped => ~Sound(ops[f]) \/ f \in astray

FlowOK(f) == PapersOK(f) /\ NonceWasFree(f) /\ CauseOK(f)

Inv == Maps /\ GethOK /\ AcceptedIsIntended /\ \A f \in Flows : FlowOK(f)

-----------------------------------------------------------------------------
(* A step of a flow changes nothing of another.                            *)
Kept(f) ==
    /\ stage'[f] = stage[f] /\ outcome'[f] = outcome[f] /\ ops'[f] = ops[f]
    /\ doc'[f] = doc[f] /\ nonce'[f] = nonce[f] /\ quote'[f] = quote[f]
    /\ payload'[f] = payload[f]

KeptWhole(f) ==
    /\ Kept(f) /\ saw'[f] = saw[f] /\ displaced'[f] = displaced[f]
    /\ f \in astray' <=> f \in astray

(* A flow that nothing of changes stays as it was.                         *)
LEMMA KeptFlow ==
    ASSUME NEW f, FlowOK(f), KeptWhole(f)
    PROVE  FlowOK(f)'
BY DEF FlowOK, PapersOK, OpsOK, OptionsOK, QuoteOK, UnsignedOK, SignedOK,
       NonceWasFree, CauseOK, KeptWhole, Kept, From, Tx

(* From the preprocessor's answer on, the operations of a flow are two:    *)
(* one that debits and one that credits.                                   *)
LEMMA OpsSides ==
    ASSUME NEW f, PapersOK(f), stage[f] \notin {"idle", "preprocess"}
    PROVE  /\ ops[f] \in Seq(Operations) /\ Clear(ops[f])
           /\ Debit(ops[f]) \in Operations /\ Debit(ops[f]).amount < 0
           /\ Credit(ops[f]) \in Operations /\ Credit(ops[f]).amount > 0
BY Sides, ConstructionAssumption DEF PapersOK, OpsOK

(* The account that the options and the metadata name is the one debited.  *)
LEMMA OptionsAccount ==
    ASSUME NEW f, PapersOK(f), stage[f] \in {"metadata", "price", "payloads"}
    PROVE  doc[f].account = From(f) /\ From(f) \in Accounts
BY OpsSides DEF PapersOK, OptionsOK, ChecksumAddress, AddressOf, From, Operations,
                Addresses

(* Whatever the mode of the process, a nonce is read of a client of geth,  *)
(* or the call fails and may be made again;                                *)
NonceIsRead(f) ==
    /\ At(f, "metadata")
    /\ \/ /\ Fails(f, "unavailable") \/ Fails(f, "geth")
          /\ UNCHANGED saw
       \/ /\ \E n \in next[doc[f].account]..(next[doc[f].account] + Cardinality(pool)) :
                /\ IsPendingNonce(doc[f].account, n)
                /\ nonce' = [nonce EXCEPT ![f] = n]
          /\ saw' = [saw EXCEPT ![f] = pool]
          /\ Passes(f, "price")
          /\ UNCHANGED <<ops, doc, quote, payload>>
    /\ UNCHANGED <<signatures, told, gethVars, displaced, astray>>

LEMMA NotServedIsTold ==
    ASSUME NEW f, NEW mode \in Modes, NotServed(f, mode)
    PROVE  Fails(f, "unavailable")
BY DEF Modes, NotServed, Served, Unavailable, HasClient

LEMMA ReadNonceIs == ASSUME NEW f, ReadNonce(f) PROVE NonceIsRead(f)
<1>1. PICK mode \in Modes :
         \/ /\ NotServed(f, mode) \/ Fails(f, "geth")
            /\ UNCHANGED saw
         \/ /\ \E n \in next[doc[f].account]..(next[doc[f].account] + Cardinality(pool)) :
                  /\ IsPendingNonce(doc[f].account, n)
                  /\ nonce' = [nonce EXCEPT ![f] = n]
            /\ saw' = [saw EXCEPT ![f] = pool]
            /\ Passes(f, "price")
            /\ UNCHANGED <<ops, doc, quote, payload>>
  BY DEF ReadNonce
<1>2. At(f, "metadata") /\ UNCHANGED <<signatures, told, gethVars, displaced, astray>>
  BY DEF ReadNonce
<1> QED BY <1>1, <1>2, NotServedIsTold DEF NonceIsRead

(* and so with a transaction that is submitted.                            *)
IsSent(f) ==
    /\ At(f, "submit")
    /\ \/ /\ Fails(f, "unavailable") \/ Fails(f, "broadcast")
          /\ UNCHANGED <<pool, displaced>>
       \/ /\ Accept(f)
          /\ Fails(f, "broadcast") \/ Fails(f, "ok")
    /\ UNCHANGED <<signatures, told, next, saw, astray>>

LEMMA SubmitIs == ASSUME NEW f, Submit(f) PROVE IsSent(f)
<1>1. PICK mode \in Modes :
         \/ /\ NotServed(f, mode) \/ Fails(f, "broadcast")
            /\ UNCHANGED <<pool, displaced>>
         \/ /\ Accept(f)
            /\ Fails(f, "broadcast") \/ Fails(f, "ok")
  BY DEF Submit
<1>2. At(f, "submit") /\ UNCHANGED <<signatures, told, next, saw, astray>>
  BY DEF Submit
<1> QED BY <1>1, <1>2, NotServedIsTold DEF IsSent

(* A step of one flow leaves every other flow as it is.                    *)
LEMMA OthersAreKept ==
    ASSUME Maps, GethOK, NEW g \in Flows, PapersOK(g), FlowStep(g)
    PROVE  /\ \A f \in Flows \ {g} : KeptWhole(f)
           /\ Maps'
<1> USE DEF Maps, KeptWhole, Kept, Fails, Passes, HandsOn, ElsewhereUnchanged,
            Stages, Outcomes, gethVars
<1>1. CASE Begin(g)
  BY <1>1 DEF Begin
<1>2. CASE Preprocess(g)
  BY <1>2 DEF Preprocess, Objection
<1>3. CASE ReadNonce(g)
  <2>1. /\ \A f \in Flows \ {g} : KeptWhole(f)
        /\ outcome' \in [Flows -> Outcomes] /\ stage' \in [Flows -> Stages]
        /\ DOMAIN ops' = Flows /\ DOMAIN doc' = Flows
        /\ DOMAIN quote' = Flows /\ DOMAIN payload' = Flows
        /\ UNCHANGED <<displaced, told, astray>>
    BY <1>3, ReadNonceIs DEF NonceIsRead
  <2>2. next[doc[g].account] \in Nat
    BY <1>3, ReadNonceIs, OptionsAccount DEF NonceIsRead, At, GethOK
  <2>3. nonce' \in [Flows -> Nat]
    BY <1>3, <2>2, ReadNonceIs DEF NonceIsRead
  <2>4. saw' \in [Flows -> SUBSET SignedTransactions]
    BY <1>3, ReadNonceIs DEF NonceIsRead, GethOK
  <2> QED BY <2>1, <2>3, <2>4
<1>4. CASE ReadPrice(g)
  BY <1>4 DEF ReadPrice
<1>5. CASE Payloads(g)
  BY <1>5 DEF Payloads, Objection
<1>6. CASE Confirm(g)
  BY <1>6 DEF Confirm
<1>7. CASE Sign(g)
  BY <1>7 DEF Sign
<1>8. CASE Combine(g)
  <2>1. PICK sig \in signatures \cup {Malformed, Invalid} :
           /\ astray' = IF sig = payload[g] THEN astray ELSE astray \cup {g}
           /\ \/ Fails(g, "unparsable") \/ Fails(g, "aborted")
              \/ /\ HandsOn(g, [body |-> Body(DecodeTransaction(doc[g])),
                                signature |-> sig])
                 /\ Passes(g, "check")
                 /\ UNCHANGED <<ops, nonce, quote, payload>>
    <3> HIDE DEF Fails, Passes, HandsOn
    <3> QED BY <1>8 DEF Combine
  <2>2. UNCHANGED <<signatures, told, gethVars, saw, displaced>>
    BY <1>8 DEF Combine
  <2>3. /\ astray' \subseteq Flows
        /\ \A f \in Flows \ {g} : f \in astray' <=> f \in astray
    BY <2>1
  <2>4. UNCHANGED <<ops, nonce, quote, payload>>
    BY <2>1
  <2>5. \/ stage' = stage \/ stage' = [stage EXCEPT ![g] = "check"]
    BY <2>1
  <2>6. \/ doc' = doc
        \/ doc' = [doc EXCEPT ![g] = [body |-> Body(DecodeTransaction(doc[g])),
                                      signature |-> sig]]
    BY <2>1
  <2>7. /\ outcome' \in [Flows -> Outcomes]
        /\ \A f \in Flows \ {g} : outcome'[f] = outcome[f]
    BY <2>1
  <2>8. /\ stage' \in [Flows -> Stages]
        /\ \A f \in Flows \ {g} : stage'[f] = stage[f]
    BY <2>5
  <2>9. /\ DOMAIN doc' = Flows
        /\ \A f \in Flows \ {g} : doc'[f] = doc[f]
    <3> DEFINE d == [body |-> Body(DecodeTransaction(doc[g])), signature |-> sig]
    <3>1. doc' = doc \/ doc' = [doc EXCEPT ![g] = d]
      BY <2>6
    <3> HIDE DEF d
    <3> QED BY <3>1
  <2> QED BY <2>2, <2>3, <2>4, <2>7, <2>8, <2>9
<1>9. CASE Check(g)
  <2>1. /\ \/ Fails(g, "aborted") \/ Fails(g, "unparsable") \/ Fails(g, "refused")
           \/ Passes(g, "submit") /\ UNCHANGED <<ops, doc, nonce, quote, payload>>
        /\ astray' = astray \/ astray' = astray \cup {g}
        /\ UNCHANGED <<signatures, told, gethVars, saw, displaced>>
    <3> HIDE DEF Fails, Passes
    <3> QED BY <1>9 DEF Check
  <2>2. /\ astray' \subseteq Flows
        /\ \A f \in Flows \ {g} : f \in astray' <=> f \in astray
    BY <2>1
  <2>3. /\ outcome' \in [Flows -> Outcomes]
        /\ \A f \in Flows \ {g} : outcome'[f] = outcome[f]
    BY <2>1
  <2>4. /\ stage' \in [Flows -> Stages]
        /\ \A f \in Flows \ {g} : stage'[f] = stage[f]
    BY <2>1
  <2>5. UNCHANGED <<ops, doc, nonce, quote, payload>>
    BY <2>1
  <2> QED BY <2>1, <2>2, <2>3, <2>4, <2>5
<1>10. CASE Submit(g)
  <2>1. /\ \A f \in Flows \ {g} : KeptWhole(f)
        /\ outcome' \in [Flows -> Outcomes] /\ UNCHANGED <<stage, ops, doc, nonce>>
        /\ UNCHANGED <<quote, payload, saw, told, astray>>
    BY <1>10, SubmitIs DEF IsSent, Accept
  <2>2. Rivals(doc[g]) \subseteq SignedTransactions
    BY DEF Rivals, GethOK
  <2>3. displaced' \in [Flows -> SUBSET SignedTransactions]
    BY <1>10, <2>2, SubmitIs DEF IsSent, Accept
  <2> QED BY <2>1, <2>3
<1>11. CASE Look(g)
  BY <1>11 DEF Look, flowVars
<1> QED BY <1>1, <1>2, <1>3, <1>4, <1>5, <1>6, <1>7, <1>8, <1>9, <1>10, <1>11
        DEF FlowStep

-----------------------------------------------------------------------------
(* The transaction of a flow that has its quote, field by field.           *)
LEMMA TxIs ==
    ASSUME Maps, NEW f \in Flows, PapersOK(f), stage[f] \in Quoted
    PROVE  \E p \in Prices :
              /\ p \in Nat /\ quote[f].fee = SuggestedFee(p)
              /\ Tx(f) = [from |-> AddressOf(From(f)),
                          to |-> AddressOf(Credit(ops[f]).address.account),
                          value |-> Credit(ops[f]).amount,
                          nonce |-> nonce[f], gasPrice |-> p]
              /\ Body(Tx(f)) = [to |-> Credit(ops[f]).address.account,
                                value |-> Credit(ops[f]).amount,
                                nonce |-> nonce[f], gasPrice |-> p]
              /\ Body(Tx(f)) \in Bodies
<1>1. PICK p \in Prices :
         quote[f] = [metadata |-> EncodeMetadata(nonce[f], p), fee |-> SuggestedFee(p)]
  BY DEF PapersOK, QuoteOK
<1>2. p \in Nat /\ nonce[f] \in Nat
  BY ConstructionAssumption, DocsAssumption DEF Maps
<1>3. DecodeMetadata(quote[f].metadata) = [nonce |-> nonce[f], gasPrice |-> p]
  BY <1>1 DEF DecodeMetadata, EncodeMetadata, Hex, Unhex
<1>4. Tx(f) = [from |-> AddressOf(From(f)),
               to |-> AddressOf(Credit(ops[f]).address.account),
               value |-> Credit(ops[f]).amount,
               nonce |-> nonce[f], gasPrice |-> p]
  BY <1>3 DEF Tx, Transfer, ChecksumAddress, From
<1>5. Body(Tx(f)) = [to |-> Credit(ops[f]).address.account,
                     value |-> Credit(ops[f]).amount,
                     nonce |-> nonce[f], gasPrice |-> p]
  BY <1>4 DEF Body, AddressOf
<1>6. Credit(ops[f]).address.account \in Accounts /\ Credit(ops[f]).amount \in Nat
  BY OpsSides DEF Quoted, Operations, Addresses
<1> QED BY <1>1, <1>2, <1>4, <1>5, <1>6 DEF Bodies

(* An unsigned transaction that is not taken back holds a long number.     *)
LEMMA OverBig ==
    ASSUME Maps, NEW f \in Flows, PapersOK(f), stage[f] \in Unsigned,
           ~Fits(doc[f].value)
    PROVE  ~Sound(ops[f])
<1>1. stage[f] \in Quoted /\ stage[f] \notin {"idle", "preprocess"}
  BY DEF Unsigned, Quoted
<1>2. Tx(f).value = Credit(ops[f]).amount
  BY <1>1, TxIs
<1>3. doc[f].value = Hex(Credit(ops[f]).amount)
  BY <1>2 DEF PapersOK, UnsignedOK, EncodeTransaction
<1>4. Credit(ops[f]).amount \in Int
  BY <1>1, OpsSides DEF Operations
<1> QED BY <1>3, <1>4, DocsAssumption DEF Hex, Fits, Sound

(* Decoding gives back what was encoded.                                   *)
LEMMA RoundTrip ==
    ASSUME NEW from, NEW to, NEW value, NEW n, NEW p,
           NEW t, t = [from |-> from, to |-> to, value |-> value,
                       nonce |-> n, gasPrice |-> p]
    PROVE  DecodeTransaction(EncodeTransaction(t)) = t
BY DEF DecodeTransaction, EncodeTransaction, Hex, Unhex

(* What a client finds in its unsigned transaction is its own intent, if   *)
(* the amounts add up;                                                     *)
LEMMA UnsignedCompared ==
    ASSUME Maps, NEW f \in Flows, PapersOK(f), stage[f] \in Unsigned
    PROVE  SameTransfer(ops[f], ParseUnsigned(doc[f])) <=> Balanced(ops[f])
<1>1. stage[f] \in Quoted /\ stage[f] \notin {"idle", "preprocess"}
  BY DEF Unsigned, Quoted
<1>2. PICK p \in Prices :
         Tx(f) = [from |-> AddressOf(From(f)),
                  to |-> AddressOf(Credit(ops[f]).address.account),
                  value |-> Credit(ops[f]).amount,
                  nonce |-> nonce[f], gasPrice |-> p]
  BY <1>1, TxIs
<1>3. DecodeTransaction(doc[f]) = Tx(f)
  BY <1>2, RoundTrip DEF PapersOK, UnsignedOK
<1>4. ParseUnsigned(doc[f]) =
         TransferOps(AddressOf(From(f)), AddressOf(Credit(ops[f]).address.account),
                     Credit(ops[f]).amount)
  BY <1>2, <1>3 DEF ParseUnsigned
<1>5. Credit(ops[f]).amount \in Int /\ Credit(ops[f]).amount > 0
  BY <1>1, OpsSides DEF Operations
<1> QED BY <1>4, <1>5, ClientCompares DEF AddressOf, From, Balanced

(* and in the signed one, if it was signed by its own signature.           *)
LEMMA SignedCompared ==
    ASSUME Maps, NEW f \in Flows, PapersOK(f), stage[f] \in Combined
    PROVE  /\ SameTransfer(ops[f], ParseSigned(doc[f])) <=>
                 Sender(doc[f]) = From(f) /\ Balanced(ops[f])
           /\ doc[f].signature = payload[f] => Sender(doc[f]) = From(f)
<1>1. /\ stage[f] \in Quoted /\ stage[f] \notin {"idle", "preprocess"}
      /\ stage[f] \in Unsigned \cup Combined
  BY DEF Combined, Quoted
<1>2. /\ doc[f].body = Body(Tx(f))
      /\ payload[f] = [key |-> From(f), body |-> Body(Tx(f))]
  BY <1>1 DEF PapersOK, SignedOK, UnsignedOK
<1>3. /\ doc[f].body.to = Credit(ops[f]).address.account
      /\ doc[f].body.value = Credit(ops[f]).amount
  BY <1>1, <1>2, TxIs
<1>4. Credit(ops[f]).amount \in Int /\ Credit(ops[f]).amount > 0
  BY <1>1, OpsSides DEF Operations
<1>5. SameTransfer(ops[f], ParseSigned(doc[f])) <=>
         Sender(doc[f]) = From(f) /\ Balanced(ops[f])
  BY <1>3, <1>4, ClientCompares DEF ParseSigned, AddressOf, From, Balanced
<1>6. doc[f].signature = payload[f] => Sender(doc[f]) = From(f)
  BY <1>2 DEF Sender
<1> QED BY <1>5, <1>6

-----------------------------------------------------------------------------
(* A call that fails hands on nothing, and only its cause is in question.  *)
LEMMA FailsKeeps ==
    ASSUME NEW f \in Flows, FlowOK(f), NEW code, Fails(f, code), Maps,
           UNCHANGED saw, astray \subseteq astray', CauseOK(f)',
           displaced'[f] \cap saw[f] = {}, stage[f] # "submit" => displaced'[f] = {}
    PROVE  FlowOK(f)'
BY DEF Fails, FlowOK, PapersOK, OpsOK, OptionsOK, QuoteOK, UnsignedOK,
       SignedOK, NonceWasFree, From, Tx, Maps

(* What a flow has built stays consistent with its operations, whichever   *)
(* step it takes.                                                          *)
LEMMA ActorKept ==
    ASSUME Inv, NEW f \in Flows, FlowStep(f)
    PROVE  FlowOK(f)'
<1>0. /\ Maps /\ GethOK /\ FlowOK(f) /\ PapersOK(f)
      /\ NonceWasFree(f) /\ CauseOK(f) /\ Maps'
  BY OthersAreKept DEF Inv, FlowOK
<1>p. ASSUME outcome'[f] \notin Stopped PROVE CauseOK(f)'
  BY <1>p DEF CauseOK
<1>d. displaced[f] \cap saw[f] = {} /\ (stage[f] # "submit" => displaced[f] = {})
  BY <1>0 DEF NonceWasFree
<1>c. ASSUME NEW code, Fails(f, code), ~Sound(ops[f]) \/ f \in astray' PROVE CauseOK(f)'
  BY <1>c DEF CauseOK, Fails
<1> USE DEF At, Stopped
<1>1. CASE Begin(f)
  BY <1>0, <1>1, <1>p DEF Begin, Passes, ElsewhereUnchanged, FlowOK, PapersOK, OpsOK,
     OptionsOK, QuoteOK, UnsignedOK, SignedOK, NonceWasFree, From, Tx, Maps,
     Quoted, Unsigned, Combined
<1>2. CASE Preprocess(f)
  <2>1. CASE Objection(ops[f]) # "none"
    <3>1. Fails(f, Objection(ops[f])) /\ UNCHANGED <<saw, displaced, astray>>
      BY <1>2, <2>1 DEF Preprocess, ElsewhereUnchanged
    <3>2. ~Sound(ops[f])
      BY <2>1 DEF Objection, Sound
    <3> QED BY <3>1, <3>2, <1>0, <1>c, <1>d, FailsKeeps
  <2>2. CASE Objection(ops[f]) = "none"
    BY <2>2, <1>0, <1>2, <1>p DEF Preprocess, HandsOn, Passes, ElsewhereUnchanged, FlowOK,
       PapersOK, OpsOK, OptionsOK, QuoteOK, UnsignedOK, SignedOK, NonceWasFree,
       From, Tx, Maps, Quoted, Unsigned, Combined
  <2> QED BY <2>1, <2>2
<1>3. CASE ReadNonce(f)
  <2>1. ASSUME NEW code \in {"unavailable", "geth"}, Fails(f, code), UNCHANGED saw
        PROVE  FlowOK(f)'
    BY <2>1, <1>0, <1>3, <1>d, ReadNonceIs, <1>p, FailsKeeps DEF NonceIsRead, Fails, Maps
  <2>2. ASSUME NEW n, IsPendingNonce(doc[f].account, n),
               nonce' = [nonce EXCEPT ![f] = n], saw' = [saw EXCEPT ![f] = pool],
               Passes(f, "price"), UNCHANGED <<ops, doc, quote, payload, displaced, astray>>
        PROVE  FlowOK(f)'
    <3>1. PapersOK(f)'
      BY <2>2, <1>0, <1>3 DEF ReadNonce, Passes, PapersOK, OpsOK, OptionsOK, QuoteOK,
         UnsignedOK, SignedOK, Tx, From, Maps, Quoted, Unsigned, Combined
    <3>2. doc[f].account = From(f)
      BY <1>0, <1>3, OptionsAccount DEF ReadNonce
    <3>3. \A s \in pool : Sender(s) = From(f) => s.body.nonce # n
      BY <2>2, <3>2 DEF IsPendingNonce, Taken
    <3>4. NonceWasFree(f)'
      BY <2>2, <3>3, <1>0, <1>3, <1>d DEF ReadNonce, NonceWasFree, Passes, From, Maps
    <3>5. CauseOK(f)'
      BY <2>2, <1>0, <1>p DEF Passes, Maps
    <3> QED BY <3>1, <3>4, <3>5 DEF FlowOK
  <2> QED BY <1>3, <2>1, <2>2, ReadNonceIs DEF NonceIsRead
<1>4. CASE ReadPrice(f)
  <2>1. CauseOK(f)'
    BY <1>0, <1>4, <1>p DEF ReadPrice, Passes, Maps
  <2>2. PapersOK(f)'
    BY <1>0, <1>4 DEF ReadPrice, Passes, PapersOK, OpsOK, OptionsOK, QuoteOK,
       UnsignedOK, SignedOK, Tx, From, Maps, Quoted, Unsigned, Combined
  <2>3. NonceWasFree(f)'
    BY <1>0, <1>4, <1>d DEF ReadPrice, Passes, NonceWasFree, ElsewhereUnchanged, From,
       Maps, Quoted
  <2> QED BY <2>1, <2>2, <2>3 DEF FlowOK
<1>5. CASE Payloads(f)
  <2>0. Objection(ops[f]) = "none" /\ stage[f] \in Quoted
    BY <1>0, <1>5 DEF Payloads, PapersOK, OpsOK, Quoted
  <2>1. PICK t : /\ t = Tx(f)
                 /\ HandsOn(f, EncodeTransaction(t))
                 /\ payload' = [payload EXCEPT ![f] =
                                   [key |-> t.from.account, body |-> Body(t)]]
                 /\ Passes(f, "confirm")
                 /\ UNCHANGED <<ops, nonce, quote>>
    BY <2>0, <1>5 DEF Payloads, Tx
  <2>2. t.from.account = From(f)
    BY <2>0, <2>1, <1>0, TxIs DEF AddressOf
  <2>3. Tx(f)' = Tx(f) /\ From(f)' = From(f)
    BY <2>1 DEF Tx, From
  <2>4. PapersOK(f)'
    BY <2>0, <2>1, <2>2, <2>3, <1>0 DEF Passes, HandsOn, PapersOK, OpsOK, OptionsOK,
       QuoteOK, UnsignedOK, SignedOK, Maps, Quoted, Unsigned, Combined
  <2>5. NonceWasFree(f)'
    BY <2>0, <2>1, <2>3, <1>0, <1>5, <1>d DEF Payloads, ElsewhereUnchanged, Passes,
       NonceWasFree, Maps
  <2>6. CauseOK(f)'
    BY <2>1, <1>0, <1>p DEF Passes, Maps
  <2> QED BY <2>4, <2>5, <2>6 DEF FlowOK
<1>6. CASE Confirm(f)
  <2>0. stage[f] \in Unsigned /\ stage[f] \in Quoted /\ UNCHANGED <<saw, displaced, astray>>
    BY <1>6 DEF Confirm, Unsigned, Quoted, ElsewhereUnchanged
  <2>1. CASE Fails(f, "unparsable") /\ ~Fits(doc[f].value)
    <3>1. ~Sound(ops[f])
      BY <2>0, <2>1, <1>0, OverBig
    <3> QED BY <2>0, <2>1, <3>1, <1>0, <1>c, <1>d, FailsKeeps
  <2>2. CASE Fails(f, "refused") /\ ~SameTransfer(ops[f], ParseUnsigned(doc[f]))
    <3>1. ~Sound(ops[f])
      BY <2>0, <2>2, <1>0, UnsignedCompared DEF Sound
    <3> QED BY <2>0, <2>2, <3>1, <1>0, <1>c, <1>d, FailsKeeps
  <2>3. CASE Passes(f, "sign") /\ UNCHANGED <<ops, doc, nonce, quote, payload>>
    BY <2>0, <2>3, <1>0, <1>6, <1>p DEF Confirm, Passes, FlowOK, PapersOK, OpsOK,
       OptionsOK, QuoteOK, UnsignedOK, SignedOK, NonceWasFree, From, Tx, Maps,
       Quoted, Unsigned, Combined
  <2> QED BY <1>6, <2>1, <2>2, <2>3 DEF Confirm
<1>7. CASE Sign(f)
  BY <1>0, <1>7, <1>p DEF Sign, Passes, FlowOK, PapersOK, OpsOK,
     OptionsOK, QuoteOK, UnsignedOK, SignedOK, NonceWasFree, From, Tx, Maps,
     Quoted, Unsigned, Combined
<1>8. CASE Combine(f)
  <2>0. stage[f] \in Unsigned /\ stage[f] \in Quoted /\ UNCHANGED <<saw, displaced>>
    BY <1>8 DEF Combine, Unsigned, Quoted
  <2>s. PICK sig \in signatures \cup {Malformed, Invalid} :
           /\ astray' = IF sig = payload[f] THEN astray ELSE astray \cup {f}
           /\ \/ ~Fits(doc[f].value) /\ Fails(f, "unparsable")
              \/ sig = Malformed /\ Fails(f, "aborted")
              \/ /\ sig # Malformed
                 /\ HandsOn(f, [body |-> Body(DecodeTransaction(doc[f])), signature |-> sig])
                 /\ Passes(f, "check") /\ UNCHANGED <<ops, nonce, quote, payload>>
    BY <1>8, ZenonT(60) DEF Combine
  <2>a. astray \subseteq astray' /\ (f \notin astray' => sig = payload[f])
    BY <2>s
  <2>p. payload[f] \in Signatures
    <3>1. payload[f] = [key |-> From(f), body |-> Body(Tx(f))] /\ Body(Tx(f)) \in Bodies
      BY <2>0, <1>0, TxIs DEF PapersOK, UnsignedOK
    <3>2. From(f) \in Accounts
      BY <2>0, <1>0, OpsSides DEF From, Operations, Addresses, Unsigned
    <3> QED BY <3>1, <3>2 DEF Signatures
  <2>1. CASE Fails(f, "unparsable") /\ ~Fits(doc[f].value)
    <3>1. ~Sound(ops[f])
      BY <2>0, <2>1, <1>0, OverBig
    <3> QED BY <2>0, <2>1, <2>a, <3>1, <1>0, <1>c, <1>d, FailsKeeps
  <2>2. CASE sig = Malformed /\ Fails(f, "aborted")
    <3>1. f \in astray'
      BY <2>2, <2>a, <2>p, ConstructionAssumption
    <3> QED BY <2>0, <2>2, <2>a, <3>1, <1>0, <1>c, <1>d, FailsKeeps
  <2>3. ASSUME sig # Malformed,
               HandsOn(f, [body |-> Body(DecodeTransaction(doc[f])), signature |-> sig]),
               Passes(f, "check"), UNCHANGED <<ops, nonce, quote, payload>>
        PROVE  FlowOK(f)'
    <3>1. /\ DecodeTransaction(doc[f]) = Tx(f) /\ Body(Tx(f)) \in Bodies
      BY <2>0, <1>0, TxIs, RoundTrip DEF PapersOK, UnsignedOK
    <3>2. Tx(f)' = Tx(f) /\ From(f)' = From(f)
      BY <2>3 DEF Tx, From
    <3>3. doc'[f] = [body |-> Body(Tx(f)), signature |-> sig]
      BY <2>3, <3>1, <1>0 DEF HandsOn, Maps
    <3>4. doc'[f] \in [body : Bodies, signature : Signatures \cup {Invalid}]
      BY <2>3, <3>1, <3>3, <1>0 DEF GethOK
    <3>5. /\ stage'[f] = "check" /\ ops'[f] = ops[f] /\ payload'[f] = payload[f]
          /\ quote'[f] = quote[f] /\ nonce'[f] = nonce[f]
      BY <2>3, <1>0 DEF Passes, Maps
    <3>6. OpsOK(f)' /\ QuoteOK(f)' /\ OptionsOK(f)'
      BY <3>5, <2>0, <1>0 DEF PapersOK, OpsOK, QuoteOK, OptionsOK, Unsigned, Quoted
    <3>7. UnsignedOK(f)' /\ SignedOK(f)'
      BY <3>2, <3>3, <3>4, <3>5, <2>0, <2>a, <1>0 DEF PapersOK, UnsignedOK, SignedOK, Unsigned,
         Combined
    <3>8. NonceWasFree(f)'
      BY <3>2, <3>5, <2>0, <1>0, <1>8, <1>d DEF Combine, NonceWasFree
    <3>9. CauseOK(f)'
      BY <2>3, <1>0, <1>p DEF Passes, Maps
    <3> QED BY <3>6, <3>7, <3>8, <3>9 DEF FlowOK, PapersOK
  <2> QED BY <2>s, <2>1, <2>2, <2>3
<1>9. CASE Check(f)
  <2>0. stage[f] \in Combined /\ stage[f] = "check" /\ UNCHANGED <<saw, displaced>>
    BY <1>9 DEF Check, Combined
  <2>c. \/ Fails(f, "aborted") /\ astray' = astray \cup {f}
        \/ /\ UNCHANGED astray
           /\ \/ doc[f].signature = Invalid /\ Fails(f, "unparsable")
              \/ ~SameTransfer(ops[f], ParseSigned(doc[f])) /\ Fails(f, "refused")
              \/ /\ doc[f].signature # Invalid /\ SameTransfer(ops[f], ParseSigned(doc[f]))
                 /\ Passes(f, "submit") /\ UNCHANGED <<ops, doc, nonce, quote, payload>>
    BY <1>9, ZenonT(60) DEF Check
  <2>1. CASE Fails(f, "aborted") /\ astray' = astray \cup {f}
    BY <2>0, <2>1, <1>0, <1>c, <1>d, FailsKeeps
  <2>2. CASE doc[f].signature = Invalid /\ Fails(f, "unparsable") /\ UNCHANGED astray
    <3>1. payload[f] = [key |-> From(f), body |-> Body(Tx(f))] /\ Body(Tx(f)) \in Bodies
      BY <2>0, <1>0, TxIs DEF PapersOK, UnsignedOK, Quoted
    <3>2. From(f) \in Accounts
      BY <2>0, <1>0, OpsSides DEF From, Operations, Addresses
    <3>3. doc[f].signature # payload[f]
      BY <2>2, <3>1, <3>2, ConstructionAssumption DEF Signatures
    <3>4. f \in astray'
      BY <2>0, <2>2, <3>3, <1>0 DEF PapersOK, SignedOK
    <3> QED BY <2>0, <2>2, <3>4, <1>0, <1>c, <1>d, FailsKeeps
  <2>3. CASE /\ ~SameTransfer(ops[f], ParseSigned(doc[f])) /\ Fails(f, "refused")
             /\ UNCHANGED astray
    <3>1. ~Balanced(ops[f]) \/ doc[f].signature # payload[f]
      BY <2>0, <2>3, <1>0, SignedCompared
    <3>2. ~Sound(ops[f]) \/ f \in astray'
      BY <2>0, <2>3, <3>1, <1>0 DEF PapersOK, SignedOK, Sound
    <3> QED BY <2>0, <2>3, <3>2, <1>0, <1>c, <1>d, FailsKeeps
  <2>4. CASE /\ doc[f].signature # Invalid /\ SameTransfer(ops[f], ParseSigned(doc[f]))
             /\ Passes(f, "submit") /\ UNCHANGED <<ops, doc, nonce, quote, payload>>
             /\ UNCHANGED astray
    <3>1. doc[f] \in SignedTransactions
      BY <2>0, <2>4, <1>0 DEF PapersOK, SignedOK, SignedTransactions
    <3> QED BY <2>0, <2>4, <3>1, <1>0, <1>9, <1>p DEF Passes, FlowOK, PapersOK, OpsOK,
       OptionsOK, QuoteOK, UnsignedOK, SignedOK, NonceWasFree, From, Tx, Maps,
       Quoted, Unsigned, Combined
  <2> QED BY <2>c, <2>1, <2>2, <2>3, <2>4
<1>10. CASE Submit(f)
  <2>0. /\ stage[f] = "submit" /\ UNCHANGED <<saw, astray>>
        /\ \E code \in {"unavailable", "broadcast", "ok"} : Fails(f, code)
    BY <1>10, SubmitIs DEF IsSent
  <2>1. CauseOK(f)'
    BY <2>0, <1>0, <1>p DEF Fails, Maps
  <2>2. displaced'[f] \cap saw[f] = {}
    <3>1. SameTransfer(ops[f], ParseSigned(doc[f])) /\ doc[f].body = Body(Tx(f))
      BY <2>0, <1>0 DEF PapersOK, SignedOK, Combined
    <3>2. Sender(doc[f]) = From(f)
      BY <2>0, <3>1, <1>0, SignedCompared DEF Combined
    <3>3. doc[f].body.nonce = nonce[f]
      BY <2>0, <3>1, <1>0, TxIs DEF Quoted
    <3>4. Rivals(doc[f]) \cap saw[f] = {}
      BY <2>0, <3>2, <3>3, <1>0 DEF Rivals, NonceWasFree, Quoted
    <3>5. displaced'[f] \in {displaced[f], displaced[f] \cup Rivals(doc[f])}
      BY <1>10, <1>0, SubmitIs DEF IsSent, Accept, Maps
    <3> QED BY <3>4, <3>5, <1>d
  <2> QED BY <2>0, <2>1, <2>2, <1>0, FailsKeeps
<1>11. CASE Look(f)
  BY <1>0, <1>11, KeptFlow DEF Look, flowVars, KeptWhole, Kept
<1> QED BY <1>1, <1>2, <1>3, <1>4, <1>5, <1>6, <1>7, <1>8, <1>9, <1>10, <1>11
        DEF FlowStep

-----------------------------------------------------------------------------
(* A flow that has submitted keeps what its transaction is measured by.    *)
LEMMA IntendedKept ==
    ASSUME Maps, NEW f \in Flows, NEW s, Intended(f, s), GethOK,
           NEW g \in Flows, PapersOK(g), FlowStep(g)
    PROVE  Intended(f, s)'
<1>0. stage[f] = "submit"
  BY DEF Intended
<1>1. CASE f # g
  BY <1>1, OthersAreKept DEF Intended, KeptWhole, Kept
<1>2. CASE f = g
  <2>1. UNCHANGED <<stage, ops, nonce, quote>>
    BY <1>0, <1>2 DEF FlowStep, At, Begin, Preprocess, ReadNonce, ReadPrice, Payloads,
       Confirm, Sign, Combine, Check, Submit, Look, NotServed, Fails, flowVars
  <2> QED BY <2>1 DEF Intended
<1> QED BY <1>1, <1>2

(* What a flow submits is what its client intended.                        *)
LEMMA SubmittedIsIntended ==
    ASSUME Maps, NEW f \in Flows, PapersOK(f), stage[f] = "submit"
    PROVE  Intended(f, doc[f])
<1>1. /\ stage[f] \in Combined /\ stage[f] \in Quoted
      /\ SameTransfer(ops[f], ParseSigned(doc[f])) /\ doc[f].body = Body(Tx(f))
  BY DEF PapersOK, SignedOK, Combined, Quoted
<1>2. Sender(doc[f]) = From(f) /\ Balanced(ops[f])
  BY <1>1, SignedCompared
<1>3. PICK p \in Prices :
         /\ p \in Nat /\ quote[f].fee = SuggestedFee(p)
         /\ Body(Tx(f)) = [to |-> Credit(ops[f]).address.account,
                           value |-> Credit(ops[f]).amount,
                           nonce |-> nonce[f], gasPrice |-> p]
  BY <1>1, TxIs
<1>4. quote[f].fee = p * TransferGasLimit \/ p * TransferGasLimit > MaxInt
  BY <1>3, FeeOrOverflow
<1>5. Clear(ops[f])
  BY OpsSides
<1>6. /\ doc[f].body.to = Credit(ops[f]).address.account
      /\ doc[f].body.value = Credit(ops[f]).amount
      /\ doc[f].body.nonce = nonce[f] /\ doc[f].body.gasPrice = p
  BY <1>1, <1>3
<1> QED BY <1>2, <1>4, <1>5, <1>6 DEF Intended, From

(* What a flow's step adds to the pool is what the flow's caller           *)
(* intended.                                                               *)
LEMMA GethKept ==
    ASSUME Inv, NEW f \in Flows, FlowStep(f)
    PROVE  GethOK' /\ AcceptedIsIntended'
<1>0. Maps /\ GethOK /\ PapersOK(f) /\ AcceptedIsIntended
  BY DEF Inv, FlowOK
<1>1. pool' \subseteq pool \cup IF Submit(f) THEN {doc[f]} ELSE {}
  BY DEF FlowStep, Begin, Preprocess, ReadNonce, ReadPrice, Payloads, Confirm, Sign,
     Combine, Check, Submit, Accept, Look, ElsewhereUnchanged, gethVars
<1>2. UNCHANGED next
  BY DEF FlowStep, Begin, Preprocess, ReadNonce, ReadPrice, Payloads, Confirm, Sign,
     Combine, Check, Submit, Look, ElsewhereUnchanged, gethVars
<1>3. signatures' \subseteq Signatures
  <2>1. CASE Sign(f)
    <3>1. stage[f] \in Unsigned /\ stage[f] \in Quoted
      BY <2>1 DEF Sign, At, Unsigned, Quoted
    <3>2. From(f) \in Accounts
      BY <3>1, <1>0, OpsSides DEF From, Operations, Addresses, Unsigned
    <3>3. payload[f] \in Signatures
      BY <3>1, <3>2, <1>0, TxIs DEF PapersOK, UnsignedOK, Signatures
    <3> QED BY <2>1, <3>3, <1>0 DEF Sign, GethOK
  <2>2. CASE ~Sign(f)
    BY <2>2, <1>0 DEF FlowStep, Begin, Preprocess, ReadNonce, ReadPrice, Payloads, Confirm,
       Combine, Check, Submit, Look, ElsewhereUnchanged, gethVars, GethOK
  <2> QED BY <2>1, <2>2
<1>4. Submit(f) => stage[f] = "submit"
  BY DEF Submit, At
<1>5. Submit(f) => doc[f] \in SignedTransactions
  BY <1>0, <1>4 DEF PapersOK, SignedOK
<1>6. GethOK'
  BY <1>0, <1>1, <1>2, <1>3, <1>5 DEF GethOK
<1>7. ASSUME NEW s \in pool' PROVE \E g \in Flows : Intended(g, s)'
  <2>1. \E g \in Flows : Intended(g, s)
    BY <1>0, <1>1, <1>4, <1>7, SubmittedIsIntended DEF AcceptedIsIntended
  <2> QED BY <2>1, <1>0, IntendedKept
<1> QED BY <1>6, <1>7 DEF AcceptedIsIntended

(* Every step, of a flow, of another client or of the network, keeps the   *)
(* invariant.                                                              *)
LEMMA StepKeepsInv == Inv /\ [Next]_vars => Inv'
<1> SUFFICES ASSUME Inv, [Next]_vars PROVE Inv'
  OBVIOUS
<1>0. Maps /\ GethOK /\ AcceptedIsIntended /\ \A f \in Flows : FlowOK(f) /\ PapersOK(f)
  BY DEF Inv, FlowOK
<1>1. ASSUME NEW f \in Flows, FlowStep(f) PROVE Inv'
  <2>1. \A g \in Flows : FlowOK(g)'
    BY <1>0, <1>1, OthersAreKept, KeptFlow, ActorKept
  <2> QED BY <2>1, <1>0, <1>1, OthersAreKept, GethKept DEF Inv
<1>2. ASSUME UNCHANGED <<flowVars, saw, displaced, told, astray>>, UNCHANGED signatures,
             pool' \subseteq pool, next' \in [Accounts -> Nat]
      PROVE  Inv'
  <2>1. \A g \in Flows : FlowOK(g)'
    BY <1>0, <1>2, KeptFlow DEF flowVars, KeptWhole, Kept
  <2>2. Maps'
    BY <1>0, <1>2 DEF Maps, flowVars
  <2>3. GethOK'
    BY <1>0, <1>2 DEF GethOK
  <2>4. AcceptedIsIntended'
    BY <1>0, <1>2 DEF AcceptedIsIntended, Intended, flowVars
  <2> QED BY <2>1, <2>2, <2>3, <2>4 DEF Inv
<1>3. CASE Mine
  <2>1. \A a \in Accounts : next[a] + 1 \in Nat
    BY <1>0 DEF GethOK
  <2>2. next' \in [Accounts -> Nat]
    BY <1>0, <1>3, <2>1 DEF Mine, GethOK
  <2> QED BY <1>2, <1>3, <2>2 DEF Mine
<1>4. CASE Evict
  BY <1>0, <1>2, <1>4 DEF Evict, GethOK
<1>5. CASE UNCHANGED vars
  BY <1>0, <1>2, <1>5 DEF vars, gethVars, GethOK
<1> QED BY <1>1, <1>3, <1>4, <1>5 DEF Next

-----------------------------------------------------------------------------
(* The inductive invariant of the construction flows.                      *)
THEOREM ConstructionInvariant == Spec => []Inv
<1>1. Init => Inv
  BY DEF Init, Inv, Maps, GethOK, AcceptedIsIntended, FlowOK, PapersOK, OpsOK, OptionsOK,
     QuoteOK, UnsignedOK, SignedOK, NonceWasFree, CauseOK, Stopped, Stages, Outcomes, Quoted,
     Unsigned, Combined
<1> QED BY <1>1, StepKeepsInv, PTL DEF Spec

(* Every variable stays in its type, and the suggested fee in an int64.    *)
THEOREM ConstructionTypes == Spec => []ConstructionTypeOK
<1>1. ASSUME Inv PROVE ConstructionTypeOK
  <2>1. /\ Maps /\ GethOK
        /\ \A f \in Flows : /\ OpsOK(f) /\ OptionsOK(f) /\ QuoteOK(f) /\ SignedOK(f)
                            /\ PapersOK(f)
    BY <1>1 DEF Inv, FlowOK, PapersOK
  <2>2. ASSUME NEW f \in Flows, stage[f] \in {"metadata", "price", "payloads"}
        PROVE  doc[f] \in Addresses
    <3>1. doc[f] = [account |-> From(f), spelling |-> "checksum"]
      BY <2>1, <2>2 DEF OptionsOK, ChecksumAddress, AddressOf, From
    <3>2. From(f) \in Accounts
      BY <2>1, <2>2, OptionsAccount
    <3> QED BY <3>1, <3>2 DEF Addresses, Spellings
  <2>3. ASSUME NEW f \in Flows, stage[f] \in Quoted
        PROVE  quote[f].fee \in -(MaxInt + 1)..MaxInt
    <3>1. PICK p \in Prices : p \in Nat /\ quote[f].fee = SuggestedFee(p)
      BY <2>1, <2>3, TxIs
    <3>2. Int64(p) \in Int
      BY <3>1, Int64Type, DocsAssumption
    <3>3. Int64(p) * TransferGasLimit \in Int
      BY <3>2, DocsAssumption
    <3> QED BY <3>1, <3>3, Int64Type DEF SuggestedFee
  <2>4. ASSUME NEW f \in Flows
        PROVE  /\ stage[f] = "check" =>
                     doc[f] \in [body : Bodies, signature : Signatures \cup {Invalid}]
               /\ stage[f] = "submit" => doc[f] \in SignedTransactions
    BY <2>1, <2>4 DEF SignedOK, Combined
  <2> QED BY <2>1, <2>2, <2>3, <2>4 DEF ConstructionTypeOK, Maps, GethOK, OpsOK
<1> QED BY <1>1, ConstructionInvariant, PTL

(* Geth accepts only what a client wrote down, priced as it was told       *)
(* (construction_service.go:68-484).                                       *)
THEOREM AcceptedIsAlwaysIntended == Spec => []AcceptedIsIntended
<1>1. Inv => AcceptedIsIntended
  BY DEF Inv
<1> QED BY <1>1, ConstructionInvariant, PTL

(* A nonce is never that of a transaction that was in the pool when        *)
(* Metadata read it (construction_service.go:154): only flows of one       *)
(* sender that overlap can displace each other.                            *)
THEOREM OnlyConcurrentDisplaced == Spec => []DisplacedWasConcurrent
<1>1. Inv => DisplacedWasConcurrent
  BY DEF Inv, FlowOK, NonceWasFree, DisplacedWasConcurrent
<1> QED BY <1>1, ConstructionInvariant, PTL

(* A client that writes a sound transfer and hands on what it is given     *)
(* only ever has to repeat a call: whatever document it carries, process   *)
(* it asks, nonce and price it gets, none of the calls stops it            *)
(* (construction_service.go:68-484, types.go:70-219).                      *)
THEOREM SoundFlowsAlwaysGoOn == Spec => []SoundFlowGoesOn
<1>1. ASSUME Inv, NEW f \in Flows, Sound(ops[f]), f \notin astray
      PROVE  Going(f) \/ outcome[f] = "ok"
  <2>1. outcome[f] \in Outcomes /\ outcome[f] \notin Stopped
    BY <1>1 DEF Inv, Maps, FlowOK, CauseOK
  <2> QED BY <2>1 DEF Outcomes, Stopped, Going
<1>2. Inv => SoundFlowGoesOn
  BY <1>1 DEF SoundFlowGoesOn
<1> QED BY <1>2, ConstructionInvariant, PTL

-----------------------------------------------------------------------------
(* What TransferPool sees of f does not change.                            *)
SeenSame(f) ==
    /\ WishSeen(f)' = WishSeen(f)
    /\ GrantSeen(f)' = GrantSeen(f)
    /\ QuoteSeen(f)' = QuoteSeen(f)
    /\ (outcome'[f] = "ok") = (outcome[f] = "ok")

(* If it sees no change of any flow nor of geth, there is none.            *)
LEMMA SeenStutter ==
    ASSUME \A f \in Flows : SeenSame(f), UNCHANGED <<pool, next, told>>
    PROVE  UNCHANGED Promise!poolVars
<1>1. Contents(pool)' = Contents(pool)
  BY DEF Contents, Content
<1>2. /\ [f \in Flows |-> WishSeen(f)]' = [f \in Flows |-> WishSeen(f)]
      /\ [f \in Flows |-> GrantSeen(f)]' = [f \in Flows |-> GrantSeen(f)]
      /\ [f \in Flows |-> QuoteSeen(f)]' = [f \in Flows |-> QuoteSeen(f)]
      /\ [f \in Flows |-> outcome[f] = "ok"]' = [f \in Flows |-> outcome[f] = "ok"]
  BY DEF SeenSame
<1> QED BY <1>1, <1>2 DEF Promise!poolVars

(* A step of one flow is not seen of the others.                           *)
LEMMA OthersSeenSame ==
    ASSUME Inv, NEW g \in Flows, FlowStep(g)
    PROVE  \A f \in Flows \ {g} : SeenSame(f)
<1>1. \A f \in Flows \ {g} : KeptWhole(f)
  BY OthersAreKept DEF Inv, FlowOK
<1> QED BY <1>1 DEF KeptWhole, Kept, SeenSame, WishSeen, GrantSeen, QuoteSeen, WishOf, Contents,
                    Content

(* A signed transaction is known by its content,                           *)
LEMMA ContentTells ==
    ASSUME NEW s \in SignedTransactions, NEW u \in SignedTransactions,
           Sender(s) \in Accounts, Content(s) = Content(u)
    PROVE  s = u
<1>1. /\ s.body \in Bodies /\ u.body \in Bodies
      /\ s.signature \in Signatures /\ u.signature \in Signatures
  BY DEF SignedTransactions
<1>2. Sender(u) = Sender(s) /\ Sender(s) # Nobody
  BY DocsAssumption DEF Content
<1>3. /\ s.signature.body = s.body /\ u.signature.body = u.body
      /\ s.signature.key = u.signature.key
  BY <1>2 DEF Sender
<1>4. s.body = u.body
  BY <1>1 DEF Content, Bodies
<1>5. s.signature = u.signature
  BY <1>1, <1>3, <1>4 DEF Signatures
<1> QED BY <1>4, <1>5 DEF SignedTransactions

(* for in the pool all have a sender.                                      *)
LEMMA PoolHasSenders ==
    ASSUME Inv, NEW s \in pool
    PROVE  s \in SignedTransactions /\ Sender(s) \in Accounts
<1>1. Maps /\ GethOK /\ AcceptedIsIntended /\ \A f \in Flows : PapersOK(f)
  BY DEF Inv, FlowOK
<1>2. PICK f \in Flows : Intended(f, s)
  BY <1>1 DEF AcceptedIsIntended
<1>3. Debit(ops[f]) \in Operations
  BY <1>1, <1>2, OpsSides DEF Intended
<1> QED BY <1>1, <1>2, <1>3 DEF Intended, Operations, Addresses, GethOK

(* So the pool without some is seen without these.                         *)
LEMMA ContentsWithout ==
    ASSUME Inv, NEW S \in SUBSET pool
    PROVE  Contents(pool \ S) = Contents(pool) \ Contents(S)
<1>1. \A s \in pool, u \in pool : Content(s) = Content(u) => s = u
  BY PoolHasSenders, ContentTells
<1> HIDE DEF Inv
<1> QED BY <1>1 DEF Contents

(* The same nonces are taken.                                              *)
LEMMA TakenSeen ==
    ASSUME NEW a, NEW n
    PROVE  Promise!Taken(a, n) <=> Taken(a, n)
<1>1. \A s : Content(s).from = Sender(s) /\ Content(s).nonce = s.body.nonce
  BY DEF Content
<1> QED BY <1>1 DEF Promise!Taken, Taken, Contents

(* What is seen of a flow that has a quote, and of one that submits.       *)
LEMMA WishIs ==
    ASSUME Inv, NEW f \in Flows, stage[f] \notin {"idle", "preprocess"}
    PROVE  /\ WishSeen(f) = WishOf(ops[f])
           /\ WishSeen(f).from = From(f) /\ From(f) \in Accounts /\ From(f) # Nobody
<1>1. PapersOK(f)
  BY DEF Inv, FlowOK
<1>2. Clear(ops[f]) /\ From(f) \in Accounts
  BY <1>1, OpsSides DEF From, Operations, Addresses
<1> QED BY <1>2, DocsAssumption DEF WishSeen, WishOf, From

(* The quote is a price of geth and the fee for it, its nonce is granted,  *)
LEMMA QuoteIs ==
    ASSUME Inv, NEW f \in Flows, stage[f] \in Quoted
    PROVE  \E p \in Prices :
              /\ p \in Nat /\ QuoteSeen(f) = [price |-> p, fee |-> SuggestedFee(p)]
              /\ QuoteSeen(f) # [price |-> -1, fee |-> 0]
              /\ GrantSeen(f) = [nonce |-> nonce[f], saw |-> Contents(saw[f])]
              /\ nonce[f] \in Nat
<1>1. PICK p \in Prices :
         quote[f] = [metadata |-> EncodeMetadata(nonce[f], p), fee |-> SuggestedFee(p)]
  BY DEF Inv, FlowOK, PapersOK, QuoteOK
<1>2. p \in Nat /\ nonce[f] \in Nat
  BY ConstructionAssumption, DocsAssumption DEF Inv, Maps
<1>3. QuoteSeen(f) = [price |-> p, fee |-> SuggestedFee(p)]
  BY <1>1 DEF QuoteSeen, EncodeMetadata, Hex, Unhex
<1>4. [price |-> p, fee |-> SuggestedFee(p)].price # [price |-> -1, fee |-> 0].price
  BY <1>2
<1>5. GrantSeen(f) = [nonce |-> nonce[f], saw |-> Contents(saw[f])]
  BY DEF GrantSeen
<1> QED BY <1>2, <1>3, <1>4, <1>5

(* and what is signed is the transfer that is ordered.                     *)
LEMMA OrderedIs ==
    ASSUME Inv, NEW f \in Flows, stage[f] = "submit"
    PROVE  /\ Promise!Ordered(f) = Content(doc[f])
           /\ doc[f] \in SignedTransactions /\ Sender(doc[f]) = From(f)
           /\ doc[f].body.nonce = nonce[f]
           /\ WishSeen(f).spends = WishSeen(f).gets
<1>1. /\ Maps /\ PapersOK(f) /\ stage[f] \in Combined /\ stage[f] \in Quoted
      /\ stage[f] \notin {"idle", "preprocess"}
  BY DEF Inv, FlowOK, Combined, Quoted
<1>2. /\ SameTransfer(ops[f], ParseSigned(doc[f])) /\ doc[f].body = Body(Tx(f))
      /\ doc[f] \in SignedTransactions
  BY <1>1 DEF PapersOK, SignedOK
<1>3. Sender(doc[f]) = From(f) /\ Balanced(ops[f])
  BY <1>1, <1>2, SignedCompared
<1>4. PICK p \in Prices :
         quote[f] = [metadata |-> EncodeMetadata(nonce[f], p), fee |-> SuggestedFee(p)]
  BY <1>1 DEF PapersOK, QuoteOK
<1>5. Body(Tx(f)) = [to |-> Credit(ops[f]).address.account,
                     value |-> Credit(ops[f]).amount,
                     nonce |-> nonce[f], gasPrice |-> p]
  BY <1>4 DEF Body, Tx, Transfer, DecodeMetadata, EncodeMetadata, Hex, Unhex, ChecksumAddress,
              AddressOf
<1>6. WishSeen(f) = WishOf(ops[f])
  BY <1>1, WishIs
<1>7. QuoteSeen(f).price = p /\ GrantSeen(f).nonce = nonce[f]
  BY <1>1, <1>4 DEF QuoteSeen, GrantSeen, EncodeMetadata, Hex, Unhex
<1>8. /\ Content(doc[f]) = [from |-> From(f), to |-> Credit(ops[f]).address.account,
                            value |-> Credit(ops[f]).amount,
                            nonce |-> nonce[f], price |-> p]
      /\ doc[f].body.nonce = nonce[f]
  BY <1>2, <1>3, <1>5 DEF Content
<1>9. /\ Promise!Ordered(f) = [from |-> From(f), to |-> Credit(ops[f]).address.account,
                               value |-> Credit(ops[f]).amount,
                               nonce |-> nonce[f], price |-> p]
  BY <1>6, <1>7 DEF Promise!Ordered, WishOf, From
<1>10. WishSeen(f).spends = WishSeen(f).gets
  <2>1. Credit(ops[f]).amount \in Int /\ Debit(ops[f]).amount \in Int
    BY <1>1, OpsSides DEF Operations
  <2> QED BY <1>3, <1>6, <2>1 DEF WishOf, Balanced
<1> QED BY <1>2, <1>3, <1>8, <1>9, <1>10

-----------------------------------------------------------------------------
(* Steps of which nothing is seen.                                         *)
LEMMA SilentSteps ==
    ASSUME Inv, NEW f \in Flows,
           \/ Preprocess(f) \/ Payloads(f) \/ Confirm(f) \/ Sign(f)
           \/ Combine(f) \/ Check(f)
    PROVE  UNCHANGED Promise!poolVars
<1>1. FlowStep(f)
  BY DEF FlowStep
<1>2. Maps /\ Maps'
  BY <1>1, OthersAreKept DEF Inv, FlowOK
<1>3. /\ ops'[f] = ops[f] /\ nonce'[f] = nonce[f] /\ quote'[f] = quote[f] /\ saw'[f] = saw[f]
      /\ UNCHANGED <<pool, next, told>>
      /\ outcome[f] # "ok" /\ outcome'[f] # "ok"
      /\ \/ stage'[f] = stage[f]
         \/ stage[f] = "preprocess" /\ stage'[f] = "metadata"
         \/ stage[f] \in Quoted /\ stage'[f] \in Quoted
  <2> USE DEF At, Going, Fails, Passes, HandsOn, ElsewhereUnchanged, gethVars, Quoted, Maps
  <2>1. CASE Preprocess(f)
    BY <1>2, <2>1 DEF Preprocess, Objection
  <2>2. CASE Payloads(f)
    BY <1>2, <2>2 DEF Payloads, Objection
  <2>3. CASE Confirm(f)
    BY <1>2, <2>3, ZenonT(60) DEF Confirm
  <2>4. CASE Sign(f)
    BY <1>2, <2>4 DEF Sign
  <2>5. CASE Combine(f)
    BY <1>2, <2>5, ZenonT(60) DEF Combine
  <2>6. CASE Check(f)
    BY <1>2, <2>6, ZenonT(60) DEF Check
  <2> QED BY <2>1, <2>2, <2>3, <2>4, <2>5, <2>6
<1>4. SeenSame(f)
  BY <1>3 DEF SeenSame, WishSeen, GrantSeen, QuoteSeen, WishOf, Contents, Content, Quoted
<1>5. \A g \in Flows : SeenSame(g)
  BY <1>1, <1>4, OthersSeenSame
<1> QED BY <1>3, <1>5, SeenStutter

(* The operations are a wish, if they are clear.                           *)
LEMMA BeginWishes ==
    ASSUME Inv, NEW f \in Flows, Begin(f)
    PROVE  Promise!Wish(f) \/ UNCHANGED Promise!poolVars
<1>1. FlowStep(f)
  BY DEF FlowStep
<1>2. Maps /\ Maps'
  BY <1>1, OthersAreKept DEF Inv, FlowOK
<1>3. PICK o \in Intents :
         /\ ops'[f] = o /\ stage[f] = "idle" /\ stage'[f] = "preprocess"
         /\ UNCHANGED <<pool, next, told, saw, nonce, quote>>
         /\ outcome[f] # "ok" /\ outcome'[f] # "ok"
  BY <1>2 DEF Begin, At, Going, Passes, Maps, ElsewhereUnchanged, gethVars
<1>4. /\ GrantSeen(f)' = GrantSeen(f) /\ QuoteSeen(f)' = QuoteSeen(f)
      /\ (outcome'[f] = "ok") = (outcome[f] = "ok")
  BY <1>3 DEF GrantSeen, QuoteSeen, Quoted
<1>5. \A g \in Flows \ {f} : SeenSame(g)
  BY <1>1, OthersSeenSame
<1>6. CASE ~Clear(o)
  <2>1. SeenSame(f)
    BY <1>3, <1>4, <1>6 DEF SeenSame, WishSeen
  <2>2. \A g \in Flows : SeenSame(g)
    BY <1>5, <2>1
  <2> QED BY <1>3, <2>2, SeenStutter
<1>7. CASE Clear(o)
  <2>1. WishSeen(f) = Promise!NoWish /\ WishSeen(f)' = WishOf(o)
    BY <1>3, <1>7 DEF WishSeen, Promise!NoWish, WishOf
  <2>2. WishOf(o) \in {WishOf(i) : i \in {j \in Intents : Clear(j)}}
    BY <1>7
  <2>3. /\ \A g \in Flows : GrantSeen(g)' = GrantSeen(g) /\ QuoteSeen(g)' = QuoteSeen(g)
                            /\ (outcome'[g] = "ok") = (outcome[g] = "ok")
        /\ \A g \in Flows \ {f} : WishSeen(g)' = WishSeen(g)
    BY <1>4, <1>5 DEF SeenSame
  <2>4. [g \in Flows |-> WishSeen(g)]' = [[g \in Flows |-> WishSeen(g)] EXCEPT ![f] = WishOf(o)]
    BY <2>1, <2>3
  <2>5. /\ [g \in Flows |-> GrantSeen(g)]' = [g \in Flows |-> GrantSeen(g)]
        /\ [g \in Flows |-> QuoteSeen(g)]' = [g \in Flows |-> QuoteSeen(g)]
        /\ [g \in Flows |-> outcome[g] = "ok"]' = [g \in Flows |-> outcome[g] = "ok"]
        /\ Contents(pool)' = Contents(pool)
    BY <1>3, <2>3 DEF Contents, Content
  <2>6. UNCHANGED <<next, told>>
    BY <1>3
  <2>7. [g \in Flows |-> WishSeen(g)][f] = Promise!NoWish
    BY <2>1
  <2> QED BY <2>2, <2>4, <2>5, <2>6, <2>7 DEF Promise!Wish
<1> QED BY <1>6, <1>7

(* A nonce is granted when it is read,                                     *)
LEMMA ReadNonceGrants ==
    ASSUME Inv, NEW f \in Flows, ReadNonce(f)
    PROVE  Promise!Grant(f) \/ UNCHANGED Promise!poolVars
<1>1. FlowStep(f)
  BY DEF FlowStep
<1>2. Maps /\ Maps' /\ GethOK /\ PapersOK(f)
  BY <1>1, OthersAreKept DEF Inv, FlowOK
<1>3. /\ stage[f] = "metadata" /\ ops'[f] = ops[f] /\ quote'[f] = quote[f]
      /\ outcome[f] # "ok" /\ outcome'[f] # "ok"
      /\ UNCHANGED <<pool, next, told>>
      /\ doc[f].account = From(f) /\ From(f) \in Accounts
      /\ stage'[f] \in {"metadata", "price"}
  BY <1>2, ReadNonceIs, OptionsAccount DEF NonceIsRead, At, Going, Passes, Fails, Maps, gethVars
<1>4. /\ WishSeen(f)' = WishSeen(f) /\ QuoteSeen(f)' = QuoteSeen(f)
      /\ QuoteSeen(f) = Promise!NoQuote
      /\ (outcome'[f] = "ok") = (outcome[f] = "ok")
  BY <1>3 DEF WishSeen, QuoteSeen, Quoted, WishOf, Promise!NoQuote
<1>5. \A g \in Flows \ {f} : SeenSame(g)
  BY <1>1, OthersSeenSame
<1>6. CASE Fails(f, "geth") \/ Fails(f, "unavailable")
  <2>1. stage'[f] = stage[f]
    BY <1>6 DEF Fails
  <2>2. GrantSeen(f)' = GrantSeen(f)
    BY <1>3, <2>1 DEF GrantSeen, Quoted
  <2>3. \A g \in Flows : SeenSame(g)
    BY <1>4, <1>5, <2>2 DEF SeenSame
  <2> QED BY <1>3, <2>3, SeenStutter
<1>7. CASE ~(Fails(f, "geth") \/ Fails(f, "unavailable"))
  <2>1. PICK n \in next[From(f)]..(next[From(f)] + Cardinality(pool)) :
           /\ IsPendingNonce(From(f), n)
           /\ nonce'[f] = n /\ saw'[f] = pool /\ stage'[f] = "price"
    BY <1>2, <1>3, <1>7, ReadNonceIs DEF NonceIsRead, Passes, Maps
  <2>2. next[From(f)] \in Nat /\ n \in Nat /\ n >= next[From(f)]
    BY <1>2, <1>3, <2>1 DEF GethOK
  <2>3. GrantSeen(f)' = [nonce |-> n, saw |-> Contents(pool)]
    BY <2>1 DEF GrantSeen, Contents, Content
  <2> DEFINE a == [g \in Flows |-> WishSeen(g)][f].from
  <2>4. a = From(f) /\ [g \in Flows |-> WishSeen(g)][f] # Promise!NoWish
    BY <1>3, WishIs DEF Promise!NoWish
  <2>5. n \in {next[From(f)]} \cup {t.nonce + 1 : t \in Contents(pool)}
    <3> SUFFICES ASSUME n # next[From(f)]
                 PROVE  \E t \in Contents(pool) : n = t.nonce + 1
      OBVIOUS
    <3>1. n - 1 \in next[From(f)]..(n - 1)
      BY <2>2
    <3>2. PICK s \in pool : s.body.nonce = n - 1
      BY <2>1, <3>1 DEF IsPendingNonce, Taken
    <3>3. Content(s) \in Contents(pool) /\ Content(s).nonce = n - 1
      BY <3>2 DEF Contents, Content
    <3> QED BY <2>2, <3>3
  <2>6. Promise!FirstFree(From(f), n)
    BY <2>1, <2>2, TakenSeen DEF IsPendingNonce, Promise!FirstFree
  <2>7. /\ \A g \in Flows : WishSeen(g)' = WishSeen(g) /\ QuoteSeen(g)' = QuoteSeen(g)
                            /\ (outcome'[g] = "ok") = (outcome[g] = "ok")
        /\ \A g \in Flows \ {f} : GrantSeen(g)' = GrantSeen(g)
    BY <1>4, <1>5 DEF SeenSame
  <2>8. [g \in Flows |-> GrantSeen(g)]' =
            [[g \in Flows |-> GrantSeen(g)] EXCEPT ![f] = [nonce |-> n, saw |-> Contents(pool)]]
    BY <2>3, <2>7
  <2>9. /\ [g \in Flows |-> WishSeen(g)]' = [g \in Flows |-> WishSeen(g)]
        /\ [g \in Flows |-> QuoteSeen(g)]' = [g \in Flows |-> QuoteSeen(g)]
        /\ [g \in Flows |-> outcome[g] = "ok"]' = [g \in Flows |-> outcome[g] = "ok"]
        /\ Contents(pool)' = Contents(pool)
    BY <1>3, <2>7 DEF Contents, Content
  <2>10. UNCHANGED <<next, told>>
    BY <1>3
  <2>11. [g \in Flows |-> QuoteSeen(g)][f] = Promise!NoQuote
    BY <1>4
  <2> HIDE DEF Inv, a
  <2>12. \E k \in {next[a]} \cup {t.nonce + 1 : t \in Contents(pool)} :
            /\ Promise!FirstFree(a, k)
            /\ [g \in Flows |-> GrantSeen(g)]' =
                   [[g \in Flows |-> GrantSeen(g)] EXCEPT
                       ![f] = [nonce |-> k, saw |-> Contents(pool)]]
    BY <2>4, <2>5, <2>6, <2>8
  <2> USE DEF a
  <2> QED BY <2>4, <2>9, <2>10, <2>11, <2>12 DEF Promise!Grant
<1> QED BY <1>6, <1>7

(* and withdrawn if the price is not; else the price is quoted.            *)
LEMMA ReadPriceQuotes ==
    ASSUME Inv, NEW f \in Flows, ReadPrice(f)
    PROVE  Promise!Quote(f) \/ Promise!Withdraw(f)
<1>1. FlowStep(f)
  BY DEF FlowStep
<1>2. Maps /\ Maps'
  BY <1>1, OthersAreKept DEF Inv, FlowOK
<1>3. /\ stage[f] = "price" /\ ops'[f] = ops[f] /\ nonce'[f] = nonce[f] /\ saw'[f] = saw[f]
      /\ outcome[f] # "ok" /\ outcome'[f] # "ok" /\ nonce[f] \in Nat
      /\ UNCHANGED <<pool, next, told>>
      /\ stage'[f] \in {"metadata", "payloads"}
  BY <1>2 DEF ReadPrice, At, Going, Passes, Maps, ElsewhereUnchanged, gethVars
<1>4. /\ WishSeen(f)' = WishSeen(f)
      /\ QuoteSeen(f) = Promise!NoQuote /\ GrantSeen(f) # Promise!NoGrant
      /\ (outcome'[f] = "ok") = (outcome[f] = "ok")
  <2>1. GrantSeen(f).nonce = nonce[f] /\ Promise!NoGrant.nonce = -1
    BY <1>3 DEF GrantSeen, Promise!NoGrant
  <2>2. GrantSeen(f) # Promise!NoGrant
    BY <1>3, <2>1
  <2> QED BY <1>3, <2>2 DEF WishSeen, QuoteSeen, Quoted, WishOf, Promise!NoQuote
<1>5. \A g \in Flows \ {f} : SeenSame(g)
  BY <1>1, OthersSeenSame
<1>6. /\ \A g \in Flows : WishSeen(g)' = WishSeen(g) /\ (outcome'[g] = "ok") = (outcome[g] = "ok")
      /\ \A g \in Flows \ {f} : GrantSeen(g)' = GrantSeen(g) /\ QuoteSeen(g)' = QuoteSeen(g)
  BY <1>4, <1>5 DEF SeenSame
<1>7. /\ [g \in Flows |-> WishSeen(g)]' = [g \in Flows |-> WishSeen(g)]
      /\ [g \in Flows |-> outcome[g] = "ok"]' = [g \in Flows |-> outcome[g] = "ok"]
      /\ Contents(pool)' = Contents(pool)
  BY <1>3, <1>6 DEF Contents, Content
<1>8. UNCHANGED <<next, told>>
  BY <1>3
<1>9. /\ [g \in Flows |-> QuoteSeen(g)][f] = Promise!NoQuote
      /\ [g \in Flows |-> GrantSeen(g)][f] # Promise!NoGrant
  BY <1>4
<1>10. CASE stage'[f] = "metadata"
  <2>1. GrantSeen(f)' = Promise!NoGrant /\ QuoteSeen(f)' = QuoteSeen(f)
    BY <1>3, <1>10 DEF GrantSeen, QuoteSeen, Quoted, Promise!NoGrant
  <2>2. /\ [g \in Flows |-> GrantSeen(g)]' =
               [[g \in Flows |-> GrantSeen(g)] EXCEPT ![f] = Promise!NoGrant]
        /\ [g \in Flows |-> QuoteSeen(g)]' = [g \in Flows |-> QuoteSeen(g)]
    BY <1>6, <2>1
  <2> QED BY <1>7, <1>8, <1>9, <2>2 DEF Promise!Withdraw
<1>11. CASE stage'[f] = "payloads"
  <2>1. PICK p \in Prices :
           quote'[f] = [metadata |-> EncodeMetadata(nonce[f], p), fee |-> SuggestedFee(p)]
    BY <1>2, <1>3, <1>11 DEF ReadPrice, Maps
  <2>2. p \in Nat
    BY ConstructionAssumption, DocsAssumption
  <2>3. /\ QuoteSeen(f)' = [price |-> p, fee |-> SuggestedFee(p)]
        /\ GrantSeen(f)' = GrantSeen(f)
    BY <1>3, <1>11, <2>1 DEF QuoteSeen, GrantSeen, Quoted, EncodeMetadata, Hex, Unhex, Contents,
                             Content
  <2>4. SuggestedFee(p) = p * TransferGasLimit \/ p * TransferGasLimit > MaxInt
    BY <2>2, FeeOrOverflow
  <2>5. SuggestedFee(p) \in -(MaxInt + 1)..MaxInt
    <3>1. Int64(p) \in Int
      BY <2>2, Int64Type, DocsAssumption
    <3>2. Int64(p) * TransferGasLimit \in Int
      BY <3>1, DocsAssumption
    <3> QED BY <3>2, Int64Type DEF SuggestedFee
  <2> DEFINE fee == SuggestedFee(p)
  <2> HIDE DEF fee
  <2>6. /\ [g \in Flows |-> QuoteSeen(g)]' =
               [[g \in Flows |-> QuoteSeen(g)] EXCEPT ![f] = [price |-> p, fee |-> fee]]
        /\ [g \in Flows |-> GrantSeen(g)]' = [g \in Flows |-> GrantSeen(g)]
    BY <1>6, <2>3 DEF fee
  <2>7. /\ fee \in -(MaxInt + 1)..MaxInt
        /\ fee = p * TransferGasLimit \/ p * TransferGasLimit > MaxInt
    BY <2>4, <2>5 DEF fee
  <2> QED BY <1>7, <1>8, <1>9, <2>6, <2>7 DEF Promise!Quote
<1> QED BY <1>3, <1>10, <1>11

-----------------------------------------------------------------------------
(* What a transfer replaces is seen as what it replaces.                   *)
LEMMA RivalsSeen ==
    ASSUME NEW s
    PROVE  Promise!InItsPlace(Content(s)) = Contents(Rivals(s))
<1>1. \A u : /\ Content(u).from = Sender(u) /\ Content(u).nonce = u.body.nonce
             /\ Content(u).price = u.body.gasPrice
  BY DEF Content
<1> QED BY <1>1 DEF Promise!InItsPlace, Contents, Rivals

(* A transaction that geth takes is the transfer wished for.               *)
LEMMA SubmitAccepts ==
    ASSUME Inv, NEW f \in Flows, Submit(f)
    PROVE  Promise!Accept(f) \/ UNCHANGED Promise!poolVars
<1>1. FlowStep(f)
  BY DEF FlowStep
<1>2. Maps /\ Maps' /\ NonceWasFree(f)
  BY <1>1, OthersAreKept DEF Inv, FlowOK
<1>3. /\ stage[f] = "submit" /\ stage'[f] = stage[f] /\ ops'[f] = ops[f]
      /\ nonce'[f] = nonce[f] /\ quote'[f] = quote[f] /\ saw'[f] = saw[f]
      /\ outcome[f] # "ok" /\ UNCHANGED <<next, told>>
  BY <1>2, SubmitIs DEF IsSent, At, Going, Fails
<1>4. WishSeen(f)' = WishSeen(f) /\ GrantSeen(f)' = GrantSeen(f) /\ QuoteSeen(f)' = QuoteSeen(f)
  BY <1>3 DEF WishSeen, GrantSeen, QuoteSeen, WishOf, Contents, Content
<1>5. \A g \in Flows \ {f} : SeenSame(g)
  BY <1>1, OthersSeenSame
<1>6. CASE (Fails(f, "unavailable") \/ Fails(f, "broadcast")) /\ UNCHANGED pool
  <2>1. outcome'[f] # "ok" /\ UNCHANGED pool
    BY <1>2, <1>6 DEF Fails, Maps
  <2>2. \A g \in Flows : SeenSame(g)
    BY <1>3, <1>4, <1>5, <2>1 DEF SeenSame
  <2> QED BY <1>3, <2>1, <2>2, SeenStutter
<1>7. CASE /\ Acceptable(doc[f]) /\ pool' = (pool \ Rivals(doc[f])) \cup {doc[f]}
           /\ Fails(f, "broadcast") \/ Fails(f, "ok")
  <2> DEFINE t == Content(doc[f])
             code == outcome'[f]
  <2>1. /\ Promise!Ordered(f) = t /\ doc[f] \in SignedTransactions
        /\ Sender(doc[f]) = From(f) /\ doc[f].body.nonce = nonce[f]
        /\ WishSeen(f).spends = WishSeen(f).gets
        /\ t.from = Sender(doc[f]) /\ t.nonce = doc[f].body.nonce
        /\ t.price = doc[f].body.gasPrice
    BY <1>3, OrderedIs DEF Content
  <2>2. Rivals(doc[f]) \in SUBSET pool /\ Promise!InItsPlace(t) = Contents(Rivals(doc[f]))
    BY RivalsSeen DEF Rivals
  <2>3. Contents(pool)' = (Contents(pool) \ Promise!InItsPlace(t)) \cup {t}
    <3>1. Contents(pool)' = Contents(pool')
      BY DEF Contents, Content
    <3>2. Contents(pool') = Contents(pool \ Rivals(doc[f])) \cup {t}
      BY <1>7 DEF Contents
    <3>3. Contents(pool \ Rivals(doc[f])) = Contents(pool) \ Contents(Rivals(doc[f]))
      BY <2>2, ContentsWithout
    <3> QED BY <2>2, <3>1, <3>2, <3>3
  <2>4. GrantSeen(f) = [nonce |-> nonce[f], saw |-> Contents(saw[f])]
        /\ QuoteSeen(f) # Promise!NoQuote
    BY <1>3, QuoteIs DEF Quoted, Promise!NoQuote
  <2>5. ASSUME NEW u \in Promise!InItsPlace(t)
        PROVE  u.price < t.price /\ u \notin GrantSeen(f).saw
    <3>1. PICK p \in Rivals(doc[f]) : u = Content(p)
      BY <2>2 DEF Contents
    <3>2. p.body.gasPrice < doc[f].body.gasPrice
      <4>1. p \in SignedTransactions /\ doc[f].body.gasPrice > p.body.gasPrice
        BY <1>7, <3>1, PoolHasSenders DEF Acceptable, Rivals
      <4>2. p.body.gasPrice \in Nat /\ doc[f].body.gasPrice \in Nat
        BY <2>1, <4>1 DEF SignedTransactions, Bodies
      <4> QED BY <4>1, <4>2
    <3>3. u.price = p.body.gasPrice /\ u.from = From(f) /\ u.nonce = nonce[f]
      BY <2>1, <3>1 DEF Content, Rivals
    <3>4. ASSUME u \in GrantSeen(f).saw PROVE FALSE
      <4>1. PICK s \in saw[f] : u = Content(s)
        BY <2>4, <3>4 DEF Contents
      <4>2. Sender(s) = From(f) /\ s.body.nonce = nonce[f]
        BY <3>3, <4>1 DEF Content
      <4> QED BY <1>2, <1>3, <4>1, <4>2 DEF NonceWasFree, Quoted
    <3> QED BY <2>1, <3>2, <3>3, <3>4
  <2>6. t.nonce >= next[t.from]
    BY <1>7, <2>1 DEF Acceptable
  <2>7. /\ \A g \in Flows : WishSeen(g)' = WishSeen(g) /\ GrantSeen(g)' = GrantSeen(g)
                            /\ QuoteSeen(g)' = QuoteSeen(g)
        /\ \A g \in Flows \ {f} : (outcome'[g] = "ok") = (outcome[g] = "ok")
    BY <1>4, <1>5 DEF SeenSame
  <2>8. /\ [g \in Flows |-> WishSeen(g)]' = [g \in Flows |-> WishSeen(g)]
        /\ [g \in Flows |-> GrantSeen(g)]' = [g \in Flows |-> GrantSeen(g)]
        /\ [g \in Flows |-> QuoteSeen(g)]' = [g \in Flows |-> QuoteSeen(g)]
    BY <2>7
  <2> DEFINE said == [g \in Flows |-> outcome[g] = "ok"]
  <2>9. said' \in {said, [said EXCEPT ![f] = TRUE]}
    <3>1. CASE outcome'[f] = "ok"
      <4>1. \A g \in Flows : (outcome'[g] = "ok") = [said EXCEPT ![f] = TRUE][g]
        BY <2>7, <3>1
      <4>2. said' = [g \in Flows |-> [said EXCEPT ![f] = TRUE][g]]
        BY <4>1
      <4>3. [said EXCEPT ![f] = TRUE] = [g \in Flows |-> [said EXCEPT ![f] = TRUE][g]]
        OBVIOUS
      <4> QED BY <4>2, <4>3
    <3>2. CASE outcome'[f] # "ok"
      <4>1. \A g \in Flows : (outcome'[g] = "ok") = (outcome[g] = "ok")
        BY <1>3, <2>7, <3>2
      <4> QED BY <4>1
    <3> QED BY <3>1, <3>2
  <2>10. ~said[f] /\ UNCHANGED <<next, told>>
    BY <1>3
  <2>11. /\ [g \in Flows |-> QuoteSeen(g)][f] # Promise!NoQuote
         /\ [g \in Flows |-> WishSeen(g)][f].spends = [g \in Flows |-> WishSeen(g)][f].gets
         /\ [g \in Flows |-> GrantSeen(g)][f] = GrantSeen(f)
    BY <2>1, <2>4
  <2> HIDE DEF t, said
  <2>12. LET x == Promise!Ordered(f)
         IN  /\ x.nonce >= next[x.from]
             /\ \A u \in Promise!InItsPlace(x) :
                   u.price < x.price /\ u \notin [g \in Flows |-> GrantSeen(g)][f].saw
             /\ Contents(pool)' = (Contents(pool) \ Promise!InItsPlace(x)) \cup {x}
    BY <2>1, <2>3, <2>5, <2>6, <2>11
  <2> QED BY <2>8, <2>9, <2>10, <2>11, <2>12 DEF Promise!Accept, said
<1> QED BY <1>6, <1>7, SubmitIs DEF IsSent, Accept

(* What /mempool tells is true of the transfer.                            *)
LEMMA LookTells ==
    ASSUME Inv, NEW f \in Flows, Look(f)
    PROVE  Promise!Tell(f)
<1>1. FlowStep(f)
  BY DEF FlowStep
<1>2. /\ stage[f] = "submit" /\ UNCHANGED <<flowVars, pool, next, saw>>
      /\ told' = [told EXCEPT ![f] = IF doc[f] \in GetMempool THEN "listed" ELSE "missing"]
  BY DEF Look, gethVars
<1>3. \A g \in Flows : SeenSame(g)
  BY <1>2 DEF SeenSame, WishSeen, GrantSeen, QuoteSeen, WishOf, Contents, Content, flowVars
<1>4. /\ [g \in Flows |-> WishSeen(g)]' = [g \in Flows |-> WishSeen(g)]
      /\ [g \in Flows |-> GrantSeen(g)]' = [g \in Flows |-> GrantSeen(g)]
      /\ [g \in Flows |-> QuoteSeen(g)]' = [g \in Flows |-> QuoteSeen(g)]
      /\ [g \in Flows |-> outcome[g] = "ok"]' = [g \in Flows |-> outcome[g] = "ok"]
      /\ Contents(pool)' = Contents(pool) /\ next' = next
  BY <1>2, <1>3 DEF SeenSame, Contents, Content
<1>5. doc[f] \in GetMempool <=> Promise!Ordered(f) \in Contents(pool)
  <2>1. /\ Promise!Ordered(f) = Content(doc[f]) /\ doc[f] \in SignedTransactions
        /\ Sender(doc[f]) = From(f) /\ From(f) \in Accounts
    BY <1>2, OrderedIs, WishIs
  <2>2. doc[f] \in GetMempool <=> doc[f] \in pool
    BY DEF GetMempool, Queued, Pending
  <2>3. ASSUME NEW s \in pool, Content(s) = Content(doc[f]) PROVE s = doc[f]
    BY <2>1, <2>3, PoolHasSenders, ContentTells
  <2> QED BY <2>1, <2>2, <2>3 DEF Contents
<1>6. [g \in Flows |-> QuoteSeen(g)][f] # Promise!NoQuote
  <2>1. QuoteSeen(f) # Promise!NoQuote
    BY <1>2, QuoteIs DEF Quoted, Promise!NoQuote
  <2> QED BY <2>1
<1>7. told' = [told EXCEPT ![f] = IF Promise!Ordered(f) \in Contents(pool)
                                  THEN "listed" ELSE "missing"]
  BY <1>2, <1>5
<1> QED BY <1>4, <1>6, <1>7 DEF Promise!Tell

(* Geth mines and drops transfers.                                         *)
LEMMA GethStepMaps ==
    ASSUME Inv, Mine \/ Evict
    PROVE  Promise!Mine \/ Promise!Evict
<1>1. UNCHANGED <<flowVars, told, saw>>
  BY DEF Mine, Evict
<1>2. \A g \in Flows : SeenSame(g)
  BY <1>1 DEF SeenSame, WishSeen, GrantSeen, QuoteSeen, WishOf, Contents, Content, flowVars
<1>3. /\ [g \in Flows |-> WishSeen(g)]' = [g \in Flows |-> WishSeen(g)]
      /\ [g \in Flows |-> GrantSeen(g)]' = [g \in Flows |-> GrantSeen(g)]
      /\ [g \in Flows |-> QuoteSeen(g)]' = [g \in Flows |-> QuoteSeen(g)]
      /\ [g \in Flows |-> outcome[g] = "ok"]' = [g \in Flows |-> outcome[g] = "ok"]
  BY <1>2 DEF SeenSame
<1>4. ASSUME NEW s \in pool, pool' = pool \ {s}
      PROVE  /\ Content(s) \in Contents(pool)
             /\ Contents(pool)' = Contents(pool) \ {Content(s)}
  <2>1. Contents(pool \ {s}) = Contents(pool) \ Contents({s})
    BY <1>4, ContentsWithout
  <2>2. Contents({s}) = {Content(s)} /\ Content(s) \in Contents(pool)
    BY DEF Contents
  <2>3. Contents(pool)' = Contents(pool \ {s})
    BY <1>4 DEF Contents, Content
  <2> QED BY <2>1, <2>2, <2>3
<1>5. CASE Mine
  <2>1. PICK s \in pool : /\ s.body.nonce = next[Sender(s)] /\ pool' = pool \ {s}
                          /\ next' = [next EXCEPT ![Sender(s)] = @ + 1]
    BY <1>5 DEF Mine
  <2>2. Content(s).from = Sender(s) /\ Content(s).nonce = s.body.nonce
    BY DEF Content
  <2>3. \E t \in Contents(pool) :
           /\ t.nonce = next[t.from]
           /\ Contents(pool)' = Contents(pool) \ {t}
           /\ next' = [next EXCEPT ![t.from] = @ + 1]
    BY <1>4, <2>1, <2>2
  <2> QED BY <1>1, <1>3, <2>3 DEF Promise!Mine
<1>6. CASE Evict
  <2>1. PICK s \in pool : pool' = pool \ {s}
    BY <1>6 DEF Evict
  <2>2. \E t \in Contents(pool) : Contents(pool)' = Contents(pool) \ {t}
    BY <1>4, <2>1
  <2>3. UNCHANGED next
    BY <1>6 DEF Evict
  <2> QED BY <1>1, <1>3, <2>2, <2>3 DEF Promise!Evict
<1> QED BY <1>5, <1>6

-----------------------------------------------------------------------------
(* Nothing has been wished.                                                *)
LEMMA InitIsEmpty == Init => Promise!Init
<1> SUFFICES ASSUME Init PROVE Promise!Init
  OBVIOUS
<1>1. \A f \in Flows : /\ WishSeen(f) = Promise!NoWish /\ GrantSeen(f) = Promise!NoGrant
                       /\ QuoteSeen(f) = Promise!NoQuote /\ (outcome[f] = "ok") = FALSE
  BY DEF Init, WishSeen, GrantSeen, QuoteSeen, Quoted, Promise!NoWish, Promise!NoGrant,
         Promise!NoQuote
<1>2. Contents(pool) = {} /\ next = [a \in Accounts |-> 0] /\ told = [f \in Flows |-> "nothing"]
  BY DEF Init, Contents
<1> QED BY <1>1, <1>2 DEF Promise!Init

(* Every step is one of TransferPool, or not seen.                         *)
LEMMA StepIsPromised == Inv /\ [Next]_vars => [Promise!Next]_(Promise!poolVars)
<1> SUFFICES ASSUME Inv, [Next]_vars PROVE [Promise!Next]_(Promise!poolVars)
  OBVIOUS
<1>1. ASSUME NEW f \in Flows, FlowStep(f) PROVE [Promise!Next]_(Promise!poolVars)
  <2>1. \/ UNCHANGED Promise!poolVars
        \/ Promise!Wish(f) \/ Promise!Grant(f) \/ Promise!Withdraw(f) \/ Promise!Quote(f)
        \/ Promise!Accept(f) \/ Promise!Tell(f)
    BY <1>1, SilentSteps, BeginWishes, ReadNonceGrants, ReadPriceQuotes, SubmitAccepts,
       LookTells DEF FlowStep
  <2> QED BY <2>1 DEF Promise!Next
<1>2. ASSUME Mine \/ Evict PROVE Promise!Next
  BY <1>2, GethStepMaps DEF Promise!Next
<1>3. CASE UNCHANGED vars
  <2>1. \A f \in Flows : SeenSame(f)
    BY <1>3 DEF vars, flowVars, gethVars, SeenSame, WishSeen, GrantSeen, QuoteSeen, WishOf,
                Contents, Content
  <2> QED BY <1>3, <2>1, SeenStutter DEF vars, gethVars
<1> QED BY <1>1, <1>2, <1>3 DEF Next

(* The construction API keeps its promise, for any number of clients,      *)
(* accounts, intents and prices: every behaviour of its calls, their       *)
(* retries, the signers and geth is, seen from geth's pool, one of         *)
(* TransferPool (construction_service.go:68-484, client.go:1594-1620).     *)
THEOREM ConstructionKeepsPromise == Spec => KeepsPromise
BY InitIsEmpty, StepIsPromised, ConstructionInvariant, PTL DEF Spec, KeepsPromise, Promise!Spec
=============================================================================
