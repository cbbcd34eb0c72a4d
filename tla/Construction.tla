----------------------------- MODULE Construction -----------------------------
(***************************************************************************)
(* The construction API: the flows of several clients, from the operations *)
(* they write to a transaction in geth's pool.  The service keeps nothing  *)
(* between two calls: a client carries its documents from one to the next, *)
(* sends each call to an online or an offline process, and shares with the *)
(* others geth, whose nonces, prices and pool change between any two calls.*)
(*                                                                         *)
(* The client is outside the repository.  It makes the calls in the order  *)
(* of construction_service_test.go; it compares what Parse reports with    *)
(* the operations it wrote, always before it submits and sometimes before  *)
(* it signs; it may hand any signature to Combine, a strange document to   *)
(* Parse, and may repeat a call that failed.                               *)
(***************************************************************************)
EXTENDS TransferDocs, FiniteSets

CONSTANTS
    Flows,             \* the clients' flows
    Intents,           \* the operations that clients write
    Prices,            \* gas prices that geth suggests
    Malformed,         \* a signature of a wrong length
    Invalid            \* one of the right length, whose numbers are not those
                       \* of any signature

ASSUME ConstructionAssumption ==
    /\ Intents \subseteq Seq(Operations)
    /\ Prices \subseteq 0..MaxBig
    /\ Malformed \notin Signatures
    /\ Invalid \notin Signatures

VARIABLES
    stage,        \* stage[f]: the next step of f
    outcome,      \* outcome[f]: of its last call
    ops,          \* ops[f]: the operations that its client wrote
    doc,          \* doc[f]: the document to be handed on: the options, the
                  \* unsigned or the signed transaction
    nonce,        \* nonce[f]: read by Metadata for f
    quote,        \* quote[f]: the metadata, and the suggested fee
    payload,      \* payload[f]: what its client is asked to sign
    signatures,   \* all signatures made so far
    told,         \* told[f]: what /mempool last told of its transaction
    pool,         \* geth: transactions that wait to be mined
    next,         \* geth: next[a]: the first nonce of a that is not used up
    saw,          \* history: saw[f]: the pool when f was given its nonce
    displaced,    \* history: displaced[f]: what its transaction replaced
    astray        \* history: the flows whose client handed Combine another
                  \* signature than it was asked for, or Parse another document

flowVars == <<stage, outcome, ops, doc, nonce, quote, payload>>
gethVars == <<pool, next>>
vars == <<flowVars, signatures, told, gethVars, saw, displaced, astray>>

Stages == {"idle", "preprocess", "metadata", "price", "payloads", "confirm",
           "sign", "combine", "check", "submit"}

(* "going", or the error of the last call; "aborted": the handler panicked *)
(* and no response was sent; "refused": the client did not find its        *)
(* operations in the transaction.                                          *)
Outcomes == {"going", "unclear", "address", "unparsable", "unavailable", "geth",
             "broadcast", "aborted", "refused", "ok"}

(* A call that failed this way may be made again.                          *)
Going(f) == outcome[f] \in {"going", "unavailable", "geth", "broadcast"}

At(f, s) == stage[f] = s /\ Going(f)

Init ==
    /\ stage = [f \in Flows |-> "idle"]
    /\ outcome = [f \in Flows |-> "going"]
    /\ ops = [f \in Flows |-> <<>>]
    /\ doc = [f \in Flows |-> <<>>]
    /\ nonce = [f \in Flows |-> 0]
    /\ quote = [f \in Flows |-> <<>>]
    /\ payload = [f \in Flows |-> <<>>]
    /\ signatures = {}
    /\ told = [f \in Flows |-> "nothing"]
    /\ pool = {}
    /\ next = [a \in Accounts |-> 0]
    /\ saw = [f \in Flows |-> {}]
    /\ displaced = [f \in Flows |-> {}]
    /\ astray = {}

(* The call fails: nothing is handed on.                                   *)
Fails(f, code) ==
    /\ outcome' = [outcome EXCEPT ![f] = code]
    /\ UNCHANGED <<stage, ops, doc, nonce, quote, payload>>

(* The call succeeds, or the client is content, and f goes on.             *)
Passes(f, s) ==
    /\ stage' = [stage EXCEPT ![f] = s]
    /\ outcome' = [outcome EXCEPT ![f] = "going"]

HandsOn(f, d) == doc' = [doc EXCEPT ![f] = d]

ElsewhereUnchanged == UNCHANGED <<signatures, told, gethVars, saw, displaced, astray>>

-----------------------------------------------------------------------------
Begin(f) ==
    /\ At(f, "idle")
    /\ \E o \in Intents : ops' = [ops EXCEPT ![f] = o]
    /\ Passes(f, "preprocess")
    /\ UNCHANGED <<doc, nonce, quote, payload>> /\ ElsewhereUnchanged

(* What Preprocess and Payloads have against operations.                   *)
Objection(o) ==
    IF ~Clear(o) THEN "unclear"
    ELSE IF IsAddress(Debit(o).address) /\ IsAddress(Credit(o).address) THEN "none"
    ELSE "address"

Preprocess(f) ==
    /\ At(f, "preprocess")
    /\ IF Objection(ops[f]) # "none"
       THEN Fails(f, Objection(ops[f]))
       ELSE /\ HandsOn(f, ChecksumAddress(Debit(ops[f]).address))
            /\ Passes(f, "metadata")
            /\ UNCHANGED <<ops, nonce, quote, payload>>
    /\ ElsewhereUnchanged

-----------------------------------------------------------------------------
Taken(a, n) == \E s \in pool : Sender(s) = a /\ s.body.nonce = n

(* Mutant: PendingNonceAt asks for the "latest" state.                     *)
IsLatestNonce(a, n) == n = next[a]

(* Geth: the first nonce of a for which there is no transaction, neither   *)
(* in a block nor in the pool.                                             *)
IsPendingNonce(a, n) ==
    /\ ~Taken(a, n)
    /\ \A m \in next[a]..(n - 1) : Taken(a, m)

(* The process that a call is sent to.  Only an online one makes a client  *)
(* of geth (run.go:88); the calls that need it look at the mode first.     *)
Modes == {"online", "offline"}
HasClient(mode) == mode = "online"
Unavailable(mode) == mode # "online"
Served(mode) == HasClient(mode) /\ ~Unavailable(mode)

(* Without a client the call is not made; without the look at the mode it  *)
(* would be, of a nil pointer.                                             *)
NotServed(f, mode) ==
    /\ ~Served(mode)
    /\ Fails(f, IF Unavailable(mode) THEN "unavailable" ELSE "aborted")

(* Metadata: first the nonce,                                              *)
ReadNonce(f) ==
    /\ At(f, "metadata")
    /\ \E mode \in Modes :
          \/ /\ NotServed(f, mode) \/ (Served(mode) /\ Fails(f, "geth"))
             /\ UNCHANGED saw
          \/ /\ Served(mode)
             /\ LET a == doc[f].account
                IN  \E n \in next[a]..(next[a] + Cardinality(pool)) :
                       /\ IsPendingNonce(a, n)
                       /\ nonce' = [nonce EXCEPT ![f] = n]
             /\ saw' = [saw EXCEPT ![f] = pool]
             /\ Passes(f, "price")
             /\ UNCHANGED <<ops, doc, quote, payload>>
    /\ UNCHANGED <<signatures, told, gethVars, displaced, astray>>

(* then the price; a call that failed is made again from its beginning.    *)
ReadPrice(f) ==
    /\ At(f, "price")
    /\ \/ /\ stage' = [stage EXCEPT ![f] = "metadata"]
          /\ outcome' = [outcome EXCEPT ![f] = "geth"]
          /\ UNCHANGED quote
       \/ /\ \E p \in Prices :
                quote' = [quote EXCEPT ![f] =
                             [metadata |-> EncodeMetadata(nonce[f], p),
                              fee |-> SuggestedFee(p)]]
          /\ Passes(f, "payloads")
    /\ UNCHANGED <<ops, doc, nonce, payload>> /\ ElsewhereUnchanged

-----------------------------------------------------------------------------
(* The payload names the key that is to sign and what is to be signed; the *)
(* signature that the client makes is then the same record.                *)
Payloads(f) ==
    /\ At(f, "payloads")
    /\ IF Objection(ops[f]) # "none"
       THEN Fails(f, Objection(ops[f]))
       ELSE LET t == Transfer(ops[f], DecodeMetadata(quote[f].metadata))
            IN  /\ HandsOn(f, EncodeTransaction(t))
                /\ payload' = [payload EXCEPT ![f] =
                                  [key |-> t.from.account, body |-> Body(t)]]
                /\ Passes(f, "confirm")
                /\ UNCHANGED <<ops, nonce, quote>>
    /\ ElsewhereUnchanged

(* Parse, of the unsigned transaction.                                     *)
Confirm(f) ==
    /\ At(f, "confirm")
    /\ CASE ~Fits(doc[f].value) -> Fails(f, "unparsable")
         [] Fits(doc[f].value) /\ ~SameTransfer(ops[f], ParseUnsigned(doc[f])) ->
              Fails(f, "refused")
         [] Fits(doc[f].value) /\ SameTransfer(ops[f], ParseUnsigned(doc[f])) ->
              /\ Passes(f, "sign")
              /\ UNCHANGED <<ops, doc, nonce, quote, payload>>
    /\ ElsewhereUnchanged

Sign(f) ==
    /\ At(f, "confirm") \/ At(f, "sign")
    /\ signatures' = signatures \cup {payload[f]}
    /\ Passes(f, "combine")
    /\ UNCHANGED <<ops, doc, nonce, quote, payload, told, gethVars, saw, displaced, astray>>

(* The length of a signature is looked at by nobody before WithSignature,  *)
(* which panics on a wrong one; its numbers are not looked at here.        *)
Combine(f) ==
    /\ At(f, "combine")
    /\ \E sig \in signatures \cup {Malformed, Invalid} :
          /\ astray' = IF sig = payload[f] THEN astray ELSE astray \cup {f}
          /\ CASE ~Fits(doc[f].value) -> Fails(f, "unparsable")
               [] Fits(doc[f].value) /\ sig = Malformed -> Fails(f, "aborted")
               [] Fits(doc[f].value) /\ sig # Malformed ->
                    /\ HandsOn(f, [body |-> Body(DecodeTransaction(doc[f])),
                                   signature |-> sig])
                    /\ Passes(f, "check")
                    /\ UNCHANGED <<ops, nonce, quote, payload>>
    /\ UNCHANGED <<signatures, told, gethVars, saw, displaced>>

(* Parse, of the signed transaction.  That of another's making may have no *)
(* recipient, and none is a nil pointer that is read.                      *)
Check(f) ==
    /\ At(f, "check")
    /\ \/ /\ Fails(f, "aborted")
          /\ astray' = astray \cup {f}
       \/ /\ CASE doc[f].signature = Invalid -> Fails(f, "unparsable")
               [] doc[f].signature # Invalid /\ ~SameTransfer(ops[f], ParseSigned(doc[f])) ->
                    Fails(f, "refused")
               [] doc[f].signature # Invalid /\ SameTransfer(ops[f], ParseSigned(doc[f])) ->
                    /\ Passes(f, "submit")
                    /\ UNCHANGED <<ops, doc, nonce, quote, payload>>
          /\ UNCHANGED astray
    /\ UNCHANGED <<signatures, told, gethVars, saw, displaced>>

-----------------------------------------------------------------------------
(* Geth's pool: what has the same sender and nonce as s, and whether s     *)
(* gets in.                                                                *)
Rivals(s) == {p \in pool : Sender(p) = Sender(s) /\ p.body.nonce = s.body.nonce}

Acceptable(s) ==
    /\ Sender(s) # Nobody
    /\ s.body.nonce >= next[Sender(s)]
    /\ \A p \in Rivals(s) : s.body.gasPrice > p.body.gasPrice

Accept(f) ==
    /\ Acceptable(doc[f])
    /\ pool' = (pool \ Rivals(doc[f])) \cup {doc[f]}
    /\ displaced' = [displaced EXCEPT ![f] = @ \cup Rivals(doc[f])]

(* Mutant: the error of SendTransaction is not looked at.                  *)
SubmitSwallowed(f) ==
    /\ At(f, "submit")
    /\ \E mode \in Modes :
          \/ /\ NotServed(f, mode) \/ (Served(mode) /\ Fails(f, "ok"))
             /\ UNCHANGED <<pool, displaced>>
          \/ /\ Served(mode)
             /\ Accept(f)
             /\ Fails(f, "ok")
    /\ UNCHANGED <<signatures, told, next, saw, astray>>

(* SendTransaction.  Geth may have other reasons to reject the transaction,*)
(* or may not be reached, or take it and its reply be lost: the last two   *)
(* are the same error.                                                     *)
Submit(f) ==
    /\ At(f, "submit")
    /\ \E mode \in Modes :
          \/ /\ NotServed(f, mode) \/ (Served(mode) /\ Fails(f, "broadcast"))
             /\ UNCHANGED <<pool, displaced>>
          \/ /\ Served(mode)
             /\ Accept(f)
             /\ Fails(f, "broadcast") \/ Fails(f, "ok")
    /\ UNCHANGED <<signatures, told, next, saw, astray>>

(* txpool_content: the transactions that can be mined in the order of      *)
(* their nonces, and those that wait for one in between.                   *)
Pending ==
    {s \in pool : \A m \in next[Sender(s)]..s.body.nonce : Taken(Sender(s), m)}
Queued == pool \ Pending

GetMempool == Pending \cup Queued

(* The client looks for its transaction in /mempool of an online process.  *)
Look(f) ==
    /\ stage[f] = "submit"
    /\ told' = [told EXCEPT ![f] =
                   IF doc[f] \in GetMempool THEN "listed" ELSE "missing"]
    /\ UNCHANGED <<flowVars, signatures, gethVars, saw, displaced, astray>>

(* Geth: a transaction gets into a block,                                  *)
Mine ==
    /\ \E s \in pool :
          /\ s.body.nonce = next[Sender(s)]
          /\ pool' = pool \ {s}
          /\ next' = [next EXCEPT ![Sender(s)] = @ + 1]
    /\ UNCHANGED <<flowVars, signatures, told, saw, displaced, astray>>

(* or is dropped, by its age or price.                                     *)
Evict ==
    /\ \E s \in pool : pool' = pool \ {s}
    /\ UNCHANGED <<flowVars, signatures, told, next, saw, displaced, astray>>

-----------------------------------------------------------------------------
FlowStep(f) ==
    \/ Begin(f) \/ Preprocess(f) \/ ReadNonce(f) \/ ReadPrice(f) \/ Payloads(f)
    \/ Confirm(f) \/ Sign(f) \/ Combine(f) \/ Check(f) \/ Submit(f) \/ Look(f)

Next == (\E f \in Flows : FlowStep(f)) \/ Mine \/ Evict

Spec == Init /\ [][Next]_vars

-----------------------------------------------------------------------------
(* From these stages on a flow has its quote, its unsigned transaction,    *)
(* its signed transaction.                                                 *)
Quoted == {"payloads", "confirm", "sign", "combine", "check", "submit"}
Unsigned == {"confirm", "sign", "combine"}
Combined == {"check", "submit"}

ConstructionTypeOK ==
    /\ stage \in [Flows -> Stages]
    /\ outcome \in [Flows -> Outcomes]
    /\ nonce \in [Flows -> Nat]
    /\ told \in [Flows -> {"nothing", "listed", "missing"}]
    /\ signatures \subseteq Signatures
    /\ pool \subseteq SignedTransactions
    /\ next \in [Accounts -> Nat]
    /\ saw \in [Flows -> SUBSET SignedTransactions]
    /\ displaced \in [Flows -> SUBSET SignedTransactions]
    /\ astray \subseteq Flows
    /\ \A f \in Flows :
          /\ stage[f] # "idle" => ops[f] \in Intents
          /\ stage[f] \in {"metadata", "price", "payloads"} => doc[f] \in Addresses
          /\ stage[f] \in Quoted => quote[f].fee \in -(MaxInt + 1)..MaxInt
          /\ stage[f] = "check" =>
                doc[f] \in [body : Bodies, signature : Signatures \cup {Invalid}]
          /\ stage[f] = "submit" => doc[f] \in SignedTransactions

Intended(f, s) ==
    /\ stage[f] = "submit"
    /\ Clear(ops[f]) /\ Balanced(ops[f])
    /\ Sender(s) = Debit(ops[f]).address.account
    /\ s.body.to = Credit(ops[f]).address.account
    /\ s.body.value = Credit(ops[f]).amount
    /\ s.body.nonce = nonce[f]
    /\ quote[f].fee = s.body.gasPrice * TransferGasLimit
       \/ s.body.gasPrice * TransferGasLimit > MaxInt

(* What geth accepts is the transfer that some client wrote down, to the   *)
(* last digit, from the account it named, with the nonce that Metadata     *)
(* read for it and for no more than the fee it suggested, unless that      *)
(* overflows: whatever flows overlap, whoever's signature is combined with *)
(* whose transaction, and although the two amounts of an intent need not   *)
(* match (construction_service.go:68-484).                                 *)
AcceptedIsIntended == \A s \in pool : \E f \in Flows : Intended(f, s)

(* A transaction replaces another in the pool only if that was not there   *)
(* yet when Metadata read the nonce: flows of one sender that follow each  *)
(* other never get in each other's way (construction_service.go:154).      *)
DisplacedWasConcurrent == \A f \in Flows : displaced[f] \cap saw[f] = {}

(* A client that writes a transfer of one amount, not above 256 bits,      *)
(* between two addresses in whatever spelling,                             *)
Sound(o) ==
    /\ Clear(o) /\ Balanced(o) /\ Credit(o).amount <= MaxBig
    /\ IsAddress(Debit(o).address) /\ IsAddress(Credit(o).address)

(* and hands each call what the one before gave it, and its signature of   *)
(* what it was asked to sign, is never stopped on its way: no call finds   *)
(* fault with its operations, none fails to read what another wrote, none  *)
(* crashes, to whichever process it is sent, and its transaction never     *)
(* shows it other operations than its own, wherever nonces, prices and the *)
(* other flows have gone meanwhile.  It only ever has to repeat a call     *)
(* (construction_service.go:68-484, types.go:70-219).                      *)
SoundFlowGoesOn ==
    \A f \in Flows : stage[f] # "idle" /\ Sound(ops[f]) /\ f \notin astray =>
        Going(f) \/ outcome[f] = "ok"

(* What TransferPool sees of a flow, and of a signed transaction.          *)
WishOf(o) ==
    [from |-> Debit(o).address.account, to |-> Credit(o).address.account,
     spends |-> -Debit(o).amount, gets |-> Credit(o).amount]

WishSeen(f) ==
    IF stage[f] # "idle" /\ Clear(ops[f]) THEN WishOf(ops[f])
    ELSE [from |-> Nobody, to |-> Nobody, spends |-> 0, gets |-> 0]

Content(s) ==
    [from |-> Sender(s), to |-> s.body.to, value |-> s.body.value,
     nonce |-> s.body.nonce, price |-> s.body.gasPrice]

Contents(S) == {Content(s) : s \in S}

GrantSeen(f) ==
    IF stage[f] \in Quoted \cup {"price"}
    THEN [nonce |-> nonce[f], saw |-> Contents(saw[f])]
    ELSE [nonce |-> -1, saw |-> {}]

QuoteSeen(f) ==
    IF stage[f] \in Quoted
    THEN [price |-> Unhex(quote[f].metadata.gasPrice), fee |-> quote[f].fee]
    ELSE [price |-> -1, fee |-> 0]

Promise == INSTANCE TransferPool
    WITH Wishes   <- {WishOf(o) : o \in {i \in Intents : Clear(i)}},
         wish     <- [f \in Flows |-> WishSeen(f)],
         grant    <- [f \in Flows |-> GrantSeen(f)],
         quote    <- [f \in Flows |-> QuoteSeen(f)],
         pool     <- Contents(pool),
         accepted <- [f \in Flows |-> outcome[f] = "ok"]

(* Ten calls, documents in JSON, signatures made elsewhere, retries, and   *)
(* other clients in between: all that geth's pool sees of it is a nonce, a *)
(* price, and then, in one step, the transfer that the client wished       *)
(* (construction_service.go:68-484).                                       *)
KeepsPromise == Promise!Spec

(* "Stateless, offline, curve-based transaction construction (with address *)
(* checksum validation)" (README.md:91): an address with a wrong checksum  *)
(* does not get into a transaction.                                        *)
ChecksumsAreValidated ==
    \A f \in Flows : stage[f] \in Quoted =>
        \A i \in 1..2 : ops[f][i].address.spelling # "mistyped"
=============================================================================
