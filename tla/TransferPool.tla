----------------------------- MODULE TransferPool -----------------------------
(***************************************************************************)
(* What the construction API promises to clients that use it at once: the  *)
(* abstract specification that Construction implements.  It knows neither  *)
(* documents nor signatures, only wishes and transfers.                    *)
(*                                                                         *)
(*  - A transfer in the pool is what one client wished, with the nonce and *)
(*    the price it was given; a wish whose sides differ never gets there.  *)
(*  - The nonce is the first that was free when it was given, and what the *)
(*    transfer replaces was not in the pool at that time.                  *)
(*  - The fee that the client is told is what the transfer can cost,       *)
(*    unless that is too much for an int64.                                *)
(*  - A client that is told of success has its transfer in the pool at     *)
(*    that moment; whether it is listed or missing is true when told.      *)
(***************************************************************************)
EXTENDS Integers

CONSTANTS
    Flows,
    Accounts,
    Nobody,
    Wishes,              \* what clients may wish
    Prices,
    TransferGasLimit,
    MaxInt

VARIABLES
    wish,        \* wish[f]: from whom to whom, what is spent and what arrives
    grant,       \* grant[f]: the nonce, and the pool when it was given
    quote,       \* quote[f]: the price, and the fee that f is told
    pool,        \* transfers that wait
    next,        \* next[a]: the first nonce of a that is not used up
    told,        \* told[f]: whether its transfer is in the pool
    accepted     \* accepted[f]: f was told that its transfer was taken

poolVars == <<wish, grant, quote, pool, next, told, accepted>>

NoWish  == [from |-> Nobody, to |-> Nobody, spends |-> 0, gets |-> 0]
NoGrant == [nonce |-> -1, saw |-> {}]
NoQuote == [price |-> -1, fee |-> 0]

Init ==
    /\ wish = [f \in Flows |-> NoWish]
    /\ grant = [f \in Flows |-> NoGrant]
    /\ quote = [f \in Flows |-> NoQuote]
    /\ pool = {}
    /\ next = [a \in Accounts |-> 0]
    /\ told = [f \in Flows |-> "nothing"]
    /\ accepted = [f \in Flows |-> FALSE]

Wish(f) ==
    /\ wish[f] = NoWish
    /\ \E w \in Wishes : wish' = [wish EXCEPT ![f] = w]
    /\ UNCHANGED <<grant, quote, pool, next, told, accepted>>

Taken(a, n) == \E t \in pool : t.from = a /\ t.nonce = n

FirstFree(a, n) ==
    /\ n >= next[a]
    /\ ~Taken(a, n)
    /\ \A m \in next[a]..(n - 1) : Taken(a, m)

(* A nonce may be given anew as long as there is no price,                 *)
Grant(f) ==
    /\ wish[f] # NoWish
    /\ quote[f] = NoQuote
    /\ LET a == wish[f].from
       IN  \E n \in {next[a]} \cup {t.nonce + 1 : t \in pool} :
              /\ FirstFree(a, n)
              /\ grant' = [grant EXCEPT ![f] = [nonce |-> n, saw |-> pool]]
    /\ UNCHANGED <<wish, quote, pool, next, told, accepted>>

(* or be given up.                                                         *)
Withdraw(f) ==
    /\ quote[f] = NoQuote
    /\ grant' = [grant EXCEPT ![f] = NoGrant]
    /\ UNCHANGED <<wish, quote, pool, next, told, accepted>>

Quote(f) ==
    /\ grant[f] # NoGrant
    /\ quote[f] = NoQuote
    /\ \E p \in Prices, fee \in -(MaxInt + 1)..MaxInt :
          /\ fee = p * TransferGasLimit \/ p * TransferGasLimit > MaxInt
          /\ quote' = [quote EXCEPT ![f] = [price |-> p, fee |-> fee]]
    /\ UNCHANGED <<wish, grant, pool, next, told, accepted>>

Ordered(f) ==
    [from |-> wish[f].from, to |-> wish[f].to, value |-> wish[f].gets,
     nonce |-> grant[f].nonce, price |-> quote[f].price]

InItsPlace(t) == {u \in pool : u.from = t.from /\ u.nonce = t.nonce}

(* The transfer of f gets into the pool; f may not be told of it.          *)
Accept(f) ==
    /\ quote[f] # NoQuote
    /\ wish[f].spends = wish[f].gets
    /\ ~accepted[f]
    /\ LET t == Ordered(f)
       IN  /\ t.nonce >= next[t.from]
           /\ \A u \in InItsPlace(t) : u.price < t.price /\ u \notin grant[f].saw
           /\ pool' = (pool \ InItsPlace(t)) \cup {t}
    /\ accepted' \in {accepted, [accepted EXCEPT ![f] = TRUE]}
    /\ UNCHANGED <<wish, grant, quote, next, told>>

Tell(f) ==
    /\ quote[f] # NoQuote
    /\ told' = [told EXCEPT ![f] = IF Ordered(f) \in pool THEN "listed" ELSE "missing"]
    /\ UNCHANGED <<wish, grant, quote, pool, next, accepted>>

Mine ==
    /\ \E t \in pool :
          /\ t.nonce = next[t.from]
          /\ pool' = pool \ {t}
          /\ next' = [next EXCEPT ![t.from] = @ + 1]
    /\ UNCHANGED <<wish, grant, quote, told, accepted>>

Evict ==
    /\ \E t \in pool : pool' = pool \ {t}
    /\ UNCHANGED <<wish, grant, quote, next, told, accepted>>

Next ==
    \/ \E f \in Flows :
          Wish(f) \/ Grant(f) \/ Withdraw(f) \/ Quote(f) \/ Accept(f) \/ Tell(f)
    \/ Mine
    \/ Evict

Spec == Init /\ [][Next]_poolVars
=============================================================================
