-------------------------------- MODULE Totals --------------------------------
(***************************************************************************)
(* What a reader of a block adds up: the amounts that its operations book  *)
(* for one account.                                                        *)
(***************************************************************************)
EXTENDS Integers, Sequences

Total(amounts) ==
    LET sum[i \in 0..Len(amounts)] ==
            IF i = 0 THEN 0 ELSE sum[i-1] + amounts[i]
    IN  sum[Len(amounts)]

(* Operations that failed book nothing.                                    *)
Credit(op, a) == IF op.account = a /\ op.status = "SUCCESS" THEN op.amount ELSE 0

Credits(list, a) == [i \in 1..Len(list) |-> Credit(list[i], a)]
=============================================================================
