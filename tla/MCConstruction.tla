---- MODULE MCConstruction ----
(* Flows of one sender that may overlap, and one of another. *)
EXTENDS Construction

CONSTANTS alice, bob

Written(a, spelling, amount) ==
    [address |-> [account |-> a, spelling |-> spelling], amount |-> amount]

Pays(a, b, spelling, debit, credit) ==
    <<Written(a, "checksum", -debit), Written(b, spelling, credit)>>

(* Good ones: of both senders, in the other order, all lower case.         *)
GoodIntents == {
    Pays(alice, bob, "plain", 1, 1),
    <<Written(alice, "checksum", 1), Written(bob, "checksum", -1)>>}

(* An amount that does not fit, two that do not match, a wrong checksum.   *)
OddIntents == {
    Pays(alice, bob, "checksum", MaxBig + 1, MaxBig + 1),
    Pays(alice, bob, "checksum", 2, 1),
    Pays(alice, bob, "mistyped", 1, 1)}

(* No transfer, and no address.                                            *)
BadIntents == {
    <<Written(alice, "checksum", 1), Written(bob, "checksum", 1)>>,
    Pays(alice, bob, "garbage", 1, 1)}

MCIntents == GoodIntents \cup OddIntents \cup BadIntents
====
