----------------------------- MODULE PaymentProofs -----------------------------
(***************************************************************************)
(* What a block pays besides the transfers.  For every transaction, of     *)
(* whatever type and price, the fee operations book what the protocol      *)
(* charges; for every block of a network that seals with ethash, the       *)
(* reward operations book what the protocol pays, to the last wei.         *)
(*                                                                         *)
(* Totals are sums over lists of any length: the first part proves what    *)
(* they need, by induction.  The library states induction for an operator; *)
(* here it is stated for a set, which every nonempty set of naturals       *)
(* having a least element gives.                                           *)
(***************************************************************************)
EXTENDS FeeOps, BlockReward, Totals, TLAPS, SequenceTheorems, FiniteSetTheorems

(* Every nonempty set of naturals has a least element.                     *)
LEMMA LeastNatural ==
    ASSUME NEW T \in SUBSET Nat, T # {}
    PROVE  \E m \in T : \A k \in T : m <= k
<1> DEFINE R == {ss \in Nat \X Nat : ss[1] < ss[2]}
<1>1. IsWellFoundedOn(R, Nat)
  BY NatLessThanWellFounded DEF OpToRel
<1>2. ASSUME NEW x \in Nat, NEW y \in Nat, y < x PROVE <<y, x>> \in R
  <2> DEFINE yx == <<y, x>>
  <2>1. yx \in Nat \X Nat /\ yx[1] = y /\ yx[2] = x
    OBVIOUS
  <2> HIDE DEF yx
  <2>2. yx \in R
    BY <2>1, <1>2
  <2> QED BY <2>2 DEF yx
<1> HIDE DEF R
<1>3. PICK m \in T : \A k \in T : ~(<<k, m>> \in R)
  BY <1>1, WFMin
<1>4. ASSUME NEW k \in T PROVE m <= k
  <2>1. m \in Nat /\ k \in Nat /\ ~(k < m)
    BY <1>2, <1>3
  <2> QED BY <2>1
<1> QED BY <1>4

(* Induction: a set with 0 and the successor of each of its elements below *)
(* m holds all of 0..m.                                                    *)
LEMMA Upward ==
    ASSUME NEW m \in Nat, NEW T, 0 \in T, \A i \in 1..m : i - 1 \in T => i \in T
    PROVE  0..m \subseteq T
<1> DEFINE U == (0..m) \ T
<1> SUFFICES ASSUME U # {} PROVE FALSE
  OBVIOUS
<1>1. U \in SUBSET Nat
  OBVIOUS
<1> HIDE DEF U
<1>2. PICK k \in U : \A j \in U : k <= j
  BY <1>1, LeastNatural
<1>3. k \in 1..m /\ k - 1 \in 0..m /\ k - 1 \notin U
  BY <1>2 DEF U
<1>4. k \in T
  BY <1>3 DEF U
<1> QED BY <1>2, <1>4 DEF U

(* A function over 0..m that starts with b and whose later values come from *)
(* the ones before them.                                                   *)
Recursive(g, m, b, F) == g[0] = b /\ \A i \in 1..m : g[i] = F[i][g[i-1]]

(* There is such a function.                                               *)
LEMMA Recursion ==
    ASSUME NEW m \in Nat, NEW S, NEW b \in S, NEW F \in [1..m -> [S -> S]]
    PROVE  \E g \in [0..m -> S] : Recursive(g, m, b, F)
<1> DEFINE Good(n, g) == Recursive(g, n, b, F)
           T == {n \in 0..m : \E g \in [0..n -> S] : Good(n, g)}
<1>0. \A n \in 0..m : (\E g \in [0..n -> S] : Good(n, g)) => n \in T
  OBVIOUS
<1>1. 0 \in T
  <2> DEFINE g == [i \in 0..0 |-> b]
  <2>1. g \in [0..0 -> S] /\ Good(0, g)
    BY DEF Recursive
  <2> HIDE DEF g, Good, T
  <2> QED BY <1>0, <2>1
<1>2. ASSUME NEW n \in 1..m, n - 1 \in T PROVE n \in T
  <2>1. PICK g \in [0..(n-1) -> S] : Good(n - 1, g)
    <3> HIDE DEF Good
    <3> QED BY <1>2
  <2> DEFINE h == [i \in 0..n |-> IF i = n THEN F[n][g[n-1]] ELSE g[i]]
  <2>2. F[n][g[n-1]] \in S
    BY <2>1
  <2>3. h \in [0..n -> S]
    BY <2>2
  <2>4. \A i \in 0..n : h[i] = IF i = n THEN F[n][g[n-1]] ELSE g[i]
    OBVIOUS
  <2> HIDE DEF h
  <2>5. Good(n, h)
    BY <2>1, <2>4 DEF Recursive
  <2> HIDE DEF Good, T
  <2> QED BY <1>0, <2>3, <2>5
<1> HIDE DEF T
<1>3. 0..m \subseteq T
  BY <1>1, <1>2, Upward
<1>4. m \in T
  BY <1>3
<1> QED BY <1>4 DEF T

(* The partial sums of a list of amounts.                                  *)
LEMMA TotalUnfolds ==
    ASSUME NEW s \in Seq(Int)
    PROVE  \E sum \in [0..Len(s) -> Int] :
              /\ sum[0] = 0
              /\ \A i \in 1..Len(s) : sum[i] = sum[i-1] + s[i]
              /\ Total(s) = sum[Len(s)]
<1> DEFINE n == Len(s)
           Sums(f) == f = [i \in 0..n |-> IF i = 0 THEN 0 ELSE f[i-1] + s[i]]
           F == [i \in 1..n |-> [x \in Int |-> x + s[i]]]
<1>1. n \in Nat /\ \A i \in 1..n : s[i] \in Int
  BY LenProperties, ElementOfSeq
<1>2. F \in [1..n -> [Int -> Int]]
  BY <1>1
<1>3. \E f \in [0..n -> Int] : f[0] = 0 /\ \A i \in 1..n : f[i] = F[i][f[i-1]]
  <2> DEFINE Z == Int
             zero == 0
  <2>1. n \in Nat /\ zero \in Z /\ F \in [1..n -> [Z -> Z]]
    BY <1>1, <1>2
  <2> HIDE DEF F, n, Z, zero
  <2>2. \E f \in [0..n -> Z] : Recursive(f, n, zero, F)
    BY <2>1, Recursion
  <2> QED BY <2>2 DEF Z, zero, Recursive
<1>4. PICK f \in [0..n -> Int] : f[0] = 0 /\ \A i \in 1..n : f[i] = F[i][f[i-1]]
  BY <1>3
<1>5. Sums(f)
  <2>1. ASSUME NEW i \in 0..n PROVE f[i] = IF i = 0 THEN 0 ELSE f[i-1] + s[i]
    <3>1. CASE i = 0
      BY <1>4, <3>1
    <3>2. CASE i \in 1..n
      <4>1. f[i-1] \in Int
        BY <3>2
      <4> QED BY <1>4, <3>2, <4>1
    <3> QED BY <1>1, <3>1, <3>2
  <2>2. f = [i \in 0..n |-> f[i]]
    OBVIOUS
  <2> QED BY <2>1, <2>2
<1>6. ASSUME NEW g, Sums(g)
      PROVE  /\ g \in [0..n -> Int]
             /\ g[0] = 0 /\ \A i \in 1..n : g[i] = g[i-1] + s[i]
  <2> DEFINE T == {i \in 0..n : g[i] \in Int}
  <2>1. \A i \in 0..n : g[i] = IF i = 0 THEN 0 ELSE g[i-1] + s[i]
    BY <1>6
  <2>2. 0 \in T /\ \A i \in 1..n : i - 1 \in T => i \in T
    BY <2>1, <1>1
  <2> HIDE DEF T
  <2>3. 0..n \subseteq T
    BY <1>1, <2>2, Upward
  <2>4. \A i \in 0..n : g[i] \in Int
    BY <2>3 DEF T
  <2>5. g \in [0..n -> Int]
    BY <1>6, <2>4
  <2>6. g[0] = 0 /\ \A i \in 1..n : g[i] = g[i-1] + s[i]
    BY <1>1, <2>1
  <2> QED BY <2>5, <2>6
<1>7. Sums(CHOOSE g : Sums(g))
  <2> HIDE DEF Sums
  <2> QED BY <1>5
<1>8. Total(s) = (CHOOSE g : Sums(g))[n]
  BY DEF Total
<1> DEFINE sum == CHOOSE g : Sums(g)
<1> HIDE DEF F, Sums, sum
<1>9. /\ sum \in [0..n -> Int] /\ sum[0] = 0
      /\ \A i \in 1..n : sum[i] = sum[i-1] + s[i]
      /\ Total(s) = sum[n]
  BY <1>6, <1>7, <1>8 DEF sum
<1> QED BY <1>9

(* The total is the last of the partial sums, however they are given.      *)
LEMMA TotalIs ==
    ASSUME NEW s \in Seq(Int), NEW g \in [0..Len(s) -> Int], g[0] = 0,
           \A i \in 1..Len(s) : g[i] = g[i-1] + s[i]
    PROVE  Total(s) = g[Len(s)]
<1>1. PICK f \in [0..Len(s) -> Int] :
         /\ f[0] = 0
         /\ \A i \in 1..Len(s) : f[i] = f[i-1] + s[i]
         /\ Total(s) = f[Len(s)]
  BY TotalUnfolds
<1> DEFINE T == {i \in 0..Len(s) : f[i] = g[i]}
<1>2. Len(s) \in Nat
  BY LenProperties
<1>3. 0 \in T /\ \A i \in 1..Len(s) : i - 1 \in T => i \in T
  BY <1>1, <1>2
<1> HIDE DEF T
<1>4. 0..Len(s) \subseteq T
  BY <1>2, <1>3, Upward
<1>5. Len(s) \in T
  BY <1>2, <1>4
<1> QED BY <1>1, <1>5 DEF T

(* Whole numbers add up to one.                                            *)
LEMMA TotalTyped ==
    ASSUME NEW s \in Seq(Int)
    PROVE  Total(s) \in Int
<1>1. Len(s) \in 0..Len(s)
  BY LenProperties
<1> QED BY <1>1, TotalUnfolds

(* Nothing adds up to zero.                                                *)
LEMMA TotalEmpty == Total(<<>>) = 0
<1>1. <<>> \in Seq(Int) /\ Len(<<>>) = 0
  BY EmptySeq
<1> QED BY <1>1, TotalUnfolds

(* Totals of two lists add up.                                             *)
LEMMA TotalConcat ==
    ASSUME NEW s \in Seq(Int), NEW t \in Seq(Int)
    PROVE  Total(s \o t) = Total(s) + Total(t)
<1> DEFINE n == Len(s)
           m == Len(t)
<1>1. n \in Nat /\ m \in Nat
  BY LenProperties
<1>2. PICK f \in [0..n -> Int] :
         f[0] = 0 /\ (\A i \in 1..n : f[i] = f[i-1] + s[i]) /\ Total(s) = f[n]
  BY TotalUnfolds
<1>3. PICK h \in [0..m -> Int] :
         h[0] = 0 /\ (\A i \in 1..m : h[i] = h[i-1] + t[i]) /\ Total(t) = h[m]
  BY TotalUnfolds
<1>4. /\ s \o t \in Seq(Int) /\ Len(s \o t) = n + m
      /\ \A i \in 1..n + m : (s \o t)[i] = IF i <= n THEN s[i] ELSE t[i - n]
  BY ConcatProperties
<1> DEFINE g == [i \in 0..(n + m) |-> IF i <= n THEN f[i] ELSE f[n] + h[i - n]]
<1> HIDE DEF n, m
<1>5. \A i \in 0..(n + m) : g[i] = IF i <= n THEN f[i] ELSE f[n] + h[i - n]
  OBVIOUS
<1>6. g \in [0..(n + m) -> Int]
  BY <1>1, <1>2, <1>3
<1> HIDE DEF g
<1>7. ASSUME NEW k \in 0..m PROVE g[n + k] = f[n] + h[k]
  <2>1. n + k \in 0..(n + m) /\ f[n] \in Int
    BY <1>1, <1>2
  <2>2. CASE k = 0
    BY <2>1, <2>2, <1>1, <1>3, <1>5
  <2>3. CASE k # 0
    <3>1. ~(n + k <= n) /\ n + k - n = k
      BY <2>3, <1>1
    <3> QED BY <2>1, <3>1, <1>1, <1>5
  <2> QED BY <2>2, <2>3
<1>8. ASSUME NEW i \in 1..(n + m) PROVE g[i] = g[i-1] + (s \o t)[i]
  <2>1. CASE i <= n
    BY <2>1, <1>1, <1>2, <1>4, <1>5
  <2>2. CASE ~(i <= n)
    <3> DEFINE j == i - n
    <3>1. j \in 1..m /\ i = n + j
      BY <2>2, <1>1
    <3> HIDE DEF j
    <3>2. /\ j \in 0..m /\ j - 1 \in 0..m /\ i - 1 = n + (j - 1) /\ i - n = j
          /\ f[n] \in Int /\ h[j] \in Int /\ h[j-1] \in Int
      BY <3>1, <1>1, <1>2, <1>3
    <3>3. g[i] = f[n] + h[j] /\ g[i-1] = f[n] + h[j-1]
      BY <3>1, <3>2, <1>7
    <3>4. (s \o t)[i] = t[j] /\ h[j] = h[j-1] + t[j]
      BY <3>1, <3>2, <2>2, <1>3, <1>4
    <3>5. t[j] \in Int
      BY <3>1, ElementOfSeq DEF m
    <3>6. \A u, v, w \in Int : u + (v + w) = u + v + w
      OBVIOUS
    <3>7. f[n] + (h[j-1] + t[j]) = f[n] + h[j-1] + t[j]
      BY <3>2, <3>5, <3>6
    <3> QED BY <3>3, <3>4, <3>7
  <2> QED BY <2>1, <2>2
<1>10. g[0] = 0 /\ g[n + m] = f[n] + h[m]
  BY <1>1, <1>2, <1>5, <1>7
<1>9. Total(s \o t) = g[n + m]
  BY <1>4, <1>6, <1>8, <1>10, TotalIs
<1> QED BY <1>2, <1>3, <1>9, <1>10

(* A list of one amount, and of two.                                       *)
LEMMA TotalOfOne ==
    ASSUME NEW x \in Int
    PROVE  Total(<<x>>) = x
<1>1. /\ <<x>> \in Seq(Int) /\ Len(<<x>>) = 1 /\ <<x>>[1] = x
  OBVIOUS
<1>2. PICK f \in [0..1 -> Int] :
         /\ f[0] = 0
         /\ \A i \in 1..1 : f[i] = f[i-1] + <<x>>[i]
         /\ Total(<<x>>) = f[1]
  BY <1>1, TotalUnfolds
<1> QED BY <1>1, <1>2

(* One more amount.                                                        *)
LEMMA TotalAppend ==
    ASSUME NEW s \in Seq(Int), NEW x \in Int
    PROVE  Total(Append(s, x)) = Total(s) + x
<1>1. Append(s, x) = s \o <<x>> /\ <<x>> \in Seq(Int)
  BY AppendIsConcat
<1> QED BY <1>1, TotalConcat, TotalOfOne

(* What a list books for an account is the sum over its parts.             *)
LEMMA CreditsTyped ==
    ASSUME NEW S, NEW a, \A op \in S : Credit(op, a) \in Int, NEW list \in Seq(S)
    PROVE  Credits(list, a) \in Seq(Int) /\ Len(Credits(list, a)) = Len(list)
<1>1. Len(list) \in Nat /\ \A i \in 1..Len(list) : Credit(list[i], a) \in Int
  BY LenProperties, ElementOfSeq
<1> QED BY <1>1, LenProperties DEF Credits

(* What two lists book adds up.                                            *)
LEMMA CreditsConcat ==
    ASSUME NEW S, NEW a, \A op \in S : Credit(op, a) \in Int,
           NEW list \in Seq(S), NEW more \in Seq(S)
    PROVE  Total(Credits(list \o more, a)) = Total(Credits(list, a)) + Total(Credits(more, a))
<1> DEFINE c == Credits(list, a)
           d == Credits(more, a)
           e == Credits(list \o more, a)
<1>1. /\ list \o more \in Seq(S) /\ Len(list) \in Nat /\ Len(more) \in Nat
      /\ Len(list \o more) = Len(list) + Len(more)
      /\ \A i \in 1..Len(list) + Len(more) :
            (list \o more)[i] = IF i <= Len(list) THEN list[i] ELSE more[i - Len(list)]
  BY ConcatProperties, LenProperties
<1>2. /\ c \in Seq(Int) /\ Len(c) = Len(list)
      /\ d \in Seq(Int) /\ Len(d) = Len(more)
      /\ e \in Seq(Int) /\ Len(e) = Len(list) + Len(more)
  BY <1>1, CreditsTyped
<1>3. /\ \A i \in 1..Len(list) : c[i] = Credit(list[i], a)
      /\ \A i \in 1..Len(more) : d[i] = Credit(more[i], a)
      /\ \A i \in 1..Len(list) + Len(more) : e[i] = Credit((list \o more)[i], a)
  BY <1>1 DEF Credits
<1> HIDE DEF c, d, e
<1>4. c \o d \in Seq(Int) /\ Len(c \o d) = Len(c) + Len(d)
      /\ \A i \in 1..Len(c) + Len(d) : (c \o d)[i] = IF i <= Len(c) THEN c[i] ELSE d[i - Len(c)]
  <2>1. c \in Seq(Int) /\ d \in Seq(Int)
    BY <1>2
  <2> QED BY <2>1, ConcatProperties
<1>5. ASSUME NEW i \in 1..Len(e) PROVE e[i] = (c \o d)[i]
  <2>1. CASE i <= Len(list)
    BY <2>1, <1>1, <1>2, <1>3, <1>4
  <2>2. CASE ~(i <= Len(list))
    <3>1. i - Len(list) \in 1..Len(more)
      BY <2>2, <1>1, <1>2
    <3> QED BY <3>1, <2>2, <1>1, <1>2, <1>3, <1>4
  <2> QED BY <2>1, <2>2
<1>6. e = c \o d
  BY <1>2, <1>4, <1>5, SeqEqual
<1> QED BY <1>2, <1>6, TotalConcat DEF c, d, e

-----------------------------------------------------------------------------
(* Multiplication distributes over the split of the price.                 *)
LEMMA SplitProduct ==
    ASSUME NEW g \in Nat, NEW p \in Int, NEW b \in Int
    PROVE  g * p - g * b = g * (p - b)
OBVIOUS

(* A third operation after two.                                            *)
LEMMA AppendThird ==
    ASSUME NEW S, NEW two \in Seq(S), NEW z \in S, Len(two) = 2
    PROVE  /\ Len(Append(two, z)) = 3
           /\ Append(two, z)[1] = two[1]
           /\ Append(two, z)[2] = two[2]
           /\ Append(two, z)[3] = z
<1> DEFINE three == Append(two, z)
<1>1. /\ Len(three) = Len(two) + 1
      /\ \A i \in 1..Len(two) : three[i] = two[i]
      /\ three[Len(two) + 1] = z
  BY AppendProperties
<1> HIDE DEF three
<1>2. Len(three) = 3 /\ three[1] = two[1] /\ three[2] = two[2] /\ three[3] = z
  BY <1>1
<1> QED BY <1>2 DEF three

(* The price the code computes is the one the protocol charges, and covers *)
(* the base fee.                                                           *)
LEMMA PriceIsRight ==
    ASSUME NEW u, IsGasUse(u)
    PROVE  /\ effectiveGasPrice(u) \in Nat
           /\ effectiveGasPrice(u) = IF u.type = 2
                                     THEN Least(u.tipCap + u.baseFee, u.feeCap)
                                     ELSE u.gasPrice
           /\ u.baseFee # NoFee => effectiveGasPrice(u) >= u.baseFee
BY DEF IsGasUse, effectiveGasPrice, Least

(* What the sender is charged, split into what is burned and what the miner *)
(* earns.                                                                  *)
LEMMA FeeSplit ==
    ASSUME NEW u, IsGasUse(u)
    PROVE  /\ FeeAmount(u) = ChargedToSender(u) /\ FeeAmount(u) \in Nat
           /\ u.baseFee = NoFee => FeeBurned(u) = NoFee /\ FeeAmount(u) = PaidToMiner(u)
           /\ u.baseFee # NoFee =>
                 /\ FeeBurned(u) \in Nat /\ FeeBurned(u) # NoFee
                 /\ FeeAmount(u) - FeeBurned(u) = PaidToMiner(u)
<1> DEFINE price == effectiveGasPrice(u)
<1>0. u.gasUsed \in Nat /\ u.baseFee \in Nat \cup {NoFee}
  BY DEF IsGasUse
<1>1. /\ price \in Nat
      /\ price = IF u.type = 2 THEN Least(u.tipCap + u.baseFee, u.feeCap)
                 ELSE u.gasPrice
  BY PriceIsRight
<1>2. FeeAmount(u) = ChargedToSender(u) /\ FeeAmount(u) \in Nat
  <2>1. FeeAmount(u) = u.gasUsed * price
    BY DEF FeeAmount
  <2>2. ChargedToSender(u) = u.gasUsed * price
    BY <1>1 DEF ChargedToSender
  <2> HIDE DEF price
  <2> QED BY <2>1, <2>2, <1>0, <1>1
<1>3. CASE u.baseFee = NoFee
  <2>1. FeeBurned(u) = NoFee /\ u.type # 2
    BY <1>3 DEF FeeBurned, IsGasUse
  <2>2. FeeAmount(u) = PaidToMiner(u)
    BY <1>3, <2>1 DEF FeeAmount, PaidToMiner, effectiveGasPrice
  <2> QED BY <1>2, <1>3, <2>1, <2>2
<1>4. CASE u.baseFee # NoFee
  <2>1. /\ FeeBurned(u) = u.gasUsed * u.baseFee
        /\ FeeBurned(u) \in Nat /\ FeeBurned(u) # NoFee
    BY <1>0, <1>4, FeeAssumption DEF FeeBurned
  <2>2. PaidToMiner(u) = u.gasUsed * (price - u.baseFee)
    BY <1>4 DEF PaidToMiner, IsGasUse, effectiveGasPrice, Least
  <2>3. FeeAmount(u) - FeeBurned(u) = PaidToMiner(u)
    <3>1. FeeAmount(u) = u.gasUsed * price
      BY DEF FeeAmount
    <3> HIDE DEF price
    <3>2. u.gasUsed * price - u.gasUsed * u.baseFee = u.gasUsed * (price - u.baseFee)
      BY <1>0, <1>1, <1>4, SplitProduct
    <3> QED BY <3>1, <3>2, <2>1, <2>2
  <2> QED BY <1>2, <1>4, <2>1, <2>3
<1> QED BY <1>3, <1>4

(* The sender's operations add up to what it is charged, and the miner's   *)
(* is what it is paid (client.go:500-534, 935-996).                        *)
THEOREM FeesAreCharged ==
    ASSUME NEW u, NEW sender, NEW miner, IsGasUse(u)
    PROVE  LET ops == feeOps(u, sender, miner)
           IN  /\ Len(ops) = IF u.baseFee = NoFee THEN 2 ELSE 3
               /\ ops[1].account = sender /\ ops[2].account = miner
               /\ ops[2].amount = PaidToMiner(u)
               /\ u.baseFee = NoFee => ops[1].amount = -ChargedToSender(u)
               /\ u.baseFee # NoFee =>
                     /\ ops[3].account = sender
                     /\ ops[1].amount + ops[3].amount = -ChargedToSender(u)
<1>1. CASE u.baseFee = NoFee
  <2>1. feeOps(u, sender, miner) =
          <<FeeOp(0, {}, sender, -FeeAmount(u)), FeeOp(1, {0}, miner, FeeAmount(u))>>
    BY <1>1, FeeSplit DEF feeOps
  <2> QED BY <1>1, <2>1, FeeSplit DEF FeeOp
<1>2. CASE u.baseFee # NoFee
  <2> DEFINE earned  == FeeAmount(u) - FeeBurned(u)
             toMiner == FeeOp(0, {}, sender, -earned)
             byMiner == FeeOp(1, {0}, miner, earned)
             burn    == FeeOp(2, {}, sender, -FeeBurned(u))
             two     == <<toMiner, byMiner>>
  <2>1. feeOps(u, sender, miner) = Append(two, burn)
    BY <1>2, FeeSplit DEF feeOps
  <2>2. /\ Len(feeOps(u, sender, miner)) = 3
        /\ feeOps(u, sender, miner)[1] = toMiner
        /\ feeOps(u, sender, miner)[2] = byMiner
        /\ feeOps(u, sender, miner)[3] = burn
    <3> HIDE DEF toMiner, byMiner, burn
    <3>1. /\ two \in Seq({toMiner, byMiner, burn}) /\ Len(two) = 2
          /\ two[1] = toMiner /\ two[2] = byMiner
      OBVIOUS
    <3> HIDE DEF two
    <3> QED BY <2>1, <3>1, AppendThird
  <2>3. /\ toMiner.account = sender /\ toMiner.amount = -earned
        /\ byMiner.account = miner /\ byMiner.amount = earned
        /\ burn.account = sender /\ burn.amount = -FeeBurned(u)
    BY DEF FeeOp
  <2>4. earned = PaidToMiner(u) /\ -earned + -FeeBurned(u) = -ChargedToSender(u)
    BY <1>2, FeeSplit
  <2> HIDE DEF toMiner, byMiner, burn, earned
  <2> QED BY <1>2, <2>2, <2>3, <2>4
<1> QED BY <1>1, <1>2

(* What a list of two or of three operations books.                        *)
LEMMA CreditsOfTwo ==
    ASSUME NEW a, NEW p, NEW q, Credit(p, a) \in Int, Credit(q, a) \in Int
    PROVE  Total(Credits(<<p, q>>, a)) = Credit(p, a) + Credit(q, a)
<1> DEFINE c == Credits(<<p, q>>, a)
<1>1. c = Append(<<Credit(p, a)>>, Credit(q, a))
  BY DEF Credits
<1>2. <<Credit(p, a)>> \in Seq(Int)
  OBVIOUS
<1>3. Total(Append(<<Credit(p, a)>>, Credit(q, a))) = Total(<<Credit(p, a)>>) + Credit(q, a)
  BY <1>2, TotalAppend
<1> QED BY <1>1, <1>3, TotalOfOne

(* What one more operation books.                                          *)
LEMMA CreditsAppend ==
    ASSUME NEW S, NEW a, \A op \in S : Credit(op, a) \in Int,
           NEW list \in Seq(S), NEW op \in S
    PROVE  Total(Credits(Append(list, op), a)) = Total(Credits(list, a)) + Credit(op, a)
<1>1. Append(list, op) = list \o <<op>> /\ <<op>> \in Seq(S)
  BY AppendIsConcat
<1>2. Total(Credits(<<op>>, a)) = Credit(op, a)
  <2>1. Credits(<<op>>, a) = <<Credit(op, a)>>
    BY DEF Credits
  <2> QED BY <2>1, TotalOfOne
<1> QED BY <1>1, <1>2, CreditsConcat

(* What a reader adds up from the fee operations is, for every account,    *)
(* what the protocol takes from it and gives to it (client.go:500-534,     *)
(* 935-996), also when the sender mines its own transaction.               *)
THEOREM FeesBooked ==
    ASSUME NEW u, NEW sender, NEW miner, NEW a, IsGasUse(u)
    PROVE  /\ ChargedToSender(u) \in Int /\ PaidToMiner(u) \in Int
           /\ Total(Credits(feeOps(u, sender, miner), a)) =
                 (IF a = miner THEN PaidToMiner(u) ELSE 0)
                 - (IF a = sender THEN ChargedToSender(u) ELSE 0)
<1>1. CASE u.baseFee = NoFee
  <2> DEFINE x == FeeAmount(u)
             p == FeeOp(0, {}, sender, -x)
             q == FeeOp(1, {0}, miner, x)
  <2>1. feeOps(u, sender, miner) = <<p, q>>
    BY <1>1, FeeSplit DEF feeOps
  <2>2. x \in Nat /\ x = ChargedToSender(u) /\ x = PaidToMiner(u)
    BY <1>1, FeeSplit
  <2> HIDE DEF x
  <2>3. /\ Credit(p, a) = (IF a = sender THEN -x ELSE 0) /\ Credit(p, a) \in Int
        /\ Credit(q, a) = (IF a = miner THEN x ELSE 0) /\ Credit(q, a) \in Int
    BY <2>2 DEF Credit, FeeOp
  <2> HIDE DEF p, q
  <2>4. Total(Credits(<<p, q>>, a)) = Credit(p, a) + Credit(q, a)
    BY <2>3, CreditsOfTwo
  <2> QED BY <2>1, <2>2, <2>3, <2>4
<1>2. CASE u.baseFee # NoFee
  <2> DEFINE x == FeeAmount(u) - FeeBurned(u)
             y == FeeBurned(u)
             p == FeeOp(0, {}, sender, -x)
             q == FeeOp(1, {0}, miner, x)
             r == FeeOp(2, {}, sender, -y)
  <2>1. feeOps(u, sender, miner) = Append(<<p, q>>, r)
    BY <1>2, FeeSplit DEF feeOps
  <2>2. y \in Nat /\ x \in Int /\ x = PaidToMiner(u) /\ x + y = ChargedToSender(u)
    BY <1>2, FeeSplit
  <2> HIDE DEF x, y
  <2>3. /\ Credit(p, a) = (IF a = sender THEN -x ELSE 0) /\ Credit(p, a) \in Int
        /\ Credit(q, a) = (IF a = miner THEN x ELSE 0) /\ Credit(q, a) \in Int
        /\ Credit(r, a) = (IF a = sender THEN -y ELSE 0) /\ Credit(r, a) \in Int
    BY <2>2 DEF Credit, FeeOp
  <2> HIDE DEF p, q, r
  <2>4. Total(Credits(<<p, q>>, a)) = Credit(p, a) + Credit(q, a)
    BY <2>3, CreditsOfTwo
  <2>5. Total(Credits(Append(<<p, q>>, r), a)) = Total(Credits(<<p, q>>, a)) + Credit(r, a)
    <3> DEFINE S == {p, q, r}
    <3>1. <<p, q>> \in Seq(S) /\ r \in S /\ \A op \in S : Credit(op, a) \in Int
      BY <2>3
    <3> HIDE DEF S
    <3> QED BY <3>1, CreditsAppend
  <2> QED BY <2>1, <2>2, <2>3, <2>4, <2>5
<1> QED BY <1>1, <1>2

-----------------------------------------------------------------------------
(* Every reward of the schedule can be divided by 32 and by 8.             *)
LEMMA RewardIsWhole ==
    ASSUME NEW n \in Int
    PROVE  /\ miningReward(n) \in Nat
           /\ miningReward(n) = 32 * (miningReward(n) \div 32)
           /\ miningReward(n) = 8 * (miningReward(n) \div 8)
<1>1. miningReward(n) \in {FrontierReward, ByzantiumReward, ConstantinopleReward}
  BY RewardAssumption DEF miningReward
<1>2. \A w \in Nat : w % 32 = 0 => w = 32 * (w \div 32) /\ w = 8 * (w \div 8)
  OBVIOUS
<1> QED BY <1>1, <1>2, RewardAssumption

(* A product can be divided by its factor.                                 *)
LEMMA DivideLast ==
    ASSUME NEW a \in Int, NEW k \in Int, NEW d \in Nat \ {0}
    PROVE  (a * (d * k)) \div d = a * k
<1> DEFINE b == a * k
<1>1. b \in Int /\ a * (d * k) = d * b
  OBVIOUS
<1> HIDE DEF b
<1>2. (d * b) \div d = b
  BY <1>1
<1> QED BY <1>1, <1>2 DEF b

(* What the code books is a whole number.                                  *)
LEMMA RewardTyped ==
    ASSUME NEW h, IsHeader(h)
    PROVE  /\ MinerReward(h) \in Int
           /\ \A i \in 1..Len(h.uncles) : UncleReward(h, i) \in Int
<1>1. h.number \in Int /\ Len(h.uncles) \in Int /\ miningReward(h.number) \in Int
  BY RewardIsWhole DEF IsHeader
<1>2. MinerReward(h) \in Int
  <2> DEFINE x == Len(h.uncles) * miningReward(h.number)
  <2>1. x \in Int
    BY <1>1
  <2> HIDE DEF x
  <2>2. x \div 32 \in Int
    BY <2>1
  <2> QED BY <1>1, <2>2 DEF MinerReward, x
<1>3. ASSUME NEW i \in 1..Len(h.uncles) PROVE UncleReward(h, i) \in Int
  <2>1. h.uncles[i].number \in Int /\ miningReward(h.number) \div MaxUncleDepth \in Int
    BY <1>1, <1>3 DEF IsHeader, MaxUncleDepth
  <2> DEFINE x == h.uncles[i].number + MaxUncleDepth - h.number
             y == miningReward(h.number) \div MaxUncleDepth
  <2>2. x \in Int /\ y \in Int
    BY <1>1, <2>1 DEF MaxUncleDepth
  <2> HIDE DEF x, y
  <2>3. x * y \in Int
    BY <2>2
  <2> QED BY <2>3 DEF UncleReward, x, y
<1> QED BY <1>2, <1>3

(* The operations of a block (client.go:1281-1349) pay the coinbase and    *)
(* every uncle what accumulateRewards gives them.                          *)
THEOREM RewardsArePaid ==
    ASSUME NEW h, IsHeader(h), h.engine = "ethash"
    PROVE  /\ MinerReward(h) = PaidToCoinbase(h)
           /\ \A i \in 1..Len(h.uncles) : UncleReward(h, i) = PaidToUncle(h, i)
<1> DEFINE r == miningReward(h.number)
<1>1. h.number \in Int /\ r \in Nat /\ r = 32 * (r \div 32) /\ r = 8 * (r \div 8)
  BY RewardIsWhole DEF IsHeader
<1> HIDE DEF r
<1>2. MinerReward(h) = PaidToCoinbase(h)
  <2> DEFINE n == Len(h.uncles)
             k == r \div 32
  <2>1. n \in Int /\ k \in Int /\ r = 32 * k
    BY <1>1
  <2> HIDE DEF n, k
  <2>2. (n * r) \div 32 = n * k
    BY <2>1, DivideLast
  <2> QED BY <2>2 DEF MinerReward, PaidToCoinbase, n, k, r
<1>3. ASSUME NEW i \in 1..Len(h.uncles) PROVE UncleReward(h, i) = PaidToUncle(h, i)
  <2> DEFINE a == h.uncles[i].number + 8 - h.number
             k == r \div 8
  <2>1. a \in Int /\ k \in Int /\ r = 8 * k
    BY <1>1, <1>3 DEF IsHeader
  <2> HIDE DEF a, k
  <2>2. (a * r) \div 8 = a * k
    BY <2>1, DivideLast
  <2> QED BY <2>2 DEF UncleReward, PaidToUncle, MaxUncleDepth, a, k, r
<1> QED BY <1>2, <1>3

(* What a reader adds up from the reward operations of a block is, for     *)
(* every account, what the protocol pays to it as the miner of the block   *)
(* or of its uncles (client.go:1281-1349).                                 *)
THEOREM RewardsBooked ==
    ASSUME NEW h, NEW a, IsHeader(h), h.engine = "ethash"
    PROVE  /\ Total(Credits(blockRewardOps(h), a)) = Total(Rewards(h, a))
           /\ Total(Rewards(h, a)) \in Int
<1> DEFINE n == Len(h.uncles)
           first  == <<RewardOp(0, "MINER_REWARD", h.coinbase, MinerReward(h))>>
           uncles == [i \in 1..n |->
                        RewardOp(i, "UNCLE_REWARD", h.uncles[i].miner, UncleReward(h, i))]
           paid   == [i \in 1..n |-> IF h.uncles[i].miner = a THEN PaidToUncle(h, i) ELSE 0]
           own    == IF a = h.coinbase THEN PaidToCoinbase(h) ELSE 0
<1>1. /\ n \in Nat /\ MinerReward(h) = PaidToCoinbase(h)
      /\ \A i \in 1..n : UncleReward(h, i) = PaidToUncle(h, i)
  BY RewardsArePaid DEF IsHeader
<1>2. MinerReward(h) \in Int /\ \A i \in 1..n : UncleReward(h, i) \in Int
  BY RewardTyped
<1>3. blockRewardOps(h) = first \o uncles /\ Rewards(h, a) = <<own>> \o paid
  BY DEF blockRewardOps, Rewards
<1>4. own \in Int /\ paid \in Seq(Int)
  BY <1>1, <1>2
<1>5. Credits(first, a) = <<own>>
  BY <1>1 DEF Credits, Credit, RewardOp
<1>6. Credits(uncles, a) = paid
  <2>1. Len(uncles) = n
    BY <1>1
  <2>2. \A i \in 1..n : Credit(uncles[i], a) = paid[i]
    BY <1>1 DEF Credit, RewardOp
  <2> QED BY <2>1, <2>2 DEF Credits
<1>7. Total(Credits(first \o uncles, a)) = Total(Credits(first, a)) + Total(Credits(uncles, a))
  <2> DEFINE S == {first[1]} \cup {uncles[i] : i \in 1..n}
  <2>1. \A op \in S : Credit(op, a) \in Int
    <3>1. Credit(first[1], a) \in Int
      BY <1>2 DEF Credit, RewardOp
    <3>2. \A i \in 1..n : Credit(uncles[i], a) \in Int
      BY <1>2 DEF Credit, RewardOp
    <3> HIDE DEF first, uncles
    <3> QED BY <3>1, <3>2
  <2>2. first \in Seq(S) /\ uncles \in Seq(S)
    BY <1>1
  <2> HIDE DEF S, first, uncles
  <2> QED BY <2>1, <2>2, CreditsConcat
<1> HIDE DEF first, uncles, paid, own
<1>8. Total(<<own>> \o paid) = Total(<<own>>) + Total(paid)
  <2>1. <<own>> \in Seq(Int)
    BY <1>4
  <2> QED BY <1>4, <2>1, TotalConcat
<1>9. Total(<<own>> \o paid) \in Int
  <2>1. <<own>> \o paid \in Seq(Int)
    BY <1>4
  <2> QED BY <2>1, TotalTyped
<1> QED BY <1>3, <1>5, <1>6, <1>7, <1>8, <1>9
=============================================================================
