----------------------------- MODULE FlattenProofs -----------------------------
(***************************************************************************)
(* flattenTraces descends into the decoded tree of calls and returns them  *)
(* in the order they began, each reverted if it or one around it failed:   *)
(* what LedgerTracksBalances takes traceOps's argument for.  The proof of  *)
(* FlattenedAsVisited, for trees of any depth and width.                   *)
(*                                                                         *)
(* The argument: the EVM begins and ends calls like a stack, so the calls  *)
(* inside of call i are those from i to some last one (Nested).  Going     *)
(* down from the last call of the list to the first, the activation for    *)
(* call i returns exactly that part of the list: its loop over the calls   *)
(* that i made covers the part from left to right, one child's part after  *)
(* the other, and a failure that is handed down reaches all of a part.     *)
(***************************************************************************)
EXTENDS FlattenTraces, EvmLedgerProofs

(* How the calls of a list lie in each other: those around a call came     *)
(* before it, each inside of the ones before, and what began between a     *)
(* call and one that is inside of it is inside of it too.                  *)
Nested(list) ==
    \A j \in 1..Len(list) :
        /\ list[j].within \subseteq 1..(j-1)
        /\ j > 1 => 1 \in list[j].within
        /\ \A k \in list[j].within :
              /\ list[j].within \cap 1..(k-1) = list[k].within
              /\ \A m \in (k+1)..j : k \in list[m].within

(* Call m is call i or inside of it.                                       *)
Inside(list, i, m) == m = i \/ i \in list[m].within

(* The last call inside of call i.                                         *)
IsLast(list, i, l) ==
    l \in i..Len(list) /\ \A m \in 1..Len(list) : Inside(list, i, m) <=> m \in i..l
Last(list, i) == CHOOSE l : IsLast(list, i, l)

(* Call m failed, or one around it from call i on.                         *)
FailedFrom(list, i, m) == \E k \in {m} \cup list[m].within : k >= i /\ list[k].error

(* What the calls from i to e are flattened to.                            *)
Part(list, i, e, revert) ==
    [k \in 1..(e - i + 1) |->
        Flat(list[i + k - 1], revert \/ FailedFrom(list, i, i + k - 1))]

(* Call i, and what is inside of those of its own calls that began before  *)
(* j or are call j.                                                        *)
Covered(list, i, j) ==
    {m \in 1..Len(list) : m = i \/ \E c \in Made(list, i) : c <= j /\ Inside(list, c, m)}

(* The calls inside of call i, with i, are those up to the first that is   *)
(* not.                                                                    *)
LEMMA HasLast ==
    ASSUME NEW list \in Seq(TracedCall), Nested(list), NEW i \in 1..Len(list)
    PROVE  IsLast(list, i, Last(list, i))
<1>1. Len(list) \in Nat
  BY LenProperties
<1> DEFINE Out == {m \in (i+1)..(Len(list)+1) : m = Len(list) + 1 \/ ~Inside(list, i, m)}
<1>2. Out \in SUBSET Nat /\ Out # {}
  BY <1>1
<1>3. \A m \in 1..Len(list) : m < i => ~Inside(list, i, m)
  BY <1>1 DEF Nested, Inside
<1>4. \A m \in 1..Len(list), k \in 1..Len(list) :
          i < k /\ k <= m /\ Inside(list, i, m) => Inside(list, i, k)
  BY <1>1 DEF Nested, Inside
<1>5. \A m \in (i+1)..(Len(list)+1) : m \in Out <=> m = Len(list) + 1 \/ ~Inside(list, i, m)
  OBVIOUS
<1> HIDE DEF Out
<1>6. PICK o \in Out : \A m \in Out : o <= m
  BY <1>2, LeastNatural
<1>7. o \in (i+1)..(Len(list)+1)
  BY <1>6 DEF Out
<1>8. IsLast(list, i, o - 1)
  <2>1. o - 1 \in i..Len(list)
    BY <1>1, <1>7
  <2>2. ASSUME NEW m \in 1..Len(list), m \in i..(o-1) PROVE Inside(list, i, m)
    <3>1. CASE m = i
      BY <3>1 DEF Inside
    <3>2. CASE m # i
      <4>1. m \in (i+1)..(Len(list)+1) /\ ~(o <= m) /\ m # Len(list) + 1
        BY <1>1, <1>7, <2>2, <3>2
      <4> QED BY <1>5, <1>6, <4>1
    <3> QED BY <3>1, <3>2
  <2>3. ASSUME NEW m \in 1..Len(list), Inside(list, i, m) PROVE m \in i..(o-1)
    <3>1. m >= i
      BY <1>1, <1>3, <2>3
    <3>2. ASSUME m >= o PROVE FALSE
      <4>1. o \in 1..Len(list) /\ i < o /\ o <= m /\ o # Len(list) + 1
        BY <1>1, <1>7, <3>2
      <4>2. Inside(list, i, o)
        BY <1>4, <2>3, <4>1
      <4> QED BY <1>5, <1>6, <1>7, <4>1, <4>2
    <3> QED BY <1>1, <1>7, <3>1, <3>2
  <2> QED BY <2>1, <2>2, <2>3 DEF IsLast
<1> QED BY <1>8 DEF Last

(* A call inside of call i is inside of one of the calls that i made.      *)
LEMMA HasMaker ==
    ASSUME NEW list \in Seq(TracedCall), Nested(list), NEW i \in 1..Len(list),
           NEW m \in 1..Len(list), i \in list[m].within
    PROVE  \E c \in Made(list, i) : i < c /\ c <= m /\ Inside(list, c, m)
<1>1. Len(list) \in Nat /\ list[m].within \subseteq 1..(m-1)
  BY LenProperties DEF Nested
<1> DEFINE After == {k \in {m} \cup list[m].within : k > i}
<1>2. After \in SUBSET Nat /\ m \in After
  BY <1>1
<1>3. \A k \in {m} \cup list[m].within : k > i => k \in After
  OBVIOUS
<1>4. \A k \in After : k \in {m} \cup list[m].within /\ k > i /\ k \in 1..m
  BY <1>1
<1> HIDE DEF After
<1>5. PICK c \in After : \A k \in After : c <= k
  BY <1>2, LeastNatural
<1>6. c \in 1..Len(list) /\ c > i /\ c <= m /\ Inside(list, c, m)
  BY <1>1, <1>4, <1>5 DEF Inside
<1>7. list[c].within = {k \in list[m].within : k < c}
  <2>1. CASE c = m
    BY <1>1, <2>1
  <2>2. CASE c \in list[m].within
    <3>1. list[m].within \cap 1..(c-1) = list[c].within
      BY <2>2 DEF Nested
    <3>2. \A k \in list[m].within : k < c <=> k \in 1..(c-1)
      BY <1>1, <1>6
    <3> QED BY <3>1, <3>2
  <2> QED BY <1>4, <1>5, <2>1, <2>2
<1>8. i \in list[c].within
  BY <1>1, <1>6, <1>7
<1>9. ASSUME NEW k \in list[c].within PROVE k <= i
  <2>1. k \in list[m].within /\ k < c /\ k \in Nat
    BY <1>1, <1>7
  <2>2. k \notin After
    BY <1>5, <1>6, <2>1
  <2> QED BY <1>3, <2>1, <2>2
<1> QED BY <1>6, <1>8, <1>9 DEF Made

(* What is used of Last.                                                   *)
LEMMA LastProperties ==
    ASSUME NEW list \in Seq(TracedCall), Nested(list), NEW i \in 1..Len(list)
    PROVE  /\ Last(list, i) \in i..Len(list) /\ Last(list, i) \in Nat
           /\ \A m \in 1..Len(list) : Inside(list, i, m) <=> m \in i..Last(list, i)
<1>1. IsLast(list, i, Last(list, i)) /\ Len(list) \in Nat
  BY HasLast, LenProperties
<1> QED BY <1>1 DEF IsLast

(* Before the loop over the calls that i made, only i itself is covered;   *)
LEMMA CoveredStarts ==
    ASSUME NEW list \in Seq(TracedCall), Nested(list), NEW i \in 1..Len(list)
    PROVE  Covered(list, i, i) = i..i
<1>1. Len(list) \in Nat
  BY LenProperties
<1>2. \A c \in Made(list, i) : c > i
  BY <1>1 DEF Made, Nested
<1> QED BY <1>1, <1>2 DEF Covered, Made

(* a call that i did not make adds nothing;                                *)
LEMMA CoveredSkips ==
    ASSUME NEW list \in Seq(TracedCall), NEW i \in 1..Len(list),
           NEW j \in (i+1)..Len(list), j \notin Made(list, i)
    PROVE  Covered(list, i, j) = Covered(list, i, j - 1)
<1>1. Len(list) \in Nat
  BY LenProperties
<1>2. Made(list, i) \subseteq 1..Len(list)
  BY DEF Made
<1>3. \A c \in Made(list, i) : c <= j <=> c <= j - 1
  BY <1>1, <1>2
<1> QED BY <1>3 DEF Covered

(* a call that i made begins right after what is covered, and adds what    *)
(* is inside of it.                                                        *)
LEMMA CoveredGrows ==
    ASSUME NEW list \in Seq(TracedCall), Nested(list), NEW i \in 1..Len(list),
           NEW j \in (i+1)..Len(list), j \in Made(list, i),
           NEW e \in i..Len(list), Covered(list, i, j - 1) = i..e
    PROVE  e = j - 1 /\ Covered(list, i, j) = i..Last(list, j)
<1>1. Len(list) \in Nat /\ j \in 1..Len(list) /\ Made(list, i) \subseteq 1..Len(list)
  BY LenProperties DEF Made
<1>2. i \in list[j].within /\ \A k \in list[j].within : k <= i
  BY DEF Made
<1>3. ASSUME NEW m \in i..(j-1) PROVE m \in Covered(list, i, j - 1)
  <2>1. m \in 1..Len(list)
    BY <1>1
  <2>2. CASE m # i
    <3>1. i \in list[m].within
      BY <1>1, <1>2, <2>2 DEF Nested
    <3>2. PICK c \in Made(list, i) : i < c /\ c <= m /\ Inside(list, c, m)
      BY <2>1, <3>1, HasMaker
    <3>3. c <= j - 1
      BY <1>1, <3>2
    <3> QED BY <2>1, <3>2, <3>3 DEF Covered
  <2> QED BY <2>1, <2>2 DEF Covered
<1>4. j \notin Covered(list, i, j - 1)
  <2> SUFFICES ASSUME NEW c \in Made(list, i), c <= j - 1, Inside(list, c, j) PROVE FALSE
    BY <1>1 DEF Covered
  <2>1. c > i /\ c # j
    BY <1>1 DEF Made, Nested
  <2>2. c \in list[j].within
    BY <2>1 DEF Inside
  <2> QED BY <1>1, <1>2, <2>1, <2>2
<1>5. e = j - 1
  <2>1. j - 1 \in i..e /\ j \notin i..e
    BY <1>1, <1>3, <1>4
  <2> QED BY <1>1, <2>1
<1>6. \A m \in 1..Len(list) : Inside(list, j, m) <=> m \in j..Last(list, j)
  BY <1>1, LastProperties
<1>7. Last(list, j) \in j..Len(list)
  BY <1>1, LastProperties
<1>8. \A m : m \in Covered(list, i, j) <=>
             m \in Covered(list, i, j - 1) \/ (m \in 1..Len(list) /\ Inside(list, j, m))
  <2>1. \A c \in Made(list, i) : c <= j <=> c <= j - 1 \/ c = j
    BY <1>1
  <2> QED BY <2>1 DEF Covered
<1>9. Covered(list, i, j) = i..Last(list, j)
  <2> DEFINE l == Last(list, j)
  <2>1. \A m : m \in Covered(list, i, j) <=> m \in i..(j-1) \/ m \in j..l
    <3>1. \A m : m \in j..l => m \in 1..Len(list)
      BY <1>1, <1>7
    <3> HIDE DEF l
    <3>2. \A m : m \in 1..Len(list) /\ Inside(list, j, m) <=> m \in j..l
      BY <1>6, <3>1 DEF l
    <3> QED BY <1>5, <1>8, <3>2
  <2>2. \A m : m \in i..l <=> m \in i..(j-1) \/ m \in j..l
    BY <1>1, <1>7
  <2> HIDE DEF l
  <2>3. Covered(list, i, j) = i..l
    BY <2>1, <2>2
  <2> QED BY <2>3 DEF l
<1> QED BY <1>5, <1>9

(* When the loop has ended, all inside of i is covered.                    *)
LEMMA CoveredEnds ==
    ASSUME NEW list \in Seq(TracedCall), Nested(list), NEW i \in 1..Len(list),
           NEW e \in i..Len(list), Covered(list, i, Len(list)) = i..e
    PROVE  e = Last(list, i)
<1>1. Len(list) \in Nat
  BY LenProperties
<1>2. \A m \in 1..Len(list) : m \in Covered(list, i, Len(list)) => Inside(list, i, m)
  <2> SUFFICES ASSUME NEW m \in 1..Len(list), NEW c \in Made(list, i), Inside(list, c, m)
               PROVE  i \in list[m].within
    BY DEF Covered, Inside
  <2>1. i \in list[c].within /\ c \in 1..Len(list) /\ i < c
    BY <1>1 DEF Made, Nested
  <2>2. CASE c = m
    BY <2>1, <2>2
  <2>3. CASE c \in list[m].within
    BY <2>1, <2>3 DEF Nested
  <2> QED BY <2>2, <2>3 DEF Inside
<1>3. \A m \in 1..Len(list) : Inside(list, i, m) => m \in Covered(list, i, Len(list))
  <2> SUFFICES ASSUME NEW m \in 1..Len(list), i \in list[m].within
               PROVE  m \in Covered(list, i, Len(list))
    BY DEF Covered, Inside
  <2>1. PICK c \in Made(list, i) : i < c /\ c <= m /\ Inside(list, c, m)
    BY HasMaker
  <2>2. c <= Len(list)
    BY <1>1 DEF Made
  <2> QED BY <2>1, <2>2 DEF Covered
<1>4. \A m \in 1..Len(list) : m \in i..e <=> m \in i..Last(list, i)
  BY <1>2, <1>3, LastProperties
<1>5. Last(list, i) \in i..Len(list)
  BY LastProperties
<1>6. e \in i..Last(list, i) /\ Last(list, i) \in i..e
  BY <1>1, <1>4, <1>5
<1> QED BY <1>1, <1>5, <1>6

(* A part is a list of flattened calls, as long as its bounds say.         *)
LEMMA PartTyped ==
    ASSUME NEW list \in Seq(TracedCall), NEW i \in 1..Len(list), NEW e \in i..Len(list),
           NEW r \in BOOLEAN
    PROVE  /\ Part(list, i, e, r) \in Seq(FlatCall)
           /\ Len(Part(list, i, e, r)) = e - i + 1
           /\ \A k \in 1..(e - i + 1) : Part(list, i, e, r)[k] =
                  Flat(list[i + k - 1], r \/ FailedFrom(list, i, i + k - 1))
<1>1. Len(list) \in Nat /\ \A m \in 1..Len(list) : list[m] \in TracedCall
  BY LenProperties, ElementOfSeq
<1>2. \A m : FailedFrom(list, i, m) \in BOOLEAN
  BY DEF FailedFrom
<1>3. ASSUME NEW k \in 1..(e - i + 1)
      PROVE  Flat(list[i + k - 1], r \/ FailedFrom(list, i, i + k - 1)) \in FlatCall
  <2>1. list[i + k - 1] \in TracedCall
    BY <1>1
  <2>2. (r \/ FailedFrom(list, i, i + k - 1)) \in BOOLEAN
    BY <1>2
  <2> QED BY <2>1, <2>2 DEF Flat, FlatCall, TracedCall
<1>4. e - i + 1 \in Nat
  BY <1>1
<1> QED BY <1>3, <1>4, IsASeq DEF Part

(* Inside of j, which i made, has failed what i hands down or what failed  *)
(* from j on.                                                              *)
LEMMA HandedDown ==
    ASSUME NEW list \in Seq(TracedCall), Nested(list), NEW i \in 1..Len(list),
           NEW j \in Made(list, i), NEW m \in 1..Len(list), Inside(list, j, m)
    PROVE  FailedFrom(list, i, m) <=> list[i].error \/ FailedFrom(list, j, m)
<1>1. Len(list) \in Nat /\ j \in 1..Len(list) /\ i \in list[j].within /\ i < j
      /\ \A k \in list[j].within : k <= i
  BY LenProperties DEF Made, Nested
<1>2. i \in list[m].within /\ \A k \in list[m].within : k < j => k <= i
  <2>1. CASE m = j
    BY <1>1, <2>1
  <2>2. CASE j \in list[m].within
    <3>1. list[m].within \cap 1..(j-1) = list[j].within
      BY <2>2 DEF Nested
    <3>2. \A k \in list[m].within : k < j => k \in 1..(j-1)
      BY <1>1 DEF Nested
    <3> QED BY <1>1, <3>1, <3>2
  <2> QED BY <2>1, <2>2 DEF Inside
<1>3. {m} \cup list[m].within \subseteq Nat /\ m >= j
  BY <1>1 DEF Nested, Inside
<1>4. \A k \in {m} \cup list[m].within : k >= i <=> k = i \/ k >= j
  BY <1>1, <1>2, <1>3
<1> QED BY <1>1, <1>2, <1>3, <1>4 DEF FailedFrom

(* The part up to a call that i made, followed by the part of that call,   *)
(* is the part of i up to the last call inside of it.                      *)
LEMMA PartsJoin ==
    ASSUME NEW list \in Seq(TracedCall), Nested(list), NEW i \in 1..Len(list),
           NEW j \in Made(list, i), NEW r \in BOOLEAN
    PROVE  Part(list, i, j - 1, r) \o Part(list, j, Last(list, j), list[i].error \/ r)
             = Part(list, i, Last(list, j), r)
<1> DEFINE l == Last(list, j)
           failed == list[i].error \/ r
           A == Part(list, i, j - 1, r)
           B == Part(list, j, l, failed)
           C == Part(list, i, l, r)
<1>1. /\ Len(list) \in Nat /\ j \in 1..Len(list) /\ i < j
      /\ \A m \in 1..Len(list) : list[m] \in TracedCall
  BY LenProperties, ElementOfSeq DEF Made, Nested
<1>2. l \in j..Len(list) /\ \A m \in j..l : Inside(list, j, m)
  BY <1>1, LastProperties
<1>3. failed \in BOOLEAN
  BY <1>1 DEF TracedCall
<1>4. j - 1 \in i..Len(list) /\ l \in i..Len(list)
  BY <1>1, <1>2
<1>5. /\ A \in Seq(FlatCall) /\ Len(A) = j - i
      /\ \A k \in 1..(j - i) : A[k] = Flat(list[i + k - 1], r \/ FailedFrom(list, i, i + k - 1))
  <2>1. (j - 1) - i + 1 = j - i
    BY <1>1
  <2> QED BY <1>4, <2>1, PartTyped
<1>6. /\ B \in Seq(FlatCall) /\ Len(B) = l - j + 1
      /\ \A k \in 1..(l - j + 1) :
            B[k] = Flat(list[j + k - 1], failed \/ FailedFrom(list, j, j + k - 1))
  BY <1>1, <1>2, <1>3, PartTyped
<1>7. /\ C \in Seq(FlatCall) /\ Len(C) = l - i + 1
      /\ \A k \in 1..(l - i + 1) : C[k] = Flat(list[i + k - 1], r \/ FailedFrom(list, i, i + k - 1))
  BY <1>4, PartTyped
<1>8. ASSUME NEW m \in j..l
      PROVE  (failed \/ FailedFrom(list, j, m)) = (r \/ FailedFrom(list, i, m))
  <2>1. m \in 1..Len(list) /\ Inside(list, j, m)
    BY <1>1, <1>2
  <2>2. FailedFrom(list, i, m) <=> list[i].error \/ FailedFrom(list, j, m)
    BY <2>1, HandedDown
  <2>3. FailedFrom(list, i, m) \in BOOLEAN /\ FailedFrom(list, j, m) \in BOOLEAN
        /\ list[i].error \in BOOLEAN
    BY <1>1 DEF FailedFrom, TracedCall
  <2> QED BY <2>2, <2>3
<1> HIDE DEF A, B, C, l, failed
<1>9. /\ A \o B \in Seq(FlatCall) /\ Len(A \o B) = Len(A) + Len(B)
      /\ \A k \in 1..(Len(A) + Len(B)) :
            (A \o B)[k] = IF k <= Len(A) THEN A[k] ELSE B[k - Len(A)]
  BY <1>5, <1>6, ConcatProperties
<1>10. Len(A \o B) = Len(C) /\ Len(A \o B) = l - i + 1 /\ l \in Int
  BY <1>1, <1>2, <1>5, <1>6, <1>7, <1>9
<1>11. ASSUME NEW k \in 1..Len(A \o B) PROVE (A \o B)[k] = C[k]
  <2>1. CASE k <= j - i
    BY <1>1, <1>2, <1>5, <1>7, <1>9, <1>10, <2>1
  <2>2. CASE k > j - i
    <3>1. /\ k - (j - i) \in 1..(l - j + 1)
          /\ j + (k - (j - i)) - 1 = i + k - 1
          /\ i + k - 1 \in j..l
          /\ k \in 1..(l - i + 1) /\ ~(k <= Len(A))
      BY <1>1, <1>2, <1>5, <1>10, <2>2
    <3>2. (A \o B)[k] = B[k - (j - i)]
      BY <1>5, <1>6, <1>9, <3>1, <1>10
    <3>3. B[k - (j - i)] = Flat(list[i + k - 1], failed \/ FailedFrom(list, j, i + k - 1))
      BY <1>6, <3>1
    <3>4. C[k] = Flat(list[i + k - 1], r \/ FailedFrom(list, i, i + k - 1))
      BY <1>7, <3>1
    <3> QED BY <1>8, <3>1, <3>2, <3>3, <3>4
  <2> QED BY <1>1, <1>10, <2>1, <2>2
<1>12. A \o B = C
  BY <1>7, <1>9, <1>10, <1>11, SeqEqual
<1> QED BY <1>12 DEF A, B, C, l, failed

(* The results of the loop over the calls that i made, given what the      *)
(* activations for them return.                                            *)
Loops(list, i, r, visit, res) ==
    /\ res[i] = <<Flat(list[i], list[i].error \/ r)>>
    /\ \A j \in (i+1)..Len(list) :
          res[j] = IF j \in Made(list, i)
                   THEN res[j-1] \o visit[j][list[i].error \/ r] ELSE res[j-1]
    /\ Visit(list, i, r, visit) = res[Len(list)]

(* The activations for the calls that i made return lists of calls.       *)
Typed(list, i, visit) ==
    \A j \in Made(list, i), b \in BOOLEAN : visit[j][b] \in Seq(FlatCall)

(* The loop of one activation has such results, if the activations for     *)
(* the calls that i made return lists.                                     *)
LEMMA LoopUnfolds ==
    ASSUME NEW list \in Seq(TracedCall), NEW i \in 1..Len(list), NEW r \in BOOLEAN,
           NEW visit, Typed(list, i, visit)
    PROVE  \E res \in [i..Len(list) -> Seq(FlatCall)] : Loops(list, i, r, visit, res)
<1> DEFINE n == Len(list)
           failed == list[i].error \/ r
           first == <<Flat(list[i], failed)>>
           S == Seq(FlatCall)
           M == Made(list, i)
           Run(f) == f = [j \in i..n |-> IF j = i THEN first
                                         ELSE IF j \in M THEN f[j-1] \o visit[j][failed]
                                         ELSE f[j-1]]
           F == [d \in 1..(n-i) |-> [s \in S |-> IF i + d \in M
                                                 THEN s \o visit[i+d][failed] ELSE s]]
<1>1. n \in Nat /\ i \in 1..n /\ list[i] \in TracedCall /\ M \subseteq 1..n
  BY LenProperties, ElementOfSeq DEF Made
<1>2. failed \in BOOLEAN /\ first \in S
  <2>1. list[i].error \in BOOLEAN
    BY <1>1 DEF TracedCall
  <2>2. Flat(list[i], failed) \in FlatCall
    BY <1>1, <2>1 DEF Flat, FlatCall, TracedCall
  <2> QED BY <2>1, <2>2
<1>3. Visit(list, i, r, visit) = (CHOOSE f : Run(f))[n]
  BY DEF Visit, UnmarshalJSON
<1>4. \A j \in M : visit[j][failed] \in S
  BY <1>2 DEF Typed
<1> HIDE DEF n, failed, first, M
<1>5. F \in [1..(n-i) -> [S -> S]]
  <2> SUFFICES ASSUME NEW d \in 1..(n-i), NEW s \in S
               PROVE  (IF i + d \in M THEN s \o visit[i+d][failed] ELSE s) \in S
    OBVIOUS
  <2> QED BY <1>4, ConcatProperties
<1>6. \A d \in 1..(n-i), s \in S :
          F[d][s] = IF i + d \in M THEN s \o visit[i+d][failed] ELSE s
  OBVIOUS
<1> HIDE DEF F, S
<1>b. n - i \in Nat
  BY <1>1
<1>7. PICK g \in [0..(n-i) -> S] : Recursive(g, n - i, first, F)
  BY <1>b, <1>2, <1>5, Recursion
<1> DEFINE f == [j \in i..n |-> g[j - i]]
<1>8. Run(f)
  <2>1. ASSUME NEW j \in i..n
        PROVE  g[j - i] = IF j = i THEN first
                          ELSE IF j \in M THEN f[j-1] \o visit[j][failed] ELSE f[j-1]
    <3>1. CASE j = i
      BY <1>1, <1>7, <3>1 DEF Recursive
    <3>2. CASE j # i
      <4>1. /\ j - i \in 1..(n-i) /\ (j - 1) - i = (j - i) - 1 /\ i + (j - i) = j
            /\ j - 1 \in i..n /\ (j - i) - 1 \in 0..(n-i)
        BY <1>1, <3>2
      <4>2. f[j-1] = g[(j - i) - 1] /\ g[(j - i) - 1] \in S
        BY <4>1
      <4>3. g[j - i] = F[j - i][g[(j - i) - 1]]
        BY <1>7, <4>1 DEF Recursive
      <4>4. F[j - i][g[(j - i) - 1]] = IF j \in M THEN g[(j - i) - 1] \o visit[j][failed]
                                       ELSE g[(j - i) - 1]
        BY <1>6, <4>1, <4>2
      <4> QED BY <3>2, <4>2, <4>3, <4>4
    <3> QED BY <3>1, <3>2
  <2>2. f = [j \in i..n |-> g[j - i]]
    OBVIOUS
  <2>3. \A j \in i..n : f[j] = IF j = i THEN first
                          ELSE IF j \in M THEN f[j-1] \o visit[j][failed] ELSE f[j-1]
    BY <2>1
  <2> HIDE DEF f
  <2> QED BY <2>2, <2>3
<1> HIDE DEF f
<1>9. Run(CHOOSE h : Run(h))
  <2> HIDE DEF Run
  <2> QED BY <1>8
<1> DEFINE res == CHOOSE h : Run(h)
<1> HIDE DEF res
<1>10. /\ DOMAIN res = i..n /\ res = [j \in i..n |-> res[j]]
       /\ res[i] = first
       /\ \A j \in (i+1)..n : res[j] = IF j \in M THEN res[j-1] \o visit[j][failed]
                                       ELSE res[j-1]
  <2>1. Run(res)
    BY <1>9 DEF res
  <2>2. \A j \in (i+1)..n : j \in i..n /\ j # i
    BY <1>1
  <2>3. DOMAIN res = i..n /\ res = [j \in i..n |-> res[j]]
    BY <2>1
  <2>4. \A j \in i..n : res[j] = IF j = i THEN first
                          ELSE IF j \in M THEN res[j-1] \o visit[j][failed] ELSE res[j-1]
    BY <2>1
  <2>5. i \in i..n
    BY <1>1
  <2> HIDE DEF Run
  <2> QED BY <2>2, <2>3, <2>4, <2>5
<1>11. res \in [i..n -> S]
  <2> DEFINE T == {d \in 0..(n-i) : res[i + d] \in S}
  <2>1. 0 \in T
    BY <1>1, <1>2, <1>10
  <2>2. ASSUME NEW d \in 1..(n-i), d - 1 \in T PROVE d \in T
    <3>1. i + d \in (i+1)..n /\ (i + d) - 1 = i + (d - 1) /\ d \in 0..(n-i)
      BY <1>1
    <3>2. res[i + (d - 1)] \in S
      BY <2>2
    <3>3. res[i + d] = IF i + d \in M THEN res[i + (d - 1)] \o visit[i + d][failed]
                       ELSE res[i + (d - 1)]
      BY <1>10, <3>1
    <3>4. res[i + d] \in S
      <4>1. CASE i + d \in M
        BY <1>4, <3>2, <3>3, <4>1, ConcatProperties DEF S
      <4> QED BY <3>2, <3>3, <4>1
    <3> QED BY <3>1, <3>4
  <2> HIDE DEF T
  <2>3. 0..(n-i) \subseteq T
    BY <1>b, <2>1, <2>2, Upward
  <2>4. ASSUME NEW j \in i..n PROVE res[j] \in S
    <3>1. j - i \in 0..(n-i) /\ i + (j - i) = j
      BY <1>1
    <3> QED BY <2>3, <3>1 DEF T
  <2> QED BY <1>10, <2>4
<1>12. Loops(list, i, r, visit, res)
  BY <1>3, <1>10 DEF Loops, res, n, failed, first, M
<1> QED BY <1>11, <1>12 DEF n, S

(* If the activations for the later calls return the parts of these calls, *)
(* so does the one for i.                                                  *)
LEMMA VisitReturnsPart ==
    ASSUME NEW list \in Seq(TracedCall), Nested(list), NEW i \in 1..Len(list),
           NEW r \in BOOLEAN, NEW visit,
           \A j \in (i+1)..Len(list), b \in BOOLEAN :
               visit[j][b] = Part(list, j, Last(list, j), b)
    PROVE  Visit(list, i, r, visit) = Part(list, i, Last(list, i), r)
<1> DEFINE n == Len(list)
           failed == list[i].error \/ r
<1>1. n \in Nat /\ list[i] \in TracedCall /\ i \in Nat /\ n - i \in Nat
  BY LenProperties, ElementOfSeq
<1>2. \A j \in Made(list, i) : j \in (i+1)..n /\ j \in 1..n
  BY <1>1 DEF Made, Nested
<1>3. failed \in BOOLEAN
  BY <1>1 DEF TracedCall
<1>4. \A j \in Made(list, i), b \in BOOLEAN : visit[j][b] \in Seq(FlatCall)
  <2> TAKE j \in Made(list, i), b \in BOOLEAN
  <2>1. Last(list, j) \in j..Len(list)
    BY <1>2, LastProperties
  <2>2. Part(list, j, Last(list, j), b) \in Seq(FlatCall)
    BY <1>2, <2>1, PartTyped
  <2> QED BY <1>2, <2>2
<1>5. PICK res \in [i..n -> Seq(FlatCall)] :
         /\ res[i] = <<Flat(list[i], failed)>>
         /\ \A j \in (i+1)..n : res[j] = IF j \in Made(list, i)
                                         THEN res[j-1] \o visit[j][failed] ELSE res[j-1]
         /\ Visit(list, i, r, visit) = res[n]
  <2> HIDE DEF failed
  <2>1. Typed(list, i, visit)
    BY <1>4 DEF Typed
  <2>2. PICK res \in [i..Len(list) -> Seq(FlatCall)] : Loops(list, i, r, visit, res)
    BY <2>1, LoopUnfolds
  <2> QED BY <2>2 DEF Loops, failed
<1> DEFINE Good(j) == \E e \in i..n : Covered(list, i, j) = i..e /\ res[j] = Part(list, i, e, r)
           T == {d \in 0..(n-i) : Good(i + d)}
<1>6. 0 \in T
  <2>1. i \in i..n /\ i + 0 = i
    BY <1>1
  <2>2. Part(list, i, i, r) = <<Flat(list[i], failed)>>
    <3>1. i - i + 1 = 1
      BY <1>1
    <3>2. Len(Part(list, i, i, r)) = 1 /\ Part(list, i, i, r) \in Seq(FlatCall)
          /\ Part(list, i, i, r)[1] = Flat(list[i + 1 - 1], r \/ FailedFrom(list, i, i + 1 - 1))
      <4>1. 1 \in 1..(i - i + 1)
        BY <3>1
      <4> QED BY <2>1, <3>1, <4>1, PartTyped
    <3>3. FailedFrom(list, i, i) <=> list[i].error
      <4>1. list[i].within \subseteq 1..(i-1)
        BY DEF Nested
      <4>2. \A k \in list[i].within : ~(k >= i)
        BY <1>1, <4>1
      <4> QED BY <1>1, <4>2 DEF FailedFrom
    <3>4. (r \/ FailedFrom(list, i, i)) = failed
      BY <1>1, <3>3 DEF FailedFrom, TracedCall
    <3>5. i + 1 - 1 = i
      BY <1>1
    <3>6. Part(list, i, i, r)[1] = Flat(list[i], failed)
      BY <3>2, <3>4, <3>5
    <3> HIDE DEF failed
    <3> QED BY <3>2, <3>6
  <2>3. Good(i)
    <3>1. Covered(list, i, i) = i..i
      BY CoveredStarts
    <3> QED BY <1>5, <2>1, <2>2, <3>1
  <2> HIDE DEF Good
  <2> QED BY <1>1, <2>1, <2>3
<1>7. ASSUME NEW d \in 1..(n-i), d - 1 \in T PROVE d \in T
  <2> DEFINE j == i + d
  <2>1. j \in (i+1)..n /\ j \in 1..n /\ j - 1 = i + (d - 1) /\ d \in 0..(n-i)
    BY <1>1
  <2>2. Good(j - 1)
    BY <1>7, <2>1
  <2> HIDE DEF j
  <2>3. PICK e \in i..n : Covered(list, i, j - 1) = i..e /\ res[j-1] = Part(list, i, e, r)
    BY <2>2
  <2>4. CASE j \notin Made(list, i)
    <3>1. Covered(list, i, j) = i..e
      BY <2>1, <2>3, <2>4, CoveredSkips
    <3>2. res[j] = Part(list, i, e, r)
      BY <1>5, <2>1, <2>3, <2>4
    <3>3. Good(j)
      BY <3>1, <3>2
    <3> HIDE DEF Good
    <3> QED BY <2>1, <3>3 DEF j
  <2>5. CASE j \in Made(list, i)
    <3>1. e = j - 1 /\ Covered(list, i, j) = i..Last(list, j)
      BY <2>1, <2>3, <2>5, CoveredGrows
    <3>2. visit[j][failed] = Part(list, j, Last(list, j), failed)
      BY <1>3, <2>1
    <3>3. res[j] = Part(list, i, j - 1, r) \o Part(list, j, Last(list, j), failed)
      BY <1>5, <2>1, <2>3, <2>5, <3>1, <3>2
    <3>4. res[j] = Part(list, i, Last(list, j), r)
      BY <2>5, <3>3, PartsJoin
    <3>5. Last(list, j) \in j..n
      BY <2>1, LastProperties
    <3>6. Last(list, j) \in i..n
      BY <1>1, <2>1, <3>5
    <3>7. Good(j)
      BY <3>1, <3>4, <3>6
    <3> HIDE DEF Good
    <3> QED BY <2>1, <3>7 DEF j
  <2> QED BY <2>4, <2>5
<1> HIDE DEF T
<1>8. 0..(n-i) \subseteq T
  BY <1>1, <1>6, <1>7, Upward
<1>9. n - i \in T /\ i + (n - i) = n
  BY <1>1, <1>8
<1>10. Good(n)
  BY <1>9 DEF T
<1>11. PICK e \in i..n : Covered(list, i, n) = i..e /\ res[n] = Part(list, i, e, r)
  BY <1>10
<1>12. e = Last(list, i)
  BY <1>11, CoveredEnds
<1> QED BY <1>5, <1>11, <1>12

(* The recursion is the function that gives every call its part.           *)
LEMMA RecursionReturnsParts ==
    ASSUME NEW list \in Seq(TracedCall), Nested(list), list # <<>>
    PROVE  flattenTraces(list) = Part(list, 1, Last(list, 1), FALSE)
<1> DEFINE n == Len(list)
           P(i) == [r \in BOOLEAN |-> Part(list, i, Last(list, i), r)]
           Rec(f) == f = [i \in 1..n |-> [r \in BOOLEAN |-> Visit(list, i, r, f)]]
           parts == [i \in 1..n |-> P(i)]
<1>1. n \in Nat /\ 1 \in 1..n
  BY LenProperties, EmptySeq
<1>2. flattenTraces(list) = (CHOOSE f : Rec(f))[1][FALSE]
  BY DEF flattenTraces
<1>3. ASSUME NEW f, NEW i \in 1..n, \A j \in (i+1)..n : f[j] = P(j)
      PROVE  [r \in BOOLEAN |-> Visit(list, i, r, f)] = P(i)
  <2>1. \A j \in (i+1)..n, b \in BOOLEAN : f[j][b] = Part(list, j, Last(list, j), b)
    BY <1>3
  <2>2. \A r \in BOOLEAN : Visit(list, i, r, f) = Part(list, i, Last(list, i), r)
    BY <2>1, VisitReturnsPart
  <2> QED BY <2>2
<1> HIDE DEF P
<1>4. Rec(parts)
  <2>1. ASSUME NEW i \in 1..n PROVE [r \in BOOLEAN |-> Visit(list, i, r, parts)] = P(i)
    <3>1. \A j \in (i+1)..n : parts[j] = P(j)
      BY <1>1
    <3> HIDE DEF parts
    <3> QED BY <1>3, <3>1
  <2> QED BY <2>1
<1> DEFINE g == CHOOSE f : Rec(f)
<1>5. Rec(g)
  <2> HIDE DEF Rec, parts
  <2> QED BY <1>4
<1> HIDE DEF g
<1>6. \A i \in 1..n : g[i] = [r \in BOOLEAN |-> Visit(list, i, r, g)]
  BY <1>5
<1> DEFINE T == {d \in 0..(n-1) : \A j \in (n-d)..n : g[j] = P(j)}
<1>7. 0 \in T
  <2>1. \A j \in (n+1)..n : g[j] = P(j)
    BY <1>1
  <2>2. n \in 1..n /\ \A j \in (n-0)..n : j = n
    BY <1>1
  <2>3. g[n] = P(n)
    BY <1>3, <1>6, <2>1, <2>2
  <2>4. 0 \in 0..(n-1)
    BY <1>1
  <2> QED BY <2>2, <2>3, <2>4
<1>8. ASSUME NEW d \in 1..(n-1), d - 1 \in T PROVE d \in T
  <2> DEFINE i == n - d
  <2>1. i \in 1..n /\ i + 1 = n - (d - 1) /\ d \in 0..(n-1)
    BY <1>1
  <2>2. \A j \in (i+1)..n : g[j] = P(j)
    BY <1>8, <2>1
  <2>3. \A j \in i..n : j = i \/ j \in (i+1)..n
    BY <2>1
  <2> HIDE DEF i
  <2>4. g[i] = P(i)
    BY <1>3, <1>6, <2>1, <2>2
  <2>5. \A j \in i..n : g[j] = P(j)
    BY <2>2, <2>3, <2>4
  <2> QED BY <2>1, <2>5 DEF i
<1> HIDE DEF T
<1>9. n - 1 \in Nat
  BY <1>1
<1>10. n - 1 \in T
  <2>1. 0..(n-1) \subseteq T
    BY <1>7, <1>8, <1>9, Upward
  <2> QED BY <1>9, <2>1
<1>11. g[1] = P(1)
  <2>1. 1 \in (n - (n - 1))..n
    BY <1>1
  <2> QED BY <1>10, <2>1 DEF T
<1> QED BY <1>2, <1>11 DEF P, g

(* flattenTraces gives the list of the calls in the order they began, each *)
(* marked as reverted if it failed or is inside of one that did.           *)
LEMMA RecursionFlattens ==
    ASSUME NEW list \in Seq(TracedCall), Nested(list), list # <<>>
    PROVE  flattenTraces(list) = Flatten(list)
<1> DEFINE n == Len(list)
           A == Part(list, 1, n, FALSE)
<1>1. /\ n \in Nat /\ 1 \in 1..n /\ n \in 1..n /\ n - 1 + 1 = n
      /\ \A m \in 1..n : list[m] \in TracedCall
  BY LenProperties, EmptySeq, ElementOfSeq
<1>2. Last(list, 1) = n
  <2>1. Inside(list, 1, n)
    BY <1>1 DEF Inside, Nested
  <2> QED BY <1>1, <2>1, LastProperties
<1>3. /\ A \in Seq(FlatCall) /\ Len(A) = n
      /\ \A k \in 1..n : A[k] = Flat(list[1 + k - 1],
                                     FALSE \/ FailedFrom(list, 1, 1 + k - 1))
  <2>1. 1 \in 1..Len(list) /\ n \in 1..Len(list) /\ FALSE \in BOOLEAN
    BY <1>1
  <2>2. /\ Part(list, 1, n, FALSE) \in Seq(FlatCall)
        /\ Len(Part(list, 1, n, FALSE)) = n - 1 + 1
        /\ \A k \in 1..(n - 1 + 1) :
              Part(list, 1, n, FALSE)[k] = Flat(list[1 + k - 1],
                                                FALSE \/ FailedFrom(list, 1, 1 + k - 1))
    <3> HIDE DEF n
    <3> QED BY <2>1, PartTyped
  <2> QED BY <1>1, <2>2
<1>4. ASSUME NEW k \in 1..n PROVE A[k] = Flat(list[k], Reverted(list, k))
  <2>1. 1 + k - 1 = k /\ {k} \cup list[k].within \subseteq Nat \ {0}
    BY <1>1 DEF Nested
  <2>2. FailedFrom(list, 1, k) <=> Reverted(list, k)
    BY <2>1 DEF FailedFrom, Reverted
  <2>3. (FALSE \/ FailedFrom(list, 1, k)) = Reverted(list, k)
    BY <1>1, <2>2 DEF FailedFrom, Reverted, TracedCall
  <2> QED BY <1>3, <2>1, <2>3
<1>5. DOMAIN A = 1..n
  BY <1>1 DEF Part
<1> HIDE DEF A
<1>6. A = Flatten(list)
  <2>1. A \in Seq(FlatCall) /\ Len(A) = n
    BY <1>3
  <2>2. A = [k \in 1..n |-> A[k]]
    BY <1>5, <2>1
  <2> QED BY <1>4, <2>2 DEF Flatten
<1> USE DEF A
<1> QED BY <1>2, <1>6, RecursionReturnsParts

-----------------------------------------------------------------------------
(* The calls of the open frames, the innermost last, are the calls around  *)
(* each other; the first is that of the transaction itself.                *)
Stacked(list, open) ==
    /\ Nested(list)
    /\ \A k \in 1..Len(open) :
          list[open[k].call].within = {open[l].call : l \in 1..(k-1)}
    /\ open # <<>> => open[1].call = 1

(* The inductive invariant of the tree.                                    *)
TreeInv ==
    /\ Stacked(trace, frames)
    /\ stage # "idle" => calls = Flatten(trace) /\ trace # <<>>

(* A call begins inside of all that are open;                              *)
LEMMA AppendStacked ==
    ASSUME NEW list \in Seq(TracedCall), NEW open \in Seq(OpenFrame),
           NEW node \in TracedCall, TraceInv(list, open), Stacked(list, open),
           list # <<>> => open # <<>>,
           node.within = {open[k].call : k \in 1..Len(open)}
    PROVE  Stacked(Append(list, node), open)
<1> DEFINE n == Len(list)
           m == Len(open)
           more == Append(list, node)
<1>1. /\ n \in Nat /\ m \in Nat /\ Len(more) = n + 1
      /\ \A i \in 1..n : more[i] = list[i]
      /\ more[n + 1] = node
  BY LenProperties, AppendProperties
<1>2. /\ \A k \in 1..m : /\ open[k].call \in 1..n
                         /\ \A i \in (open[k].call+1)..n : open[k].call \in list[i].within
                         /\ \A j \in 1..(k-1) : open[j].call < open[k].call
      /\ \A k \in 1..m : list[open[k].call].within = {open[l].call : l \in 1..(k-1)}
      /\ \A i \in 1..n : list[i].within \subseteq 1..(i-1)
  BY DEF TraceInv, Stacked
<1> HIDE DEF more
<1>3. ASSUME NEW j \in 1..n
      PROVE  /\ more[j].within \subseteq 1..(j-1)
             /\ j > 1 => 1 \in more[j].within
             /\ \A k \in more[j].within :
                   /\ more[j].within \cap 1..(k-1) = more[k].within
                   /\ \A i \in (k+1)..j : k \in more[i].within
  <2>1. more[j] = list[j] /\ \A i \in 1..j : more[i] = list[i] /\ i \in 1..n
    BY <1>1
  <2>2. /\ list[j].within \subseteq 1..(j-1)
        /\ j > 1 => 1 \in list[j].within
        /\ \A k \in list[j].within :
              /\ list[j].within \cap 1..(k-1) = list[k].within
              /\ \A i \in (k+1)..j : k \in list[i].within
    BY DEF Stacked, Nested
  <2>3. \A k \in list[j].within : k \in 1..j /\ \A i \in (k+1)..j : i \in 1..j
    BY <1>1, <2>2
  <2> QED BY <2>1, <2>2, <2>3
<1>4. node.within \subseteq 1..n
  BY <1>2
<1>5. n + 1 > 1 => 1 \in node.within
  <2> SUFFICES ASSUME n + 1 > 1 PROVE 1 \in node.within
    OBVIOUS
  <2>1. list # <<>>
    BY <1>1
  <2>2. open # <<>> /\ open[1].call = 1
    BY <2>1 DEF Stacked
  <2>3. 1 \in 1..m
    BY <2>2, <1>1, EmptySeq
  <2> QED BY <2>2, <2>3
<1>6. ASSUME NEW k \in node.within
      PROVE  /\ node.within \cap 1..(k-1) = list[k].within
             /\ \A i \in (k+1)..n : k \in list[i].within
  <2>1. PICK a \in 1..m : k = open[a].call
    BY <1>6
  <2>2. \A l \in 1..m : open[l].call < k <=> l \in 1..(a-1)
    <3>1. \A l \in 1..m : l < a => open[l].call < k
      BY <1>1, <1>2, <2>1
    <3>2. \A l \in 1..m : l > a => k < open[l].call
      BY <1>1, <1>2, <2>1
    <3>3. \A l \in 1..m : l = a => open[l].call = k
      BY <2>1
    <3>4. \A l \in 1..m : open[l].call \in Nat /\ k \in Nat
      BY <1>2, <1>4
    <3> QED BY <1>1, <3>1, <3>2, <3>3, <3>4
  <2>3. \A x \in node.within : x \in 1..(k-1) <=> x < k
    <3>1. \A x \in 1..n : x \in 1..(k-1) <=> x < k
      <4> HIDE DEF n, m
      <4>1. k \in 1..n
        BY <1>4
      <4>2. n \in Nat /\ k \in Nat
        BY <1>1, <4>1
      <4> QED BY <4>2
    <3> QED BY <1>4, <3>1
  <2>4. \A x : x \in node.within \cap 1..(k-1) <=> \E l \in 1..(a-1) : x = open[l].call
    <3>1. \A l \in 1..(a-1) : l \in 1..m
      BY <1>1
    <3> QED BY <2>2, <2>3, <3>1
  <2>5. node.within \cap 1..(k-1) = {open[l].call : l \in 1..(a-1)}
    BY <2>4
  <2> QED BY <1>2, <2>1, <2>5
<1>7. ASSUME NEW k \in more[n + 1].within
      PROVE  /\ more[n + 1].within \cap 1..(k-1) = more[k].within
             /\ \A i \in (k+1)..(n+1) : k \in more[i].within
  <2>1. k \in node.within /\ more[k] = list[k] /\ k \in 1..n
    BY <1>1, <1>4, <1>7
  <2>2. \A i \in (k+1)..(n+1) : i = n + 1 \/ (i \in (k+1)..n /\ more[i] = list[i])
    BY <1>1, <2>1
  <2> QED BY <1>1, <1>6, <2>1, <2>2
<1>8. Nested(more)
  <2>1. \A j \in 1..(n+1) : j \in 1..n \/ j = n + 1
    BY <1>1
  <2>2. more[n+1].within \subseteq 1..((n+1)-1)
    BY <1>1, <1>4
  <2> QED BY <1>1, <1>3, <1>5, <1>7, <2>1, <2>2 DEF Nested
<1>9. \A k \in 1..m : more[open[k].call].within = {open[l].call : l \in 1..(k-1)}
  BY <1>1, <1>2
<1> QED BY <1>8, <1>9 DEF Stacked, more

(* its frame is the innermost;                                             *)
LEMMA PushStacked ==
    ASSUME NEW list \in Seq(TracedCall), NEW open \in Seq(OpenFrame),
           NEW node \in TracedCall, NEW frame \in OpenFrame,
           TraceInv(list, open), Stacked(list, open),
           list # <<>> => open # <<>>, open # <<>> => list # <<>>,
           node.within = {open[k].call : k \in 1..Len(open)},
           frame.call = Len(list) + 1
    PROVE  Stacked(Append(list, node), Append(open, frame))
<1> DEFINE n == Len(list)
           m == Len(open)
           more == Append(list, node)
           wide == Append(open, frame)
<1>1. /\ n \in Nat /\ m \in Nat /\ Len(more) = n + 1 /\ more[n + 1] = node
      /\ wide \in Seq(OpenFrame) /\ Len(wide) = m + 1 /\ wide[m + 1] = frame
      /\ \A k \in 1..m : wide[k] = open[k]
  BY LenProperties, AppendProperties
<1>2. Stacked(more, open)
  BY AppendStacked
<1> HIDE DEF more, wide
<1>3. ASSUME NEW k \in 1..(m+1)
      PROVE  more[wide[k].call].within = {wide[l].call : l \in 1..(k-1)}
  <2>1. \A l \in 1..(k-1) : wide[l] = open[l]
    BY <1>1
  <2>2. {wide[l].call : l \in 1..(k-1)} = {open[l].call : l \in 1..(k-1)}
    BY <2>1
  <2>3. CASE k \in 1..m
    BY <1>1, <1>2, <2>2, <2>3 DEF Stacked
  <2>4. CASE k = m + 1
    <3>1. wide[k].call = n + 1 /\ k - 1 = m
      BY <1>1, <2>4
    <3> QED BY <1>1, <2>2, <3>1
  <2> QED BY <1>1, <2>3, <2>4
<1>4. wide[1].call = 1
  <2>1. CASE open = <<>>
    <3>1. list = <<>>
      BY <2>1
    <3>2. n = 0 /\ m = 0
      BY <2>1, <3>1, EmptySeq
    <3> QED BY <1>1, <3>2
  <2>2. CASE open # <<>>
    <3>1. 1 \in 1..m
      BY <1>1, <2>2, EmptySeq
    <3> QED BY <1>1, <1>2, <2>2, <3>1 DEF Stacked
  <2> QED BY <2>1, <2>2
<1> QED BY <1>1, <1>2, <1>3, <1>4 DEF Stacked, more, wide

(* The end of a call leaves the calls where they lie in each other,        *)
LEMMA ExitKeepsWithin ==
    ASSUME NEW list \in Seq(TracedCall), NEW c \in 1..Len(list), NEW error \in BOOLEAN
    PROVE  /\ Exit(list, c, error) \in Seq(TracedCall)
           /\ Len(Exit(list, c, error)) = Len(list)
           /\ \A i \in 1..Len(list) : Exit(list, c, error)[i].within = list[i].within
<1>1. /\ Exit(list, c, error) \in Seq(TracedCall)
      /\ Len(Exit(list, c, error)) = Len(list)
      /\ \A i \in 1..Len(list) : i # c => Exit(list, c, error)[i] = list[i]
      /\ Exit(list, c, error)[c].within = list[c].within
  <2>1. list[c] \in TracedCall
    BY ElementOfSeq
  <2>2. Ended(list[c], c, error).within = list[c].within
    BY <2>1 DEF Ended, TracedCall
  <2> QED BY <2>2, ExitProperties
<1> QED BY <1>1

(* and, with or without an error, those that are still open inside of all  *)
(* before them.                                                            *)
LEMMA PopStacked ==
    ASSUME NEW list \in Seq(TracedCall), NEW open \in Seq(OpenFrame), open # <<>>,
           TraceInv(list, open), Stacked(list, open), NEW c \in 1..Len(list),
           NEW error \in BOOLEAN
    PROVE  Stacked(Exit(list, c, error), SubSeq(open, 1, Len(open) - 1))
<1> DEFINE last == Exit(list, c, error)
           front == SubSeq(open, 1, Len(open) - 1)
<1>1. /\ Len(open) \in Nat \ {0} /\ front \in Seq(OpenFrame)
      /\ Len(front) = Len(open) - 1
      /\ \A k \in 1..(Len(open) - 1) : front[k] = open[k]
  BY FrontProperties
<1>2. /\ last \in Seq(TracedCall) /\ Len(last) = Len(list) /\ Len(list) \in Nat
      /\ \A i \in 1..Len(list) : last[i].within = list[i].within
  BY ExitKeepsWithin, LenProperties
<1> HIDE DEF last, front
<1>3. Nested(last)
  <2>1. ASSUME NEW j \in 1..Len(list)
        PROVE  /\ last[j].within \subseteq 1..(j-1)
               /\ j > 1 => 1 \in last[j].within
               /\ \A k \in last[j].within :
                     /\ last[j].within \cap 1..(k-1) = last[k].within
                     /\ \A i \in (k+1)..j : k \in last[i].within
    <3>1. /\ list[j].within \subseteq 1..(j-1)
          /\ j > 1 => 1 \in list[j].within
          /\ \A k \in list[j].within :
                /\ list[j].within \cap 1..(k-1) = list[k].within
                /\ \A i \in (k+1)..j : k \in list[i].within
      BY DEF Stacked, Nested
    <3>2. \A k \in list[j].within : k \in 1..Len(list) /\ \A i \in (k+1)..j : i \in 1..Len(list)
      BY <1>2, <3>1
    <3> QED BY <1>2, <3>1, <3>2
  <2> QED BY <1>2, <2>1 DEF Nested
<1>4. ASSUME NEW k \in 1..Len(front)
      PROVE  last[front[k].call].within = {front[l].call : l \in 1..(k-1)}
  <2>1. k \in 1..Len(open) /\ front[k] = open[k] /\ \A l \in 1..(k-1) : front[l] = open[l]
    BY <1>1
  <2>2. open[k].call \in 1..Len(list)
    BY <2>1 DEF TraceInv
  <2>3. list[open[k].call].within = {open[l].call : l \in 1..(k-1)}
    BY <2>1 DEF Stacked
  <2>4. {front[l].call : l \in 1..(k-1)} = {open[l].call : l \in 1..(k-1)}
    BY <2>1
  <2> QED BY <1>2, <2>1, <2>2, <2>3, <2>4
<1>5. front # <<>> => front[1].call = 1
  <2> SUFFICES ASSUME front # <<>> PROVE front[1].call = 1
    OBVIOUS
  <2>1. 1 \in 1..(Len(open) - 1)
    BY <1>1, EmptySeq
  <2> QED BY <1>1, <2>1 DEF Stacked
<1> QED BY <1>3, <1>4, <1>5 DEF Stacked, last, front

(* A call that a running frame makes, or the transaction itself.           *)
LEMMA EnterKeepsTree ==
    ASSUME LedgerTypeOK, TraceInv(trace, frames), Stacked(trace, frames),
           (trace = <<>> /\ frames = <<>>) \/ frames # <<>>,
           NEW type \in TraceTypes, NEW from \in Accounts, NEW to \in Accounts,
           NEW value \in Nat
    PROVE  /\ Append(trace, Node(type, from, to, value)) \in Seq(TracedCall)
           /\ TraceInv(Append(trace, Node(type, from, to, value)), frames)
           /\ Stacked(Append(trace, Node(type, from, to, value)), frames)
           /\ \A self \in Accounts :
                 Stacked(Append(trace, Node(type, from, to, value)),
                         Append(frames, Frame(self)))
<1> DEFINE node == Node(type, from, to, value)
<1>1. /\ trace \in Seq(TracedCall) /\ frames \in Seq(OpenFrame)
      /\ Len(trace) \in Nat /\ Len(frames) \in Nat
      /\ \A k \in 1..Len(frames) : frames[k] \in OpenFrame
  BY LenProperties, ElementOfSeq DEF LedgerTypeOK
<1>2. node \in TracedCall /\ node.within = {frames[k].call : k \in 1..Len(frames)}
  <2>1. {frames[k].call : k \in 1..Len(frames)} \subseteq Nat
    BY <1>1 DEF OpenFrame
  <2> QED BY <2>1 DEF Node, TracedCall
<1>3. trace # <<>> <=> frames # <<>>
  <2> SUFFICES ASSUME frames # <<>> PROVE trace # <<>>
    OBVIOUS
  <2>1. 1 \in 1..Len(frames)
    BY <1>1, EmptySeq
  <2>2. frames[1].call \in 1..Len(trace)
    BY <2>1 DEF TraceInv
  <2>3. Len(trace) # 0
    BY <1>1, <2>2
  <2> QED BY <2>3, EmptySeq
<1> HIDE DEF node
<1>4. Append(trace, node) \in Seq(TracedCall) /\ Stacked(Append(trace, node), frames)
  BY <1>1, <1>2, <1>3, AppendStacked, AppendProperties
<1>5. TraceInv(Append(trace, node), frames)
  <2> DEFINE more == Append(trace, node)
  <2>1. /\ Len(more) = Len(trace) + 1
        /\ \A i \in 1..Len(trace) : more[i] = trace[i]
        /\ more[Len(trace) + 1] = node
    BY <1>1, <1>2, AppendProperties
  <2> HIDE DEF more
  <2>2. /\ \A i \in 1..Len(trace) : trace[i].within \subseteq 1..(i-1)
        /\ \A k \in 1..Len(frames) :
              /\ frames[k].call \in 1..Len(trace)
              /\ ~trace[frames[k].call].error
              /\ \A i \in (frames[k].call+1)..Len(trace) : frames[k].call \in trace[i].within
              /\ \A j \in 1..(k-1) : frames[j].call < frames[k].call
    BY DEF TraceInv
  <2>3. node.within \subseteq 1..((Len(trace) + 1) - 1)
    BY <1>1, <1>2, <2>2
  <2>4. \A i \in 1..(Len(trace) + 1) : i \in 1..Len(trace) \/ i = Len(trace) + 1
    BY <1>1
  <2>5. \A i \in 1..Len(more) : more[i].within \subseteq 1..(i-1)
    BY <2>1, <2>2, <2>3, <2>4
  <2>6. ASSUME NEW k \in 1..Len(frames)
        PROVE  LET c == frames[k].call
               IN  /\ c \in 1..Len(more)
                   /\ ~more[c].error
                   /\ \A i \in (c+1)..Len(more) : c \in more[i].within
                   /\ \A j \in 1..(k-1) : frames[j].call < c
    <3> DEFINE c == frames[k].call
    <3>1. /\ c \in 1..Len(trace) /\ c \in 1..Len(more) /\ more[c] = trace[c]
          /\ \A i \in (c+1)..Len(more) : i = Len(trace) + 1 \/ i \in (c+1)..Len(trace)
          /\ \A i \in (c+1)..Len(trace) : more[i] = trace[i]
      BY <1>1, <2>1, <2>2
    <3>2. c \in node.within
      BY <1>2
    <3> QED BY <2>1, <2>2, <3>1, <3>2
  <2> QED BY <2>5, <2>6 DEF TraceInv, more
<1>6. ASSUME NEW self \in Accounts
      PROVE  Stacked(Append(trace, node), Append(frames, Frame(self)))
  <2>1. World \in Worlds
    BY WorldTyped
  <2>2. Frame(self) \in OpenFrame /\ Frame(self).call = Len(trace) + 1
    BY <1>1, <2>1 DEF Frame, OpenFrame
  <2> HIDE DEF Frame
  <2> QED BY <1>1, <1>2, <1>3, <2>2, PushStacked
<1> QED BY <1>4, <1>5, <1>6 DEF node

(* The frame on top ends.                                                  *)
LEMMA LeaveKeepsTree ==
    ASSUME LedgerTypeOK, frames # <<>>, NEW list \in Seq(TracedCall), NEW world,
           NEW error \in BOOLEAN, TraceInv(list, frames), Stacked(list, frames),
           Leave(list, world, error)
    PROVE  Stacked(trace', frames')
<1> DEFINE c == frames[Len(frames)].call
<1>1. frames \in Seq(OpenFrame) /\ Len(frames) \in 1..Len(frames)
  BY TopTyped DEF LedgerTypeOK
<1>2. c \in 1..Len(list)
  BY <1>1 DEF TraceInv
<1>3. trace' = Exit(list, c, error) /\ frames' = SubSeq(frames, 1, Len(frames) - 1)
  BY DEF Leave
<1> HIDE DEF c
<1> QED BY <1>1, <1>2, <1>3, PopStacked

(* Every step of the EVM keeps the calls where they lie.                   *)
LEMMA EvmKeepsTree ==
    ASSUME RunningInv, Stacked(trace, frames), EvmStep
    PROVE  Stacked(trace', frames')
<1>1. /\ LedgerTypeOK /\ TraceInv(trace, frames) /\ trace \in Seq(TracedCall)
      /\ frames \in Seq(OpenFrame) /\ (entered = 0 => trace = <<>> /\ frames = <<>>)
      /\ \A a \in Accounts : bal[a] \in Nat
  BY DEF RunningInv, RunInv, Explains, LedgerTypeOK
<1>2. /\ shape.callees \subseteq Accounts /\ Values \subseteq Nat
      /\ Unborn \subseteq Accounts /\ Sender \in Accounts
  BY <1>1, LedgerAssumption DEF LedgerTypeOK
<1>3. ASSUME NEW to \in shape.callees, NEW v \in Values, BeginTransaction(to, v)
      PROVE  Stacked(trace', frames')
  <2> DEFINE kind == IF to \in Unborn THEN "CREATE" ELSE "CALL"
  <2>1. /\ entered = 0 /\ frames' = <<Frame(to)>>
        /\ trace' = Append(trace, Node(kind, Sender, to, v))
    BY <1>3 DEF BeginTransaction, Enter
  <2>2. trace = <<>> /\ frames = <<>>
    BY <1>1, <2>1
  <2>3. kind \in TraceTypes /\ to \in Accounts /\ v \in Nat
    BY <1>2 DEF TraceTypes, CallTypes, CreateTypes
  <2> HIDE DEF kind
  <2>4. Stacked(Append(trace, Node(kind, Sender, to, v)), Append(frames, Frame(to)))
    BY <1>1, <1>2, <2>2, <2>3, EnterKeepsTree
  <2>5. Append(frames, Frame(to)) = <<Frame(to)>>
    BY <2>2
  <2> QED BY <2>1, <2>4, <2>5
<1>4. ASSUME NEW kind \in TraceTypes, NEW self \in Accounts, NEW to \in Accounts,
             NEW v \in Nat, frames # <<>>,
             frames' = Append(frames, Frame(self)), Enter(Node(kind, Self, to, v))
      PROVE  Stacked(trace', frames')
  <2>1. Self \in Accounts
    BY <1>1, <1>4, TopTyped
  <2>2. Stacked(Append(trace, Node(kind, Self, to, v)), Append(frames, Frame(self)))
    BY <1>1, <1>4, <2>1, EnterKeepsTree
  <2> QED BY <1>4, <2>2 DEF Enter
<1>5. ASSUME NEW kind \in CallTypes, NEW to \in shape.callees, NEW v \in Values,
             Call(kind, to, v)
      PROVE  Stacked(trace', frames')
  <2> DEFINE self == IF kind = "CALL" THEN to ELSE Self
  <2>1. /\ frames # <<>> /\ frames' = Append(frames, Frame(self))
        /\ Enter(Node(kind, Self, to, v))
    BY <1>5 DEF Call, MayEnter, Running
  <2>2. kind \in TraceTypes /\ to \in Accounts /\ v \in Nat /\ self \in Accounts
    BY <1>1, <1>2, <2>1, TopTyped DEF TraceTypes
  <2> HIDE DEF self
  <2> QED BY <1>4, <2>1, <2>2
<1>6. ASSUME NEW a \in Unborn, NEW v \in Values, Create(a, v)
      PROVE  Stacked(trace', frames')
  <2>1. /\ frames # <<>> /\ frames' = Append(frames, Frame(a))
        /\ Enter(Node("CREATE", Self, a, v))
    BY <1>6 DEF Create, MayEnter, Running
  <2>2. "CREATE" \in TraceTypes /\ a \in Accounts /\ v \in Nat
    BY <1>2 DEF TraceTypes, CreateTypes
  <2> QED BY <1>4, <2>1, <2>2
<1>7. ASSUME NEW to \in shape.callees, SelfDestruct(to)
      PROVE  Stacked(trace', frames')
  <2> DEFINE v == bal[Self]
             list == Append(trace, Node("SELFDESTRUCT", Self, to, v))
             given == [Move(bal, Self, to, bal[Self]) EXCEPT ![Self] = 0]
             world == [World EXCEPT !.bal = given, !.suicided = @ \cup {Self}]
  <2>1. frames # <<>> /\ Leave(list, world, FALSE)
    BY <1>7 DEF SelfDestruct, Running
  <2>2. "SELFDESTRUCT" \in TraceTypes /\ Self \in Accounts /\ to \in Accounts
    BY <1>1, <1>2, <2>1, TopTyped DEF TraceTypes
  <2>3. v \in Nat
    BY <1>1, <2>2
  <2> HIDE DEF v, world
  <2>4. /\ list \in Seq(TracedCall) /\ TraceInv(list, frames)
        /\ Stacked(list, frames)
    BY <1>1, <2>1, <2>2, <2>3, EnterKeepsTree
  <2> HIDE DEF list
  <2> QED BY <1>1, <2>1, <2>4, LeaveKeepsTree
<1>8. ASSUME Return \/ Fail
      PROVE  Stacked(trace', frames')
  <2>1. frames # <<>> /\ (Leave(trace, World, FALSE) \/ Leave(trace, World, TRUE))
    BY <1>8 DEF Return, Fail, Running
  <2> QED BY <1>1, <2>1, LeaveKeepsTree
<1> QED BY <1>3, <1>5, <1>6, <1>7, <1>8 DEF EvmStep

(* There is no tree yet,                                                   *)
LEMMA InitTreeInv == Init => TreeInv
<1> SUFFICES ASSUME Init PROVE TreeInv
  OBVIOUS
<1>1. trace = <<>> /\ frames = <<>> /\ stage = "idle" /\ Len(<<>>) = 0
  BY DEF Init, OpsInit
<1> QED BY <1>1 DEF TreeInv, Stacked, Nested

(* and every step, of the EVM and of traceOps, keeps it so.                *)
LEMMA StepKeepsTreeInv == LedgerInv /\ TreeInv /\ [Next]_ledgerVars => TreeInv'
<1> SUFFICES ASSUME LedgerInv, TreeInv, [Next]_ledgerVars PROVE TreeInv'
  OBVIOUS
<1>1. LedgerTypeOK /\ OpsInv /\ Stacked(trace, frames)
  BY DEF LedgerInv, TreeInv
<1>2. CASE EvmStep
  <2>1. stage = "idle" /\ stage' = stage
    BY <1>2 DEF EvmStep, BeginTransaction, Call, Create, MayEnter, SelfDestruct, Return,
                Fail, Running, opsVars
  <2>2. RunningInv
    BY <1>1, <2>1 DEF LedgerInv, RunningInv
  <2> QED BY <1>1, <1>2, <2>1, <2>2, EvmKeepsTree DEF TreeInv
<1>3. CASE EndTransaction
  <2>1. /\ calls' = Flatten(trace) /\ trace' = trace /\ frames' = frames /\ trace # <<>>
    BY <1>3 DEF EndTransaction, Start
  <2>2. Flatten(trace') = Flatten(trace)
    BY <2>1
  <2> QED BY <1>1, <2>1, <2>2 DEF TreeInv
<1>4. CASE OpsStep /\ UNCHANGED evmVars
  <2>1. stage # "idle" /\ calls' = calls /\ trace' = trace /\ frames' = frames
    BY <1>4 DEF OpsStep, ProcessCall, EndLoop, VisitDestroyed, ReturnOps, evmVars
  <2>2. Flatten(trace') = Flatten(trace)
    BY <2>1
  <2> QED BY <1>1, <2>1, <2>2 DEF TreeInv
<1>5. CASE UNCHANGED ledgerVars
  <2>1. stage' = stage /\ calls' = calls /\ trace' = trace /\ frames' = frames
    BY <1>5 DEF ledgerVars, opsVars, evmVars
  <2>2. Flatten(trace') = Flatten(trace)
    BY <2>1
  <2> QED BY <1>1, <2>1, <2>2 DEF TreeInv
<1> QED BY <1>2, <1>3, <1>4, <1>5 DEF Next

(* For every transaction, however its calls are nested and wherever one of *)
(* them fails: flattenTraces (client.go:713-734), which descends into the  *)
(* decoded tree, hands traceOps the calls in the order they began, each    *)
(* with the errors of those around it.                                     *)
THEOREM AlwaysFlattenedAsVisited == Spec => []FlattenedAsVisited
<1>1. Init => LedgerInv /\ TreeInv
  BY InitLedgerInv, InitTreeInv
<1>2. LedgerInv /\ TreeInv /\ [Next]_ledgerVars => (LedgerInv /\ TreeInv)'
  BY StepKeepsLedgerInv, StepKeepsTreeInv
<1>3. LedgerInv /\ TreeInv => FlattenedAsVisited
  <2> SUFFICES ASSUME LedgerInv, TreeInv, stage = "loop"
               PROVE  calls = flattenTraces(trace)
    BY DEF FlattenedAsVisited
  <2>1. /\ trace \in Seq(TracedCall) /\ Nested(trace) /\ trace # <<>>
        /\ calls = Flatten(trace)
    BY DEF LedgerInv, LedgerTypeOK, TreeInv, Stacked
  <2> QED BY <2>1, RecursionFlattens
<1> QED BY <1>1, <1>2, <1>3, PTL DEF Spec
=============================================================================
