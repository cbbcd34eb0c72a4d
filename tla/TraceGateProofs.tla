--------------------------- MODULE TraceGateProofs ---------------------------
(***************************************************************************)
(* The gate for every number of callers and of units: units are accounted  *)
(* for, the queue holds the blocked callers, and no wake-up is lost.       *)
(***************************************************************************)
EXTENDS TraceGate, TLAPS, FiniteSetTheorems, SequenceTheorems

(* Taking an entry out of the queue keeps the others, in their order.      *)
LEMMA WithoutProperties ==
    ASSUME NEW S, NEW ws \in Seq(S), NEW i \in 1..Len(ws)
    PROVE  /\ Without(ws, i) \in Seq(S)
           /\ Len(Without(ws, i)) = Len(ws) - 1
           /\ \A j \in 1..(Len(ws) - 1) :
                 Without(ws, i)[j] = IF j < i THEN ws[j] ELSE ws[j + 1]
<1> DEFINE front == SubSeq(ws, 1, i - 1)
           back  == SubSeq(ws, i + 1, Len(ws))
<1>1. /\ front \in Seq(S)
      /\ Len(front) = i - 1
      /\ \A j \in 1..(i - 1) : front[j] = ws[j]
  <2>1. \A j \in 1..(i - 1) : ws[j] \in S
    BY ElementOfSeq
  <2> QED BY <2>1, SubSeqProperties
<1>2. /\ back \in Seq(S)
      /\ Len(back) = Len(ws) - i
      /\ \A j \in 1..(Len(ws) - i) : back[j] = ws[i + j]
  <2>1. \A j \in (i + 1)..Len(ws) : ws[j] \in S
    BY ElementOfSeq
  <2>2. /\ back \in Seq(S)
        /\ Len(back) = IF i + 1 <= Len(ws) THEN Len(ws) - (i + 1) + 1 ELSE 0
        /\ \A j \in 1..(Len(ws) - (i + 1) + 1) : back[j] = ws[(i + 1) + j - 1]
    BY <2>1, SubSeqProperties
  <2> QED BY <2>2
<1>3. /\ front \o back \in Seq(S)
      /\ Len(front \o back) = Len(front) + Len(back)
      /\ \A j \in 1..(Len(front) + Len(back)) :
            (front \o back)[j] = IF j <= Len(front) THEN front[j]
                                 ELSE back[j - Len(front)]
  BY <1>1, <1>2, ConcatProperties
<1>4. Without(ws, i) = front \o back
  BY DEF Without
<1> HIDE DEF front, back
<1>5. Len(front \o back) = Len(ws) - 1
  BY <1>1, <1>2, <1>3
<1>6. ASSUME NEW j \in 1..(Len(ws) - 1)
      PROVE  (front \o back)[j] = IF j < i THEN ws[j] ELSE ws[j + 1]
  <2>0. Len(ws) \in Nat /\ i \in Int /\ j \in Int
    BY LenProperties
  <2>1. CASE j < i
    BY <2>1, <1>1, <1>2, <1>3
  <2>2. CASE ~(j < i)
    <3>1. (front \o back)[j] = back[j - (i - 1)]
      BY <2>2, <1>1, <1>2, <1>3
    <3>2. back[j - (i - 1)] = ws[i + (j - (i - 1))]
      BY <2>2, <1>2
    <3>3. i + (j - (i - 1)) = j + 1
      OBVIOUS
    <3> QED BY <2>0, <2>2, <3>1, <3>2, <3>3
  <2> QED BY <2>1, <2>2
<1> QED BY <1>3, <1>4, <1>5, <1>6

-----------------------------------------------------------------------------
Held(sl) == {c \in Callers : sl[c] \in {"granted", "calling"}}

(* The state that Notify starts from: the queue ws holds the blocked ones  *)
(* of sl, n units are out, and at most one is free if anybody waits.       *)
NotifyPre(n, ws, sl) ==
    /\ n \in 0..(MaxTraceConcurrency - 1)
    /\ ws \in Seq(Callers)
    /\ sl \in [Callers -> SlotState]
    /\ n = Cardinality(Held(sl))
    /\ \A i, j \in 1..Len(ws) : ws[i] = ws[j] => i = j
    /\ \A c \in Callers : sl[c] = "waiting" <=> \E i \in 1..Len(ws) : ws[i] = c
    /\ ws # <<>> => n = MaxTraceConcurrency - 1

(* Notify gives the free unit to the first in the queue, if there is one.  *)
LEMMA NotifyKeepsInv ==
    ASSUME NEW n, NEW ws, NEW sl, NotifyPre(n, ws, sl), Notify(n, ws, sl)
    PROVE  GateInv'
<1> USE GateAssumption
<1>0. /\ n \in Nat
      /\ n < MaxTraceConcurrency
      /\ MaxTraceConcurrency \in Nat
      /\ ws \in Seq(Callers)
      /\ Len(ws) \in Nat
      /\ sl \in [Callers -> SlotState]
      /\ IsFiniteSet(Held(sl))
  <2>1. IsFiniteSet(Held(sl))
    BY FS_Subset DEF Held
  <2>2. ws \in Seq(Callers)
    BY DEF NotifyPre
  <2> QED BY <2>1, <2>2, LenProperties DEF NotifyPre
<1>1. CASE ws = <<>>
  <2>1. Len(ws) = 0
    BY <1>1
  <2>2. /\ cur' = n
        /\ waiters' = <<>>
        /\ slot' = sl
    <3>1. cur' = n /\ waiters' = SubSeq(ws, 1, 0)
      BY <2>1, <1>0 DEF Notify
    <3>2. slot' = [c \in Callers |-> sl[c]]
      BY <2>1, <1>0 DEF Notify
    <3>3. SubSeq(ws, 1, 0) = <<>>
      BY SubSeqEmpty
    <3> QED BY <3>1, <3>2, <3>3, <1>0
  <2>3. GateTypeOK'
    BY <2>2, <1>0 DEF GateTypeOK
  <2>4. UnitsAccounted'
    BY <2>2 DEF UnitsAccounted, Holders, NotifyPre, Held
  <2>5. QueueIsBlocked'
    BY <2>2, <1>1 DEF QueueIsBlocked, NotifyPre
  <2>6. NoLostWakeup'
    BY <2>2 DEF NoLostWakeup
  <2> QED BY <2>3, <2>4, <2>5, <2>6 DEF GateInv
<1>2. CASE ws # <<>>
  <2>1. n = MaxTraceConcurrency - 1 /\ Len(ws) >= 1 /\ ws[1] \in Callers
    <3>1. Len(ws) # 0
      BY <1>2, <1>0, EmptySeq
    <3>2. Len(ws) >= 1
      BY <3>1, <1>0
    <3>3. ws[1] \in Callers
      BY <3>2, <1>0, ElementOfSeq
    <3> QED BY <1>2, <3>2, <3>3 DEF NotifyPre
  <2>2. /\ cur' = MaxTraceConcurrency
        /\ waiters' = SubSeq(ws, 2, Len(ws))
        /\ slot' = [sl EXCEPT ![ws[1]] = "granted"]
    <3> DEFINE free == MaxTraceConcurrency - n
               k    == IF Len(ws) < free THEN Len(ws) ELSE free
    <3>1. k = 1
      BY <2>1, <1>0
    <3>2. /\ cur' = n + k
          /\ waiters' = SubSeq(ws, k + 1, Len(ws))
          /\ slot' = [c \in Callers |->
                         IF \E i \in 1..k : ws[i] = c THEN "granted" ELSE sl[c]]
      BY DEF Notify
    <3>3. slot' = [c \in Callers |-> IF ws[1] = c THEN "granted" ELSE sl[c]]
      BY <3>1, <3>2
    <3>4. [c \in Callers |-> IF ws[1] = c THEN "granted" ELSE sl[c]]
            = [sl EXCEPT ![ws[1]] = "granted"]
      BY <1>0
    <3> HIDE DEF k, free
    <3>5. cur' = MaxTraceConcurrency
      BY <3>1, <3>2, <2>1, <1>0
    <3>6. waiters' = SubSeq(ws, 2, Len(ws))
      BY <3>1, <3>2
    <3> QED BY <3>3, <3>4, <3>5, <3>6
  <2>3. /\ waiters' \in Seq(Callers)
        /\ Len(waiters') = Len(ws) - 1
        /\ \A i \in 1..(Len(ws) - 1) : waiters'[i] = ws[i + 1]
    <3>1. waiters' = Tail(ws)
      BY <1>0, <1>2, <2>2, TailIsSubSeq
    <3> QED BY <3>1, <1>0, <1>2, HeadTailProperties
  <2>4. sl[ws[1]] = "waiting"
    BY <2>1, <1>0 DEF NotifyPre
  <2>5. GateTypeOK'
    BY <2>1, <2>2, <2>3, <1>0 DEF GateTypeOK, SlotState
  <2>6. UnitsAccounted'
    <3>1. Holders' = Held(sl) \cup {ws[1]}
      BY <2>1, <2>2, <1>0 DEF Holders, Held
    <3>2. ws[1] \notin Held(sl)
      BY <2>4 DEF Held
    <3>3. Cardinality(Holders') = Cardinality(Held(sl)) + 1
      BY <3>1, <3>2, <1>0, FS_AddElement
    <3> QED BY <3>3, <2>1, <2>2, <1>0 DEF UnitsAccounted, NotifyPre
  <2>7. QueueIsBlocked'
    <3>1. ASSUME NEW i \in 1..Len(waiters'), NEW j \in 1..Len(waiters'),
                 waiters'[i] = waiters'[j]
          PROVE  i = j
      <4>1. ws[i + 1] = ws[j + 1] /\ i + 1 \in 1..Len(ws) /\ j + 1 \in 1..Len(ws)
        BY <3>1, <2>3, <1>0
      <4>2. i + 1 = j + 1
        BY <4>1 DEF NotifyPre
      <4> QED BY <4>2
    <3>2. ASSUME NEW c \in Callers
          PROVE  slot'[c] = "waiting" <=> \E i \in 1..Len(waiters') : waiters'[i] = c
      <4>1. slot'[c] = "waiting" <=> c # ws[1] /\ sl[c] = "waiting"
        BY <2>1, <2>2, <1>0
      <4>2. ASSUME slot'[c] = "waiting"
            PROVE  \E i \in 1..Len(waiters') : waiters'[i] = c
        <5>1. PICK i \in 1..Len(ws) : ws[i] = c
          BY <4>1, <4>2 DEF NotifyPre
        <5>2. i # 1 /\ i - 1 \in 1..(Len(ws) - 1)
          BY <5>1, <4>1, <4>2, <1>0
        <5>3. waiters'[i - 1] = c
          BY <5>1, <5>2, <2>3
        <5> QED BY <5>2, <5>3, <2>3
      <4>3. ASSUME NEW i \in 1..Len(waiters'), waiters'[i] = c
            PROVE  slot'[c] = "waiting"
        <5>1. i + 1 \in 1..Len(ws) /\ ws[i + 1] = c
          BY <4>3, <2>3, <1>0
        <5>2. 1 \in 1..Len(ws) /\ i + 1 # 1
          BY <2>1, <1>0
        <5>3. c # ws[1]
          BY <5>1, <5>2 DEF NotifyPre
        <5>4. sl[c] = "waiting"
          BY <5>1 DEF NotifyPre
        <5> QED BY <4>1, <5>3, <5>4
      <4> QED BY <4>2, <4>3
    <3> QED BY <3>1, <3>2 DEF QueueIsBlocked
  <2>8. NoLostWakeup'
    BY <2>2 DEF NoLostWakeup
  <2> QED BY <2>5, <2>6, <2>7, <2>8 DEF GateInv
<1> QED BY <1>1, <1>2

-----------------------------------------------------------------------------
(* The invariant holds before the first request.                           *)
LEMMA InitGateInv == GateInit => GateInv
<1> SUFFICES ASSUME GateInit PROVE GateInv
  OBVIOUS
<1>1. Holders = {}
  BY DEF GateInit, Holders
<1>2. UnitsAccounted
  BY <1>1, FS_EmptySet DEF GateInit, UnitsAccounted
<1>3. GateTypeOK
  BY GateAssumption DEF GateInit, GateTypeOK, SlotState
<1>4. QueueIsBlocked /\ NoLostWakeup
  BY DEF GateInit, QueueIsBlocked, NoLostWakeup
<1> QED BY <1>2, <1>3, <1>4 DEF GateInv

(* The holders of a unit can be counted.                                   *)
LEMMA HoldersFinite == IsFiniteSet(Holders) /\ Cardinality(Holders) \in Nat
<1>1. IsFiniteSet(Holders)
  BY GateAssumption, FS_Subset DEF Holders
<1> QED BY <1>1, FS_CardinalityType

(* Acquire with a free unit and an empty queue.                            *)
LEMMA AcquireKeepsInv ==
    ASSUME NEW c \in Callers, GateInv, Acquire(c)
    PROVE  GateInv'
<1> USE GateAssumption
<1>0. /\ GateTypeOK /\ UnitsAccounted /\ QueueIsBlocked /\ NoLostWakeup
      /\ slot[c] = "none"
      /\ Len(waiters) \in Nat
  BY LenProperties DEF GateInv, GateTypeOK, Acquire
<1>1. CASE /\ cur < MaxTraceConcurrency
           /\ waiters = <<>>
           /\ cur' = cur + 1
           /\ slot' = [slot EXCEPT ![c] = "calling"]
           /\ UNCHANGED waiters
  <2>1. GateTypeOK'
    BY <1>0, <1>1 DEF GateTypeOK, SlotState
  <2>2. Holders' = Holders \cup {c} /\ c \notin Holders
    BY <1>0, <1>1 DEF Holders, GateTypeOK
  <2>3. UnitsAccounted'
    BY <2>2, <1>0, <1>1, HoldersFinite, FS_AddElement DEF UnitsAccounted
  <2>4. QueueIsBlocked'
    BY <1>0, <1>1 DEF QueueIsBlocked, GateTypeOK
  <2>5. NoLostWakeup'
    BY <1>1 DEF NoLostWakeup
  <2> QED BY <2>1, <2>3, <2>4, <2>5 DEF GateInv
<1>2. CASE /\ cur = MaxTraceConcurrency \/ waiters # <<>>
           /\ waiters' = Append(waiters, c)
           /\ slot' = [slot EXCEPT ![c] = "waiting"]
           /\ UNCHANGED cur
  <2>1. /\ waiters' \in Seq(Callers)
        /\ Len(waiters') = Len(waiters) + 1
        /\ \A i \in 1..Len(waiters) : waiters'[i] = waiters[i]
        /\ waiters'[Len(waiters) + 1] = c
    BY <1>0, <1>2, AppendProperties DEF GateTypeOK
  <2>2. GateTypeOK'
    BY <1>0, <1>2, <2>1 DEF GateTypeOK, SlotState
  <2>3. Holders' = Holders
    BY <1>0, <1>2 DEF Holders, GateTypeOK
  <2>4. UnitsAccounted'
    BY <2>3, <1>0, <1>2 DEF UnitsAccounted
  <2>5. \A i \in 1..Len(waiters) : waiters[i] # c
    BY <1>0 DEF QueueIsBlocked
  <2>6. ASSUME NEW i \in 1..Len(waiters'), NEW j \in 1..Len(waiters'),
               waiters'[i] = waiters'[j]
        PROVE  i = j
    BY <2>1, <2>5, <2>6, <1>0 DEF QueueIsBlocked
  <2>7. ASSUME NEW d \in Callers
        PROVE  slot'[d] = "waiting" <=> \E i \in 1..Len(waiters') : waiters'[i] = d
    <3>1. CASE d = c
      <4>1. slot'[d] = "waiting"
        BY <3>1, <1>0, <1>2 DEF GateTypeOK
      <4>2. Len(waiters) + 1 \in 1..Len(waiters')
        BY <2>1, <1>0
      <4> QED BY <4>1, <4>2, <3>1, <2>1
    <3>2. CASE d # c
      <4>1. slot'[d] = slot[d]
        BY <3>2, <1>0, <1>2 DEF GateTypeOK
      <4>2. (\E i \in 1..Len(waiters') : waiters'[i] = d)
              <=> (\E i \in 1..Len(waiters) : waiters[i] = d)
        BY <3>2, <2>1, <1>0
      <4> QED BY <4>1, <4>2, <1>0 DEF QueueIsBlocked
    <3> QED BY <3>1, <3>2
  <2>8. QueueIsBlocked'
    BY <2>6, <2>7 DEF QueueIsBlocked
  <2>9. NoLostWakeup'
    BY <1>0, <1>2 DEF NoLostWakeup
  <2> QED BY <2>2, <2>4, <2>8, <2>9 DEF GateInv
<1> QED BY <1>1, <1>2 DEF Acquire

(* A woken request takes the unit that was handed to it.                   *)
LEMMA ResumeKeepsInv ==
    ASSUME NEW c \in Callers, GateInv, Resume(c)
    PROVE  GateInv'
<1>1. Holders' = Holders
  BY DEF GateInv, GateTypeOK, Resume, Holders
<1>2. UnitsAccounted'
  BY <1>1 DEF GateInv, UnitsAccounted, Resume
<1>3. GateTypeOK'
  BY DEF GateInv, GateTypeOK, Resume, SlotState
<1>4. QueueIsBlocked'
  BY DEF GateInv, GateTypeOK, QueueIsBlocked, Resume
<1>5. NoLostWakeup'
  BY DEF GateInv, NoLostWakeup, Resume
<1> QED BY <1>2, <1>3, <1>4, <1>5 DEF GateInv

(* A blocked caller gives up: no unit is free then, so nobody is notified. *)
LEMMA AbandonKeepsInv ==
    ASSUME NEW c \in Callers, GateInv, Abandon(c)
    PROVE  GateInv'
<1> USE GateAssumption
<1>0. /\ GateTypeOK /\ UnitsAccounted /\ QueueIsBlocked /\ NoLostWakeup
      /\ slot[c] = "waiting"
      /\ waiters \in Seq(Callers)
      /\ Len(waiters) \in Nat
  BY LenProperties DEF GateInv, GateTypeOK, Abandon
<1>1. PICK i \in 1..Len(waiters) :
         /\ waiters[i] = c
         /\ IF i = 1 /\ cur < MaxTraceConcurrency
            THEN Notify(cur, Tail(waiters), [slot EXCEPT ![c] = "none"])
            ELSE /\ waiters' = Without(waiters, i)
                 /\ slot' = [slot EXCEPT ![c] = "none"]
                 /\ UNCHANGED cur
  BY DEF Abandon
<1>2. cur = MaxTraceConcurrency
  <2>1. waiters # <<>>
    BY <1>0, <1>1
  <2> QED BY <2>1, <1>0 DEF NoLostWakeup
<1>3. /\ waiters' = Without(waiters, i)
      /\ slot' = [slot EXCEPT ![c] = "none"]
      /\ cur' = cur
  BY <1>1, <1>2
<1>4. /\ waiters' \in Seq(Callers)
      /\ Len(waiters') = Len(waiters) - 1
      /\ \A j \in 1..(Len(waiters) - 1) :
            waiters'[j] = IF j < i THEN waiters[j] ELSE waiters[j + 1]
  BY <1>0, <1>3, WithoutProperties
<1>5. GateTypeOK'
  BY <1>0, <1>3, <1>4 DEF GateTypeOK, SlotState
<1>6. UnitsAccounted'
  <2>1. Holders' = Holders
    BY <1>0, <1>3 DEF Holders, GateTypeOK
  <2> QED BY <2>1, <1>0, <1>3 DEF UnitsAccounted
<1>7. ASSUME NEW j \in 1..Len(waiters'), NEW k \in 1..Len(waiters'),
             waiters'[j] = waiters'[k]
      PROVE  j = k
  <2> DEFINE was(h) == IF h < i THEN h ELSE h + 1
  <2>1. /\ was(j) \in 1..Len(waiters) /\ waiters'[j] = waiters[was(j)]
        /\ was(k) \in 1..Len(waiters) /\ waiters'[k] = waiters[was(k)]
    <3>1. Len(waiters) \in Nat /\ i \in 1..Len(waiters)
      BY <1>0, <1>1 DEF GateTypeOK
    <3>2. j \in 1..(Len(waiters) - 1) /\ k \in 1..(Len(waiters) - 1)
      BY <3>1, <1>4, <1>7
    <3>3. was(j) \in 1..Len(waiters) /\ was(k) \in 1..Len(waiters)
      BY <3>1, <3>2
    <3>4. \A h \in 1..(Len(waiters) - 1) : waiters'[h] = waiters[was(h)]
      BY <1>4
    <3> QED BY <3>2, <3>3, <3>4
  <2>2. waiters[was(j)] = waiters[was(k)]
    BY <2>1, <1>7
  <2>3. was(j) = was(k)
    BY <2>1, <2>2, <1>0 DEF QueueIsBlocked
  <2>4. j \in Nat /\ k \in Nat /\ i \in Nat
    BY <1>0, <1>1, <1>4, <1>7 DEF GateTypeOK
  <2> QED BY <2>3, <2>4
<1>8. ASSUME NEW d \in Callers
      PROVE  slot'[d] = "waiting" <=> \E j \in 1..Len(waiters') : waiters'[j] = d
  <2>1. slot'[d] = "waiting" <=> d # c /\ slot[d] = "waiting"
    BY <1>0, <1>3 DEF GateTypeOK
  <2>2. ASSUME d # c, NEW k \in 1..Len(waiters), waiters[k] = d
        PROVE  \E j \in 1..Len(waiters') : waiters'[j] = d
    <3> DEFINE now == IF k < i THEN k ELSE k - 1
    <3>1. k # i
      BY <2>2, <1>1
    <3>2. now \in 1..Len(waiters') /\ waiters'[now] = waiters[k]
      BY <3>1, <1>0, <1>4
    <3> QED BY <3>2, <2>2
  <2>3. ASSUME NEW j \in 1..Len(waiters'), waiters'[j] = d
        PROVE  d # c /\ slot[d] = "waiting"
    <3> DEFINE was == IF j < i THEN j ELSE j + 1
    <3>1. was \in 1..Len(waiters) /\ waiters[was] = d /\ was # i
      BY <2>3, <1>0, <1>4
    <3>2. d # c
      BY <3>1, <1>0, <1>1 DEF QueueIsBlocked
    <3> QED BY <3>1, <3>2, <1>0 DEF QueueIsBlocked
  <2> QED BY <2>1, <2>2, <2>3, <1>0 DEF QueueIsBlocked
<1>9. QueueIsBlocked'
  BY <1>7, <1>8 DEF QueueIsBlocked
<1>10. NoLostWakeup'
  BY <1>2, <1>3 DEF NoLostWakeup
<1> QED BY <1>5, <1>6, <1>9, <1>10 DEF GateInv

(* A unit comes back, and goes to the first in the queue.                  *)
LEMMA ReleaseKeepsInv ==
    ASSUME NEW c \in Callers, GateInv, Release(c)
    PROVE  GateInv'
<1> USE GateAssumption
<1> DEFINE freed == [slot EXCEPT ![c] = "none"]
<1>0. /\ GateTypeOK /\ UnitsAccounted /\ QueueIsBlocked /\ NoLostWakeup
      /\ slot[c] = "calling"
      /\ Notify(cur - 1, waiters, freed)
  BY DEF GateInv, Release
<1>1. Held(freed) = Holders \ {c} /\ c \in Holders
  BY <1>0 DEF Held, Holders, GateTypeOK
<1>2. Cardinality(Held(freed)) = cur - 1
  BY <1>0, <1>1, HoldersFinite, FS_RemoveElement DEF UnitsAccounted
<1>3. cur - 1 \in 0..(MaxTraceConcurrency - 1)
  <2>1. IsFiniteSet(Held(freed)) /\ Cardinality(Held(freed)) \in Nat
    BY <1>1, HoldersFinite, FS_Subset, FS_CardinalityType
  <2> QED BY <2>1, <1>0, <1>2 DEF GateTypeOK
<1>4. freed \in [Callers -> SlotState]
  BY <1>0 DEF GateTypeOK, SlotState
<1>5. \A d \in Callers : freed[d] = "waiting" <=> slot[d] = "waiting"
  BY <1>0 DEF GateTypeOK
<1>6. NotifyPre(cur - 1, waiters, freed)
  BY <1>0, <1>2, <1>3, <1>4, <1>5
     DEF NotifyPre, GateTypeOK, QueueIsBlocked, NoLostWakeup
<1> HIDE DEF freed
<1> QED BY <1>0, <1>6, NotifyKeepsInv

(* GateInv is inductive.                                                   *)
LEMMA StepKeepsInv == GateInv /\ [GateNext]_gateVars => GateInv'
<1> SUFFICES ASSUME GateInv, [GateNext]_gateVars PROVE GateInv'
  OBVIOUS
<1>1. ASSUME NEW c \in Callers, Acquire(c) PROVE GateInv'
  BY <1>1, AcquireKeepsInv
<1>2. ASSUME NEW c \in Callers, Resume(c) PROVE GateInv'
  BY <1>2, ResumeKeepsInv
<1>3. ASSUME NEW c \in Callers, Abandon(c) PROVE GateInv'
  BY <1>3, AbandonKeepsInv
<1>4. ASSUME NEW c \in Callers, Release(c) PROVE GateInv'
  BY <1>4, ReleaseKeepsInv
<1>5. CASE UNCHANGED gateVars
  BY <1>5 DEF gateVars, GateInv, GateTypeOK, UnitsAccounted, Holders,
              QueueIsBlocked, NoLostWakeup
<1> QED BY <1>1, <1>2, <1>3, <1>4, <1>5 DEF GateNext

-----------------------------------------------------------------------------
(* For any number of goroutines and units, the semaphore behind            *)
(* getBlockTraces and getTransactionTraces (client.go:536-588) keeps its   *)
(* type, its count, its queue, and leaves no unit free while one waits.    *)
THEOREM GateInvariant == GateSpec => []GateInv
<1>1. GateInit => GateInv
  BY InitGateInv
<1>2. GateInv /\ [GateNext]_gateVars => GateInv'
  BY StepKeepsInv
<1> QED BY <1>1, <1>2, PTL DEF GateSpec

(* No unit is leaked or invented by any path of client.go:536-588.         *)
THEOREM UnitsAlwaysAccounted == GateSpec => []UnitsAccounted
<1>1. GateInv => UnitsAccounted
  BY DEF GateInv
<1> QED BY <1>1, GateInvariant, PTL

(* While a request is blocked at the gate all units are out: a Release,    *)
(* which will serve it, is still to come (client.go:540, 564).             *)
THEOREM WakeupNeverLost == GateSpec => []NoLostWakeup
<1>1. GateInv => NoLostWakeup
  BY DEF GateInv
<1> QED BY <1>1, GateInvariant, PTL

(* The goroutines blocked in Acquire are the ones in the queue.            *)
THEOREM QueueIsAlwaysBlocked == GateSpec => []QueueIsBlocked
<1>1. GateInv => QueueIsBlocked
  BY DEF GateInv
<1> QED BY <1>1, GateInvariant, PTL

(* The variables of the gate keep their types.                             *)
THEOREM GateTypesKept == GateSpec => []GateTypeOK
<1>1. GateInv => GateTypeOK
  BY DEF GateInv
<1> QED BY <1>1, GateInvariant, PTL

(* A step that serves a caller serves all that were queued before it.      *)
LEMMA StepServesInOrder ==
    ASSUME GateInv, NEW x \in Callers,
           Acquire(x) \/ Resume(x) \/ Abandon(x) \/ Release(x),
           NEW c \in Callers, NEW d \in Callers, Before(c, d),
           slot[d] \in {"none", "waiting"}, slot'[d] \in {"granted", "calling"}
    PROVE  slot'[c] # "waiting"
<1> USE GateAssumption
<1>0. /\ slot \in [Callers -> SlotState] /\ Len(waiters) \in Nat
      /\ cur \in 0..MaxTraceConcurrency /\ NoLostWakeup
  BY LenProperties DEF GateInv, GateTypeOK
<1>1. PICK i \in 1..Len(waiters) : waiters[i] = c /\ \A j \in 1..i : waiters[j] # d
  BY DEF Before
<1>2. waiters # <<>>
  <2>1. Len(waiters) # 0
    BY <1>0, <1>1
  <2> QED BY <2>1
<1>3. CASE Acquire(x)
  <2>1. slot' = [slot EXCEPT ![x] = "waiting"]
    BY <1>2, <1>3 DEF Acquire
  <2> QED BY <1>0, <2>1
<1>4. CASE Resume(x)
  BY <1>0, <1>4 DEF Resume
<1>5. CASE Abandon(x)
  <2>1. slot' = [slot EXCEPT ![x] = "none"]
    BY <1>0, <1>2, <1>5 DEF Abandon, NoLostWakeup
  <2> QED BY <1>0, <2>1
<1>6. CASE Release(x)
  <2> DEFINE freed == [slot EXCEPT ![x] = "none"]
             free  == MaxTraceConcurrency - (cur - 1)
             k     == IF Len(waiters) < free THEN Len(waiters) ELSE free
  <2>1. slot' = [e \in Callers |->
                    IF \E j \in 1..k : waiters[j] = e THEN "granted" ELSE freed[e]]
    BY <1>6 DEF Release, Notify
  <2>2. freed[d] \in {"none", "waiting"} /\ k \in Int
    BY <1>0
  <2> HIDE DEF freed, k
  <2>3. PICK j \in 1..k : waiters[j] = d
    BY <2>1, <2>2
  <2>4. i \in 1..k
    BY <1>1, <2>2, <2>3
  <2>5. slot'[c] = "granted"
    BY <1>1, <2>1, <2>4
  <2> QED BY <2>5
<1> QED BY <1>3, <1>4, <1>5, <1>6

(* First come, first served, for any number of callers and units: traces   *)
(* of an early request are not put off for a later one (client.go:540,     *)
(* 564).                                                                   *)
THEOREM NeverOvertaken == GateSpec => NoOvertaking
<1>1. GateInv /\ [GateNext]_gateVars =>
        [\A c, d \in Callers :
            (/\ Before(c, d)
             /\ slot[d] \in {"none", "waiting"}
             /\ slot'[d] \in {"granted", "calling"})
            => slot'[c] # "waiting"]_gateVars
  BY StepServesInOrder DEF GateNext
<1> QED BY <1>1, GateInvariant, PTL DEF GateSpec, NoOvertaking
=============================================================================
