------------------------------ MODULE TraceGate ------------------------------
(***************************************************************************)
(* ethereum.Client.traceSemaphore: the weighted semaphore that limits how  *)
(* many debug_trace* calls the client has in flight (client.go:46-47,      *)
(* 66, 91).  Every user of it has the shape of getBlockTraces and           *)
(* getTransactionTraces: Acquire(ctx, 1), one call of geth, and a deferred *)
(* Release(1).  The semaphore itself is golang.org/x/sync/semaphore, code  *)
(* outside the repository, modelled with the FIFO queue it documents.      *)
(*                                                                         *)
(* slot[c] is where the goroutine c stands at the gate:                    *)
(*   "none"     it neither waits nor holds a unit;                         *)
(*   "waiting"  it is blocked in Acquire, and its entry is in waiters;     *)
(*   "granted"  notifyWaiters gave it a unit and closed its channel, but   *)
(*              the goroutine has not run yet;                             *)
(*   "calling"  Acquire returned nil: geth is being asked for the trace.   *)
(***************************************************************************)
EXTENDS Naturals, Sequences, FiniteSets

CONSTANTS
    Callers,              \* goroutines that may ask geth for a trace
    MaxTraceConcurrency   \* units of the semaphore (16 in client.go)

ASSUME GateAssumption ==
    /\ IsFiniteSet(Callers)
    /\ MaxTraceConcurrency \in Nat \ {0}

VARIABLES
    cur,       \* units handed out
    waiters,   \* blocked callers, in the order they will be served
    slot       \* slot[c], see above

gateVars == <<cur, waiters, slot>>

SlotState == {"none", "waiting", "granted", "calling"}

GateInit ==
    /\ cur = 0
    /\ waiters = <<>>
    /\ slot = [c \in Callers |-> "none"]

-----------------------------------------------------------------------------
(* The queue without its i-th entry.                                       *)
Without(ws, i) == SubSeq(ws, 1, i - 1) \o SubSeq(ws, i + 1, Len(ws))

(* Mutant: everybody is woken, whatever is free.                           *)
NotifyAll(n, ws, sl) ==
    /\ cur' = n + Len(ws)
    /\ waiters' = <<>>
    /\ slot' = [c \in Callers |->
                   IF \E i \in 1..Len(ws) : ws[i] = c THEN "granted" ELSE sl[c]]

(* Mutant: the last to come is served first.                               *)
NotifyNewest(n, ws, sl) ==
    IF ws = <<>> \/ n >= MaxTraceConcurrency
    THEN cur' = n /\ waiters' = ws /\ slot' = sl
    ELSE /\ cur' = n + 1
         /\ waiters' = SubSeq(ws, 1, Len(ws) - 1)
         /\ slot' = [sl EXCEPT ![ws[Len(ws)]] = "granted"]

(* notifyWaiters: from n units handed out, serve the queue ws from its     *)
(* front until a unit or a waiter is missing.                              *)
Notify(n, ws, sl) ==
    LET free == MaxTraceConcurrency - n
        k    == IF Len(ws) < free THEN Len(ws) ELSE free
    IN  /\ cur' = n + k
        /\ waiters' = SubSeq(ws, k + 1, Len(ws))
        /\ slot' = [c \in Callers |->
                       IF \E i \in 1..k : ws[i] = c THEN "granted" ELSE sl[c]]

(* Acquire takes a unit at once only if nobody is queued in front of it.   *)
Acquire(c) ==
    /\ slot[c] = "none"
    /\ \/ /\ cur < MaxTraceConcurrency
          /\ waiters = <<>>
          /\ cur' = cur + 1
          /\ slot' = [slot EXCEPT ![c] = "calling"]
          /\ UNCHANGED waiters
       \/ /\ cur = MaxTraceConcurrency \/ waiters # <<>>
          /\ waiters' = Append(waiters, c)
          /\ slot' = [slot EXCEPT ![c] = "waiting"]
          /\ UNCHANGED cur

(* The goroutine whose channel was closed returns from Acquire.  It does   *)
(* so even if its context ended in the meantime: the library then pretends *)
(* not to have noticed, since the unit has already been taken.             *)
Resume(c) ==
    /\ slot[c] = "granted"
    /\ slot' = [slot EXCEPT ![c] = "calling"]
    /\ UNCHANGED <<cur, waiters>>

(* Mutant: the deferred Release is run although Acquire failed.            *)
AbandonReleasing(c) ==
    /\ slot[c] = "waiting"
    /\ \E i \in 1..Len(waiters) :
          /\ waiters[i] = c
          /\ Notify(cur - 1, Without(waiters, i), [slot EXCEPT ![c] = "none"])

(* Mutant: the entry of a caller that gave up stays in the queue.          *)
AbandonQueued(c) ==
    /\ slot[c] = "waiting"
    /\ slot' = [slot EXCEPT ![c] = "none"]
    /\ UNCHANGED <<cur, waiters>>

(* The context of a blocked caller ends: Acquire takes it off the queue    *)
(* and returns the context's error.  If it stood in front and units are    *)
(* left, those behind it are notified.                                     *)
Abandon(c) ==
    /\ slot[c] = "waiting"
    /\ \E i \in 1..Len(waiters) :
          /\ waiters[i] = c
          /\ IF i = 1 /\ cur < MaxTraceConcurrency
             THEN Notify(cur, Tail(waiters), [slot EXCEPT ![c] = "none"])
             ELSE /\ waiters' = Without(waiters, i)
                  /\ slot' = [slot EXCEPT ![c] = "none"]
                  /\ UNCHANGED cur

(* Mutant: a unit is given back and nobody is notified.                    *)
ReleaseSilently(c) ==
    /\ slot[c] = "calling"
    /\ cur' = cur - 1
    /\ slot' = [slot EXCEPT ![c] = "none"]
    /\ UNCHANGED waiters

(* The deferred Release, when the call of geth returned, well or not.      *)
Release(c) ==
    /\ slot[c] = "calling"
    /\ Notify(cur - 1, waiters, [slot EXCEPT ![c] = "none"])

-----------------------------------------------------------------------------
(* The gate on its own: callers come, wait, give up and leave at will.     *)
GateNext ==
    \E c \in Callers : Acquire(c) \/ Resume(c) \/ Abandon(c) \/ Release(c)

(* A runnable goroutine runs, and the call of geth returns: the HTTP       *)
(* client of NewClient gives every call a timeout (gethHTTPTimeout).       *)
GateFairness ==
    \A c \in Callers : WF_gateVars(Resume(c)) /\ WF_gateVars(Release(c))

GateSpec == GateInit /\ [][GateNext]_gateVars /\ GateFairness

-----------------------------------------------------------------------------
GateTypeOK ==
    /\ cur \in 0..MaxTraceConcurrency
    /\ waiters \in Seq(Callers)
    /\ slot \in [Callers -> SlotState]

Holders == {c \in Callers : slot[c] \in {"granted", "calling"}}

(* Units are neither leaked nor invented: the count kept by the semaphore  *)
(* is the number of goroutines that hold a unit, those that were given one *)
(* and have not run yet included.  Every error path between an Acquire and *)
(* its deferred Release (client.go:540-549, 564-579) must keep this.       *)
UnitsAccounted == cur = Cardinality(Holders)

(* The queue holds exactly the blocked goroutines, each once.              *)
QueueIsBlocked ==
    /\ \A i, j \in 1..Len(waiters) : waiters[i] = waiters[j] => i = j
    /\ \A c \in Callers :
          slot[c] = "waiting" <=> \E i \in 1..Len(waiters) : waiters[i] = c

(* No wake-up is lost: while a request is blocked at the gate, all the     *)
(* units are out, so some Release is still to come and will serve it.      *)
NoLostWakeup == waiters # <<>> => cur = MaxTraceConcurrency

GateInv == GateTypeOK /\ UnitsAccounted /\ QueueIsBlocked /\ NoLostWakeup

(* First come, first served: a step never gives a unit to a caller while   *)
(* one that was queued before it stays blocked.                            *)
Before(c, d) ==     \* c is blocked, and d came later or is not blocked
    \E i \in 1..Len(waiters) :
        /\ waiters[i] = c
        /\ \A j \in 1..i : waiters[j] # d

NoOvertaking ==
    [][\A c, d \in Callers :
          (/\ Before(c, d)
           /\ slot[d] \in {"none", "waiting"}
           /\ slot'[d] \in {"granted", "calling"})
          => slot'[c] # "waiting"]_gateVars

(* A blocked caller does not stay blocked for ever.                        *)
BlockedIsServed ==
    \A c \in Callers : slot[c] = "waiting" ~> slot[c] # "waiting"
=============================================================================
