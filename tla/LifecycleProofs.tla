--------------------------- MODULE LifecycleProofs ---------------------------
(***************************************************************************)
(* g.Wait never returns before the geth that was started has ended: for    *)
(* every mode, every capacity of the pipes and every order of the steps.   *)
(* The argument is a chain of custody.  StartGeth is handed to the group   *)
(* once, at the start (StartedOnce).  While geth runs, StartGeth is in     *)
(* cmd.Wait (GethIsAwaited), so its function is not done and g.Wait does   *)
(* not return.                                                             *)
(***************************************************************************)
EXTENDS Lifecycle, TLAPS

TaskState == {"none", "run", "piped", "reap", "done"}

(* What the proof needs of the types.                                      *)
TaskTypeOK == task \in [Tasks -> TaskState]

StartedOnce == main = "start" => task["startGeth"] = "none"

GethIsAwaited == geth = "running" => task["startGeth"] = "reap"

LifecycleInv ==
    TaskTypeOK /\ StartedOnce /\ GethIsAwaited /\ ExitLeavesNoGeth

(* It holds at the start of the process (run.go:79-82).                    *)
LEMMA InitLifecycleInv == Init => LifecycleInv
BY DEF Init, LifecycleInv, TaskTypeOK, TaskState, StartedOnce, GethIsAwaited,
       ExitLeavesNoGeth, Tasks

(* A function of the group that returns keeps the custody if it is not     *)
(* StartGeth, or if geth does not run then.                                *)
LEMMA FinishKeepsCustody ==
    ASSUME LifecycleInv, NEW t \in Tasks, NEW err, Finish(t, err),
           task[t] # "none",
           t # "startGeth" \/ geth # "running",
           geth' = geth, main' = main
    PROVE  LifecycleInv'
<1>1. task' = [task EXCEPT ![t] = "done"]
  BY DEF Finish
<1>2. TaskTypeOK'
  BY <1>1 DEF LifecycleInv, TaskTypeOK, TaskState
<1>3. StartedOnce' /\ GethIsAwaited'
  BY <1>1 DEF LifecycleInv, TaskTypeOK, StartedOnce, GethIsAwaited, Tasks
<1>4. ExitLeavesNoGeth'
  BY DEF LifecycleInv, ExitLeavesNoGeth
<1> QED BY <1>2, <1>3, <1>4 DEF LifecycleInv

(* A step that changes neither the members of the group, nor geth, nor the *)
(* stage of runRunCmd, unless it ends the process at once, keeps the       *)
(* custody.                                                                *)
LEMMA BystanderKeepsCustody ==
    ASSUME LifecycleInv, task' = task, geth' # geth => geth' \in {"clean", "crashed"},
           main' \in {main, "killed"}
    PROVE  LifecycleInv'
BY DEF LifecycleInv, TaskTypeOK, StartedOnce, GethIsAwaited, ExitLeavesNoGeth

(* The steps of runRunCmd (run.go:79-134): g.Wait returns only when        *)
(* StartGeth has.                                                          *)
LEMMA MainKeepsCustody ==
    ASSUME LifecycleInv, MainStep
    PROVE  LifecycleInv'
<1>1. CASE StartServices
  <2>1. main = "start" /\ main' = "dial" /\ geth' = geth
    BY <1>1 DEF StartServices, gethVars
  <2>2. task' = IF LocalGeth THEN [task EXCEPT !["startGeth"] = "run"] ELSE task
    BY <1>1 DEF StartServices
  <2>3. geth # "running"
    BY <2>1 DEF LifecycleInv, StartedOnce, GethIsAwaited
  <2>4. TaskTypeOK'
    BY <2>2 DEF LifecycleInv, TaskTypeOK, TaskState
  <2> QED BY <2>1, <2>3, <2>4 DEF LifecycleInv, StartedOnce, GethIsAwaited,
                                  ExitLeavesNoGeth
<1>2. CASE Dial
  BY <1>2 DEF Dial, LifecycleInv, TaskTypeOK, StartedOnce, GethIsAwaited,
              ExitLeavesNoGeth, groupVars, gethVars
<1>3. CASE Serve
  <2>1. task' = [task EXCEPT !["listen"] = "run", !["shutdown"] = "run"]
    BY <1>3 DEF Serve
  <2>2. main' = "wait" /\ geth' = geth
    BY <1>3 DEF Serve, gethVars
  <2> QED BY <2>1, <2>2 DEF LifecycleInv, TaskTypeOK, TaskState, StartedOnce,
                            GethIsAwaited, ExitLeavesNoGeth, Tasks
<1>4. CASE WaitReturns
  <2>1. task["startGeth"] \in {"none", "done"} /\ task' = task
    BY <1>4 DEF WaitReturns, Tasks
  <2>2. main' = "returned" /\ geth' = geth
    BY <1>4 DEF WaitReturns, gethVars
  <2> QED BY <2>1, <2>2 DEF LifecycleInv, TaskTypeOK, StartedOnce, GethIsAwaited,
                            ExitLeavesNoGeth
<1> QED BY <1>1, <1>2, <1>3, <1>4 DEF MainStep

(* The steps of StartGeth (geth.go:51-90): it runs geth only to go on and  *)
(* wait for it, and returns from there only when geth has ended.           *)
LEMMA GethStepKeepsCustody ==
    ASSUME LifecycleInv, GethStep
    PROVE  LifecycleInv'
<1>0. task \in [Tasks -> TaskState] /\ "startGeth" \in Tasks
  BY DEF LifecycleInv, TaskTypeOK, Tasks
<1>1. CASE OpenPipes
  <2>1. task["startGeth"] = "run" /\ main' = main /\ geth' = geth
    BY <1>1 DEF OpenPipes, procVars, gethVars
  <2>2. geth # "running" /\ main # "start" /\ main # "returned" => geth # "running"
    BY <2>1 DEF LifecycleInv, StartedOnce, GethIsAwaited
  <2>3. CASE Finish("startGeth", "pipe")
    BY <1>0, <2>1, <2>2, <2>3, FinishKeepsCustody DEF LifecycleInv, GethIsAwaited
  <2>4. CASE task' = [u \in Tasks |-> IF u = "startGeth" THEN "piped"
                                      ELSE IF u \in Pipes THEN "run" ELSE task[u]]
    <3>1. TaskTypeOK'
      BY <1>0, <2>4 DEF TaskTypeOK, TaskState
    <3> QED BY <2>1, <3>1 DEF LifecycleInv, StartedOnce, GethIsAwaited,
                              ExitLeavesNoGeth
  <2> QED BY <1>1, <2>3, <2>4 DEF OpenPipes
<1>2. CASE SpawnGeth
  <2>1. task["startGeth"] = "piped" /\ main' = main /\ Alive
    BY <1>2 DEF SpawnGeth, procVars
  <2>2. geth # "running"
    BY <2>1 DEF LifecycleInv, GethIsAwaited
  <2>3. CASE Finish("startGeth", "start") /\ geth' = geth
    BY <1>0, <2>1, <2>2, <2>3, FinishKeepsCustody
  <2>4. CASE /\ geth' = "running"
             /\ task' = [task EXCEPT !["startGeth"] = "reap", !["interrupt"] = "run"]
    <3>1. TaskTypeOK' /\ task'["startGeth"] = "reap"
      BY <1>0, <2>4 DEF TaskTypeOK, TaskState, Tasks
    <3>2. main # "start" /\ main # "returned"
      BY <2>1 DEF LifecycleInv, StartedOnce, Alive
    <3> QED BY <2>1, <2>4, <3>1, <3>2 DEF LifecycleInv, StartedOnce, GethIsAwaited,
                                          ExitLeavesNoGeth
  <2> QED BY <1>2, <2>3, <2>4 DEF SpawnGeth
<1>3. CASE Reap
  <2>1. PICK err : Finish("startGeth", err)
    BY <1>3 DEF Reap
  <2>2. task["startGeth"] = "reap" /\ geth # "running" /\ geth' = geth /\ main' = main
    BY <1>3 DEF Reap, Exited, procVars, gethVars
  <2> QED BY <1>0, <2>1, <2>2, FinishKeepsCustody
<1> QED BY <1>1, <1>2, <1>3 DEF GethStep

(* The steps of the other members of the group, which return on their own  *)
(* account: the goroutine that interrupts geth, the loggers, the server.   *)
LEMMA MemberKeepsCustody ==
    ASSUME LifecycleInv,
           \/ Interrupt \/ Listen \/ Shutdown
           \/ \E p \in Pipes : LogStep(p)
    PROVE  LifecycleInv'
<1>1. CASE Interrupt
  <2>1. PICK err : Finish("interrupt", err)
    BY <1>1 DEF Interrupt
  <2> QED BY <1>1, <2>1, FinishKeepsCustody DEF Interrupt, Tasks, procVars
<1>2. CASE Listen
  <2>1. geth' = geth /\ main' = main /\ task["listen"] = "run"
    BY <1>2 DEF Listen, procVars, gethVars
  <2>2. CASE \E err : Finish("listen", err)
    BY <2>1, <2>2, FinishKeepsCustody DEF Tasks
  <2>3. CASE UNCHANGED groupVars
    BY <2>1, <2>3, BystanderKeepsCustody DEF groupVars
  <2> QED BY <1>2, <2>2, <2>3 DEF Listen
<1>3. CASE Shutdown
  <2>1. PICK err : Finish("shutdown", err)
    BY <1>3 DEF Shutdown
  <2> QED BY <1>3, <2>1, FinishKeepsCustody DEF Shutdown, Tasks, procVars, gethVars
<1>4. ASSUME NEW p \in Pipes, LogStep(p)
      PROVE  LifecycleInv'
  <2>1. geth' = geth /\ main' = main /\ task[p] = "run"
    BY <1>4 DEF LogStep, ReadLine, EndLog, procVars, gethVars
  <2>2. CASE ReadLine(p)
    BY <2>1, <2>2, BystanderKeepsCustody DEF ReadLine, groupVars
  <2>3. CASE EndLog(p)
    <3>1. p \in Tasks /\ p # "startGeth"
      BY DEF Tasks, Pipes
    <3> QED BY <2>1, <2>3, <3>1, FinishKeepsCustody DEF EndLog
  <2> QED BY <1>4, <2>2, <2>3 DEF LogStep
<1> QED BY <1>1, <1>2, <1>3, <1>4

(* Every step keeps the custody of geth; a signal, a fatal request, geth's *)
(* output and its end do not touch it.                                     *)
LEMMA StepKeepsCustody == LifecycleInv /\ [Next]_vars => LifecycleInv'
<1> SUFFICES ASSUME LifecycleInv, [Next]_vars PROVE LifecycleInv'
  OBVIOUS
<1>1. CASE MainStep
  BY <1>1, MainKeepsCustody
<1>2. CASE GethStep
  BY <1>2, GethStepKeepsCustody
<1>3. CASE Interrupt \/ Listen \/ Shutdown \/ \E p \in Pipes : LogStep(p)
  BY <1>3, MemberKeepsCustody
<1>4. CASE Register
  BY <1>4, BystanderKeepsCustody DEF Register, groupVars, gethVars
<1>5. CASE Signal
  BY <1>5, BystanderKeepsCustody DEF Signal, gethVars
<1>6. CASE \E p \in Pipes : WriteLine(p)
  BY <1>6, BystanderKeepsCustody DEF WriteLine, groupVars, gethVars, procVars
<1>7. CASE ExitGeth
  BY <1>7, BystanderKeepsCustody DEF ExitGeth, groupVars, procVars
<1>8. CASE Fatal
  BY <1>8, BystanderKeepsCustody DEF Fatal, groupVars, gethVars
<1>9. CASE UNCHANGED vars
  BY <1>9, BystanderKeepsCustody DEF vars, groupVars, gethVars, procVars
<1> QED BY <1>1, <1>2, <1>3, <1>4, <1>5, <1>6, <1>7, <1>8, <1>9 DEF Next

(* The invariant of the life of the process.                               *)
THEOREM LifecycleInvariant == Spec => []LifecycleInv
<1>1. Init => LifecycleInv
  BY InitLifecycleInv
<1>2. LifecycleInv /\ [Next]_vars => LifecycleInv'
  BY StepKeepsCustody
<1> QED BY <1>1, <1>2, PTL DEF Spec

(* runRunCmd never returns through g.Wait while the geth it started runs   *)
(* (run.go:128-133, geth.go:82-89): whoever failed first, geth has been    *)
(* waited for.  It speaks of no process that ends past g.Wait.             *)
THEOREM GethNeverOutlivesRun == Spec => []ExitLeavesNoGeth
<1>1. LifecycleInv => ExitLeavesNoGeth
  BY DEF LifecycleInv
<1> QED BY <1>1, LifecycleInvariant, PTL

-----------------------------------------------------------------------------
(* The members of the group end with one of the errors listed in TypeOK.   *)
LEMMA FinishKeepsTypes ==
    ASSUME TypeOK, NEW t \in Tasks, NEW err, Finish(t, err),
           err \in {"nil", "pipe", "start", "exit", "finished", "eof",
                   "listen", "serverClosed", "canceled"}
    PROVE  /\ task' \in [Tasks -> {"none", "run", "piped", "reap", "done"}]
           /\ cancelled' \in BOOLEAN
           /\ firstErr' \in {"none", "pipe", "start", "exit", "finished", "eof",
                             "listen", "serverClosed", "canceled"}
<1>1. task' = [task EXCEPT ![t] = "done"]
  BY DEF Finish
<1>2. task' \in [Tasks -> {"none", "run", "piped", "reap", "done"}]
  BY <1>1 DEF TypeOK
<1>3. cancelled' \in BOOLEAN
  BY DEF Finish, TypeOK
<1>4. firstErr' \in {"none", "pipe", "start", "exit", "finished", "eof",
                     "listen", "serverClosed", "canceled"}
  BY DEF Finish, TypeOK
<1> QED BY <1>2, <1>3, <1>4

(* Every step of the process keeps the types of its variables.             *)
LEMMA StepKeepsTypes == TypeOK /\ [Next]_vars => TypeOK'
<1> SUFFICES ASSUME TypeOK, [Next]_vars PROVE TypeOK'
  OBVIOUS
<1> USE DEF procVars, groupVars, gethVars, pipeVars
<1>0. \A t \in {"startGeth", "interrupt", "listen", "shutdown"} \cup Pipes : t \in Tasks
  BY DEF Tasks
<1>1. CASE StartServices
  BY <1>0, <1>1 DEF StartServices, TypeOK
<1>2. CASE Dial
  BY <1>2 DEF Dial, TypeOK
<1>3. CASE Serve
  <2>1. task' = [task EXCEPT !["listen"] = "run", !["shutdown"] = "run"]
    BY <1>3 DEF Serve
  <2>2. task' \in [Tasks -> {"none", "run", "piped", "reap", "done"}]
    BY <1>0, <2>1 DEF TypeOK
  <2> QED BY <1>3, <2>2 DEF Serve, TypeOK
<1>4. CASE WaitReturns
  BY <1>4 DEF WaitReturns, TypeOK
<1>5. CASE Register
  BY <1>5 DEF Register, TypeOK
<1>6. CASE Signal
  <2>1. /\ UNCHANGED <<config, task, firstErr, geth, interrupted, server, unread, closed>>
        /\ main' \in {main, "killed"} /\ handler' \in {handler, "fired"}
    BY <1>6 DEF Signal
  <2>2. signalReceived' \in BOOLEAN /\ cancelled' \in BOOLEAN
    BY <1>6 DEF Signal, TypeOK
  <2> QED BY <2>1, <2>2 DEF TypeOK
<1>7. CASE OpenPipes
  <2>1. CASE Finish("startGeth", "pipe")
    BY <1>0, <1>7, <2>1, FinishKeepsTypes DEF OpenPipes, TypeOK
  <2>2. CASE /\ task' = [t \in Tasks |-> IF t = "startGeth" THEN "piped"
                                        ELSE IF t \in Pipes THEN "run"
                                        ELSE task[t]]
             /\ UNCHANGED <<cancelled, firstErr>>
    BY <1>7, <2>2 DEF OpenPipes, TypeOK
  <2> QED BY <1>7, <2>1, <2>2 DEF OpenPipes
<1>8. CASE SpawnGeth
  <2>1. CASE Finish("startGeth", "start") /\ closed' = TRUE /\ UNCHANGED geth
    BY <1>0, <1>8, <2>1, FinishKeepsTypes DEF SpawnGeth, TypeOK
  <2>2. CASE /\ geth' = "running"
             /\ task' = [task EXCEPT !["startGeth"] = "reap", !["interrupt"] = "run"]
             /\ UNCHANGED <<cancelled, firstErr, closed>>
    <3>1. task' \in [Tasks -> {"none", "run", "piped", "reap", "done"}]
      BY <1>0, <2>2 DEF TypeOK
    <3> QED BY <1>8, <2>2, <3>1 DEF SpawnGeth, TypeOK
  <2> QED BY <1>8, <2>1, <2>2 DEF SpawnGeth
<1>9. CASE Reap
  <2>1. CASE Finish("startGeth", "exit")
    BY <1>0, <1>9, <2>1, FinishKeepsTypes DEF Reap, TypeOK
  <2>2. CASE Finish("startGeth", "nil")
    BY <1>0, <1>9, <2>2, FinishKeepsTypes DEF Reap, TypeOK
  <2> QED BY <1>9, <2>1, <2>2 DEF Reap
<1>10. CASE Interrupt
  <2>1. PICK err \in {"finished", "nil"} : Finish("interrupt", err)
    BY <1>10 DEF Interrupt
  <2> QED BY <1>0, <1>10, <2>1, FinishKeepsTypes DEF Interrupt, TypeOK
<1>11. ASSUME NEW p \in Pipes, LogStep(p) PROVE TypeOK'
  <2>1. CASE ReadLine(p)
    BY <2>1, LifecycleAssumption DEF ReadLine, TypeOK
  <2>2. CASE EndLog(p)
    <3>1. p \in Tasks /\ Finish(p, "eof")
      BY <1>0, <2>2 DEF EndLog
    <3>2. UNCHANGED <<config, main, handler, signalReceived, geth, interrupted, server,
                      unread, closed>>
      BY <2>2 DEF EndLog
    <3>3. /\ task' \in [Tasks -> {"none", "run", "piped", "reap", "done"}]
          /\ cancelled' \in BOOLEAN
          /\ firstErr' \in {"none", "pipe", "start", "exit", "finished", "eof",
                            "listen", "serverClosed", "canceled"}
      BY <3>1, FinishKeepsTypes
    <3> QED BY <3>2, <3>3 DEF TypeOK
  <2> QED BY <1>11, <2>1, <2>2 DEF LogStep
<1>12. CASE Listen
  <2>1. CASE \E err \in {"listen", "serverClosed"} : Finish("listen", err)
    BY <1>0, <1>12, <2>1, FinishKeepsTypes DEF Listen, TypeOK
  <2>2. CASE UNCHANGED groupVars
    BY <1>12, <2>2 DEF Listen, TypeOK
  <2> QED BY <1>12, <2>1, <2>2 DEF Listen
<1>13. CASE Shutdown
  BY <1>0, <1>13, FinishKeepsTypes DEF Shutdown, TypeOK
<1>14. ASSUME NEW p \in Pipes, WriteLine(p) PROVE TypeOK'
  BY <1>14, LifecycleAssumption DEF WriteLine, TypeOK
<1>15. CASE ExitGeth
  BY <1>15 DEF ExitGeth, TypeOK
<1>16. CASE Fatal
  BY <1>16 DEF Fatal, TypeOK
<1>17. CASE UNCHANGED vars
  BY <1>17 DEF vars, TypeOK
<1> QED BY <1>1, <1>2, <1>3, <1>4, <1>5, <1>6, <1>7, <1>8, <1>9, <1>10, <1>11, <1>12,
           <1>13, <1>14, <1>15, <1>16, <1>17 DEF Next, MainStep, GethStep

(* The variables keep their types, for pipes of any capacity.              *)
THEOREM LifecycleTypesKept == Spec => []TypeOK
<1>1. ASSUME Init PROVE TypeOK
  <2>1. task \in [Tasks -> {"none", "run", "piped", "reap", "done"}]
    BY <1>1 DEF Init
  <2>2. unread \in [Pipes -> 0..MaxUnread]
    BY <1>1, LifecycleAssumption DEF Init
  <2>3. config \in Configs /\ main = "start" /\ handler = "none" /\ firstErr = "none"
    BY <1>1 DEF Init
  <2>4. /\ signalReceived = FALSE /\ cancelled = FALSE /\ interrupted = FALSE
        /\ closed = FALSE /\ geth = "none" /\ server = "down"
    BY <1>1 DEF Init
  <2>5. /\ signalReceived \in BOOLEAN /\ cancelled \in BOOLEAN
        /\ interrupted \in BOOLEAN /\ closed \in BOOLEAN
    BY <2>4
  <2> QED BY <2>1, <2>2, <2>3, <2>4, <2>5 DEF TypeOK
<1>2. TypeOK /\ [Next]_vars => TypeOK'
  BY StepKeepsTypes
<1> QED BY <1>1, <1>2, PTL DEF Spec
=============================================================================
