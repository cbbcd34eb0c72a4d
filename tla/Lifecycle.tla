------------------------------ MODULE Lifecycle ------------------------------
(***************************************************************************)
(* The life of the process: runRunCmd (cmd/run.go), handleSignals          *)
(* (cmd/root.go) and StartGeth with its two logPipes (ethereum/geth.go).   *)
(* The goroutines of the errgroup, the signal handler and geth, a process  *)
(* of its own, take their steps in any order.                              *)
(*                                                                         *)
(* errgroup, net/http and os/exec are outside the repository.  What is     *)
(* used of them: the first error of a member cancels the context of the    *)
(* group; Wait waits for all members; Cmd.Wait closes the read ends of the *)
(* pipes as soon as the command has exited.                                *)
(***************************************************************************)
EXTENDS Integers

CONSTANT MaxUnread     \* bound of the model: lines in a pipe

ASSUME LifecycleAssumption == MaxUnread \in Nat

VARIABLES
    config,        \* the fields of Configuration that matter here
    main,          \* the stage of runRunCmd, or how the process ended
    handler,       \* of signals: "none", "spawned", "registered" or "fired"
    signalReceived,
    cancelled,     \* the context of the errgroup is done
    task,          \* task[t]: the state of a member of the errgroup
    firstErr,      \* the first error of a member, or "none"
    geth,          \* the geth process
    interrupted,   \* geth was sent os.Interrupt
    server,        \* "down", "up" or "closed"
    unread,        \* unread[p]: lines of geth in the pipe p
    closed         \* the read ends of the pipes are closed

procVars == <<main, handler, signalReceived>>
pipeVars == <<unread, closed>>
groupVars == <<cancelled, task, firstErr>>
gethVars == <<geth, interrupted>>
vars == <<config, procVars, groupVars, gethVars, server, pipeVars>>

Pipes == {"stdout", "stderr"}

(* The functions handed to g.Go, the logPipes named after their pipes.     *)
Tasks == {"startGeth", "interrupt", "listen", "shutdown"} \cup Pipes

Configs == [online : BOOLEAN, remoteGeth : BOOLEAN]

LocalGeth == config.online /\ ~config.remoteGeth

Alive == main \in {"start", "dial", "serve", "wait"}

Exited == geth \in {"clean", "crashed"}

Init ==
    /\ config \in Configs
    /\ main = "start"
    /\ handler = "none"
    /\ signalReceived = FALSE
    /\ cancelled = FALSE
    /\ task = [t \in Tasks |-> "none"]
    /\ firstErr = "none"
    /\ geth = "none"
    /\ interrupted = FALSE
    /\ server = "down"
    /\ unread = [p \in Pipes |-> 0]
    /\ closed = FALSE

-----------------------------------------------------------------------------
(* A member of the group returns err.                                      *)
Finish(t, err) ==
    /\ task' = [task EXCEPT ![t] = "done"]
    /\ cancelled' = (cancelled \/ err # "nil")
    /\ firstErr' = IF firstErr = "none" /\ err # "nil" THEN err ELSE firstErr

(* runRunCmd: the signal handler and, if geth is local, StartGeth run.     *)
StartServices ==
    /\ main = "start"
    /\ main' = "dial"
    /\ handler' = "spawned"
    /\ task' = IF LocalGeth THEN [task EXCEPT !["startGeth"] = "run"] ELSE task
    /\ UNCHANGED <<config, signalReceived, cancelled, firstErr, gethVars, server,
                   pipeVars>>

(* NewClient, in the online mode; runRunCmd returns its error at once.     *)
Dial ==
    /\ main = "dial"
    /\ \/ main' = "serve"
       \/ config.online /\ main' = "failed"
    /\ UNCHANGED <<config, handler, signalReceived, groupVars, gethVars, server,
                   pipeVars>>

Serve ==
    /\ main = "serve"
    /\ main' = "wait"
    /\ task' = [task EXCEPT !["listen"] = "run", !["shutdown"] = "run"]
    /\ UNCHANGED <<config, handler, signalReceived, cancelled, firstErr, gethVars,
                   server, pipeVars>>

(* Mutant: only the members that serve requests are waited for.            *)
WaitForServer ==
    /\ main = "wait"
    /\ \A t \in {"listen", "shutdown"} : task[t] = "done"
    /\ main' = "returned"
    /\ cancelled' = TRUE
    /\ UNCHANGED <<config, handler, signalReceived, task, firstErr, gethVars,
                   server, pipeVars>>

(* g.Wait returns, and so does runRunCmd.                                  *)
WaitReturns ==
    /\ main = "wait"
    /\ \A t \in Tasks : task[t] \in {"none", "done"}
    /\ main' = "returned"
    /\ cancelled' = TRUE
    /\ UNCHANGED <<config, handler, signalReceived, task, firstErr, gethVars,
                   server, pipeVars>>

-----------------------------------------------------------------------------
(* handleSignals runs in a goroutine of its own.                           *)
Register ==
    /\ Alive
    /\ handler = "spawned"
    /\ handler' = "registered"
    /\ UNCHANGED <<config, main, signalReceived, groupVars, gethVars, server,
                   pipeVars>>

(* SIGINT or SIGTERM.  It cancels the parent of the group's context.       *)
(* Before signal.Notify it ends the process; later ones have no effect.    *)
Signal ==
    /\ Alive
    /\ \/ /\ handler = "registered"
          /\ handler' = "fired"
          /\ signalReceived' = TRUE
          /\ cancelled' = TRUE
          /\ UNCHANGED main
       \/ /\ handler \in {"none", "spawned"}
          /\ main' = "killed"
          /\ UNCHANGED <<handler, signalReceived, cancelled>>
    /\ UNCHANGED <<config, task, firstErr, gethVars, server, pipeVars>>

-----------------------------------------------------------------------------
(* StartGeth: the pipes, and a logPipe for each.                           *)
OpenPipes ==
    /\ Alive
    /\ task["startGeth"] = "run"
    /\ \/ Finish("startGeth", "pipe")
       \/ /\ task' = [t \in Tasks |-> IF t = "startGeth" THEN "piped"
                                      ELSE IF t \in Pipes THEN "run"
                                      ELSE task[t]]
          /\ UNCHANGED <<cancelled, firstErr>>
    /\ UNCHANGED <<config, procVars, gethVars, server, pipeVars>>

(* cmd.Start; it closes the pipes if it fails.                             *)
SpawnGeth ==
    /\ Alive
    /\ task["startGeth"] = "piped"
    /\ \/ /\ Finish("startGeth", "start")
          /\ closed' = TRUE
          /\ UNCHANGED geth
       \/ /\ geth' = "running"
          /\ task' = [task EXCEPT !["startGeth"] = "reap", !["interrupt"] = "run"]
          /\ UNCHANGED <<cancelled, firstErr, closed>>
    /\ UNCHANGED <<config, procVars, interrupted, server, unread>>

(* cmd.Wait: geth is gone.  The pipes are closed, read or not.             *)
Reap ==
    /\ Alive
    /\ task["startGeth"] = "reap"
    /\ Exited
    /\ Finish("startGeth", IF geth = "crashed" THEN "exit" ELSE "nil")
    /\ closed' = TRUE
    /\ UNCHANGED <<config, procVars, gethVars, server, unread>>

Interrupt ==
    /\ Alive
    /\ task["interrupt"] = "run"
    /\ cancelled
    /\ interrupted' = TRUE
    /\ Finish("interrupt", IF task["startGeth"] = "done" THEN "finished" ELSE "nil")
    /\ UNCHANGED <<config, procVars, geth, server, pipeVars>>

(* Mutant: what was read is taken for a line, at the end of the file too.  *)
ReadAnything(p) ==
    /\ Alive
    /\ task[p] = "run"
    /\ ~closed
    /\ unread' = [unread EXCEPT ![p] = @ - 1]
    /\ UNCHANGED <<config, procVars, groupVars, gethVars, server, closed>>

(* logPipe, a line.                                                        *)
ReadLine(p) ==
    /\ Alive
    /\ task[p] = "run"
    /\ ~closed
    /\ unread[p] > 0
    /\ unread' = [unread EXCEPT ![p] = @ - 1]
    /\ UNCHANGED <<config, procVars, groupVars, gethVars, server, closed>>

(* Mutant: the end of the file is no error.                                *)
EndLogQuietly(p) ==
    /\ Alive
    /\ task[p] = "run"
    /\ closed \/ (Exited /\ unread[p] = 0)
    /\ Finish(p, "nil")
    /\ UNCHANGED <<config, procVars, gethVars, server, pipeVars>>

(* logPipe, the end: io.EOF, or a read of a closed file.                   *)
EndLog(p) ==
    /\ Alive
    /\ task[p] = "run"
    /\ closed \/ (Exited /\ unread[p] = 0)
    /\ Finish(p, "eof")
    /\ UNCHANGED <<config, procVars, gethVars, server, pipeVars>>

-----------------------------------------------------------------------------
(* server.ListenAndServe.  It always returns an error; after Shutdown,     *)
(* whether that came before or after it, http.ErrServerClosed.             *)
Listen ==
    /\ Alive
    /\ task["listen"] = "run"
    /\ \/ /\ server = "down"
          /\ server' = "up"
          /\ UNCHANGED groupVars
       \/ /\ server # "closed"
          /\ server' = "down"
          /\ Finish("listen", "listen")
       \/ /\ server = "closed"
          /\ Finish("listen", "serverClosed")
          /\ UNCHANGED server
    /\ UNCHANGED <<config, procVars, gethVars, pipeVars>>

(* server.Shutdown(ctx), with a context that is done: requests in flight   *)
(* are not waited for, and make it return the context's error.             *)
Shutdown ==
    /\ Alive
    /\ task["shutdown"] = "run"
    /\ cancelled
    /\ server' = "closed"
    /\ \E err \in {"nil", "canceled"} : Finish("shutdown", err)
    /\ UNCHANGED <<config, procVars, gethVars, pipeVars>>

(* log.Fatalf in a handler of a request: os.Exit, at once.  What a request *)
(* may still do after Shutdown is not followed.                            *)
Fatal ==
    /\ Alive
    /\ config.online /\ server = "up"
    /\ main' = "killed"
    /\ UNCHANGED <<config, handler, signalReceived, groupVars, gethVars, server,
                   pipeVars>>

-----------------------------------------------------------------------------
(* geth writes a line, and ends: by itself, or since it was interrupted.   *)
WriteLine(p) ==
    /\ geth = "running"
    /\ unread[p] < MaxUnread
    /\ unread' = [unread EXCEPT ![p] = @ + 1]
    /\ UNCHANGED <<config, procVars, groupVars, gethVars, server, closed>>

ExitGeth ==
    /\ geth = "running"
    /\ geth' \in {"clean", "crashed"}
    /\ UNCHANGED <<config, procVars, groupVars, interrupted, server, pipeVars>>

-----------------------------------------------------------------------------
MainStep == StartServices \/ Dial \/ Serve \/ WaitReturns

GethStep == OpenPipes \/ SpawnGeth \/ Reap

LogStep(p) == ReadLine(p) \/ EndLog(p)

Next ==
    \/ MainStep
    \/ Register
    \/ Signal
    \/ GethStep
    \/ Interrupt
    \/ \E p \in Pipes : LogStep(p) \/ WriteLine(p)
    \/ Listen
    \/ Shutdown
    \/ Fatal
    \/ ExitGeth

(* Goroutines that can run do.  geth ends some time after an interrupt     *)
(* that reached it.  Nothing makes it end otherwise, or write; nothing     *)
(* makes a server that serves fail, nothing sends a signal, and no request *)
(* is fatal.                                                               *)
Fairness ==
    /\ WF_vars(MainStep)
    /\ WF_vars(Register)
    /\ WF_vars(GethStep)
    /\ WF_vars(Interrupt)
    /\ \A p \in Pipes : WF_vars(LogStep(p))
    /\ WF_vars(server # "up" /\ Listen)
    /\ WF_vars(Shutdown)
    /\ WF_vars(interrupted /\ ExitGeth)

Spec == Init /\ [][Next]_vars /\ Fairness

-----------------------------------------------------------------------------
TypeOK ==
    /\ config \in Configs
    /\ main \in {"start", "dial", "serve", "wait", "returned", "failed", "killed"}
    /\ handler \in {"none", "spawned", "registered", "fired"}
    /\ signalReceived \in BOOLEAN
    /\ cancelled \in BOOLEAN
    /\ task \in [Tasks -> {"none", "run", "piped", "reap", "done"}]
    /\ firstErr \in {"none", "pipe", "start", "exit", "finished", "eof",
                     "listen", "serverClosed", "canceled"}
    /\ geth \in {"none", "running", "clean", "crashed"}
    /\ interrupted \in BOOLEAN
    /\ server \in {"down", "up", "closed"}
    /\ unread \in [Pipes -> 0..MaxUnread]
    /\ closed \in BOOLEAN

(* When the process ends the way it is meant to, through g.Wait, geth has  *)
(* ended: no signal that was handled, and no service that fails, in any    *)
(* order, leaves geth's database to a geth that nobody waits for           *)
(* (run.go:114-133, geth.go:82-89).  The ways out past g.Wait do: a signal *)
(* before signal.Notify, an error of NewClient (run.go:97), and log.Fatalf *)
(* in a handler (client.go:870).                                           *)
ExitLeavesNoGeth == main = "returned" => geth # "running"

(* The services live and die together: when one has returned (geth ended,  *)
(* well or not; the port is taken), or a signal was handled, the process   *)
(* ends, and geth with it.  "If we don't shutdown server in errgroup, it   *)
(* will never stop" (run.go:120-122).                                      *)
StopsTogether ==
    (signalReceived \/ \E t \in Tasks : task[t] = "done")
        ~> (~Alive /\ (main = "returned" => geth # "running"))
=============================================================================
