---------------------------- MODULE ServerLifecycle ----------------------------
(***************************************************************************)
(* The life of "treeman serve" (cmd/serve.go and internal/httpsrv/common): *)
(* how its process starts, serves, and ends, by a signal it catches or by  *)
(* one it does not.  Several processes follow each other at one address,   *)
(* and may overlap, as they do when a deployment is rolled over.           *)
(*                                                                         *)
(* A process has two goroutines of its own: "main", which runs serverRunE, *)
(* and the one it starts for s.Run.  net/http, the kernel and the signals  *)
(* are modelled as the code uses them.  What a request does is modelled in *)
(* TreeManager; here it is under way or over.                              *)
(***************************************************************************)
EXTENDS Naturals

CONSTANTS
    Procs,       \* the processes that are started, each once
    NoProc,      \* nobody
    Requests     \* the requests that clients send, each once

ASSUME ServerAssumption == NoProc \notin Procs

VARIABLES
    addr,        \* do they listen on a "tcp" port or on a "unix" socket?
    audit,       \* the audit file: "missing" as yet, "there", or "forbidden"
    main,        \* where serverRunE is, or how the process has ended
    runner,      \* where s.Run is
    caught,      \* does the channel of signals hold one?
    open,        \* what is open and has a deferred Close
    taken,       \* the process that bound the address: it has the port, or
                 \* created the socket's file, and may be gone
    status,      \* how far each request is
    at           \* the process that it is connected to

vars == <<addr, audit, main, runner, caught, open, taken, status, at>>

Endings == {"ok", "error", "fatal", "terminated", "killed"}
Stopping == {"drain", "closeNats", "closeAudit"}
Stages == {"off", "db", "audit", "nats", "stream", "wait"} \cup Stopping

TypeOK ==
    /\ addr \in {"tcp", "unix"}
    /\ audit \in {"missing", "there", "forbidden"}
    /\ main \in [Procs -> Stages \cup Endings]
    /\ runner \in [Procs -> {"none", "ready", "bound", "serve", "closed", "leaving",
                             "ended", "failed"}]
    /\ caught \in [Procs -> BOOLEAN]
    /\ open \in [Procs -> SUBSET {"audit", "nats"}]
    /\ taken \in Procs \cup {NoProc}
    /\ status \in [Requests -> {"new", "waiting", "serving", "answered", "refused", "cut"}]
    /\ at \in [Requests -> Procs \cup {NoProc}]
    /\ \A p \in Procs : runner[p] # "none" => main[p] \in {"wait"} \cup Stopping \cup Endings
    /\ \A r \in Requests : status[r] # "new" => at[r] # NoProc

Init ==
    /\ addr \in {"tcp", "unix"}
    /\ audit \in {"missing", "there", "forbidden"}
    /\ main = [p \in Procs |-> "off"]
    /\ runner = [p \in Procs |-> "none"]
    /\ caught = [p \in Procs |-> FALSE]
    /\ open = [p \in Procs |-> {}]
    /\ taken = NoProc
    /\ status = [r \in Requests |-> "new"]
    /\ at = [r \in Requests |-> NoProc]

Alive(p) == main[p] \in Stages \ {"off"}
Ended(p) == main[p] \in Endings

(* The requests a process has accepted and not answered.                   *)
Serving(p) == { r \in Requests : status[r] = "serving" /\ at[r] = p }

MainGoes(p, stage) == main' = [main EXCEPT ![p] = stage]
RunnerGoes(p, stage) == runner' = [runner EXCEPT ![p] = stage]

(* The process ends, and all its goroutines with it: requests under way    *)
(* are cut.  The kernel gives back the port, and no socket's file.         *)
End(p, how) ==
    /\ MainGoes(p, how)
    /\ open' = [open EXCEPT ![p] = {}]
    /\ taken' = IF addr = "tcp" /\ taken = p THEN NoProc ELSE taken
    /\ status' = [r \in Requests |->
                    IF at[r] # p THEN status[r]
                    ELSE IF status[r] = "serving" THEN "cut"
                    ELSE IF status[r] = "waiting" THEN "refused" ELSE status[r]]
    /\ UNCHANGED <<addr, audit, runner, caught, at>>

----------------------------------------------------------------------------
(* serverRunE.                                                             *)

(* os.Interrupt is notified from here on.                                  *)
Start(p) ==
    /\ main[p] = "off"
    /\ MainGoes(p, "db")
    /\ UNCHANGED <<addr, audit, runner, caught, open, taken, status, at>>

OpenDB(p) ==
    /\ main[p] = "db"
    /\ \/ End(p, "error")
       \/ /\ MainGoes(p, "audit")
          /\ UNCHANGED <<addr, audit, runner, caught, open, taken, status, at>>

(* It waits for the file to come into being, and for nothing else: the     *)
(* context it waits with is canceled below only.                           *)
OpenAudit(p) ==
    /\ main[p] = "audit"
    /\ audit # "missing"
    /\ \/ audit = "forbidden" /\ End(p, "error")
       \/ /\ audit = "there"
          /\ MainGoes(p, "nats")
          /\ open' = [open EXCEPT ![p] = {"audit"}]
          /\ UNCHANGED <<addr, audit, runner, caught, taken, status, at>>

(* Mutant of ConnectNats: s.Run is started first.                          *)
ConnectNatsServing(p) ==
    /\ main[p] = "nats"
    /\ MainGoes(p, "stream")
    /\ RunnerGoes(p, "ready")
    /\ open' = [open EXCEPT ![p] = @ \cup {"nats"}]
    /\ UNCHANGED <<addr, audit, caught, taken, status, at>>

ConnectNats(p) ==
    /\ main[p] = "nats"
    /\ \/ End(p, "error")
       \/ /\ MainGoes(p, "stream")
          /\ open' = [open EXCEPT ![p] = @ \cup {"nats"}]
          /\ UNCHANGED <<addr, audit, runner, caught, taken, status, at>>

(* JetStream, initNats, NewServer, and the goroutine for s.Run.            *)
Launch(p) ==
    /\ main[p] = "stream"
    /\ \/ End(p, "error")
       \/ End(p, "fatal")
       \/ /\ MainGoes(p, "wait")
          /\ RunnerGoes(p, "ready")
          /\ UNCHANGED <<addr, audit, caught, open, taken, status, at>>

(* Requests that are connected and not accepted when the listener closes.  *)
Refuse(p) ==
    status' = [r \in Requests |->
                 IF at[r] = p /\ status[r] = "waiting" THEN "refused" ELSE status[r]]

(* Mutant of Unbind: the socket's file is left to os.Remove.               *)
UnbindPortOnly == IF addr = "tcp" THEN NoProc ELSE taken

(* Closing a listener gives the port back; that of a socket removes the    *)
(* file at the path, whoever has created it.                               *)
Unbind == NoProc

(* The channel has a signal, and Shutdown begins: it closes the listeners  *)
(* that Serve has registered.                                              *)
SeeSignal(p) ==
    /\ main[p] = "wait"
    /\ caught[p]
    /\ caught' = [caught EXCEPT ![p] = FALSE]
    /\ MainGoes(p, "drain")
    /\ IF runner[p] = "serve"
         THEN RunnerGoes(p, "closed") /\ taken' = Unbind /\ Refuse(p)
         ELSE UNCHANGED <<runner, taken, status>>
    /\ UNCHANGED <<addr, audit, open, at>>

(* Mutant of Drained: Shutdown does not wait for requests under way.       *)
DrainedAtOnce(p) ==
    /\ main[p] = "drain"
    /\ MainGoes(p, "closeNats")
    /\ UNCHANGED <<addr, audit, runner, caught, open, taken, status, at>>

(* Shutdown returns when Serve has returned and no request is under way.   *)
Drained(p) ==
    /\ main[p] = "drain"
    /\ runner[p] # "closed"
    /\ Serving(p) = {}
    /\ MainGoes(p, "closeNats")
    /\ UNCHANGED <<addr, audit, runner, caught, open, taken, status, at>>

(* Mutants of TimeOut: the context of Shutdown has no timeout; the error   *)
(* is logged, and serverRunE returns.                                      *)
NeverTimeOut(p) == FALSE
TimeOutReturns(p) == main[p] = "drain" /\ End(p, "ok")

(* Or its time is over, perhaps just before it would look again, and       *)
(* l.Fatal ends the process.                                               *)
TimeOut(p) ==
    /\ main[p] = "drain"
    /\ End(p, "fatal")

(* The deferred calls: natconn.Close, fd.Close, signal.Stop and cancel.    *)
CloseNats(p) ==
    /\ main[p] = "closeNats"
    /\ open' = [open EXCEPT ![p] = @ \ {"nats"}]
    /\ MainGoes(p, "closeAudit")
    /\ UNCHANGED <<addr, audit, runner, caught, taken, status, at>>

CloseAudit(p) ==
    /\ main[p] = "closeAudit"
    /\ End(p, "ok")

MainStep(p) ==
    \/ OpenDB(p) \/ OpenAudit(p) \/ ConnectNats(p) \/ Launch(p) \/ SeeSignal(p)
    \/ Drained(p) \/ TimeOut(p) \/ CloseNats(p) \/ CloseAudit(p)

----------------------------------------------------------------------------
(* s.Run, net/http and the kernel below it.                                *)

(* Mutant of Listen: what is at the path is removed first.                 *)
ListenAfterRemove(p) ==
    /\ runner[p] = "ready"
    /\ Alive(p)
    /\ IF addr = "tcp" /\ taken # NoProc
         THEN RunnerGoes(p, "failed") /\ UNCHANGED taken
         ELSE RunnerGoes(p, "bound") /\ taken' = p
    /\ UNCHANGED <<addr, audit, main, caught, open, status, at>>

(* net.Listen fails when the address is in use, a file of a process that   *)
(* is gone included.  Run returns the error, it is logged, and the process *)
(* lives on and waits for a signal.  ListenAndServe, on a port, sees first *)
(* that Shutdown has been called.                                          *)
Listen(p) ==
    /\ runner[p] = "ready"
    /\ Alive(p)
    /\ IF addr = "tcp" /\ main[p] \in Stopping
         THEN RunnerGoes(p, "ended") /\ UNCHANGED taken
         ELSE IF taken # NoProc
         THEN RunnerGoes(p, "failed") /\ UNCHANGED taken
         ELSE RunnerGoes(p, "bound") /\ taken' = p
    /\ UNCHANGED <<addr, audit, main, caught, open, status, at>>

(* Serve registers the listener, or sees that Shutdown has been called and *)
(* closes it.                                                              *)
Serve(p) ==
    /\ runner[p] = "bound"
    /\ Alive(p)
    /\ IF main[p] \in Stopping
         THEN RunnerGoes(p, "leaving") /\ taken' = Unbind /\ Refuse(p)
         ELSE RunnerGoes(p, "serve") /\ UNCHANGED <<taken, status>>
    /\ UNCHANGED <<addr, audit, main, caught, open, at>>

(* Accept fails on the closed listener, and Serve returns.                 *)
ServeReturns(p) ==
    /\ runner[p] = "closed"
    /\ Alive(p)
    /\ RunnerGoes(p, "leaving")
    /\ UNCHANGED <<addr, audit, main, caught, open, taken, status, at>>

(* The deferred os.Remove of the socket's path, whoever has created what   *)
(* is there.  (The other deferred call closes what is closed already.)     *)
RemoveSocket(p) ==
    /\ runner[p] = "leaving"
    /\ Alive(p)
    /\ RunnerGoes(p, "ended")
    /\ taken' = IF addr = "unix" THEN NoProc ELSE taken
    /\ UNCHANGED <<addr, audit, main, caught, open, status, at>>

RunnerStep(p) == Listen(p) \/ Serve(p) \/ ServeReturns(p) \/ RemoveSocket(p)

----------------------------------------------------------------------------
(* The world around.                                                       *)

AuditAppears ==
    /\ audit = "missing"
    /\ audit' = "there"
    /\ UNCHANGED <<addr, main, runner, caught, open, taken, status, at>>

(* The channel has room for one signal; another one is dropped.            *)
Interrupt(p) ==
    /\ Alive(p)
    /\ ~caught[p]
    /\ caught' = [caught EXCEPT ![p] = TRUE]
    /\ UNCHANGED <<addr, audit, main, runner, open, taken, status, at>>

(* SIGTERM is not notified: it ends the process, like SIGKILL.             *)
Terminate(p) == Alive(p) /\ End(p, "terminated")
Kill(p) == Alive(p) /\ End(p, "killed")

(* A request is connected to the process that is bound to the address, is  *)
(* accepted, and answered.                                                 *)
Listens(p) == Alive(p) /\ runner[p] \in {"bound", "serve"}

Connect(r) ==
    /\ status[r] = "new"
    /\ taken # NoProc
    /\ Listens(taken)
    /\ status' = [status EXCEPT ![r] = "waiting"]
    /\ at' = [at EXCEPT ![r] = taken]
    /\ UNCHANGED <<addr, audit, main, runner, caught, open, taken>>

Accept(r) ==
    /\ status[r] = "waiting"
    /\ Alive(at[r]) /\ runner[at[r]] = "serve"
    /\ status' = [status EXCEPT ![r] = "serving"]
    /\ UNCHANGED <<addr, audit, main, runner, caught, open, taken, at>>

Reply(r) ==
    /\ status[r] = "serving"
    /\ status' = [status EXCEPT ![r] = "answered"]
    /\ UNCHANGED <<addr, audit, main, runner, caught, open, taken, at>>

Next ==
    \/ \E p \in Procs :
         Start(p) \/ MainStep(p) \/ RunnerStep(p) \/ Interrupt(p) \/ Terminate(p) \/ Kill(p)
    \/ \E r \in Requests : Connect(r) \/ Accept(r) \/ Reply(r)
    \/ AuditAppears

Spec == Init /\ [][Next]_vars

(* Go runs both goroutines of a process.  Nothing makes the audit file     *)
(* appear, and no request has to be answered.                              *)
FairSpec == Spec /\ \A p \in Procs : WF_vars(MainStep(p)) /\ WF_vars(RunnerStep(p))

----------------------------------------------------------------------------
(* What the server guarantees.                                             *)

(* cmd/serve.go: the audit file "shall be closed only if the gin server is *)
(* shut down", and the connection that requests publish on, too.           *)
RequestsHaveTheirFiles ==
    \A p \in Procs : Serving(p) # {} => open[p] = {"audit", "nats"}

(* A server that returns in order has answered all it has accepted: it     *)
(* cuts requests only when its time is over, or when it is killed.         *)
OrderlyEndsCutNothing ==
    \A r \in Requests : status[r] = "cut" => main[at[r]] \in {"fatal", "terminated", "killed"}

(* A socket whose process is gone, which keeps the next one from           *)
(* listening, was left by one that was killed, or that was told to stop    *)
(* before its Serve had begun, be it before or after net.Listen: Shutdown, *)
(* which main waits for, removes only what Serve has been given, and main  *)
(* does not wait for the deferred calls of the goroutine.                  *)
StaleSocketsHaveACause ==
    (taken # NoProc /\ ~Alive(taken)) =>
        main[taken] \in {"terminated", "killed"} \/ runner[taken] = "bound"

(* A server that serves, but not at its address any more, has lost it to   *)
(* one that went in order: a server that starts, or that is killed, takes  *)
(* it from nobody.                                                         *)
OnlyShutdownsCutOff ==
    \A p \in Procs :
        (Alive(p) /\ runner[p] = "serve" /\ taken # p) =>
            \E q \in Procs \ {p} : runner[q] \in {"closed", "leaving", "ended"}

(* A server that has caught an interrupt, while it starts or later, ends,  *)
(* however long its requests take.  But while there is no audit file, it   *)
(* does not see it.                                                        *)
InterruptsEndTheServer ==
    \A p \in Procs : (caught[p] /\ audit # "missing") ~> Ended(p)

----------------------------------------------------------------------------
(* What the repository says of the server and its code does not do.        *)

(* cmd/serve.go: "catch SIGTERM and SIGINT".                               *)
TerminationIsCaught ==
    \A r \in Requests : status[r] = "cut" => main[at[r]] # "terminated"

=============================================================================
