------------------------- MODULE ServerLifecycleProofs -------------------------
(***************************************************************************)
(* Proofs about ServerLifecycle, for any number of processes at one        *)
(* address and of requests.  The inductive invariant SInv ties the two     *)
(* goroutines of a process together: what is open at each stage of main,   *)
(* that Serve runs on while main waits only, and who has the address.      *)
(***************************************************************************)
EXTENDS ServerLifecycle, TLAPS

(* What is open at each stage.                                             *)
FilesByStage ==
    \A p \in Procs :
        /\ main[p] = "nats" => open[p] = {"audit"}
        /\ main[p] \in {"stream", "wait", "drain"} => open[p] = {"audit", "nats"}

(* Serve runs on until Shutdown closes its listener.                       *)
ServesWhileMainWaits ==
    \A p \in Procs :
        runner[p] = "serve" => main[p] \in {"wait", "terminated", "killed"}

(* Requests are under way in processes that have not closed anything yet.  *)
RequestsAreCarried ==
    \A r \in Requests :
        /\ status[r] = "serving" => main[at[r]] \in {"wait", "drain"}
        /\ status[r] = "cut" => main[at[r]] \in {"fatal", "terminated", "killed"}

(* Who has the address has bound it and not let go of it.                  *)
HolderIsBound ==
    taken # NoProc => runner[taken] \in {"bound", "serve"}

(* Who has bound the address, and has it no more, has lost it to one that  *)
(* let go of it.                                                           *)
LosersHaveARival ==
    \A p \in Procs :
        (Alive(p) /\ runner[p] \in {"bound", "serve"} /\ taken # p) =>
            \E q \in Procs \ {p} : runner[q] \in {"closed", "leaving", "ended"}

SInv ==
    /\ TypeOK
    /\ FilesByStage
    /\ ServesWhileMainWaits
    /\ RequestsAreCarried
    /\ HolderIsBound
    /\ StaleSocketsHaveACause
    /\ LosersHaveARival

LEMMA ServerInit == ServerAssumption /\ Init => SInv
  BY DEF ServerAssumption, Init, SInv, TypeOK, FilesByStage, ServesWhileMainWaits,
     RequestsAreCarried, HolderIsBound, StaleSocketsHaveACause, LosersHaveARival, Alive,
     Stages, Stopping, Endings

(* The end of a process.  One that returns in order, or fatally, is past   *)
(* Serve; and only where nothing is under way may it say "ok" or "error".  *)
LEMMA EndStep ==
    ASSUME SInv, NEW p \in Procs, NEW how \in Endings, Alive(p), End(p, how),
           how \in {"ok", "error"} => main[p] \notin {"wait", "drain"},
           how = "fatal" => main[p] # "wait"
    PROVE  SInv'
<1> USE DEF Stages, Stopping, Endings
<1>1. TypeOK'
  BY DEF SInv, TypeOK, End, MainGoes, Alive
<1>2. /\ main' = [main EXCEPT ![p] = how]
      /\ open' = [open EXCEPT ![p] = {}]
      /\ runner' = runner /\ at' = at
      /\ taken' = taken \/ taken' = NoProc
      /\ \A r \in Requests : /\ at[r] # p => status'[r] = status[r]
                             /\ at[r] = p => /\ status'[r] # "serving"
                                             /\ status'[r] = "cut" => status[r] \in {"serving", "cut"}
  BY DEF SInv, TypeOK, End, MainGoes
<1>3. FilesByStage' /\ ServesWhileMainWaits'
  BY <1>2 DEF SInv, TypeOK, FilesByStage, ServesWhileMainWaits, Alive
<1>4. RequestsAreCarried'
  BY <1>2 DEF SInv, TypeOK, RequestsAreCarried, Alive
<1>5. HolderIsBound' /\ StaleSocketsHaveACause'
  BY <1>2 DEF SInv, TypeOK, HolderIsBound, ServesWhileMainWaits, StaleSocketsHaveACause, Alive
<1>6. LosersHaveARival'
  BY <1>2 DEF SInv, TypeOK, LosersHaveARival, End, Alive
<1>7. QED
  BY <1>1, <1>3, <1>4, <1>5, <1>6 DEF SInv

LEMMA ServerStep == ServerAssumption /\ SInv /\ [Next]_vars => SInv'
<1> SUFFICES ASSUME ServerAssumption, SInv, [Next]_vars
             PROVE  SInv'
  OBVIOUS
<1> USE DEF Stages, Stopping, Endings, Alive, MainGoes, RunnerGoes
<1>1. ASSUME NEW p \in Procs, NEW how \in Endings, Alive(p), End(p, how),
             how \in {"ok", "error"} => main[p] \notin {"wait", "drain"},
             how = "fatal" => main[p] # "wait"
      PROVE  SInv'
  BY <1>1, EndStep
<1>2. ASSUME NEW p \in Procs, Start(p) \/ OpenDB(p) \/ OpenAudit(p) \/ ConnectNats(p) \/ Launch(p)
      PROVE  SInv'
  <2>1. CASE End(p, "error") \/ End(p, "fatal")
    <3>1. main[p] \in {"off", "db", "audit", "nats", "stream"}
      BY <1>2 DEF Start, OpenDB, OpenAudit, ConnectNats, Launch
    <3>2. main[p] # "off"
      BY <1>2, <2>1 DEF Start, End, OpenDB, OpenAudit, ConnectNats, Launch, SInv, TypeOK
    <3>3. QED
      BY <1>1, <2>1, <3>1, <3>2
  <2>2. CASE ~End(p, "error") /\ ~End(p, "fatal")
    <3>1. TypeOK'
      <4>1. CASE Start(p) \/ OpenDB(p) \/ OpenAudit(p)
        BY <2>2, <4>1 DEF Start, OpenDB, OpenAudit, SInv, TypeOK
      <4>2. CASE ConnectNats(p)
        BY <2>2, <4>2 DEF ConnectNats, SInv, TypeOK
      <4>3. CASE Launch(p)
        BY <2>2, <4>3 DEF Launch, SInv, TypeOK
      <4>4. QED
        BY <1>2, <4>1, <4>2, <4>3
    <3>2. FilesByStage' /\ ServesWhileMainWaits'
      BY <1>2, <2>2 DEF Start, OpenDB, OpenAudit, ConnectNats, Launch, SInv, TypeOK,
         FilesByStage, ServesWhileMainWaits
    <3>3. RequestsAreCarried'
      BY <1>2, <2>2 DEF Start, OpenDB, OpenAudit, ConnectNats, Launch, SInv, TypeOK,
         RequestsAreCarried
    <3>4. HolderIsBound' /\ StaleSocketsHaveACause' /\ LosersHaveARival'
      BY <1>2, <2>2 DEF Start, OpenDB, OpenAudit, ConnectNats, Launch, SInv, TypeOK,
         HolderIsBound, StaleSocketsHaveACause, LosersHaveARival
    <3>5. QED
      BY <3>1, <3>2, <3>3, <3>4 DEF SInv
  <2>3. QED
    BY <2>1, <2>2
<1>3. ASSUME NEW p \in Procs, SeeSignal(p)
      PROVE  SInv'
  <2>1. TypeOK'
    BY <1>3 DEF SInv, TypeOK, SeeSignal, Unbind, Refuse
  <2>2. FilesByStage' /\ ServesWhileMainWaits' /\ RequestsAreCarried'
    BY <1>3 DEF SInv, TypeOK, SeeSignal, Unbind, Refuse, FilesByStage, ServesWhileMainWaits,
       RequestsAreCarried
  <2>3. HolderIsBound' /\ StaleSocketsHaveACause' /\ LosersHaveARival'
    BY <1>3 DEF SInv, TypeOK, SeeSignal, Unbind, Refuse, HolderIsBound,
       StaleSocketsHaveACause, LosersHaveARival, ServerAssumption
  <2>4. QED
    BY <2>1, <2>2, <2>3 DEF SInv
<1>4. ASSUME NEW p \in Procs, Drained(p) \/ CloseNats(p)
      PROVE  SInv'
  <2>1. TypeOK'
    BY <1>4 DEF SInv, TypeOK, Drained, CloseNats
  <2>2. FilesByStage' /\ ServesWhileMainWaits' /\ RequestsAreCarried'
    BY <1>4 DEF SInv, TypeOK, Drained, CloseNats, Serving, FilesByStage, ServesWhileMainWaits,
       RequestsAreCarried
  <2>3. HolderIsBound' /\ StaleSocketsHaveACause' /\ LosersHaveARival'
    BY <1>4 DEF SInv, TypeOK, Drained, CloseNats, HolderIsBound, StaleSocketsHaveACause,
       LosersHaveARival
  <2>4. QED
    BY <2>1, <2>2, <2>3 DEF SInv
<1>5. ASSUME NEW p \in Procs, TimeOut(p) \/ CloseAudit(p) \/ Terminate(p) \/ Kill(p)
      PROVE  SInv'
  BY <1>1, <1>5 DEF TimeOut, CloseAudit, Terminate, Kill
<1>6. ASSUME NEW p \in Procs, RunnerStep(p)
      PROVE  SInv'
  <2>1. TypeOK'
    BY <1>6 DEF SInv, TypeOK, RunnerStep, Listen, Serve, ServeReturns, RemoveSocket, Unbind, Refuse
  <2>2. FilesByStage' /\ ServesWhileMainWaits' /\ RequestsAreCarried'
    BY <1>6 DEF SInv, TypeOK, RunnerStep, Listen, Serve, ServeReturns, RemoveSocket, Unbind,
       Refuse, FilesByStage, ServesWhileMainWaits, RequestsAreCarried
  <2>3. HolderIsBound' /\ StaleSocketsHaveACause'
    BY <1>6 DEF SInv, TypeOK, RunnerStep, Listen, Serve, ServeReturns, RemoveSocket, Unbind,
       Refuse, HolderIsBound, StaleSocketsHaveACause, ServerAssumption
  <2>4. LosersHaveARival'
    BY <1>6 DEF SInv, TypeOK, RunnerStep, Listen, Serve, ServeReturns, RemoveSocket, Unbind,
       Refuse, HolderIsBound, LosersHaveARival, ServerAssumption
  <2>5. QED
    BY <2>1, <2>2, <2>3, <2>4 DEF SInv
<1>7. ASSUME NEW r \in Requests, Connect(r) \/ Accept(r) \/ Reply(r)
      PROVE  SInv'
  <2>1. TypeOK'
    BY <1>7 DEF SInv, TypeOK, Connect, Accept, Reply
  <2>2. RequestsAreCarried'
    BY <1>7 DEF SInv, TypeOK, Connect, Accept, Reply, ServesWhileMainWaits, RequestsAreCarried
  <2>3. FilesByStage' /\ ServesWhileMainWaits'
    BY <1>7 DEF SInv, Connect, Accept, Reply, FilesByStage, ServesWhileMainWaits
  <2>4. HolderIsBound' /\ StaleSocketsHaveACause' /\ LosersHaveARival'
    BY <1>7 DEF SInv, Connect, Accept, Reply, HolderIsBound, StaleSocketsHaveACause,
       LosersHaveARival
  <2>5. QED
    BY <2>1, <2>2, <2>3, <2>4 DEF SInv
<1>8. ASSUME AuditAppears \/ (\E p \in Procs : Interrupt(p)) \/ UNCHANGED vars
      PROVE  SInv'
  <2>1. UNCHANGED <<addr, main, runner, open, taken, status, at>> /\ TypeOK'
    BY <1>8 DEF AuditAppears, Interrupt, vars, SInv, TypeOK
  <2>2. QED
    BY <2>1 DEF SInv, FilesByStage, ServesWhileMainWaits, RequestsAreCarried, HolderIsBound,
       StaleSocketsHaveACause, LosersHaveARival
<1>9. QED
  BY <1>2, <1>3, <1>4, <1>5, <1>6, <1>7, <1>8 DEF Next, MainStep

LEMMA ServerInvariant == Spec => []SInv
  BY ServerAssumption, ServerInit, ServerStep, PTL DEF Spec

(* The server's state is well typed, s.Run is started last, and requests   *)
(* that have gone out are connected.                                       *)
THEOREM TypeCorrect == Spec => []TypeOK
<1>1. SInv => TypeOK
  BY DEF SInv
<1>2. QED
  BY <1>1, ServerInvariant, PTL

(* As long as a request is under way, the audit file and the connection to *)
(* NATS are open (cmd/serve.go: "shall be closed only if the gin server is *)
(* shut down").                                                            *)
THEOREM FilesOutliveRequests == Spec => []RequestsHaveTheirFiles
<1>1. SInv => RequestsHaveTheirFiles
  BY DEF SInv, RequestsAreCarried, FilesByStage, RequestsHaveTheirFiles, Serving
<1>2. QED
  BY <1>1, ServerInvariant, PTL

(* A server that returns in order cuts no request.                         *)
THEOREM OrderCutsNothing == Spec => []OrderlyEndsCutNothing
<1>1. SInv => OrderlyEndsCutNothing
  BY DEF SInv, RequestsAreCarried, OrderlyEndsCutNothing
<1>2. QED
  BY <1>1, ServerInvariant, PTL

(* A socket of a process that is gone was left by a kill, or by a stop     *)
(* that came before Serve had begun.                                       *)
THEOREM NoStaleSocketWithoutCause == Spec => []StaleSocketsHaveACause
<1>1. SInv => StaleSocketsHaveACause
  BY DEF SInv
<1>2. QED
  BY <1>1, ServerInvariant, PTL

(* A server that serves is cut off from its address by one that goes in    *)
(* order only.                                                             *)
THEOREM NobodyElseCutsOff == Spec => []OnlyShutdownsCutOff
<1>1. SInv => OnlyShutdownsCutOff
  BY DEF SInv, LosersHaveARival, OnlyShutdownsCutOff
<1>2. QED
  BY <1>1, ServerInvariant, PTL

----------------------------------------------------------------------------
(* A server that has caught an interrupt ends.  The fairness of Go's       *)
(* scheduler is beyond the provers, the argument is not: main has stages   *)
(* to go, each of its steps leaves fewer, nothing takes it back, and it    *)
(* waits for nothing but the audit file.                                   *)
StagesToGo ==
    [off |-> 9, db |-> 8, audit |-> 7, nats |-> 6, stream |-> 5, wait |-> 4, drain |-> 3,
     closeNats |-> 2, closeAudit |-> 1, ok |-> 0, error |-> 0, fatal |-> 0,
     terminated |-> 0, killed |-> 0]

ToldToEnd(p) == Alive(p) /\ (caught[p] \/ main[p] \in Stopping)

(* The guards of main's steps.                                             *)
MainHasAStep(p) ==
    \/ main[p] \in {"db", "nats", "stream"} \cup Stopping
    \/ main[p] = "audit" /\ audit # "missing"
    \/ main[p] = "wait" /\ caught[p]

(* A step of somebody else, or of s.Run, leaves main alone or ends it.     *)
LEMMA OnlyMainGoesOn ==
    ASSUME TypeOK, Next, NEW p \in Procs, ~MainStep(p), ~Start(p)
    PROVE  /\ main'[p] = main[p] \/ main'[p] \in Endings
           /\ main'[p] = main[p] => (caught[p] => caught'[p])
<1> USE DEF TypeOK, End, MainGoes, RunnerGoes, Endings
<1>1. ASSUME NEW q \in Procs, q # p, Start(q) \/ MainStep(q)
      PROVE  main'[p] = main[p] /\ caught'[p] = caught[p]
  BY <1>1 DEF Start, MainStep, OpenDB, OpenAudit, ConnectNats, Launch, SeeSignal, Drained,
              TimeOut, CloseNats, CloseAudit
<1>2. ASSUME NEW q \in Procs, RunnerStep(q)
      PROVE  UNCHANGED <<main, caught>>
  BY <1>2 DEF RunnerStep, Listen, Serve, ServeReturns, RemoveSocket
<1>3. ASSUME NEW q \in Procs, Interrupt(q)
      PROVE  main'[p] = main[p] /\ (caught[p] => caught'[p])
  BY <1>3 DEF Interrupt
<1>4. ASSUME NEW q \in Procs, Terminate(q) \/ Kill(q)
      PROVE  /\ main'[p] = main[p] \/ main'[p] \in Endings
             /\ caught' = caught
  BY <1>4 DEF Terminate, Kill
<1>5. ASSUME NEW r \in Requests, Connect(r) \/ Accept(r) \/ Reply(r)
      PROVE  UNCHANGED <<main, caught>>
  BY <1>5 DEF Connect, Accept, Reply
<1>6. CASE AuditAppears
  BY <1>6 DEF AuditAppears
<1>7. QED
  BY <1>1, <1>2, <1>3, <1>4, <1>5, <1>6 DEF Next

(* Each step of main is a stage further, or its end.                       *)
LEMMA MainGoesOn ==
    ASSUME TypeOK, NEW p \in Procs, MainStep(p)
    PROVE  /\ StagesToGo[main'[p]] < StagesToGo[main[p]]
           /\ (caught[p] \/ main[p] \in Stopping) => ToldToEnd(p)' \/ Ended(p)'
<1> USE DEF TypeOK, MainGoes, StagesToGo, ToldToEnd, Ended, Alive, Stages, Stopping, Endings
<1>1. ASSUME NEW how \in Endings, End(p, how)
      PROVE  /\ main'[p] = how /\ Ended(p)'
             /\ StagesToGo[how] = 0
  BY <1>1 DEF End
<1>2. /\ main[p] \in {"db", "audit", "nats", "stream", "wait", "drain", "closeNats", "closeAudit"}
      /\ StagesToGo[main[p]] > 0
  BY DEF MainStep, OpenDB, OpenAudit, ConnectNats, Launch, SeeSignal, Drained, TimeOut,
         CloseNats, CloseAudit
<1>3. CASE \E how \in Endings : End(p, how)
  BY <1>1, <1>2, <1>3
<1>4. CASE ~\E how \in Endings : End(p, how)
  <2>1. CASE OpenDB(p)
    BY <1>4, <2>1 DEF OpenDB
  <2>2. CASE OpenAudit(p)
    BY <1>4, <2>2 DEF OpenAudit
  <2>3. CASE ConnectNats(p)
    BY <1>4, <2>3 DEF ConnectNats
  <2>4. CASE Launch(p)
    BY <1>4, <2>4 DEF Launch
  <2>5. CASE SeeSignal(p)
    BY <2>5 DEF SeeSignal
  <2>6. CASE Drained(p)
    BY <2>6 DEF Drained
  <2>7. CASE CloseNats(p)
    BY <2>7 DEF CloseNats
  <2>8. ~TimeOut(p) /\ ~CloseAudit(p)
    BY <1>4 DEF TimeOut, CloseAudit
  <2>9. QED
    BY <2>1, <2>2, <2>3, <2>4, <2>5, <2>6, <2>7, <2>8 DEF MainStep
<1>5. QED
  BY <1>3, <1>4

(* A server that was told to end comes nearer to its end with each step of *)
(* main, nothing takes it back, and it stays told, through a second        *)
(* interrupt, through what s.Run and the other processes do, and through   *)
(* requests that it never answers.                                         *)
THEOREM InterruptedServersEnd ==
    Spec => [][\A p \in Procs : ToldToEnd(p) =>
                 /\ MainStep(p) => StagesToGo[main'[p]] < StagesToGo[main[p]]
                 /\ main'[p] = main[p] \/ StagesToGo[main'[p]] < StagesToGo[main[p]]
                 /\ ToldToEnd(p)' \/ Ended(p)'
                 /\ audit # "missing" => audit' # "missing"]_vars
<1>1. ASSUME TypeOK, Next, NEW p \in Procs, ToldToEnd(p)
      PROVE  /\ MainStep(p) => StagesToGo[main'[p]] < StagesToGo[main[p]]
             /\ main'[p] = main[p] \/ StagesToGo[main'[p]] < StagesToGo[main[p]]
             /\ ToldToEnd(p)' \/ Ended(p)'
  <2>1. CASE MainStep(p)
    BY <1>1, <2>1, MainGoesOn DEF ToldToEnd
  <2>2. CASE ~MainStep(p)
    <3>1. main[p] \in Stages \ {"off"} /\ ~Start(p)
      BY <1>1 DEF ToldToEnd, Alive, Start
    <3>2. CASE main'[p] = main[p]
      BY <1>1, <2>2, <3>1, <3>2, OnlyMainGoesOn DEF ToldToEnd, Alive
    <3>3. CASE main'[p] \in Endings
      BY <2>2, <3>1, <3>3 DEF Ended, StagesToGo, Endings, Stages, Stopping
    <3>4. QED
      BY <1>1, <2>2, <3>1, <3>2, <3>3, OnlyMainGoesOn
  <2>3. QED
    BY <2>1, <2>2
<1>2. ASSUME TypeOK, Next, audit # "missing"
      PROVE  audit' # "missing"
  BY <1>2 DEF Next, Start, MainStep, OpenDB, OpenAudit, ConnectNats, Launch, SeeSignal,
     Drained, TimeOut, CloseNats, CloseAudit, RunnerStep, Listen, Serve, ServeReturns,
     RemoveSocket, Interrupt, Terminate, Kill, Connect, Accept, Reply, AuditAppears, End
<1>3. TypeOK /\ [Next]_vars =>
        [\A p \in Procs : ToldToEnd(p) =>
           /\ MainStep(p) => StagesToGo[main'[p]] < StagesToGo[main[p]]
           /\ main'[p] = main[p] \/ StagesToGo[main'[p]] < StagesToGo[main[p]]
           /\ ToldToEnd(p)' \/ Ended(p)'
           /\ audit # "missing" => audit' # "missing"]_vars
  BY <1>1, <1>2
<1>4. QED
  BY <1>3, TypeCorrect, PTL DEF Spec

(* The audit file is all that main ever waits for once it is told to end.  *)
LEMMA OnlyTheAuditFileIsAwaited ==
    Spec => [](\A p \in Procs : ToldToEnd(p) =>
                  MainHasAStep(p) \/ (main[p] = "audit" /\ audit = "missing"))
<1>1. TypeOK => \A p \in Procs : ToldToEnd(p) =>
                  MainHasAStep(p) \/ (main[p] = "audit" /\ audit = "missing")
  BY DEF TypeOK, ToldToEnd, MainHasAStep, Alive, Stages, Stopping
<1>2. QED
  BY <1>1, TypeCorrect, PTL

(* A server that is shutting down takes on no request: what it has to      *)
(* answer before it may return in order only gets less.                    *)
THEOREM ShutdownTakesNobodyOn ==
    Spec => [][\A p \in Procs : main[p] \in Stopping => Serving(p)' \subseteq Serving(p)]_vars
<1>1. ASSUME SInv, Next, NEW p \in Procs, main[p] \in Stopping, NEW r \in Requests,
             status'[r] = "serving", at'[r] = p
      PROVE  status[r] = "serving" /\ at[r] = p
  <2>1. runner[p] # "serve"
    BY <1>1 DEF SInv, ServesWhileMainWaits, Stopping
  <2>2. CASE \E q \in Requests : Connect(q) \/ Accept(q) \/ Reply(q)
    <3>1. PICK q \in Requests : Connect(q) \/ Accept(q) \/ Reply(q)
      BY <2>2
    <3>2. QED
      BY <1>1, <2>1, <3>1 DEF SInv, TypeOK, Connect, Accept, Reply
  <2>3. CASE ~\E q \in Requests : Connect(q) \/ Accept(q) \/ Reply(q)
    <3>1. at' = at
      BY <1>1, <2>3 DEF Next, Start, MainStep, OpenDB, OpenAudit, ConnectNats, Launch,
         SeeSignal, Drained, TimeOut, CloseNats, CloseAudit, RunnerStep, Listen, Serve,
         ServeReturns, RemoveSocket, Interrupt, Terminate, Kill, AuditAppears, End
    <3>2. ASSUME NEW q \in Procs, NEW how, End(q, how) \/ Refuse(q) \/ status' = status
          PROVE  status[r] = "serving"
      BY <1>1, <3>2 DEF End, Refuse
    <3>3. \E q \in Procs, how \in Endings : End(q, how) \/ Refuse(q) \/ status' = status
      BY <1>1, <2>3 DEF Next, Start, MainStep, OpenDB, OpenAudit, ConnectNats, Launch,
         SeeSignal, Drained, TimeOut, CloseNats, CloseAudit, RunnerStep, Listen, Serve,
         ServeReturns, RemoveSocket, Interrupt, Terminate, Kill, AuditAppears, Endings
    <3>4. QED
      BY <1>1, <3>1, <3>2, <3>3
  <2>4. QED
    BY <2>2, <2>3
<1>2. SInv /\ [Next]_vars =>
        [\A p \in Procs : main[p] \in Stopping => Serving(p)' \subseteq Serving(p)]_vars
  BY <1>1 DEF Serving
<1>3. QED
  BY <1>2, ServerInvariant, PTL DEF Spec

=============================================================================
