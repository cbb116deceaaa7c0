------------------------- MODULE AppControllerProofs -------------------------
(***************************************************************************)
(* What the application controller guarantees, proved for every tree,      *)
(* every base, every page size and every number of restarts.               *)
(***************************************************************************)
EXTENDS AppController, TreesProofs, SequenceTheorems, FiniteSetTheorems

----------------------------------------------------------------------------
(* Types.                                                                  *)

LEMMA TypeInit == Init => TypeOK
<1> SUFFICES ASSUME Init PROVE TypeOK
  OBVIOUS
<1>1. ForestTypeOK
  BY ControllerAssumption DEF Init, ForestInit, ForestTypeOK
<1>2. WatcherTypeOK
  <2>1. sub = "none" /\ pending = <<>> /\ canceled = FALSE
    BY DEF Init, WatcherInit
  <2>2. pending \in Seq(Fact) /\ Len(pending) = 0
    BY <2>1
  <2>3. sub \in SubStates
    BY <2>1 DEF SubStates
  <2>4. Len(pending) <= MaxPending
    BY <2>2, WatcherAssumption
  <2>5. canceled \in BOOLEAN
    BY ONLY <2>1, Zenon
  <2>6. QED
    BY <2>2, <2>3, <2>4, <2>5 DEF WatcherTypeOK
<1>3. called \in [Change -> Nat] /\ row \in [Dirs -> {"none", "live", "deleted"}]
  BY DEF Init
<1>4. /\ pc \in PCs /\ phase \in {"base", "subdirs", "event"}
      /\ outcome \in Outcomes /\ pc \notin {"store", "reconcile"}
      /\ Base \in planted /\ list \subseteq planted /\ work = NoWork
  BY ControllerAssumption DEF Init, ForestInit, PCs, Outcomes
<1>5. client \in BOOLEAN
  BY Zenon DEF Init
<1>6. runs \in 0 .. MaxRuns
  BY ControllerAssumption DEF Init
<1>7. QED
  BY <1>1, <1>2, <1>3, <1>4, <1>5, <1>6 DEF TypeOK

(* The tree's own steps, and those of the watcher.                         *)
LEMMA ForestStep ==
    ASSUME ForestTypeOK, ForestNext
    PROVE  ForestTypeOK' /\ planted \subseteq planted' /\ felled \subseteq felled'
<1>1. ASSUME NEW d \in Dirs, NEW p \in Dirs \cup {NoDir}, Plant(d, p)
      PROVE  ForestTypeOK' /\ planted \subseteq planted' /\ felled \subseteq felled'
  BY <1>1 DEF ForestTypeOK, Plant
<1>2. ASSUME NEW d \in Dirs, Fell(d)
      PROVE  ForestTypeOK' /\ planted \subseteq planted' /\ felled \subseteq felled'
  <2>1. Below(up, d, Standing) \subseteq Standing
    BY BelowIsClosed
  <2>2. QED
    BY <1>2, <2>1 DEF ForestTypeOK, Fell, Standing
<1>3. QED
  BY <1>1, <1>2 DEF ForestNext

(* A watcher only ever hands on what it has heard: messages from S stay    *)
(* messages from S.                                                        *)
WatcherMoves ==
    \/ Watch \/ WatcherStep \/ ReceiveEvent \/ ReceiveError
    \/ \E fact \in Fact : Hear(fact)

LEMMA WatcherHandsOn ==
    ASSUME WatcherTypeOK, WatcherMoves, NEW S, pending \in Seq(S),
           \A fact \in Fact : True(fact) => fact \in S
    PROVE  /\ sub' \in SubStates
           /\ pending' \in Seq(S)
           /\ Len(pending') <= MaxPending
<1> USE DEF WatcherTypeOK, Goes, SubStates
<1>1. CASE Watch \/ Subscribe \/ SubscribeFails \/ CloseErrs \/ CloseEvents \/ ReceiveError
  BY <1>1 DEF Watch, Subscribe, SubscribeFails, CloseErrs, CloseEvents, ReceiveError
<1>2. CASE Disconnect
  <2>1. PICK held \in 0 .. 1 : held <= Len(pending) /\ pending' = SubSeq(pending, 1, held)
    BY <1>2 DEF Disconnect
  <2>2. CASE held = 0
    BY <1>2, <2>1, <2>2, SubSeqEmpty, WatcherAssumption DEF Disconnect
  <2>3. CASE held = 1
    <3>1. \A i \in 1 .. held : pending[i] \in S
      BY <2>1, <2>3
    <3>2. pending' \in Seq(S) /\ Len(pending') = 1
      BY <2>1, <2>3, <3>1, SubSeqProperties
    <3>3. QED
      BY <1>2, <3>2, WatcherAssumption DEF Disconnect
  <2>4. QED
    BY <2>1, <2>2, <2>3
<1>3. CASE CallbackReturns \/ ReceiveEvent
  <2>1. pending # <<>> /\ pending' = Tail(pending) /\ sub' = sub
    BY <1>3 DEF CallbackReturns, ReceiveEvent, EventReady
  <2>2. pending' \in Seq(S) /\ Len(pending') = Len(pending) - 1
    BY <2>1, HeadTailProperties
  <2>3. QED
    BY <2>1, <2>2, WatcherAssumption
<1>4. ASSUME NEW fact \in Fact, Hear(fact)
      PROVE  /\ sub' \in SubStates
             /\ pending' \in Seq(S)
             /\ Len(pending') <= MaxPending
  <2>1. fact \in S
    BY <1>4 DEF Hear
  <2>2. QED
    BY <1>4, <2>1, WatcherAssumption DEF Hear
<1>5. QED
  BY <1>1, <1>2, <1>3, <1>4 DEF WatcherStep, WatcherMoves

----------------------------------------------------------------------------
(* The steps of Run keep its own variables within their types, and each    *)
(* step leaves the others alone or to a lemma above.                       *)
RunTypeOK ==
    /\ pc \in PCs
    /\ phase \in {"base", "subdirs", "event"}
    /\ list \subseteq planted
    /\ work \in Change \cup {NoWork}
    /\ pc \in {"store", "reconcile"} => work # NoWork
    /\ outcome \in Outcomes

StoreTypeOK ==
    /\ row \in [Dirs -> {"none", "live", "deleted"}]
    /\ called \in [Change -> Nat]

LEMMA StopsTypeOK ==
    ASSUME RunTypeOK, NEW how \in Outcomes, Stop(how)
    PROVE  RunTypeOK'
BY DEF RunTypeOK, Stop, PCs

LEMMA CallFailsTypeOK ==
    ASSUME RunTypeOK, CallFails
    PROVE  RunTypeOK'
BY StopsTypeOK DEF CallFails, Outcomes

LEMMA CallsStop == CallFails => pc' = "stopped" /\ list' = {}
BY DEF CallFails, Stop

(* After a directory has been dealt with Run is at one of these places.    *)
LEMMA ProceedsTo ==
    ASSUME RunTypeOK, NEW left, Proceed(left)
    PROVE  /\ pc' \in {"list", "watch", "select", "fetch"}
           /\ outcome' = outcome
BY DEF RunTypeOK, Proceed, PassIsOver, Goto

LEMMA RunStep ==
    ASSUME TypeOK, Next
    PROVE  RunTypeOK'
<1>1. RunTypeOK
  BY DEF TypeOK, RunTypeOK
<1> USE <1>1
<1>2. CASE Fetch
  <2>1. planted' = planted
    BY <1>2 DEF Fetch, forestVars
  <2>2. CASE CallFails
    BY <2>2, CallFailsTypeOK
  <2>3. CASE ~CallFails
    <3>1. PICK d \in Foremost(list) :
            /\ list' = list \ {d}
            /\ work' = [type |-> "create", dir |-> d]
            /\ IF UpToDate(d) THEN Proceed(list \ {d}) ELSE Goto("store")
            /\ phase' = phase
      BY <1>2, <2>3 DEF Fetch
    <3>2. work' \in Change /\ work' # NoWork
      BY <3>1, ControllerAssumption DEF Foremost, RunTypeOK, TypeOK, ForestTypeOK, Change, Fact
    <3>3. pc' \in PCs /\ outcome' = outcome
      BY <3>1, ProceedsTo DEF Goto, PCs
    <3>4. QED
      BY <2>1, <3>1, <3>2, <3>3 DEF RunTypeOK
  <2>4. QED
    BY <2>2, <2>3
<1>3. CASE GetChildren
  <2>1. CASE CallFails
    BY <2>1, CallFailsTypeOK
  <2>2. CASE ~CallFails
    <3>1. PICK page \in FirstPage(Below(up, Base, Standing) \ {Base}) :
            /\ list' = page
            /\ phase' = "subdirs"
            /\ IF page = {} THEN PassIsOver ELSE Goto("fetch")
            /\ work' = work
      BY <1>3, <2>2 DEF GetChildren
    <3>2. page \subseteq Standing
      BY <3>1, BelowIsClosed DEF FirstPage
    <3>3. planted' = planted
      BY <1>3 DEF GetChildren, forestVars
    <3>4. pc' \in {"watch", "select", "fetch"} /\ outcome' = outcome
      BY <3>1 DEF PassIsOver, Goto
    <3>5. QED
      BY <3>1, <3>2, <3>3, <3>4 DEF RunTypeOK, PCs, Standing
  <2>3. QED
    BY <2>1, <2>2
<1>4. CASE StoreWork
  <2>1. CASE CallFails
    BY <2>1, CallFailsTypeOK
  <2>2. CASE ~CallFails
    BY <1>4, <2>2 DEF StoreWork, Goto, forestVars, RunTypeOK, PCs
  <2>3. QED
    BY <2>1, <2>2
<1>5. CASE Reconcile
  BY <1>5, ProceedsTo DEF Reconcile, forestVars, RunTypeOK, PCs
<1>6. CASE Fails
  BY <1>6, CallFailsTypeOK DEF Fails
<1>7. CASE StartWatching
  BY <1>7 DEF StartWatching, Goto, forestVars, RunTypeOK, PCs
<1>8. CASE SeeDone
  BY <1>8, StopsTypeOK DEF SeeDone, Outcomes
<1>9. CASE SeeTick
  BY <1>9 DEF SeeTick, Goto, forestVars, RunTypeOK, PCs, TypeOK
<1>10. CASE SeeError
  BY <1>10, StopsTypeOK DEF SeeError, Outcomes
<1>11. CASE SeeEvent
  <2>1. CASE CallFails
    BY <2>1, CallFailsTypeOK
  <2>2. CASE ~CallFails
    <3>1. pending \in Seq(Fact) /\ pending # <<>>
      BY <1>11 DEF SeeEvent, ReceiveEvent, EventReady, TypeOK, WatcherTypeOK
    <3>2. Head(pending) \in Fact
      BY <3>1, HeadTailProperties
    <3>3. Head(pending).dir \in Dirs
      BY <3>2 DEF Fact
    <3>4. /\ phase' = "event" /\ list' = list /\ outcome' = outcome
          /\ \/ /\ work' = [type |-> IF Head(pending).type = "delete" THEN "delete" ELSE "create",
                            dir |-> Head(pending).dir]
                /\ pc' = "store"
             \/ work' = work /\ pc' = "select"
      BY <1>11, <2>2 DEF SeeEvent, Goto
    <3>5. [type |-> IF Head(pending).type = "delete" THEN "delete" ELSE "create",
           dir |-> Head(pending).dir] \in Change
      BY <3>3 DEF Change
    <3>6. Change \subseteq Fact
      BY DEF Change, Fact
    <3>7. planted' = planted
      BY <1>11 DEF SeeEvent, forestVars
    <3>8. QED
      BY <3>4, <3>5, <3>6, <3>7, ControllerAssumption DEF RunTypeOK, PCs
  <2>3. QED
    BY <2>1, <2>2
<1>12. CASE SeeNilEvent \/ CallbackPanics \/ Killed
  BY <1>12, StopsTypeOK DEF SeeNilEvent, CallbackPanics, Killed, Die, Outcomes
<1>13. CASE Start
  <2>1. /\ pc' \in {"fetch", "watch"} /\ phase' = "base" /\ outcome' = "none"
        /\ list' \subseteq {Base} /\ work' = work /\ planted' = planted
    BY <1>13 DEF Start, forestVars
  <2>2. QED
    BY <2>1 DEF RunTypeOK, PCs, Outcomes, TypeOK
<1>14. CASE Cancel \/ Watching
  BY <1>14 DEF Cancel, Watching, runVars, forestVars, RunTypeOK
<1>15. CASE TreeChanges
  <2>1. planted \subseteq planted'
    BY <1>15, ForestStep DEF TreeChanges, TypeOK
  <2>2. QED
    BY <1>15, <2>1 DEF TreeChanges, runVars, RunTypeOK
<1>16. QED
  BY <1>2, <1>3, <1>4, <1>5, <1>6, <1>7, <1>8, <1>9, <1>10, <1>11, <1>12, <1>13, <1>14, <1>15
  DEF Next, Run

(* Only the tree itself changes the tree, and it forgets nothing.          *)
LEMMA TreeStep ==
    ASSUME TypeOK, Next
    PROVE  ForestTypeOK' /\ planted \subseteq planted' /\ felled \subseteq felled'
<1>1. CASE TreeChanges
  BY <1>1, ForestStep DEF TreeChanges, TypeOK
<1>2. CASE ~TreeChanges
  <2>1. UNCHANGED forestVars
    BY <1>2 DEF Next, Run, Fetch, GetChildren, StoreWork, Reconcile, Fails, StartWatching,
       SeeDone, SeeTick, SeeError, SeeEvent, SeeNilEvent, Watching, CallbackPanics, Start,
       Killed, Cancel, Die
  <2>2. QED
    BY <2>1 DEF forestVars, ForestTypeOK, TypeOK
<1>3. QED
  BY <1>1, <1>2

(* Each step moves the watcher on, starts afresh without one, or leaves it *)
(* alone.                                                                  *)
LEMMA WatcherAlternatives ==
    ASSUME Next
    PROVE  \/ WatcherMoves
           \/ sub' = "none" /\ pending' = <<>>
           \/ UNCHANGED watcherVars
<1>1. CASE Run
  BY <1>1 DEF Run, Fetch, GetChildren, StoreWork, Reconcile, Fails, StartWatching, SeeDone,
     SeeTick, SeeError, SeeEvent, SeeNilEvent, Die, WatcherMoves
<1>2. CASE ~Run
  BY <1>2 DEF Next, Watching, CallbackPanics, Start, Killed, Cancel, Die, TreeChanges,
     WatcherMoves
<1>3. QED
  BY <1>1, <1>2

LEMMA WatcherStepsTypeOK ==
    ASSUME TypeOK, Next
    PROVE  WatcherTypeOK'
<1>1. WatcherTypeOK
  BY DEF TypeOK
<1>2. canceled' = canceled \/ canceled' = TRUE
  BY DEF Next, Run, Fetch, GetChildren, StoreWork, Reconcile, Fails, StartWatching, SeeDone,
     SeeTick, SeeError, SeeEvent, SeeNilEvent, Watching, CallbackPanics, Start, Killed,
     Cancel, Die, TreeChanges
<1>3. canceled' \in BOOLEAN
  BY <1>1, <1>2, Zenon DEF WatcherTypeOK
<1>4. sub' \in SubStates /\ pending' \in Seq(Fact) /\ Len(pending') <= MaxPending
  <2>1. CASE WatcherMoves
    BY <1>1, <2>1, WatcherHandsOn DEF WatcherTypeOK
  <2>2. CASE sub' = "none" /\ pending' = <<>>
    BY <2>2, WatcherAssumption DEF SubStates
  <2>3. CASE UNCHANGED watcherVars
    BY <1>1, <2>3 DEF watcherVars, WatcherTypeOK
  <2>4. QED
    BY <2>1, <2>2, <2>3, WatcherAlternatives
<1>5. QED
  BY <1>3, <1>4 DEF WatcherTypeOK

(* The store changes in two steps only, the count of calls in one.         *)
LEMMA StoreAlternatives ==
    ASSUME Next
    PROVE  /\ \/ row' = row
              \/ pc = "store" /\ Fits(work) /\ row' = Stored(work)
           /\ \/ called' = called
              \/ pc = "reconcile" /\ called' = [called EXCEPT ![work] = @ + 1]
<1>1. CASE StoreWork \/ Fails \/ Reconcile
  BY <1>1 DEF StoreWork, Fails, Reconcile
<1>2. CASE ~(StoreWork \/ Fails \/ Reconcile)
  BY <1>2 DEF Next, Run, Fetch, GetChildren, StartWatching, SeeDone, SeeTick, SeeError,
     SeeEvent, SeeNilEvent, Watching, CallbackPanics, Start, Killed, Cancel, Die, TreeChanges
<1>3. QED
  BY <1>1, <1>2

LEMMA StoreStepsTypeOK ==
    ASSUME TypeOK, Next
    PROVE  StoreTypeOK'
<1>1. StoreTypeOK /\ (pc \in {"store", "reconcile"} => work \in Change)
  BY DEF TypeOK, StoreTypeOK
<1>2. row' \in [Dirs -> {"none", "live", "deleted"}]
  BY <1>1, StoreAlternatives DEF StoreTypeOK, Stored
<1>3. called' \in [Change -> Nat]
  BY <1>1, StoreAlternatives DEF StoreTypeOK
<1>4. QED
  BY <1>2, <1>3 DEF StoreTypeOK

LEMMA ProcStepsTypeOK ==
    ASSUME TypeOK, Next
    PROVE  client' \in BOOLEAN /\ runs' \in 0 .. MaxRuns
<1>1. \/ UNCHANGED procVars
      \/ client' \in Clients /\ runs' = runs + 1 /\ runs < MaxRuns
  BY DEF Next, Run, Fetch, GetChildren, StoreWork, Reconcile, Fails, StartWatching, SeeDone,
     SeeTick, SeeError, SeeEvent, SeeNilEvent, Watching, CallbackPanics, Start, Killed,
     Cancel, Die, TreeChanges
<1>2. client \in BOOLEAN /\ Clients \subseteq BOOLEAN
  BY ControllerAssumption, Zenon DEF TypeOK
<1>3. client' \in BOOLEAN
  BY <1>1, <1>2, Zenon DEF procVars
<1>4. runs \in 0 .. MaxRuns /\ MaxRuns \in Nat
  BY ControllerAssumption DEF TypeOK
<1>5. runs' \in 0 .. MaxRuns
  BY <1>1, <1>4 DEF procVars
<1>6. QED
  BY <1>3, <1>5

LEMMA TypeStep == TypeOK /\ [Next]_vars => TypeOK'
<1>1. ASSUME TypeOK, Next PROVE TypeOK'
  <2>1. Base \in planted'
    BY <1>1, TreeStep DEF TypeOK
  <2>2. QED
    BY <1>1, <2>1, TreeStep, RunStep, WatcherStepsTypeOK, StoreStepsTypeOK, ProcStepsTypeOK
    DEF TypeOK, RunTypeOK, StoreTypeOK
<1>2. ASSUME TypeOK, UNCHANGED vars PROVE TypeOK'
  BY <1>2 DEF TypeOK, ForestTypeOK, WatcherTypeOK, vars, forestVars, watcherVars, runVars,
     procVars
<1>3. QED
  BY <1>1, <1>2

(* The controller's variables keep their types, and a step is only ever    *)
(* taken with work that it can do: nothing is persisted or reconciled      *)
(* unless a directory is in hand, and only directories there have been are *)
(* on the list of a pass.                                                  *)
THEOREM TypeCorrect == Spec => []TypeOK
BY TypeInit, TypeStep, PTL DEF Spec

----------------------------------------------------------------------------
(* The store tells the truth because everything that leads to it does: the *)
(* events that are on their way, and the change that is in hand.           *)
TrueFacts == { fact \in Fact : True(fact) }

Honest ==
    /\ StoreTellsTheTruth
    /\ pending \in Seq(TrueFacts)
    /\ pc = "store" => True(work)

LEMMA HonestInit == Init => Honest
<1> SUFFICES ASSUME Init PROVE Honest
  OBVIOUS
<1>1. pending \in Seq(TrueFacts) /\ pc # "store"
  BY DEF Init, WatcherInit
<1>2. StoreTellsTheTruth
  BY ControllerAssumption DEF Init, ForestInit, StoreTellsTheTruth, Tracked
<1>3. QED
  BY <1>1, <1>2 DEF Honest

LEMMA WorkStaysTrue ==
    ASSUME TypeOK, Honest, Next, pc' = "store"
    PROVE  True(work)'
<1>1. CASE Fetch
  <2>1. PICK d \in list : work' = [type |-> "create", dir |-> d] /\ planted' = planted
    BY <1>1, CallsStop DEF Fetch, Foremost, forestVars
  <2>2. QED
    BY <2>1 DEF TypeOK, True
<1>2. CASE SeeEvent
  <2>1. /\ work' = [type |-> IF Head(pending).type = "delete" THEN "delete" ELSE "create",
                    dir |-> Head(pending).dir]
        /\ planted' = planted /\ felled' = felled
    BY <1>2, CallsStop DEF SeeEvent, Goto, forestVars
  <2>2. pending # <<>>
    BY <1>2 DEF SeeEvent, ReceiveEvent, EventReady
  <2>3. True(Head(pending))
    BY <2>2, HeadTailProperties DEF Honest, TrueFacts
  <2>4. QED
    BY <2>1, <2>3 DEF True
<1>3. CASE ~(Fetch \/ SeeEvent)
  <2>1. pc = "store" /\ work' = work
    BY <1>3, CallsStop, ProceedsTo, TypeOK
    DEF Next, Run, GetChildren, StoreWork, Reconcile, Fails, StartWatching,
        SeeDone, SeeTick, SeeError, SeeNilEvent, Watching, CallbackPanics, Start,
        Killed, Cancel, Die, TreeChanges, Stop, Goto, PassIsOver, runVars, RunTypeOK, TypeOK
  <2>2. QED
    BY <2>1, TreeStep DEF Honest, True
<1>4. QED
  BY <1>1, <1>2, <1>3

LEMMA PendingStaysTrue ==
    ASSUME TypeOK, Honest, Next
    PROVE  (pending \in Seq(TrueFacts))'
<1>1. TrueFacts \subseteq TrueFacts'
  BY TreeStep DEF TrueFacts, True
<1>2. pending' \in Seq(TrueFacts)
  <2>1. CASE WatcherMoves
    BY <2>1, WatcherHandsOn DEF TypeOK, Honest, TrueFacts
  <2>2. CASE pending' = <<>>
    BY <2>2
  <2>3. CASE UNCHANGED watcherVars
    <3>1. pending' = pending
      BY <2>3 DEF watcherVars
    <3>2. QED
      BY <3>1 DEF Honest
  <2>4. QED
    BY <2>1, <2>2, <2>3, WatcherAlternatives
<1>3. QED
  BY <1>1, <1>2

LEMMA StoreStaysTrue ==
    ASSUME TypeOK, Honest, Next
    PROVE  StoreTellsTheTruth'
<1>1. CASE row' = row
  BY <1>1, TreeStep DEF Honest, StoreTellsTheTruth, Tracked
<1>2. CASE pc = "store" /\ row' = Stored(work)
  <2>1. True(work) /\ work \in Change
    BY <1>2 DEF Honest, TypeOK
  <2>2. felled \subseteq planted
    BY DEF TypeOK, ForestTypeOK
  <2>3. QED
    BY <1>2, <2>1, <2>2, TreeStep
    DEF Honest, StoreTellsTheTruth, Tracked, Stored, True, Change, TypeOK
<1>3. QED
  BY <1>1, <1>2, StoreAlternatives

LEMMA HonestStep == TypeOK /\ Honest /\ [Next]_vars => Honest'
<1>1. ASSUME TypeOK, Honest, Next PROVE Honest'
  BY <1>1, WorkStaysTrue, PendingStaysTrue, StoreStaysTrue DEF Honest
<1>2. ASSUME Honest, UNCHANGED vars PROVE Honest'
  BY <1>2 DEF Honest, StoreTellsTheTruth, Tracked, TrueFacts, True, vars, forestVars,
     watcherVars, runVars
<1>3. QED
  BY <1>1, <1>2

(* The store never says that a directory is deleted that is not, and never *)
(* tracks one there has not been, however late, often or out of order the  *)
(* application hears of changes, and wherever its process dies.            *)
THEOREM StoreIsHonest == Spec => []StoreTellsTheTruth
<1>1. Honest => StoreTellsTheTruth
  BY DEF Honest
<1>2. QED
  BY <1>1, TypeCorrect, HonestInit, HonestStep, PTL DEF Spec

----------------------------------------------------------------------------
(* A change is told once because it is stored first, and a change that is  *)
(* stored already does not fit.                                            *)
Once ==
    /\ ReconciledOnce
    /\ pc = "reconcile" =>
         /\ called[work] = 0
         /\ row[work.dir] = IF work.type = "create" THEN "live" ELSE "deleted"

LEMMA OnceInit == Init => Once
BY DEF Init, Once, ReconciledOnce

(* The only way to the reconciler is through the store.                    *)
LEMMA ReconcileAlternatives ==
    ASSUME TypeOK, Next, pc' = "reconcile"
    PROVE  \/ pc = "store" /\ Fits(work) /\ row' = Stored(work) /\ UNCHANGED <<called, work>>
           \/ UNCHANGED <<pc, row, called, work>>
BY CallsStop, ProceedsTo
DEF Next, Run, Fetch, GetChildren, StoreWork, Reconcile, Fails, StartWatching, SeeDone, SeeTick,
    SeeError, SeeEvent, SeeNilEvent, Watching, CallbackPanics, Start, Killed, Cancel, Die,
    TreeChanges, Stop, Goto, PassIsOver, runVars, RunTypeOK, TypeOK

LEMMA OnceStep == TypeOK /\ Once /\ [Next]_vars => Once'
<1>1. ASSUME TypeOK, Once, Next PROVE Once'
  <2>1. /\ row \in [Dirs -> {"none", "live", "deleted"}] /\ called \in [Change -> Nat]
        /\ pc \in {"store", "reconcile"} => work \in Change
    BY <1>1 DEF TypeOK
  <2>2. ReconciledOnce'
    <3>1. CASE row' = row /\ called' = called
      BY <1>1, <3>1 DEF Once, ReconciledOnce
    <3>2. CASE pc = "store" /\ Fits(work) /\ row' = Stored(work) /\ called' = called
      <4>1. work.dir \in Dirs /\ work.type \in {"create", "delete"}
        BY <2>1, <3>2 DEF Change
      <4>2. ASSUME NEW d \in Dirs
            PROVE  /\ row[d] \in {"live", "deleted"} => row'[d] \in {"live", "deleted"}
                   /\ row[d] = "deleted" => row'[d] = "deleted"
        BY <2>1, <3>2, <4>1 DEF Stored, Fits
      <4>3. ASSUME NEW c \in Change
            PROVE  /\ called'[c] <= 1
                   /\ called'[c] = 1 => row'[c.dir] \in IF c.type = "create"
                                                          THEN {"live", "deleted"} ELSE {"deleted"}
        <5>1. c.dir \in Dirs
          BY DEF Change
        <5>2. QED
          BY <1>1, <3>2, <4>2, <5>1 DEF Once, ReconciledOnce
      <4>4. QED
        BY <4>3 DEF ReconciledOnce
    <3>3. CASE pc = "reconcile" /\ row' = row /\ called' = [called EXCEPT ![work] = @ + 1]
      <4>1. ASSUME NEW c \in Change
            PROVE  /\ called'[c] <= 1
                   /\ called'[c] = 1 => row'[c.dir] \in IF c.type = "create"
                                                          THEN {"live", "deleted"} ELSE {"deleted"}
        BY <1>1, <2>1, <3>3 DEF Once, ReconciledOnce
      <4>2. QED
        BY <4>1 DEF ReconciledOnce
    <3>4. QED
      BY <1>1, <3>1, <3>2, <3>3, StoreAlternatives
  <2>3. ASSUME pc' = "reconcile"
        PROVE  /\ called'[work'] = 0
               /\ row'[work'.dir] = IF work'.type = "create" THEN "live" ELSE "deleted"
    <3>1. CASE pc = "store" /\ Fits(work) /\ row' = Stored(work) /\ UNCHANGED <<called, work>>
      <4>1. work.dir \in Dirs /\ work.type \in {"create", "delete"}
        BY <2>1, <3>1 DEF Change
      <4>2. called[work] # 1 /\ called[work] <= 1 /\ called[work] \in Nat
        BY <1>1, <2>1, <3>1, <4>1 DEF Fits, Once, ReconciledOnce
      <4>3. called[work] = 0
        BY <4>2
      <4>4. QED
        BY <2>1, <3>1, <4>1, <4>3 DEF Stored
    <3>2. CASE UNCHANGED <<pc, row, called, work>>
      BY <1>1, <2>3, <3>2 DEF Once
    <3>3. QED
      BY <1>1, <2>3, <3>1, <3>2, ReconcileAlternatives
  <2>4. QED
    BY <2>2, <2>3 DEF Once
<1>2. ASSUME Once, UNCHANGED vars PROVE Once'
  BY <1>2 DEF Once, ReconciledOnce, vars, runVars
<1>3. QED
  BY <1>1, <1>2

(* The application's reconciler accepts each change once at most, through  *)
(* duplicate events, passes and restarts, and only what is in its store.   *)
THEOREM NothingIsReconciledTwice == Spec => []ReconciledOnce
<1>1. Once => ReconciledOnce
  BY DEF Once
<1>2. QED
  BY <1>1, TypeCorrect, OnceInit, OnceStep, PTL DEF Spec

----------------------------------------------------------------------------
(* The controller tracks its own tree only, because a pass goes through a  *)
(* level after the one above it: whatever is on the list has a parent that *)
(* is tracked, or on the list, or being stored.                            *)
Scoped(d) == d = Base \/ d \in Seeded \/ (up[d] # NoDir /\ Tracked(up[d]))

BeingTracked(d) == pc = "store" /\ work = [type |-> "create", dir |-> d]

Reached(d) ==
    \/ d = Base
    \/ /\ up[d] # NoDir
       /\ up[d] \in list \/ Tracked(up[d]) \/ BeingTracked(up[d])

(* The first request of a pass is for the base, and its listing waits      *)
(* until the base is in the store.                                         *)
BaseFirst ==
    /\ phase = "base" => /\ list \subseteq {Base}
                         /\ pc \in {"store", "reconcile"} => work.dir = Base
    /\ pc = "reconcile" => Tracked(work.dir)
    /\ pc = "list" => Tracked(Base)

OwnTree ==
    /\ TracksItsTreeOnly
    /\ pc = "store" /\ work.type = "create" => Scoped(work.dir)
    /\ \A d \in list : Reached(d)
    /\ BaseFirst

LEMMA OwnTreeInit == Init => OwnTree
BY ControllerAssumption
DEF Init, OwnTree, TracksItsTreeOnly, Tracked, BaseFirst

(* Nothing that is tracked or planted moves, and nothing is forgotten.     *)
LEMMA NothingMoves ==
    ASSUME TypeOK, Honest, Next, NEW d \in Dirs
    PROVE  /\ d \in planted => up'[d] = up[d]
           /\ Tracked(d) => Tracked(d)' /\ d \in planted
<1>1. d \in planted => up'[d] = up[d]
  <2>1. CASE UNCHANGED forestVars
    BY <2>1 DEF forestVars
  <2>2. CASE TreeChanges
    BY <2>2 DEF TreeChanges, ForestNext, Plant, Fell, TypeOK, ForestTypeOK
  <2>3. QED
    BY <2>1, <2>2 DEF Next, Run, Fetch, GetChildren, StoreWork, Reconcile, Fails,
       StartWatching, SeeDone, SeeTick, SeeError, SeeEvent, SeeNilEvent, Watching,
       CallbackPanics, Start, Killed, Cancel, Die
<1>2. Tracked(d) => d \in planted
  BY DEF Honest, StoreTellsTheTruth
<1>3. Tracked(d) => Tracked(d)'
  BY StoreAlternatives DEF Tracked, Stored, TypeOK
<1>4. QED
  BY <1>1, <1>2, <1>3

LEMMA ScopeStays ==
    ASSUME TypeOK, Honest, Next, NEW d \in planted, Scoped(d)
    PROVE  Scoped(d)'
<1>1. d \in Dirs /\ up[d] \in Dirs \cup {NoDir}
  BY DEF TypeOK, ForestTypeOK
<1>2. up'[d] = up[d]
  BY <1>1, NothingMoves
<1>3. ASSUME NEW p \in Dirs, Tracked(p) PROVE row'[p] # "none"
  BY <1>3, NothingMoves DEF Tracked
<1>4. QED
  BY <1>1, <1>2, <1>3 DEF Scoped, Tracked

LEMMA TracksItsTreeStays ==
    ASSUME TypeOK, Honest, OwnTree, Next
    PROVE  TracksItsTreeOnly'
<1> SUFFICES ASSUME NEW d \in Dirs, Tracked(d)'
             PROVE  Scoped(d)'
  BY DEF TracksItsTreeOnly, Scoped
<1>1. CASE Tracked(d)
  <2>1. d \in planted
    BY <1>1, NothingMoves
  <2>2. Scoped(d)
    BY <1>1 DEF OwnTree, TracksItsTreeOnly, Scoped
  <2>3. QED
    BY <2>1, <2>2, ScopeStays
<1>2. CASE ~Tracked(d)
  <2>1. pc = "store" /\ Fits(work) /\ row' = Stored(work)
    BY <1>2, StoreAlternatives DEF Tracked
  <2>2. d = work.dir /\ work \in Change
    BY <1>2, <2>1 DEF Tracked, Stored, TypeOK
  <2>3. work.type = "create"
    BY <1>2, <2>1, <2>2 DEF Fits, Tracked, Change
  <2>4. d \in planted /\ Scoped(d)
    BY <2>1, <2>2, <2>3 DEF Honest, True, OwnTree
  <2>5. QED
    BY <2>4, ScopeStays
<1>3. QED
  BY <1>1, <1>2

LEMMA WorkStaysInScope ==
    ASSUME TypeOK, Honest, OwnTree, Next, pc' = "store", work'.type = "create"
    PROVE  Scoped(work.dir)'
<1>1. CASE Fetch
  <2>1. PICK d \in Foremost(list) : work' = [type |-> "create", dir |-> d] /\ pc = "fetch"
    BY <1>1, CallsStop DEF Fetch
  <2>2. d \in planted /\ Scoped(d)
    BY <2>1 DEF Foremost, OwnTree, Reached, BeingTracked, Scoped, TypeOK
  <2>3. QED
    BY <2>1, <2>2, ScopeStays
<1>2. CASE SeeEvent
  <2>1. /\ Relevant(Head(pending))
        /\ work' = [type |-> IF Head(pending).type = "delete" THEN "delete" ELSE "create",
                    dir |-> Head(pending).dir]
    BY <1>2, CallsStop DEF SeeEvent, Goto
  <2>2. pending # <<>>
    BY <1>2 DEF SeeEvent, ReceiveEvent, EventReady
  <2>3. True(Head(pending)) /\ Head(pending) \in Fact
    BY <2>2, HeadTailProperties DEF Honest, TrueFacts
  <2>4. Head(pending).type # "delete" /\ Head(pending).dir \in Dirs
    BY <2>1, <2>3 DEF Fact
  <2>5. Head(pending).dir \in planted
    BY <2>3, <2>4 DEF True
  <2>6. Scoped(Head(pending).dir)
    BY <2>1, <2>4 DEF Relevant, OwnTree, TracksItsTreeOnly, Scoped
  <2>7. QED
    BY <2>1, <2>5, <2>6, ScopeStays
<1>3. CASE ~(Fetch \/ SeeEvent)
  <2>1. pc = "store" /\ work' = work
    BY <1>3, CallsStop, ProceedsTo, TypeOK
    DEF Next, Run, GetChildren, StoreWork, Reconcile, Fails, StartWatching,
        SeeDone, SeeTick, SeeError, SeeNilEvent, Watching, CallbackPanics, Start,
        Killed, Cancel, Die, TreeChanges, Stop, Goto, PassIsOver, runVars, RunTypeOK, TypeOK
  <2>2. work.dir \in planted /\ Scoped(work.dir)
    BY <2>1 DEF Honest, True, OwnTree
  <2>3. QED
    BY <2>1, <2>2, ScopeStays
<1>4. QED
  BY <1>1, <1>2, <1>3

(* Whatever is left on the list stays reached.                             *)
LEMMA ListAlternatives ==
    ASSUME TypeOK, Next
    PROVE  \/ list' \subseteq {Base}
           \/ Fetch
           \/ GetChildren
           \/ /\ list' = list
              /\ \/ UNCHANGED <<pc, work>>
                 \/ pc # "store"
                 \/ row' = Stored(work)
BY CallsStop
DEF Next, Run, Fetch, GetChildren, StoreWork, Reconcile, Fails, StartWatching, SeeDone, SeeTick,
    SeeError, SeeEvent, SeeNilEvent, Watching, CallbackPanics, Start, Killed, Cancel, Die,
    TreeChanges, Stop, runVars

LEMMA ListStaysReached ==
    ASSUME TypeOK, Honest, OwnTree, Next
    PROVE  (\A d \in list : Reached(d))'
<1> SUFFICES ASSUME NEW d \in list', d # Base
             PROVE  Reached(d)'
  BY DEF Reached
<1>0. up \in [Dirs -> Dirs \cup {NoDir}] /\ planted \subseteq Dirs /\ list \subseteq planted
  BY DEF TypeOK, ForestTypeOK
<1>1. CASE list' \subseteq {Base}
  BY <1>1
<1>2. CASE Fetch
  <2>1. PICK e \in Foremost(list) :
          /\ list' = list \ {e}
          /\ work' = [type |-> "create", dir |-> e]
          /\ UpToDate(e) \/ pc' = "store"
          /\ pc = "fetch"
    BY <1>2, CallsStop DEF Fetch, Goto
  <2>2. d \in list /\ Reached(d)
    BY <2>1 DEF OwnTree
  <2>3. d \in Dirs /\ up'[d] = up[d] /\ up[d] \in Dirs
    BY <1>0, <2>2, NothingMoves DEF Reached
  <2>4. CASE up[d] = e
    <3>1. CASE UpToDate(e)
      <4>1. Tracked(e)'
        BY <2>3, <2>4, <3>1, NothingMoves DEF UpToDate, Tracked
      <4>2. QED
        BY <2>3, <2>4, <4>1, ControllerAssumption DEF Reached, Tracked
    <3>2. CASE pc' = "store"
      BY <2>1, <2>3, <2>4, <3>2, ControllerAssumption DEF Reached, BeingTracked
    <3>3. QED
      BY <2>1, <3>1, <3>2
  <2>5. CASE up[d] # e /\ up[d] \in list
    BY <2>1, <2>3, <2>5, ControllerAssumption DEF Reached
  <2>6. CASE Tracked(up[d])
    <3>1. Tracked(up[d])'
      BY <2>3, <2>6, NothingMoves
    <3>2. QED
      BY <2>3, <3>1, ControllerAssumption DEF Reached, Tracked
  <2>7. QED
    BY <2>1, <2>2, <2>4, <2>5, <2>6 DEF Reached, BeingTracked
<1>3. CASE GetChildren
  <2>1. CASE CallFails
    BY <2>1, CallsStop
  <2>2. CASE ~CallFails
    <3>1. /\ list' \in FirstPage(Below(up, Base, Standing) \ {Base})
          /\ Base \notin felled /\ pc = "list"
          /\ UNCHANGED forestVars /\ row' = row
      BY <1>3, <2>2 DEF GetChildren
    <3>2. Base \in Standing /\ d \in Below(up, Base, Standing)
      BY <3>1 DEF Standing, FirstPage, TypeOK
    <3>3. up[d] \in Below(up, Base, Standing)
      BY <3>2, BelowIsReached
    <3>4. up[d] \in Dirs /\ up[d] # NoDir
      BY <1>0, <3>3, BelowIsClosed, ControllerAssumption DEF Standing
    <3>5. up[d] = Base \/ up[d] \in list'
      BY <3>1, <3>3 DEF FirstPage
    <3>6. Tracked(Base)'
      BY <3>1 DEF OwnTree, BaseFirst, Tracked
    <3>7. QED
      BY <3>1, <3>4, <3>5, <3>6 DEF Reached, Tracked, forestVars
  <2>3. QED
    BY <2>1, <2>2
<1>4. CASE /\ list' = list
           /\ \/ UNCHANGED <<pc, work>>
              \/ pc # "store"
              \/ row' = Stored(work)
  <2>1. Reached(d)
    BY <1>4 DEF OwnTree
  <2>2. d \in Dirs /\ up'[d] = up[d] /\ up[d] \in Dirs /\ up[d] # NoDir
    BY <1>0, <1>4, <2>1, NothingMoves, ControllerAssumption DEF Reached
  <2>3. CASE up[d] \in list
    BY <1>4, <2>2, <2>3 DEF Reached
  <2>4. CASE Tracked(up[d])
    <3>1. Tracked(up[d])'
      BY <2>2, <2>4, NothingMoves
    <3>2. QED
      BY <2>2, <3>1 DEF Reached, Tracked
  <2>5. CASE BeingTracked(up[d])
    <3>1. CASE UNCHANGED <<pc, work>>
      BY <2>2, <2>5, <3>1 DEF Reached, BeingTracked
    <3>2. CASE row' = Stored(work)
      BY <2>2, <2>5, <3>2 DEF Reached, BeingTracked, Stored, Tracked, TypeOK
    <3>3. QED
      BY <1>4, <2>5, <3>1, <3>2 DEF BeingTracked
  <2>6. QED
    BY <2>1, <2>3, <2>4, <2>5 DEF Reached
<1>5. QED
  BY <1>1, <1>2, <1>3, <1>4, ListAlternatives

LEMMA BaseStaysFirst ==
    ASSUME TypeOK, Honest, Once, OwnTree, Next
    PROVE  BaseFirst'
<1>1. (pc = "reconcile" => Tracked(work.dir))'
  <2>1. SUFFICES ASSUME pc' = "reconcile" PROVE Tracked(work.dir)'
    OBVIOUS
  <2>2. CASE row' = Stored(work) /\ work' = work /\ pc = "store"
    BY <2>2, ControllerAssumption DEF Stored, Tracked, TypeOK, Change
  <2>3. CASE UNCHANGED <<pc, row, work>>
    BY <2>1, <2>3 DEF OwnTree, BaseFirst, Tracked
  <2>4. QED
    BY <2>1, <2>2, <2>3, ReconcileAlternatives
<1>2. (phase = "base" => /\ list \subseteq {Base}
                         /\ pc \in {"store", "reconcile"} => work.dir = Base)'
  <2>1. SUFFICES ASSUME phase' = "base"
                 PROVE  /\ list' \subseteq {Base}
                        /\ pc' \in {"store", "reconcile"} => work'.dir = Base
    OBVIOUS
  <2>2. CASE CallFails
    BY <2>2, CallsStop
  <2>3. CASE Fetch /\ ~CallFails
    <3>1. PICK d \in Foremost(list) :
            list' = list \ {d} /\ work' = [type |-> "create", dir |-> d] /\ phase' = phase
      BY <2>3 DEF Fetch
    <3>2. QED
      BY <2>1, <3>1 DEF Foremost, OwnTree, BaseFirst
  <2>4. CASE (StoreWork \/ Cancel \/ Watching \/ TreeChanges) /\ ~CallFails
    <3>1. /\ list' = list /\ phase' = phase /\ work' = work
          /\ pc' = pc \/ pc = "store"
      BY <2>4 DEF StoreWork, Cancel, Watching, TreeChanges, runVars
    <3>2. QED
      BY <2>1, <3>1 DEF OwnTree, BaseFirst
  <2>5. CASE Reconcile \/ StartWatching
    <3>1. list' = list /\ phase' = phase /\ pc' \notin {"store", "reconcile"}
      <4>1. RunTypeOK
        BY DEF TypeOK, RunTypeOK
      <4>2. QED
        BY <2>5, <4>1, ProceedsTo DEF Reconcile, StartWatching, Goto
    <3>2. QED
      BY <2>1, <3>1 DEF OwnTree, BaseFirst
  <2>6. CASE Start \/ SeeTick
    BY <2>6 DEF Start, SeeTick, Goto
  <2>7. CASE SeeDone \/ SeeError \/ SeeNilEvent \/ CallbackPanics \/ Killed
    BY <2>7 DEF SeeDone, SeeError, SeeNilEvent, CallbackPanics, Killed, Die, Stop
  <2>8. CASE (GetChildren \/ SeeEvent) /\ ~CallFails
    BY <2>1, <2>8 DEF GetChildren, SeeEvent
  <2>9. QED
    BY <2>2, <2>3, <2>4, <2>5, <2>6, <2>7, <2>8 DEF Next, Run, Fails
<1>3. (pc = "list" => Tracked(Base))'
  <2>1. SUFFICES ASSUME pc' = "list" PROVE Tracked(Base)'
    OBVIOUS
  <2>2. CASE Fetch
    <3>1. PICK d \in Foremost(list) : UpToDate(d) /\ phase = "base" /\ row' = row
      BY <2>1, <2>2, CallsStop DEF Fetch, Goto, Proceed, PassIsOver, TypeOK
    <3>2. d = Base
      BY <3>1 DEF Foremost, OwnTree, BaseFirst
    <3>3. QED
      BY <3>1, <3>2 DEF UpToDate, Tracked
  <2>3. CASE Reconcile
    <3>1. phase = "base" /\ pc = "reconcile" /\ row' = row
      BY <2>1, <2>3 DEF Reconcile, Goto, Proceed, PassIsOver, TypeOK
    <3>2. QED
      BY <3>1 DEF OwnTree, BaseFirst, Tracked
  <2>4. CASE ~(Fetch \/ Reconcile)
    <3>1. pc = "list"
      BY <2>1, <2>4, CallsStop
      DEF Next, Run, GetChildren, StoreWork, Fails, StartWatching, SeeDone, SeeTick, SeeError,
          SeeEvent, SeeNilEvent, Watching, CallbackPanics, Start, Killed, Cancel, Die,
          TreeChanges, Stop, Goto, PassIsOver, runVars
    <3>2. Tracked(Base)
      BY <3>1 DEF OwnTree, BaseFirst
    <3>3. QED
      BY <3>2, NothingMoves, ControllerAssumption
  <2>5. QED
    BY <2>2, <2>3, <2>4
<1>4. QED
  BY <1>1, <1>2, <1>3 DEF BaseFirst

LEMMA OwnTreeStep == TypeOK /\ Honest /\ Once /\ OwnTree /\ [Next]_vars => OwnTree'
<1>1. ASSUME TypeOK, Honest, Once, OwnTree, Next PROVE OwnTree'
  BY <1>1, TracksItsTreeStays, WorkStaysInScope, ListStaysReached, BaseStaysFirst DEF OwnTree
<1>2. ASSUME OwnTree, UNCHANGED vars PROVE OwnTree'
  BY <1>2 DEF OwnTree, TracksItsTreeOnly, Scoped, Reached, BeingTracked, BaseFirst, Tracked,
     vars, forestVars, runVars
<1>3. QED
  BY <1>1, <1>2

(* The application follows its own part of the tree only: whatever events  *)
(* arrive, in whatever order, whatever page its listing is cut to, and     *)
(* wherever a pass ends, a tracked directory is the base, was seeded, or   *)
(* has a tracked parent.                                                   *)
THEOREM ControllerKeepsToItsTree == Spec => []TracksItsTreeOnly
<1>1. OwnTree => TracksItsTreeOnly
  BY DEF OwnTree
<1>2. QED
  BY <1>1, TypeCorrect, HonestInit, HonestStep, OnceInit, OnceStep, OwnTreeInit, OwnTreeStep,
     PTL DEF Spec

----------------------------------------------------------------------------
(* What the application was not told of is what runs were busy with when   *)
(* they ended, and each of them was busy with one change.                  *)
Lost == Untold \ (IF pc = "reconcile" THEN {work} ELSE {})

FewLost ==
    /\ IsFiniteSet(Lost)
    /\ Cardinality(Lost) <= IF pc = "stopped" THEN runs ELSE runs - 1

LEMMA FewLostInit == Init => FewLost
<1> SUFFICES ASSUME Init PROVE FewLost
  OBVIOUS
<1>1. Untold = {}
  BY DEF Init, Untold, Tracked, Change
<1>2. Lost = {} /\ pc = "stopped" /\ runs = 0
  BY <1>1 DEF Init, Lost
<1>3. QED
  BY <1>2, FS_EmptySet DEF FewLost

(* Storing a change adds it, and nothing else, to what is to be told.      *)
LEMMA StoringIsUntold ==
    ASSUME TypeOK, Once, pc = "store", Fits(work), row' = Stored(work), called' = called
    PROVE  Untold \ {work} = Untold' \ {work} /\ work \notin Untold
<1>1. /\ work \in Change /\ work.dir \in Dirs /\ work.type \in {"create", "delete"}
      /\ row \in [Dirs -> {"none", "live", "deleted"}]
  BY DEF TypeOK, Change
<1>2. work \notin Untold
  BY <1>1 DEF Untold, Fits, Tracked
<1>3. ASSUME NEW c \in Change, c # work
      PROVE  c \in Untold <=> c \in Untold'
  <2>1. c.dir \in Dirs /\ (c.dir = work.dir => c.type # work.type)
    BY <1>1, <1>3 DEF Change
  <2>2. QED
    BY <1>1, <2>1 DEF Untold, Stored, Fits, Tracked, Change
<1>4. QED
  BY <1>2, <1>3 DEF Untold

LEMMA TellingIsToldOf ==
    ASSUME TypeOK, Once, pc = "reconcile", row' = row, called' = [called EXCEPT ![work] = @ + 1]
    PROVE  Untold' = Untold \ {work}
<1>1. work \in Change /\ called \in [Change -> Nat] /\ called[work] = 0
  BY DEF TypeOK, Once
<1>2. called'[work] = 1 /\ \A c \in Change : c # work => called'[c] = called[c]
  BY <1>1
<1>3. QED
  BY <1>2 DEF Untold, Tracked

LEMMA LostAlternatives ==
    ASSUME TypeOK, Once, Next
    PROVE  \/ Lost' = Lost /\ runs' = runs /\ (pc' = "stopped" <=> pc = "stopped")
           \/ /\ pc = "stopped" /\ pc' # "stopped"
              /\ Lost' = Lost /\ runs' = runs + 1
           \/ /\ pc # "stopped" /\ pc' = "stopped"
              /\ Lost' \subseteq Lost \cup {work} /\ runs' = runs
<1>1. row' = row /\ called' = called => Untold' = Untold
  BY DEF Untold, Tracked
<1>2. ASSUME pc # "stopped", pc' = "stopped", runs' = runs, called' = called,
             row' = row \/ (pc = "store" /\ Fits(work) /\ row' = Stored(work))
      PROVE  Lost' \subseteq Lost \cup {work}
  BY <1>1, <1>2, StoringIsUntold DEF Lost
<1>3. ASSUME UNCHANGED <<row, called>>,
             \/ UNCHANGED <<pc, work>>
             \/ pc # "reconcile" /\ pc' # "reconcile"
      PROVE  Lost' = Lost
  BY <1>1, <1>3 DEF Lost
<1>4. CASE StoreWork /\ ~CallFails
  <2>1. /\ pc = "store" /\ Fits(work) /\ row' = Stored(work) /\ called' = called
        /\ pc' = "reconcile" /\ work' = work /\ runs' = runs
    BY <1>4 DEF StoreWork, Goto, procVars
  <2>2. QED
    BY <2>1, StoringIsUntold DEF Lost
<1>5. CASE Reconcile
  <2>1. RunTypeOK
    BY DEF TypeOK, RunTypeOK
  <2>2. /\ pc = "reconcile" /\ pc' \notin {"stopped", "reconcile"} /\ runs' = runs
        /\ row' = row /\ called' = [called EXCEPT ![work] = @ + 1]
    BY <1>5, <2>1, ProceedsTo DEF Reconcile, procVars
  <2>3. QED
    BY <2>2, TellingIsToldOf DEF Lost
<1>6. CASE Start
  BY <1>3, <1>6 DEF Start
<1>7. CASE \/ (Fetch \/ GetChildren \/ StoreWork \/ SeeEvent) /\ CallFails
           \/ Fails \/ SeeDone \/ SeeError \/ SeeNilEvent \/ CallbackPanics \/ Killed
  <2>1. /\ pc' = "stopped" /\ runs' = runs /\ called' = called
        /\ row' = row \/ (pc = "store" /\ Fits(work) /\ row' = Stored(work))
    BY <1>7, CallsStop DEF Fetch, GetChildren, StoreWork, SeeEvent, Fails, SeeDone, SeeError,
       SeeNilEvent, CallbackPanics, Killed, Die, Stop, procVars
  <2>2. CASE pc # "stopped"
    BY <1>2, <2>1, <2>2
  <2>3. CASE pc = "stopped"
    BY <1>3, <2>1, <2>3
  <2>4. QED
    BY <2>2, <2>3
<1>8. CASE \/ (Fetch \/ GetChildren \/ SeeEvent) /\ ~CallFails
           \/ SeeTick \/ StartWatching
  <2>1. /\ pc \notin {"stopped", "reconcile"} /\ pc' \notin {"stopped", "reconcile"}
        /\ UNCHANGED <<row, called, runs>>
    <3>1. RunTypeOK
      BY DEF TypeOK, RunTypeOK
    <3>2. QED
      BY <1>8, <3>1, ProceedsTo DEF Fetch, GetChildren, SeeEvent, SeeTick, StartWatching, Goto,
         PassIsOver, procVars
  <2>2. QED
    BY <1>3, <2>1
<1>9. CASE Watching \/ Cancel \/ TreeChanges
  BY <1>3, <1>9 DEF Watching, Cancel, TreeChanges, runVars, procVars
<1>10. QED
  BY <1>4, <1>5, <1>6, <1>7, <1>8, <1>9 DEF Next, Run

LEMMA FewLostStep == TypeOK /\ Once /\ FewLost /\ [Next]_vars => FewLost'
<1>1. ASSUME TypeOK, Once, FewLost, Next PROVE FewLost'
  <2>1. runs \in Nat /\ IsFiniteSet(Lost) /\ Cardinality(Lost) \in Nat
    BY <1>1, FS_CardinalityType, ControllerAssumption DEF TypeOK, FewLost
  <2>2. CASE /\ Lost' = Lost
             /\ \/ runs' = runs /\ (pc' = "stopped" <=> pc = "stopped")
                \/ pc = "stopped" /\ pc' # "stopped" /\ runs' = runs + 1
    BY <1>1, <2>1, <2>2 DEF FewLost
  <2>3. CASE /\ pc # "stopped" /\ pc' = "stopped"
             /\ Lost' \subseteq Lost \cup {work} /\ runs' = runs
    <3>1. /\ IsFiniteSet(Lost \cup {work})
          /\ Cardinality(Lost \cup {work}) <= Cardinality(Lost) + 1
      BY <2>1, FS_AddElement
    <3>2. IsFiniteSet(Lost') /\ Cardinality(Lost') <= Cardinality(Lost \cup {work})
      BY <2>3, <3>1, FS_Subset
    <3>3. Cardinality(Lost') \in Nat /\ Cardinality(Lost \cup {work}) \in Nat
      BY <3>1, <3>2, FS_CardinalityType
    <3>4. Cardinality(Lost) <= runs - 1
      BY <1>1, <2>3 DEF FewLost
    <3>5. Cardinality(Lost') <= runs
      BY <2>1, <3>1, <3>2, <3>3, <3>4
    <3>6. QED
      BY <2>3, <3>2, <3>5 DEF FewLost
  <2>4. QED
    BY <1>1, <2>2, <2>3, LostAlternatives
<1>2. ASSUME FewLost, UNCHANGED vars PROVE FewLost'
  BY <1>2 DEF FewLost, Lost, Untold, Tracked, vars, runVars, procVars
<1>3. QED
  BY <1>1, <1>2

(* What the store has and the application was never told of is what runs   *)
(* were busy with when they ended: each run leaves one change behind at    *)
(* most, whatever fails and whenever the process is killed.                *)
THEOREM RunsLoseOneChange == Spec => []OneChangeLostPerRun
<1>1. TypeOK /\ FewLost => OneChangeLostPerRun
  <2>1. SUFFICES ASSUME TypeOK, FewLost PROVE OneChangeLostPerRun
    OBVIOUS
  <2>2. runs \in Nat /\ IsFiniteSet(Lost) /\ Cardinality(Lost) \in Nat
    BY <2>1, FS_CardinalityType, ControllerAssumption DEF TypeOK, FewLost
  <2>3. CASE pc = "reconcile"
    <3>1. Untold \subseteq Lost \cup {work}
      BY DEF Lost
    <3>2. /\ IsFiniteSet(Lost \cup {work})
          /\ Cardinality(Lost \cup {work}) <= Cardinality(Lost) + 1
      BY <2>2, FS_AddElement
    <3>3. IsFiniteSet(Untold) /\ Cardinality(Untold) <= Cardinality(Lost \cup {work})
      BY <3>1, <3>2, FS_Subset
    <3>4. Cardinality(Untold) \in Nat /\ Cardinality(Lost \cup {work}) \in Nat
      BY <3>2, <3>3, FS_CardinalityType
    <3>5. Cardinality(Lost) <= runs - 1
      BY <2>1, <2>3 DEF FewLost
    <3>6. QED
      BY <2>2, <3>2, <3>3, <3>4, <3>5 DEF OneChangeLostPerRun
  <2>4. CASE pc # "reconcile"
    <3>1. Untold = Lost
      BY <2>4 DEF Lost
    <3>2. QED
      BY <2>1, <2>2, <3>1 DEF FewLost, OneChangeLostPerRun
  <2>5. QED
    BY <2>3, <2>4
<1>2. QED
  BY <1>1, TypeCorrect, OnceInit, OnceStep, FewLostInit, FewLostStep, PTL DEF Spec

----------------------------------------------------------------------------
(* A canceled controller ends.  The fairness of Go's scheduler is beyond   *)
(* the provers, the argument is not: once the context is done each step of *)
(* Run brings it nearer to its end, no other step takes it back, and Run   *)
(* is never without a step to take.                                        *)
StepsToGo ==
    [stopped |-> 0, fetch |-> 1, list |-> 1, store |-> 1, select |-> 2, watch |-> 3,
     reconcile |-> 4]

(* The guards of Run's steps.  A pass that has directories to look at can  *)
(* look at one, and a list of children has a first page.                   *)
RunHasAStep ==
    CASE pc = "fetch"  -> canceled \/ Foremost(list) # {}
      [] pc = "list"   -> \/ canceled \/ Base \in felled
                          \/ FirstPage(Below(up, Base, Standing) \ {Base}) # {}
      [] pc = "watch"  -> sub = "none"
      [] pc = "select" -> canceled \/ client \/ EventReady \/ ErrorReady \/ ErrsClosed
      [] OTHER         -> pc \in {"store", "reconcile"}

(* The tree is a forest: some member of every set of directories lies      *)
(* below no other.                                                         *)
Rooted ==
    /\ \A d \in planted : up[d] \in planted \cup {NoDir}
    /\ \A S \in SUBSET planted : S # {} => Foremost(S) # {}

LEMMA RootedInit == Init => Rooted
<1> SUFFICES ASSUME Init
             PROVE  Rooted
  OBVIOUS
<1>1. /\ up = First.parent /\ planted = { d \in Dirs : First.born[d] > 0 }
      /\ First.born \in [Dirs -> Nat]
  BY ControllerAssumption DEF Init, ForestInit
<1>2. \A d \in planted : up[d] \in planted \cup {NoDir}
  BY <1>1, ControllerAssumption
<1>3. ASSUME NEW S \in SUBSET planted, S # {}
      PROVE  Foremost(S) # {}
  <2>1. PICK ages : ages = { n \in Nat : \E d \in S : n = First.born[d] }
    OBVIOUS
  <2>2. PICK n \in ages : \A k \in ages : n <= k
    BY <1>1, <1>3, <2>1, LeastNumber
  <2>3. PICK d \in S : n = First.born[d]
    BY <2>1, <2>2
  <2>4. ASSUME up[d] \in S
        PROVE  FALSE
    <3>1. up[d] # NoDir /\ First.born[up[d]] < First.born[d] /\ First.born[d] \in Nat
      BY <1>1, <2>4, ControllerAssumption
    <3>2. First.born[up[d]] \in ages
      BY <1>1, <2>1, <2>4
    <3>3. n <= First.born[up[d]] /\ First.born[up[d]] \in Nat
      BY <2>1, <2>2, <3>2
    <3>4. QED
      BY <2>3, <3>1, <3>3
  <2>5. QED
    BY <2>4 DEF Foremost
<1>4. QED
  BY <1>2, <1>3 DEF Rooted

LEMMA RootedStep ==
    ASSUME TypeOK, Rooted, Next
    PROVE  Rooted'
<1>1. ASSUME NEW d \in Dirs, NEW p \in Dirs \cup {NoDir}, Plant(d, p)
      PROVE  Rooted'
  <2>1. /\ d \notin planted /\ p \in planted \cup {NoDir} /\ planted' = planted \cup {d}
        /\ \A x \in Dirs : up'[x] = IF x = d THEN p ELSE up[x]
        /\ planted \subseteq Dirs /\ d # NoDir
    BY <1>1, ControllerAssumption DEF Plant, TypeOK, ForestTypeOK
  <2>2. \A x \in planted' : up'[x] \in planted' \cup {NoDir}
    BY <2>1 DEF Rooted
  <2>3. ASSUME NEW S \in SUBSET planted', S # {}
        PROVE  \E x \in S : up'[x] \notin S
    <3>1. CASE S = {d}
      BY <2>1, <3>1
    <3>2. CASE S # {d}
      <4>0. PICK y \in S : y # d
        BY <2>3, <3>2
      <4>r. PICK rest : rest = S \ {d}
        OBVIOUS
      <4>1. rest = S \ {d} /\ rest \in SUBSET planted /\ rest # {}
        BY <2>1, <4>0, <4>r
      <4>2. PICK x \in rest : up[x] \notin rest
        BY <4>1 DEF Rooted, Foremost
      <4>3. x \in planted /\ x \in Dirs /\ up[x] # d
        BY <2>1, <4>1, <4>2 DEF Rooted
      <4>4. up'[x] \notin S
        BY <2>1, <4>1, <4>2, <4>3
      <4>5. QED
        BY <4>1, <4>4
    <3>3. QED
      BY <3>1, <3>2
  <2>4. QED
    BY <2>2, <2>3 DEF Rooted, Foremost
<1>2. CASE UNCHANGED <<up, planted>>
  BY <1>2 DEF Rooted, Foremost
<1>3. CASE ~TreeChanges
  BY <1>2, <1>3 DEF Next, Run, Fetch, GetChildren, StoreWork, Reconcile, Fails, StartWatching,
     SeeDone, SeeTick, SeeError, SeeEvent, SeeNilEvent, Watching, CallbackPanics, Start,
     Killed, Cancel, Die, forestVars
<1>4. QED
  BY <1>1, <1>2, <1>3 DEF TreeChanges, ForestNext, Fell

(* Whatever is found has a first page.  The fullest page that holds, with  *)
(* each of its members, those found above it is one: if it had room, the   *)
(* foremost of those left out would fit.                                   *)
LEMMA FirstPageIsThere ==
    ASSUME Rooted, NEW found \in SUBSET planted
    PROVE  FirstPage(found) # {}
<1> DEFINE Fitting ==
      { page \in SUBSET found :
          /\ IsFiniteSet(page) /\ Cardinality(page) <= PageSize
          /\ \A d \in page : up[d] \in found => up[d] \in page }
<1>1. {} \in Fitting /\ PageSize \in Nat
  BY FS_EmptySet, ControllerAssumption
<1>2. \A page \in Fitting : Cardinality(page) \in Nat /\ PageSize - Cardinality(page) \in Nat
  BY <1>1, FS_CardinalityType
<1>3. PICK rooms : rooms = { n \in Nat : \E page \in Fitting : n = PageSize - Cardinality(page) }
  OBVIOUS
<1>4. rooms \in SUBSET Nat /\ rooms # {}
  BY <1>1, <1>2, <1>3
<1>5. PICK n \in rooms : \A k \in rooms : n <= k
  BY <1>4, LeastNumber
<1>6. PICK page \in Fitting : n = PageSize - Cardinality(page)
  BY <1>3, <1>5
<1>7. ASSUME page # found, Cardinality(page) # PageSize
      PROVE  FALSE
  <2>1. PICK out : out = found \ page /\ out \in SUBSET planted /\ out # {}
    BY <1>7
  <2>2. PICK d \in out : up[d] \notin out
    BY <2>1 DEF Rooted, Foremost
  <2>3. PICK more : more = page \cup {d}
    OBVIOUS
  <2>4. IsFiniteSet(more) /\ Cardinality(more) = Cardinality(page) + 1
    BY <2>1, <2>3, FS_AddElement
  <2>5. Cardinality(more) <= PageSize
    BY <1>1, <1>2, <1>7, <2>4
  <2>6. more \in SUBSET found /\ \A x \in more : up[x] \in found => up[x] \in more
    BY <2>1, <2>2, <2>3
  <2>7. more \in Fitting
    BY <2>4, <2>5, <2>6
  <2>8. PageSize - Cardinality(more) \in rooms
    BY <1>2, <1>3, <2>7
  <2>9. QED
    BY <1>1, <1>2, <1>5, <1>6, <2>4, <2>8
<1>8. page \in FirstPage(found)
  BY <1>6, <1>7 DEF FirstPage
<1>9. QED
  BY <1>8

(* A pass that is looking at directories has one left, and Watch is called *)
(* once by each run.                                                       *)
Going ==
    /\ pc = "fetch" => list # {}
    /\ pc = "watch" => sub = "none"

LEMMA GoingInit == Init => Going
BY DEF Init, Going

LEMMA PassEnds == PassIsOver => pc' # "fetch" /\ (pc' = "watch" => sub = "none")
BY DEF PassIsOver, Goto

LEMMA ProceedsOn ==
    ASSUME TypeOK, NEW left, Proceed(left)
    PROVE  /\ pc' = "fetch" => left # {}
           /\ pc' = "watch" => sub = "none"
<1>1. phase \in {"base", "subdirs", "event"}
  BY DEF TypeOK
<1>2. CASE phase = "base"
  BY <1>2 DEF Proceed, Goto
<1>3. CASE phase = "event"
  BY <1>3 DEF Proceed, Goto
<1>4. CASE phase = "subdirs"
  BY <1>4, PassEnds DEF Proceed, Goto
<1>5. QED
  BY <1>1, <1>2, <1>3, <1>4

LEMMA GoingStep ==
    ASSUME TypeOK, Going, Next
    PROVE  Going'
<1> USE DEF Going
<1>1. CASE pc' = "stopped"
  BY <1>1
<1>2. CASE Fetch /\ ~CallFails
  <2>1. PICK d : /\ list' = list \ {d}
                 /\ Proceed(list \ {d}) \/ pc' = "store"
                 /\ sub' = sub
    BY <1>2 DEF Fetch, Goto, watcherVars
  <2>2. QED
    BY <2>1, ProceedsOn
<1>3. CASE GetChildren /\ ~CallFails
  <2>1. /\ sub' = sub
        /\ \/ list' = {} /\ PassIsOver
           \/ list' # {} /\ pc' = "fetch"
    BY <1>3 DEF GetChildren, Goto, watcherVars
  <2>2. QED
    BY <2>1, PassEnds
<1>4. CASE Reconcile
  BY <1>4, ProceedsOn DEF Reconcile, watcherVars
<1>5. CASE StoreWork /\ ~CallFails
  BY <1>5 DEF StoreWork, Goto
<1>6. CASE StartWatching \/ SeeTick
  BY <1>6 DEF StartWatching, SeeTick, Goto
<1>7. CASE SeeEvent /\ ~CallFails
  BY <1>7 DEF SeeEvent, Goto
<1>8. CASE Start
  BY <1>8 DEF Start
<1>9. CASE Watching
  <2>1. UNCHANGED <<pc, list>> /\ (sub = "none" => sub' = "none")
    BY <1>9 DEF Watching, runVars, WatcherStep, Hear, Subscribe, SubscribeFails, Disconnect,
                CloseErrs, CloseEvents, CallbackReturns, Goes
  <2>2. QED
    BY <2>1
<1>10. CASE Cancel \/ TreeChanges
  BY <1>10 DEF Cancel, TreeChanges, runVars, watcherVars
<1>11. CASE Fails \/ SeeDone \/ SeeError \/ SeeNilEvent \/ CallbackPanics \/ Killed
  BY <1>1, <1>11, CallsStop DEF Fails, SeeDone, SeeError, SeeNilEvent, CallbackPanics,
     Killed, Die, Stop
<1>12. QED
  BY <1>1, <1>2, <1>3, <1>4, <1>5, <1>6, <1>7, <1>8, <1>9, <1>10, <1>11, CallsStop
  DEF Next, Run

(* Run is never stuck: unless it has no client, and waits at the select    *)
(* for something to happen, it has a step to take, whatever has become of  *)
(* the tree, the store and the watcher meanwhile.                          *)
THEOREM ControllerIsNeverStuck ==
    Spec => []((pc # "stopped" /\ (pc = "select" => canceled \/ client)) => RunHasAStep)
<1>1. Spec => []Rooted
  <2>1. TypeOK /\ Rooted /\ [Next]_vars => Rooted'
    BY RootedStep DEF vars, forestVars, Rooted, Foremost
  <2>2. QED
    BY <2>1, RootedInit, TypeCorrect, PTL DEF Spec
<1>2. Spec => []Going
  <2>1. TypeOK /\ Going /\ [Next]_vars => Going'
    BY GoingStep DEF vars, runVars, watcherVars, Going
  <2>2. QED
    BY <2>1, GoingInit, TypeCorrect, PTL DEF Spec
<1>3. TypeOK /\ Rooted /\ Going =>
        ((pc # "stopped" /\ (pc = "select" => canceled \/ client)) => RunHasAStep)
  <2> SUFFICES ASSUME TypeOK, Rooted, Going, pc # "stopped", pc = "select" => canceled \/ client
               PROVE  RunHasAStep
    OBVIOUS
  <2>1. pc \in PCs /\ list \in SUBSET planted
    BY DEF TypeOK
  <2>2. CASE pc = "fetch"
    BY <2>1, <2>2 DEF RunHasAStep, Going, Rooted
  <2>3. CASE pc = "list"
    <3>1. Below(up, Base, Standing) \ {Base} \in SUBSET planted
      BY BelowIsClosed DEF Standing
    <3>2. QED
      BY <2>3, <3>1, FirstPageIsThere DEF RunHasAStep
  <2>4. CASE pc \in {"store", "reconcile", "watch", "select"}
    BY <2>4 DEF RunHasAStep, Going
  <2>5. QED
    BY <2>1, <2>2, <2>3, <2>4 DEF PCs
<1>4. QED
  BY <1>1, <1>2, <1>3, TypeCorrect, PTL

LEMMA CanceledStep ==
    ASSUME TypeOK, canceled, Next
    PROVE  /\ canceled'
           /\ Run => StepsToGo[pc'] < StepsToGo[pc]
           /\ pc' = pc \/ StepsToGo[pc'] < StepsToGo[pc]
<1> USE DEF StepsToGo
<1>1. canceled'
  BY DEF Next, Run, Fetch, GetChildren, StoreWork, Reconcile, Fails, StartWatching, SeeDone,
     SeeTick, SeeError, SeeEvent, SeeNilEvent, Watching, CallbackPanics, Start, Killed,
     Cancel, Die, TreeChanges
<1>2. pc \in PCs
  BY DEF TypeOK
<1>3. ASSUME pc # "stopped", pc' = "stopped"
      PROVE  StepsToGo[pc'] < StepsToGo[pc]
  BY <1>2, <1>3 DEF PCs
<1>4. CASE Fetch \/ GetChildren \/ StoreWork \/ Fails
  <2>1. pc # "stopped" /\ pc' = "stopped"
    BY <1>4, CallsStop DEF Fetch, GetChildren, StoreWork, Fails
  <2>2. QED
    BY <1>1, <1>3, <2>1
<1>5. CASE SeeDone \/ SeeError \/ SeeEvent \/ SeeNilEvent
  <2>1. pc # "stopped" /\ pc' = "stopped"
    BY <1>5, CallsStop DEF SeeDone, SeeError, SeeEvent, SeeNilEvent, Die, Stop
  <2>2. QED
    BY <1>1, <1>3, <2>1
<1>6. CASE Reconcile
  <2>1. PICK left : left = list /\ Proceed(left) /\ pc = "reconcile"
    BY <1>6 DEF Reconcile
  <2>2. pc' \in {"list", "watch", "select", "fetch"}
    BY <2>1, ProceedsTo DEF TypeOK, RunTypeOK
  <2>3. QED
    BY <1>1, <2>1, <2>2
<1>7. CASE StartWatching \/ SeeTick
  BY <1>1, <1>7 DEF StartWatching, SeeTick, Goto
<1>8. CASE Watching \/ TreeChanges
  <2>1. pc' = pc
    BY <1>8 DEF Watching, TreeChanges, runVars
  <2>2. ~Run \/ StepsToGo[pc'] < StepsToGo[pc]
    BY <1>4, <1>5, <1>6, <1>7 DEF Run
  <2>3. QED
    BY <1>1, <2>1, <2>2
<1>9. CASE CallbackPanics
  <2>1. pc' = "stopped"
    BY <1>9 DEF CallbackPanics, Die, Stop
  <2>2. ~Run \/ StepsToGo[pc'] < StepsToGo[pc]
    BY <1>4, <1>5, <1>6, <1>7 DEF Run
  <2>3. QED
    BY <1>1, <1>3, <2>1, <2>2
<1>10. ~(Start \/ Killed \/ Cancel)
  BY DEF Start, Killed, Cancel
<1>11. QED
  BY <1>4, <1>5, <1>6, <1>7, <1>8, <1>9, <1>10 DEF Next, Run

(* Once the context is done it stays done, each step of Run brings it      *)
(* nearer to its end, and no step of the watcher, the tree or the process  *)
(* takes it back, or starts it again.                                      *)
THEOREM CanceledRunsEnd ==
    Spec => [][canceled => /\ canceled'
                           /\ Run => StepsToGo[pc'] < StepsToGo[pc]
                           /\ pc' = pc \/ StepsToGo[pc'] < StepsToGo[pc]]_vars
<1>1. TypeOK /\ [Next]_vars =>
        [canceled => /\ canceled'
                     /\ Run => StepsToGo[pc'] < StepsToGo[pc]
                     /\ pc' = pc \/ StepsToGo[pc'] < StepsToGo[pc]]_vars
  BY CanceledStep
<1>2. QED
  BY <1>1, TypeCorrect, PTL DEF Spec

----------------------------------------------------------------------------
(* What the next pass finds.  Of DirectoriesAreFound this is all but the   *)
(* fairness: a pass that ends has stored whatever it listed, it lists      *)
(* whatever stands below the base, if that fits on a page, and it ends.    *)
InPass == phase = "subdirs" /\ pc \in {"fetch", "store", "reconcile"}

BelowBase == Below(up, Base, Standing) \ {Base}

OnePageHolds(found) == IsFiniteSet(found) /\ Cardinality(found) <= PageSize

(* The steps a pass has left: three for each directory on its list.        *)
PassToGo ==
    3 * Cardinality(list) + CASE pc = "store" -> 2 [] pc = "reconcile" -> 1 [] OTHER -> 0

(* The list is empty wherever it is not looked at, so that nothing on it   *)
(* is forgotten when another pass begins.                                  *)
ListInv ==
    /\ pc \in {"stopped", "list", "watch", "select"} => list = {}
    /\ pc = "fetch" => phase = "subdirs" \/ (phase = "base" /\ list = {Base})
    /\ (pc \in {"store", "reconcile"} /\ phase # "subdirs") => list = {}

LEMMA ListInit == Init => ListInv
BY DEF Init, ListInv

(* Where Run goes on to when a directory has been dealt with.              *)
LEMMA ProceedsByPhase ==
    ASSUME TypeOK, NEW left, Proceed(left)
    PROVE  /\ phase = "base" => pc' = "list"
           /\ phase = "event" => pc' = "select"
           /\ phase = "subdirs" => IF left = {} THEN pc' \in {"watch", "select"} ELSE pc' = "fetch"
BY DEF TypeOK, Proceed, PassIsOver, Goto

LEMMA ListStep ==
    ASSUME TypeOK, ListInv, Next
    PROVE  ListInv'
<1> USE DEF ListInv
<1>p. phase \in {"base", "subdirs", "event"}
  BY DEF TypeOK
<1>1. CASE pc' = "stopped" /\ list' = {}
  BY <1>1
<1>2. CASE Fetch /\ ~CallFails
  <2>1. PICK d \in Foremost(list) :
          /\ list' = list \ {d} /\ phase' = phase /\ pc = "fetch"
          /\ Proceed(list \ {d}) \/ pc' = "store"
    BY <1>2 DEF Fetch, Goto
  <2>2. CASE phase = "base"
    BY <2>1, <2>2, ProceedsByPhase DEF Foremost
  <2>3. CASE phase = "subdirs"
    BY <2>1, <2>3, ProceedsByPhase
  <2>4. QED
    BY <2>1, <2>2, <2>3
<1>3. CASE GetChildren /\ ~CallFails
  BY <1>3, PassEnds DEF GetChildren, Goto, PassIsOver
<1>4. CASE Reconcile
  BY <1>4, <1>p, ProceedsByPhase DEF Reconcile
<1>5. CASE StoreWork /\ ~CallFails
  BY <1>5 DEF StoreWork, Goto
<1>6. CASE StartWatching \/ SeeTick
  BY <1>6 DEF StartWatching, SeeTick, Goto
<1>7. CASE SeeEvent /\ ~CallFails
  BY <1>7 DEF SeeEvent, Goto
<1>8. CASE Start
  BY <1>8 DEF Start
<1>9. CASE Watching \/ Cancel \/ TreeChanges
  BY <1>9 DEF Watching, Cancel, TreeChanges, runVars
<1>10. CASE Fails \/ SeeDone \/ SeeError \/ SeeNilEvent \/ CallbackPanics \/ Killed
  BY <1>1, <1>10, CallsStop DEF Fails, SeeDone, SeeError, SeeNilEvent, CallbackPanics,
     Killed, Die, Stop
<1>11. QED
  BY <1>1, <1>2, <1>3, <1>4, <1>5, <1>6, <1>7, <1>8, <1>9, <1>10, CallsStop
  DEF Next, Run

LEMMA ListInvariant == Spec => []ListInv
<1>1. TypeOK /\ ListInv /\ [Next]_vars => ListInv'
  BY ListStep DEF vars, runVars, ListInv
<1>2. QED
  BY <1>1, ListInit, TypeCorrect, PTL DEF Spec

(* Nothing that is to be tracked is forgotten, except by a run that ends.  *)
Remembered(d) == d \in list \/ BeingTracked(d)

LEMMA RememberedOrTracked ==
    ASSUME TypeOK, ListInv, Next, pc' # "stopped", NEW d \in Dirs, Remembered(d)
    PROVE  Remembered(d)' \/ Tracked(d)'
<1> USE DEF Remembered, BeingTracked
<1>c. ~CallFails
  BY CallsStop
<1>1. CASE Fetch
  <2>1. PICK e \in Foremost(list) :
          /\ list' = list \ {e} /\ work' = [type |-> "create", dir |-> e]
          /\ UpToDate(e) \/ pc' = "store"
          /\ pc = "fetch" /\ row' = row
    BY <1>1, <1>c DEF Fetch, Goto
  <2>2. QED
    BY <2>1 DEF UpToDate, Tracked
<1>2. CASE StoreWork
  <2>1. /\ pc = "store" /\ row' = Stored(work) /\ list' = list
    BY <1>2, <1>c DEF StoreWork
  <2>2. BeingTracked(d) => Tracked(d)'
    BY <2>1 DEF Stored, Tracked, TypeOK
  <2>3. QED
    BY <2>1, <2>2
<1>3. CASE Start \/ GetChildren \/ SeeTick \/ SeeEvent
  <2>1. pc \in {"stopped", "list", "select"}
    BY <1>3 DEF Start, GetChildren, SeeTick, SeeEvent
  <2>2. QED
    BY <2>1 DEF ListInv
<1>4. CASE StartWatching \/ Reconcile
  BY <1>4 DEF StartWatching, Reconcile
<1>5. CASE Watching \/ Cancel \/ TreeChanges
  BY <1>5 DEF Watching, Cancel, TreeChanges, runVars
<1>6. ~(Fails \/ SeeDone \/ SeeError \/ SeeNilEvent \/ CallbackPanics \/ Killed)
  BY <1>c DEF Fails, SeeDone, SeeError, SeeNilEvent, CallbackPanics, Killed, Die, Stop
<1>7. QED
  BY <1>1, <1>2, <1>3, <1>4, <1>5, <1>6 DEF Next, Run

(* A list of children is all that stands below the base, if it fits on a   *)
(* page and the page arrives whole; and what is on a list stays on it      *)
(* until it is tracked, whatever the tree and the watcher do meanwhile, or *)
(* the run ends.                                                           *)
THEOREM PassesMissNobody ==
    Spec => [][pc' # "stopped" =>
                 /\ GetChildren /\ OnePageHolds(BelowBase) => list' = BelowBase
                 /\ \A d \in Dirs : Remembered(d) => Remembered(d)' \/ Tracked(d)']_vars
<1>1. ASSUME GetChildren, pc' # "stopped", OnePageHolds(BelowBase)
      PROVE  list' = BelowBase
  <2>1. list' \in FirstPage(BelowBase)
    BY <1>1, CallsStop DEF GetChildren, BelowBase
  <2>2. PICK found, page : found = BelowBase /\ page = list'
    OBVIOUS
  <2>3. /\ page \subseteq found /\ IsFiniteSet(found) /\ Cardinality(found) <= PageSize
        /\ page # found => Cardinality(page) = PageSize
    BY <1>1, <2>1, <2>2 DEF FirstPage, OnePageHolds
  <2>4. /\ IsFiniteSet(page) /\ Cardinality(page) <= Cardinality(found)
        /\ Cardinality(found) = Cardinality(page) => found = page
    BY <2>3, FS_Subset
  <2>5. Cardinality(found) \in Nat /\ Cardinality(page) \in Nat /\ PageSize \in Nat
    BY <2>3, <2>4, FS_CardinalityType, ControllerAssumption
  <2>6. QED
    BY <2>2, <2>3, <2>4, <2>5
<1>2. TypeOK /\ ListInv /\ [Next]_vars =>
        [pc' # "stopped" =>
           /\ GetChildren /\ OnePageHolds(BelowBase) => list' = BelowBase
           /\ \A d \in Dirs : Remembered(d) => Remembered(d)' \/ Tracked(d)']_vars
  BY <1>1, RememberedOrTracked
<1>3. QED
  BY <1>2, ListInvariant, TypeCorrect, PTL DEF Spec

(* The steps of a pass, counted.                                           *)
LEMMA PassGoesOn ==
    ASSUME TypeOK, ListInv, IsFiniteSet(list), InPass, Run,
           pc' \notin {"stopped", "watch", "select"}
    PROVE  InPass' /\ PassToGo' < PassToGo
<1>c. ~CallFails
  BY CallsStop
<1>l. Cardinality(list) \in Nat
  BY FS_CardinalityType
<1>1. CASE Fetch
  <2>1. PICK e \in Foremost(list) :
          /\ list' = list \ {e} /\ phase' = phase /\ pc = "fetch"
          /\ Proceed(list \ {e}) \/ pc' = "store"
    BY <1>1, <1>c DEF Fetch, Goto
  <2>2. e \in list /\ Cardinality(list') = Cardinality(list) - 1
    BY <2>1, FS_RemoveElement DEF Foremost
  <2>3. pc' \in {"fetch", "store"} /\ phase' = "subdirs"
    BY <2>1, ProceedsByPhase DEF InPass
  <2>4. QED
    BY <1>l, <2>1, <2>2, <2>3 DEF InPass, PassToGo
<1>2. CASE StoreWork
  <2>1. pc = "store" /\ pc' = "reconcile" /\ UNCHANGED <<phase, list>>
    BY <1>2, <1>c DEF StoreWork, Goto
  <2>2. QED
    BY <1>l, <2>1 DEF InPass, PassToGo
<1>3. CASE Reconcile
  <2>1. /\ pc = "reconcile" /\ UNCHANGED <<phase, list>>
        /\ \E left : Proceed(left)
    BY <1>3 DEF Reconcile
  <2>2. pc' = "fetch"
    BY <2>1, ProceedsByPhase DEF InPass
  <2>3. QED
    BY <1>l, <2>1, <2>2 DEF InPass, PassToGo
<1>4. ~(GetChildren \/ StartWatching \/ SeeDone \/ SeeTick \/ SeeError \/ SeeEvent \/ SeeNilEvent)
  BY DEF InPass, GetChildren, StartWatching, SeeDone, SeeTick, SeeError, SeeEvent, SeeNilEvent
<1>5. ~Fails
  BY <1>c DEF Fails
<1>6. QED
  BY <1>1, <1>2, <1>3, <1>4, <1>5 DEF Run

(* A pass ends: each step of Run ends it or leaves it fewer steps to take, *)
(* and no other step does more than end it.                                *)
THEOREM PassesEnd ==
    ASSUME IsFiniteSet(Dirs)
    PROVE  Spec => [][InPass =>
                        /\ Run => \/ pc' \in {"stopped", "watch", "select"}
                                  \/ InPass' /\ PassToGo' < PassToGo
                        /\ ~Run => \/ pc' = "stopped"
                                   \/ InPass' /\ PassToGo' = PassToGo
                        /\ PassToGo \in Nat]_vars
<1>1. ASSUME TypeOK, ListInv, InPass
      PROVE  IsFiniteSet(list) /\ PassToGo \in Nat
  <2>1. IsFiniteSet(list)
    BY <1>1, FS_Subset DEF TypeOK, ForestTypeOK
  <2>2. QED
    BY <1>1, <2>1, FS_CardinalityType DEF PassToGo
<1>2. ASSUME Next, InPass, ~Run
      PROVE  pc' = "stopped" \/ (InPass' /\ PassToGo' = PassToGo)
  <2>1. CASE CallbackPanics \/ Killed
    BY <2>1 DEF CallbackPanics, Killed, Die, Stop
  <2>2. CASE Watching \/ Cancel \/ TreeChanges
    BY <1>2, <2>2 DEF Watching, Cancel, TreeChanges, runVars, InPass, PassToGo
  <2>3. ~Start
    BY <1>2 DEF Start, InPass
  <2>4. QED
    BY <1>2, <2>1, <2>2, <2>3 DEF Next
<1>3. TypeOK /\ ListInv /\ [Next]_vars =>
        [InPass =>
           /\ Run => \/ pc' \in {"stopped", "watch", "select"}
                     \/ InPass' /\ PassToGo' < PassToGo
           /\ ~Run => \/ pc' = "stopped"
                      \/ InPass' /\ PassToGo' = PassToGo
           /\ PassToGo \in Nat]_vars
  BY <1>1, <1>2, PassGoesOn
<1>4. QED
  BY <1>3, ListInvariant, TypeCorrect, PTL DEF Spec

=============================================================================
