---------------------------- MODULE AppController ----------------------------
(***************************************************************************)
(* The application framework's controller (app/v1/controllerimpl.go) with  *)
(* its seeding pass (fullsubtree_reconciler.go) and its SQL store          *)
(* (app/v1/sql/storage.go), over a directory tree it reads through the     *)
(* HTTP client and a watcher that may or may not tell it of changes.       *)
(*                                                                         *)
(* The controller is one goroutine.  The store belongs to it alone, so a   *)
(* read of the store is part of the step that acts on it; between that     *)
(* step, the call of the application's reconciler and each request to the  *)
(* tree manager the tree may change and the process may die.               *)
(***************************************************************************)
EXTENDS Watcher

CONSTANTS
    Base,        \* the directory the controller starts from
    Clients,     \* may it be built WithClient? without? either?
    Seeded,      \* the directories a Seeder has put in the store before
    PageSize,    \* the number of directories on a page
    CallsFail,   \* may a request, a statement or the reconciler fail?
    MaxRuns,     \* bound on the times the process is started
    NoWork       \* no directory is being handled

(* The tree is a forest at the start: parents are there, and are older.    *)
ASSUME ControllerAssumption ==
    /\ NoDir \notin Dirs
    /\ First.born \in [Dirs -> Nat]
    /\ First.parent \in [Dirs -> Dirs \cup {NoDir}]
    /\ \A d \in Dirs :
         First.parent[d] # NoDir =>
            /\ First.born[First.parent[d]] > 0
            /\ First.born[First.parent[d]] < First.born[d]
    /\ Base \in Dirs
    /\ First.born[Base] > 0
    /\ Clients \subseteq BOOLEAN /\ Clients # {}
    /\ Seeded \subseteq { d \in Dirs : First.born[d] > 0 }
    /\ PageSize \in Nat \ {0}
    /\ CallsFail \in BOOLEAN
    /\ MaxRuns \in Nat \ {0}
    /\ NoWork \notin Fact

VARIABLES
    row,       \* tracked_directories: no row, deleted_at is NULL, or is set
    called,    \* how often the reconciler has accepted each change
    pc,        \* how far Run has come
    phase,     \* what it is busy with
    list,      \* the directories the pass has still to look at
    work,      \* what is being persisted and reconciled
    outcome,   \* how Run ended
    client,    \* was the running controller built WithClient?
    runs       \* how often the process was started

runVars == <<pc, phase, list, work, outcome>>
procVars == <<client, runs>>   \* what only a start changes
vars == <<forestVars, watcherVars, canceled, row, called, runVars, procVars>>

Change == [type : {"create", "delete"}, dir : Dirs]
PCs == {"stopped", "fetch", "list", "store", "reconcile", "watch", "select"}
Outcomes == {"none", "error", "canceled", "nil", "panic", "killed"}

TypeOK ==
    /\ ForestTypeOK
    /\ WatcherTypeOK
    /\ row \in [Dirs -> {"none", "live", "deleted"}]
    /\ called \in [Change -> Nat]
    /\ pc \in PCs
    /\ phase \in {"base", "subdirs", "event"}
    /\ Base \in planted
    /\ list \subseteq planted
    /\ work \in Change \cup {NoWork}
    /\ pc \in {"store", "reconcile"} => work # NoWork
    /\ outcome \in Outcomes
    /\ client \in BOOLEAN
    /\ runs \in 0 .. MaxRuns

Init ==
    /\ ForestInit
    /\ WatcherInit
    /\ row = [d \in Dirs |-> IF d \in Seeded THEN "live" ELSE "none"]
    /\ called = [c \in Change |-> 0]
    /\ pc = "stopped"
    /\ phase = "base"
    /\ list = {}
    /\ work = NoWork
    /\ outcome = "none"
    /\ client = FALSE
    /\ runs = 0

----------------------------------------------------------------------------
(* Run, step by step.                                                      *)

(* Run returns, or its process ends.                                       *)
Stop(how) ==
    /\ pc' = "stopped"
    /\ outcome' = how
    /\ list' = {}
    /\ work' = NoWork
    /\ UNCHANGED phase

(* A call that takes the context fails, as it does once that is done.      *)
CallFails == Stop(IF canceled THEN "canceled" ELSE "error")

Goto(at) == pc' = at /\ UNCHANGED outcome

(* The process is started: nothing survives in it but the store.  Without  *)
(* a client there is no first pass, and the ticker is stopped.             *)
Start ==
    /\ pc = "stopped"
    /\ ~canceled
    /\ runs < MaxRuns
    /\ runs' = runs + 1
    /\ client' \in Clients
    /\ sub' = "none"
    /\ pending' = <<>>
    /\ pc' = IF client' THEN "fetch" ELSE "watch"
    /\ outcome' = "none"
    /\ phase' = "base"
    /\ list' = IF client' THEN {Base} ELSE {}
    /\ UNCHANGED <<work, canceled, forestVars, row, called>>

(* The pass is over: Watch after the first one, otherwise back to select.  *)
PassIsOver == Goto(IF sub = "none" THEN "watch" ELSE "select")

(* One directory has been dealt with.                                      *)
Proceed(left) ==
    CASE phase = "base"    -> Goto("list")
      [] phase = "subdirs" -> IF left = {} THEN PassIsOver ELSE Goto("fetch")
      [] phase = "event"   -> Goto("select")

(* Directories are listed level by level, those above before those below.  *)
Foremost(S) == { d \in S : up[d] \notin S }

(* GetDirectory of the client asks for live directories only: the reply to *)
(* any other is an error.                                                  *)
IsFound(d) == d \notin felled

(* What the store says of a directory.  IsDirectoryInfoUpdated compares    *)
(* deleted_at with that of a directory that is live.                       *)
Tracked(d) == row[d] # "none"
UpToDate(d) == row[d] = "live"

(* Mutant of Fetch: the row is compared, the directory is not passed on.   *)
FetchNothing ==
    /\ pc = "fetch"
    /\ IF canceled
         THEN CallFails
         ELSE \E d \in Foremost(list) :
                IF ~IsFound(d)
                  THEN CallFails
                  ELSE /\ list' = list \ {d}
                       /\ IF UpToDate(d) THEN Proceed(list \ {d}) ELSE Goto("store")
                       /\ UNCHANGED <<phase, work>>
    /\ UNCHANGED <<forestVars, watcherVars, canceled, row, called, procVars>>

(* persistIfUpToDate: get the directory, compare it with its row.  The     *)
(* request does not ask for deleted directories.                           *)
Fetch ==
    /\ pc = "fetch"
    /\ IF canceled
         THEN CallFails
         ELSE \E d \in Foremost(list) :
                IF ~IsFound(d)
                  THEN CallFails
                  ELSE /\ list' = list \ {d}
                       /\ work' = [type |-> "create", dir |-> d]
                       /\ IF UpToDate(d) THEN Proceed(list \ {d}) ELSE Goto("store")
                       /\ UNCHANGED phase
    /\ UNCHANGED <<forestVars, watcherVars, canceled, row, called, procVars>>

(* GetChildren: everything that stands below the base, of which the reply  *)
(* holds the first page.  The age of directories, which orders those on    *)
(* the same level, is left out: any of them may come first.  The page      *)
(* arrives whole: that the tree manager may cut one short is Listing's.    *)
FirstPage(found) ==
    { page \in SUBSET found :
        /\ Cardinality(page) <= PageSize
        /\ page # found => Cardinality(page) = PageSize
        /\ \A d \in page : up[d] \in found => up[d] \in page }

GetChildren ==
    /\ pc = "list"
    /\ IF canceled \/ Base \in felled
         THEN CallFails
         ELSE \E page \in FirstPage(Below(up, Base, Standing) \ {Base}) :
                /\ list' = page
                /\ phase' = "subdirs"
                /\ IF page = {} THEN PassIsOver ELSE Goto("fetch")
                /\ UNCHANGED work
    /\ UNCHANGED <<forestVars, watcherVars, canceled, row, called, procVars>>

(* Mutants of Stored: a delete takes the tracked children along; and of    *)
(* Fits: an insert that affects no row is no error.                        *)
StoredWithChildren(w) ==
    [d \in Dirs |->
        CASE d = w.dir -> IF w.type = "create" THEN "live" ELSE "deleted"
          [] d # w.dir /\ w.type = "delete" /\ up[d] = w.dir /\ Tracked(d) -> "deleted"
          [] OTHER -> row[d]]
FitsAlways(w) == w.type = "create" \/ row[w.dir] = "live"

(* What the statement for w does to the store, and whether it finds the    *)
(* row as it expects it.                                                   *)
Stored(w) == [row EXCEPT ![w.dir] = IF w.type = "create" THEN "live" ELSE "deleted"]
Fits(w) == row[w.dir] = IF w.type = "create" THEN "none" ELSE "live"

(* persistDirectory: insert the row, or set its deleted_at.  A statement   *)
(* that finds the row there already, or deleted already, affects no row,   *)
(* and that is an error.                                                   *)
StoreWork ==
    /\ pc = "store"
    /\ IF canceled \/ ~Fits(work)
         THEN CallFails /\ UNCHANGED row
         ELSE /\ row' = Stored(work)
              /\ Goto("reconcile")
              /\ UNCHANGED <<phase, list, work>>
    /\ UNCHANGED <<forestVars, watcherVars, canceled, called, procVars>>

(* The application's reconciler is called and succeeds.                    *)
Reconcile ==
    /\ pc = "reconcile"
    /\ called' = [called EXCEPT ![work] = @ + 1]
    /\ work' = NoWork
    /\ Proceed(list)
    /\ UNCHANGED <<phase, list, forestVars, watcherVars, canceled, row, procVars>>

(* Mutant of Fails: the error is logged, and Run goes on.                  *)
FailsButGoesOn ==
    /\ CallsFail
    /\ pc \in {"fetch", "list", "store", "reconcile"}
    /\ list' = {}
    /\ work' = NoWork
    /\ PassIsOver
    /\ UNCHANGED <<phase, forestVars, watcherVars, canceled, row, called, procVars>>

(* A request or a statement fails, or the reconciler does, after it was    *)
(* called; Run returns the error.  The statement may have been committed   *)
(* all the same.                                                           *)
Fails ==
    /\ CallsFail
    /\ pc \in {"fetch", "list", "store", "reconcile"}
    /\ CallFails
    /\ \/ UNCHANGED row
       \/ pc = "store" /\ Fits(work) /\ row' = Stored(work)
    /\ UNCHANGED <<forestVars, watcherVars, canceled, called, procVars>>

(* Mutant of StartWatching: it waits for the subscription to be open.      *)
StartWatchingWaits ==
    /\ pc = "watch"
    /\ \/ Watch /\ UNCHANGED <<pc, outcome>>
       \/ sub = "waiting" /\ Goto("select") /\ UNCHANGED watcherVars
    /\ UNCHANGED <<phase, list, work, forestVars, canceled, row, called, procVars>>

StartWatching ==
    /\ pc = "watch"
    /\ Watch
    /\ Goto("select")
    /\ UNCHANGED <<phase, list, work, forestVars, canceled, row, called, procVars>>

----------------------------------------------------------------------------
(* The select loop.  Of the cases that are ready Go picks any.             *)

SeeDone ==
    /\ pc = "select"
    /\ canceled
    /\ Stop("canceled")
    /\ UNCHANGED <<forestVars, watcherVars, canceled, row, called, procVars>>

(* Mutant of SeeTick: it looks at the base again, and no further.          *)
SeeTickBaseOnly ==
    /\ pc = "select"
    /\ client
    /\ phase' = "event"
    /\ list' = {Base}
    /\ Goto("fetch")
    /\ UNCHANGED <<work, forestVars, watcherVars, canceled, row, called, procVars>>

(* The ticker fires and another pass begins.                               *)
SeeTick ==
    /\ pc = "select"
    /\ client
    /\ phase' = "base"
    /\ list' = {Base}
    /\ Goto("fetch")
    /\ UNCHANGED <<work, forestVars, watcherVars, canceled, row, called, procVars>>

(* The watcher's error; once errs is closed, a receive yields nil.         *)
SeeError ==
    /\ pc = "select"
    /\ \/ ReceiveError /\ Stop("error")
       \/ ErrsClosed /\ Stop("nil") /\ UNCHANGED watcherVars
    /\ UNCHANGED <<forestVars, canceled, row, called, procVars>>

(* Mutant of Relevant: a create is relevant wherever the directory is.     *)
RelevantAnywhere(e) == Tracked(e.dir) \/ e.type = "create"

(* isRelevantEvent: the directory is tracked, or it is new and its parent  *)
(* is tracked.  Rows of deleted directories count.                         *)
Relevant(e) ==
    \/ Tracked(e.dir)
    \/ /\ e.type = "create"
       /\ up[e.dir] # NoDir
       /\ Tracked(up[e.dir])

(* An event.  All that persistDirectory asks of it is whether it carries a *)
(* deletion time, so that an update is handled like a create.              *)
SeeEvent ==
    /\ pc = "select"
    /\ ReceiveEvent
    /\ LET e == Head(pending)
       IN \/ (canceled \/ CallsFail) /\ CallFails
          \/ /\ ~canceled
             /\ phase' = "event"
             /\ IF Relevant(e)
                  THEN /\ work' = [type |-> IF e.type = "delete" THEN "delete" ELSE "create",
                                   dir |-> e.dir]
                       /\ Goto("store")
                  ELSE Goto("select") /\ UNCHANGED work
             /\ UNCHANGED list
    /\ UNCHANGED <<forestVars, canceled, row, called, procVars>>

----------------------------------------------------------------------------
(* The process around Run.                                                 *)

(* Its end takes the watcher with it.                                      *)
Die(how) ==
    /\ Stop(how)
    /\ sub' = "none"
    /\ pending' = <<>>
    /\ UNCHANGED <<forestVars, canceled, row, called, procVars>>

(* A receive from the closed events channel yields a nil event, which Run  *)
(* dereferences.                                                           *)
SeeNilEvent == pc = "select" /\ EventsClosed /\ Die("panic")

CallbackPanics == CallbackMayPanic /\ Die("panic")

Killed == pc # "stopped" /\ ~canceled /\ Die("killed")

(* The application shuts its controller down.                              *)
Cancel ==
    /\ pc # "stopped"
    /\ ~canceled
    /\ canceled' = TRUE
    /\ UNCHANGED <<forestVars, watcherVars, row, called, runVars, procVars>>

Run ==
    \/ Fetch \/ GetChildren \/ StoreWork \/ Reconcile \/ Fails \/ StartWatching
    \/ SeeDone \/ SeeTick \/ SeeError \/ SeeEvent \/ SeeNilEvent

Watching ==
    /\ \/ WatcherStep
       \/ \E fact \in Fact : Hear(fact)
    /\ UNCHANGED <<forestVars, canceled, row, called, runVars, procVars>>

TreeChanges ==
    /\ ForestNext
    /\ UNCHANGED <<watcherVars, canceled, row, called, runVars, procVars>>

Next ==
    \/ Run
    \/ Watching \/ CallbackPanics
    \/ Start \/ Killed \/ Cancel
    \/ TreeChanges

Spec == Init /\ [][Next]_vars

(* The Go scheduler runs both goroutines, the calls they make return, the  *)
(* ticker goes on firing, and a select picks at random among its cases, so *)
(* that none that is ready again and again is passed over for ever; only   *)
(* the ticker's case needs this.                                           *)
Fairness ==
    /\ WF_vars(Run)
    /\ SF_vars(SeeTick)
    /\ WF_vars(WatcherStep /\ UNCHANGED <<forestVars, canceled, row, called, runVars, procVars>>)
    /\ WF_vars(Start)

FairSpec == Spec /\ Fairness

----------------------------------------------------------------------------
(* What the controller guarantees.                                         *)

(* The application follows its own part of the tree only: whatever events  *)
(* arrive, in whatever order, a tracked directory is the base or has a     *)
(* tracked parent.                                                         *)
TracksItsTreeOnly ==
    \A d \in Dirs : Tracked(d) => \/ d = Base \/ d \in Seeded
                                  \/ up[d] # NoDir /\ Tracked(up[d])

(* The store never says that a directory is deleted that is not, and never *)
(* tracks one there has not been.                                          *)
StoreTellsTheTruth ==
    \A d \in Dirs : /\ row[d] = "deleted" => d \in felled
                    /\ Tracked(d) => d \in planted

(* The application is told of a change once at most, through any number of *)
(* duplicate events, passes and restarts, and only of changes that are in  *)
(* its store.                                                              *)
ReconciledOnce ==
    \A c \in Change :
        /\ called[c] <= 1
        /\ called[c] = 1 => row[c.dir] \in IF c.type = "create" THEN {"live", "deleted"}
                                                                ELSE {"deleted"}

(* What the store has and the application was not told of: each run leaves *)
(* one change behind at most, the one it was working on when it ended.     *)
Untold ==
    { c \in Change :
        /\ called[c] = 0
        /\ IF c.type = "create" THEN Tracked(c.dir) /\ c.dir \notin Seeded
                                ELSE row[c.dir] = "deleted" }

OneChangeLostPerRun == Cardinality(Untold) <= runs

(* A directory that stands below the base gets into the store, unless it   *)
(* is deleted first or the controller has ended for good: what no event    *)
(* tells, the next pass finds (docs/appframework.md: the full              *)
(* reconciliation is "to ensure that the application is aware of all       *)
(* directories that are relevant to it").  So it is as long as the whole   *)
(* subtree fits on the first page, and no longer, for a controller that    *)
(* has a client: one without it makes no pass.                             *)
InScope(d) == d \in Below(up, Base, Standing)

DirectoriesAreFound ==
    \A d \in Dirs :
        InScope(d) ~> Tracked(d) \/ ~InScope(d) \/ (pc = "stopped" /\ runs = MaxRuns)
                      \/ canceled \/ ~client

(* A canceled controller ends, whatever it was doing.                      *)
CancelEndsRun == canceled ~> pc = "stopped"

----------------------------------------------------------------------------
(* What the repository says of the controller and its code does not do.    *)

(* tests/integration/app_test.go: a canceled controller returns            *)
(* context.Canceled.                                                       *)
CanceledRunSaysSo == canceled => outcome \in {"none", "canceled"}

=============================================================================
