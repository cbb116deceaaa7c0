----------------------------- MODULE SharedStore -----------------------------
(***************************************************************************)
(* Several controllers of one application on one store, as those of        *)
(* replicas that have no leader (app/v1/controller.go), with the store     *)
(* that calls the application back (app/v1/callback/callback.go) around    *)
(* the SQL store (app/v1/sql/storage.go).                                  *)
(*                                                                         *)
(* AppController has the whole of one controller, which reads the store    *)
(* and acts on it in one step.  Here each statement, each callback and     *)
(* each call of the reconciler is a step of its own, between which another *)
(* controller may do anything; of Run there is only what leads to them: an *)
(* event, or a directory that a pass looks at.  A controller stops at the  *)
(* first error, or when its process is killed, and may be started again.   *)
(***************************************************************************)
EXTENDS DirectoryTree

CONSTANTS
    Controllers,   \* the controllers there may be
    Base,          \* the directory they start from
    NoWork,        \* nothing is being handled
    MaxStarts      \* bound on how often controllers are started

ASSUME SharedAssumption ==
    /\ NoDir \notin Dirs
    /\ First.parent \in [Dirs -> Dirs \cup {NoDir}]
    /\ NoWork \notin Fact
    /\ MaxStarts \in Nat

VARIABLES
    crew,      \* the controllers that are run
    row,       \* tracked_directories: no row, deleted_at is NULL, or is set
    pc,        \* how far each controller has come
    work,      \* what it is handling
    called,    \* how often the callback for each change was called
    told,      \* how often the reconciler was called with it
    starts,    \* how often controllers were started
    late       \* history: directories of whose creation the application
               \* heard when the store had them deleted

appVars == <<called, told, late>>
vars == <<forestVars, crew, row, pc, work, appVars, starts>>

Change == [type : {"create", "delete"}, dir : Dirs]
Persisting == {"insert", "created", "callback", "mark", "reconcile"}
PCs == {"stopped", "idle", "relevant", "parent", "compare"} \cup Persisting

TypeOK ==
    /\ ForestTypeOK
    /\ crew \subseteq Controllers
    /\ row \in [Dirs -> {"none", "live", "deleted"}]
    /\ pc \in [Controllers -> PCs]
    /\ work \in [Controllers -> Fact \cup {NoWork}]
    /\ called \in [Change -> Nat]
    /\ told \in [Change -> Nat]
    /\ starts \in Nat
    /\ late \subseteq Dirs
    /\ \A c \in Controllers :
         /\ pc[c] \in {"relevant", "parent", "compare"} => work[c] \in Fact
         /\ pc[c] \in Persisting => work[c] \in Change
         /\ pc[c] \in {"insert", "created"} => work[c].type = "create"
         /\ pc[c] \in {"callback", "mark"} => work[c].type = "delete"

Init ==
    /\ ForestInit
    /\ crew \in (SUBSET Controllers) \ {{}}
    /\ row = [d \in Dirs |-> "none"]
    /\ pc = [c \in Controllers |-> "stopped"]
    /\ work = [c \in Controllers |-> NoWork]
    /\ called = [w \in Change |-> 0]
    /\ told = [w \in Change |-> 0]
    /\ starts = 0
    /\ late = {}

----------------------------------------------------------------------------
(* What leads to a change of the store.                                    *)

Tracked(d) == row[d] # "none"

Goto(c, at) == pc' = [pc EXCEPT ![c] = at]

(* Run returns, or its process ends.                                       *)
Stop(c) == Goto(c, "stopped")

Start(c) ==
    /\ pc[c] = "stopped"
    /\ c \in crew
    /\ starts < MaxStarts
    /\ starts' = starts + 1
    /\ Goto(c, "idle")
    /\ UNCHANGED <<forestVars, crew, row, work, appVars>>

(* An event tells of something that has happened; again, perhaps, and late.*)
Hear(c, fact) ==
    /\ pc[c] = "idle"
    /\ True(fact)
    /\ work' = [work EXCEPT ![c] = fact]
    /\ Goto(c, "relevant")
    /\ UNCHANGED <<forestVars, crew, row, appVars, starts>>

(* A pass gets a directory that it has found below the base.               *)
Get(c, d) ==
    /\ pc[c] = "idle"
    /\ d \in Below(up, Base, Standing)
    /\ work' = [work EXCEPT ![c] = [type |-> "create", dir |-> d]]
    /\ Goto(c, "compare")
    /\ UNCHANGED <<forestVars, crew, row, appVars, starts>>

(* Mutant of Asked: an update is an update.                                *)
AskedLiterally(fact) == fact

(* persistDirectory asks of an event only whether its directory is deleted.*)
Asked(fact) ==
    [type |-> IF fact.type = "delete" THEN "delete" ELSE "create", dir |-> fact.dir]

(* Mutant of FirstCall: a deletion is stored without the callback.         *)
FirstCallIsStatement(type) == IF type = "delete" THEN "mark" ELSE "insert"

(* The callback of a deletion comes before its statement, that of a        *)
(* creation after it.                                                      *)
FirstCall(type) == IF type = "delete" THEN "callback" ELSE "insert"

Persist(c) ==
    /\ work' = [work EXCEPT ![c] = Asked(work[c])]
    /\ Goto(c, FirstCall(Asked(work[c]).type))

(* isRelevantEvent: the directory is tracked, or it is new, and then       *)
(* another statement asks for its parent.                                  *)
AskTracked(c) ==
    /\ pc[c] = "relevant"
    /\ IF Tracked(work[c].dir)
         THEN Persist(c)
         ELSE /\ Goto(c, IF work[c].type = "create" /\ up[work[c].dir] # NoDir
                           THEN "parent" ELSE "idle")
              /\ UNCHANGED work
    /\ UNCHANGED <<forestVars, crew, row, appVars, starts>>

AskParentTracked(c) ==
    /\ pc[c] = "parent"
    /\ IF Tracked(up[work[c].dir]) THEN Persist(c) ELSE Goto(c, "idle") /\ UNCHANGED work
    /\ UNCHANGED <<forestVars, crew, row, appVars, starts>>

(* persistIfUpToDate: the row is compared with a directory that is live.   *)
Compare(c) ==
    /\ pc[c] = "compare"
    /\ IF row[work[c].dir] = "live" THEN Goto(c, "idle") /\ UNCHANGED work ELSE Persist(c)
    /\ UNCHANGED <<forestVars, crew, row, appVars, starts>>

----------------------------------------------------------------------------
(* persistDirectory on the callback store.                                 *)

(* Mutant of Insert: a conflict is ignored.                                *)
InsertUnlessThere(c) ==
    /\ pc[c] = "insert"
    /\ row' = IF row[work[c].dir] = "none" THEN [row EXCEPT ![work[c].dir] = "live"] ELSE row
    /\ Goto(c, "created")
    /\ UNCHANGED <<forestVars, crew, work, appVars, starts>>

(* ON CONFLICT DO NOTHING affects no row, and that is an error.            *)
Insert(c) ==
    /\ pc[c] = "insert"
    /\ IF row[work[c].dir] = "none"
         THEN row' = [row EXCEPT ![work[c].dir] = "live"] /\ Goto(c, "created")
         ELSE Stop(c) /\ UNCHANGED row
    /\ UNCHANGED <<forestVars, crew, work, appVars, starts>>

(* What the application hears of a creation too late.                      *)
Heard(w) ==
    late' = IF w.type = "create" /\ row[w.dir] = "deleted" THEN late \cup {w.dir} ELSE late

(* The callback, which may return an error, whatever it has done.          *)
CallBack(c, next) ==
    /\ called' = [called EXCEPT ![work[c]] = @ + 1]
    /\ Heard(work[c])
    /\ Goto(c, next) \/ Stop(c)
    /\ UNCHANGED <<forestVars, crew, row, work, told, starts>>

CallCreated(c) == pc[c] = "created" /\ CallBack(c, "reconcile")
CallDelete(c) == pc[c] = "callback" /\ CallBack(c, "mark")

(* Mutant of Mark: to find nothing to delete is no error.                  *)
MarkOrNot(c) ==
    /\ pc[c] = "mark"
    /\ IF row[work[c].dir] = "live"
         THEN row' = [row EXCEPT ![work[c].dir] = "deleted"] /\ Goto(c, "reconcile")
         ELSE Goto(c, "idle") /\ UNCHANGED row
    /\ UNCHANGED <<forestVars, crew, work, appVars, starts>>

(* UPDATE ... WHERE deleted_at IS NULL must affect a row.                  *)
Mark(c) ==
    /\ pc[c] = "mark"
    /\ IF row[work[c].dir] = "live"
         THEN row' = [row EXCEPT ![work[c].dir] = "deleted"] /\ Goto(c, "reconcile")
         ELSE Stop(c) /\ UNCHANGED row
    /\ UNCHANGED <<forestVars, crew, work, appVars, starts>>

(* The reconciler, which may fail, whatever it has done.                   *)
Reconcile(c) ==
    /\ pc[c] = "reconcile"
    /\ told' = [told EXCEPT ![work[c]] = @ + 1]
    /\ Heard(work[c])
    /\ Goto(c, "idle") \/ Stop(c)
    /\ UNCHANGED <<forestVars, crew, row, work, called, starts>>

(* Mutant of Fails: the error is logged, and Run goes on.                  *)
FailsButGoesOn(c) ==
    /\ pc[c] \in {"relevant", "parent", "compare", "insert", "created", "callback", "mark",
                  "reconcile"}
    /\ Goto(c, "idle")
    /\ UNCHANGED <<forestVars, crew, row, work, appVars, starts>>

(* A call fails, or the process is killed: between two steps, or after a   *)
(* statement that was committed, as the step that follows might not come.  *)
Fails(c) ==
    /\ pc[c] # "stopped"
    /\ Stop(c)
    /\ UNCHANGED <<forestVars, crew, row, work, appVars, starts>>

Work(c) ==
    \/ AskTracked(c) \/ AskParentTracked(c) \/ Compare(c)
    \/ Insert(c) \/ CallCreated(c) \/ CallDelete(c) \/ Mark(c) \/ Reconcile(c) \/ Fails(c)

TreeChanges ==
    /\ ForestNext
    /\ UNCHANGED <<crew, row, pc, work, appVars, starts>>

Next ==
    \/ \E c \in Controllers :
         \/ Start(c) \/ Work(c)
         \/ \E fact \in Fact : Hear(c, fact)
         \/ \E d \in Dirs : Get(c, d)
    \/ TreeChanges

Spec == Init /\ [][Next]_vars

----------------------------------------------------------------------------
(* What the store guarantees.                                              *)

(* However many controllers there are, the creation of a directory is      *)
(* called back once at most, and the reconciler is called once at most     *)
(* with each change: the row that is inserted, or marked, decides between  *)
(* them, through duplicate events, passes and restarts.                    *)
HeardOnce ==
    /\ \A w \in Change : told[w] <= 1
    /\ \A d \in Dirs : called[[type |-> "create", dir |-> d]] <= 1

(* The store says that a directory is deleted only after its callback; the *)
(* reconciler hears of a deletion only after the store has it, and of a    *)
(* creation only after its callback; and nothing is heard, by either, that *)
(* is not so.                                                              *)
HeardInTurn ==
    \A d \in Dirs :
        LET creation == [type |-> "create", dir |-> d]
            deletion == [type |-> "delete", dir |-> d]
        IN /\ row[d] = "deleted" => called[deletion] > 0
           /\ told[deletion] > 0 => row[d] = "deleted"
           /\ told[creation] > 0 => called[creation] > 0
           /\ called[creation] > 0 => Tracked(d)
           /\ called[deletion] > 0 => d \in felled
           /\ Tracked(d) => d \in planted

(* A deletion is called back again when it is tried again; each time but   *)
(* one a controller has to be started anew.                                *)
DeletionsCalledPerStart ==
    \A d \in Dirs : called[[type |-> "delete", dir |-> d]] <= starts + 1

(* Each start leaves behind one change at most that is stored and that the *)
(* reconciler was not called with.                                         *)
Untold ==
    { w \in Change : told[w] = 0 /\ IF w.type = "create" THEN Tracked(w.dir)
                                                         ELSE row[w.dir] = "deleted" }

OneChangeLostPerStart == Cardinality(Untold) <= starts

(* A controller that is alone tells the application of no creation after   *)
(* the deletion.  Two may: the one inserts, the other deletes, and then    *)
(* the first goes on (app/v1/controller.go: "you should run a single       *)
(* controller").                                                           *)
AloneInOrder == (\A c, k \in crew : c = k) => late = {}

=============================================================================
