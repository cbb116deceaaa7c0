----------------------------- MODULE MemoryDriver -----------------------------
(***************************************************************************)
(* The memory driver (storage/memory/memory.go) under the tree manager's   *)
(* writing handlers, each request a goroutine.  A sync.Map keeps a pointer *)
(* per directory: the driver has neither lock nor transaction, so that a   *)
(* deletion marks one directory after the other, between the steps of      *)
(* other requests, where the database runs one statement.                  *)
(*                                                                         *)
(* created_at is abstracted to the place of the directory in the order of  *)
(* creation, deleted_at to whether it is set.  An update changes name and  *)
(* metadata, which nothing here tells apart, behind the pointer.           *)
(***************************************************************************)
EXTENDS Integers, Trees

CONSTANTS
    Dirs,        \* the ids uuid.New() may hand out
    NoDir,       \* Parent is nil
    First,       \* the directories that were created before
    Requests,    \* the requests the clients send, each handled once
    NoRequest,   \* an unused request slot
    PageSize     \* storage.DefaultPageSize

ASSUME MemoryAssumption ==
    /\ NoDir \notin Dirs
    /\ PageSize \in Nat \ {0}
    /\ First.time \in Nat
    /\ First.born \in [Dirs -> 0 .. First.time]
    /\ First.parent \in [Dirs -> Dirs \cup {NoDir}]
    /\ \A d \in Dirs :
         First.parent[d] # NoDir =>
            /\ First.born[First.parent[d]] > 0
            /\ First.born[First.parent[d]] < First.born[d]
    /\ \A d, e \in Dirs : First.born[d] = First.born[e] /\ First.born[d] > 0 => d = e

VARIABLES
    parent,      \* Parent of each directory
    born,        \* CreatedAt; 0: the map has no such key
    dead,        \* the directories whose DeletedAt is set
    now,         \* the number of directories created
    spoiled,     \* does the map hold a value that is no *v1.Directory?
    req,         \* what each request asks for
    pc,          \* how far its handler has come
    scope,       \* delete: what was live in the map when Range began
    todo,        \* delete: the children that are still to be marked
    hand,        \* delete: the child that was looked up and is marked next
    took,        \* delete: "affected"
    reply,       \* the status the client got; 0: none
    meant,       \* history: what stood below the target while it was listed
    overlapped   \* history: have two deletions been under way at once?

mapVars == <<parent, born, dead, now>>
deleteVars == <<scope, todo, hand, took, meant>>
vars == <<mapVars, spoiled, req, pc, deleteVars, reply, overlapped>>

Request ==
    { q \in [op : {"createRoot", "create", "update", "delete"},
             dir : Dirs \cup {NoDir}] : q.op = "createRoot" <=> q.dir = NoDir }

PCs == {"idle", "read", "write", "lookup", "scan", "scanning", "next", "mark", "done"}

TypeOK ==
    /\ now \in Nat
    /\ parent \in [Dirs -> Dirs \cup {NoDir}]
    /\ born \in [Dirs -> 0 .. now]
    /\ dead \subseteq Dirs
    /\ spoiled \in BOOLEAN
    /\ req \in [Requests -> Request \cup {NoRequest}]
    /\ pc \in [Requests -> PCs]
    /\ scope \in [Requests -> SUBSET Dirs]
    /\ todo \in [Requests -> SUBSET Dirs]
    /\ hand \in [Requests -> Dirs \cup {NoDir}]
    /\ took \in [Requests -> SUBSET Dirs]
    /\ reply \in [Requests -> {0, 200, 201, 400, 404, 500}]
    /\ meant \in [Requests -> SUBSET Dirs]
    /\ overlapped \in BOOLEAN
    /\ \A r \in Requests :
         /\ pc[r] # "idle" => req[r] \in Request
         /\ pc[r] \in {"lookup", "scan", "scanning", "next", "mark"} => req[r].op = "delete"
         /\ pc[r] = "mark" => hand[r] \in todo[r]

Init ==
    /\ now = First.time
    /\ parent = First.parent
    /\ born = First.born
    /\ dead = {}
    /\ spoiled = FALSE
    /\ req = [r \in Requests |-> NoRequest]
    /\ pc = [r \in Requests |-> "idle"]
    /\ scope = [r \in Requests |-> {}]
    /\ todo = [r \in Requests |-> {}]
    /\ hand = [r \in Requests |-> NoDir]
    /\ took = [r \in Requests |-> {}]
    /\ reply = [r \in Requests |-> 0]
    /\ meant = [r \in Requests |-> {}]
    /\ overlapped = FALSE

----------------------------------------------------------------------------
(* Steps of a handler.                                                     *)

Exists(d) == born[d] > 0
Live(d) == Exists(d) /\ d \notin dead

Asks(r, op, at) == pc[r] = at /\ req[r].op = op

Goto(r, at) == pc' = [pc EXCEPT ![r] = at] /\ UNCHANGED reply

Answer(r, status) ==
    /\ pc' = [pc EXCEPT ![r] = "done"]
    /\ reply' = [reply EXCEPT ![r] = status]

(* Clients name directories that are, or have been, in the tree.           *)
FirstStep(op) ==
    IF op \in {"create", "update"} THEN "read"
    ELSE IF op = "delete" THEN "lookup" ELSE "write"

Receive(r) ==
    /\ pc[r] = "idle"
    /\ \E q \in Request :
         /\ q.dir # NoDir => Exists(q.dir)
         /\ req' = [req EXCEPT ![r] = q]
         /\ Goto(r, FirstStep(q.op))
    /\ UNCHANGED <<mapVars, spoiled, deleteVars, overlapped>>

(* The handlers of create and update look the directory up first.          *)
Read(r) ==
    /\ pc[r] = "read"
    /\ IF Live(req[r].dir)
         THEN Goto(r, "write")
         ELSE Answer(r, IF req[r].op = "create" THEN 400 ELSE 404)
    /\ UNCHANGED <<mapVars, spoiled, req, deleteVars, overlapped>>

(* CreateRoot, and CreateDirectory, which looks at no other directory.     *)
Create(r) ==
    /\ pc[r] = "write"
    /\ req[r].op \in {"createRoot", "create"}
    /\ \E d \in Dirs :
         /\ ~Exists(d)
         /\ now' = now + 1
         /\ born' = [born EXCEPT ![d] = now + 1]
         /\ parent' = [parent EXCEPT ![d] = req[r].dir]
    /\ Answer(r, 201)
    /\ UNCHANGED <<dead, spoiled, req, deleteVars, overlapped>>

(* Mutant of UpdateDirectory: what is stored is a copy, made when the      *)
(* directory was read and live.                                            *)
UpdateDirectoryFromCopy(r) ==
    /\ Asks(r, "update", "write")
    /\ dead' = dead \ {req[r].dir}
    /\ Answer(r, 200)
    /\ UNCHANGED <<parent, born, now, spoiled, req, deleteVars, overlapped>>

(* UpdateDirectory stores the pointer that GetDirectory gave out: whatever *)
(* has been done to the directory since is done to the one that is stored. *)
UpdateDirectory(r) ==
    /\ Asks(r, "update", "write")
    /\ Answer(r, 200)
    /\ UNCHANGED <<mapVars, spoiled, req, deleteVars, overlapped>>

(* A test puts something else in the map it has injected.                  *)
Spoil ==
    /\ ~spoiled
    /\ spoiled' = TRUE
    /\ UNCHANGED <<mapVars, req, pc, deleteVars, reply, overlapped>>

----------------------------------------------------------------------------
(* DeleteDirectory.                                                        *)

Deleting(r) == pc[r] \in {"scan", "scanning", "next", "mark"}

(* Mutant of LookUp: a root is not refused.                                *)
LookUpAny(r) ==
    /\ pc[r] = "lookup"
    /\ IF Live(req[r].dir) THEN Goto(r, "scan") ELSE Answer(r, 404)
    /\ overlapped' = (overlapped \/ \E s \in Requests : Deleting(s))
    /\ UNCHANGED <<mapVars, spoiled, req, deleteVars>>

(* The directory has to be live, and no root.                              *)
LookUp(r) ==
    /\ pc[r] = "lookup"
    /\ IF Live(req[r].dir) /\ parent[req[r].dir] # NoDir
         THEN Goto(r, "scan")
         ELSE Answer(r, 404)
    /\ overlapped' = (overlapped \/ \E s \in Requests : Deleting(s))
    /\ UNCHANGED <<mapVars, spoiled, req, deleteVars>>

(* Range of getChildren: the keys are those that are in the map now.  It   *)
(* meets them all, so that a value of another type fails the request.      *)
BeginScan(r) ==
    /\ pc[r] = "scan"
    /\ IF spoiled
         THEN Answer(r, 500) /\ UNCHANGED scope
         ELSE /\ scope' = [scope EXCEPT ![r] = { d \in Dirs : Live(d) }]
              /\ Goto(r, "scanning")
    /\ UNCHANGED <<mapVars, spoiled, req, todo, hand, took, meant, overlapped>>

(* Mutants of Children: the directory itself is among them; they are not   *)
(* asked for their children.                                               *)
ChildrenAndSelf(d, seen) == Below(parent, d, seen \cup {d})
ChildrenOneLevel(d, seen) == { x \in seen : parent[x] = d }

(* What getChildren finds of d when Range has seen the members of "seen"   *)
(* undeleted: it walks down from d, whatever has become of d itself.       *)
Children(d, seen) == Below(parent, d, seen \cup {d}) \ {d}

Older(x, S) == { y \in S : born[y] < born[x] }

(* Mutant of Page: it is one too small.                                    *)
PageTooSmall(S) == { x \in S : Cardinality(Older(x, S)) < PageSize - 1 }

(* GetChildren without options: the oldest ones, as many as fit a page.    *)
Page(S) == { x \in S : Cardinality(Older(x, S)) < PageSize }

(* Range is over.  It comes to each key at a time of its own, so that of   *)
(* the directories deleted meanwhile it may have seen any undeleted.  Then *)
(* DeletedAt of the directory itself is set.                               *)
EndScan(r) ==
    /\ pc[r] = "scanning"
    /\ LET target == req[r].dir
           standing == scope[r] \ dead
       IN /\ \E seen \in SUBSET scope[r] :
               /\ standing \subseteq seen
               /\ todo' = [todo EXCEPT ![r] = Page(Children(target, seen))]
          /\ meant' = [meant EXCEPT ![r] = Below(parent, target, standing \cup {target}) \ {target}]
          /\ dead' = dead \cup {target}
          /\ took' = [took EXCEPT ![r] = {target}]
    /\ IF todo'[r] = {} THEN Answer(r, 200) ELSE Goto(r, "next")
    /\ UNCHANGED <<parent, born, now, spoiled, req, scope, hand, overlapped>>

(* The one to be marked next: GetChildren sorts by age.                    *)
Oldest(S) == { x \in S : \A y \in S : born[x] <= born[y] }

(* Mutant of NextChild: a variable of the loop hides the child.            *)
NextChildHidden(r) ==
    /\ pc[r] = "next"
    /\ \E x \in Oldest(todo[r]) : IF x \in dead THEN Answer(r, 404) ELSE Goto(r, "mark")
    /\ UNCHANGED <<mapVars, spoiled, req, scope, todo, hand, took, meant, overlapped>>

(* The next child is looked up.  Another request may have deleted it: then *)
(* this one fails half way, as "not found".                                *)
NextChild(r) ==
    /\ pc[r] = "next"
    /\ \E x \in Oldest(todo[r]) :
         IF x \in dead
           THEN Answer(r, 404) /\ UNCHANGED hand
           ELSE /\ hand' = [hand EXCEPT ![r] = x]
                /\ Goto(r, "mark")
    /\ UNCHANGED <<mapVars, spoiled, req, scope, todo, took, meant, overlapped>>

(* Its DeletedAt is set, whether or not it has been set meanwhile.         *)
MarkChild(r) ==
    /\ pc[r] = "mark"
    /\ dead' = dead \cup {hand[r]}
    /\ took' = [took EXCEPT ![r] = @ \cup {hand[r]}]
    /\ todo' = [todo EXCEPT ![r] = @ \ {hand[r]}]
    /\ IF todo[r] = {hand[r]} THEN Answer(r, 200) ELSE Goto(r, "next")
    /\ UNCHANGED <<parent, born, now, spoiled, req, scope, hand, meant, overlapped>>

Handle(r) ==
    \/ Read(r) \/ Create(r) \/ UpdateDirectory(r)
    \/ LookUp(r) \/ BeginScan(r) \/ EndScan(r) \/ NextChild(r) \/ MarkChild(r)

Next ==
    \/ \E r \in Requests : Receive(r) \/ Handle(r)
    \/ Spoil

Spec == Init /\ [][Next]_vars

----------------------------------------------------------------------------
(* What the driver guarantees.                                             *)

(* A deletion stands, although updates write directories back that they    *)
(* read before they were deleted, and although nothing is locked.          *)
DeletionsStand == [][dead \subseteq dead']_dead

(* Nothing goes but what lies below a directory that a client asked to be  *)
(* deleted, and no root goes, whatever the scans have seen of each other's *)
(* work.                                                                   *)
Targets == { req[r].dir : r \in { s \in Requests : pc[s] # "idle" /\ req[s].op = "delete" } }

OnlyWhatWasAskedFor ==
    \A d \in dead :
        /\ parent[d] # NoDir
        /\ \E t \in Targets : d \in Below(parent, t, { x \in Dirs : Exists(x) })

(* A deletion that succeeds leaves nothing behind of what stood below its  *)
(* directory while it was listed, unless that was more than a page; then a *)
(* whole page is gone.                                                     *)
SuccessIsComplete ==
    \A r \in Requests :
        (reply[r] = 200 /\ req[r].op = "delete") =>
            /\ took[r] \subseteq dead
            /\ meant[r] \subseteq dead \/ Cardinality(took[r]) = PageSize + 1

(* A deletion that is refused as "not found" has changed nothing, unless   *)
(* another has taken a directory away from it: the one it was asked for is *)
(* then deleted for all that, with no event to tell.                       *)
HalfDeletionsHaveARival ==
    \A r \in Requests :
        (reply[r] \in {400, 404, 500} /\ took[r] # {}) =>
            \E s \in Requests \ {r} : took[s] \cap todo[r] # {}

(* As long as no two deletions are under way at once, and none has more    *)
(* below it than a page, this is a directory tree like the one the         *)
(* database keeps: a subtree goes as a whole when Range begins, whatever   *)
(* is created meanwhile.  (What is listed and not marked yet counts as     *)
(* deleted.)                                                               *)
Doomed(r) ==
    CASE pc[r] = "scanning" -> {req[r].dir} \cup Page(Children(req[r].dir, scope[r]))
      [] pc[r] # "scanning" -> todo[r]

Tree == INSTANCE DirectoryTree WITH
    up      <- parent,
    planted <- { d \in Dirs : Exists(d) },
    felled  <- dead \cup UNION { Doomed(r) : r \in Requests }

FitOnAPage ==
    \A r \in Requests :
        Deleting(r) => Cardinality(Children(req[r].dir, scope[r])) <= PageSize

TreeUntilDeletionsOverlap ==
    /\ Tree!ForestInit
    /\ [][~overlapped' /\ FitOnAPage' => Tree!ForestNext]_(Tree!forestVars)

=============================================================================
