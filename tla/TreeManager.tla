----------------------------- MODULE TreeManager -----------------------------
(***************************************************************************)
(* The handlers of the tree manager that change the tree                   *)
(* (internal/httpsrv/treemanager), run concurrently, over the directories  *)
(* table and the notifying storage wrapper (storage/notifier) that         *)
(* publishes an event to a NATS stream (notifier/nats) after each commit.  *)
(*                                                                         *)
(* A request is one goroutine.  It holds no lock: between its read, its    *)
(* statement and each of its publications every other request may take     *)
(* any step, and its server may crash.  Nothing is persisted but the table *)
(* and the stream, so what a crash interrupts is never resumed.            *)
(***************************************************************************)
EXTENDS Directories, Sequences, Functions

CONSTANTS
    Requests,    \* the requests the clients send, each handled once
    Ops,         \* the operations they ask for
    Unset,       \* a field an update leaves out
    Servers,     \* the tree manager processes
    ReadOnly,    \* those started with --read-only
    FastReads,   \* those started with --fast-reads
    DBFaults,    \* may a statement fail, or its answer be lost?
    RowsCut,     \* may the rows a delete returns be cut short?
    MaxTries,    \* bound on the failed publications of one event
    MaxCrashes,  \* bound on server crashes
    NoRequest,   \* an unused request slot
    NoEvent      \* no publication is being retried

ASSUME TreeManagerAssumption ==
    /\ Ops \subseteq {"createRoot", "create", "update", "delete"}
    /\ ReadOnly \subseteq Servers
    /\ FastReads \subseteq Servers
    /\ DBFaults \in BOOLEAN
    /\ RowsCut \in BOOLEAN
    /\ MaxTries \in Nat \ {0}
    /\ MaxCrashes \in Nat
    /\ Unset \notin Names \cup Metas

VARIABLES
    req,      \* what each request asks for
    pc,       \* how far its handler has come
    draft,    \* update: the name and metadata to be written
    owed,     \* the events its commit calls for
    todo,     \* those of them the wrapper has yet to publish
    sending,  \* the event being retried
    tries,    \* how often its publication has failed
    reply,    \* the status the client got; 0: none
    stream,   \* the events in the NATS stream, in its order
    crashes   \* how often a server has crashed

handlerVars == <<pc, reply, draft, owed, todo, sending, tries>>
vars == <<tableVars, req, handlerVars, stream, crashes>>

(* What a client may ask: createRoot names no directory, the others do; a  *)
(* new directory has a name and metadata (the driver supplies empty ones), *)
(* a delete has neither.                                                   *)
Request ==
    { q \in [op : Ops, dir : Dirs \cup {NoDir}, name : Names \cup {Unset},
             metadata : Metas \cup {Unset}, server : Servers] :
        /\ q.op = "createRoot" <=> q.dir = NoDir
        /\ q.op \in {"createRoot", "create"} => q.name \in Names /\ q.metadata \in Metas
        /\ q.op = "delete" => q.name = Unset /\ q.metadata = Unset }

Event ==
    [type : {"create", "update", "delete"},
     dir : Dirs, at : Nat, gone : Nat, text : Text]

PCs == {"idle", "read", "write", "notify", "done", "lost"}
Replies == {0, 200, 201, 400, 404, 500}

TypeOK ==
    /\ TableTypeOK
    /\ req \in [Requests -> Request \cup {NoRequest}]
    /\ pc \in [Requests -> PCs]
    /\ draft \in [Requests -> Text]
    /\ owed \in [Requests -> SUBSET Event]
    /\ todo \in [Requests -> SUBSET Event]
    /\ sending \in [Requests -> Event \cup {NoEvent}]
    /\ tries \in [Requests -> 0 .. MaxTries]
    /\ reply \in [Requests -> Replies]
    /\ stream \in Seq(Event)
    /\ crashes \in 0 .. MaxCrashes
    /\ \A r \in Requests : pc[r] # "idle" => req[r] \in Request

Init ==
    /\ TableInit
    /\ req = [r \in Requests |-> NoRequest]
    /\ pc = [r \in Requests |-> "idle"]
    /\ draft = [r \in Requests |-> Seed.text]
    /\ owed = [r \in Requests |-> {}]
    /\ todo = [r \in Requests |-> {}]
    /\ sending = [r \in Requests |-> NoEvent]
    /\ tries = [r \in Requests |-> 0]
    /\ reply = [r \in Requests |-> 0]
    /\ stream = <<>>
    /\ crashes = 0

----------------------------------------------------------------------------
(* Steps of a handler.                                                     *)

Asks(r, op, at) == pc[r] = at /\ req[r].op = op

Goto(r, at) == pc' = [pc EXCEPT ![r] = at] /\ UNCHANGED reply

Answer(r, status) ==
    /\ pc' = [pc EXCEPT ![r] = "done"]
    /\ reply' = [reply EXCEPT ![r] = status]

(* What a read made by request r sees: the present, or what the closest    *)
(* follower has, which may lag behind.                                     *)
ReadTime(r) == IF req[r].server \in FastReads THEN follower ELSE now

(* The wrapper now has to publish "events", of the "due" its commit made.  *)
Notify(r, due, events) ==
    /\ owed' = [owed EXCEPT ![r] = due]
    /\ todo' = [todo EXCEPT ![r] = events]

(* Mutant of AfterCommit: every failure of a statement is taken for        *)
(* sql.ErrNoRows.                                                          *)
AfterCommitNotFound(r, due) ==
    \/ /\ Notify(r, due, due)
       /\ Goto(r, "notify")
    \/ /\ DBFaults
       /\ Notify(r, due, {})
       /\ Answer(r, 404)

(* A commit that gives rise to the events "due" either is answered, and    *)
(* the wrapper starts to notify, or the connection breaks before the       *)
(* answer arrives and the handler reports a failure.                       *)
AfterCommit(r, due) ==
    \/ /\ Notify(r, due, due)
       /\ Goto(r, "notify")
    \/ /\ DBFaults
       /\ Notify(r, due, {})
       /\ Answer(r, 500)

(* The directory an event carries: its id, updated_at, deleted_at, text.   *)
MkEvent(type, d, at, gone, text) ==
    [type |-> type, dir |-> d, at |-> at, gone |-> gone, text |-> text]

(* A field that the request sets, or what the row had.                     *)
Patched(field, old) == IF field = Unset THEN old ELSE field

----------------------------------------------------------------------------
(* A client's request reaches a server.  Clients name rows that exist,     *)
(* live or deleted.                                                        *)
Receive(r) ==
    /\ pc[r] = "idle"
    /\ \E q \in Request :
         /\ q.dir # NoDir => Exists(q.dir)
         /\ req' = [req EXCEPT ![r] = q]
         /\ Goto(r, IF q.op \in {"create", "update"} THEN "read" ELSE "write")
    /\ UNCHANGED <<tableVars, draft, owed, todo, sending, tries, stream, crashes>>

(* createDirectory looks the parent up; only its id is used later.         *)
ReadParent(r) ==
    /\ Asks(r, "create", "read")
    /\ IF LiveAt(req[r].dir, ReadTime(r)) THEN Goto(r, "write") ELSE Answer(r, 400)
    /\ UNCHANGED <<tableVars, req, draft, owed, todo, sending, tries, stream, crashes>>

(* updateDirectory reads the directory and overlays the request's fields.  *)
ReadDirectory(r) ==
    /\ Asks(r, "update", "read")
    /\ IF LiveAt(req[r].dir, ReadTime(r))
         THEN /\ \E e \in edits :
                   /\ e.dir = req[r].dir
                   /\ VersionAt(e, ReadTime(r))
                   /\ draft' = [draft EXCEPT ![r] =
                        [name |-> Patched(req[r].name, e.text.name),
                         metadata |-> Patched(req[r].metadata, e.text.metadata)]]
              /\ Goto(r, "write")
         ELSE /\ Answer(r, 404)
              /\ UNCHANGED draft
    /\ UNCHANGED <<tableVars, req, owed, todo, sending, tries, stream, crashes>>

(* Mutant of RefuseWrite: the wrapper notifies in spite of the error.      *)
RefuseWriteButNotify(r) ==
    /\ Asks(r, "update", "write")
    /\ req[r].server \in ReadOnly
    /\ LET due == {MkEvent("update", req[r].dir, now + 1, 0, draft[r])}
       IN Notify(r, due, due)
    /\ Goto(r, "notify")
    /\ UNCHANGED <<tableVars, req, draft, sending, tries, stream, crashes>>

(* The driver refuses to create or update when it is read-only.            *)
RefuseWrite(r) ==
    /\ pc[r] = "write"
    /\ req[r].op \in {"createRoot", "create", "update"}
    /\ req[r].server \in ReadOnly
    /\ Answer(r, 500)
    /\ UNCHANGED <<tableVars, req, draft, owed, todo, sending, tries, stream, crashes>>

(* CreateRoot and CreateDirectory: the database picks the id.              *)
InsertDirectory(r) ==
    /\ pc[r] = "write"
    /\ req[r].op \in {"createRoot", "create"}
    /\ req[r].server \notin ReadOnly
    /\ LET text == [name |-> req[r].name, metadata |-> req[r].metadata]
       IN \E d \in Dirs :
            /\ Insert(d, req[r].dir, text)
            /\ AfterCommit(r, {MkEvent("create", d, now + 1, 0, text)})
    /\ UNCHANGED <<req, draft, sending, tries, stream, crashes>>

(* UpdateDirectory: the event carries the directory as it was read, so its *)
(* DeletedAt is nil whatever became of the row since.                      *)
WriteDirectory(r) ==
    /\ Asks(r, "update", "write")
    /\ req[r].server \notin ReadOnly
    /\ UpdateRow(req[r].dir, draft[r])
    /\ AfterCommit(r, {MkEvent("update", req[r].dir, now + 1, 0, draft[r])})
    /\ UNCHANGED <<req, draft, sending, tries, stream, crashes>>

(* The rows a delete of d returns, as the events they call for.            *)
Deletions(d) ==
    { MkEvent("delete", e.dir, e.at, now + 1, e.text) :
        e \in { f \in edits : f.dir \in Doomed(d) /\ VersionAt(f, now) } }

(* DeleteDirectory, which does not ask whether the driver is read-only.    *)
(* The loop over the returned rows ends silently when the connection       *)
(* breaks: the rows not yet read are then missing from the result.         *)
DeleteDirectory(r) ==
    /\ Asks(r, "delete", "write")
    /\ SoftDelete(req[r].dir)
    /\ LET due == Deletions(req[r].dir)
       IN \/ due # {} /\ AfterCommit(r, due)
          \/ due = {} /\ Notify(r, {}, {}) /\ Answer(r, 404)
          \/ \E rows \in SUBSET due :
               /\ RowsCut /\ rows # due
               /\ Notify(r, due, rows)
               /\ IF rows = {} THEN Answer(r, 404) ELSE Goto(r, "notify")
    /\ UNCHANGED <<req, draft, sending, tries, stream, crashes>>

(* A read or a statement fails without effect.  (updateDirectory does not  *)
(* test this error: it dereferences the nil directory, and the panic is    *)
(* answered with the same status.)                                         *)
StatementFails(r) ==
    /\ DBFaults
    /\ pc[r] \in {"read", "write"}
    /\ Answer(r, 500)
    /\ UNCHANGED <<tableVars, req, draft, owed, todo, sending, tries, stream, crashes>>

----------------------------------------------------------------------------
(* The notifying wrapper: one event at a time, each retried until it is    *)
(* acknowledged or the retrier gives up.                                   *)

Success(r) == IF req[r].op \in {"createRoot", "create"} THEN 201 ELSE 200

(* The event to publish: the one being retried, or the next of the rows.   *)
Current(r, e) == e \in todo[r] /\ (tries[r] = 0 \/ e = sending[r])

(* The stream stores e and the acknowledgement arrives.                    *)
Publish(r) ==
    /\ pc[r] = "notify"
    /\ \E e \in todo[r] :
         /\ Current(r, e)
         /\ stream' = Append(stream, e)
         /\ todo' = [todo EXCEPT ![r] = @ \ {e}]
         /\ tries' = [tries EXCEPT ![r] = 0]
         /\ sending' = [sending EXCEPT ![r] = NoEvent]
         /\ IF todo[r] = {e} THEN Answer(r, Success(r)) ELSE UNCHANGED <<pc, reply>>
    /\ UNCHANGED <<tableVars, req, draft, owed, crashes>>

(* Mutants of PublishFails: it retries without bound; its clock starts     *)
(* again with every attempt.                                               *)
PublishFailsUnbounded(r) ==
    /\ pc[r] = "notify"
    /\ \E e \in todo[r] :
         /\ Current(r, e)
         /\ sending' = [sending EXCEPT ![r] = e]
    /\ tries' = [tries EXCEPT ![r] = @ + 1]
    /\ UNCHANGED <<tableVars, req, pc, reply, draft, owed, todo, stream, crashes>>

PublishFailsForever(r) ==
    /\ pc[r] = "notify"
    /\ \E e \in todo[r] :
         /\ Current(r, e)
         /\ sending' = [sending EXCEPT ![r] = IF @ = NoEvent THEN e ELSE NoEvent]
    /\ tries' = [tries EXCEPT ![r] = 0]
    /\ UNCHANGED <<tableVars, req, pc, reply, draft, owed, todo, stream, crashes>>

(* The publication fails: the stream did not store e, or it did and only   *)
(* the acknowledgement is missing.  Either way e is published again.       *)
PublishFails(r) ==
    /\ pc[r] = "notify"
    /\ tries[r] < MaxTries
    /\ \E e \in todo[r] :
         /\ Current(r, e)
         /\ stream' \in {stream, Append(stream, e)}
         /\ sending' = [sending EXCEPT ![r] = e]
    /\ tries' = [tries EXCEPT ![r] = @ + 1]
    /\ UNCHANGED <<tableVars, req, pc, reply, draft, owed, todo, crashes>>

(* Mutant of GiveUp: the wrapper drops the error.                          *)
GiveUpQuietly(r) ==
    /\ pc[r] = "notify"
    /\ tries[r] > 0
    /\ Answer(r, Success(r))
    /\ UNCHANGED <<tableVars, req, draft, owed, todo, sending, tries, stream, crashes>>

(* The retrier's time is up: the handler reports a failure and the events  *)
(* that remain are dropped.                                                *)
GiveUp(r) ==
    /\ pc[r] = "notify"
    /\ tries[r] > 0
    /\ Answer(r, 500)
    /\ UNCHANGED <<tableVars, req, draft, owed, todo, sending, tries, stream, crashes>>

(* A server dies, or is stopped while requests outlast its shutdown        *)
(* timeout; requests that arrive later meet its successor.                 *)
Crash(s) ==
    /\ crashes < MaxCrashes
    /\ crashes' = crashes + 1
    /\ LET hit == { r \in Requests : pc[r] \in {"read", "write", "notify"}
                                      /\ req[r].server = s }
       IN /\ hit # {}
          /\ pc' = [r \in Requests |-> IF r \in hit THEN "lost" ELSE pc[r]]
    /\ UNCHANGED <<tableVars, req, reply, draft, owed, todo, sending, tries, stream>>

(* A follower catches up; nobody looks when no server reads from one.      *)
FollowerCatchesUp ==
    /\ FastReads # {}
    /\ CatchUp
    /\ UNCHANGED <<req, handlerVars, stream, crashes>>

(* What the server itself does for request r.                              *)
Handle(r) ==
    \/ ReadParent(r) \/ ReadDirectory(r)
    \/ RefuseWrite(r) \/ InsertDirectory(r) \/ WriteDirectory(r) \/ DeleteDirectory(r)
    \/ StatementFails(r)
    \/ Publish(r) \/ PublishFails(r) \/ GiveUp(r)

Next ==
    \/ \E r \in Requests : Receive(r) \/ Handle(r)
    \/ \E s \in Servers : Crash(s)
    \/ FollowerCatchesUp

Spec == Init /\ [][Next]_vars

(* The Go scheduler runs every goroutine, and every call a handler makes   *)
(* returns: the driver's with the statement's result or an error, the      *)
(* publication's with an acknowledgement or an error.                      *)
Fairness == \A r \in Requests : WF_vars(Handle(r))

FairSpec == Spec /\ Fairness

----------------------------------------------------------------------------
(* What the tree manager guarantees.                                       *)

(* No event runs ahead of the table, whatever was retried, lost or         *)
(* interrupted by a crash: what the stream says was created, updated or    *)
(* deleted has been committed, with the text and the time it says.         *)
Committed(e) ==
    /\ [dir |-> e.dir, at |-> e.at, text |-> e.text] \in edits
    /\ e.type = "create" => e.at = born[e.dir]
    /\ e.type = "update" => born[e.dir] < e.at
    /\ IF e.type = "delete" THEN e.gone # 0 /\ died[e.dir] = e.gone ELSE e.gone = 0

StreamTellsTheTruth == \A i \in 1 .. Len(stream) : Committed(stream[i])

(* As long as the rows of a delete arrive whole (RowsCut = FALSE), a       *)
(* client that is told of success can rely on the watchers: every event    *)
(* its commit called for, one per row a delete touched, is in the stream.  *)
SuccessIsAnnounced ==
    \A r \in Requests :
        reply[r] \in {200, 201} => /\ owed[r] # {}
                                   /\ owed[r] \subseteq Range(stream)

(* As long as the rows of a delete arrive whole (RowsCut = FALSE), a       *)
(* client that is told its request was wrong has changed nothing: a delete *)
(* of which no row arrives passes for one that found nothing.              *)
RefusalsChangeNothing ==
    \A r \in Requests : reply[r] \in {400, 404} => owed[r] = {}

(* Every change since the start is the doing of one request, which has to  *)
(* announce it: two deletes of overlapping subtrees never both claim a     *)
(* directory, and no version of a row and no deletion goes unclaimed.      *)
Claimants(F(_)) == { r \in Requests : \E u \in owed[r] : F(u) }

EveryChangeHasOneOwner ==
    /\ \A e \in edits :
         LET Writes(u) == u.type # "delete" /\ u.dir = e.dir /\ u.at = e.at
         IN Cardinality(Claimants(Writes)) = IF e.at > Seed.time THEN 1 ELSE 0
    /\ \A d \in Dirs :
         LET Deletes(u) == u.type = "delete" /\ u.dir = d
         IN Cardinality(Claimants(Deletes)) = IF died[d] # 0 THEN 1 ELSE 0

(* Every request that was received is answered, or dies with its server:   *)
(* no retry goes on for ever and no handler waits for another.             *)
EveryRequestEnds ==
    \A r \in Requests : pc[r] # "idle" ~> pc[r] \in {"done", "lost"}

(* The tree manager is an implementation of AnnouncedTree: each of its     *)
(* steps plants, fells or tells, or leaves the tree alone.                 *)
Tree == INSTANCE AnnouncedTree WITH
    First   <- Seed,
    up      <- parent,
    planted <- { d \in Dirs : Exists(d) },
    felled  <- { d \in Dirs : died[d] # 0 },
    told    <- { [type |-> e.type, dir |-> e.dir] : e \in Range(stream) }

ImplementsTree == Tree!TreeSpec

----------------------------------------------------------------------------
(* What the repository says of the tree manager and its code does not do.  *)

(* docs/server.md: a server in read-only mode does not allow for creating, *)
(* deleting or modifying directories.                                      *)
ReadOnlyServersChangeNothing ==
    \A r \in Requests : (pc[r] # "idle" /\ req[r].server \in ReadOnly) => owed[r] = {}

(* treeman-openapi-v1.yaml: deleting a directory deletes all its children. *)
NoLiveOrphans ==
    \A d \in Dirs : Live(d) /\ ~Root(d) => Live(parent[d])

=============================================================================
