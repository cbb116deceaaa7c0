-------------------------- MODULE TreeManagerProofs --------------------------
(***************************************************************************)
(* Theorems about the tree manager, for any number of requests, servers,   *)
(* directories, retries and crashes.                                       *)
(***************************************************************************)
EXTENDS TreeManager, DirectoriesProofs, FiniteSetTheorems

(* Each step of a request or a server is a statement of the driver, or     *)
(* leaves the table alone: what is proved of the table holds here.         *)
LEMMA StepsOfTheTable ==
    TypeOK /\ [Next]_vars => [TableNext]_tableVars
<1> SUFFICES ASSUME TypeOK, [Next]_vars
             PROVE  [TableNext]_tableVars
  OBVIOUS
<1>1. ASSUME NEW r \in Requests, InsertDirectory(r)
      PROVE  TableNext
  <2>1. req[r] \in Request /\ req[r].op \in {"createRoot", "create"}
    BY <1>1 DEF InsertDirectory, TypeOK
  <2>2. /\ req[r].dir \in Dirs \cup {NoDir}
        /\ [name |-> req[r].name, metadata |-> req[r].metadata] \in Text
    BY <2>1 DEF Request, Text
  <2>3. QED
    BY <1>1, <2>2 DEF InsertDirectory, TableNext
<1>2. ASSUME NEW r \in Requests, WriteDirectory(r)
      PROVE  TableNext
  <2>1. req[r] \in Request /\ req[r].op = "update" /\ draft[r] \in Text
    BY <1>2 DEF WriteDirectory, Asks, TypeOK
  <2>2. req[r].dir \in Dirs
    BY <2>1 DEF Request
  <2>3. QED
    BY <1>2, <2>1, <2>2 DEF WriteDirectory, TableNext
<1>3. ASSUME NEW r \in Requests, DeleteDirectory(r)
      PROVE  TableNext
  <2>1. req[r] \in Request /\ req[r].op = "delete"
    BY <1>3 DEF DeleteDirectory, Asks, TypeOK
  <2>2. req[r].dir \in Dirs
    BY <2>1 DEF Request
  <2>3. QED
    BY <1>3, <2>2 DEF DeleteDirectory, TableNext
<1>4. ASSUME NEW r \in Requests,
             \/ Receive(r) \/ ReadParent(r) \/ ReadDirectory(r) \/ RefuseWrite(r)
             \/ StatementFails(r) \/ Publish(r) \/ PublishFails(r) \/ GiveUp(r)
      PROVE  UNCHANGED tableVars
  BY <1>4 DEF Receive, ReadParent, ReadDirectory, RefuseWrite, StatementFails,
              Publish, PublishFails, GiveUp
<1>5. ASSUME NEW s \in Servers, Crash(s)
      PROVE  UNCHANGED tableVars
  BY <1>5 DEF Crash
<1>6. CASE FollowerCatchesUp
  BY <1>6 DEF FollowerCatchesUp, TableNext
<1>7. CASE UNCHANGED vars
  BY <1>7 DEF vars
<1>8. QED
  BY <1>1, <1>2, <1>3, <1>4, <1>5, <1>6, <1>7 DEF Next, Handle

----------------------------------------------------------------------------
(* Types.                                                                  *)
HandlerTypeOK ==
    /\ req \in [Requests -> Request \cup {NoRequest}]
    /\ pc \in [Requests -> PCs]
    /\ draft \in [Requests -> Text]
    /\ owed \in [Requests -> SUBSET Event]
    /\ todo \in [Requests -> SUBSET Event]
    /\ sending \in [Requests -> Event \cup {NoEvent}]
    /\ tries \in [Requests -> 0 .. MaxTries]
    /\ reply \in [Requests -> Replies]
    /\ stream \in Seq(Event)
    /\ crashes \in 0 .. MaxCrashes
    /\ \A r \in Requests : pc[r] # "idle" => req[r] \in Request

LEMMA TypeInit == Init => TypeOK
<1> SUFFICES ASSUME Init
             PROVE  TypeOK
  OBVIOUS
<1>1. TableTypeOK
  BY TableTypeInit DEF Init
<1>2. Seed.text \in Text
  BY SeedAssumption
<1>3. QED
  BY <1>1, <1>2, TreeManagerAssumption DEF Init, TypeOK, PCs, Replies

(* An answer or a move of the program counter is well typed, and concerns  *)
(* its request alone.                                                      *)
LEMMA Moves ==
    ASSUME TypeOK, NEW r \in Requests, NEW at \in PCs, NEW status \in Replies,
           Goto(r, at) \/ Answer(r, status)
    PROVE  /\ pc' \in [Requests -> PCs] /\ reply' \in [Requests -> Replies]
           /\ \A q \in Requests : q # r => pc'[q] = pc[q] /\ reply'[q] = reply[q]
<1>1. CASE Goto(r, at)
  BY <1>1 DEF TypeOK, Goto
<1>2. CASE Answer(r, status)
  BY <1>2 DEF TypeOK, Answer, PCs
<1>3. QED
  BY <1>1, <1>2

(* What AfterCommit does to the handler's part of the state.               *)
LEMMA CommitTypes ==
    ASSUME TypeOK, NEW r \in Requests, NEW due \in SUBSET Event, AfterCommit(r, due)
    PROVE  /\ owed' \in [Requests -> SUBSET Event] /\ todo' \in [Requests -> SUBSET Event]
           /\ pc' \in [Requests -> PCs] /\ reply' \in [Requests -> Replies]
           /\ \A q \in Requests : q # r => pc'[q] = pc[q] /\ reply'[q] = reply[q]
<1>1. owed' \in [Requests -> SUBSET Event] /\ todo' \in [Requests -> SUBSET Event]
  BY DEF AfterCommit, Notify, TypeOK
<1>2. Goto(r, "notify") \/ Answer(r, 500)
  BY DEF AfterCommit
<1>3. "notify" \in PCs /\ 500 \in Replies
  BY DEF PCs, Replies
<1>4. QED
  BY <1>1, <1>2, <1>3, Moves

LEMMA EventsOfAStep ==
    ASSUME TypeOK, NEW d \in Dirs, NEW text \in Text
    PROVE  /\ MkEvent("create", d, now + 1, 0, text) \in Event
           /\ MkEvent("update", d, now + 1, 0, text) \in Event
           /\ Deletions(d) \in SUBSET Event
BY DEF TypeOK, TableTypeOK, MkEvent, Event, Deletions, Edit

(* A handler step other than Receive leaves the requests as they are.      *)
LEMMA StillReceived ==
    ASSUME TypeOK, NEW r \in Requests, pc[r] # "idle", req' = req,
           \A q \in Requests : q # r => pc'[q] = pc[q]
    PROVE  \A q \in Requests : pc'[q] # "idle" => req'[q] \in Request
BY DEF TypeOK

LEMMA TypeStep == TypeOK /\ [Next]_vars => TypeOK'
<1> SUFFICES ASSUME TypeOK, [Next]_vars
             PROVE  TypeOK'
  OBVIOUS
<1>0. TableTypeOK'
  BY StepsOfTheTable, TableTypeStep DEF TypeOK
<1> SUFFICES HandlerTypeOK'
  BY <1>0 DEF TypeOK, HandlerTypeOK
<1>t. HandlerTypeOK
  BY DEF TypeOK, HandlerTypeOK
<1>p. /\ {"idle", "read", "write", "notify", "done", "lost"} \subseteq PCs
      /\ {200, 201, 400, 404, 500} \subseteq Replies
  BY DEF PCs, Replies
<1>1. ASSUME NEW r \in Requests, Receive(r)
      PROVE  HandlerTypeOK'
  <2>1. PICK q \in Request :
          /\ req' = [req EXCEPT ![r] = q]
          /\ Goto(r, IF q.op \in {"create", "update"} THEN "read" ELSE "write")
    BY <1>1 DEF Receive
  <2>2. /\ pc' \in [Requests -> PCs] /\ reply' \in [Requests -> Replies]
        /\ \A x \in Requests : x # r => pc'[x] = pc[x]
    BY <2>1, <1>p, Moves
  <2>3. QED
    BY <1>t, <1>1, <2>1, <2>2 DEF HandlerTypeOK, Receive
<1>2. ASSUME NEW r \in Requests, ReadParent(r)
      PROVE  HandlerTypeOK'
  <2>1. pc[r] # "idle" /\ (Goto(r, "write") \/ Answer(r, 400))
    BY <1>2 DEF ReadParent, Asks
  <2>2. QED
    BY <1>2, <1>t, <2>1, <1>p, Moves, StillReceived DEF HandlerTypeOK, ReadParent
<1>3. ASSUME NEW r \in Requests, ReadDirectory(r)
      PROVE  HandlerTypeOK'
  <2>1. pc[r] # "idle" /\ req[r] \in Request /\ (Goto(r, "write") \/ Answer(r, 404))
    BY <1>3 DEF ReadDirectory, Asks, TypeOK
  <2>2. draft' \in [Requests -> Text]
    <3>1. CASE UNCHANGED draft
      BY <3>1, <1>t DEF HandlerTypeOK
    <3>2. ASSUME NEW e \in edits,
                 draft' = [draft EXCEPT ![r] =
                    [name |-> Patched(req[r].name, e.text.name),
                     metadata |-> Patched(req[r].metadata, e.text.metadata)]]
          PROVE  draft' \in [Requests -> Text]
      <4>1. e.text \in Text
        BY DEF TypeOK, TableTypeOK, Edit
      <4>2. req[r].name \in Names \cup {Unset} /\ req[r].metadata \in Metas \cup {Unset}
        BY <2>1 DEF Request
      <4>3. /\ Patched(req[r].name, e.text.name) \in Names
            /\ Patched(req[r].metadata, e.text.metadata) \in Metas
        BY <4>1, <4>2 DEF Patched, Text
      <4>4. QED
        BY <3>2, <4>3, <1>t DEF HandlerTypeOK, Text
    <3>3. QED
      BY <1>3, <3>1, <3>2 DEF ReadDirectory
  <2>3. QED
    BY <1>3, <1>t, <2>1, <2>2, <1>p, Moves, StillReceived DEF HandlerTypeOK, ReadDirectory
<1>4. ASSUME NEW r \in Requests, RefuseWrite(r)
      PROVE  HandlerTypeOK'
  BY <1>4, <1>t, <1>p, Moves, StillReceived DEF HandlerTypeOK, RefuseWrite
<1>5. ASSUME NEW r \in Requests, InsertDirectory(r)
      PROVE  HandlerTypeOK'
  <2>1. req[r] \in Request /\ req[r].op \in {"createRoot", "create"} /\ pc[r] # "idle"
    BY <1>5 DEF InsertDirectory, TypeOK
  <2>2. [name |-> req[r].name, metadata |-> req[r].metadata] \in Text
    BY <2>1 DEF Request, Text
  <2>3. PICK due \in SUBSET Event : AfterCommit(r, due)
    BY <1>5, <2>2, EventsOfAStep DEF InsertDirectory
  <2>4. QED
    BY <1>5, <1>t, <2>1, <2>3, CommitTypes, StillReceived DEF HandlerTypeOK, InsertDirectory
<1>6. ASSUME NEW r \in Requests, WriteDirectory(r)
      PROVE  HandlerTypeOK'
  <2>1. req[r] \in Request /\ req[r].op = "update" /\ draft[r] \in Text /\ pc[r] # "idle"
    BY <1>6 DEF WriteDirectory, Asks, TypeOK
  <2>2. req[r].dir \in Dirs
    BY <2>1 DEF Request
  <2>3. PICK due \in SUBSET Event : AfterCommit(r, due)
    BY <1>6, <2>1, <2>2, EventsOfAStep DEF WriteDirectory
  <2>4. QED
    BY <1>6, <1>t, <2>1, <2>3, CommitTypes, StillReceived DEF HandlerTypeOK, WriteDirectory
<1>7. ASSUME NEW r \in Requests, DeleteDirectory(r)
      PROVE  HandlerTypeOK'
  <2>1. req[r] \in Request /\ req[r].op = "delete" /\ pc[r] # "idle"
    BY <1>7 DEF DeleteDirectory, Asks, TypeOK
  <2>2. Deletions(req[r].dir) \in SUBSET Event
    BY <2>1, EventsOfAStep, SeedAssumption DEF Request
  <2>3. /\ owed' \in [Requests -> SUBSET Event] /\ todo' \in [Requests -> SUBSET Event]
        /\ pc' \in [Requests -> PCs] /\ reply' \in [Requests -> Replies]
        /\ \A q \in Requests : q # r => pc'[q] = pc[q]
    <3>1. CASE AfterCommit(r, Deletions(req[r].dir))
      BY <3>1, <2>2, CommitTypes
    <3>2. ASSUME NEW rows \in SUBSET Deletions(req[r].dir),
                 Notify(r, Deletions(req[r].dir), rows) \/ Notify(r, {}, {}),
                 Answer(r, 404) \/ Goto(r, "notify")
          PROVE  /\ owed' \in [Requests -> SUBSET Event] /\ todo' \in [Requests -> SUBSET Event]
                 /\ pc' \in [Requests -> PCs] /\ reply' \in [Requests -> Replies]
                 /\ \A q \in Requests : q # r => pc'[q] = pc[q]
      <4>1. owed' \in [Requests -> SUBSET Event] /\ todo' \in [Requests -> SUBSET Event]
        BY <3>2, <2>2, <1>t DEF Notify, HandlerTypeOK
      <4>2. QED
        BY <4>1, <3>2, <1>p, Moves
    <3>3. QED
      BY <1>7, <3>1, <3>2 DEF DeleteDirectory
  <2>4. QED
    BY <1>7, <1>t, <2>1, <2>3, StillReceived DEF HandlerTypeOK, DeleteDirectory
<1>8. ASSUME NEW r \in Requests, StatementFails(r) \/ GiveUp(r)
      PROVE  HandlerTypeOK'
  BY <1>8, <1>t, <1>p, Moves, StillReceived DEF HandlerTypeOK, StatementFails, GiveUp
<1>9. ASSUME NEW r \in Requests, Publish(r)
      PROVE  HandlerTypeOK'
  <2>1. PICK e \in todo[r] :
          /\ stream' = Append(stream, e)
          /\ todo' = [todo EXCEPT ![r] = @ \ {e}]
          /\ tries' = [tries EXCEPT ![r] = 0]
          /\ sending' = [sending EXCEPT ![r] = NoEvent]
          /\ Answer(r, Success(r)) \/ UNCHANGED <<pc, reply>>
    BY <1>9 DEF Publish
  <2>2. pc[r] # "idle" /\ Success(r) \in Replies
    BY <1>9, <1>p DEF Publish, Success
  <2>3. /\ pc' \in [Requests -> PCs] /\ reply' \in [Requests -> Replies]
        /\ \A q \in Requests : q # r => pc'[q] = pc[q]
    BY <2>1, <2>2, <1>p, <1>t, Moves DEF HandlerTypeOK
  <2>4. /\ e \in Event /\ stream' \in Seq(Event) /\ todo' \in [Requests -> SUBSET Event]
        /\ tries' \in [Requests -> 0 .. MaxTries]
        /\ sending' \in [Requests -> Event \cup {NoEvent}]
    BY <2>1, <1>t, TreeManagerAssumption DEF HandlerTypeOK
  <2>5. QED
    BY <1>9, <1>t, <2>2, <2>3, <2>4, StillReceived DEF HandlerTypeOK, Publish
<1>10. ASSUME NEW r \in Requests, PublishFails(r)
       PROVE  HandlerTypeOK'
  <2>1. PICK e \in todo[r] : /\ stream' \in {stream, Append(stream, e)}
                             /\ sending' = [sending EXCEPT ![r] = e]
    BY <1>10 DEF PublishFails
  <2>2. /\ e \in Event /\ stream' \in Seq(Event)
        /\ sending' \in [Requests -> Event \cup {NoEvent}]
    <3>1. e \in Event /\ stream \in Seq(Event)
      BY <1>t DEF HandlerTypeOK
    <3>2. Append(stream, e) \in Seq(Event)
      BY <3>1
    <3>3. QED
      BY <2>1, <1>t, <3>1, <3>2 DEF HandlerTypeOK
  <2>3. tries' \in [Requests -> 0 .. MaxTries]
    BY <1>10, <1>t, TreeManagerAssumption DEF HandlerTypeOK, PublishFails
  <2>4. QED
    BY <1>10, <1>t, <2>2, <2>3 DEF HandlerTypeOK, PublishFails
<1>11. ASSUME NEW s \in Servers, Crash(s)
       PROVE  HandlerTypeOK'
  <2>1. /\ pc' \in [Requests -> PCs]
        /\ \A q \in Requests : pc'[q] # "idle" => pc[q] # "idle"
    BY <1>11, <1>t, <1>p DEF HandlerTypeOK, Crash
  <2>2. crashes' \in 0 .. MaxCrashes
    BY <1>11, <1>t, TreeManagerAssumption DEF HandlerTypeOK, Crash
  <2>3. QED
    BY <1>11, <1>t, <2>1, <2>2 DEF HandlerTypeOK, Crash
<1>12. CASE FollowerCatchesUp
  BY <1>12, <1>t DEF HandlerTypeOK, FollowerCatchesUp, handlerVars
<1>13. CASE UNCHANGED vars
  BY <1>13, <1>t DEF HandlerTypeOK, vars, handlerVars
<1>14. QED
  BY <1>1, <1>2, <1>3, <1>4, <1>5, <1>6, <1>7, <1>8, <1>9, <1>10, <1>11, <1>12, <1>13
     DEF Next, Handle

(* In every reachable state the whole state is well typed.                 *)
THEOREM TypeCorrect == Spec => []TypeOK
BY TypeInit, TypeStep, PTL DEF Spec

(* Every behaviour of the tree manager is one of the driver's table, so    *)
(* the theorems about the table hold of it.                                *)
THEOREM UsesTheTable == Spec => TableSpec
<1>1. Init => TableInit
  BY DEF Init
<1>2. QED
  BY <1>1, StepsOfTheTable, TypeCorrect, PTL DEF Spec, TableSpec

(* The forest, the complete cascades and the permanence of rows and        *)
(* deletions survive any interleaving of requests, retries and crashes.    *)
THEOREM TreeStaysSound == Spec => [](Forest /\ CascadeIsComplete)
BY UsesTheTable, TableCorrect, PTL

THEOREM RowsStand == Spec => HistoryStands
BY UsesTheTable, TableHistoryStands, PTL

----------------------------------------------------------------------------
(* No event runs ahead of the table.  The strengthening: the versions of   *)
(* rows belong to rows, and what a request owes, and has yet to publish,   *)
(* is committed before any of it reaches the stream.                       *)
EditsOfRows == \A e \in edits : Exists(e.dir) /\ born[e.dir] <= e.at

TruthInv ==
    /\ EditsOfRows
    /\ \A r \in Requests : \A e \in owed[r] : Committed(e)
    /\ \A r \in Requests : todo[r] \subseteq owed[r]
    /\ StreamTellsTheTruth

LEMMA EditsStep == TableTypeOK /\ EditsOfRows /\ [TableNext]_tableVars => EditsOfRows'
<1> SUFFICES ASSUME TableTypeOK, EditsOfRows, [TableNext]_tableVars, NEW e \in edits'
             PROVE  (Exists(e.dir) /\ born[e.dir] <= e.at)'
  BY DEF EditsOfRows
<1> USE DEF TableTypeOK, Exists
<1>1. ASSUME NEW d \in Dirs, NEW p \in Dirs \cup {NoDir}, NEW text \in Text,
             Insert(d, p, text)
      PROVE  (Exists(e.dir) /\ born[e.dir] <= e.at)'
  <2>1. /\ born' = [born EXCEPT ![d] = now + 1] /\ ~(born[d] > 0)
        /\ edits' = edits \cup {[dir |-> d, at |-> now + 1, text |-> text]}
    BY <1>1 DEF Insert
  <2>2. CASE e \in edits
    <3>1. e.dir \in Dirs /\ born[e.dir] > 0 /\ born[e.dir] <= e.at
      BY <2>2 DEF EditsOfRows, Edit
    <3>2. QED
      BY <2>1, <3>1
  <2>3. CASE e = [dir |-> d, at |-> now + 1, text |-> text]
    BY <2>1, <2>3
  <2>4. QED
    BY <2>1, <2>2, <2>3
<1>2. ASSUME NEW d \in Dirs, NEW text \in Text, UpdateRow(d, text)
      PROVE  (Exists(e.dir) /\ born[e.dir] <= e.at)'
  BY <1>2 DEF UpdateRow, EditsOfRows
<1>3. CASE UNCHANGED <<born, edits>>
  BY <1>3 DEF EditsOfRows
<1>4. QED
  BY <1>1, <1>2, <1>3 DEF TableNext, SoftDelete, CatchUp, tableVars

LEMMA CommittedStays ==
    ASSUME TableTypeOK, EditsOfRows, [TableNext]_tableVars,
           NEW e \in Event, Committed(e)
    PROVE  Committed(e)'
<1>1. edits \subseteq edits'
  BY DEF TableNext, Insert, UpdateRow, SoftDelete, CatchUp, tableVars
<1>2. e.dir \in Dirs /\ Exists(e.dir)
  BY DEF Event, Committed, EditsOfRows
<1>3. /\ born'[e.dir] = born[e.dir]
      /\ died[e.dir] # 0 => died'[e.dir] = died[e.dir]
  BY <1>2, HistoryStep
<1>4. QED
  BY <1>1, <1>3 DEF Committed

(* What each statement makes true.                                         *)
LEMMA InsertionCommitted ==
    ASSUME TypeOK, NEW d \in Dirs, NEW p \in Dirs \cup {NoDir}, NEW text \in Text,
           Insert(d, p, text), NEW u, u = MkEvent("create", d, now + 1, 0, text)
    PROVE  Committed(u)'
<1>1. /\ born'[d] = now + 1
      /\ [dir |-> d, at |-> now + 1, text |-> text] \in edits'
  BY DEF Insert, TypeOK, TableTypeOK
<1>2. QED
  BY <1>1 DEF Committed, MkEvent

LEMMA UpdateCommitted ==
    ASSUME TypeOK, NEW d \in Dirs, NEW text \in Text, UpdateRow(d, text),
           NEW u, u = MkEvent("update", d, now + 1, 0, text)
    PROVE  Committed(u)'
<1>1. /\ born'[d] = born[d] /\ born[d] < now + 1
      /\ [dir |-> d, at |-> now + 1, text |-> text] \in edits'
  BY DEF UpdateRow, TypeOK, TableTypeOK
<1>2. QED
  BY <1>1 DEF Committed, MkEvent

LEMMA DeletionCommitted ==
    ASSUME TypeOK, NEW d \in Dirs, SoftDelete(d), NEW u \in Deletions(d)
    PROVE  Committed(u)'
<1>1. PICK f \in edits : f.dir \in Doomed(d) /\ u = MkEvent("delete", f.dir, f.at, now + 1, f.text)
  BY DEF Deletions
<1>2. f.dir \in Dirs /\ f = [dir |-> f.dir, at |-> f.at, text |-> f.text]
  BY DEF TypeOK, TableTypeOK, Edit
<1>3. died'[f.dir] = now + 1 /\ now + 1 # 0 /\ edits' = edits
  BY <1>1, <1>2 DEF SoftDelete, TypeOK, TableTypeOK
<1>4. QED
  BY <1>1, <1>2, <1>3 DEF Committed, MkEvent

LEMMA TruthInit == Init => TruthInv
BY SeedAssumption DEF Init, TableInit, TruthInv, EditsOfRows, Exists, StreamTellsTheTruth

(* If every request owes what it did or newly committed events, and the    *)
(* stream grew at most by an event some request owed, the truth stands.    *)
LEMMA TruthStands ==
    ASSUME TypeOK, TypeOK', TruthInv, [TableNext]_tableVars,
           \A q \in Requests : \A u \in owed'[q] : u \in owed[q] \/ Committed(u)',
           \A q \in Requests : todo'[q] \subseteq owed'[q],
           \/ stream' = stream
           \/ \E q \in Requests : \E u \in owed[q] : stream' = Append(stream, u)
    PROVE  TruthInv'
<1>1. EditsOfRows'
  BY EditsStep DEF TypeOK, TruthInv
<1>2. \A u \in Event : Committed(u) => Committed(u)'
  BY CommittedStays DEF TypeOK, TruthInv
<1>3. \A q \in Requests : \A u \in owed[q] : u \in Event /\ Committed(u)
  BY DEF TypeOK, TruthInv
<1>4. ASSUME NEW q \in Requests, NEW u \in owed'[q]
      PROVE  Committed(u)'
  BY <1>2, <1>3
<1>5. StreamTellsTheTruth'
  <2>1. /\ stream \in Seq(Event)
        /\ \A u \in Event : (\E i \in 1 .. Len(stream) : u = stream[i]) => Committed(u)'
    BY <1>2 DEF TypeOK, TruthInv, StreamTellsTheTruth
  <2>2. CASE stream' = stream
    BY <2>1, <2>2 DEF StreamTellsTheTruth
  <2>3. ASSUME NEW q \in Requests, NEW u \in owed[q], stream' = Append(stream, u)
        PROVE  StreamTellsTheTruth'
    <3>1. u \in Event /\ Committed(u)'
      BY <1>2, <1>3
    <3>2. SUFFICES ASSUME NEW i \in 1 .. Len(stream')
                   PROVE  Committed(stream[i])'
      BY DEF StreamTellsTheTruth
    <3>3. PICK v \in Event : /\ v = stream'[i]
                             /\ v = u \/ \E j \in 1 .. Len(stream) : v = stream[j]
      BY <2>1, <2>3, <3>1
    <3>4. Committed(v)'
      BY <2>1, <3>1, <3>3
    <3>5. QED
      BY <3>3, <3>4 DEF Committed
  <2>4. QED
    BY <2>2, <2>3
<1>6. QED
  BY <1>1, <1>4, <1>5 DEF TruthInv

(* A request that has just committed owes, and will publish, only "due".   *)
LEMMA TruthAfterNotify ==
    ASSUME TypeOK, TypeOK', TruthInv, [TableNext]_tableVars, stream' = stream,
           NEW r \in Requests, NEW due, NEW rows \in SUBSET due,
           Notify(r, due, rows), \A u \in due : Committed(u)'
    PROVE  TruthInv'
<1>1. \A q \in Requests : /\ owed'[q] = IF q = r THEN due ELSE owed[q]
                          /\ todo'[q] = IF q = r THEN rows ELSE todo[q]
  BY DEF Notify, TypeOK
<1>2. \A q \in Requests : todo[q] \subseteq owed[q]
  BY DEF TruthInv
<1>3. QED
  BY <1>1, <1>2, TruthStands

LEMMA TruthStep == TypeOK /\ TypeOK' /\ TruthInv /\ [Next]_vars => TruthInv'
<1> SUFFICES ASSUME TypeOK, TypeOK', TruthInv, [Next]_vars
             PROVE  TruthInv'
  OBVIOUS
<1>0. [TableNext]_tableVars
  BY StepsOfTheTable
<1>t. \A q \in Requests : todo[q] \subseteq owed[q]
  BY DEF TruthInv
<1>1. ASSUME NEW r \in Requests, InsertDirectory(r)
      PROVE  TruthInv'
  <2> DEFINE text == [name |-> req[r].name, metadata |-> req[r].metadata]
  <2>1. req[r].dir \in Dirs \cup {NoDir} /\ text \in Text
    BY <1>1 DEF InsertDirectory, TypeOK, Request, Text
  <2>2. PICK d \in Dirs :
          /\ Insert(d, req[r].dir, text)
          /\ AfterCommit(r, {MkEvent("create", d, now + 1, 0, text)})
    BY <1>1 DEF InsertDirectory
  <2>3. PICK due : /\ due = {MkEvent("create", d, now + 1, 0, text)}
                   /\ \E rows \in SUBSET due : Notify(r, due, rows)
    BY <2>2 DEF AfterCommit
  <2>4. \A u \in due : Committed(u)'
    BY <2>1, <2>2, <2>3, InsertionCommitted
  <2>5. QED
    BY <1>0, <1>1, <2>3, <2>4, TruthAfterNotify DEF InsertDirectory
<1>2. ASSUME NEW r \in Requests, WriteDirectory(r)
      PROVE  TruthInv'
  <2>1. req[r].dir \in Dirs /\ draft[r] \in Text
    BY <1>2 DEF WriteDirectory, Asks, TypeOK, Request
  <2>2. PICK due : /\ due = {MkEvent("update", req[r].dir, now + 1, 0, draft[r])}
                   /\ \E rows \in SUBSET due : Notify(r, due, rows)
    BY <1>2 DEF WriteDirectory, AfterCommit
  <2>3. \A u \in due : Committed(u)'
    BY <1>2, <2>1, <2>2, UpdateCommitted DEF WriteDirectory
  <2>4. QED
    BY <1>0, <1>2, <2>2, <2>3, TruthAfterNotify DEF WriteDirectory
<1>3. ASSUME NEW r \in Requests, DeleteDirectory(r)
      PROVE  TruthInv'
  <2>1. req[r].dir \in Dirs
    BY <1>3 DEF DeleteDirectory, Asks, TypeOK, Request
  <2>2. PICK due : /\ due = Deletions(req[r].dir)
                   /\ \E rows \in SUBSET due : Notify(r, due, rows)
    BY <1>3 DEF DeleteDirectory, AfterCommit
  <2>3. \A u \in due : Committed(u)'
    BY <1>3, <2>1, <2>2, DeletionCommitted DEF DeleteDirectory
  <2>4. QED
    BY <1>0, <1>3, <2>2, <2>3, TruthAfterNotify DEF DeleteDirectory
<1>4. ASSUME NEW r \in Requests, Publish(r) \/ PublishFails(r)
      PROVE  TruthInv'
  <2>1. \E u \in owed[r] : stream' = stream \/ stream' = Append(stream, u)
    BY <1>4, <1>t DEF Publish, PublishFails
  <2>2. owed' = owed /\ \A q \in Requests : todo'[q] \subseteq todo[q]
    <3>1. CASE Publish(r)
      <4>1. PICK e : todo' = [todo EXCEPT ![r] = @ \ {e}]
        BY <3>1 DEF Publish
      <4>2. QED
        BY <3>1, <4>1 DEF Publish, TypeOK
    <3>2. CASE PublishFails(r)
      BY <3>2 DEF PublishFails
    <3>3. QED
      BY <1>4, <3>1, <3>2
  <2>3. QED
    BY <1>0, <1>t, <2>1, <2>2, TruthStands
<1>5. CASE UNCHANGED <<owed, todo, stream>>
  BY <1>0, <1>t, <1>5, TruthStands
<1>6. QED
  BY <1>1, <1>2, <1>3, <1>4, <1>5
     DEF Next, Handle, Receive, ReadParent, ReadDirectory, RefuseWrite, StatementFails,
         GiveUp, Crash, FollowerCatchesUp, handlerVars, vars

(* Whatever is retried, lost or cut off by a crash, the stream never says  *)
(* more than the table holds.                                              *)
THEOREM StreamIsTrue == Spec => []StreamTellsTheTruth
<1>1. TruthInv => StreamTellsTheTruth
  BY DEF TruthInv
<1>2. QED
  BY <1>1, TypeCorrect, TruthInit, TruthStep, PTL DEF Spec

----------------------------------------------------------------------------
(* The tree manager implements AnnouncedTree.                              *)

Told(s) == { [type |-> e.type, dir |-> e.dir] : e \in Range(s) }

(* A stream that grows by one event tells its fact.                        *)
LEMMA ToldByOneMore ==
    ASSUME NEW s \in Seq(Event), NEW e \in Event
    PROVE  Told(Append(s, e)) = Told(s) \cup {[type |-> e.type, dir |-> e.dir]}
<1>1. /\ Len(s) \in Nat /\ DOMAIN s = 1 .. Len(s)
      /\ DOMAIN Append(s, e) = 1 .. Len(s) + 1
      /\ \A i \in 1 .. Len(s) : Append(s, e)[i] = s[i]
      /\ Append(s, e)[Len(s) + 1] = e
  OBVIOUS
<1>2. Range(Append(s, e)) \subseteq Range(s) \cup {e}
  BY <1>1 DEF Range
<1>3. Range(s) \cup {e} \subseteq Range(Append(s, e))
  BY <1>1 DEF Range
<1>4. Range(Append(s, e)) = Range(s) \cup {e}
  BY <1>2, <1>3
<1>5. QED
  BY <1>4 DEF Told

(* A statement plants one directory, fells one subtree, or does nothing to *)
(* the forest.                                                             *)
LEMMA StatementsOfTheTree ==
    ASSUME TypeOK, NEW d \in Dirs
    PROVE  /\ \A p \in Dirs \cup {NoDir}, text \in Text :
                Insert(d, p, text) => Tree!Plant(d, p)
           /\ \A text \in Text :
                UpdateRow(d, text) => UNCHANGED Tree!forestVars
           /\ SoftDelete(d) => Tree!Fell(d) \/ UNCHANGED Tree!forestVars
<1> USE DEF TypeOK, TableTypeOK
<1>1. ASSUME NEW p \in Dirs \cup {NoDir}, NEW text \in Text,
             Insert(d, p, text)
      PROVE  Tree!Plant(d, p)
  <2>1. /\ born' = [born EXCEPT ![d] = now + 1] /\ died' = died
        /\ parent' = [parent EXCEPT ![d] = p] /\ ~Exists(d) /\ (p # NoDir => Exists(p))
    BY <1>1 DEF Insert
  <2>2. { x \in Dirs : Exists(x) }' = { x \in Dirs : Exists(x) } \cup {d}
    BY <2>1 DEF Exists
  <2>3. p \in { x \in Dirs : Exists(x) } \cup {NoDir}
    BY <2>1
  <2>4. QED
    BY <1>1, <2>1, <2>2, <2>3 DEF Tree!Plant
<1>2. ASSUME NEW text \in Text, UpdateRow(d, text)
      PROVE  UNCHANGED Tree!forestVars
  BY <1>2 DEF UpdateRow, Tree!forestVars, Exists
<1>3. ASSUME SoftDelete(d)
      PROVE  Tree!Fell(d) \/ UNCHANGED Tree!forestVars
  <2>1. /\ died' = [x \in Dirs |-> IF x \in Doomed(d) THEN now + 1 ELSE died[x]]
        /\ parent' = parent /\ born' = born
    BY <1>3 DEF SoftDelete
  <2>2. \A x \in Doomed(d) : x \in Dirs
    BY DoomedRows
  <2>3. { x \in Dirs : died[x] # 0 }' = { x \in Dirs : died[x] # 0 } \cup Doomed(d)
    BY <2>1, <2>2
  <2>4. { x \in Dirs : Exists(x) }' = { x \in Dirs : Exists(x) }
    BY <2>1 DEF Exists
  <2>5. CASE Live(d) /\ ~Root(d)
    <3>1. LiveDirs = { x \in Dirs : Exists(x) } \ { x \in Dirs : died[x] # 0 }
      BY DEF LiveDirs, Live
    <3>2. d \in { x \in Dirs : Exists(x) } \ { x \in Dirs : died[x] # 0 }
      BY <2>5 DEF Live
    <3>3. Doomed(d) = Below(parent, d, { x \in Dirs : Exists(x) } \ { x \in Dirs : died[x] # 0 })
      BY <2>5, <3>1 DEF Doomed
    <3>4. Tree!Below(parent, d, { x \in Dirs : Exists(x) } \ { x \in Dirs : died[x] # 0 })
            = Doomed(d)
      BY <3>3 DEF Tree!Below, Below, Tree!ClosedBelow, ClosedBelow
    <3>5. QED
      BY <1>3, <2>1, <2>3, <2>4, <2>5, <3>2, <3>4 DEF Tree!Fell, Tree!Standing, Root
  <2>6. CASE ~(Live(d) /\ ~Root(d))
    <3>1. Doomed(d) = {}
      BY <2>6 DEF Doomed
    <3>2. QED
      BY <1>3, <2>1, <2>3, <2>4, <3>1 DEF Tree!forestVars
  <2>7. QED
    BY <2>5, <2>6
<1>4. QED
  BY <1>1, <1>2, <1>3

LEMMA TreeInitRefined == Init => Tree!TreeInit
<1> SUFFICES ASSUME Init
             PROVE  Tree!TreeInit
  OBVIOUS
<1>1. Range(stream) = {}
  BY DEF Init, Range
<1>2. QED
  BY <1>1, SeedAssumption DEF Init, TableInit, Tree!TreeInit, Tree!ForestInit, Exists

LEMMA TreeStepRefined ==
    TypeOK /\ TypeOK' /\ TruthInv /\ [Next]_vars => [Tree!TreeNext]_(Tree!treeVars)
<1> SUFFICES ASSUME TypeOK, TypeOK', TruthInv, [Next]_vars
             PROVE  Tree!TreeNext \/ UNCHANGED Tree!treeVars
  OBVIOUS
<1>1. ASSUME stream' = stream, TableNext
      PROVE  Tree!TreeNext \/ UNCHANGED Tree!treeVars
  <2>1. CASE CatchUp
    BY <1>1, <2>1 DEF CatchUp, Tree!treeVars, Exists
  <2>2. Tree!ForestNext \/ UNCHANGED Tree!forestVars
    BY <1>1, <2>1, StatementsOfTheTree DEF TableNext, Tree!ForestNext, CatchUp, Tree!forestVars, Exists
  <2>3. QED
    BY <1>1, <2>2 DEF Tree!TreeNext, Tree!treeVars, Tree!forestVars
<1>2. ASSUME UNCHANGED tableVars, stream' = stream
      PROVE  UNCHANGED Tree!treeVars
  BY <1>2 DEF tableVars, Tree!treeVars, Exists
<1>3. ASSUME NEW r \in Requests, NEW e \in todo[r], UNCHANGED tableVars,
             stream' = Append(stream, e)
      PROVE  Tree!TreeNext \/ UNCHANGED Tree!treeVars
  <2>1. e \in Event /\ stream \in Seq(Event) /\ Committed(e) /\ EditsOfRows
    BY DEF TypeOK, TruthInv
  <2> DEFINE fact == [type |-> e.type, dir |-> e.dir]
  <2>2. Told(stream)' = Told(stream) \cup {fact}
    BY <1>3, <2>1, ToldByOneMore
  <2>3. /\ parent' = parent
        /\ { d \in Dirs : Exists(d) }' = { d \in Dirs : Exists(d) }
        /\ { d \in Dirs : died[d] # 0 }' = { d \in Dirs : died[d] # 0 }
    BY <1>3 DEF tableVars, Exists
  <2>4. fact \in Tree!Fact
    BY <2>1 DEF Event, Tree!Fact
  <2>5. e.dir \in Dirs /\ Exists(e.dir) /\ (e.type = "delete" => died[e.dir] # 0)
    BY <2>1 DEF Committed, EditsOfRows, Event
  <2>6. Tree!True(fact)
    BY <2>5 DEF Tree!True
  <2>7. Tree!Tell(fact)
    BY <2>2, <2>3, <2>6 DEF Tree!Tell, Tree!forestVars, Told
  <2>8. QED
    BY <2>4, <2>7 DEF Tree!TreeNext
<1>4. ASSUME NEW r \in Requests, Publish(r) \/ PublishFails(r)
      PROVE  Tree!TreeNext \/ UNCHANGED Tree!treeVars
  <2>1. /\ UNCHANGED tableVars
        /\ \E e \in todo[r] : stream' = stream \/ stream' = Append(stream, e)
    BY <1>4 DEF Publish, PublishFails
  <2>2. QED
    BY <2>1, <1>2, <1>3
<1>5. ( \A r \in Requests : ~(Publish(r) \/ PublishFails(r)) ) => stream' = stream
  BY DEF Next, Handle, Receive, ReadParent, ReadDirectory, RefuseWrite, InsertDirectory,
         WriteDirectory, DeleteDirectory, StatementFails, GiveUp, Crash,
         FollowerCatchesUp, vars
<1>6. QED
  BY <1>1, <1>2, <1>4, <1>5, StepsOfTheTable

(* Clients and watchers see no more than AnnouncedTree allows: directories *)
(* appear one by one, live subtrees disappear whole, nothing comes back,   *)
(* and what is announced has happened.                                     *)
THEOREM RefinesTheTree == Spec => ImplementsTree
BY TypeCorrect, TruthInit, TruthStep, TreeInitRefined, TreeStepRefined, PTL
   DEF Spec, ImplementsTree, Tree!TreeSpec

(* What the stream tells can be heard by the watchers: each of its facts is *)
(* true of the tree, as the subscriptions of Watcher and of SharedStore     *)
(* assume of what they hear.                                                *)
THEOREM StreamFeedsTheWatchers ==
    Spec => [](\A fact \in Told(stream) : fact \in Tree!Fact /\ Tree!True(fact))
<1> DEFINE Feeds == \A fact \in Told(stream) : fact \in Tree!Fact /\ Tree!True(fact)
<1>1. TypeOK /\ TruthInv => Feeds
  <2> SUFFICES ASSUME TypeOK, TruthInv, NEW fact \in Told(stream)
               PROVE  fact \in Tree!Fact /\ Tree!True(fact)
    OBVIOUS
  <2>1. PICK i \in 1 .. Len(stream) :
            fact = [type |-> stream[i].type, dir |-> stream[i].dir]
    BY DEF Told, Range, TypeOK
  <2>2. stream[i] \in Event /\ Committed(stream[i]) /\ EditsOfRows
    BY <2>1 DEF TypeOK, TruthInv, StreamTellsTheTruth
  <2>3. fact \in Tree!Fact
    BY <2>1, <2>2 DEF Event, Tree!Fact
  <2>4. Exists(fact.dir) /\ (fact.type = "delete" => died[fact.dir] # 0)
    BY <2>1, <2>2 DEF Committed, EditsOfRows
  <2>5. Tree!True(fact)
    BY <2>3, <2>4 DEF Tree!True, Tree!Fact
  <2>6. QED
    BY <2>3, <2>5
<1>2. QED
  BY <1>1, TypeCorrect, TruthInit, TruthStep, PTL DEF Spec

----------------------------------------------------------------------------
(* Success is announced and refusals change nothing, as long as a delete's *)
(* rows arrive whole.  The strengthening: before its commit a request owes *)
(* nothing, and while it notifies, what it owes is in the stream or still  *)
(* to be published.                                                        *)
InOrder(r) ==
    /\ pc[r] \in {"idle", "read", "write"} => owed[r] = {} /\ reply[r] = 0
    /\ pc[r] = "notify" => /\ reply[r] = 0 /\ owed[r] # {}
                           /\ owed[r] \subseteq todo[r] \cup Range(stream)
    /\ reply[r] \in {200, 201} => owed[r] # {} /\ owed[r] \subseteq Range(stream)
    /\ reply[r] \in {400, 404} => owed[r] = {}

AnswersInv == \A r \in Requests : InOrder(r)

LEMMA AnswersInit == Init => AnswersInv
BY DEF Init, AnswersInv, InOrder

(* A longer stream holds all the shorter one did.                          *)
LEMMA StreamGrows ==
    ASSUME NEW s \in Seq(Event), NEW e \in Event
    PROVE  Range(s) \subseteq Range(Append(s, e)) /\ e \in Range(Append(s, e))
<1>1. /\ Len(s) \in Nat /\ DOMAIN s = 1 .. Len(s)
      /\ DOMAIN Append(s, e) = 1 .. Len(s) + 1
      /\ \A i \in 1 .. Len(s) : Append(s, e)[i] = s[i]
      /\ Append(s, e)[Len(s) + 1] = e
  OBVIOUS
<1>2. QED
  BY <1>1 DEF Range

(* A request that r's step leaves alone stays in order.                    *)
LEMMA OthersStayInOrder ==
    ASSUME AnswersInv, NEW q \in Requests,
           pc'[q] = pc[q], reply'[q] = reply[q], owed'[q] = owed[q], todo'[q] = todo[q],
           Range(stream) \subseteq Range(stream')
    PROVE  InOrder(q)'
<1>1. InOrder(q)
  BY DEF AnswersInv
<1>2. QED
  BY <1>1 DEF InOrder

(* A step that publishes nothing and commits nothing, and answers only     *)
(* with a refusal before the commit or with a failure.                     *)
LEMMA QuietSteps ==
    ASSUME TypeOK, AnswersInv, NEW r \in Requests,
           UNCHANGED <<owed, todo, stream>>,
           \/ pc[r] \in {"idle", "read"} /\ (Goto(r, "read") \/ Goto(r, "write"))
           \/ pc[r] \in {"read", "write"} /\ (Answer(r, 400) \/ Answer(r, 404))
           \/ pc[r] # "idle" /\ Answer(r, 500)
    PROVE  AnswersInv'
<1>1. ASSUME NEW q \in Requests, q # r
      PROVE  InOrder(q)'
  <2>1. pc'[q] = pc[q] /\ reply'[q] = reply[q]
    BY <1>1 DEF Goto, Answer, TypeOK
  <2>2. QED
    BY <2>1, OthersStayInOrder
<1>2. InOrder(r)'
  <2>1. InOrder(r)
    BY DEF AnswersInv
  <2>2. CASE pc[r] \in {"idle", "read"} /\ (Goto(r, "read") \/ Goto(r, "write"))
    <3>1. pc'[r] \in {"read", "write"} /\ reply' = reply
      BY <2>2 DEF Goto, TypeOK
    <3>2. QED
      BY <2>1, <2>2, <3>1 DEF InOrder
  <2>3. CASE pc[r] \in {"read", "write"} /\ (Answer(r, 400) \/ Answer(r, 404))
    <3>1. pc'[r] = "done" /\ reply'[r] \in {400, 404}
      BY <2>3 DEF Answer, TypeOK
    <3>2. QED
      BY <2>1, <2>3, <3>1 DEF InOrder
  <2>4. CASE Answer(r, 500)
    <3>1. pc'[r] = "done" /\ reply'[r] = 500
      BY <2>4 DEF Answer, TypeOK
    <3>2. QED
      BY <3>1 DEF InOrder
  <2>5. QED
    BY <2>2, <2>3, <2>4
<1>3. QED
  BY <1>1, <1>2 DEF AnswersInv

(* A commit: the request owes all it has to publish, or is answered 500.   *)
LEMMA CommitSteps ==
    ASSUME TypeOK, AnswersInv, stream' = stream,
           NEW r \in Requests, pc[r] = "write",
           NEW due, due # {}, AfterCommit(r, due)
    PROVE  AnswersInv'
<1>1. ASSUME NEW q \in Requests, q # r
      PROVE  InOrder(q)'
  <2>1. pc'[q] = pc[q] /\ reply'[q] = reply[q] /\ owed'[q] = owed[q] /\ todo'[q] = todo[q]
    BY <1>1 DEF AfterCommit, Notify, Goto, Answer, TypeOK
  <2>2. QED
    BY <2>1, OthersStayInOrder
<1>2. InOrder(r)'
  <2>1. InOrder(r)
    BY DEF AnswersInv
  <2>2. CASE Notify(r, due, due) /\ Goto(r, "notify")
    <3>1. pc'[r] = "notify" /\ reply' = reply /\ owed'[r] = due /\ todo'[r] = due
      BY <2>2 DEF Notify, Goto, TypeOK
    <3>2. QED
      BY <2>1, <3>1 DEF InOrder
  <2>3. CASE Notify(r, due, {}) /\ Answer(r, 500)
    <3>1. pc'[r] = "done" /\ reply'[r] = 500
      BY <2>3 DEF Answer, TypeOK
    <3>2. QED
      BY <3>1 DEF InOrder
  <2>4. QED
    BY <2>2, <2>3 DEF AfterCommit
<1>3. QED
  BY <1>1, <1>2 DEF AnswersInv

LEMMA AnswersStep ==
    ASSUME RowsCut = FALSE
    PROVE  TypeOK /\ AnswersInv /\ [Next]_vars => AnswersInv'
<1> SUFFICES ASSUME TypeOK, AnswersInv, [Next]_vars
             PROVE  AnswersInv'
  OBVIOUS
<1>1. ASSUME NEW r \in Requests, Receive(r)
      PROVE  AnswersInv'
  <2>1. pc[r] = "idle" /\ (Goto(r, "read") \/ Goto(r, "write"))
    BY <1>1 DEF Receive
  <2>2. QED
    BY <1>1, <2>1, QuietSteps DEF Receive
<1>2. ASSUME NEW r \in Requests,
             ReadParent(r) \/ ReadDirectory(r) \/ RefuseWrite(r) \/ StatementFails(r) \/ GiveUp(r)
      PROVE  AnswersInv'
  <2>1. \/ pc[r] = "read" /\ (Goto(r, "write") \/ Answer(r, 400) \/ Answer(r, 404))
        \/ pc[r] # "idle" /\ Answer(r, 500)
    BY <1>2 DEF ReadParent, ReadDirectory, RefuseWrite, StatementFails, GiveUp, Asks
  <2>2. UNCHANGED <<owed, todo, stream>>
    BY <1>2 DEF ReadParent, ReadDirectory, RefuseWrite, StatementFails, GiveUp
  <2>3. QED
    BY <2>1, <2>2, QuietSteps
<1>3. ASSUME NEW r \in Requests, InsertDirectory(r) \/ WriteDirectory(r)
      PROVE  AnswersInv'
  <2>1. pc[r] = "write" /\ stream' = stream /\ \E u : AfterCommit(r, {u})
    BY <1>3 DEF InsertDirectory, WriteDirectory, Asks
  <2>2. QED
    BY <2>1, CommitSteps
<1>4. ASSUME NEW r \in Requests, DeleteDirectory(r)
      PROVE  AnswersInv'
  <2>1. pc[r] = "write" /\ stream' = stream
    BY <1>4 DEF DeleteDirectory, Asks
  <2>2. CASE \E due : due # {} /\ AfterCommit(r, due)
    BY <2>1, <2>2, CommitSteps
  <2>3. CASE Notify(r, {}, {}) /\ Answer(r, 404)
    <3>1. /\ owed[r] = {}
          /\ \A q \in Requests : owed'[q] = (IF q = r THEN {} ELSE owed[q])
          /\ \A q \in Requests : todo'[q] = (IF q = r THEN {} ELSE todo[q])
      BY <2>1, <2>3 DEF Notify, TypeOK, AnswersInv, InOrder
    <3>2. /\ pc'[r] = "done" /\ reply'[r] = 404
          /\ \A q \in Requests : q # r => pc'[q] = pc[q] /\ reply'[q] = reply[q]
      BY <2>3 DEF Answer, TypeOK
    <3>3. InOrder(r)'
      BY <3>1, <3>2 DEF InOrder
    <3>4. \A q \in Requests : q # r => InOrder(q)'
      BY <2>1, <3>1, <3>2, OthersStayInOrder
    <3>5. QED
      BY <3>3, <3>4 DEF AnswersInv
  <2>4. QED
    BY <1>4, <2>2, <2>3 DEF DeleteDirectory
<1>5. ASSUME NEW r \in Requests, Publish(r)
      PROVE  AnswersInv'
  <2>1. PICK e \in todo[r] :
          /\ stream' = Append(stream, e)
          /\ todo' = [todo EXCEPT ![r] = @ \ {e}]
          /\ IF todo[r] = {e} THEN Answer(r, Success(r)) ELSE UNCHANGED <<pc, reply>>
    BY <1>5 DEF Publish
  <2>2. Range(stream) \subseteq Range(stream') /\ e \in Range(stream')
    BY <2>1, StreamGrows DEF TypeOK
  <2>3. pc[r] = "notify" /\ owed' = owed /\ InOrder(r)
    BY <1>5 DEF Publish, AnswersInv
  <2>4. \A q \in Requests : todo'[q] = IF q = r THEN todo[r] \ {e} ELSE todo[q]
    BY <2>1 DEF TypeOK
  <2>5. InOrder(r)'
    <3>1. owed[r] # {} /\ owed[r] \subseteq todo'[r] \cup Range(stream') /\ reply[r] = 0
      BY <2>2, <2>3, <2>4 DEF InOrder
    <3>2. CASE todo[r] = {e}
      <4>1. pc'[r] = "done" /\ reply'[r] \in {200, 201}
        BY <2>1, <3>2 DEF Answer, Success, TypeOK
      <4>2. todo'[r] = {}
        BY <2>4, <3>2
      <4>3. QED
        BY <2>3, <3>1, <4>1, <4>2 DEF InOrder
    <3>3. CASE todo[r] # {e}
      BY <2>1, <2>3, <3>1, <3>3 DEF InOrder
    <3>4. QED
      BY <3>2, <3>3
  <2>6. ASSUME NEW q \in Requests, q # r
        PROVE  InOrder(q)'
    <3>1. pc'[q] = pc[q] /\ reply'[q] = reply[q]
      BY <2>1, <2>6 DEF Answer, TypeOK
    <3>2. QED
      BY <2>2, <2>3, <2>4, <2>6, <3>1, OthersStayInOrder
  <2>7. QED
    BY <2>5, <2>6 DEF AnswersInv
<1>6. ASSUME NEW r \in Requests, PublishFails(r)
      PROVE  AnswersInv'
  <2>1. PICK e \in todo[r] : stream' \in {stream, Append(stream, e)}
    BY <1>6 DEF PublishFails
  <2>2. Range(stream) \subseteq Range(stream')
    BY <2>1, StreamGrows DEF TypeOK
  <2>3. QED
    BY <1>6, <2>2, OthersStayInOrder DEF PublishFails, AnswersInv
<1>7. ASSUME NEW s \in Servers, Crash(s)
      PROVE  AnswersInv'
  <2>1. /\ UNCHANGED <<reply, owed, todo, stream>>
        /\ \A q \in Requests : pc'[q] = pc[q] \/ pc'[q] = "lost"
    BY <1>7 DEF Crash
  <2>2. QED
    BY <2>1 DEF AnswersInv, InOrder
<1>8. CASE UNCHANGED <<pc, reply, owed, todo, stream>>
  BY <1>8 DEF AnswersInv, InOrder
<1>9. QED
  BY <1>1, <1>2, <1>3, <1>4, <1>5, <1>6, <1>7, <1>8
     DEF Next, Handle, FollowerCatchesUp, handlerVars, vars

(* A success tells the client that the watchers can know: whatever failed  *)
(* on the way, every event of its commit is in the stream, as long as the  *)
(* rows of a delete arrive whole.                                          *)
THEOREM AnswersAreHonest ==
    ASSUME RowsCut = FALSE
    PROVE  Spec => []SuccessIsAnnounced
<1>1. AnswersInv => SuccessIsAnnounced
  BY DEF AnswersInv, InOrder, SuccessIsAnnounced
<1>2. TypeOK /\ AnswersInv /\ [Next]_vars => AnswersInv'
  BY AnswersStep
<1>3. QED
  BY <1>1, <1>2, TypeCorrect, AnswersInit, PTL DEF Spec

(* A refusal tells the client that its request has changed nothing, as     *)
(* long as the rows of a delete arrive whole.                              *)
THEOREM RefusalsAreHonest ==
    ASSUME RowsCut = FALSE
    PROVE  Spec => []RefusalsChangeNothing
<1>1. AnswersInv => RefusalsChangeNothing
  BY DEF AnswersInv, InOrder, RefusalsChangeNothing
<1>2. TypeOK /\ AnswersInv /\ [Next]_vars => AnswersInv'
  BY AnswersStep
<1>3. QED
  BY <1>1, <1>2, TypeCorrect, AnswersInit, PTL DEF Spec

----------------------------------------------------------------------------
(* Every change of the table has exactly one owner among the requests.     *)


(* The requests that owe an event for the version e of a row, and those    *)
(* that owe one for the deletion of d.                                     *)
Authors(e) ==
    { r \in Requests : \E u \in owed[r] : u.type # "delete" /\ u.dir = e.dir /\ u.at = e.at }

Deleters(d) ==
    { r \in Requests : \E u \in owed[r] : u.type = "delete" /\ u.dir = d }

(* The strengthening: no version is younger than the table, so that a new  *)
(* one has no author yet; each row has a latest version, so that each row  *)
(* a delete touches is returned; and a request owes nothing before its     *)
(* commit, so that the commit makes it forget nothing.                     *)
Ages == Seed.time <= now /\ \A e \in edits : e.at <= now

LatestVersions ==
    \A d \in Dirs : Exists(d) =>
        \E e \in edits : e.dir = d /\ \A f \in edits : f.dir = d => f.at <= e.at

NothingOwedBefore ==
    \A r \in Requests : pc[r] \in {"idle", "read", "write"} => owed[r] = {}

OneAuthor ==
    \A e \in edits :
        IF e.at > Seed.time THEN \E r \in Requests : Authors(e) = {r} ELSE Authors(e) = {}

OneDeleter ==
    \A d \in Dirs :
        IF died[d] # 0 THEN \E r \in Requests : Deleters(d) = {r} ELSE Deleters(d) = {}

OwnerInv == Ages /\ LatestVersions /\ NothingOwedBefore /\ OneAuthor /\ OneDeleter

LEMMA OwnerInit == Init => OwnerInv
<1> SUFFICES ASSUME Init
             PROVE  OwnerInv
  OBVIOUS
<1> USE SeedAssumption DEF Init, TableInit
<1>1. Ages
  BY DEF Ages
<1>2. LatestVersions
  <2>1. SUFFICES ASSUME NEW d \in Dirs, Exists(d)
                 PROVE  \E e \in edits : /\ e.dir = d
                                         /\ \A f \in edits : f.dir = d => f.at <= e.at
    BY DEF LatestVersions
  <2>2. PICK e : e = [dir |-> d, at |-> Seed.born[d], text |-> Seed.text]
    OBVIOUS
  <2>3. e \in edits /\ e.dir = d /\ e.at \in Int
    BY <2>1, <2>2 DEF Exists
  <2>4. \A f \in edits : f.dir = d => f.at = e.at
    BY <2>2
  <2>5. QED
    BY <2>3, <2>4
<1>3. NothingOwedBefore
  BY DEF NothingOwedBefore
<1>4. OneAuthor
  <2>1. \A e \in edits : Authors(e) = {} /\ ~(e.at > Seed.time)
    BY DEF Authors
  <2>2. QED
    BY <2>1 DEF OneAuthor
<1>5. OneDeleter
  BY DEF OneDeleter, Deleters
<1>6. QED
  BY <1>1, <1>2, <1>3, <1>4, <1>5 DEF OwnerInv

(* What is owed is a version that is in the table, or a deletion that is.  *)
LEMMA OwedIsOld ==
    ASSUME TypeOK, TruthInv, OwnerInv, NEW q \in Requests, NEW u \in owed[q]
    PROVE  u \in Event /\ u.at <= now /\ (u.type = "delete" => died[u.dir] # 0)
<1>1. u \in Event /\ Committed(u)
  BY DEF TypeOK, TruthInv
<1>2. [dir |-> u.dir, at |-> u.at, text |-> u.text] \in edits
  BY <1>1 DEF Committed
<1>3. u.at <= now
  BY <1>2 DEF OwnerInv, Ages
<1>4. QED
  BY <1>1, <1>3 DEF Committed

(* A request that has not committed yet has written and deleted nothing.   *)
LEMMA NotYetAnOwner ==
    ASSUME TypeOK, OwnerInv, NEW r \in Requests, pc[r] = "write"
    PROVE  /\ owed[r] = {}
           /\ \A e : r \notin Authors(e)
           /\ \A d : r \notin Deleters(d)
BY DEF OwnerInv, NothingOwedBefore, Authors, Deleters

(* Moves of a handler that leave the table and what is owed alone.         *)
LEMMA OwnersRest ==
    ASSUME TypeOK, OwnerInv, UNCHANGED <<born, died, edits, now, owed>>,
           \A q \in Requests : pc'[q] \in {"idle", "read", "write"}
                                  => pc[q] \in {"idle", "read", "write"}
    PROVE  OwnerInv'
<1>1. Ages' /\ LatestVersions' /\ NothingOwedBefore'
  BY DEF OwnerInv, Ages, LatestVersions, NothingOwedBefore, Exists
<1>2. \A e : Authors(e)' = Authors(e)
  BY DEF Authors
<1>3. \A d : Deleters(d)' = Deleters(d)
  BY DEF Deleters
<1>4. OneAuthor'
  BY <1>2 DEF OwnerInv, OneAuthor
<1>5. OneDeleter'
  BY <1>3 DEF OwnerInv, OneDeleter
<1>6. QED
  BY <1>1, <1>4, <1>5 DEF OwnerInv

(* A commit that writes one version, which its request then owes.          *)
LEMMA OneMoreVersion ==
    ASSUME TypeOK, TruthInv, OwnerInv, NEW r \in Requests, pc[r] = "write",
           NEW d \in Dirs, NEW text \in Text,
           Insert(d, req[r].dir, text) \/ UpdateRow(d, text),
           NEW u \in Event, u.type # "delete", u.dir = d, u.at = now + 1,
           AfterCommit(r, {u})
    PROVE  OwnerInv'
<1>n. PICK new : new = [dir |-> d, at |-> now + 1, text |-> text]
  OBVIOUS
<1>a. now \in Nat /\ Seed.time \in Nat /\ edits \subseteq Edit
  BY SeedAssumption DEF TypeOK, TableTypeOK
<1>b. /\ now' = now + 1 /\ edits' = edits \cup {new} /\ died' = died
      /\ \A x \in Dirs : Exists(x)' => Exists(x) \/ x = d
  BY <1>n DEF Insert, UpdateRow, Commit, Exists, TypeOK, TableTypeOK
<1>c. /\ \A q \in Requests : owed'[q] = IF q = r THEN {u} ELSE owed[q]
      /\ pc'[r] \in {"notify", "done"}
      /\ \A q \in Requests : q # r => pc'[q] = pc[q]
  <2>1. owed' = [owed EXCEPT ![r] = {u}]
    BY DEF AfterCommit, Notify
  <2>2. pc' = [pc EXCEPT ![r] = "notify"] \/ pc' = [pc EXCEPT ![r] = "done"]
    BY DEF AfterCommit, Goto, Answer
  <2>3. DOMAIN owed = Requests /\ DOMAIN pc = Requests
    BY DEF TypeOK
  <2>4. QED
    BY <2>1, <2>2, <2>3
<1>d. \A e \in edits : e.at \in Nat /\ e.at <= now
  BY <1>a DEF OwnerInv, Ages, Edit
<1>1. Ages'
  <2>1. Seed.time <= now'
    BY <1>a, <1>b DEF OwnerInv, Ages
  <2>2. \A e \in edits' : e.at <= now'
    BY <1>n, <1>a, <1>b, <1>d
  <2>3. QED
    BY <2>1, <2>2 DEF Ages
<1>2. LatestVersions'
  <2>1. SUFFICES ASSUME NEW x \in Dirs, Exists(x)'
                 PROVE  \E e \in edits' : /\ e.dir = x
                                          /\ \A f \in edits' : f.dir = x => f.at <= e.at
    BY DEF LatestVersions
  <2>2. CASE x = d
    <3>1. new \in edits' /\ new.dir = x
      BY <1>n, <1>b, <2>2
    <3>2. \A f \in edits' : f.at <= new.at
      BY <1>n, <1>a, <1>b, <1>d
    <3>3. QED
      BY <3>1, <3>2
  <2>3. CASE x # d
    <3>1. PICK e \in edits : e.dir = x /\ \A f \in edits : f.dir = x => f.at <= e.at
      BY <1>b, <2>1, <2>3 DEF OwnerInv, LatestVersions
    <3>2. \A f \in edits' : f.dir = x => f \in edits
      BY <1>n, <1>b, <2>3
    <3>3. QED
      BY <1>b, <3>1, <3>2
  <2>4. QED
    BY <2>2, <2>3
<1>3. NothingOwedBefore'
  BY <1>c DEF OwnerInv, NothingOwedBefore
<1>4. OneAuthor'
  <2>1. ASSUME NEW e \in edits
        PROVE  Authors(e)' = Authors(e)
    <3>1. u.at # e.at
      BY <1>a, <1>d
    <3>2. r \notin Authors(e)
      BY NotYetAnOwner
    <3>3. r \notin Authors(e)'
      BY <1>c, <3>1 DEF Authors
    <3>4. \A q \in Requests : q # r => (q \in Authors(e)' <=> q \in Authors(e))
      BY <1>c DEF Authors
    <3>5. Authors(e) \subseteq Requests /\ Authors(e)' \subseteq Requests
      BY DEF Authors
    <3>6. QED
      BY <3>2, <3>3, <3>4, <3>5
  <2>2. Authors(new)' = {r}
    <3>1. r \in Authors(new)'
      BY <1>c, <1>n DEF Authors
    <3>2. ASSUME NEW q \in Requests, q # r
          PROVE  q \notin Authors(new)'
      <4>1. \A v \in owed[q] : v \in Event /\ v.at <= now
        BY OwedIsOld
      <4>2. \A v \in owed[q] : v.at # now + 1
        BY <4>1, <1>a DEF Event
      <4>3. QED
        BY <1>c, <1>n, <3>2, <4>2 DEF Authors
    <3>3. Authors(new)' \subseteq Requests
      BY DEF Authors
    <3>4. QED
      BY <3>1, <3>2, <3>3
  <2>3. new.at > Seed.time
    BY <1>n, <1>a DEF OwnerInv, Ages
  <2>4. \A e \in edits' : e \in edits \/ e = new
    BY <1>b
  <2>5. QED
    BY <2>1, <2>2, <2>3, <2>4 DEF OwnerInv, OneAuthor
<1>5. OneDeleter'
  <2>1. ASSUME NEW x \in Dirs
        PROVE  Deleters(x)' = Deleters(x)
    <3>1. \A q \in Requests : q # r => (q \in Deleters(x)' <=> q \in Deleters(x))
      BY <1>c DEF Deleters
    <3>2. r \notin Deleters(x) /\ r \notin Deleters(x)'
      BY <1>c, NotYetAnOwner DEF Deleters
    <3>3. Deleters(x) \subseteq Requests /\ Deleters(x)' \subseteq Requests
      BY DEF Deleters
    <3>4. QED
      BY <3>1, <3>2, <3>3
  <2>2. QED
    BY <1>b, <2>1 DEF OwnerInv, OneDeleter
<1>6. QED
  BY <1>1, <1>2, <1>3, <1>4, <1>5 DEF OwnerInv

(* The rows a delete touches, all of them live, become its request's own,  *)
(* even when their events are never published.                             *)
LEMMA DeletionsReturned ==
    ASSUME TypeOK, OwnerInv, NEW d \in Dirs, NEW x \in Dirs
    PROVE  (\E u \in Deletions(d) : u.dir = x) <=> x \in Doomed(d)
<1>1. ASSUME NEW u \in Deletions(d)
      PROVE  u.dir \in Doomed(d)
  BY DEF Deletions, MkEvent
<1>2. ASSUME x \in Doomed(d)
      PROVE  \E u \in Deletions(d) : u.dir = x
  <2>1. Exists(x)
    BY <1>2, BelowIsClosed DEF Doomed, LiveDirs, Live
  <2>2. PICK e \in edits : e.dir = x /\ \A f \in edits : f.dir = x => f.at <= e.at
    BY <2>1 DEF OwnerInv, LatestVersions
  <2>3. VersionAt(e, now)
    BY <2>2 DEF VersionAt, OwnerInv, Ages
  <2>4. MkEvent("delete", e.dir, e.at, now + 1, e.text) \in Deletions(d)
    BY <1>2, <2>2, <2>3 DEF Deletions
  <2>5. QED
    BY <2>2, <2>4 DEF MkEvent
<1>3. QED
  BY <1>1, <1>2

LEMMA OneMoreDeletion ==
    ASSUME TypeOK, TruthInv, OwnerInv, NEW r \in Requests, pc[r] = "write",
           NEW d \in Dirs, SoftDelete(d),
           owed' = [owed EXCEPT ![r] = Deletions(d)],
           pc' \in [Requests -> PCs], pc'[r] \in {"notify", "done"},
           \A q \in Requests : q # r => pc'[q] = pc[q]
    PROVE  OwnerInv'
<1>a. now \in Nat /\ Seed.time \in Nat /\ edits \subseteq Edit
  BY SeedAssumption DEF TypeOK, TableTypeOK
<1>b. now' \in {now, now + 1} /\ UNCHANGED <<born, edits>>
  BY DEF SoftDelete, Commit
<1>c. /\ \A q \in Requests : owed'[q] = IF q = r THEN Deletions(d) ELSE owed[q]
      /\ \A u \in Deletions(d) : u.type = "delete"
  BY DEF Deletions, MkEvent, TypeOK
<1>1. Ages'
  <2>1. \A e \in edits : e.at \in Nat /\ e.at <= now
    BY <1>a DEF OwnerInv, Ages, Edit
  <2>2. Seed.time <= now'
    BY <1>a, <1>b DEF OwnerInv, Ages
  <2>3. \A e \in edits : e.at <= now'
    BY <1>a, <1>b, <2>1
  <2>4. QED
    BY <1>b, <2>2, <2>3 DEF Ages
<1>2. LatestVersions'
  BY <1>b DEF OwnerInv, LatestVersions, Exists
<1>3. NothingOwedBefore'
  BY <1>c DEF OwnerInv, NothingOwedBefore
<1>4. OneAuthor'
  <2>1. ASSUME NEW e \in edits
        PROVE  Authors(e)' = Authors(e)
    <3>1. r \notin Authors(e) /\ r \notin Authors(e)'
      BY <1>c, NotYetAnOwner DEF Authors
    <3>2. \A q \in Requests : q # r => (q \in Authors(e)' <=> q \in Authors(e))
      BY <1>c DEF Authors
    <3>3. Authors(e) \subseteq Requests /\ Authors(e)' \subseteq Requests
      BY DEF Authors
    <3>4. QED
      BY <3>1, <3>2, <3>3
  <2>2. QED
    BY <1>b, <2>1 DEF OwnerInv, OneAuthor
<1>5. OneDeleter'
  <2>1. SUFFICES ASSUME NEW x \in Dirs
                 PROVE  IF died'[x] # 0 THEN \E q \in Requests : Deleters(x)' = {q}
                                        ELSE Deleters(x)' = {}
    BY DEF OneDeleter
  <2>2. r \in Deleters(x)' <=> x \in Doomed(d)
    <3>1. r \in Deleters(x)' <=> \E u \in Deletions(d) : u.dir = x
      BY <1>c DEF Deleters
    <3>2. QED
      BY <3>1, DeletionsReturned
  <2>3. \A q \in Requests : q # r => (q \in Deleters(x)' <=> q \in Deleters(x))
    BY <1>c DEF Deleters
  <2>4. /\ r \notin Deleters(x)
        /\ Deleters(x) \subseteq Requests /\ Deleters(x)' \subseteq Requests
    BY NotYetAnOwner DEF Deleters
  <2>5. IF died[x] # 0 THEN \E q \in Requests : Deleters(x) = {q} ELSE Deleters(x) = {}
    BY DEF OwnerInv, OneDeleter
  <2>6. CASE x \in Doomed(d)
    <3>1. died[x] = 0
      BY <2>6, BelowIsClosed DEF Doomed, LiveDirs, Live
    <3>2. died'[x] # 0
      BY <1>a, <2>6 DEF SoftDelete
    <3>3. Deleters(x)' = {r}
      BY <2>2, <2>3, <2>4, <2>5, <2>6, <3>1
    <3>4. QED
      BY <3>2, <3>3
  <2>7. CASE x \notin Doomed(d)
    <3>1. died'[x] = died[x]
      BY <2>7 DEF SoftDelete
    <3>2. Deleters(x)' = Deleters(x)
      BY <2>2, <2>3, <2>4, <2>7
    <3>3. QED
      BY <2>5, <3>1, <3>2
  <2>8. QED
    BY <2>6, <2>7
<1>6. QED
  BY <1>1, <1>2, <1>3, <1>4, <1>5 DEF OwnerInv

LEMMA OwnerStep == TypeOK /\ TypeOK' /\ TruthInv /\ OwnerInv /\ [Next]_vars => OwnerInv'
<1> SUFFICES ASSUME TypeOK, TypeOK', TruthInv, OwnerInv, [Next]_vars
             PROVE  OwnerInv'
  OBVIOUS
<1> DEFINE Early == {"idle", "read", "write"}
<1>p. pc \in [Requests -> PCs] /\ pc' \in [Requests -> PCs]
  BY DEF TypeOK
<1>1. ASSUME NEW r \in Requests, InsertDirectory(r)
      PROVE  OwnerInv'
  <2> DEFINE text == [name |-> req[r].name, metadata |-> req[r].metadata]
  <2>1. text \in Text /\ pc[r] = "write"
    BY <1>1 DEF InsertDirectory, TypeOK, Request, Text
  <2>2. PICK d \in Dirs :
          /\ Insert(d, req[r].dir, text)
          /\ AfterCommit(r, {MkEvent("create", d, now + 1, 0, text)})
    BY <1>1 DEF InsertDirectory
  <2>3. PICK u \in Event : u = MkEvent("create", d, now + 1, 0, text)
    BY <2>1, EventsOfAStep
  <2>4. u.type # "delete" /\ u.dir = d /\ u.at = now + 1
    BY <2>3 DEF MkEvent
  <2>5. AfterCommit(r, {u})
    BY <2>2, <2>3
  <2>6. QED
    BY <2>1, <2>2, <2>4, <2>5, OneMoreVersion
<1>2. ASSUME NEW r \in Requests, WriteDirectory(r)
      PROVE  OwnerInv'
  <2>1. req[r].dir \in Dirs /\ draft[r] \in Text /\ pc[r] = "write"
    BY <1>2 DEF WriteDirectory, Asks, TypeOK, Request
  <2>2. PICK u \in Event : u = MkEvent("update", req[r].dir, now + 1, 0, draft[r])
    BY <2>1, EventsOfAStep
  <2>3. u.type # "delete" /\ u.dir = req[r].dir /\ u.at = now + 1
    BY <2>2 DEF MkEvent
  <2>4. UpdateRow(req[r].dir, draft[r]) /\ AfterCommit(r, {u})
    BY <1>2, <2>2 DEF WriteDirectory
  <2>5. QED
    BY <2>1, <2>3, <2>4, OneMoreVersion
<1>3. ASSUME NEW r \in Requests, DeleteDirectory(r)
      PROVE  OwnerInv'
  <2>1. req[r].dir \in Dirs /\ pc[r] = "write" /\ SoftDelete(req[r].dir)
    BY <1>3 DEF DeleteDirectory, Asks, TypeOK, Request
  <2>2. /\ owed' = [owed EXCEPT ![r] = Deletions(req[r].dir)]
        /\ \/ Goto(r, "notify") \/ Answer(r, 404) \/ Answer(r, 500)
    BY <1>3 DEF DeleteDirectory, AfterCommit, Notify
  <2>3. /\ pc'[r] \in {"notify", "done"}
        /\ \A q \in Requests : q # r => pc'[q] = pc[q]
    BY <1>p, <2>2 DEF Goto, Answer
  <2>4. QED
    BY <1>p, <2>1, <2>2, <2>3, OneMoreDeletion
<1>4. ASSUME NEW r \in Requests,
             \/ Receive(r) \/ ReadParent(r) \/ ReadDirectory(r) \/ RefuseWrite(r)
             \/ StatementFails(r) \/ Publish(r) \/ PublishFails(r) \/ GiveUp(r)
      PROVE  OwnerInv'
  <2>1. UNCHANGED <<born, died, edits, now, owed>>
    BY <1>4 DEF Receive, ReadParent, ReadDirectory, RefuseWrite, StatementFails,
                Publish, PublishFails, GiveUp, tableVars
  <2>2. \/ pc' = pc
        \/ pc[r] \in Early /\ \A q \in Requests : q # r => pc'[q] = pc[q]
        \/ pc' = [pc EXCEPT ![r] = "done"]
    BY <1>4, <1>p DEF Receive, ReadParent, ReadDirectory, RefuseWrite, StatementFails,
                      Publish, PublishFails, GiveUp, Goto, Answer, Asks
  <2>3. QED
    BY <1>p, <2>1, <2>2, OwnersRest
<1>5. ASSUME NEW s \in Servers, Crash(s)
      PROVE  OwnerInv'
  <2>1. UNCHANGED <<born, died, edits, now, owed>>
    BY <1>5 DEF Crash, tableVars
  <2>2. \A q \in Requests : pc'[q] = pc[q] \/ pc'[q] = "lost"
    BY <1>5 DEF Crash
  <2>3. QED
    BY <2>1, <2>2, OwnersRest
<1>6. CASE FollowerCatchesUp \/ UNCHANGED vars
  <2>1. UNCHANGED <<born, died, edits, now, owed, pc>>
    BY <1>6 DEF FollowerCatchesUp, CatchUp, handlerVars, vars, tableVars
  <2>2. QED
    BY <2>1, OwnersRest
<1>7. QED
  BY <1>1, <1>2, <1>3, <1>4, <1>5, <1>6 DEF Next, Handle

(* The requests that claim a change, as EveryChangeHasOneOwner counts      *)
(* them, are its authors and its deleters.                                 *)
LEMMA OwnersAreCounted == OwnerInv => EveryChangeHasOneOwner
<1> SUFFICES ASSUME OwnerInv
             PROVE  EveryChangeHasOneOwner
  OBVIOUS
<1>1. Cardinality({}) = 0 /\ \A r \in Requests : Cardinality({r}) = 1
  BY FS_EmptySet, FS_Singleton
<1>2. \A e \in edits : Cardinality(Authors(e)) = IF e.at > Seed.time THEN 1 ELSE 0
  BY <1>1 DEF OwnerInv, OneAuthor
<1>3. \A d \in Dirs : Cardinality(Deleters(d)) = IF died[d] # 0 THEN 1 ELSE 0
  BY <1>1 DEF OwnerInv, OneDeleter
<1>4. QED
  BY <1>2, <1>3 DEF EveryChangeHasOneOwner, Claimants, Authors, Deleters

(* However many requests run at once and whatever fails, each version of a *)
(* row that was not there at the start, and each deletion, is owed to the  *)
(* watchers by one request and by no other.                                *)
THEOREM ChangesHaveOneOwner == Spec => []EveryChangeHasOneOwner
<1>1. Spec => []TypeOK
  BY TypeCorrect
<1>2. Spec => []TruthInv
  BY <1>1, TruthInit, TruthStep, PTL DEF Spec
<1>3. Spec => []OwnerInv
  BY <1>1, <1>2, OwnerInit, OwnerStep, PTL DEF Spec
<1>4. QED
  BY <1>3, OwnersAreCounted, PTL

----------------------------------------------------------------------------
(* Every request that was received ends.  Fairness and ENABLED are beyond  *)
(* the provers, the argument is not: each step of a handler brings its     *)
(* request nearer to its end, no other step takes a request back, and a    *)
(* request that has not ended has a step to take.                          *)
Underway == {"read", "write", "notify"}

(* How far a request has to go: its stage, and while it notifies the       *)
(* attempts at publication that are left for its events.                   *)
Stage == [idle |-> 4, read |-> 3, write |-> 2, notify |-> 1, done |-> 0, lost |-> 0]

Attempts(r) == Cardinality(todo[r]) * (MaxTries + 1) - tries[r]

Nearer(r) ==
    \/ Stage[pc'[r]] < Stage[pc[r]]
    \/ /\ pc[r] = "notify" /\ pc'[r] = "notify"
       /\ Attempts(r)' < Attempts(r)

Undisturbed(r) ==
    /\ req'[r] = req[r] /\ pc'[r] = pc[r] /\ todo'[r] = todo[r]
    /\ sending'[r] = sending[r] /\ tries'[r] = tries[r]

(* The guards of Handle's steps, of which one has to hold.                 *)
HasItsVersion(r) ==
    LiveAt(req[r].dir, ReadTime(r)) =>
        \E e \in edits : e.dir = req[r].dir /\ VersionAt(e, ReadTime(r))

MayWrite(r) ==
    \/ req[r].op \in {"createRoot", "create", "update"} /\ req[r].server \in ReadOnly
    \/ /\ req[r].op \in {"createRoot", "create"}
       /\ \E d \in Dirs : ~Exists(d)
       /\ req[r].dir # NoDir => Exists(req[r].dir)
    \/ req[r].op = "update" /\ Exists(req[r].dir)
    \/ req[r].op = "delete"

HasAStep(r) ==
    CASE pc[r] = "read" -> \/ req[r].op = "create"
                           \/ req[r].op = "update" /\ HasItsVersion(r)
      [] pc[r] = "write" -> MayWrite(r)
      [] pc[r] = "notify" -> \E e \in todo[r] : Current(r, e)

(* The ids are a bound of the model: the database does not run out.        *)
FindsAnId(r) ==
    (pc[r] = "write" /\ req[r].op \in {"createRoot", "create"}) => \E d \in Dirs : ~Exists(d)

(* What the proof needs to know of each request: it names rows that exist, *)
(* its handler reads for the operations that read, and what the wrapper    *)
(* still has to publish is a finite set, not empty while it notifies, that *)
(* holds the event being retried.                                          *)
FirstVersions ==
    \A d \in Dirs : Exists(d) => \E e \in edits : e.dir = d /\ e.at = born[d]

Serving(r) ==
    /\ (pc[r] # "idle" /\ req[r].dir # NoDir) => Exists(req[r].dir)
    /\ pc[r] = "read" => req[r].op \in {"create", "update"}
    /\ IsFiniteSet(todo[r])
    /\ pc[r] \in {"idle", "read", "write"} => tries[r] = 0
    /\ pc[r] = "notify" => /\ todo[r] # {}
                           /\ tries[r] > 0 => sending[r] \in todo[r]

FiniteHistory == IsFiniteSet(edits) /\ FirstVersions

ServingInv == FiniteHistory /\ \A r \in Requests : Serving(r)

LEMMA ServingInit == Init => ServingInv
<1> SUFFICES ASSUME Init
             PROVE  ServingInv
  OBVIOUS
<1>1. IsFiniteSet(edits)
  <2>1. PICK version : version = [d \in Dirs |-> [dir |-> d, at |-> Seed.born[d], text |-> Seed.text]]
    OBVIOUS
  <2>2. PICK rows : rows = { d \in Dirs : Seed.born[d] > 0 }
    OBVIOUS
  <2>3. edits = { version[d] : d \in rows }
    BY <2>1, <2>2 DEF Init, TableInit
  <2>4. QED
    BY <2>2, <2>3, SeedIsFinite, ImageIsFinite
<1>2. FirstVersions
  <2>1. SUFFICES ASSUME NEW d \in Dirs, Exists(d)
                 PROVE  \E e \in edits : e.dir = d /\ e.at = born[d]
    BY DEF FirstVersions
  <2>2. PICK e : e = [dir |-> d, at |-> Seed.born[d], text |-> Seed.text]
    OBVIOUS
  <2>3. e \in edits /\ e.dir = d /\ e.at = born[d]
    BY <2>1, <2>2 DEF Init, TableInit, Exists
  <2>4. QED
    BY <2>3
<1>3. ASSUME NEW r \in Requests
      PROVE  Serving(r)
  BY FS_EmptySet DEF Init, Serving
<1>4. QED
  BY <1>1, <1>2, <1>3 DEF ServingInv, FiniteHistory

(* No statement removes a row or a version of one.                         *)
LEMMA HistoryStaysFinite ==
    ASSUME TableTypeOK, FiniteHistory, [TableNext]_tableVars
    PROVE  FiniteHistory' /\ \A d \in Dirs : Exists(d) => Exists(d)'
<1> USE DEF TableTypeOK, Exists
<1>1. ASSUME NEW d \in Dirs, NEW p \in Dirs \cup {NoDir}, NEW text \in Text,
             Insert(d, p, text)
      PROVE  FiniteHistory' /\ \A x \in Dirs : Exists(x) => Exists(x)'
  <2>1. PICK e : e = [dir |-> d, at |-> now + 1, text |-> text]
    OBVIOUS
  <2>2. edits' = edits \cup {e} /\ born' = [born EXCEPT ![d] = now + 1] /\ ~Exists(d)
    BY <1>1, <2>1 DEF Insert
  <2>3. IsFiniteSet(edits')
    BY <2>2, FS_AddElement DEF FiniteHistory
  <2>4. FirstVersions'
    <3>1. SUFFICES ASSUME NEW x \in Dirs, Exists(x)'
                   PROVE  \E f \in edits' : f.dir = x /\ f.at = born'[x]
      BY DEF FirstVersions
    <3>2. CASE x = d
      BY <2>1, <2>2, <3>2
    <3>3. CASE x # d
      <4>1. Exists(x) /\ born'[x] = born[x]
        BY <2>2, <3>1, <3>3
      <4>2. PICK f \in edits : f.dir = x /\ f.at = born[x]
        BY <4>1 DEF FiniteHistory, FirstVersions
      <4>3. QED
        BY <2>2, <4>1, <4>2
    <3>4. QED
      BY <3>2, <3>3
  <2>5. QED
    BY <2>2, <2>3, <2>4 DEF FiniteHistory
<1>2. ASSUME NEW d \in Dirs, NEW text \in Text, UpdateRow(d, text)
      PROVE  FiniteHistory' /\ \A x \in Dirs : Exists(x) => Exists(x)'
  <2>1. PICK e : e = [dir |-> d, at |-> now + 1, text |-> text]
    OBVIOUS
  <2>2. edits' = edits \cup {e} /\ born' = born
    BY <1>2, <2>1 DEF UpdateRow
  <2>3. IsFiniteSet(edits')
    BY <2>2, FS_AddElement DEF FiniteHistory
  <2>4. QED
    BY <2>2, <2>3 DEF FiniteHistory, FirstVersions
<1>3. CASE UNCHANGED <<born, edits>>
  BY <1>3 DEF FiniteHistory, FirstVersions
<1>4. QED
  BY <1>1, <1>2, <1>3 DEF TableNext, SoftDelete, CatchUp, tableVars

(* A step of one request leaves the others where they are.                 *)
LEMMA OthersUndisturbed ==
    ASSUME TypeOK, NEW r \in Requests, Receive(r) \/ Handle(r),
           NEW q \in Requests, q # r
    PROVE  Undisturbed(q)
<1> USE DEF TypeOK, Undisturbed
<1>m. ASSUME NEW at \in PCs, NEW status \in Replies, Goto(r, at) \/ Answer(r, status)
      PROVE  pc'[q] = pc[q]
  BY <1>m, Moves
<1>p. /\ {"idle", "read", "write", "notify", "done", "lost"} \subseteq PCs
      /\ {200, 201, 400, 404, 500} \subseteq Replies
  BY DEF PCs, Replies
<1>1. ASSUME NEW due, NEW rows, Notify(r, due, rows)
      PROVE  todo'[q] = todo[q]
  BY <1>1 DEF Notify
<1>2. CASE Receive(r)
  <2>1. /\ Goto(r, "read") \/ Goto(r, "write")
        /\ \E x \in Request : req' = [req EXCEPT ![r] = x]
    BY <1>2 DEF Receive
  <2>2. QED
    BY <1>2, <2>1, <1>m, <1>p DEF Receive
<1>3. CASE ReadParent(r) \/ ReadDirectory(r) \/ RefuseWrite(r) \/ StatementFails(r) \/ GiveUp(r)
  <2>1. Goto(r, "write") \/ Answer(r, 400) \/ Answer(r, 404) \/ Answer(r, 500)
    BY <1>3 DEF ReadParent, ReadDirectory, RefuseWrite, StatementFails, GiveUp
  <2>2. UNCHANGED <<req, todo, sending, tries>>
    BY <1>3 DEF ReadParent, ReadDirectory, RefuseWrite, StatementFails, GiveUp
  <2>3. QED
    BY <2>1, <2>2, <1>m, <1>p
<1>4. CASE InsertDirectory(r) \/ WriteDirectory(r) \/ DeleteDirectory(r)
  <2>1. /\ Goto(r, "notify") \/ Answer(r, 404) \/ Answer(r, 500)
        /\ \E due, rows : Notify(r, due, rows)
    BY <1>4 DEF InsertDirectory, WriteDirectory, DeleteDirectory, AfterCommit
  <2>2. UNCHANGED <<req, sending, tries>>
    BY <1>4 DEF InsertDirectory, WriteDirectory, DeleteDirectory
  <2>3. QED
    BY <2>1, <2>2, <1>1, <1>m, <1>p
<1>5. CASE Publish(r)
  <2>1. PICK e \in todo[r] :
          /\ todo' = [todo EXCEPT ![r] = @ \ {e}]
          /\ tries' = [tries EXCEPT ![r] = 0]
          /\ sending' = [sending EXCEPT ![r] = NoEvent]
          /\ Answer(r, Success(r)) \/ UNCHANGED <<pc, reply>>
    BY <1>5 DEF Publish
  <2>2. Success(r) \in Replies
    BY <1>p DEF Success
  <2>3. pc'[q] = pc[q]
    BY <2>1, <2>2, <1>m, <1>p
  <2>4. QED
    BY <1>5, <2>1, <2>3 DEF Publish
<1>6. CASE PublishFails(r)
  <2>1. \E e \in todo[r] : sending' = [sending EXCEPT ![r] = e]
    BY <1>6 DEF PublishFails
  <2>2. tries' = [tries EXCEPT ![r] = @ + 1] /\ UNCHANGED <<req, pc, todo>>
    BY <1>6 DEF PublishFails
  <2>3. QED
    BY <2>1, <2>2
<1>7. QED
  BY <1>2, <1>3, <1>4, <1>5, <1>6 DEF Handle

LEMMA DeletionsAreFinite ==
    ASSUME TypeOK, IsFiniteSet(edits), NEW d \in Dirs
    PROVE  IsFiniteSet(Deletions(d))
<1>1. PICK rows : rows = { f \in edits : f.dir \in Doomed(d) /\ VersionAt(f, now) }
  OBVIOUS
<1>2. PICK event : event = [e \in edits |-> MkEvent("delete", e.dir, e.at, now + 1, e.text)]
  OBVIOUS
<1>3. IsFiniteSet(rows) /\ rows \subseteq edits
  BY <1>1, FS_Subset
<1>4. Deletions(d) = { event[e] : e \in rows }
  BY <1>1, <1>2, <1>3 DEF Deletions
<1>5. QED
  BY <1>3, <1>4, ImageIsFinite

(* After a commit the wrapper has a finite set of events to publish, or    *)
(* the request is answered.                                                *)
LEMMA AfterNotify ==
    ASSUME TypeOK, NEW r \in Requests, Serving(r), pc[r] = "write",
           NEW due, NEW rows, Notify(r, due, rows), IsFiniteSet(rows),
           \/ rows # {} /\ Goto(r, "notify")
           \/ Answer(r, 404) \/ Answer(r, 500),
           UNCHANGED <<req, sending, tries>>,
           req[r].dir # NoDir => Exists(req[r].dir)'
    PROVE  Serving(r)' /\ Nearer(r)
<1>1. todo'[r] = rows /\ tries'[r] = 0 /\ req'[r] = req[r]
  BY DEF Notify, TypeOK, Serving
<1>2. \/ rows # {} /\ pc'[r] = "notify"
      \/ pc'[r] = "done"
  BY DEF Goto, Answer, TypeOK
<1>3. Serving(r)'
  BY <1>1, <1>2 DEF Serving, Exists
<1>4. Nearer(r)
  BY <1>2 DEF Nearer, Stage
<1>5. QED
  BY <1>3, <1>4

(* The attempts that are left are counted in whole numbers, and there is   *)
(* one as long as the wrapper has an event to publish.                     *)
LEMMA AttemptsCount ==
    ASSUME NEW T, IsFiniteSet(T), T # {}, NEW n \in 0 .. MaxTries, MaxTries \in Nat \ {0}
    PROVE  /\ Cardinality(T) * (MaxTries + 1) - n \in Nat \ {0}
           /\ \A e \in T : Cardinality(T \ {e}) * (MaxTries + 1) - 0
                             < Cardinality(T) * (MaxTries + 1) - n
<1>1. PICK c : c = Cardinality(T) /\ c \in Nat \ {0}
  BY FS_CardinalityType, FS_EmptySet
<1>2. PICK size : size = MaxTries + 1 /\ size \in Nat \ {0} /\ n < size
  OBVIOUS
<1>3. c - 1 \in Nat /\ (c - 1) * size \in Nat /\ c * size = (c - 1) * size + size
  BY <1>1, <1>2, OnePageMore
<1>4. ASSUME NEW e \in T
      PROVE  Cardinality(T \ {e}) = c - 1
  BY <1>1, <1>4, FS_RemoveElement
<1>5. c * size - n \in Nat \ {0} /\ (c - 1) * size - 0 < c * size - n
  BY <1>2, <1>3
<1>6. QED
  BY <1>1, <1>2, <1>4, <1>5

(* Each step of its handler brings a request nearer to its end.            *)
LEMMA HandlingGoesOn ==
    ASSUME TypeOK, ServingInv, [TableNext]_tableVars, NEW r \in Requests, Handle(r)
    PROVE  Serving(r)' /\ Nearer(r)
<1>r. Serving(r) /\ IsFiniteSet(edits)
  BY DEF ServingInv, FiniteHistory
<1>q. pc[r] # "idle" /\ req[r] \in Request
  BY DEF Handle, ReadParent, ReadDirectory, RefuseWrite, InsertDirectory, WriteDirectory,
         DeleteDirectory, StatementFails, Publish, PublishFails, GiveUp, Asks, TypeOK
<1>d. req[r].dir # NoDir => req[r].dir \in Dirs /\ Exists(req[r].dir)'
  <2>1. req[r].dir \in Dirs \cup {NoDir} /\ TableTypeOK /\ FiniteHistory
    BY <1>q DEF Request, TypeOK, ServingInv
  <2>2. \A d \in Dirs : Exists(d) => Exists(d)'
    BY <2>1, HistoryStaysFinite
  <2>3. req' = req
    BY DEF Handle, ReadParent, ReadDirectory, RefuseWrite, InsertDirectory, WriteDirectory,
           DeleteDirectory, StatementFails, Publish, PublishFails, GiveUp
  <2>4. QED
    BY <1>r, <1>q, <2>1, <2>2, <2>3 DEF Serving, Exists
<1>m. MaxTries \in Nat \ {0} /\ tries[r] \in 0 .. MaxTries
  BY TreeManagerAssumption DEF TypeOK
<1>g. ASSUME UNCHANGED <<req, todo, sending, tries>>,
             \/ pc[r] = "read" /\ Goto(r, "write")
             \/ \E status \in Replies : Answer(r, status)
      PROVE  Serving(r)' /\ Nearer(r)
  <2>1. \/ pc[r] = "read" /\ pc'[r] = "write"
        \/ pc'[r] = "done"
    BY <1>g DEF Goto, Answer, TypeOK
  <2>2. pc'[r] = "done" => pc[r] \in {"read", "write", "notify"}
    BY DEF Handle, ReadParent, ReadDirectory, RefuseWrite, InsertDirectory, WriteDirectory,
           DeleteDirectory, StatementFails, Publish, PublishFails, GiveUp, Asks
  <2>3. Serving(r)'
    BY <1>r, <1>d, <1>g, <2>1 DEF Serving, Exists
  <2>4. Nearer(r)
    BY <2>1, <2>2 DEF Nearer, Stage
  <2>5. QED
    BY <2>3, <2>4
<1>1. CASE ReadParent(r) \/ ReadDirectory(r)
  <2>1. \/ pc[r] = "read" /\ Goto(r, "write")
        \/ Answer(r, 400) \/ Answer(r, 404)
    BY <1>1 DEF ReadParent, ReadDirectory, Asks
  <2>2. UNCHANGED <<req, todo, sending, tries>>
    BY <1>1 DEF ReadParent, ReadDirectory
  <2>3. QED
    BY <2>1, <2>2, <1>g DEF Replies
<1>2. CASE RefuseWrite(r) \/ StatementFails(r) \/ GiveUp(r)
  <2>1. Answer(r, 500) /\ UNCHANGED <<req, todo, sending, tries>>
    BY <1>2 DEF RefuseWrite, StatementFails, GiveUp
  <2>2. QED
    BY <2>1, <1>g DEF Replies
<1>3. CASE InsertDirectory(r) \/ WriteDirectory(r)
  <2>1. PICK u : AfterCommit(r, {u})
    BY <1>3 DEF InsertDirectory, WriteDirectory
  <2>2. pc[r] = "write" /\ UNCHANGED <<req, sending, tries>>
    BY <1>3 DEF InsertDirectory, WriteDirectory, Asks
  <2>3. \/ Notify(r, {u}, {u}) /\ Goto(r, "notify")
        \/ Notify(r, {u}, {}) /\ Answer(r, 500)
    BY <2>1 DEF AfterCommit
  <2>4. IsFiniteSet({u}) /\ IsFiniteSet({}) /\ {u} # {}
    BY FS_Singleton, FS_EmptySet
  <2>5. QED
    BY <1>r, <1>d, <2>2, <2>3, <2>4, AfterNotify
<1>4. CASE DeleteDirectory(r)
  <2>1. PICK due : due = Deletions(req[r].dir)
    OBVIOUS
  <2>2. pc[r] = "write" /\ UNCHANGED <<req, sending, tries>> /\ req[r].op = "delete"
    BY <1>4 DEF DeleteDirectory, Asks
  <2>3. req[r].dir \in Dirs
    BY <1>q, <2>2 DEF Request
  <2>4. IsFiniteSet(due)
    BY <1>r, <2>1, <2>3, DeletionsAreFinite
  <2>5. \E rows \in SUBSET due :
           /\ Notify(r, due, rows)
           /\ \/ rows # {} /\ Goto(r, "notify")
              \/ Answer(r, 404) \/ Answer(r, 500)
    BY <1>4, <2>1 DEF DeleteDirectory, AfterCommit
  <2>6. PICK rows \in SUBSET due :
           /\ Notify(r, due, rows)
           /\ \/ rows # {} /\ Goto(r, "notify")
              \/ Answer(r, 404) \/ Answer(r, 500)
    BY <2>5
  <2>7. IsFiniteSet(rows)
    BY <2>4, FS_Subset
  <2>8. QED
    BY <1>r, <1>d, <2>2, <2>6, <2>7, AfterNotify
<1>5. CASE Publish(r)
  <2>1. PICK e \in todo[r] :
          /\ todo' = [todo EXCEPT ![r] = @ \ {e}]
          /\ tries' = [tries EXCEPT ![r] = 0]
          /\ IF todo[r] = {e} THEN Answer(r, Success(r)) ELSE UNCHANGED <<pc, reply>>
    BY <1>5 DEF Publish
  <2>2. pc[r] = "notify" /\ req' = req
    BY <1>5 DEF Publish
  <2>3. todo'[r] = todo[r] \ {e} /\ tries'[r] = 0
    BY <2>1 DEF TypeOK
  <2>4. IsFiniteSet(todo'[r])
    BY <1>r, <2>3, FS_Subset DEF Serving
  <2>5. CASE todo[r] = {e}
    <3>1. pc'[r] = "done"
      BY <2>1, <2>5 DEF Answer, TypeOK
    <3>2. Serving(r)'
      BY <1>r, <1>d, <2>2, <2>4, <3>1 DEF Serving, Exists
    <3>3. Nearer(r)
      BY <2>2, <3>1 DEF Nearer, Stage
    <3>4. QED
      BY <3>2, <3>3
  <2>6. CASE todo[r] # {e}
    <3>1. pc' = pc /\ todo'[r] # {}
      BY <2>1, <2>3, <2>6
    <3>2. Serving(r)'
      BY <1>r, <1>d, <2>2, <2>3, <2>4, <3>1 DEF Serving, Exists
    <3>3. Attempts(r)' < Attempts(r)
      <4>1. Cardinality(todo[r] \ {e}) * (MaxTries + 1) - 0
              < Cardinality(todo[r]) * (MaxTries + 1) - tries[r]
        BY <1>r, <1>m, AttemptsCount DEF Serving
      <4>2. QED
        BY <2>3, <4>1 DEF Attempts
    <3>4. QED
      BY <2>2, <3>1, <3>2, <3>3 DEF Nearer
  <2>7. QED
    BY <2>5, <2>6
<1>6. CASE PublishFails(r)
  <2>1. PICK e \in todo[r] : sending' = [sending EXCEPT ![r] = e]
    BY <1>6 DEF PublishFails
  <2>2. /\ pc[r] = "notify" /\ pc' = pc /\ req' = req /\ todo' = todo
        /\ sending'[r] = e /\ tries'[r] = tries[r] + 1
    BY <1>6, <2>1 DEF PublishFails, TypeOK
  <2>3. Serving(r)'
    BY <1>r, <1>d, <2>2 DEF Serving, Exists
  <2>4. Attempts(r)' < Attempts(r)
    <3>1. Cardinality(todo[r]) * (MaxTries + 1) - tries[r] \in Nat
      BY <1>r, <1>m, <2>2, AttemptsCount DEF Serving
    <3>2. PICK all : all = Cardinality(todo[r]) * (MaxTries + 1)
      OBVIOUS
    <3>3. Cardinality(todo[r]) \in Nat /\ all \in Int
      BY <1>r, <1>m, <3>2, FS_CardinalityType DEF Serving
    <3>4. all - (tries[r] + 1) < all - tries[r]
      BY <1>m, <3>3
    <3>5. QED
      BY <2>2, <3>2, <3>4 DEF Attempts
  <2>5. QED
    BY <2>2, <2>3, <2>4 DEF Nearer
<1>7. QED
  BY <1>1, <1>2, <1>3, <1>4, <1>5, <1>6 DEF Handle

(* What a step that leaves a request alone leaves true of it.              *)
LEMMA StillServed ==
    ASSUME TypeOK, FiniteHistory, [TableNext]_tableVars,
           NEW q \in Requests, Serving(q), Undisturbed(q)
    PROVE  Serving(q)'
<1>1. \A d \in Dirs : Exists(d) => Exists(d)'
  BY HistoryStaysFinite DEF TypeOK
<1>2. (pc[q] # "idle" /\ req[q].dir # NoDir) => req[q].dir \in Dirs
  BY DEF TypeOK, Request
<1>3. QED
  BY <1>1, <1>2 DEF Serving, Undisturbed, Exists

(* A server that dies ends its requests and leaves the others alone.       *)
LEMMA CrashEnds ==
    ASSUME TypeOK, FiniteHistory, [TableNext]_tableVars, NEW s \in Servers, Crash(s),
           NEW q \in Requests, Serving(q)
    PROVE  /\ Serving(q)'
           /\ pc[q] \in Underway => Nearer(q) \/ Undisturbed(q)
<1>1. \/ pc'[q] = pc[q]
      \/ pc[q] \in Underway /\ pc'[q] = "lost"
  BY DEF Crash, TypeOK, Underway
<1>2. UNCHANGED <<req, todo, sending, tries>>
  BY DEF Crash
<1>3. CASE pc'[q] = pc[q]
  <2>1. Undisturbed(q)
    BY <1>2, <1>3 DEF Undisturbed
  <2>2. QED
    BY <2>1, StillServed
<1>4. CASE pc[q] \in Underway /\ pc'[q] = "lost"
  <2>1. Nearer(q)
    BY <1>4 DEF Nearer, Stage, Underway
  <2>2. (pc[q] # "idle" /\ req[q].dir # NoDir) => req[q].dir \in Dirs /\ Exists(req[q].dir)
    BY DEF TypeOK, Request, Serving
  <2>3. \A d \in Dirs : Exists(d) => Exists(d)'
    BY HistoryStaysFinite DEF TypeOK
  <2>4. Serving(q)'
    BY <1>2, <1>4, <2>2, <2>3 DEF Serving, Exists, Underway
  <2>5. QED
    BY <2>1, <2>4
<1>5. QED
  BY <1>1, <1>3, <1>4

(* The clients name rows that exist.                                       *)
LEMMA ReceivedIsServed ==
    ASSUME TypeOK, FiniteHistory, [TableNext]_tableVars, NEW r \in Requests, Receive(r),
           Serving(r)
    PROVE  Serving(r)'
<1>1. PICK q \in Request :
        /\ q.dir # NoDir => Exists(q.dir)
        /\ req' = [req EXCEPT ![r] = q]
        /\ Goto(r, IF q.op \in {"create", "update"} THEN "read" ELSE "write")
  BY DEF Receive
<1>2. /\ req'[r] = q /\ pc[r] = "idle"
      /\ pc'[r] = IF q.op \in {"create", "update"} THEN "read" ELSE "write"
  BY <1>1 DEF Receive, Goto, TypeOK
<1>3. UNCHANGED <<born, todo, tries>>
  BY DEF Receive, tableVars
<1>4. QED
  BY <1>1, <1>2, <1>3 DEF Serving, Exists

LEMMA ServingStep ==
    ASSUME TypeOK, ServingInv, [Next]_vars
    PROVE  /\ ServingInv'
           /\ \A r \in Requests :
                /\ Handle(r) => Nearer(r)
                /\ pc[r] \in Underway => Nearer(r) \/ Undisturbed(r)
<1>0. [TableNext]_tableVars
  BY StepsOfTheTable
<1>h. FiniteHistory' /\ FiniteHistory
  BY <1>0, HistoryStaysFinite DEF ServingInv, TypeOK
<1>s. \A r \in Requests : Serving(r)
  BY DEF ServingInv
<1>1. ASSUME NEW r \in Requests, Handle(r)
      PROVE  Nearer(r)
  BY <1>0, <1>1, HandlingGoesOn
<1>2. ASSUME NEW r \in Requests
      PROVE  Serving(r)' /\ (pc[r] \in Underway => Nearer(r) \/ Undisturbed(r))
  <2>1. CASE Handle(r)
    BY <1>0, <2>1, HandlingGoesOn
  <2>2. CASE Receive(r)
    <3>1. pc[r] \notin Underway
      BY <2>2 DEF Receive, Underway
    <3>2. QED
      BY <1>0, <1>h, <1>s, <2>2, <3>1, ReceivedIsServed
  <2>3. ASSUME NEW q \in Requests, q # r, Receive(q) \/ Handle(q)
        PROVE  Undisturbed(r)
    BY <2>3, OthersUndisturbed
  <2>4. ASSUME NEW s \in Servers, Crash(s)
        PROVE  Serving(r)' /\ (pc[r] \in Underway => Nearer(r) \/ Undisturbed(r))
    BY <1>0, <1>h, <1>s, <2>4, CrashEnds
  <2>5. CASE FollowerCatchesUp \/ UNCHANGED vars
    BY <2>5, <1>0, <1>h, <1>s, StillServed
       DEF FollowerCatchesUp, vars, handlerVars, Undisturbed
  <2>6. ASSUME Undisturbed(r)
        PROVE  Serving(r)'
    BY <1>0, <1>h, <1>s, <2>6, StillServed
  <2>7. QED
    BY <2>1, <2>2, <2>3, <2>4, <2>5, <2>6 DEF Next
<1>3. QED
  BY <1>h, <1>1, <1>2 DEF ServingInv

(* No retry goes on for ever and no handler waits for another: each step   *)
(* its handler takes brings a request nearer to its end, and no step of    *)
(* another request, of a server or of the database takes it back.          *)
THEOREM RequestsMoveOn ==
    Spec => [][\A r \in Requests :
                 /\ Handle(r) => Nearer(r)
                 /\ pc[r] \in Underway => Nearer(r) \/ Undisturbed(r)]_vars
<1>1. Spec => []ServingInv
  BY ServingInit, ServingStep, TypeCorrect, PTL DEF Spec
<1>2. TypeOK /\ ServingInv /\ [Next]_vars =>
        [\A r \in Requests :
           /\ Handle(r) => Nearer(r)
           /\ pc[r] \in Underway => Nearer(r) \/ Undisturbed(r)]_vars
  BY ServingStep
<1>3. QED
  BY <1>1, <1>2, TypeCorrect, PTL DEF Spec

(* Nearer is well founded: a request that notifies has a finite number of  *)
(* attempts before it, at least one, however many rows its delete took.    *)
THEOREM AttemptsAreFinite ==
    Spec => [](\A r \in Requests : pc[r] = "notify" => Attempts(r) \in Nat \ {0})
<1>1. Spec => []ServingInv
  BY ServingInit, ServingStep, TypeCorrect, PTL DEF Spec
<1>2. ASSUME TypeOK, ServingInv, NEW r \in Requests, pc[r] = "notify"
      PROVE  Attempts(r) \in Nat \ {0}
  <2>1. IsFiniteSet(todo[r]) /\ todo[r] # {}
    BY <1>2 DEF ServingInv, Serving
  <2>2. tries[r] \in 0 .. MaxTries /\ MaxTries \in Nat \ {0}
    BY <1>2, TreeManagerAssumption DEF TypeOK
  <2>3. QED
    BY <2>1, <2>2, AttemptsCount DEF Attempts
<1>3. TypeOK /\ ServingInv =>
        \A r \in Requests : pc[r] = "notify" => Attempts(r) \in Nat \ {0}
  BY <1>2
<1>4. QED
  BY <1>1, <1>3, TypeCorrect, PTL

(* A read of a row that is there finds a version of it, at any time.       *)
LEMMA VersionsAreFound ==
    ASSUME TableTypeOK, FirstVersions, NEW d \in Dirs, NEW t \in Nat, ExistsAt(d, t)
    PROVE  \E e \in edits : e.dir = d /\ VersionAt(e, t)
<1>1. PICK first \in edits : first.dir = d /\ first.at = born[d]
  BY DEF FirstVersions, ExistsAt, Exists
<1>2. \A e \in edits : e.at \in Nat
  BY DEF TableTypeOK, Edit
<1>3. PICK ages : ages = { n \in Nat : \E e \in edits : e.dir = d /\ e.at <= t /\ n = t - e.at }
  OBVIOUS
<1>4. t - first.at \in ages
  BY <1>1, <1>2, <1>3 DEF ExistsAt
<1>5. PICK n \in ages : \A k \in ages : n <= k
  BY <1>3, <1>4, LeastNumber
<1>6. PICK e \in edits : e.dir = d /\ e.at <= t /\ n = t - e.at
  BY <1>3, <1>5
<1>7. ASSUME NEW f \in edits, f.dir = e.dir, f.at <= t
      PROVE  f.at <= e.at
  <2>1. t - f.at \in ages
    BY <1>2, <1>3, <1>6, <1>7
  <2>2. n <= t - f.at /\ f.at \in Nat /\ e.at \in Nat
    BY <1>2, <1>5, <2>1
  <2>3. QED
    BY <1>6, <2>2
<1>8. QED
  BY <1>6, <1>7 DEF VersionAt

(* No request is ever stuck: while it is under way, one of the steps of    *)
(* its handler is possible, whatever the other requests have done to the   *)
(* directory it names since it was read.  (A creation needs an id.)        *)
THEOREM NobodyIsStuck ==
    Spec => [](\A r \in Requests : (pc[r] \in Underway /\ FindsAnId(r)) => HasAStep(r))
<1>1. Spec => []ServingInv
  BY ServingInit, ServingStep, TypeCorrect, PTL DEF Spec
<1>2. ASSUME TypeOK, ServingInv, NEW r \in Requests, pc[r] \in Underway, FindsAnId(r)
      PROVE  HasAStep(r)
  <2>1. Serving(r) /\ FirstVersions /\ TableTypeOK
    BY <1>2 DEF ServingInv, FiniteHistory, TypeOK
  <2>2. req[r] \in Request
    BY <1>2 DEF TypeOK, Underway
  <2>3. /\ req[r].op \in {"createRoot", "create", "update", "delete"}
        /\ req[r].dir \in Dirs \cup {NoDir}
        /\ req[r].op \in {"create", "update", "delete"} => req[r].dir \in Dirs
    BY <2>2, TreeManagerAssumption DEF Request
  <2>4. CASE pc[r] = "read"
    <3>1. ASSUME req[r].op = "update", LiveAt(req[r].dir, ReadTime(r))
          PROVE  \E e \in edits : e.dir = req[r].dir /\ VersionAt(e, ReadTime(r))
      <4>1. ReadTime(r) \in Nat
        BY <2>1 DEF ReadTime, TableTypeOK
      <4>2. req[r].dir \in Dirs /\ ExistsAt(req[r].dir, ReadTime(r))
        BY <2>3, <3>1 DEF LiveAt
      <4>3. QED
        BY <2>1, <4>1, <4>2, VersionsAreFound
    <3>2. QED
      BY <2>1, <2>4, <3>1 DEF HasAStep, HasItsVersion, Serving
  <2>5. CASE pc[r] = "write"
    <3>1. req[r].dir # NoDir => Exists(req[r].dir)
      BY <2>1, <2>5 DEF Serving
    <3>2. MayWrite(r)
      BY <1>2, <2>3, <2>5, <3>1, NoDirAssumption DEF MayWrite, FindsAnId
    <3>3. QED
      BY <2>5, <3>2 DEF HasAStep
  <2>6. CASE pc[r] = "notify"
    <3>1. todo[r] # {} /\ (tries[r] > 0 => sending[r] \in todo[r]) /\ tries[r] \in Nat
      BY <1>2, <2>1, <2>6, TreeManagerAssumption DEF Serving, TypeOK
    <3>2. \E e \in todo[r] : Current(r, e)
      BY <3>1 DEF Current
    <3>3. QED
      BY <2>6, <3>2 DEF HasAStep
  <2>7. QED
    BY <1>2, <2>4, <2>5, <2>6 DEF Underway
<1>3. TypeOK /\ ServingInv =>
        \A r \in Requests : (pc[r] \in Underway /\ FindsAnId(r)) => HasAStep(r)
  BY <1>2
<1>4. QED
  BY <1>1, <1>3, TypeCorrect, PTL

=============================================================================
