-------------------------- MODULE MemoryDriverProofs --------------------------
(***************************************************************************)
(* Proofs about the memory driver, for any number of directories and       *)
(* requests: its types, that deletions stand, that nothing is deleted but  *)
(* what lies below a directory that somebody asked to be deleted, that it  *)
(* is the database's tree until deletions overlap, and that its listings   *)
(* are whole.                                                              *)
(***************************************************************************)
EXTENDS MemoryListings, TreesProofs, FiniteSetTheorems, SequenceTheorems

(* What a deletion lists is in the map, below its directory, and no root.  *)
Rows == { x \in Dirs : Exists(x) }

LEMMA ChildrenAreBelow ==
    ASSUME MemoryAssumption, NEW d \in Rows, NEW seen \in SUBSET Rows
    PROVE  \A x \in Children(d, seen) :
               /\ x \in Rows
               /\ parent[x] # NoDir
               /\ x \in Below(parent, d, Rows)
<1> SUFFICES ASSUME NEW x \in Children(d, seen)
             PROVE  /\ x \in Rows
                    /\ parent[x] # NoDir
                    /\ x \in Below(parent, d, Rows)
  OBVIOUS
<1>1. x \in Below(parent, d, seen \cup {d}) /\ x # d
  BY DEF Children
<1>2. parent[x] \in seen \cup {d}
  BY <1>1, BelowHasVisibleParents
<1>3. NoDir \notin Rows
  BY DEF MemoryAssumption, Rows
<1>4. Below(parent, d, seen \cup {d}) \subseteq Below(parent, d, Rows)
  BY BelowGrows
<1>5. Below(parent, d, Rows) \subseteq Rows
  BY BelowIsClosed
<1>6. QED
  BY <1>1, <1>2, <1>3, <1>4, <1>5

(* The rows of the map stay, with their parents; only a creation adds one. *)
Grows ==
    /\ \A x \in Dirs : Exists(x) => Exists(x)' /\ parent'[x] = parent[x]

LEMMA MapGrows == TypeOK /\ [Next]_vars => Grows
<1> SUFFICES ASSUME TypeOK, [Next]_vars
             PROVE  Grows
  OBVIOUS
<1> USE DEF TypeOK, Grows, Exists
<1>1. ASSUME NEW r \in Requests, Create(r)
      PROVE  Grows
  BY <1>1 DEF Create, Exists
<1>2. CASE UNCHANGED <<parent, born>>
  BY <1>2
<1>3. QED
  BY <1>1, <1>2 DEF Next, Handle, vars, mapVars, Receive, Read, UpdateDirectory, LookUp,
     BeginScan, EndScan, NextChild, MarkChild, Spoil

----------------------------------------------------------------------------
(* Types.                                                                  *)

LEMMA TypeInit == MemoryAssumption /\ Init => TypeOK
<1> SUFFICES ASSUME MemoryAssumption, Init
             PROVE  TypeOK
  OBVIOUS
<1>1. spoiled \in BOOLEAN /\ overlapped \in BOOLEAN
  BY DEF Init
<1>2. QED
  BY <1>1 DEF MemoryAssumption, Init, TypeOK, PCs

LEMMA TypeStep == MemoryAssumption /\ TypeOK /\ [Next]_vars => TypeOK'
<1> SUFFICES ASSUME MemoryAssumption, TypeOK, [Next]_vars
             PROVE  TypeOK'
  OBVIOUS
<1> USE DEF TypeOK, Goto, Answer, Exists, mapVars, deleteVars
<1>1. ASSUME NEW r \in Requests, Receive(r)
      PROVE  TypeOK'
  <2>1. PICK q \in Request : /\ req' = [req EXCEPT ![r] = q]
                             /\ pc' = [pc EXCEPT ![r] = FirstStep(q.op)]
    BY <1>1 DEF Receive
  <2>2. /\ FirstStep(q.op) \in {"write", "read", "lookup"}
        /\ FirstStep(q.op) = "lookup" => q.op = "delete"
    BY DEF FirstStep, Request
  <2>3. QED
    BY <1>1, <2>1, <2>2 DEF Receive, PCs
<1>2. ASSUME NEW r \in Requests, Read(r)
      PROVE  TypeOK'
  <2>1. UNCHANGED <<mapVars, spoiled, req, deleteVars, overlapped>>
    BY <1>2 DEF Read
  <2>2. /\ pc' \in [Requests -> PCs]
        /\ reply' \in [Requests -> {0, 200, 201, 400, 404, 500}]
        /\ pc[r] = "read" /\ pc'[r] \in {"write", "done"}
        /\ \A s \in Requests \ {r} : pc'[s] = pc[s]
    BY <1>2 DEF Read, PCs
  <2>3. QED
    BY <2>1, <2>2
<1>3. ASSUME NEW r \in Requests, Create(r)
      PROVE  TypeOK'
  <2>1. PICK d \in Dirs : /\ ~Exists(d)
                          /\ now' = now + 1
                          /\ born' = [born EXCEPT ![d] = now + 1]
                          /\ parent' = [parent EXCEPT ![d] = req[r].dir]
    BY <1>3 DEF Create
  <2>2. req[r].dir \in Dirs \cup {NoDir}
    BY <1>3 DEF Create, Request
  <2>3. /\ now' \in Nat
        /\ born' \in [Dirs -> 0 .. now']
        /\ parent' \in [Dirs -> Dirs \cup {NoDir}]
        /\ \A x \in Dirs : born[x] > 0 => born'[x] > 0
    BY <2>1, <2>2
  <2>4. QED
    BY <1>3, <2>3 DEF Create, PCs
<1>4. ASSUME NEW r \in Requests, UpdateDirectory(r)
      PROVE  TypeOK'
  BY <1>4 DEF UpdateDirectory, Asks, PCs
<1>5. ASSUME NEW r \in Requests, LookUp(r)
      PROVE  TypeOK'
  BY <1>5 DEF LookUp, PCs
<1>6. ASSUME NEW r \in Requests, BeginScan(r)
      PROVE  TypeOK'
  <2>1. CASE spoiled
    BY <1>6, <2>1 DEF BeginScan, PCs
  <2>2. CASE ~spoiled
    <3>1. /\ { d \in Dirs : Live(d) } \in SUBSET Dirs
          /\ scope' = [scope EXCEPT ![r] = { d \in Dirs : Live(d) }]
          /\ pc' = [pc EXCEPT ![r] = "scanning"] /\ UNCHANGED reply
          /\ UNCHANGED <<mapVars, spoiled, req, todo, hand, took, meant, overlapped>>
      BY <1>6, <2>2 DEF BeginScan
    <3>2. scope' \in [Requests -> SUBSET Dirs]
      BY <3>1
    <3>3. /\ pc[r] = "scan" /\ "scanning" \in PCs
      BY <1>6 DEF BeginScan, PCs
    <3>4. QED
      BY <3>1, <3>2, <3>3
  <2>3. QED
    BY <2>1, <2>2
<1>7. ASSUME NEW r \in Requests, EndScan(r)
      PROVE  TypeOK'
  <2>1. PICK seen \in SUBSET scope[r] :
            todo' = [todo EXCEPT ![r] = Page(Children(req[r].dir, seen))]
    BY <1>7 DEF EndScan
  <2>2. req[r].dir \in Dirs
    BY <1>7 DEF EndScan, Request
  <2>3. Page(Children(req[r].dir, seen)) \subseteq Dirs
    BY <2>2, BelowIsClosed DEF Page, Children
  <2>4. Below(parent, req[r].dir, (scope[r] \ dead) \cup {req[r].dir}) \subseteq Dirs
    BY <2>2, BelowIsClosed
  <2>5. /\ todo' \in [Requests -> SUBSET Dirs]
        /\ took' \in [Requests -> SUBSET Dirs]
        /\ meant' \in [Requests -> SUBSET Dirs]
        /\ dead' \subseteq Dirs
    <3>1. /\ meant' = [meant EXCEPT ![r] =
                  Below(parent, req[r].dir, (scope[r] \ dead) \cup {req[r].dir}) \ {req[r].dir}]
          /\ took' = [took EXCEPT ![r] = {req[r].dir}]
          /\ dead' = dead \cup {req[r].dir}
      BY <1>7 DEF EndScan
    <3>2. todo' \in [Requests -> SUBSET Dirs]
      BY <2>1, <2>3
    <3>3. meant' \in [Requests -> SUBSET Dirs]
      <4> DEFINE stood == Below(parent, req[r].dir, (scope[r] \ dead) \cup {req[r].dir}) \ {req[r].dir}
      <4>1. stood \subseteq Dirs /\ meant' = [meant EXCEPT ![r] = stood]
        BY <2>4, <3>1
      <4> HIDE DEF stood
      <4>2. QED
        BY <4>1
    <3>4. took' \in [Requests -> SUBSET Dirs] /\ dead' \subseteq Dirs
      <4> DEFINE target == req[r].dir
      <4>1. /\ target \in Dirs
            /\ took' = [took EXCEPT ![r] = {target}]
            /\ dead' = dead \cup {target}
        BY <2>2, <3>1
      <4> HIDE DEF target
      <4>2. QED
        BY <4>1
    <3>5. QED
      BY <3>2, <3>3, <3>4
  <2>6. /\ pc' \in [Requests -> PCs]
        /\ reply' \in [Requests -> {0, 200, 201, 400, 404, 500}]
        /\ pc'[r] \in {"next", "done"}
        /\ \A s \in Requests \ {r} : pc'[s] = pc[s] /\ todo'[s] = todo[s]
    BY <1>7, <2>1 DEF EndScan, PCs
  <2>7. UNCHANGED <<parent, born, now, spoiled, req, scope, hand, overlapped>>
    BY <1>7 DEF EndScan
  <2>8. \A s \in Requests :
            /\ pc'[s] # "idle" => req'[s] \in Request
            /\ pc'[s] \in {"lookup", "scan", "scanning", "next", "mark"} => req'[s].op = "delete"
            /\ pc'[s] = "mark" => hand'[s] \in todo'[s]
    BY <1>7, <2>6, <2>7 DEF EndScan
  <2>9. QED
    BY <2>5, <2>6, <2>7, <2>8
<1>8. ASSUME NEW r \in Requests, NextChild(r)
      PROVE  TypeOK'
  <2>1. UNCHANGED <<mapVars, spoiled, req, scope, todo, took, meant, overlapped>>
    BY <1>8 DEF NextChild
  <2>2. /\ pc' \in [Requests -> PCs]
        /\ reply' \in [Requests -> {0, 200, 201, 400, 404, 500}]
        /\ pc[r] = "next" /\ pc'[r] \in {"mark", "done"}
        /\ \A s \in Requests \ {r} : pc'[s] = pc[s]
    BY <1>8 DEF NextChild, PCs
  <2>3. /\ hand' \in [Requests -> Dirs \cup {NoDir}]
        /\ pc'[r] = "mark" => hand'[r] \in todo[r]
        /\ \A s \in Requests \ {r} : hand'[s] = hand[s]
    BY <1>8 DEF NextChild, Oldest
  <2>4. QED
    BY <2>1, <2>2, <2>3
<1>9. ASSUME NEW r \in Requests, MarkChild(r)
      PROVE  TypeOK'
  <2>1. hand[r] \in Dirs
    BY <1>9 DEF MarkChild
  <2>2. /\ todo' \in [Requests -> SUBSET Dirs]
        /\ took' \in [Requests -> SUBSET Dirs]
        /\ dead' \subseteq Dirs
    BY <1>9, <2>1 DEF MarkChild
  <2>3. /\ pc' \in [Requests -> PCs]
        /\ reply' \in [Requests -> {0, 200, 201, 400, 404, 500}]
        /\ pc'[r] \in {"next", "done"}
        /\ \A s \in Requests \ {r} : pc'[s] = pc[s] /\ todo'[s] = todo[s]
    BY <1>9 DEF MarkChild, PCs
  <2>4. UNCHANGED <<parent, born, now, spoiled, req, scope, hand, meant, overlapped>>
    BY <1>9 DEF MarkChild
  <2>5. \A s \in Requests :
            /\ pc'[s] # "idle" => req'[s] \in Request
            /\ pc'[s] \in {"lookup", "scan", "scanning", "next", "mark"} => req'[s].op = "delete"
            /\ pc'[s] = "mark" => hand'[s] \in todo'[s]
    BY <1>9, <2>3, <2>4 DEF MarkChild
  <2>6. QED
    BY <2>2, <2>3, <2>4, <2>5
<1>10. CASE Spoil
  BY <1>10 DEF Spoil
<1>11. CASE UNCHANGED vars
  BY <1>11 DEF vars
<1>12. QED
  BY <1>1, <1>2, <1>3, <1>4, <1>5, <1>6, <1>7, <1>8, <1>9, <1>10, <1>11 DEF Next, Handle

THEOREM TypeCorrect == Spec => []TypeOK
<1>1. QED
  BY MemoryAssumption, TypeInit, TypeStep, PTL DEF Spec

----------------------------------------------------------------------------
(* No step takes a deletion back.                                          *)
THEOREM DeletedStaysDeleted == Spec => DeletionsStand
<1>1. [Next]_vars => [dead \subseteq dead']_dead
  <2> SUFFICES ASSUME Next
               PROVE  dead \subseteq dead' \/ UNCHANGED dead
    BY DEF vars, mapVars
  <2>1. ASSUME NEW r \in Requests, EndScan(r)
        PROVE  dead \subseteq dead'
    BY <2>1 DEF EndScan
  <2>2. ASSUME NEW r \in Requests, MarkChild(r)
        PROVE  dead \subseteq dead'
    BY <2>2 DEF MarkChild
  <2>3. QED
    BY <2>1, <2>2 DEF Next, Handle, mapVars, Receive, Read, Create, UpdateDirectory, LookUp,
       BeginScan, NextChild, Spoil
<1>2. QED
  BY <1>1, PTL DEF Spec, DeletionsStand

----------------------------------------------------------------------------
(* What a deletion is about to mark was asked for as well: it stands in    *)
(* the map below the directory that the request names, which is no root.   *)
AskedFor(x, r) ==
    /\ x \in Rows
    /\ parent[x] # NoDir
    /\ x \in Below(parent, req[r].dir, Rows)

(* A deleted directory is below what some request has asked for.           *)
Claimed(d) ==
    /\ d \in Rows
    /\ parent[d] # NoDir
    /\ \E t \in Targets : d \in Below(parent, t, Rows)

RequestInv(s) ==
    /\ pc[s] # "idle" /\ req[s].dir # NoDir => req[s].dir \in Rows
    /\ Deleting(s) => AskedFor(req[s].dir, s)
    /\ pc[s] = "scanning" => scope[s] \subseteq Rows
    /\ pc[s] \in {"next", "mark"} => \A x \in todo[s] : AskedFor(x, s)

MemInv ==
    /\ TypeOK
    /\ \A s \in Requests : RequestInv(s)
    /\ \A d \in dead : Claimed(d)

(* What was asked for stays so while its request stays.                    *)
LEMMA AskedForStays ==
    ASSUME MemInv, Grows, NEW r \in Requests, NEW x, AskedFor(x, r), req[r].dir \in Rows,
           req'[r].dir = req[r].dir
    PROVE  AskedFor(x, r)'
<1>1. Rows \subseteq Rows' /\ \A y \in Rows : parent'[y] = parent[y]
  BY DEF Rows, Grows
<1>2. Below(parent, req[r].dir, Rows) \subseteq Below(parent', req[r].dir, Rows')
  BY <1>1, BelowGrows
<1>3. QED
  BY <1>1, <1>2 DEF AskedFor

LEMMA MemInit == MemoryAssumption /\ Init => MemInv
<1> SUFFICES ASSUME MemoryAssumption, Init
             PROVE  MemInv
  OBVIOUS
<1>1. TypeOK
  BY TypeInit
<1>2. QED
  BY <1>1 DEF Init, MemInv, RequestInv, Deleting

(* A request that has begun keeps asking for the same.                     *)
LEMMA RequestStays ==
    ASSUME TypeOK, Next, NEW s \in Requests, pc[s] # "idle"
    PROVE  req'[s] = req[s] /\ pc'[s] # "idle"
<1> USE DEF TypeOK, Goto, Answer
<1>1. ASSUME NEW r \in Requests, Receive(r)
      PROVE  req'[s] = req[s] /\ pc'[s] # "idle"
  BY <1>1 DEF Receive
<1>2. ASSUME NEW r \in Requests, Handle(r)
      PROVE  req' = req /\ pc'[s] # "idle"
  BY <1>2 DEF Handle, Read, Create, UpdateDirectory, Asks, LookUp, BeginScan, EndScan,
     NextChild, MarkChild
<1>3. CASE Spoil
  BY <1>3 DEF Spoil
<1>4. QED
  BY <1>1, <1>2, <1>3 DEF Next

(* What was deleted before the step is claimed after it.                   *)
LEMMA ClaimsStay ==
    ASSUME MemInv, Grows, Next, NEW d, Claimed(d)
    PROVE  Claimed(d)'
<1>1. PICK s \in Requests : /\ pc[s] # "idle"
                            /\ req[s].op = "delete"
                            /\ d \in Below(parent, req[s].dir, Rows)
  BY DEF Claimed, Targets
<1>2. TypeOK /\ RequestInv(s)
  BY DEF MemInv
<1>3. req[s].dir \in Rows
  BY <1>1, <1>2 DEF RequestInv, TypeOK, Request
<1>4. req'[s] = req[s] /\ pc'[s] # "idle"
  BY <1>1, <1>2, RequestStays
<1>5. AskedFor(d, s)
  BY <1>1 DEF AskedFor, Claimed
<1>6. AskedFor(d, s)'
  BY <1>3, <1>4, <1>5, AskedForStays
<1>7. req'[s].dir \in Targets'
  BY <1>1, <1>4 DEF Targets
<1>8. QED
  BY <1>4, <1>6, <1>7 DEF AskedFor, Claimed

(* What a deletion marks is claimed after the step.                        *)
LEMMA MarksAreClaimed ==
    ASSUME MemInv, Grows, Next, NEW s \in Requests, Deleting(s), NEW d, AskedFor(d, s)
    PROVE  Claimed(d)'
<1>1. TypeOK
  BY DEF MemInv
<1>2. pc[s] # "idle" /\ req[s].op = "delete"
  BY <1>1 DEF Deleting, TypeOK
<1>3. Claimed(d)
  BY <1>2 DEF Claimed, AskedFor, Targets
<1>4. QED
  BY <1>3, ClaimsStay

(* A request that a step leaves alone keeps its part.                      *)
LEMMA OthersStay ==
    ASSUME MemInv, Grows, NEW s \in Requests,
           req'[s] = req[s], pc'[s] = pc[s], scope'[s] = scope[s], todo'[s] = todo[s]
    PROVE  RequestInv(s)'
<1>1. RequestInv(s)
  BY DEF MemInv
<1>2. Rows \subseteq Rows'
  BY DEF Grows, Rows
<1>3. CASE ~Deleting(s)
  BY <1>1, <1>2, <1>3 DEF RequestInv, Deleting
<1>4. CASE Deleting(s)
  <2>1. req[s].dir \in Rows
    BY <1>1, <1>4 DEF RequestInv, AskedFor
  <2>2. AskedFor(req[s].dir, s)'
    BY <1>1, <1>4, <2>1, AskedForStays DEF RequestInv
  <2>3. pc[s] \in {"next", "mark"} => \A x \in todo[s] : AskedFor(x, s)'
    BY <1>1, <2>1, AskedForStays DEF RequestInv
  <2>4. QED
    BY <1>1, <1>2, <2>1, <2>2, <2>3 DEF RequestInv
<1>5. QED
  BY <1>3, <1>4

LEMMA MemStep == MemoryAssumption /\ MemInv /\ [Next]_vars => MemInv'
<1> SUFFICES ASSUME MemoryAssumption, MemInv, Next
             PROVE  MemInv'
  <2>1. ASSUME UNCHANGED vars, MemInv
        PROVE  MemInv'
    <3>1. UNCHANGED <<mapVars, spoiled, req, pc, deleteVars, reply, overlapped>>
      BY <2>1 DEF vars
    <3>2. TypeOK'
      BY <2>1, <3>1 DEF MemInv, TypeOK, mapVars, deleteVars
    <3>3. Rows' = Rows
      BY <3>1 DEF Rows, Exists, mapVars
    <3>4. (\A s \in Requests : RequestInv(s))'
      BY <2>1, <3>1, <3>3 DEF MemInv, RequestInv, Deleting, AskedFor, mapVars, deleteVars
    <3>5. (\A d \in dead : Claimed(d))'
      BY <2>1, <3>1, <3>3 DEF MemInv, Claimed, Targets, mapVars
    <3>6. QED
      BY <3>2, <3>4, <3>5 DEF MemInv
  <2>2. QED
    BY <2>1
<1>1. TypeOK /\ TypeOK' /\ Grows
  BY TypeStep, MapGrows DEF MemInv
<1>2. \A s \in Requests : RequestInv(s)
  BY DEF MemInv
<1>3. \A d \in dead : Claimed(d)'
  BY <1>1, ClaimsStay DEF MemInv
<1>4. Rows \subseteq Rows'
  BY <1>1 DEF Grows, Rows
<1> SUFFICES (\A s \in Requests : RequestInv(s))' /\ (\A d \in dead : Claimed(d))'
  BY <1>1 DEF MemInv
<1> USE DEF Goto, Answer
<1>5. ASSUME NEW r \in Requests, Receive(r)
      PROVE  (\A s \in Requests : RequestInv(s))' /\ dead' = dead
  <2>1. PICK q \in Request : /\ q.dir # NoDir => Exists(q.dir)
                             /\ req' = [req EXCEPT ![r] = q]
                             /\ pc' = [pc EXCEPT ![r] = FirstStep(q.op)]
    BY <1>5 DEF Receive
  <2>2. /\ req'[r] = q
        /\ pc'[r] \in {"read", "write", "lookup"}
    BY <1>1, <2>1 DEF TypeOK, FirstStep
  <2>3. req'[r].dir # NoDir => req'[r].dir \in Rows'
    BY <1>4, <2>1, <2>2 DEF Rows, Request
  <2>4. RequestInv(r)'
    BY <2>2, <2>3 DEF RequestInv, Deleting
  <2>5. \A s \in Requests \ {r} : RequestInv(s)'
    BY <1>1, <1>5, <2>1, OthersStay DEF TypeOK, Receive, deleteVars
  <2>6. QED
    BY <1>5, <2>4, <2>5 DEF Receive, mapVars
<1>6. ASSUME NEW r \in Requests, Read(r) \/ Create(r) \/ UpdateDirectory(r)
      PROVE  (\A s \in Requests : RequestInv(s))' /\ dead' = dead
  <2>1. /\ pc[r] # "idle" /\ pc'[r] \in {"write", "done"}
        /\ UNCHANGED <<req, scope, todo, dead>>
        /\ \A s \in Requests \ {r} : pc'[s] = pc[s]
    BY <1>1, <1>6 DEF TypeOK, Read, Create, UpdateDirectory, Asks, mapVars, deleteVars
  <2>2. RequestInv(r)'
    BY <1>2, <1>4, <2>1 DEF RequestInv, Deleting
  <2>3. \A s \in Requests \ {r} : RequestInv(s)'
    BY <1>1, <2>1, OthersStay
  <2>4. QED
    BY <2>1, <2>2, <2>3
<1>7. ASSUME NEW r \in Requests, LookUp(r)
      PROVE  (\A s \in Requests : RequestInv(s))' /\ dead' = dead
  <2>1. /\ pc[r] = "lookup" /\ pc'[r] \in {"scan", "done"}
        /\ UNCHANGED <<parent, born, req, scope, todo, dead>>
        /\ pc'[r] = "scan" => Live(req[r].dir) /\ parent[req[r].dir] # NoDir
        /\ \A s \in Requests \ {r} : pc'[s] = pc[s]
    BY <1>1, <1>7 DEF TypeOK, LookUp, mapVars, deleteVars
  <2>2. pc'[r] = "scan" => AskedFor(req[r].dir, r)
    <3>1. req[r].dir \in Dirs
      BY <1>1, <2>1 DEF TypeOK, Request
    <3>2. QED
      BY <2>1, <3>1, BelowIsClosed DEF AskedFor, Rows, Live
  <2>3. pc'[r] = "scan" => AskedFor(req[r].dir, r)'
    BY <2>1, <2>2 DEF AskedFor, Rows, Exists
  <2>4. RequestInv(r)'
    BY <1>2, <1>4, <2>1, <2>3 DEF RequestInv, Deleting
  <2>5. \A s \in Requests \ {r} : RequestInv(s)'
    BY <1>1, <2>1, OthersStay
  <2>6. QED
    BY <2>1, <2>4, <2>5
<1>8. ASSUME NEW r \in Requests, BeginScan(r)
      PROVE  (\A s \in Requests : RequestInv(s))' /\ dead' = dead
  <2>1. /\ pc[r] = "scan" /\ pc'[r] \in {"scanning", "done"}
        /\ UNCHANGED <<parent, born, req, todo, dead>>
        /\ pc'[r] = "scanning" => scope'[r] \subseteq Rows
        /\ \A s \in Requests \ {r} : pc'[s] = pc[s] /\ scope'[s] = scope[s]
    BY <1>1, <1>8 DEF TypeOK, BeginScan, mapVars, Rows, Live
  <2>2. AskedFor(req[r].dir, r)'
    BY <1>2, <2>1 DEF RequestInv, Deleting, AskedFor, Rows, Exists
  <2>3. RequestInv(r)'
    BY <1>2, <1>4, <2>1, <2>2 DEF RequestInv, Deleting
  <2>4. \A s \in Requests \ {r} : RequestInv(s)'
    BY <1>1, <2>1, OthersStay
  <2>5. QED
    BY <2>1, <2>3, <2>4
<1>9. ASSUME NEW r \in Requests, EndScan(r)
      PROVE  (\A s \in Requests : RequestInv(s))' /\ \A d \in dead' \ dead : Claimed(d)'
  <2> DEFINE target == req[r].dir
  <2>1. PICK seen \in SUBSET scope[r] :
            todo' = [todo EXCEPT ![r] = Page(Children(target, seen))]
    BY <1>9 DEF EndScan
  <2>2. /\ pc[r] = "scanning" /\ pc'[r] \in {"next", "done"}
        /\ UNCHANGED <<parent, born, req, scope>>
        /\ dead' = dead \cup {target}
        /\ \A s \in Requests \ {r} : pc'[s] = pc[s] /\ todo'[s] = todo[s]
    BY <1>1, <1>9, <2>1 DEF TypeOK, EndScan
  <2>3. AskedFor(target, r)
    BY <1>2, <2>2 DEF RequestInv, Deleting
  <2>4. todo'[r] \subseteq Children(target, seen)
    BY <1>1, <2>1 DEF TypeOK, Page
  <2>5. \A x \in todo'[r] : AskedFor(x, r)
    <3>1. target \in Rows /\ seen \in SUBSET Rows
      BY <1>2, <2>2, <2>3 DEF RequestInv, AskedFor
    <3>2. QED
      BY <2>4, <3>1, ChildrenAreBelow DEF AskedFor
  <2>6. AskedFor(target, r)' /\ \A x \in todo'[r] : AskedFor(x, r)'
    BY <2>2, <2>3, <2>5 DEF AskedFor, Rows, Exists
  <2>7. RequestInv(r)'
    BY <1>2, <1>4, <2>2, <2>6 DEF RequestInv, Deleting
  <2>8. \A s \in Requests \ {r} : RequestInv(s)'
    BY <1>1, <2>2, OthersStay
  <2>9. Claimed(target)'
    BY <1>1, <2>2, <2>3, MarksAreClaimed DEF Deleting
  <2>10. QED
    BY <2>2, <2>7, <2>8, <2>9
<1>10. ASSUME NEW r \in Requests, NextChild(r)
       PROVE  (\A s \in Requests : RequestInv(s))' /\ dead' = dead
  <2>1. /\ pc[r] = "next" /\ pc'[r] \in {"mark", "done"}
        /\ UNCHANGED <<parent, born, req, scope, todo, dead>>
        /\ \A s \in Requests \ {r} : pc'[s] = pc[s]
    BY <1>1, <1>10 DEF TypeOK, NextChild, mapVars
  <2>a. AskedFor(req[r].dir, r) /\ \A x \in todo[r] : AskedFor(x, r)
    BY <1>2, <2>1 DEF RequestInv, Deleting
  <2>b. \A x : AskedFor(x, r) => AskedFor(x, r)'
    BY <2>1 DEF AskedFor, Rows, Exists
  <2>2. AskedFor(req[r].dir, r)' /\ \A x \in todo'[r] : AskedFor(x, r)'
    BY <2>1, <2>a, <2>b
  <2>3. RequestInv(r)'
    BY <1>2, <1>4, <2>1, <2>2 DEF RequestInv, Deleting
  <2>4. \A s \in Requests \ {r} : RequestInv(s)'
    BY <1>1, <2>1, OthersStay
  <2>5. QED
    BY <2>1, <2>3, <2>4
<1>11. ASSUME NEW r \in Requests, MarkChild(r)
       PROVE  (\A s \in Requests : RequestInv(s))' /\ \A d \in dead' \ dead : Claimed(d)'
  <2>1. /\ pc[r] = "mark" /\ pc'[r] \in {"next", "done"}
        /\ UNCHANGED <<parent, born, req, scope>>
        /\ dead' = dead \cup {hand[r]}
        /\ hand[r] \in todo[r] /\ todo'[r] \subseteq todo[r]
        /\ \A s \in Requests \ {r} : pc'[s] = pc[s] /\ todo'[s] = todo[s]
    BY <1>1, <1>11 DEF TypeOK, MarkChild
  <2>2. AskedFor(req[r].dir, r)' /\ \A x \in todo'[r] : AskedFor(x, r)'
    BY <1>2, <2>1 DEF RequestInv, Deleting, AskedFor, Rows, Exists
  <2>3. RequestInv(r)'
    BY <1>2, <1>4, <2>1, <2>2 DEF RequestInv, Deleting
  <2>4. \A s \in Requests \ {r} : RequestInv(s)'
    BY <1>1, <2>1, OthersStay
  <2>5. AskedFor(hand[r], r)
    BY <1>2, <2>1 DEF RequestInv
  <2>6. \A d \in dead' \ dead : Claimed(d)'
    <3>1. SUFFICES ASSUME NEW d \in dead' \ dead
                   PROVE  Claimed(d)'
      OBVIOUS
    <3>2. AskedFor(d, r)
      BY <2>1, <2>5, <3>1
    <3>3. Deleting(r)
      BY <2>1 DEF Deleting
    <3>4. QED
      BY <1>1, <3>2, <3>3, MarksAreClaimed
  <2>7. QED
    BY <2>3, <2>4, <2>6
<1>12. ASSUME Spoil
       PROVE  (\A s \in Requests : RequestInv(s))' /\ dead' = dead
  BY <1>1, <1>12, OthersStay DEF Spoil, mapVars, deleteVars
<1>13. QED
  BY <1>3, <1>5, <1>6, <1>7, <1>8, <1>9, <1>10, <1>11, <1>12 DEF Next, Handle

THEOREM OnlyAskedForIsDeleted == Spec => []OnlyWhatWasAskedFor
<1>1. MemInv => OnlyWhatWasAskedFor
  BY DEF MemInv, Claimed, OnlyWhatWasAskedFor, Rows
<1>2. QED
  BY MemoryAssumption, MemInit, MemStep, <1>1, PTL DEF Spec

----------------------------------------------------------------------------
(* A deletion takes nothing before it has listed its children, and nothing *)
(* that is still on its list: what it finds deleted was taken by another.  *)
Taker(s) ==
    /\ pc[s] # "done" => reply[s] = 0
    /\ pc[s] \notin {"next", "mark", "done"} => took[s] = {}
    /\ took[s] \cap todo[s] = {}

TakenBySomebody == \A x \in dead : \E s \in Requests : x \in took[s]

RivalInv == TakenBySomebody /\ (\A s \in Requests : Taker(s)) /\ HalfDeletionsHaveARival

LEMMA RivalInit == Init => RivalInv
  BY DEF Init, RivalInv, TakenBySomebody, Taker, HalfDeletionsHaveARival

(* What r's step leaves true of the others, when it takes back nothing.    *)
LEMMA RivalsStay ==
    ASSUME RivalInv, NEW r \in Requests, took[r] \subseteq took'[r],
           \A s \in Requests \ {r} : /\ pc'[s] = pc[s] /\ reply'[s] = reply[s]
                                     /\ took'[s] = took[s] /\ todo'[s] = todo[s],
           \A x \in dead' \ dead : x \in took'[r],
           Taker(r)',
           (reply'[r] \in {400, 404, 500} /\ took'[r] # {}) =>
                \E s \in Requests \ {r} : took'[s] \cap todo'[r] # {}
    PROVE  RivalInv'
<1>1. TakenBySomebody'
  BY DEF RivalInv, TakenBySomebody
<1>2. \A s \in Requests : Taker(s)'
  BY DEF RivalInv, Taker
<1>3. \A s \in Requests : took[s] \subseteq took'[s]
  OBVIOUS
<1>4. ASSUME NEW q \in Requests \ {r}, reply'[q] \in {400, 404, 500}, took'[q] # {}
      PROVE  \E s \in Requests \ {q} : took'[s] \cap todo'[q] # {}
  <2>1. PICK s \in Requests \ {q} : took[s] \cap todo[q] # {}
    BY <1>4 DEF RivalInv, HalfDeletionsHaveARival
  <2>2. QED
    BY <1>3, <1>4, <2>1
<1>5. HalfDeletionsHaveARival'
  BY <1>4 DEF HalfDeletionsHaveARival
<1>6. QED
  BY <1>1, <1>2, <1>5 DEF RivalInv

LEMMA RivalStep == TypeOK /\ RivalInv /\ [Next]_vars => RivalInv'
<1> SUFFICES ASSUME TypeOK, RivalInv, [Next]_vars
             PROVE  RivalInv'
  OBVIOUS
<1>0. \A s \in Requests : Taker(s)
  BY DEF RivalInv
<1> USE DEF Goto, Answer
<1>1. ASSUME NEW r \in Requests,
             \/ Receive(r) \/ Read(r) \/ Create(r) \/ UpdateDirectory(r) \/ LookUp(r) \/ BeginScan(r)
      PROVE  RivalInv'
  <2>1. /\ pc[r] \notin {"next", "mark", "done"} /\ UNCHANGED <<dead, todo, took>>
        /\ pc'[r] # "done" => reply'[r] = reply[r]
        /\ \A s \in Requests \ {r} : pc'[s] = pc[s] /\ reply'[s] = reply[s]
    BY <1>1 DEF TypeOK, Receive, Read, Create, UpdateDirectory, Asks, LookUp, BeginScan,
                mapVars, deleteVars
  <2>2. took[r] = {} /\ reply[r] = 0
    BY <1>0, <2>1 DEF Taker
  <2>3. Taker(r)'
    BY <2>1, <2>2 DEF Taker
  <2>4. QED
    BY <2>1, <2>2, <2>3, RivalsStay
<1>2. ASSUME NEW r \in Requests, EndScan(r)
      PROVE  RivalInv'
  <2>1. PICK seen \in SUBSET scope[r] :
            todo' = [todo EXCEPT ![r] = Page(Children(req[r].dir, seen))]
    BY <1>2 DEF EndScan
  <2>2. /\ pc[r] = "scanning" /\ pc'[r] \in {"next", "done"}
        /\ took'[r] = {req[r].dir} /\ dead' = dead \cup {req[r].dir}
        /\ IF pc'[r] = "done" THEN reply'[r] = 200 ELSE reply'[r] = reply[r]
        /\ \A s \in Requests \ {r} : /\ pc'[s] = pc[s] /\ reply'[s] = reply[s]
                                      /\ took'[s] = took[s] /\ todo'[s] = todo[s]
    BY <1>2, <2>1 DEF TypeOK, EndScan
  <2>3. req[r].dir \notin todo'[r]
    BY <2>1 DEF TypeOK, Page, Children
  <2>4. took[r] = {} /\ reply[r] = 0
    BY <1>0, <2>2 DEF Taker
  <2>5. Taker(r)' /\ reply'[r] \notin {400, 404, 500}
    BY <2>2, <2>3, <2>4 DEF Taker
  <2>6. QED
    BY <2>2, <2>4, <2>5, RivalsStay
<1>3. ASSUME NEW r \in Requests, NextChild(r)
      PROVE  RivalInv'
  <2>1. PICK x \in todo[r] :
            IF x \in dead THEN pc'[r] = "done" /\ reply'[r] = 404
                          ELSE pc'[r] = "mark" /\ reply'[r] = reply[r]
    BY <1>3 DEF TypeOK, NextChild, Oldest
  <2>2. /\ pc[r] = "next" /\ UNCHANGED <<dead, todo, took>>
        /\ \A s \in Requests \ {r} : pc'[s] = pc[s] /\ reply'[s] = reply[s]
    BY <1>3 DEF TypeOK, NextChild, mapVars
  <2>3. reply[r] = 0 /\ took[r] \cap todo[r] = {}
    BY <1>0, <2>2 DEF Taker
  <2>4. Taker(r)'
    BY <2>1, <2>2, <2>3 DEF Taker
  <2>5. x \in dead => \E s \in Requests \ {r} : took'[s] \cap todo'[r] # {}
    BY <2>1, <2>2, <2>3 DEF RivalInv, TakenBySomebody
  <2>6. QED
    BY <2>1, <2>2, <2>3, <2>4, <2>5, RivalsStay
<1>4. ASSUME NEW r \in Requests, MarkChild(r)
      PROVE  RivalInv'
  <2>1. /\ pc[r] = "mark" /\ pc'[r] \in {"next", "done"}
        /\ took'[r] = took[r] \cup {hand[r]} /\ todo'[r] = todo[r] \ {hand[r]}
        /\ dead' = dead \cup {hand[r]}
        /\ IF pc'[r] = "done" THEN reply'[r] = 200 ELSE reply'[r] = reply[r]
        /\ \A s \in Requests \ {r} : /\ pc'[s] = pc[s] /\ reply'[s] = reply[s]
                                      /\ took'[s] = took[s] /\ todo'[s] = todo[s]
    BY <1>4 DEF TypeOK, MarkChild
  <2>2. reply[r] = 0 /\ took[r] \cap todo[r] = {}
    BY <1>0, <2>1 DEF Taker
  <2>3. Taker(r)' /\ reply'[r] \notin {400, 404, 500}
    BY <2>1, <2>2 DEF Taker
  <2>4. QED
    BY <2>1, <2>3, RivalsStay
<1>5. CASE UNCHANGED <<dead, pc, reply, took, todo>>
  BY <1>5 DEF RivalInv, TakenBySomebody, Taker, HalfDeletionsHaveARival
<1>6. QED
  BY <1>1, <1>2, <1>3, <1>4, <1>5 DEF Next, Handle, Spoil, vars, mapVars, deleteVars

(* A deletion fails half way only when another one took a directory that   *)
(* it had still to mark.                                                   *)
THEOREM HalfWayMeansARival == Spec => []HalfDeletionsHaveARival
<1>1. RivalInv => HalfDeletionsHaveARival
  BY DEF RivalInv
<1>2. QED
  BY <1>1, RivalInit, RivalStep, TypeCorrect, PTL DEF Spec

----------------------------------------------------------------------------
(* As long as no two deletions were under way at once, there is one that   *)
(* deletes at most, it is the only one with a list, and nothing it has yet *)
(* to delete is deleted.                                                   *)
LoneRequest(s) ==
    /\ pc[s] \notin {"next", "mark"} => todo[s] = {}
    /\ todo[s] \cap dead = {}
    /\ pc[s] \in {"scan", "scanning"} => req[s].dir \notin dead
    /\ pc[s] = "scanning" => scope[s] \cap dead = {}

LoneInv ==
    ~overlapped => /\ \A q, s \in Requests : Deleting(q) /\ Deleting(s) => q = s
                   /\ \A s \in Requests : LoneRequest(s)

LEMMA LoneInit == Init => LoneInv
  BY DEF Init, LoneInv, LoneRequest, Deleting

LEMMA LoneStep == TypeOK /\ LoneInv /\ [Next]_vars => LoneInv'
<1> SUFFICES ASSUME TypeOK, LoneInv, [Next]_vars, ~overlapped'
             PROVE  /\ \A q, s \in Requests : Deleting(q)' /\ Deleting(s)' => q = s
                    /\ \A s \in Requests : LoneRequest(s)'
  BY DEF LoneInv
<1>0. ~overlapped
  BY DEF Next, Handle, Receive, Read, Create, UpdateDirectory, LookUp, BeginScan, EndScan,
         NextChild, MarkChild, Spoil, vars
<1>a. /\ \A q, s \in Requests : Deleting(q) /\ Deleting(s) => q = s
      /\ \A s \in Requests : LoneRequest(s)
  BY <1>0 DEF LoneInv
<1> USE DEF Goto, Answer
<1>1. ASSUME NEW r \in Requests,
             \A s \in Requests \ {r} : /\ pc'[s] = pc[s] /\ req'[s] = req[s]
                                       /\ scope'[s] = scope[s] /\ todo'[s] = todo[s],
             Deleting(r)' => Deleting(r) \/ \A s \in Requests : ~Deleting(s),
             dead' = dead \/ Deleting(r),
             LoneRequest(r)'
      PROVE  /\ \A q, s \in Requests : Deleting(q)' /\ Deleting(s)' => q = s
             /\ \A s \in Requests : LoneRequest(s)'
  <2>1. \A s \in Requests \ {r} : Deleting(s)' <=> Deleting(s)
    BY <1>1 DEF Deleting
  <2>2. \A q, s \in Requests : Deleting(q)' /\ Deleting(s)' => q = s
    BY <1>a, <1>1, <2>1
  <2>3. ASSUME NEW s \in Requests \ {r}
        PROVE  LoneRequest(s)'
    <3>1. CASE dead' = dead
      BY <1>a, <1>1, <3>1 DEF LoneRequest
    <3>2. CASE Deleting(r)
      <4>1. ~Deleting(s)
        BY <1>a, <3>2
      <4>2. QED
        BY <1>a, <1>1, <4>1 DEF LoneRequest, Deleting
    <3>3. QED
      BY <1>1, <3>1, <3>2
  <2>4. QED
    BY <1>1, <2>2, <2>3
<1>2. ASSUME NEW r \in Requests, Receive(r) \/ Read(r) \/ Create(r) \/ UpdateDirectory(r)
      PROVE  /\ \A q, s \in Requests : Deleting(q)' /\ Deleting(s)' => q = s
             /\ \A s \in Requests : LoneRequest(s)'
  <2>1. /\ pc[r] \in {"idle", "read", "write"} /\ pc'[r] \in {"read", "write", "lookup", "done"}
        /\ UNCHANGED <<dead, scope, todo>>
        /\ \A s \in Requests \ {r} : pc'[s] = pc[s] /\ req'[s] = req[s]
    BY <1>2 DEF TypeOK, Receive, FirstStep, Read, Create, UpdateDirectory, Asks, mapVars, deleteVars
  <2>2. LoneRequest(r)' /\ ~Deleting(r)'
    BY <1>a, <2>1 DEF LoneRequest, Deleting
  <2>3. QED
    BY <1>1, <2>1, <2>2
<1>3. ASSUME NEW r \in Requests, LookUp(r)
      PROVE  /\ \A q, s \in Requests : Deleting(q)' /\ Deleting(s)' => q = s
             /\ \A s \in Requests : LoneRequest(s)'
  <2>1. /\ pc[r] = "lookup" /\ pc'[r] \in {"scan", "done"}
        /\ UNCHANGED <<dead, req, scope, todo>>
        /\ pc'[r] = "scan" => req[r].dir \notin dead
        /\ \A s \in Requests \ {r} : pc'[s] = pc[s]
    BY <1>3 DEF TypeOK, LookUp, Live, mapVars, deleteVars
  <2>2. \A s \in Requests : ~Deleting(s)
    BY <1>3, Zenon DEF LookUp
  <2>3. LoneRequest(r)'
    BY <1>a, <2>1 DEF LoneRequest
  <2>4. QED
    BY <1>1, <2>1, <2>2, <2>3
<1>4. ASSUME NEW r \in Requests, BeginScan(r)
      PROVE  /\ \A q, s \in Requests : Deleting(q)' /\ Deleting(s)' => q = s
             /\ \A s \in Requests : LoneRequest(s)'
  <2>1. /\ pc[r] = "scan" /\ pc'[r] \in {"scanning", "done"}
        /\ UNCHANGED <<dead, req, todo>>
        /\ pc'[r] = "scanning" => scope'[r] = { d \in Dirs : Live(d) }
        /\ \A s \in Requests \ {r} : pc'[s] = pc[s] /\ scope'[s] = scope[s]
    BY <1>4 DEF TypeOK, BeginScan, mapVars
  <2>2. LoneRequest(r)' /\ Deleting(r)
    BY <1>a, <2>1 DEF LoneRequest, Live, Deleting
  <2>3. QED
    BY <1>1, <2>1, <2>2
<1>5. ASSUME NEW r \in Requests, EndScan(r)
      PROVE  /\ \A q, s \in Requests : Deleting(q)' /\ Deleting(s)' => q = s
             /\ \A s \in Requests : LoneRequest(s)'
  <2>1. PICK seen \in SUBSET scope[r] :
            todo' = [todo EXCEPT ![r] = Page(Children(req[r].dir, seen))]
    BY <1>5 DEF EndScan
  <2>2. /\ pc[r] = "scanning" /\ pc'[r] = IF todo'[r] = {} THEN "done" ELSE "next"
        /\ UNCHANGED <<req, scope>> /\ dead' = dead \cup {req[r].dir}
        /\ \A s \in Requests \ {r} : pc'[s] = pc[s] /\ todo'[s] = todo[s]
    BY <1>5, <2>1 DEF TypeOK, EndScan
  <2>3. todo'[r] \subseteq scope[r] \ {req[r].dir}
    <3>1. Page(Children(req[r].dir, seen)) \subseteq scope[r] \ {req[r].dir}
      BY BelowIsClosed DEF Page, Children
    <3>2. QED
      BY <2>1, <3>1 DEF TypeOK
  <2>4. LoneRequest(r)' /\ Deleting(r)
    BY <1>a, <2>2, <2>3 DEF LoneRequest, Deleting
  <2>5. QED
    BY <1>1, <2>2, <2>4
<1>6. ASSUME NEW r \in Requests, NextChild(r)
      PROVE  /\ \A q, s \in Requests : Deleting(q)' /\ Deleting(s)' => q = s
             /\ \A s \in Requests : LoneRequest(s)'
  <2>1. PICK x \in todo[r] : pc'[r] = IF x \in dead THEN "done" ELSE "mark"
    BY <1>6 DEF TypeOK, NextChild, Oldest
  <2>2. /\ pc[r] = "next" /\ UNCHANGED <<dead, req, scope, todo>>
        /\ \A s \in Requests \ {r} : pc'[s] = pc[s]
    BY <1>6 DEF TypeOK, NextChild, mapVars
  <2>3. LoneRequest(r)' /\ Deleting(r)
    BY <1>a, <2>1, <2>2 DEF LoneRequest, Deleting
  <2>4. QED
    BY <1>1, <2>2, <2>3
<1>7. ASSUME NEW r \in Requests, MarkChild(r)
      PROVE  /\ \A q, s \in Requests : Deleting(q)' /\ Deleting(s)' => q = s
             /\ \A s \in Requests : LoneRequest(s)'
  <2>1. /\ pc[r] = "mark" /\ pc'[r] = IF todo[r] = {hand[r]} THEN "done" ELSE "next"
        /\ UNCHANGED <<req, scope>>
        /\ dead' = dead \cup {hand[r]} /\ todo'[r] = todo[r] \ {hand[r]}
        /\ \A s \in Requests \ {r} : pc'[s] = pc[s] /\ todo'[s] = todo[s]
    BY <1>7 DEF TypeOK, MarkChild
  <2>2. LoneRequest(r)' /\ Deleting(r)
    BY <1>a, <2>1 DEF LoneRequest, Deleting
  <2>3. QED
    BY <1>1, <2>1, <2>2
<1>8. CASE UNCHANGED <<dead, pc, req, scope, todo>>
  BY <1>a, <1>8 DEF LoneRequest, Deleting
<1>9. QED
  BY <1>2, <1>3, <1>4, <1>5, <1>6, <1>7, <1>8 DEF Next, Handle, Spoil, vars, mapVars, deleteVars

(* A page holds all of a set that fits.                                    *)
LEMMA PageOfWhatFits ==
    ASSUME TypeOK, NEW S \in SUBSET Dirs, IsFiniteSet(S), Cardinality(S) <= PageSize, PageSize \in Nat
    PROVE  Page(S) = S
<1> SUFFICES ASSUME NEW x \in S
             PROVE  Cardinality(Older(x, S)) < PageSize
  BY DEF Page
<1>1. x \notin Older(x, S)
  BY DEF TypeOK, Older
<1>2. PICK O \in SUBSET S : O = Older(x, S)
  BY DEF Older
<1>3. /\ Cardinality(O) \in Nat /\ Cardinality(S) \in Nat
      /\ Cardinality(O) <= Cardinality(S) /\ Cardinality(O) # Cardinality(S)
  BY <1>1, <1>2, FS_Subset, FS_CardinalityType
<1>4. QED
  BY <1>2, <1>3

(* What a deletion will have taken stays as it is while others take steps: *)
(* the rows it has seen keep their age and their parent.                   *)
LEMMA DoomedStays ==
    ASSUME MemInv, NEW s \in Requests,
           pc'[s] = pc[s], req'[s] = req[s], scope'[s] = scope[s], todo'[s] = todo[s],
           \A x \in Rows : born'[x] = born[x] /\ parent'[x] = parent[x]
    PROVE  Doomed(s)' = Doomed(s)
<1>1. CASE pc[s] # "scanning"
  BY <1>1 DEF Doomed
<1>2. CASE pc[s] = "scanning"
  <2>1. PICK t, V : t = req[s].dir /\ V = scope[s]
    OBVIOUS
  <2>2. t \in Rows /\ V \subseteq Rows
    BY <1>2, <2>1 DEF MemInv, RequestInv, Deleting, AskedFor
  <2>3. /\ Below(parent, t, V \cup {t}) \subseteq Below(parent', t, V \cup {t})
        /\ Below(parent', t, V \cup {t}) \subseteq Below(parent, t, V \cup {t})
    BY <2>2, BelowGrows
  <2>4. PICK K : K = Children(t, V)
    OBVIOUS
  <2>5. Below(parent', t, V \cup {t}) \ {t} = K /\ K \subseteq Rows
    BY <2>2, <2>3, <2>4, BelowIsClosed DEF Children
  <2>6. \A x \in K : { y \in K : born'[y] < born'[x] } = { y \in K : born[y] < born[x] }
    BY <2>5
  <2>7. { x \in K : Cardinality({ y \in K : born'[y] < born'[x] }) < PageSize } = Page(K)
    BY <2>6 DEF Page, Older
  <2>8. Doomed(s)' = {t} \cup { x \in K : Cardinality({ y \in K : born'[y] < born'[x] }) < PageSize }
    BY <1>2, <2>1, <2>5 DEF Doomed, Page, Children, Older
  <2>9. Doomed(s) = {t} \cup Page(K)
    BY <1>2, <2>1, <2>4 DEF Doomed
  <2>10. QED
    BY <2>7, <2>8, <2>9
<1>3. QED
  BY <1>1, <1>2

(* The deleted directories of the abstract tree.                           *)
Felled == dead \cup UNION { Doomed(s) : s \in Requests }

LEMMA FelledByOne ==
    ASSUME NEW r \in Requests, \A s \in Requests \ {r} : Doomed(s)' = Doomed(s),
           dead' \cup Doomed(r)' = dead \cup Doomed(r)
    PROVE  Felled' = Felled
<1>1. Felled = dead \cup Doomed(r) \cup UNION { Doomed(s) : s \in Requests \ {r} }
  BY DEF Felled
<1>2. Felled' = dead' \cup Doomed(r)' \cup UNION { Doomed(s)' : s \in Requests \ {r} }
  BY DEF Felled
<1>3. { Doomed(s)' : s \in Requests \ {r} } = { Doomed(s) : s \in Requests \ {r} }
  OBVIOUS
<1>4. QED
  BY <1>1, <1>2, <1>3

(* A creation plants a directory, and the end of a look at the map begins  *)
(* the fall of a subtree, which the other steps only carry out.            *)
LEMMA TreeStep ==
    ASSUME IsFiniteSet(Dirs), MemInv, MemInv', LoneInv, [Next]_vars, ~overlapped', FitOnAPage'
    PROVE  Tree!ForestNext \/ UNCHANGED Tree!forestVars
<1> USE DEF Goto, Answer
<1>0. ~overlapped
  BY DEF Next, Handle, Receive, Read, Create, UpdateDirectory, LookUp, BeginScan, EndScan,
         NextChild, MarkChild, Spoil, vars
<1>a. /\ TypeOK /\ \A s \in Requests : RequestInv(s) /\ LoneRequest(s)
      /\ \A q, s \in Requests : Deleting(q) /\ Deleting(s) => q = s
  BY <1>0 DEF LoneInv, MemInv
<1>b. /\ Tree!forestVars = <<parent, Rows, Felled>>
      /\ Tree!forestVars' = <<parent', Rows', Felled'>>
      /\ Tree!Standing = Rows \ Felled
  BY DEF Tree!forestVars, Tree!Standing, Rows, Felled
<1>1. ASSUME NEW r \in Requests, UNCHANGED <<parent, born>>,
             \A s \in Requests \ {r} : /\ pc'[s] = pc[s] /\ req'[s] = req[s]
                                       /\ scope'[s] = scope[s] /\ todo'[s] = todo[s]
      PROVE  Rows' = Rows /\ \A s \in Requests \ {r} : Doomed(s)' = Doomed(s)
  BY <1>1, DoomedStays DEF Rows, Exists
<1>2. ASSUME NEW r \in Requests, UNCHANGED <<parent, born>>,
             \A s \in Requests \ {r} : /\ pc'[s] = pc[s] /\ req'[s] = req[s]
                                       /\ scope'[s] = scope[s] /\ todo'[s] = todo[s],
             dead' \cup Doomed(r)' = dead \cup Doomed(r)
      PROVE  UNCHANGED Tree!forestVars
  BY <1>1, <1>2, <1>b, FelledByOne
<1>3. ASSUME NEW r \in Requests, Create(r)
      PROVE  Tree!ForestNext
  <2>1. PICK d \in Dirs : /\ ~Exists(d)
                          /\ born' = [born EXCEPT ![d] = now + 1]
                          /\ parent' = [parent EXCEPT ![d] = req[r].dir]
    BY <1>3 DEF Create
  <2>2. /\ pc[r] = "write" /\ pc'[r] = "done" /\ UNCHANGED <<dead, req, scope, todo>>
        /\ \A s \in Requests \ {r} : pc'[s] = pc[s]
    BY <1>3, <1>a DEF TypeOK, Create, deleteVars
  <2>3. req[r].dir \in Rows \cup {NoDir} /\ req[r].dir \in Dirs \cup {NoDir}
    BY <1>a, <2>2 DEF RequestInv, Rows
  <2>4. Rows' = Rows \cup {d} /\ d \in Dirs \ Rows
    BY <1>a, <2>1 DEF TypeOK, Rows, Exists
  <2>5. \A x \in Rows : born'[x] = born[x] /\ parent'[x] = parent[x]
    BY <1>a, <2>1 DEF TypeOK, Rows
  <2>6. \A s \in Requests \ {r} : Doomed(s)' = Doomed(s)
    BY <2>2, <2>5, DoomedStays
  <2>7. Doomed(r)' = Doomed(r)
    BY <2>2 DEF Doomed
  <2>8. Felled' = Felled
    BY <2>2, <2>6, <2>7, FelledByOne
  <2>9. Tree!Plant(d, req[r].dir)
    BY <2>1, <2>3, <2>4, <2>8 DEF Tree!Plant, Rows, Felled
  <2>10. QED
    BY <2>3, <2>9 DEF Tree!ForestNext
<1>4. ASSUME NEW r \in Requests, BeginScan(r)
      PROVE  Tree!ForestNext \/ UNCHANGED Tree!forestVars
  <2>1. /\ pc[r] = "scan" /\ UNCHANGED <<parent, born, dead, req, todo>>
        /\ \A s \in Requests \ {r} : pc'[s] = pc[s] /\ scope'[s] = scope[s]
    BY <1>4, <1>a DEF TypeOK, BeginScan, mapVars
  <2>2. Doomed(r) = {} /\ \A s \in Requests : Doomed(s) = {}
    BY <1>a, <2>1 DEF Doomed, Deleting, LoneRequest
  <2>3. Felled = dead
    BY <2>2 DEF Felled
  <2>4. CASE spoiled
    <3>1. pc'[r] = "done"
      BY <1>4, <1>a, <2>4 DEF TypeOK, BeginScan
    <3>2. Doomed(r)' = Doomed(r)
      BY <2>1, <2>2, <3>1 DEF Doomed, LoneRequest
    <3>3. QED
      BY <1>2, <2>1, <3>2
  <2>5. CASE ~spoiled
    <3>1. PICK t, V : t = req[r].dir /\ V = { d \in Dirs : Live(d) }
      OBVIOUS
    <3>2. pc'[r] = "scanning" /\ scope'[r] = V
      BY <1>4, <1>a, <2>5, <3>1 DEF TypeOK, BeginScan
    <3>3. t \in Rows /\ parent[t] # NoDir /\ t \in V /\ V = Rows \ Felled
      BY <1>a, <2>1, <2>3, <3>1 DEF RequestInv, Deleting, AskedFor, LoneRequest, Rows, Live
    <3>4. PICK K : K = Children(t, V)
      OBVIOUS
    <3>5. K = Below(parent, t, V) \ {t} /\ K \subseteq Dirs /\ t \in Below(parent, t, V)
      <4>1. V \cup {t} = V /\ V \subseteq Dirs
        BY <3>1, <3>3
      <4>2. QED
        BY <3>3, <3>4, <4>1, BelowIsClosed DEF Children
    <3>6. Children(req[r].dir, scope[r])' = K
      BY <2>1, <3>1, <3>2, <3>4 DEF Children
    <3>7. IsFiniteSet(K) /\ Cardinality(K) <= PageSize
      <4>1. Deleting(r)'
        BY <3>2 DEF Deleting
      <4>2. QED
        BY <3>5, <3>6, <4>1, FS_Subset DEF FitOnAPage
    <3>8. Page(K) = K
      BY <1>a, <3>5, <3>7, PageOfWhatFits, MemoryAssumption DEF MemoryAssumption
    <3>9. Doomed(r)' = Below(parent, t, V)
      <4>1. Doomed(r)' = {t} \cup Page(K)
        BY <2>1, <3>1, <3>2, <3>6 DEF Doomed, Page, Older
      <4>2. QED
        BY <3>5, <3>8, <4>1
    <3>10. Felled' = Felled \cup Below(parent, t, V)
      <4>1. \A s \in Requests \ {r} : Doomed(s)' = {}
        BY <1>1, <2>1, <2>2
      <4>2. QED
        BY <2>1, <2>3, <3>9, <4>1 DEF Felled
    <3>11. Tree!Below(parent, t, V) = Below(parent, t, V)
      BY DEF Tree!Below, Below, Tree!ClosedBelow, ClosedBelow
    <3>12. Rows' = Rows
      BY <2>1 DEF Rows, Exists
    <3>13. Tree!Fell(t)
      BY <1>b, <2>1, <3>3, <3>10, <3>11, <3>12 DEF Tree!Fell, Felled, Rows
    <3>14. t \in Dirs
      BY <3>3 DEF Rows
    <3>15. QED
      BY <3>13, <3>14 DEF Tree!ForestNext
  <2>6. QED
    BY <2>4, <2>5
<1>5. ASSUME NEW r \in Requests, EndScan(r)
      PROVE  UNCHANGED Tree!forestVars
  <2>1. PICK seen \in SUBSET scope[r] :
            /\ scope[r] \ dead \subseteq seen
            /\ todo' = [todo EXCEPT ![r] = Page(Children(req[r].dir, seen))]
    BY <1>5 DEF EndScan
  <2>2. /\ pc[r] = "scanning" /\ pc'[r] # "scanning"
        /\ UNCHANGED <<parent, born, req, scope>> /\ dead' = dead \cup {req[r].dir}
        /\ \A s \in Requests \ {r} : pc'[s] = pc[s] /\ todo'[s] = todo[s]
    BY <1>5, <1>a, <2>1 DEF TypeOK, EndScan
  <2>3. seen = scope[r]
    BY <1>a, <2>1, <2>2 DEF LoneRequest
  <2>4. todo'[r] = Page(Children(req[r].dir, scope[r]))
    BY <1>a, <2>1, <2>3 DEF TypeOK
  <2>5. Doomed(r)' = todo'[r] /\ Doomed(r) = {req[r].dir} \cup todo'[r]
    BY <2>2, <2>4 DEF Doomed
  <2>6. dead' \cup Doomed(r)' = dead \cup Doomed(r)
    BY <2>2, <2>5
  <2>7. QED
    BY <1>2, <2>2, <2>6
<1>6. ASSUME NEW r \in Requests, MarkChild(r)
      PROVE  UNCHANGED Tree!forestVars
  <2>1. /\ pc[r] = "mark" /\ pc'[r] # "scanning" /\ hand[r] \in todo[r]
        /\ UNCHANGED <<parent, born, req, scope>>
        /\ dead' = dead \cup {hand[r]} /\ todo'[r] = todo[r] \ {hand[r]}
        /\ \A s \in Requests \ {r} : pc'[s] = pc[s] /\ todo'[s] = todo[s]
    BY <1>6, <1>a DEF TypeOK, MarkChild
  <2>2. dead' \cup Doomed(r)' = dead \cup Doomed(r)
    BY <2>1 DEF Doomed
  <2>3. QED
    BY <1>2, <2>1, <2>2
<1>7. ASSUME NEW r \in Requests,
             Receive(r) \/ Read(r) \/ UpdateDirectory(r) \/ LookUp(r) \/ NextChild(r)
      PROVE  UNCHANGED Tree!forestVars
  <2>1. /\ pc[r] # "scanning" /\ pc'[r] # "scanning"
        /\ UNCHANGED <<parent, born, dead, scope, todo>>
        /\ \A s \in Requests \ {r} : pc'[s] = pc[s] /\ req'[s] = req[s]
    BY <1>7, <1>a DEF TypeOK, Receive, FirstStep, Read, UpdateDirectory, Asks, LookUp, NextChild,
                      mapVars, deleteVars
  <2>2. dead' \cup Doomed(r)' = dead \cup Doomed(r)
    BY <2>1 DEF Doomed
  <2>3. QED
    BY <1>2, <2>1, <2>2
<1>8. CASE UNCHANGED <<parent, born, dead, pc, req, scope, todo>>
  <2>1. \A s \in Requests : Doomed(s)' = Doomed(s)
    BY <1>8 DEF Doomed, Page, Children, Older
  <2>2. QED
    BY <1>8, <2>1 DEF Tree!forestVars, Exists
<1>9. QED
  BY <1>3, <1>4, <1>5, <1>6, <1>7, <1>8 DEF Next, Handle, Spoil, vars, mapVars, deleteVars

(* As long as no two deletions overlap, and what they delete fits on a     *)
(* page, the map is a tree like the one the database keeps.                *)
THEOREM ATreeUntilDeletionsOverlap ==
    ASSUME IsFiniteSet(Dirs)
    PROVE  Spec => TreeUntilDeletionsOverlap
<1>1. Init => Tree!ForestInit
  <2> SUFFICES ASSUME Init
               PROVE  Tree!ForestInit
    OBVIOUS
  <2>1. \A s \in Requests : Doomed(s) = {}
    BY DEF Init, Doomed
  <2>2. QED
    BY <2>1 DEF Init, Tree!ForestInit, Exists
<1>2. MemInv /\ MemInv' /\ LoneInv /\ [Next]_vars =>
          [~overlapped' /\ FitOnAPage' => Tree!ForestNext]_(Tree!forestVars)
  BY TreeStep
<1>3. Spec => []MemInv
  BY MemoryAssumption, MemInit, MemStep, PTL DEF Spec
<1>4. Spec => []LoneInv
  BY TypeCorrect, LoneInit, LoneStep, PTL DEF Spec
<1>5. QED
  BY <1>1, <1>2, <1>3, <1>4, PTL DEF Spec, TreeUntilDeletionsOverlap

----------------------------------------------------------------------------
(* No two rows are of the same age, so that the oldest ones, as many as    *)
(* fit, are a page, and a full one when there are more.                    *)
AgesDiffer == \A x, z \in Rows : born[x] = born[z] => x = z

LEMMA AgeIsPlace ==
    ASSUME TypeOK, AgesDiffer, NEW S \in SUBSET Rows, IsFiniteSet(S),
           NEW rank, rank = [x \in S |-> Cardinality(Older(x, S))]
    PROVE  /\ \A x \in S : rank[x] \in 0 .. Cardinality(S) - 1
           /\ \A x, z \in S : born[x] < born[z] => rank[x] < rank[z]
           /\ \A x, z \in S : rank[x] = rank[z] => x = z
           /\ \A k \in 0 .. Cardinality(S) - 1 : \E x \in S : rank[x] = k
<1>1. PICK R : R = { p \in S \X S : born[p[1]] < born[p[2]] }
  OBVIOUS
<1>2. \A x \in S : born[x] \in Int
  BY DEF TypeOK, Rows
<1>3. \A x, z \in S : <<x, z>> \in R <=> born[x] < born[z]
  BY <1>1
<1>4. /\ \A x \in S : <<x, x>> \notin R
      /\ \A x, y, z \in S : <<x, y>> \in R /\ <<y, z>> \in R => <<x, z>> \in R
      /\ \A x, y \in S : x = y \/ <<x, y>> \in R \/ <<y, x>> \in R
  <2>1. \A x, y \in S : born[x] = born[y] => x = y
    BY DEF AgesDiffer
  <2>2. QED
    BY <1>2, <1>3, <2>1
<1>5. rank = Rank(S, R)
  <2>1. \A x \in S : Older(x, S) = { y \in S : <<y, x>> \in R }
    BY <1>3 DEF Older
  <2>2. QED
    BY <2>1 DEF Rank
<1>6. PICK place : place = Rank(S, R)
  OBVIOUS
<1>7. /\ \A x \in S : place[x] \in 0 .. Cardinality(S) - 1
      /\ \A x, y \in S : <<x, y>> \in R => place[x] < place[y]
      /\ \A x, y \in S : place[x] = place[y] => x = y
      /\ \A i \in 0 .. Cardinality(S) - 1 : \E x \in S : place[x] = i
  BY <1>4, <1>6, EachHasItsPlace
<1>8. QED
  BY <1>3, <1>5, <1>6, <1>7

LEMMA FullPage ==
    ASSUME TypeOK, AgesDiffer, PageSize \in Nat,
           NEW S \in SUBSET Rows, IsFiniteSet(S), Cardinality(S) > PageSize
    PROVE  IsFiniteSet(Page(S)) /\ Cardinality(Page(S)) = PageSize
<1>1. PICK n \in Nat : n = Cardinality(S)
  BY FS_CardinalityType
<1>2. PICK rank : rank = [x \in S |-> Cardinality(Older(x, S))]
  OBVIOUS
<1>6. /\ \A x \in S : rank[x] \in 0 .. n - 1
      /\ \A x, z \in S : rank[x] = rank[z] => x = z
      /\ \A k \in 0 .. n - 1 : \E x \in S : rank[x] = k
  BY <1>1, <1>2, AgeIsPlace
<1>7. PICK place : place = [x \in Page(S) |-> rank[x]]
  OBVIOUS
<1>8. Page(S) = { x \in S : rank[x] < PageSize }
  BY <1>2 DEF Page
<1>9. place \in Injection(Page(S), 0 .. PageSize - 1)
  <2>1. ASSUME NEW x \in Page(S)
        PROVE  x \in S /\ place[x] = rank[x] /\ place[x] \in 0 .. PageSize - 1
    BY <1>6, <1>7, <1>8
  <2>2. place \in [Page(S) -> 0 .. PageSize - 1]
    BY <1>7, <2>1
  <2>3. QED
    BY <1>6, <2>1, <2>2 DEF Injection, IsInjective
<1>10. place \in Surjection(Page(S), 0 .. PageSize - 1)
  <2>1. ASSUME NEW k \in 0 .. PageSize - 1
        PROVE  \E x \in Page(S) : place[x] = k
    <3>1. PICK x \in S : rank[x] = k
      BY <1>1, <1>6
    <3>2. QED
      BY <1>7, <1>8, <3>1
  <2>2. QED
    BY <1>9, <2>1 DEF Surjection, Injection
<1>11. IsFiniteSet(0 .. PageSize - 1) /\ Cardinality(0 .. PageSize - 1) = PageSize
  BY FS_Interval
<1>12. QED
  BY <1>9, <1>10, <1>11, FS_Injection

LEMMA AgesInit == MemoryAssumption /\ Init => AgesDiffer
  BY DEF MemoryAssumption, Init, AgesDiffer, Rows, Exists

LEMMA AgesStep == TypeOK /\ AgesDiffer /\ [Next]_vars => AgesDiffer'
<1> SUFFICES ASSUME TypeOK, AgesDiffer, [Next]_vars
             PROVE  AgesDiffer'
  OBVIOUS
<1>1. ASSUME NEW r \in Requests, Create(r)
      PROVE  AgesDiffer'
  <2>1. PICK d \in Dirs : ~Exists(d) /\ born' = [born EXCEPT ![d] = now + 1]
    BY <1>1 DEF Create
  <2>2. QED
    BY <2>1 DEF TypeOK, AgesDiffer, Rows, Exists
<1>2. CASE born' = born
  BY <1>2 DEF AgesDiffer, Rows, Exists
<1>3. QED
  BY <1>1, <1>2 DEF Next, Handle, vars, mapVars, Receive, Read, UpdateDirectory, LookUp,
     BeginScan, EndScan, NextChild, MarkChild, Spoil

(* What a deletion has taken, and has still to take, is all that stood     *)
(* below its directory, or a page of it and the directory.                 *)
TakesEnough(s) ==
    \/ meant[s] \subseteq took[s] \cup todo[s]
    \/ Cardinality(took[s] \cup todo[s]) = PageSize + 1

Complete(s) ==
    /\ pc[s] # "done" => reply[s] = 0
    /\ took[s] \subseteq dead
    /\ pc[s] \in {"next", "mark"} => TakesEnough(s)
    /\ (reply[s] = 200 /\ req[s].op = "delete") => todo[s] = {} /\ TakesEnough(s)

CompleteInv == \A s \in Requests : Complete(s)

LEMMA CompleteInit == Init => CompleteInv
  BY DEF Init, CompleteInv, Complete

LEMMA ListTakesEnough ==
    ASSUME IsFiniteSet(Dirs), PageSize \in Nat, TypeOK, AgesDiffer, NEW t \in Rows,
           NEW seen \in SUBSET Rows, NEW standing \in SUBSET seen
    PROVE  \/ Below(parent, t, standing \cup {t}) \ {t} \subseteq {t} \cup Page(Children(t, seen))
           \/ Cardinality({t} \cup Page(Children(t, seen))) = PageSize + 1
<1>1. PICK K : K = Children(t, seen)
  OBVIOUS
<1>2. K \subseteq Rows /\ t \notin K /\ K = Below(parent, t, seen \cup {t}) \ {t}
  BY <1>1, BelowIsClosed DEF Children
<1>3. IsFiniteSet(K) /\ Cardinality(K) \in Nat
  BY <1>2, FS_Subset, FS_CardinalityType DEF Rows
<1>4. CASE Cardinality(K) <= PageSize
  <2>1. Page(K) = K
    BY <1>2, <1>3, <1>4, PageOfWhatFits DEF Rows
  <2>2. Below(parent, t, standing \cup {t}) \subseteq Below(parent, t, seen \cup {t})
    BY BelowGrows
  <2>3. QED
    BY <1>1, <1>2, <2>1, <2>2
<1>5. CASE Cardinality(K) > PageSize
  <2>1. IsFiniteSet(Page(K)) /\ Cardinality(Page(K)) = PageSize
    BY <1>2, <1>3, <1>5, FullPage
  <2>2. t \notin Page(K)
    BY <1>2 DEF Page
  <2>3. Cardinality(Page(K) \cup {t}) = PageSize + 1
    BY <2>1, <2>2, FS_AddElement
  <2>4. Page(K) \cup {t} = {t} \cup Page(K)
    OBVIOUS
  <2>5. QED
    BY <1>1, <2>3, <2>4
<1>6. Cardinality(K) <= PageSize \/ Cardinality(K) > PageSize
  BY <1>3
<1>7. QED
  BY <1>4, <1>5, <1>6

LEMMA CompleteStep ==
    ASSUME IsFiniteSet(Dirs), PageSize \in Nat, MemInv, AgesDiffer, CompleteInv, [Next]_vars
    PROVE  CompleteInv'
<1> USE DEF Goto, Answer
<1>a. TypeOK /\ \A s \in Requests : RequestInv(s) /\ Complete(s)
  BY DEF MemInv, CompleteInv
<1>1. ASSUME NEW r \in Requests, dead \subseteq dead',
             \A s \in Requests \ {r} : /\ pc'[s] = pc[s] /\ reply'[s] = reply[s] /\ req'[s] = req[s]
                                       /\ took'[s] = took[s] /\ todo'[s] = todo[s] /\ meant'[s] = meant[s],
             Complete(r)'
      PROVE  CompleteInv'
  <2>1. ASSUME NEW s \in Requests \ {r}
        PROVE  Complete(s)'
    <3>1. TakesEnough(s)' <=> TakesEnough(s)
      <4>1. took'[s] \cup todo'[s] = took[s] \cup todo[s]
        BY <1>1
      <4>2. QED
        BY <1>1, <4>1 DEF TakesEnough
    <3>2. QED
      BY <1>a, <1>1, <3>1 DEF Complete
  <2>2. QED
    BY <1>1, <2>1 DEF CompleteInv
<1>2. ASSUME NEW r \in Requests,
             Receive(r) \/ Read(r) \/ Create(r) \/ UpdateDirectory(r) \/ LookUp(r) \/ BeginScan(r)
      PROVE  CompleteInv'
  <2>1. /\ pc[r] \notin {"next", "mark", "done"} /\ pc'[r] \notin {"next", "mark"}
        /\ UNCHANGED <<dead, took, todo, meant>>
        /\ pc'[r] # "done" => reply'[r] = reply[r]
        /\ \A s \in Requests \ {r} : pc'[s] = pc[s] /\ reply'[s] = reply[s] /\ req'[s] = req[s]
    BY <1>2, <1>a DEF TypeOK, Receive, FirstStep, Read, Create, UpdateDirectory, Asks, LookUp,
                      BeginScan, mapVars, deleteVars
  <2>2. reply[r] = 0
    BY <1>a, <2>1 DEF Complete
  <2>3. reply'[r] = 200 => req'[r].op # "delete"
    BY <1>2, <1>a, <2>2 DEF TypeOK, Receive, Read, Create, UpdateDirectory, Asks, LookUp, BeginScan
  <2>4. Complete(r)'
    BY <1>a, <2>1, <2>2, <2>3 DEF Complete
  <2>5. QED
    BY <1>1, <2>1, <2>4
<1>3. ASSUME NEW r \in Requests, EndScan(r)
      PROVE  CompleteInv'
  <2>1. PICK seen \in SUBSET scope[r] :
            /\ scope[r] \ dead \subseteq seen
            /\ todo' = [todo EXCEPT ![r] = Page(Children(req[r].dir, seen))]
    BY <1>3 DEF EndScan
  <2>2. /\ pc[r] = "scanning" /\ pc'[r] \in {"next", "done"}
        /\ IF todo'[r] = {} THEN pc'[r] = "done" /\ reply'[r] = 200
                            ELSE pc'[r] = "next" /\ reply'[r] = reply[r]
        /\ req' = req /\ dead' = dead \cup {req[r].dir} /\ took'[r] = {req[r].dir}
        /\ \A s \in Requests \ {r} : /\ pc'[s] = pc[s] /\ reply'[s] = reply[s]
                                      /\ took'[s] = took[s] /\ todo'[s] = todo[s] /\ meant'[s] = meant[s]
    BY <1>3, <1>a, <2>1 DEF TypeOK, EndScan
  <2>3. PICK t, standing : t = req[r].dir /\ standing = scope[r] \ dead
    OBVIOUS
  <2>4. meant'[r] = Below(parent, t, standing \cup {t}) \ {t}
    BY <1>3, <1>a, <2>3 DEF TypeOK, EndScan
  <2>5. t \in Rows /\ seen \in SUBSET Rows /\ standing \in SUBSET seen
    BY <1>a, <2>1, <2>2, <2>3 DEF RequestInv, Deleting, AskedFor
  <2>6. todo'[r] = Page(Children(t, seen))
    BY <1>a, <2>1, <2>3 DEF TypeOK
  <2>7. \/ meant'[r] \subseteq {t} \cup todo'[r]
        \/ Cardinality({t} \cup todo'[r]) = PageSize + 1
    BY <1>a, <2>4, <2>5, <2>6, ListTakesEnough
  <2>8. TakesEnough(r)'
    BY <2>2, <2>3, <2>7 DEF TakesEnough
  <2>9. Complete(r)'
    BY <1>a, <2>2, <2>8 DEF Complete
  <2>10. QED
    BY <1>1, <2>2, <2>9
<1>4. ASSUME NEW r \in Requests, NextChild(r)
      PROVE  CompleteInv'
  <2>1. \/ pc'[r] = "done" /\ reply'[r] = 404
        \/ pc'[r] = "mark" /\ reply'[r] = reply[r]
    BY <1>4, <1>a DEF TypeOK, NextChild
  <2>2. /\ pc[r] = "next" /\ UNCHANGED <<dead, req, todo, took, meant>>
        /\ \A s \in Requests \ {r} : pc'[s] = pc[s] /\ reply'[s] = reply[s]
    BY <1>4, <1>a DEF TypeOK, NextChild, mapVars
  <2>3. Complete(r)'
    <3>1. TakesEnough(r)' <=> TakesEnough(r)
      BY <2>2 DEF TakesEnough
    <3>2. QED
      BY <1>a, <2>1, <2>2, <3>1 DEF Complete
  <2>4. QED
    BY <1>1, <2>2, <2>3
<1>5. ASSUME NEW r \in Requests, MarkChild(r)
      PROVE  CompleteInv'
  <2>1. /\ pc[r] = "mark" /\ hand[r] \in todo[r] /\ UNCHANGED <<req, meant>>
        /\ took'[r] = took[r] \cup {hand[r]} /\ todo'[r] = todo[r] \ {hand[r]}
        /\ dead' = dead \cup {hand[r]}
        /\ IF todo[r] = {hand[r]} THEN pc'[r] = "done" /\ reply'[r] = 200
                                  ELSE pc'[r] = "next" /\ reply'[r] = reply[r]
        /\ \A s \in Requests \ {r} : /\ pc'[s] = pc[s] /\ reply'[s] = reply[s]
                                      /\ took'[s] = took[s] /\ todo'[s] = todo[s]
    BY <1>5, <1>a DEF TypeOK, MarkChild
  <2>2. took'[r] \cup todo'[r] = took[r] \cup todo[r]
    BY <2>1
  <2>3. TakesEnough(r)'
    BY <1>a, <2>1, <2>2 DEF Complete, TakesEnough
  <2>4. reply[r] = 0 /\ took'[r] \subseteq dead'
    BY <1>a, <2>1 DEF Complete
  <2>5. Complete(r)'
    BY <2>1, <2>3, <2>4 DEF Complete
  <2>6. QED
    BY <1>1, <2>1, <2>5
<1>6. CASE UNCHANGED <<dead, pc, reply, req, took, todo, meant>>
  BY <1>a, <1>6 DEF CompleteInv, Complete, TakesEnough
<1>7. QED
  BY <1>2, <1>3, <1>4, <1>5, <1>6 DEF Next, Handle, Spoil, vars, mapVars, deleteVars

(* A deletion that succeeds has taken all that stood below its directory,  *)
(* or a whole page of it.                                                  *)
THEOREM SuccessTakesAll ==
    ASSUME IsFiniteSet(Dirs)
    PROVE  Spec => []SuccessIsComplete
<1>1. CompleteInv => SuccessIsComplete
  <2> SUFFICES ASSUME NEW s \in Requests, Complete(s), reply[s] = 200, req[s].op = "delete"
               PROVE  /\ took[s] \subseteq dead
                      /\ meant[s] \subseteq dead \/ Cardinality(took[s]) = PageSize + 1
    BY DEF CompleteInv, SuccessIsComplete
  <2>1. took[s] \subseteq dead /\ TakesEnough(s) /\ took[s] \cup todo[s] = took[s]
    BY DEF Complete
  <2>2. QED
    BY <2>1 DEF TakesEnough
<1>2. Spec => []MemInv
  BY MemoryAssumption, MemInit, MemStep, PTL DEF Spec
<1>3. Spec => []AgesDiffer
  BY MemoryAssumption, TypeCorrect, AgesInit, AgesStep, PTL DEF Spec
<1>4. MemInv /\ AgesDiffer /\ CompleteInv /\ [Next]_vars => CompleteInv'
  BY MemoryAssumption, CompleteStep DEF MemoryAssumption
<1>5. QED
  BY <1>1, <1>2, <1>3, <1>4, CompleteInit, PTL DEF Spec

----------------------------------------------------------------------------
(* Recursive functions, and sequences in pieces.                           *)

(* FlattenSeq is the only function that meets its recursive equation.      *)
LEMMA FlattenedStepwise ==
    ASSUME NEW n \in Nat \ {0}, NEW seqs, Len(seqs) = n, NEW g,
           \A i \in 1 .. n : g[i] = IF i = 1 THEN seqs[i] ELSE g[i - 1] \o seqs[i]
    PROVE  FlattenSeq(seqs) = g[n]
<1> DEFINE Step(h) == [i \in 1 .. Len(seqs) |-> IF i = 1 THEN seqs[i] ELSE h[i - 1] \o seqs[i]]
<1>1. PICK f : f = CHOOSE h : h = Step(h)
  OBVIOUS
<1>2. FlattenSeq(seqs) = f[n]
  BY <1>1 DEF FlattenSeq
<1>3. f = Step(f)
  <2>1. PICK h : h = [i \in 1 .. n |-> g[i]]
    OBVIOUS
  <2>2. ASSUME NEW i \in 1 .. n
        PROVE  h[i] = IF i = 1 THEN seqs[i] ELSE h[i - 1] \o seqs[i]
    BY <2>1
  <2>3. h = Step(h)
    BY <2>1, <2>2
  <2>4. QED
    BY <1>1, <2>3
<1>4. \A i \in 1 .. n : f[i] = g[i]
  <2> SUFFICES ASSUME { i \in 1 .. n : f[i] # g[i] } # {}
               PROVE  FALSE
    OBVIOUS
  <2>1. PICK T : T = { i \in 1 .. n : f[i] # g[i] }
    OBVIOUS
  <2>2. T \in SUBSET Nat /\ T # {}
    BY <2>1
  <2>3. PICK k \in T : \A i \in T : k <= i
    BY <2>2, LeastNumber
  <2>4. k \in 1 .. n /\ f[k] # g[k]
    BY <2>1
  <2>5. k # 1 => k - 1 \in 1 .. n /\ f[k - 1] = g[k - 1]
    BY <2>1, <2>3, <2>4
  <2>6. f[k] = IF k = 1 THEN seqs[k] ELSE f[k - 1] \o seqs[k]
    BY <1>3, <2>4
  <2>7. g[k] = IF k = 1 THEN seqs[k] ELSE g[k - 1] \o seqs[k]
    BY <2>4
  <2>8. QED
    BY <2>4, <2>5, <2>6, <2>7
<1>5. QED
  BY <1>2, <1>4

(* Pages that follow each other make up the whole.                         *)
LEMMA PagesJoin ==
    ASSUME IsFiniteSet(Dirs), NEW S, NEW whole \in Seq(S), Len(whole) <= Cardinality(Dirs),
           NEW size \in Nat \ {0}, NEW pages,
           \A page \in PageNumbers : pages[page].ids = PageOf(whole, page, size)
    PROVE  Joined(pages) = whole
<1>1. PICK n, len \in Nat : n = Cardinality(Dirs) + 1 /\ len = Len(whole)
  BY FS_CardinalityType, LenProperties
<1>2. n \in Nat \ {0} /\ len < n /\ PageNumbers = 1 .. n
  BY <1>1, FS_CardinalityType DEF PageNumbers
<1>3. PICK seqs : seqs = [page \in 1 .. n |-> pages[page].ids]
  OBVIOUS
<1>4. Joined(pages) = FlattenSeq(seqs) /\ Len(seqs) = n
  BY <1>2, <1>3 DEF Joined
<1>5. PICK until : until = [i \in 1 .. n |-> IF size * i > len THEN len ELSE size * i]
  OBVIOUS
<1>6. PICK g : g = [i \in 1 .. n |-> SubSeq(whole, 1, until[i])]
  OBVIOUS
<1>7. ASSUME NEW i \in 1 .. n
      PROVE  g[i] = IF i = 1 THEN seqs[i] ELSE g[i - 1] \o seqs[i]
  <2>1. PICK o, e : o = size * (i - 1) /\ e = size * i
    OBVIOUS
  <2>2. o \in Nat /\ e = o + size
    <3>1. i - 1 \in Nat /\ i \in Nat
      OBVIOUS
    <3>2. size * (i - 1) \in Nat
      BY <3>1, NoLess
    <3>3. size * (i - 1) + size = size * i
      BY <3>1, OnePageMore
    <3>4. QED
      BY <2>1, <3>2, <3>3
  <2>3. seqs[i] = IF o > len THEN <<>> ELSE SubSeq(whole, o + 1, IF e > len THEN len ELSE e)
    BY <1>1, <1>2, <1>3, <2>1, <2>2 DEF PageOf
  <2>4. g[i] = SubSeq(whole, 1, IF e > len THEN len ELSE e)
    BY <1>5, <1>6, <2>1
  <2>5. CASE i = 1
    <3>1. o = 0 /\ ~(o > len) /\ o + 1 = 1
      BY <2>1, <2>5
    <3>2. QED
      BY <2>3, <2>4, <2>5, <3>1
  <2>6. CASE i # 1
    <3>1. g[i - 1] = SubSeq(whole, 1, IF o > len THEN len ELSE o)
      BY <1>5, <1>6, <2>1, <2>6
    <3>2. CASE o > len
      <4>1. g[i - 1] = whole /\ g[i] = whole /\ seqs[i] = <<>>
        BY <1>1, <2>2, <2>3, <2>4, <3>1, <3>2, SubSeqFull
      <4>2. QED
        BY <2>6, <4>1, ConcatEmptySeq
    <3>3. CASE o <= len
      <4>1. PICK l : l = IF e > len THEN len ELSE e
        OBVIOUS
      <4>2. 1 \in 1 .. Len(whole) + 1 /\ o \in 0 .. Len(whole) /\ l \in o .. Len(whole)
        BY <1>1, <2>2, <3>3, <4>1
      <4>3. SubSeq(whole, 1, o) \o SubSeq(whole, o + 1, l) = SubSeq(whole, 1, l)
        BY <4>2, ConcatAdjacentSubSeq
      <4>4. g[i - 1] = SubSeq(whole, 1, o) /\ g[i] = SubSeq(whole, 1, l)
            /\ seqs[i] = SubSeq(whole, o + 1, l)
        BY <2>2, <2>3, <2>4, <3>1, <3>3, <4>1
      <4>5. QED
        BY <2>6, <4>3, <4>4
    <3>4. QED
      BY <1>1, <2>2, <3>2, <3>3
  <2>7. QED
    BY <2>5, <2>6
<1>9. g[n] = whole
  <2>1. size * n \in Nat /\ n <= size * n
    BY <1>2, NoLess
  <2>2. g[n] = SubSeq(whole, 1, len)
    BY <1>2, <1>5, <1>6, <2>1
  <2>3. QED
    BY <1>1, <2>2, SubSeqFull
<1>10. n \in Nat \ {0} /\ Len(seqs) = n
  BY <1>2, <1>4
<1>11. FlattenSeq(seqs) = g[n]
  BY <1>7, <1>10, FlattenedStepwise
<1>12. QED
  BY <1>4, <1>9, <1>11

----------------------------------------------------------------------------
(* Sorting.                                                                *)

(* ByAge lists each member of a set once, the older one first.             *)
LEMMA ByAgeIsSorted ==
    ASSUME TypeOK, AgesDiffer, NEW S \in SUBSET Rows, IsFiniteSet(S),
           NEW n \in Nat, n = Cardinality(S), NEW s, s = ByAge(S)
    PROVE  /\ s \in Seq(S) /\ s \in [1 .. n -> S] /\ Len(s) = n
           /\ \A x \in S : \E i \in 1 .. n : s[i] = x
           /\ \A i, j \in 1 .. n : i < j => born[s[i]] < born[s[j]]
<1>1. PICK rank : rank = [x \in S |-> Cardinality(Older(x, S))]
  OBVIOUS
<1>2. /\ \A x \in S : rank[x] \in 0 .. n - 1
      /\ \A x, z \in S : born[x] < born[z] => rank[x] < rank[z]
      /\ \A x, z \in S : rank[x] = rank[z] => x = z
      /\ \A k \in 0 .. n - 1 : \E x \in S : rank[x] = k
  BY <1>1, AgeIsPlace
<1>3. s = [i \in 1 .. n |-> CHOOSE x \in S : rank[x] = i - 1]
  <2>1. \A i \in 1 .. n : (CHOOSE x \in S : Cardinality(Older(x, S)) = i - 1)
                            = (CHOOSE x \in S : rank[x] = i - 1)
    BY <1>1
  <2>2. QED
    BY <2>1 DEF ByAge
<1>4. ASSUME NEW i \in 1 .. n
      PROVE  s[i] \in S /\ rank[s[i]] = i - 1
  <2>1. i - 1 \in 0 .. n - 1
    OBVIOUS
  <2>2. \E x \in S : rank[x] = i - 1
    BY <1>2, <2>1
  <2>3. QED
    BY <1>3, <2>2
<1>5. s \in [1 .. n -> S]
  BY <1>3, <1>4
<1>6. s \in Seq(S) /\ Len(s) = n
  BY <1>5
<1>7. ASSUME NEW x \in S
      PROVE  \E i \in 1 .. n : s[i] = x
  <2>1. rank[x] + 1 \in 1 .. n
    BY <1>2
  <2>2. s[rank[x] + 1] \in S /\ rank[s[rank[x] + 1]] = rank[x]
    BY <1>2, <1>4, <2>1
  <2>3. QED
    BY <1>2, <2>1, <2>2
<1>8. ASSUME NEW i \in 1 .. n, NEW j \in 1 .. n, i < j
      PROVE  born[s[i]] < born[s[j]]
  <2>1. PICK x \in S, z \in S : x = s[i] /\ z = s[j]
    BY <1>4
  <2>2. rank[x] = i - 1 /\ rank[z] = j - 1
    BY <1>4, <2>1
  <2>3. born[x] \in Int /\ born[z] \in Int /\ ~(born[z] < born[x]) /\ born[x] # born[z]
    BY <1>2, <1>8, <2>2 DEF TypeOK, Rows, AgesDiffer
  <2>4. QED
    BY <2>1, <2>3
<1>9. QED
  BY <1>5, <1>6, <1>7, <1>8

(* SortedIds is the only function that meets its recursive equation.       *)
LEMMA SortedStepwise ==
    ASSUME NEW n \in Nat, NEW ids, Len(ids) = n, NEW g,
           \A i \in 0 .. n :
               g[i] = IF i < 2 THEN ids ELSE Moved(g[i - 1], i, SettlesAt(ids, i))
    PROVE  SortedIds(ids) = g[n]
<1> DEFINE Step(h) == [i \in 0 .. Len(ids) |->
                         IF i < 2 THEN ids ELSE Moved(h[i - 1], i, SettlesAt(ids, i))]
<1>1. PICK f : f = CHOOSE h : h = Step(h)
  OBVIOUS
<1>2. SortedIds(ids) = f[n]
  BY <1>1 DEF SortedIds
<1>3. f = Step(f)
  <2>1. PICK h : h = [i \in 0 .. n |-> g[i]]
    OBVIOUS
  <2>2. ASSUME NEW i \in 0 .. n
        PROVE  h[i] = IF i < 2 THEN ids ELSE Moved(h[i - 1], i, SettlesAt(ids, i))
    BY <2>1
  <2>3. h = Step(h)
    BY <2>1, <2>2
  <2>4. QED
    BY <1>1, <2>3
<1>4. \A i \in 0 .. n : f[i] = g[i]
  <2> SUFFICES ASSUME { i \in 0 .. n : f[i] # g[i] } # {}
               PROVE  FALSE
    OBVIOUS
  <2>1. PICK T : T = { i \in 0 .. n : f[i] # g[i] }
    OBVIOUS
  <2>2. T \in SUBSET Nat /\ T # {}
    BY <2>1
  <2>3. PICK k \in T : \A i \in T : k <= i
    BY <2>2, LeastNumber
  <2>4. k \in 0 .. n /\ f[k] # g[k]
    BY <2>1
  <2>5. k >= 2 => k - 1 \in 0 .. n /\ f[k - 1] = g[k - 1]
    BY <2>1, <2>3, <2>4
  <2>6. f[k] = IF k < 2 THEN ids ELSE Moved(f[k - 1], k, SettlesAt(ids, k))
    BY <1>3, <2>4
  <2>7. g[k] = IF k < 2 THEN ids ELSE Moved(g[k - 1], k, SettlesAt(ids, k))
    BY <2>4
  <2>8. QED
    BY <2>4, <2>5, <2>6, <2>7
<1>5. QED
  BY <1>2, <1>4

(* On a way up every place is younger than the next.  The comparison says  *)
(* so however the ids have been moved: each goes to the front, and the way *)
(* is turned round.                                                        *)
LEMMA WayUpIsTurned ==
    ASSUME TypeOK, AgesDiffer, NEW S \in SUBSET Rows, IsFiniteSet(S)
    PROVE  SortedIds(WayUp(S)) = ByAge(S)
<1>1. PICK n \in Nat : n = Cardinality(S)
  BY FS_CardinalityType
<1>2. PICK s : s = ByAge(S)
  OBVIOUS
<1>3. /\ s \in [1 .. n -> S] /\ Len(s) = n
      /\ \A i, j \in 1 .. n : i < j => born[s[i]] < born[s[j]]
  BY <1>1, <1>2, ByAgeIsSorted
<1>4. PICK ids : ids = [i \in 1 .. n |-> s[(n - i) + 1]]
  OBVIOUS
<1>5. WayUp(S) = ids /\ Len(ids) = n
  BY <1>2, <1>3, <1>4 DEF WayUp, Reverse
<1>6. \A j \in 2 .. n : Less(ids, j, j - 1)
  <2> SUFFICES ASSUME NEW j \in 2 .. n
               PROVE  born[ids[j]] < born[ids[j - 1]]
    BY DEF Less
  <2>1. /\ ids[j] = s[(n - j) + 1] /\ ids[j - 1] = s[(n - j) + 2]
        /\ (n - j) + 1 \in 1 .. n /\ (n - j) + 2 \in 1 .. n
    BY <1>4
  <2>2. QED
    BY <1>3, <2>1
<1>7. \A i \in 1 .. n : SettlesAt(ids, i) = 1
  <2> SUFFICES ASSUME NEW i \in 1 .. n
               PROVE  SettlesAt(ids, i) = 1
    OBVIOUS
  <2> DEFINE Fits(k) == /\ k = 1 \/ ~Less(ids, k, k - 1)
                        /\ \A j \in k + 1 .. i : Less(ids, j, j - 1)
  <2>1. Fits(1)
    BY <1>6
  <2>2. \A k \in 1 .. i : Fits(k) => k = 1
    BY <1>6
  <2>3. SettlesAt(ids, i) = CHOOSE k \in 1 .. i : Fits(k)
    BY DEF SettlesAt
  <2> HIDE DEF Fits
  <2>4. 1 \in 1 .. i
    OBVIOUS
  <2>5. QED
    BY <2>1, <2>2, <2>3, <2>4
<1>8. PICK g : g = [i \in 0 .. n |-> [j \in 1 .. n |-> IF j <= i THEN ids[(i - j) + 1] ELSE ids[j]]]
  OBVIOUS
<1>9. ASSUME NEW i \in 0 .. n
      PROVE  g[i] = IF i < 2 THEN ids ELSE Moved(g[i - 1], i, SettlesAt(ids, i))
  <2>1. g[i] = [j \in 1 .. n |-> IF j <= i THEN ids[(i - j) + 1] ELSE ids[j]]
    BY <1>8
  <2>2. CASE i < 2
    <3>1. \A j \in 1 .. n : (IF j <= i THEN ids[(i - j) + 1] ELSE ids[j]) = ids[j]
      BY <2>2
    <3>2. g[i] = [j \in 1 .. n |-> ids[j]]
      BY <2>1, <3>1
    <3>3. QED
      BY <1>4, <2>2, <3>2
  <2>3. CASE i >= 2
    <3>1. SettlesAt(ids, i) = 1
      BY <1>7, <2>3
    <3>2. PICK t : t = g[i - 1]
      OBVIOUS
    <3>3. t = [j \in 1 .. n |-> IF j <= i - 1 THEN ids[((i - 1) - j) + 1] ELSE ids[j]]
      BY <1>8, <2>3, <3>2
    <3>4. PICK m : m = Moved(t, i, 1)
      OBVIOUS
    <3>5. m = [j \in 1 .. n |-> CASE j = 1 -> t[i]
                                  [] j \in 2 .. i -> t[j - 1]
                                  [] OTHER -> t[j]]
      BY <3>3, <3>4 DEF Moved
    <3>6. ASSUME NEW j \in 1 .. n
          PROVE  m[j] = IF j <= i THEN ids[(i - j) + 1] ELSE ids[j]
      <4>1. CASE j = 1
        BY <2>3, <3>3, <3>5, <4>1
      <4>2. CASE j \in 2 .. i
        <5>1. m[j] = t[j - 1]
          BY <3>5, <4>2
        <5>2. /\ j - 1 \in 1 .. n /\ j - 1 <= i - 1
              /\ ((i - 1) - (j - 1)) + 1 = (i - j) + 1
          BY <4>2
        <5>3. t[j - 1] = ids[((i - 1) - (j - 1)) + 1]
          BY <3>3, <5>2
        <5>4. QED
          BY <4>2, <5>1, <5>2, <5>3
      <4>3. CASE j > i
        BY <2>3, <3>3, <3>5, <4>3
      <4>4. QED
        BY <4>1, <4>2, <4>3
    <3>7. m = g[i]
      BY <2>1, <3>5, <3>6
    <3>8. QED
      BY <2>3, <3>1, <3>2, <3>4, <3>7
  <2>4. QED
    BY <2>2, <2>3
<1>10. SortedIds(ids) = g[n]
  BY <1>5, <1>9, SortedStepwise
<1>11. \A j \in 1 .. n : g[n][j] = s[j]
  <2> SUFFICES ASSUME NEW j \in 1 .. n
               PROVE  g[n][j] = s[j]
    OBVIOUS
  <2>1. g[n][j] = ids[(n - j) + 1] /\ (n - j) + 1 \in 1 .. n
    BY <1>8
  <2>2. ids[(n - j) + 1] = s[(n - ((n - j) + 1)) + 1] /\ (n - ((n - j) + 1)) + 1 = j
    BY <1>4, <2>1
  <2>3. QED
    BY <2>1, <2>2
<1>12. g[n] = s
  BY <1>3, <1>8, <1>11
<1>13. QED
  BY <1>2, <1>5, <1>10, <1>12

----------------------------------------------------------------------------
(* The ways up.                                                            *)

(* The parent of a row is an older row.                                    *)
ParentsAreOlder ==
    \A x \in Rows : parent[x] # NoDir => parent[x] \in Rows /\ born[parent[x]] < born[x]

LEMMA OlderInit == MemoryAssumption /\ Init => ParentsAreOlder
  BY DEF MemoryAssumption, Init, ParentsAreOlder, Rows, Exists

LEMMA OlderStep == MemInv /\ ParentsAreOlder /\ [Next]_vars => ParentsAreOlder'
<1> SUFFICES ASSUME MemInv, ParentsAreOlder, [Next]_vars
             PROVE  ParentsAreOlder'
  OBVIOUS
<1>1. ASSUME NEW r \in Requests, Create(r)
      PROVE  ParentsAreOlder'
  <2>1. PICK d \in Dirs : /\ ~Exists(d)
                          /\ born' = [born EXCEPT ![d] = now + 1]
                          /\ parent' = [parent EXCEPT ![d] = req[r].dir]
    BY <1>1 DEF Create
  <2>2. TypeOK /\ RequestInv(r) /\ pc[r] = "write"
    BY <1>1 DEF MemInv, Create
  <2>3. req[r].dir = NoDir \/ (req[r].dir \in Rows /\ born[req[r].dir] <= now)
    BY <2>2 DEF RequestInv, TypeOK, Rows
  <2>4. QED
    BY <2>1, <2>2, <2>3 DEF TypeOK, ParentsAreOlder, Rows, Exists
<1>2. CASE UNCHANGED <<born, parent>>
  BY <1>2 DEF ParentsAreOlder, Rows, Exists
<1>3. QED
  BY <1>1, <1>2 DEF Next, Handle, vars, mapVars, Receive, Read, UpdateDirectory, LookUp,
     BeginScan, EndScan, NextChild, MarkChild, Spoil

(* Strictly above is an order, and what stands above one directory is a    *)
(* chain.                                                                  *)
LEMMA AboveIsAChain ==
    ASSUME MemoryAssumption, TypeOK, ParentsAreOlder, NEW d \in Dirs
    PROVE  /\ StrictlyAbove(d) \subseteq Rows
           /\ \A x \in StrictlyAbove(d) : born[x] < born[d] /\ d \notin StrictlyAbove(x)
           /\ \A x \in StrictlyAbove(d) : StrictlyAbove(x) \subseteq StrictlyAbove(d)
           /\ \A x, y \in StrictlyAbove(d) :
                x = y \/ x \in StrictlyAbove(y) \/ y \in StrictlyAbove(x)
<1>1. \A e \in Dirs : StrictlyAbove(e) = { x \in Rows : x # e /\ e \in Below(parent, x, Rows) }
  BY DEF StrictlyAbove, Rows
<1>2. ASSUME NEW e \in Dirs, NEW x \in StrictlyAbove(e)
      PROVE  x \in Rows /\ e \in Rows /\ x # e /\ e \in Below(parent, x, Rows) /\ born[x] < born[e]
  <2>1. x \in Rows /\ x # e /\ e \in Below(parent, x, Rows)
    BY <1>1, <1>2
  <2>2. \A y \in Rows : born[y] \in Int /\ (parent[y] \in Rows => born[parent[y]] < born[y])
    BY DEF TypeOK, MemoryAssumption, ParentsAreOlder, Rows
  <2>3. born[x] < born[e]
    BY <2>1, <2>2, BelowIsYounger
  <2>4. e \in Rows
    BY <2>1, BelowIsClosed
  <2>5. QED
    BY <2>1, <2>3, <2>4
<1>3. ASSUME NEW x \in StrictlyAbove(d)
      PROVE  d \notin StrictlyAbove(x)
  <2>1. x \in Rows /\ d \in Rows /\ born[x] < born[d]
    BY <1>2, <1>3
  <2>2. x \in Dirs /\ born[x] \in Int /\ born[d] \in Int
    BY <2>1 DEF Rows, TypeOK
  <2>3. d \in StrictlyAbove(x) => born[d] < born[x]
    BY <1>2, <2>2
  <2>4. QED
    BY <2>1, <2>2, <2>3
<1>4. ASSUME NEW x \in StrictlyAbove(d), NEW y \in StrictlyAbove(x)
      PROVE  y \in StrictlyAbove(d)
  <2>1. x \in Rows /\ x \in Dirs /\ d \in Below(parent, x, Rows)
    BY <1>2 DEF Rows
  <2>2. y \in Rows /\ x \in Below(parent, y, Rows)
    BY <1>2, <2>1
  <2>3. PICK B : B = Below(parent, y, Rows)
    OBVIOUS
  <2>4. B \in SUBSET Rows /\ x \in B /\ ClosedBelow(parent, B, Rows)
    BY <2>2, <2>3, BelowIsClosed DEF ClosedBelow
  <2>5. d \in B
    BY <2>1, <2>4 DEF Below
  <2>6. y # d
    BY <1>3
  <2>7. QED
    BY <1>1, <2>2, <2>3, <2>5, <2>6
<1>5. ASSUME NEW x \in StrictlyAbove(d), NEW y \in StrictlyAbove(d), x # y, x \notin StrictlyAbove(y)
      PROVE  y \in StrictlyAbove(x)
  <2>1. /\ x \in Rows /\ y \in Rows /\ x \in Dirs /\ y \in Dirs
        /\ d \in Below(parent, x, Rows) /\ d \in Below(parent, y, Rows)
    BY <1>2 DEF Rows
  <2>2. y \notin Below(parent, x, Rows)
    BY <1>1, <1>5, <2>1
  <2>3. x \in Below(parent, y, Rows)
    BY <1>5, <2>1, <2>2, BelowBetween
  <2>4. QED
    BY <1>1, <1>5, <2>1, <2>3
<1>6. QED
  BY <1>2, <1>3, <1>4, <1>5

(* The walk up to an ancestor meets what stands between the two.           *)
LEMMA WayUntil ==
    ASSUME MemoryAssumption, TypeOK, ParentsAreOlder, NEW d \in Dirs, NEW anc \in Dirs
    PROVE  Between(d, anc) = IF anc \in StrictlyAbove(d)
                               THEN StrictlyAbove(d) \ StrictlyAbove(anc)
                               ELSE {}
<1>1. /\ StrictlyAbove(d) \subseteq Dirs
      /\ \A x \in StrictlyAbove(d) : StrictlyAbove(x) \subseteq StrictlyAbove(d)
      /\ \A x, y \in StrictlyAbove(d) :
           x = y \/ x \in StrictlyAbove(y) \/ y \in StrictlyAbove(x)
  BY AboveIsAChain DEF Rows
<1>2. \A x \in StrictlyAbove(d) : anc \in StrictlyAbove(x) => x \notin StrictlyAbove(anc)
  BY <1>1, AboveIsAChain
<1>3. anc \notin StrictlyAbove(anc)
  BY DEF StrictlyAbove
<1>4. CASE anc \in StrictlyAbove(d)
  BY <1>1, <1>2, <1>3, <1>4 DEF Between
<1>5. CASE anc \notin StrictlyAbove(d)
  BY <1>1, <1>5 DEF Between
<1>6. QED
  BY <1>4, <1>5

----------------------------------------------------------------------------
(* The listings.                                                           *)

LEMMA NoPages ==
    ASSUME NEW size \in Nat \ {0}, NEW page \in Nat \ {0}
    PROVE  PageOf(<<>>, page, size) = <<>>
<1>1. PICK o : o = size * (page - 1)
  OBVIOUS
<1>2. o \in Nat
  <2>1. page - 1 \in Nat
    OBVIOUS
  <2>2. QED
    BY <1>1, <2>1, NoLess
<1>3. Len(<<>>) = 0
  OBVIOUS
<1>4. CASE o > 0
  BY <1>1, <1>3, <1>4 DEF PageOf
<1>5. CASE o = 0
  <2>1. PageOf(<<>>, page, size) = SubSeq(<<>>, 1, 0)
    BY <1>1, <1>3, <1>5 DEF PageOf
  <2>2. SubSeq(<<>>, 1, 0) = <<>>
    BY SubSeqEmpty
  <2>3. QED
    BY <2>1, <2>2
<1>6. QED
  BY <1>2, <1>4, <1>5

(* A listing that cuts the sorted ids into pages gives them all.           *)
LEMMA ListsAll ==
    ASSUME TypeOK, AgesDiffer, IsFiniteSet(Dirs), NEW S \in SUBSET Rows,
           NEW size \in Nat \ {0}, NEW pages,
           \A page \in PageNumbers : pages[page].ids = PageOf(ByAge(S), page, size)
    PROVE  Joined(pages) = ByAge(S)
<1>1. IsFiniteSet(S) /\ Cardinality(S) \in Nat /\ Cardinality(S) <= Cardinality(Dirs)
  BY FS_Subset, FS_CardinalityType DEF Rows
<1>2. PICK whole : whole = ByAge(S)
  OBVIOUS
<1>3. whole \in Seq(S) /\ Len(whole) <= Cardinality(Dirs)
  BY <1>1, <1>2, ByAgeIsSorted
<1>4. Joined(pages) = whole
  BY <1>2, <1>3, PagesJoin
<1>5. QED
  BY <1>2, <1>4

(* One that fails gives none.                                              *)
LEMMA ListsNone ==
    ASSUME IsFiniteSet(Dirs), NEW size \in Nat \ {0}, NEW pages,
           \A page \in PageNumbers : pages[page].ids = <<>>
    PROVE  Joined(pages) = <<>>
<1>1. PICK none : none = <<>>
  OBVIOUS
<1>2. none \in Seq(Dirs) /\ Len(none) <= Cardinality(Dirs)
  BY <1>1, FS_CardinalityType
<1>3. \A page \in PageNumbers : page \in Nat \ {0}
  BY DEF PageNumbers
<1>4. \A page \in PageNumbers : pages[page].ids = PageOf(none, page, size)
  BY <1>1, <1>3, NoPages
<1>5. Joined(pages) = none
  BY <1>2, <1>4, PagesJoin
<1>6. QED
  BY <1>1, <1>5

(* What the listings rest on.                                              *)
MapInOrder ==
    /\ MemoryAssumption
    /\ IsFiniteSet(Dirs)
    /\ TypeOK
    /\ AgesDiffer
    /\ ParentsAreOlder

LEMMA RootsListed ==
    ASSUME MapInOrder, ~spoiled, NEW size \in Nat \ {0}
    PROVE  RootsAreWhole(size)
<1>1. PICK S : S = { x \in LiveDirs : parent[x] = NoDir }
  OBVIOUS
<1>2. S \in SUBSET Rows /\ S = { x \in Dirs : Visible(x, FALSE) /\ parent[x] = NoDir }
  BY <1>1 DEF Rows, LiveDirs, Live, Visible
<1>3. PICK pages : pages = [page \in PageNumbers |-> ListRoots(FALSE, page, size)]
  OBVIOUS
<1>4. \A page \in PageNumbers : pages[page].ids = PageOf(ByAge(S), page, size)
  BY <1>2, <1>3 DEF ListRoots, Listed
<1>5. Joined(pages) = ByAge(S)
  BY <1>2, <1>4, ListsAll DEF MapInOrder
<1>6. QED
  BY <1>1, <1>3, <1>5 DEF RootsAreWhole

LEMMA ChildrenListed ==
    ASSUME MapInOrder, ~spoiled, NEW size \in Nat \ {0}, NEW d \in LiveDirs
    PROVE  ChildrenAreWhole(d, size)
<1>1. PICK S : S = Below(parent, d, LiveDirs) \ {d}
  OBVIOUS
<1>2. S \in SUBSET Rows
  <2>1. LiveDirs \subseteq Rows
    BY DEF LiveDirs, Live, Rows
  <2>2. QED
    BY <1>1, <2>1, BelowIsClosed
<1>3. S = Children(d, { x \in Dirs : Visible(x, FALSE) })
  <2>1. { x \in Dirs : Visible(x, FALSE) } = LiveDirs /\ LiveDirs \cup {d} = LiveDirs
    BY DEF LiveDirs, Live, Visible
  <2>2. QED
    BY <1>1, <2>1 DEF Children
<1>4. PICK pages : pages = [page \in PageNumbers |-> GetChildren(d, FALSE, page, size)]
  OBVIOUS
<1>5. \A page \in PageNumbers : pages[page].ids = PageOf(ByAge(S), page, size)
  BY <1>3, <1>4 DEF GetChildren, Listed
<1>6. Joined(pages) = ByAge(S)
  BY <1>2, <1>5, ListsAll DEF MapInOrder
<1>7. QED
  BY <1>1, <1>4, <1>6 DEF ChildrenAreWhole

(* A listing of a way up gives it all, or none when it meets a deleted     *)
(* directory.                                                              *)
LEMMA WayListed ==
    ASSUME MapInOrder, NEW size \in Nat \ {0}, NEW S \in SUBSET Rows, NEW pages,
           \A page \in PageNumbers :
               pages[page].ids = IF S \cap dead = {} THEN PageOf(SortedIds(WayUp(S)), page, size)
                                                      ELSE <<>>
    PROVE  Joined(pages) = LiveWay(S)
<1>1. IsFiniteSet(S) /\ TypeOK /\ AgesDiffer /\ IsFiniteSet(Dirs)
  BY FS_Subset DEF Rows, MapInOrder
<1>2. CASE S \cap dead = {}
  <2>1. SortedIds(WayUp(S)) = ByAge(S)
    BY <1>1, WayUpIsTurned
  <2>2. \A page \in PageNumbers : pages[page].ids = PageOf(ByAge(S), page, size)
    BY <1>2, <2>1
  <2>3. Joined(pages) = ByAge(S)
    BY <1>1, <2>2, ListsAll
  <2>4. QED
    BY <1>2, <2>3 DEF LiveWay
<1>3. CASE S \cap dead # {}
  <2>1. \A page \in PageNumbers : pages[page].ids = <<>>
    BY <1>3
  <2>2. Joined(pages) = <<>>
    BY <1>1, <2>1, ListsNone
  <2>3. QED
    BY <1>3, <2>2 DEF LiveWay
<1>4. QED
  BY <1>2, <1>3

(* The rows of a way are visible when none of them is deleted.             *)
LEMMA VisibleWay ==
    ASSUME NEW d \in LiveDirs, NEW S \in SUBSET Rows
    PROVE  (\A x \in {d} \cup S : Visible(x, FALSE)) <=> S \cap dead = {}
BY DEF Visible, Rows, LiveDirs, Live

LEMMA ParentsListed ==
    ASSUME MapInOrder, NEW size \in Nat \ {0}, NEW d \in LiveDirs
    PROVE  ParentsAreWhole(d, size)
<1>1. PICK S : S = StrictlyAbove(d)
  OBVIOUS
<1>2. S \in SUBSET Rows
  BY <1>1, AboveIsAChain DEF MapInOrder, LiveDirs
<1>3. PICK pages : pages = [page \in PageNumbers |-> GetParents(d, FALSE, page, size)]
  OBVIOUS
<1>4. (\A x \in {d} \cup S : Visible(x, FALSE)) <=> S \cap dead = {}
  BY <1>2, VisibleWay
<1>5. \A page \in PageNumbers :
          pages[page].ids = IF S \cap dead = {} THEN PageOf(SortedIds(WayUp(S)), page, size)
                                                 ELSE <<>>
  BY <1>1, <1>3, <1>4 DEF GetParents, Listed, NotFound
<1>6. Joined(pages) = LiveWay(S)
  BY <1>2, <1>5, WayListed
<1>7. QED
  BY <1>1, <1>3, <1>6 DEF ParentsAreWhole

LEMMA FailuresListNothing == NotFound.ids = <<>> /\ Panics.ids = <<>>
<1>1. NotFound.ids = <<>>
  BY Zenon DEF NotFound
<1>2. Panics.ids = <<>>
  BY Zenon DEF Panics
<1>3. QED
  BY <1>1, <1>2

LEMMA ParentsUntilListed ==
    ASSUME MapInOrder, NEW size \in Nat \ {0}, NEW d \in LiveDirs, NEW anc \in LiveDirs
    PROVE  ParentsUntilAreWhole(d, anc, size)
<1>1. PICK S, way : S = Between(d, anc) /\ way = StrictlyAbove(d) \ StrictlyAbove(anc)
  OBVIOUS
<1>2. /\ S = IF anc \in StrictlyAbove(d) THEN way ELSE {}
      /\ StrictlyAbove(d) \subseteq Rows
      /\ anc \notin StrictlyAbove(anc) /\ d \notin StrictlyAbove(d)
  BY <1>1, WayUntil, AboveIsAChain DEF MapInOrder, LiveDirs, StrictlyAbove
<1>3. PICK pages : pages = [page \in PageNumbers |-> GetParentsUntilAncestor(d, anc, FALSE, page, size)]
  OBVIOUS
<1>4. CASE anc \in StrictlyAbove(d)
  <2>1. S = way /\ anc \in way /\ d # anc /\ S \in SUBSET Rows
    BY <1>1, <1>2, <1>4
  <2>2. (\A x \in {d} \cup way : Visible(x, FALSE)) <=> S \cap dead = {}
    BY <2>1, VisibleWay
  <2>3. ASSUME NEW page \in PageNumbers
        PROVE  pages[page].ids = IF S \cap dead = {} THEN PageOf(SortedIds(WayUp(S)), page, size)
                                                      ELSE <<>>
    <3>1. CASE S \cap dead = {}
      <4>1. pages[page] = Listed(PageOf(SortedIds(WayUp(way)), page, size))
        BY <1>1, <1>3, <2>1, <2>2, <3>1 DEF GetParentsUntilAncestor
      <4>2. QED
        BY <2>1, <3>1, <4>1 DEF Listed
    <3>2. CASE S \cap dead # {}
      <4>1. pages[page] = NotFound
        BY <1>1, <1>3, <2>1, <2>2, <3>2 DEF GetParentsUntilAncestor
      <4>2. QED
        BY <3>2, <4>1, FailuresListNothing
    <3>3. QED
      BY <3>1, <3>2
  <2>4. Joined(pages) = LiveWay(S)
    BY <2>1, <2>3, WayListed
  <2>5. QED
    BY <1>1, <1>3, <2>4 DEF ParentsUntilAreWhole
<1>5. CASE anc \notin StrictlyAbove(d)
  <2>1. S = {} /\ anc \notin way
    BY <1>1, <1>2, <1>5
  <2>2. ASSUME NEW page \in PageNumbers
        PROVE  pages[page].ids = <<>>
    <3>1. pages[page] = Panics \/ pages[page] = NotFound
      BY <1>1, <1>3, <2>1 DEF GetParentsUntilAncestor
    <3>2. QED
      BY <3>1, FailuresListNothing
  <2>3. Joined(pages) = <<>>
    BY <2>2, ListsNone DEF MapInOrder
  <2>4. LiveWay(S) = <<>>
    <3>1. Cardinality(S) = 0
      BY <2>1, FS_EmptySet
    <3>2. ByAge(S) = <<>>
      BY <3>1 DEF ByAge
    <3>3. QED
      BY <3>2 DEF LiveWay
  <2>5. QED
    BY <1>1, <1>3, <2>3, <2>4 DEF ParentsUntilAreWhole
<1>6. QED
  BY <1>4, <1>5

LEMMA AllListed ==
    ASSUME MapInOrder, ~spoiled, NEW size \in Nat \ {0}
    PROVE  AllAreWhole(size)
BY RootsListed, ChildrenListed, ParentsListed, ParentsUntilListed DEF AllAreWhole

LEMMA MapStaysInOrder ==
    ASSUME IsFiniteSet(Dirs)
    PROVE  Spec => []MapInOrder
<1>1. Spec => []MemInv
  BY MemoryAssumption, MemInit, MemStep, PTL DEF Spec
<1>2. Spec => []AgesDiffer
  BY MemoryAssumption, TypeCorrect, AgesInit, AgesStep, PTL DEF Spec
<1>3. Spec => []ParentsAreOlder
  BY <1>1, MemoryAssumption, OlderInit, OlderStep, PTL DEF Spec
<1>4. MemInv /\ AgesDiffer /\ ParentsAreOlder => MapInOrder
  BY MemoryAssumption DEF MemInv, MapInOrder
<1>5. QED
  BY <1>1, <1>2, <1>3, <1>4, PTL

(* The listings give each directory they are to list once and nothing      *)
(* else, the older one first, in pages of every size.                      *)
THEOREM PagesOfEverySize ==
    ASSUME IsFiniteSet(Dirs), NEW size \in Nat \ {0}
    PROVE  Spec => [](Quiet => AllAreWhole(size))
<1>1. MapInOrder => (Quiet => AllAreWhole(size))
  BY AllListed DEF Quiet
<1>2. QED
  BY <1>1, MapStaysInOrder, PTL

(* So do those of the pages that are checked on a small map.               *)
THEOREM WholeListings ==
    ASSUME IsFiniteSet(Dirs)
    PROVE  Spec => []ListingsAreWhole
<1>1. MapInOrder => ListingsAreWhole
  <2> SUFFICES ASSUME MapInOrder, Quiet, NEW size \in {1, 2}
               PROVE  AllAreWhole(size)
    BY DEF ListingsAreWhole
  <2>1. size \in Nat \ {0}
    OBVIOUS
  <2>2. QED
    BY <2>1, AllListed DEF Quiet
<1>2. QED
  BY <1>1, MapStaysInOrder, PTL

=============================================================================
