-------------------------- MODULE DirectoriesProofs --------------------------
(***************************************************************************)
(* The invariants of the directories table, proved for every set of ids,   *)
(* every seed and every sequence of the driver's statements.               *)
(***************************************************************************)
EXTENDS Directories, TreesProofs

(* What a delete of d touches: live rows that are no roots, and with each  *)
(* of them all its live children.                                          *)
LEMMA DoomedRows ==
    ASSUME TableTypeOK, NEW d \in Dirs
    PROVE  /\ \A x \in Doomed(d) : x \in Dirs /\ Live(x) /\ ~Root(x)
           /\ \A x \in Dirs : (Live(x) /\ parent[x] \in Doomed(d)) => x \in Doomed(d)
<1>1. CASE Live(d) /\ ~Root(d)
  <2>1. Doomed(d) = Below(parent, d, LiveDirs) /\ d \in LiveDirs
    BY <1>1 DEF Doomed, LiveDirs
  <2>2. \A x \in Doomed(d) : x \in Dirs /\ Live(x)
    BY <2>1, BelowIsClosed DEF LiveDirs
  <2>3. ASSUME NEW x \in Doomed(d), x # d
        PROVE  ~Root(x)
    <3>1. parent[x] \in LiveDirs
      BY <2>1, <2>3, BelowHasVisibleParents
    <3>2. QED
      BY <3>1, NoDirAssumption DEF Root, LiveDirs
  <2>4. ASSUME NEW x \in Dirs, Live(x), parent[x] \in Doomed(d)
        PROVE  x \in Doomed(d)
    <3>1. x \in LiveDirs
      BY <2>4 DEF LiveDirs
    <3>2. QED
      BY <3>1, <2>1, <2>4, BelowIsClosed
  <2>5. QED
    BY <1>1, <2>2, <2>3, <2>4
<1>2. CASE ~(Live(d) /\ ~Root(d))
  BY <1>2 DEF Doomed
<1>3. QED
  BY <1>1, <1>2

----------------------------------------------------------------------------
(* Every step keeps the types of the table's columns.                      *)
LEMMA TableTypeInit == TableInit => TableTypeOK
BY SeedAssumption DEF TableInit, TableTypeOK, Edit, Text

LEMMA TableTypeStep == TableTypeOK /\ [TableNext]_tableVars => TableTypeOK'
<1> SUFFICES ASSUME TableTypeOK, [TableNext]_tableVars
             PROVE  TableTypeOK'
  OBVIOUS
<1> USE DEF TableTypeOK
<1>1. ASSUME NEW d \in Dirs, NEW p \in Dirs \cup {NoDir}, NEW text \in Text,
             Insert(d, p, text)
      PROVE  TableTypeOK'
  <2>1. now' \in Nat /\ now' = now + 1 /\ follower' \in 0 .. now'
    BY <1>1 DEF Insert, Commit
  <2>2. born' \in [Dirs -> 0 .. now'] /\ died' \in [Dirs -> 0 .. now']
    BY <1>1, <2>1 DEF Insert
  <2>3. edits' \subseteq Edit
    BY <1>1 DEF Insert, Edit
  <2>4. QED
    BY <1>1, <2>1, <2>2, <2>3 DEF Insert
<1>2. ASSUME NEW d \in Dirs, NEW text \in Text, UpdateRow(d, text)
      PROVE  TableTypeOK'
  BY <1>2 DEF UpdateRow, Commit, Edit
<1>3. ASSUME NEW d \in Dirs, SoftDelete(d)
      PROVE  TableTypeOK'
  <2>1. now' \in Nat /\ now <= now' /\ (Doomed(d) # {} => now' = now + 1)
    BY <1>3 DEF SoftDelete, Commit
  <2>2. died' \in [Dirs -> 0 .. now']
    BY <1>3, <2>1 DEF SoftDelete
  <2>3. QED
    BY <1>3, <2>1, <2>2 DEF SoftDelete
<1>4. CASE CatchUp
  BY <1>4 DEF CatchUp
<1>5. CASE UNCHANGED tableVars
  BY <1>5 DEF tableVars
<1>6. QED
  BY <1>1, <1>2, <1>3, <1>4, <1>5 DEF TableNext

THEOREM TableTypeCorrect == TableSpec => []TableTypeOK
<1>1. QED
  BY TableTypeInit, TableTypeStep, PTL DEF TableSpec

----------------------------------------------------------------------------
(* Forest is inductive on top of the types: a new row's parent exists, and *)
(* a row that did not exist was nobody's parent; no root is ever doomed.   *)
LEMMA ForestInit == TableInit => Forest
BY SeedAssumption DEF TableInit, Forest, Root, Exists

LEMMA ForestStep == TableTypeOK /\ Forest /\ [TableNext]_tableVars => Forest'
<1> SUFFICES ASSUME TableTypeOK, Forest, [TableNext]_tableVars,
                    NEW x \in Dirs
             PROVE  ( /\ ~Root(x) => /\ Exists(x) /\ Exists(parent[x])
                                     /\ born[parent[x]] < born[x]
                      /\ Root(x) => died[x] = 0 )'
  BY DEF Forest
<1> USE DEF Forest, Root, Exists
<1>1. ASSUME NEW d \in Dirs, NEW p \in Dirs \cup {NoDir}, NEW text \in Text,
             Insert(d, p, text)
      PROVE  ( /\ ~Root(x) => /\ Exists(x) /\ Exists(parent[x])
                              /\ born[parent[x]] < born[x]
               /\ Root(x) => died[x] = 0 )'
  <2>1. /\ parent' = [parent EXCEPT ![d] = p] /\ born' = [born EXCEPT ![d] = now + 1]
        /\ died' = died /\ ~(born[d] > 0) /\ (p # NoDir => born[p] > 0)
    BY <1>1 DEF Insert
  <2>2. /\ now \in Nat /\ born \in [Dirs -> 0 .. now]
        /\ parent \in [Dirs -> Dirs \cup {NoDir}]
    BY DEF TableTypeOK
  <2>3. CASE x = d
    <3>1. died[d] = 0
      BY <2>1, <2>2
    <3>2. p # NoDir => p \in Dirs /\ p # d /\ born[p] < now + 1
      BY <2>1, <2>2
    <3>3. QED
      BY <2>1, <2>2, <2>3, <3>1, <3>2
  <2>4. CASE x # d
    <3>1. parent'[x] = parent[x] /\ born'[x] = born[x]
      BY <2>1, <2>2, <2>4
    <3>2. parent[x] # NoDir => parent[x] \in Dirs /\ parent[x] # d
      BY <2>1, <2>2
    <3>3. parent[x] # NoDir => born'[parent[x]] = born[parent[x]]
      BY <2>1, <2>2, <3>2
    <3>4. QED
      BY <2>1, <3>1, <3>2, <3>3
  <2>5. QED
    BY <2>3, <2>4
<1>2. ASSUME NEW d \in Dirs, SoftDelete(d)
      PROVE  ( /\ ~Root(x) => /\ Exists(x) /\ Exists(parent[x])
                              /\ born[parent[x]] < born[x]
               /\ Root(x) => died[x] = 0 )'
  BY <1>2, DoomedRows DEF SoftDelete
<1>3. CASE UNCHANGED <<parent, born, died>>
  BY <1>3
<1>4. QED
  BY <1>1, <1>2, <1>3 DEF TableNext, UpdateRow, CatchUp, tableVars

(* CascadeIsComplete needs the types and the forest: an insertion below a  *)
(* deleted parent is stamped later than the deletion, and a deletion takes *)
(* the live children of all it takes.                                      *)
Cascaded(x) ==
    (~Root(x) /\ died[parent[x]] # 0) =>
        \/ died[x] # 0 /\ died[x] <= died[parent[x]]
        \/ died[parent[x]] < born[x]

LEMMA CascadeInit == TableInit => CascadeIsComplete
BY SeedAssumption DEF TableInit, CascadeIsComplete, Root

LEMMA CascadeStep ==
    TableTypeOK /\ Forest /\ CascadeIsComplete /\ [TableNext]_tableVars
        => CascadeIsComplete'
<1> SUFFICES ASSUME TableTypeOK, Forest, CascadeIsComplete, [TableNext]_tableVars,
                    NEW x \in Dirs
             PROVE  Cascaded(x)'
  BY DEF CascadeIsComplete, Cascaded
<1>0. Cascaded(x)
  BY DEF CascadeIsComplete, Cascaded
<1>t. /\ now \in Nat /\ born \in [Dirs -> 0 .. now] /\ died \in [Dirs -> 0 .. now]
      /\ parent \in [Dirs -> Dirs \cup {NoDir}]
  BY DEF TableTypeOK
<1>1. ASSUME NEW d \in Dirs, NEW p \in Dirs \cup {NoDir}, NEW text \in Text,
             Insert(d, p, text)
      PROVE  Cascaded(x)'
  <2>1. /\ parent' = [parent EXCEPT ![d] = p] /\ born' = [born EXCEPT ![d] = now + 1]
        /\ died' = died
    BY <1>1 DEF Insert
  <2>2. CASE x = d
    <3>1. ASSUME p # NoDir
          PROVE  died'[p] < born'[d]
      BY <2>1, <1>t, <3>1
    <3>2. QED
      BY <2>1, <2>2, <3>1, <1>t DEF Cascaded, Root
  <2>3. CASE x # d
    <3>1. parent'[x] = parent[x] /\ born'[x] = born[x]
      BY <2>1, <2>3, <1>t
    <3>2. QED
      BY <1>0, <2>1, <3>1 DEF Cascaded, Root
  <2>4. QED
    BY <2>2, <2>3
<1>2. ASSUME NEW d \in Dirs, SoftDelete(d)
      PROVE  Cascaded(x)'
  <2>1. /\ parent' = parent /\ born' = born
        /\ \A y \in Dirs : died'[y] = IF y \in Doomed(d) THEN now + 1 ELSE died[y]
    BY <1>2 DEF SoftDelete
  <2> SUFFICES ASSUME ~Root(x), died'[parent[x]] # 0
               PROVE  \/ died'[x] # 0 /\ died'[x] <= died'[parent[x]]
                      \/ died'[parent[x]] < born[x]
    BY <2>1 DEF Cascaded, Root
  <2>2. parent[x] \in Dirs /\ Exists(x)
    BY <1>t DEF Root, Forest
  <2>3. CASE parent[x] \in Doomed(d)
    <3>1. died'[parent[x]] = now + 1
      BY <2>1, <2>2, <2>3
    <3>2. Live(x) => x \in Doomed(d)
      BY <2>3, DoomedRows
    <3>3. died'[x] # 0 /\ died'[x] <= now + 1
      BY <2>1, <2>2, <3>2, <1>t DEF Live
    <3>4. QED
      BY <3>1, <3>3
  <2>4. CASE parent[x] \notin Doomed(d)
    <3>1. died'[parent[x]] = died[parent[x]]
      BY <2>1, <2>2, <2>4
    <3>2. x \in Doomed(d) => died[x] = 0
      BY DoomedRows DEF Live
    <3>3. QED
      BY <1>0, <2>1, <3>1, <3>2 DEF Cascaded
  <2>5. QED
    BY <2>3, <2>4
<1>3. CASE UNCHANGED <<parent, born, died>>
  BY <1>0, <1>3 DEF Cascaded, Root
<1>4. QED
  BY <1>1, <1>2, <1>3 DEF TableNext, UpdateRow, CatchUp, tableVars

----------------------------------------------------------------------------
(* The inductive invariant of the table.                                   *)
TableInv == TableTypeOK /\ Forest /\ CascadeIsComplete

LEMMA TableInvInit == TableInit => TableInv
BY TableTypeInit, ForestInit, CascadeInit DEF TableInv

LEMMA TableInvStep == TableInv /\ [TableNext]_tableVars => TableInv'
BY TableTypeStep, ForestStep, CascadeStep DEF TableInv

(* Rows and deletions are permanent: what a step of the table leaves alone. *)
LEMMA HistoryStep ==
    TableTypeOK /\ [TableNext]_tableVars =>
        \A d \in Dirs : /\ Exists(d) => born'[d] = born[d] /\ parent'[d] = parent[d]
                        /\ died[d] # 0 => died'[d] = died[d]
<1> SUFFICES ASSUME TableTypeOK, [TableNext]_tableVars, NEW x \in Dirs
             PROVE  /\ Exists(x) => born'[x] = born[x] /\ parent'[x] = parent[x]
                    /\ died[x] # 0 => died'[x] = died[x]
  OBVIOUS
<1>1. ASSUME NEW d \in Dirs, NEW p \in Dirs \cup {NoDir}, NEW text \in Text,
             Insert(d, p, text)
      PROVE  /\ Exists(x) => born'[x] = born[x] /\ parent'[x] = parent[x]
             /\ died[x] # 0 => died'[x] = died[x]
  BY <1>1 DEF Insert, TableTypeOK, Exists
<1>2. ASSUME NEW d \in Dirs, SoftDelete(d)
      PROVE  /\ Exists(x) => born'[x] = born[x] /\ parent'[x] = parent[x]
             /\ died[x] # 0 => died'[x] = died[x]
  BY <1>2, DoomedRows DEF SoftDelete, Live
<1>3. CASE UNCHANGED <<parent, born, died>>
  BY <1>3
<1>4. QED
  BY <1>1, <1>2, <1>3 DEF TableNext, UpdateRow, CatchUp, tableVars

(* Whatever statements the driver runs, the rows form a forest, cascades   *)
(* are complete and history stands.                                        *)
THEOREM TableCorrect == TableSpec => [](TableTypeOK /\ Forest /\ CascadeIsComplete)
BY TableInvInit, TableInvStep, PTL DEF TableSpec, TableInv

THEOREM TableHistoryStands == TableSpec => HistoryStands
<1>1. TableTypeOK /\ [TableNext]_tableVars =>
        [\A d \in Dirs : /\ Exists(d) => born'[d] = born[d] /\ parent'[d] = parent[d]
                         /\ died[d] # 0 => died'[d] = died[d]]_tableVars
  BY HistoryStep
<1>2. QED
  BY <1>1, TableTypeCorrect, PTL DEF TableSpec, HistoryStands

=============================================================================
