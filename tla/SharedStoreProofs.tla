--------------------------- MODULE SharedStoreProofs ---------------------------
(***************************************************************************)
(* Proofs about SharedStore, for any number of controllers, any tree and   *)
(* any number of starts.  The inductive invariant says of each controller  *)
(* what it owes the application (Owes): the controller that has inserted a *)
(* row, or marked it, is the only one that still has to call for it.       *)
(***************************************************************************)
EXTENDS SharedStore, TreesProofs, FiniteSetTheorems

LEMMA ForestStep ==
    ASSUME ForestTypeOK, ForestNext
    PROVE  ForestTypeOK' /\ planted \subseteq planted' /\ felled \subseteq felled'
<1>1. ASSUME NEW d \in Dirs, NEW p \in Dirs \cup {NoDir}, Plant(d, p)
      PROVE  ForestTypeOK' /\ planted \subseteq planted' /\ felled \subseteq felled'
  BY <1>1 DEF ForestTypeOK, Plant
<1>2. ASSUME NEW d \in Dirs, Fell(d)
      PROVE  ForestTypeOK' /\ planted \subseteq planted' /\ felled \subseteq felled'
  <2>1. Below(up, d, Standing) \subseteq Standing
    BY BelowIsClosed
  <2>2. QED
    BY <1>2, <2>1 DEF ForestTypeOK, Fell, Standing
<1>3. QED
  BY <1>1, <1>2 DEF ForestNext

----------------------------------------------------------------------------
(* The invariant.                                                          *)

(* The change that w is has been made in the store.                        *)
Made(w) == row[w.dir] \in IF w.type = "create" THEN {"live", "deleted"} ELSE {"deleted"}

(* What is handled is so.                                                  *)
WorkIsTrue ==
    \A c \in Controllers : pc[c] \notin {"stopped", "idle"} => True(work[c])

(* A controller that has made a change still owes its calls.               *)
Owes(c) ==
    /\ pc[c] \in {"created", "reconcile"} => Made(work[c]) /\ told[work[c]] = 0
    /\ pc[c] = "created" => called[work[c]] = 0
    /\ pc[c] \in {"reconcile", "mark"} => called[work[c]] > 0

(* No two owe the same.                                                    *)
OneOwner ==
    \A c, k \in Controllers :
        (c # k /\ pc[c] \in {"created", "reconcile"} /\ pc[k] \in {"created", "reconcile"})
            => work[c] # work[k]

(* What the store and the application's books say.                         *)
BooksAreTrue ==
    \A w \in Change :
        /\ told[w] <= 1
        /\ told[w] > 0 => Made(w) /\ called[w] > 0
        /\ w.type = "create" => called[w] <= 1 /\ (called[w] > 0 => Made(w))
        /\ Made(w) => True(w)
        /\ w.type = "delete" => /\ Made(w) => called[w] > 0
                                /\ called[w] > 0 => True(w)

ShInv ==
    /\ TypeOK
    /\ WorkIsTrue
    /\ \A c \in Controllers : Owes(c)
    /\ OneOwner
    /\ BooksAreTrue

LEMMA ShInit == SharedAssumption /\ Init => ShInv
<1> SUFFICES ASSUME SharedAssumption, Init
             PROVE  ShInv
  OBVIOUS
<1>1. ForestTypeOK
  BY DEF SharedAssumption, Init, ForestInit, ForestTypeOK
<1>2. TypeOK
  BY <1>1 DEF Init, TypeOK, PCs, Persisting
<1>3. WorkIsTrue /\ (\A c \in Controllers : Owes(c)) /\ OneOwner
  BY DEF Init, WorkIsTrue, Owes, OneOwner
<1>4. BooksAreTrue
  BY DEF Init, BooksAreTrue, Made, Change
<1>5. QED
  BY <1>2, <1>3, <1>4 DEF ShInv

(* What is so stays so.                                                    *)
LEMMA TrueStays ==
    ASSUME planted \subseteq planted', felled \subseteq felled', NEW w, True(w)
    PROVE  True(w)'
  BY DEF True

(* A step of one controller that touches neither store nor books.          *)
LEMMA QuietStep ==
    ASSUME ShInv, NEW c \in Controllers, TypeOK', UNCHANGED <<forestVars, row, called, told>>,
           \A k \in Controllers \ {c} : pc'[k] = pc[k] /\ work'[k] = work[k],
           pc'[c] \notin {"created", "reconcile", "mark"},
           pc'[c] \notin {"stopped", "idle"} => True(work'[c])
    PROVE  ShInv'
<1>1. UNCHANGED <<up, planted, felled>>
  BY DEF forestVars
<1>2. WorkIsTrue'
  BY <1>1 DEF ShInv, WorkIsTrue, True
<1>3. \A k \in Controllers : Owes(k)'
  BY DEF ShInv, Owes, Made
<1>4. OneOwner'
  BY DEF ShInv, OneOwner
<1>5. BooksAreTrue'
  BY <1>1 DEF ShInv, BooksAreTrue, Made, True
<1>6. QED
  BY <1>2, <1>3, <1>4, <1>5 DEF ShInv

LEMMA PersistIs ==
    ASSUME ShInv, NEW c \in Controllers, Persist(c), pc[c] \in {"relevant", "parent", "compare"}
    PROVE  /\ \A k \in Controllers \ {c} : pc'[k] = pc[k] /\ work'[k] = work[k]
           /\ work'[c] \in Change /\ True(work'[c])
           /\ \/ pc'[c] = "insert" /\ work'[c].type = "create"
              \/ pc'[c] = "callback" /\ work'[c].type = "delete"
           /\ pc' \in [Controllers -> PCs] /\ work' \in [Controllers -> Fact \cup {NoWork}]
<1>1. work[c] \in Fact /\ True(work[c])
  BY DEF ShInv, TypeOK, WorkIsTrue
<1>2. Asked(work[c]) \in Change /\ True(Asked(work[c]))
  BY <1>1 DEF Asked, Change, Fact, True, ShInv, TypeOK, ForestTypeOK
<1>3. Change \subseteq Fact
  BY DEF Change, Fact
<1>4. QED
  BY <1>2, <1>3 DEF Persist, FirstCall, Goto, ShInv, TypeOK, PCs, Persisting, Change

LEMMA ShStep == SharedAssumption /\ ShInv /\ [Next]_vars => ShInv'
<1> SUFFICES ASSUME SharedAssumption, ShInv, [Next]_vars
             PROVE  ShInv'
  OBVIOUS
<1>0. TypeOK
  BY DEF ShInv
<1> USE DEF Goto, Stop, PCs, Persisting
<1>1. ASSUME NEW c \in Controllers, Start(c) \/ Fails(c)
      PROVE  ShInv'
  <2>1. TypeOK'
    BY <1>0, <1>1 DEF TypeOK, Start, Fails, appVars, forestVars, ForestTypeOK
  <2>2. QED
    BY <1>0, <1>1, <2>1, QuietStep DEF TypeOK, Start, Fails, appVars
<1>2. ASSUME NEW c \in Controllers, NEW fact \in Fact, Hear(c, fact)
      PROVE  ShInv'
  <2>1. TypeOK'
    BY <1>0, <1>2 DEF TypeOK, Hear, appVars, forestVars, ForestTypeOK
  <2>2. True(work'[c])
    BY <1>0, <1>2 DEF TypeOK, Hear
  <2>3. QED
    BY <1>0, <1>2, <2>1, <2>2, QuietStep DEF TypeOK, Hear, appVars
<1>3. ASSUME NEW c \in Controllers, NEW d \in Dirs, Get(c, d)
      PROVE  ShInv'
  <2> DEFINE w == [type |-> "create", dir |-> d]
  <2>1. Below(up, Base, Standing) \subseteq Standing
    BY BelowIsClosed
  <2>2. w \in Fact /\ True(w)
    BY <1>0, <1>3, <2>1 DEF Get, Fact, True, Standing
  <2>3. work' = [work EXCEPT ![c] = w]
    BY <1>3 DEF Get
  <2> HIDE DEF w
  <2>4. TypeOK'
    BY <1>0, <1>3, <2>2, <2>3 DEF TypeOK, Get, appVars, forestVars, ForestTypeOK
  <2>5. QED
    BY <1>0, <1>3, <2>2, <2>3, <2>4, QuietStep DEF TypeOK, Get, appVars
<1>4. ASSUME NEW c \in Controllers, AskTracked(c) \/ AskParentTracked(c) \/ Compare(c)
      PROVE  ShInv'
  <2>1. /\ UNCHANGED <<forestVars, crew, row, appVars, starts>>
        /\ pc[c] \in {"relevant", "parent", "compare"}
        /\ \/ Persist(c)
           \/ /\ pc'[c] \in {"parent", "idle"} /\ work' = work
              /\ pc' = [pc EXCEPT ![c] = pc'[c]]
    BY <1>0, <1>4 DEF AskTracked, AskParentTracked, Compare, TypeOK
  <2>2. CASE Persist(c)
    <3>1. TypeOK'
      BY <1>0, <2>1, <2>2, PersistIs DEF TypeOK, appVars, forestVars, ForestTypeOK
    <3>2. QED
      BY <2>1, <2>2, <3>1, PersistIs, QuietStep DEF appVars
  <2>3. CASE ~Persist(c)
    <3>1. TypeOK'
      BY <1>0, <2>1, <2>3 DEF TypeOK, appVars, forestVars, ForestTypeOK
    <3>2. True(work'[c])
      BY <2>1, <2>3 DEF ShInv, WorkIsTrue
    <3>3. QED
      BY <1>0, <2>1, <2>3, <3>1, <3>2, QuietStep DEF TypeOK, appVars
  <2>4. QED
    BY <2>2, <2>3
<1>5. ASSUME NEW c \in Controllers, Insert(c) \/ Mark(c)
      PROVE  ShInv'
  <2> DEFINE w == work[c]
  <2>1. w \in Change /\ True(w)
    BY <1>0, <1>5 DEF TypeOK, Insert, Mark, ShInv, WorkIsTrue
  <2>2. /\ UNCHANGED <<forestVars, crew, work, called, told, starts, late>>
        /\ \/ Stop(c) /\ row' = row
           \/ /\ ~Made(w) /\ Made(w)'
              /\ row' = [row EXCEPT ![w.dir] = IF w.type = "create" THEN "live" ELSE "deleted"]
              /\ pc[c] = IF w.type = "create" THEN "insert" ELSE "mark"
              /\ pc' = [pc EXCEPT ![c] = IF w.type = "create" THEN "created" ELSE "reconcile"]
              /\ w.type = "delete" => row[w.dir] = "live"
    BY <1>0, <1>5, <2>1 DEF TypeOK, Insert, Mark, appVars, Made, Change
  <2>3. CASE Stop(c) /\ row' = row
    <3>1. TypeOK'
      BY <1>0, <2>2, <2>3 DEF TypeOK, forestVars, ForestTypeOK
    <3>2. QED
      BY <1>0, <2>2, <2>3, <3>1, QuietStep DEF TypeOK
  <2>4. CASE ~(Stop(c) /\ row' = row)
    <3>0. w \in Change /\ w.dir \in Dirs /\ w.type \in {"create", "delete"}
      BY <2>1 DEF Change
    <3>1. TypeOK'
      BY <1>0, <2>2, <2>4, <3>0 DEF TypeOK, forestVars, ForestTypeOK
    <3>2. WorkIsTrue'
      BY <1>0, <2>2, <2>4, <2>1 DEF ShInv, WorkIsTrue, True, forestVars, TypeOK
    <3>3. \A v \in Change : Made(v)' <=> Made(v) \/ v = w
      BY <1>0, <2>2, <2>4, <3>0 DEF Made, Change, TypeOK
    <3>4. told[w] = 0 /\ (w.type = "create" => called[w] = 0) /\ (w.type = "delete" => called[w] > 0)
      BY <1>0, <2>2, <2>4, <3>0 DEF ShInv, BooksAreTrue, Owes, TypeOK
    <3>5. \A k \in Controllers \ {c} :
             pc[k] \in {"created", "reconcile"} => Made(work[k]) /\ work[k] \in Change /\ work[k] # w
      BY <1>0, <2>2, <2>4 DEF ShInv, Owes, TypeOK
    <3>6. \A k \in Controllers : Owes(k)'
      BY <1>0, <2>2, <2>4, <3>0, <3>3, <3>4, <3>5 DEF ShInv, Owes, TypeOK
    <3>7. OneOwner'
      BY <1>0, <2>2, <2>4, <3>5 DEF ShInv, OneOwner, TypeOK
    <3>8. BooksAreTrue'
      BY <1>0, <2>1, <2>2, <2>4, <3>0, <3>3, <3>4 DEF ShInv, BooksAreTrue, TypeOK, True, forestVars
    <3>9. QED
      BY <3>1, <3>2, <3>6, <3>7, <3>8 DEF ShInv
  <2>5. QED
    BY <2>3, <2>4
<1>6. ASSUME NEW c \in Controllers, CallCreated(c) \/ CallDelete(c)
      PROVE  ShInv'
  <2> DEFINE w == work[c]
  <2>1. /\ w \in Change /\ True(w)
        /\ w.type = IF pc[c] = "created" THEN "create" ELSE "delete"
    BY <1>0, <1>6 DEF TypeOK, CallCreated, CallDelete, ShInv, WorkIsTrue, Change
  <2>2. /\ UNCHANGED <<forestVars, crew, row, work, told, starts>>
        /\ called' = [called EXCEPT ![w] = @ + 1]
        /\ late' \subseteq Dirs
        /\ pc[c] \in {"created", "callback"}
        /\ pc'[c] \in IF pc[c] = "created" THEN {"reconcile", "stopped"} ELSE {"mark", "stopped"}
        /\ pc' = [pc EXCEPT ![c] = pc'[c]]
    BY <1>0, <1>6, <2>1 DEF TypeOK, CallCreated, CallDelete, CallBack, Heard, Change
  <2>3. called'[w] = called[w] + 1 /\ \A v \in Change : v # w => called'[v] = called[v]
    BY <1>0, <2>1, <2>2 DEF TypeOK
  <2>4. TypeOK'
    BY <1>0, <2>1, <2>2 DEF TypeOK, forestVars, ForestTypeOK
  <2>5. WorkIsTrue'
    BY <1>0, <2>1, <2>2 DEF ShInv, WorkIsTrue, True, forestVars, TypeOK
  <2>6. \A k \in Controllers : Owes(k)'
    <3>1. Owes(c)'
      BY <1>0, <2>1, <2>2, <2>3 DEF ShInv, Owes, TypeOK, Made
    <3>2. ASSUME NEW k \in Controllers \ {c}
          PROVE  Owes(k)'
      <4>1. Owes(k) /\ pc'[k] = pc[k] /\ work'[k] = work[k]
        BY <1>0, <2>2 DEF ShInv, TypeOK
      <4>2. pc[k] \in {"created", "reconcile", "mark"} => work[k] \in Change
        BY <1>0 DEF TypeOK
      <4>3. pc[k] = "created" => work[k] # w
        BY <1>0, <2>1, <2>2, <4>1 DEF ShInv, OneOwner, TypeOK
      <4>4. QED
        BY <1>0, <2>1, <2>2, <2>3, <4>1, <4>2, <4>3 DEF Owes, Made, TypeOK
    <3>3. QED
      BY <3>1, <3>2
  <2>7. OneOwner'
    BY <1>0, <2>2 DEF ShInv, OneOwner, TypeOK
  <2>8. BooksAreTrue'
    <3>1. w.type = "create" => called[w] = 0 /\ Made(w)
      BY <2>1, <2>2 DEF ShInv, Owes
    <3>2. QED
      BY <1>0, <2>1, <2>2, <2>3, <3>1 DEF ShInv, BooksAreTrue, Made, True, forestVars, TypeOK
  <2>9. QED
    BY <2>4, <2>5, <2>6, <2>7, <2>8 DEF ShInv
<1>7. ASSUME NEW c \in Controllers, Reconcile(c)
      PROVE  ShInv'
  <2> DEFINE w == work[c]
  <2>1. w \in Change /\ True(w) /\ told[w] = 0 /\ Made(w) /\ called[w] > 0
    BY <1>0, <1>7 DEF TypeOK, Reconcile, ShInv, WorkIsTrue, Owes
  <2>2. /\ UNCHANGED <<forestVars, crew, row, work, called, starts>>
        /\ told' = [told EXCEPT ![w] = @ + 1]
        /\ late' \subseteq Dirs
        /\ pc[c] = "reconcile"
        /\ pc'[c] \in {"idle", "stopped"}
        /\ pc' = [pc EXCEPT ![c] = pc'[c]]
    BY <1>0, <1>7, <2>1 DEF TypeOK, Reconcile, Heard, Change
  <2>3. told'[w] = 1 /\ \A v \in Change : v # w => told'[v] = told[v]
    BY <1>0, <2>1, <2>2 DEF TypeOK
  <2>4. TypeOK'
    BY <1>0, <2>1, <2>2 DEF TypeOK, forestVars, ForestTypeOK
  <2>5. WorkIsTrue' /\ OneOwner'
    BY <1>0, <2>2 DEF ShInv, WorkIsTrue, OneOwner, True, forestVars, TypeOK
  <2>6. \A k \in Controllers : Owes(k)'
    <3>1. Owes(c)'
      BY <2>2 DEF Owes
    <3>2. ASSUME NEW k \in Controllers \ {c}
          PROVE  Owes(k)'
      <4>1. Owes(k) /\ pc'[k] = pc[k] /\ work'[k] = work[k]
        BY <1>0, <2>2 DEF ShInv, TypeOK
      <4>2. pc[k] \in {"created", "reconcile"} => work[k] \in Change /\ work[k] # w
        BY <1>0, <2>2 DEF ShInv, OneOwner, TypeOK
      <4>3. QED
        BY <2>2, <2>3, <4>1, <4>2 DEF Owes, Made
    <3>3. QED
      BY <3>1, <3>2
  <2>7. BooksAreTrue'
    BY <1>0, <2>1, <2>2, <2>3 DEF ShInv, BooksAreTrue, Made, True, forestVars, TypeOK
  <2>8. QED
    BY <2>4, <2>5, <2>6, <2>7 DEF ShInv
<1>8. CASE TreeChanges
  <2>1. /\ UNCHANGED <<crew, row, pc, work, called, told, late, starts>>
        /\ ForestTypeOK' /\ planted \subseteq planted' /\ felled \subseteq felled'
    BY <1>0, <1>8, ForestStep DEF TreeChanges, appVars, TypeOK
  <2>2. TypeOK'
    BY <1>0, <2>1 DEF TypeOK
  <2>3. \A w : True(w) => True(w)'
    BY <2>1, TrueStays
  <2>4. WorkIsTrue'
    BY <2>1, <2>3 DEF ShInv, WorkIsTrue, True
  <2>5. (\A k \in Controllers : Owes(k)') /\ OneOwner'
    BY <2>1 DEF ShInv, Owes, OneOwner, Made
  <2>6. BooksAreTrue'
    BY <2>1, <2>3 DEF ShInv, BooksAreTrue, Made, True
  <2>7. QED
    BY <2>2, <2>4, <2>5, <2>6 DEF ShInv
<1>9. CASE UNCHANGED vars
  <2>1. UNCHANGED <<up, planted, felled, crew, row, pc, work, called, told, late, starts>>
    BY <1>9 DEF vars, forestVars, appVars
  <2>2. TypeOK'
    BY <1>0, <2>1 DEF TypeOK, ForestTypeOK
  <2>3. QED
    BY <2>1, <2>2 DEF ShInv, WorkIsTrue, Owes, OneOwner, BooksAreTrue, Made, True
<1>10. QED
  BY <1>1, <1>2, <1>3, <1>4, <1>5, <1>6, <1>7, <1>8, <1>9 DEF Next, Work

LEMMA ShInvariant == Spec => []ShInv
  BY SharedAssumption, ShInit, ShStep, PTL DEF Spec

(* The state is well typed, and each controller's work fits what it does.  *)
THEOREM TypeCorrect == Spec => []TypeOK
<1>1. ShInv => TypeOK
  BY DEF ShInv
<1>2. QED
  BY <1>1, ShInvariant, PTL

(* However many controllers share the store, each creation is called back  *)
(* once at most, and each change reconciled once at most.                  *)
THEOREM EachChangeIsHeardOnce == Spec => []HeardOnce
<1>1. ShInv => HeardOnce
  BY DEF ShInv, BooksAreTrue, HeardOnce, Change
<1>2. QED
  BY <1>1, ShInvariant, PTL

(* Callback, statement and reconciler come in turn, and nothing is heard   *)
(* that is not so.                                                         *)
THEOREM ChangesAreHeardInTurn == Spec => []HeardInTurn
<1>1. ASSUME ShInv, NEW d \in Dirs
      PROVE  LET creation == [type |-> "create", dir |-> d]
                 deletion == [type |-> "delete", dir |-> d]
             IN /\ row[d] = "deleted" => called[deletion] > 0
                /\ told[deletion] > 0 => row[d] = "deleted"
                /\ told[creation] > 0 => called[creation] > 0
                /\ called[creation] > 0 => Tracked(d)
                /\ called[deletion] > 0 => d \in felled
                /\ Tracked(d) => d \in planted
  <2> DEFINE creation == [type |-> "create", dir |-> d]
             deletion == [type |-> "delete", dir |-> d]
  <2>1. creation \in Change /\ deletion \in Change
    BY DEF Change
  <2>2. /\ Made(creation) <=> Tracked(d)
        /\ Made(deletion) <=> row[d] = "deleted"
        /\ True(creation) => d \in planted
        /\ True(deletion) => d \in felled
    BY <1>1 DEF Made, Tracked, True, ShInv, TypeOK
  <2>3. QED
    BY <1>1, <2>1, <2>2 DEF ShInv, BooksAreTrue
<1>2. ShInv => HeardInTurn
  BY <1>1 DEF HeardInTurn
<1>3. QED
  BY <1>2, ShInvariant, PTL

----------------------------------------------------------------------------
(* One controller alone.                                                   *)

Alone == \A c, k \in crew : c = k

(* Who runs is of the crew; and between the insert of a row and the calls  *)
(* for it, nobody else can have marked it.                                 *)
AloneInv ==
    /\ \A c \in Controllers : pc[c] # "stopped" => c \in crew
    /\ Alone => /\ late = {}
                /\ \A c \in Controllers :
                     (pc[c] \in {"created", "reconcile"} /\ work[c].type = "create")
                        => row[work[c].dir] = "live"

LEMMA AloneInit == Init => AloneInv
  BY DEF Init, AloneInv

LEMMA AloneStep == TypeOK /\ AloneInv /\ [Next]_vars => AloneInv'
<1> SUFFICES ASSUME TypeOK, AloneInv, [Next]_vars
             PROVE  AloneInv'
  OBVIOUS
<1> USE DEF Goto, Stop
<1>1. ASSUME NEW c \in Controllers, c \in crew, UNCHANGED <<crew, row, late>>,
             \A k \in Controllers \ {c} : pc'[k] = pc[k] /\ work'[k] = work[k],
             \/ pc'[c] \notin {"created", "reconcile"}
             \/ pc[c] = "created" /\ work'[c] = work[c]
             \/ work'[c].type = "delete"
      PROVE  AloneInv'
  BY <1>1 DEF AloneInv, Alone
<1>2. ASSUME NEW c \in Controllers,
             \/ Start(c) \/ (\E fact \in Fact : Hear(c, fact)) \/ (\E d \in Dirs : Get(c, d))
             \/ AskTracked(c) \/ AskParentTracked(c) \/ Compare(c) \/ Fails(c)
      PROVE  AloneInv'
  <2>1. c \in crew /\ UNCHANGED <<crew, row, late>>
    BY <1>2 DEF Start, Hear, Get, AskTracked, AskParentTracked, Compare, Fails, appVars, AloneInv
  <2>2. /\ \A k \in Controllers \ {c} : pc'[k] = pc[k] /\ work'[k] = work[k]
        /\ pc'[c] \notin {"created", "reconcile"}
    BY <1>2 DEF Start, Hear, Get, AskTracked, AskParentTracked, Compare, Fails, Persist,
                FirstCall, TypeOK
  <2>3. QED
    BY <1>1, <2>1, <2>2
<1>3. ASSUME NEW c \in Controllers, Insert(c) \/ Mark(c)
      PROVE  AloneInv'
  <2>0. UNCHANGED <<crew, late, work>> /\ pc[c] \in {"insert", "mark"}
    BY <1>3 DEF Insert, Mark, appVars
  <2>1. /\ c \in crew /\ UNCHANGED <<crew, late, work>>
        /\ \A k \in Controllers \ {c} : pc'[k] = pc[k] /\ work'[k] = work[k]
        /\ work[c] \in Change
    <3>1. c \in crew
      BY <2>0 DEF AloneInv
    <3>2. \A k \in Controllers \ {c} : pc'[k] = pc[k]
      BY <1>3 DEF Insert, Mark, TypeOK
    <3>3. work[c] \in Change
      BY <2>0 DEF TypeOK, Persisting
    <3>4. QED
      BY <2>0, <3>1, <3>2, <3>3
  <2>2. \/ row' = row /\ pc'[c] = "stopped"
        \/ Insert(c) /\ row'[work[c].dir] = "live"
        \/ Mark(c) /\ work[c].type = "delete"
    BY <1>3, <2>1 DEF Insert, Mark, TypeOK, Change
  <2>3. \A k \in Controllers \ {c} : Alone => pc[k] = "stopped"
    BY <2>1 DEF AloneInv, Alone
  <2>4. QED
    BY <1>1, <2>1, <2>2, <2>3 DEF AloneInv, Alone
<1>4. ASSUME NEW c \in Controllers, CallCreated(c) \/ CallDelete(c) \/ Reconcile(c)
      PROVE  AloneInv'
  <2>1. /\ c \in crew /\ UNCHANGED <<crew, row, work>>
        /\ \A k \in Controllers \ {c} : pc'[k] = pc[k]
        /\ pc'[c] \in {"created", "reconcile"} => pc[c] = "created"
    BY <1>4 DEF CallCreated, CallDelete, Reconcile, CallBack, AloneInv, TypeOK
  <2>2. Alone => late' = late
    <3>1. Alone => (work[c].type = "create" => row[work[c].dir] # "deleted")
      BY <1>4 DEF CallCreated, CallDelete, Reconcile, AloneInv, TypeOK
    <3>2. QED
      BY <1>4, <3>1 DEF CallCreated, CallDelete, Reconcile, CallBack, Heard
  <2>3. QED
    BY <2>1, <2>2 DEF AloneInv, Alone
<1>5. CASE TreeChanges \/ UNCHANGED vars
  BY <1>5 DEF TreeChanges, vars, appVars, AloneInv, Alone
<1>6. QED
  BY <1>2, <1>3, <1>4, <1>5 DEF Next, Work

(* A controller that is alone tells of no creation after the deletion.     *)
THEOREM OrderIsKeptAlone == Spec => []AloneInOrder
<1>1. AloneInv => AloneInOrder
  BY DEF AloneInv, Alone, AloneInOrder
<1>2. QED
  BY <1>1, AloneInit, AloneStep, TypeCorrect, PTL DEF Spec

----------------------------------------------------------------------------
(* Counting: what starts bound.                                            *)

Running == { c \in Controllers : pc[c] # "stopped" }

(* What one step does to the controllers that run.                         *)
LEMMA RunningSteps ==
    ASSUME TypeOK, NEW c \in Controllers, pc' \in [Controllers -> PCs],
           \A k \in Controllers \ {c} : pc'[k] = pc[k]
    PROVE  Running' = IF pc'[c] = "stopped" THEN Running \ {c} ELSE Running \cup {c}
  BY DEF Running, TypeOK

(* The changes that are stored and untold and that no controller is about  *)
(* to tell.                                                                *)
Owed == { work[c] : c \in { k \in Controllers : pc[k] \in {"created", "reconcile"} } }
Lost == Untold \ Owed

LostPaidFor ==
    /\ IsFiniteSet(Running) /\ IsFiniteSet(Lost)
    /\ Cardinality(Lost) + Cardinality(Running) <= starts

LEMMA LostInit == Init => LostPaidFor
<1> SUFFICES ASSUME Init
             PROVE  LostPaidFor
  OBVIOUS
<1>1. Running = {} /\ Lost = {} /\ starts = 0
  BY DEF Init, Running, Lost, Untold, Tracked, Change
<1>2. QED
  BY <1>1, FS_EmptySet DEF LostPaidFor

(* A controller that does something else than to stop loses nothing; one   *)
(* that stops, its own change at most; and one that starts is counted.     *)
LEMMA LostAlternatives ==
    ASSUME ShInv, ShInv', Next
    PROVE  \/ Lost' \subseteq Lost /\ Running' = Running /\ starts' = starts
           \/ \E c \in Controllers \ Running :
                Lost' \subseteq Lost /\ Running' = Running \cup {c} /\ starts' = starts + 1
           \/ \E c \in Running :
                /\ Lost' \subseteq Lost \cup {work[c]}
                /\ Running' = Running \ {c} /\ starts' = starts
<1>0. TypeOK /\ pc' \in [Controllers -> PCs]
  BY DEF ShInv, TypeOK
<1> USE DEF Goto, Stop
<1>1. ASSUME NEW c \in Controllers, pc[c] # "stopped", starts' = starts,
             \A k \in Controllers \ {c} : pc'[k] = pc[k] /\ work'[k] = work[k],
             Untold' \subseteq Untold \cup {work[c]},
             \/ pc'[c] = "stopped"
             \/ Untold' \subseteq Untold /\ pc[c] \notin {"created", "reconcile"}
             \/ pc'[c] \in {"created", "reconcile"} /\ work'[c] = work[c]
             \/ Untold' \subseteq Untold \ {work[c]}
      PROVE  \/ Lost' \subseteq Lost /\ Running' = Running /\ starts' = starts
             \/ /\ c \in Running /\ Lost' \subseteq Lost \cup {work[c]}
                /\ Running' = Running \ {c} /\ starts' = starts
  <2>1. Owed \ {work[c]} \subseteq Owed'
    BY <1>1 DEF Owed
  <2>2. c \in Running
    BY <1>1 DEF Running
  <2>3. Running' = IF pc'[c] = "stopped" THEN Running \ {c} ELSE Running
    BY <1>0, <1>1, <2>2, RunningSteps
  <2>4. CASE pc'[c] = "stopped"
    BY <1>1, <2>1, <2>2, <2>3, <2>4 DEF Lost
  <2>5. CASE Untold' \subseteq Untold /\ pc[c] \notin {"created", "reconcile"} /\ pc'[c] # "stopped"
    <3>1. Owed \subseteq Owed'
      BY <1>1, <2>5 DEF Owed
    <3>2. QED
      BY <1>1, <2>3, <2>5, <3>1 DEF Lost
  <2>6. CASE pc'[c] \in {"created", "reconcile"} /\ work'[c] = work[c]
    <3>1. work[c] \in Owed'
      BY <2>6 DEF Owed
    <3>2. QED
      BY <1>1, <2>1, <2>3, <2>6, <3>1 DEF Lost
  <2>7. CASE Untold' \subseteq Untold \ {work[c]} /\ pc'[c] # "stopped"
    BY <1>1, <2>1, <2>3, <2>7 DEF Lost
  <2>8. QED
    BY <1>1, <2>4, <2>5, <2>6, <2>7
<1>2. row' = row /\ told' = told => Untold' = Untold
  BY DEF Untold, Tracked
<1>3. ASSUME NEW c \in Controllers, Start(c)
      PROVE  /\ c \in Controllers \ Running
             /\ Lost' \subseteq Lost /\ Running' = Running \cup {c} /\ starts' = starts + 1
  <2>1. /\ pc[c] = "stopped" /\ pc'[c] = "idle" /\ UNCHANGED <<row, told, work>>
        /\ \A k \in Controllers \ {c} : pc'[k] = pc[k]
    BY <1>0, <1>3 DEF Start, appVars, TypeOK
  <2>2. Owed' = Owed
    BY <2>1 DEF Owed
  <2>3. QED
    BY <1>0, <1>2, <1>3, <2>1, <2>2, RunningSteps DEF Running, Lost, Start
<1>4. ASSUME NEW c \in Controllers,
             \/ \E fact \in Fact : Hear(c, fact)
             \/ \E d \in Dirs : Get(c, d)
             \/ AskTracked(c) \/ AskParentTracked(c) \/ Compare(c) \/ Fails(c)
             \/ CallCreated(c) \/ CallDelete(c)
      PROVE  \/ Lost' \subseteq Lost /\ Running' = Running /\ starts' = starts
             \/ /\ c \in Running /\ Lost' \subseteq Lost \cup {work[c]}
                /\ Running' = Running \ {c} /\ starts' = starts
  <2>1. pc[c] # "stopped" /\ UNCHANGED <<row, told, starts>>
    BY <1>4 DEF Hear, Get, AskTracked, AskParentTracked, Compare, Fails, CallCreated,
                CallDelete, CallBack, appVars
  <2>2. \A k \in Controllers \ {c} : pc'[k] = pc[k] /\ work'[k] = work[k]
    BY <1>0, <1>4 DEF Hear, Get, AskTracked, AskParentTracked, Compare, Fails, CallCreated,
                      CallDelete, CallBack, Persist, TypeOK
  <2>3. \/ pc'[c] = "stopped" \/ pc[c] \notin {"created", "reconcile"}
        \/ pc'[c] = "reconcile" /\ work'[c] = work[c]
    BY <1>0, <1>4 DEF Hear, Get, AskTracked, AskParentTracked, Compare, Fails, CallCreated,
                      CallDelete, CallBack, TypeOK
  <2>4. QED
    BY <1>1, <1>2, <2>1, <2>2, <2>3
<1>5. ASSUME NEW c \in Controllers, Insert(c) \/ Mark(c)
      PROVE  \/ Lost' \subseteq Lost /\ Running' = Running /\ starts' = starts
             \/ /\ c \in Running /\ Lost' \subseteq Lost \cup {work[c]}
                /\ Running' = Running \ {c} /\ starts' = starts
  <2>1. /\ pc[c] \in {"insert", "mark"} /\ UNCHANGED <<told, work, starts>>
        /\ \A k \in Controllers \ {c} : pc'[k] = pc[k]
    BY <1>0, <1>5 DEF Insert, Mark, appVars, TypeOK
  <2>2. work[c] \in Change /\ work[c].type = IF pc[c] = "insert" THEN "create" ELSE "delete"
    BY <1>0, <2>1 DEF TypeOK, Persisting
  <2>3. Untold' \subseteq Untold \cup {work[c]}
    BY <1>0, <1>5, <2>1, <2>2 DEF Insert, Mark, Untold, Tracked, Change, TypeOK
  <2>4. \/ pc'[c] = "stopped" \/ pc'[c] \in {"created", "reconcile"}
    BY <1>0, <1>5 DEF Insert, Mark, TypeOK
  <2>5. QED
    BY <1>1, <2>1, <2>3, <2>4
<1>6. ASSUME NEW c \in Controllers, Reconcile(c)
      PROVE  \/ Lost' \subseteq Lost /\ Running' = Running /\ starts' = starts
             \/ /\ c \in Running /\ Lost' \subseteq Lost \cup {work[c]}
                /\ Running' = Running \ {c} /\ starts' = starts
  <2>1. /\ pc[c] = "reconcile" /\ UNCHANGED <<row, work, starts>>
        /\ \A k \in Controllers \ {c} : pc'[k] = pc[k]
    BY <1>0, <1>6 DEF Reconcile, TypeOK
  <2>2. work[c] \in Change /\ told' = [told EXCEPT ![work[c]] = told[work[c]] + 1]
    BY <1>0, <1>6 DEF Reconcile, TypeOK, Persisting
  <2>3. Untold' \subseteq Untold \ {work[c]}
    BY <1>0, <2>1, <2>2 DEF Untold, Tracked, TypeOK
  <2>4. QED
    BY <1>1, <2>1, <2>3
<1>7. CASE TreeChanges
  BY <1>7 DEF TreeChanges, appVars, Lost, Owed, Untold, Tracked, Running
<1>8. QED
  BY <1>3, <1>4, <1>5, <1>6, <1>7 DEF Next, Work

LEMMA LostStep == ShInv /\ ShInv' /\ LostPaidFor /\ [Next]_vars => LostPaidFor'
<1> SUFFICES ASSUME ShInv, ShInv', LostPaidFor, [Next]_vars
             PROVE  LostPaidFor'
  OBVIOUS
<1>1. /\ IsFiniteSet(Running) /\ Cardinality(Running) \in Nat
      /\ IsFiniteSet(Lost) /\ Cardinality(Lost) \in Nat
      /\ starts \in Nat
      /\ Cardinality(Lost) + Cardinality(Running) <= starts
  BY FS_CardinalityType DEF LostPaidFor, ShInv, TypeOK
<1>2. Lost' \subseteq Lost =>
        IsFiniteSet(Lost') /\ Cardinality(Lost') \in Nat /\ Cardinality(Lost') <= Cardinality(Lost)
  BY <1>1, FS_Subset, FS_CardinalityType
<1>3. CASE Lost' \subseteq Lost /\ Running' = Running /\ starts' = starts
  BY <1>1, <1>2, <1>3 DEF LostPaidFor
<1>4. ASSUME NEW c \in Controllers \ Running,
             Lost' \subseteq Lost, Running' = Running \cup {c}, starts' = starts + 1
      PROVE  LostPaidFor'
  <2>1. IsFiniteSet(Running') /\ Cardinality(Running') = Cardinality(Running) + 1
    BY <1>1, <1>4, FS_AddElement
  <2>2. QED
    BY <1>1, <1>2, <1>4, <2>1 DEF LostPaidFor
<1>5. ASSUME NEW c \in Running,
             Lost' \subseteq Lost \cup {work[c]}, Running' = Running \ {c}, starts' = starts
      PROVE  LostPaidFor'
  <2>1. IsFiniteSet(Running') /\ Cardinality(Running') = Cardinality(Running) - 1
    BY <1>1, <1>5, FS_RemoveElement
  <2>2. /\ IsFiniteSet(Lost \cup {work[c]})
        /\ Cardinality(Lost \cup {work[c]}) <= Cardinality(Lost) + 1
        /\ Cardinality(Lost \cup {work[c]}) \in Nat
    <3>1. /\ IsFiniteSet(Lost \cup {work[c]})
          /\ Cardinality(Lost \cup {work[c]}) =
               IF work[c] \in Lost THEN Cardinality(Lost) ELSE Cardinality(Lost) + 1
      BY <1>1, FS_AddElement
    <3>2. QED
      BY <1>1, <3>1
  <2>3. /\ IsFiniteSet(Lost') /\ Cardinality(Lost') \in Nat
        /\ Cardinality(Lost') <= Cardinality(Lost \cup {work[c]})
    BY <1>5, <2>2, FS_Subset, FS_CardinalityType
  <2>4. QED
    BY <1>1, <1>5, <2>1, <2>2, <2>3 DEF LostPaidFor
<1>6. CASE UNCHANGED vars
  <2>1. Lost' = Lost /\ Running' = Running /\ starts' = starts
    BY <1>6 DEF vars, appVars, Lost, Owed, Untold, Tracked, Running
  <2>2. QED
    BY <1>3, <2>1
<1>7. QED
  BY <1>3, <1>4, <1>5, <1>6, LostAlternatives

(* Each start leaves one change behind at most: what is stored and untold  *)
(* is lost, or in the hands of a controller that runs.                     *)
THEOREM StartsLoseOneChange == Spec => []OneChangeLostPerStart
<1>1. ShInv /\ LostPaidFor => OneChangeLostPerStart
  <2> SUFFICES ASSUME ShInv, LostPaidFor
               PROVE  OneChangeLostPerStart
    OBVIOUS
  <2> DEFINE Busy == { k \in Controllers : pc[k] \in {"created", "reconcile"} }
  <2>1. /\ IsFiniteSet(Busy) /\ Cardinality(Busy) <= Cardinality(Running)
        /\ Cardinality(Busy) \in Nat /\ Cardinality(Running) \in Nat
    <3>1. Busy \subseteq Running
      BY DEF Running
    <3>2. QED
      BY <3>1, FS_Subset, FS_CardinalityType DEF LostPaidFor
  <2>2. IsFiniteSet(Owed) /\ Cardinality(Owed) <= Cardinality(Busy)
    <3>1. [k \in Busy |-> work[k]] \in Surjection(Busy, Owed)
      BY DEF Surjection, Owed
    <3>2. QED
      BY <2>1, <3>1, FS_Surjection
  <2>3. /\ IsFiniteSet(Lost \cup Owed)
        /\ Cardinality(Lost \cup Owed) <= Cardinality(Lost) + Cardinality(Owed)
        /\ Cardinality(Lost) \in Nat /\ Cardinality(Owed) \in Nat
        /\ Cardinality(Lost \cup Owed) \in Nat
    <3>1. IsFiniteSet(Lost) /\ IsFiniteSet(Lost \cap Owed)
      BY FS_Intersection DEF LostPaidFor
    <3>2. Cardinality(Lost \cap Owed) \in Nat
      BY <3>1, FS_CardinalityType
    <3>3. /\ IsFiniteSet(Lost \cup Owed)
          /\ Cardinality(Lost \cup Owed) = Cardinality(Lost) + Cardinality(Owed) - Cardinality(Lost \cap Owed)
      BY <2>2, <3>1, FS_Union
    <3>4. Cardinality(Lost) \in Nat /\ Cardinality(Owed) \in Nat /\ Cardinality(Lost \cup Owed) \in Nat
      BY <2>2, <3>1, <3>3, FS_CardinalityType
    <3>5. QED
      BY <3>2, <3>3, <3>4
  <2>4. Untold \subseteq Lost \cup Owed
    BY DEF Lost
  <2>5. IsFiniteSet(Untold) /\ Cardinality(Untold) <= Cardinality(Lost \cup Owed) /\ Cardinality(Untold) \in Nat
    BY <2>3, <2>4, FS_Subset, FS_CardinalityType
  <2>6. Cardinality(Lost) + Cardinality(Running) <= starts /\ starts \in Nat
    BY DEF LostPaidFor, ShInv, TypeOK
  <2>7. QED
    BY <2>1, <2>2, <2>3, <2>5, <2>6 DEF OneChangeLostPerStart
<1>2. QED
  BY <1>1, ShInvariant, LostInit, LostStep, PTL DEF Spec

(* The controllers that run, but for the one that waits to mark d after    *)
(* its callback: a call is paid for by the controller that leaves this     *)
(* set, and only the one call that leads to the mark is not.               *)
Free(d) == { c \in Running : ~(pc[c] = "mark" /\ work[c].dir = d) }

Deletion(d) == [type |-> "delete", dir |-> d]

CallsPaidFor(d) ==
    /\ IsFiniteSet(Free(d))
    /\ called[Deletion(d)] + Cardinality(Free(d))
          <= starts + IF row[d] = "deleted" THEN 1 ELSE 0

LEMMA CallsInit == Init => \A d \in Dirs : CallsPaidFor(d)
<1> SUFFICES ASSUME Init, NEW d \in Dirs
             PROVE  CallsPaidFor(d)
  OBVIOUS
<1>1. Free(d) = {} /\ called[Deletion(d)] = 0 /\ starts = 0
  BY DEF Init, Free, Running, Change, Deletion
<1>2. QED
  BY <1>1, FS_EmptySet DEF CallsPaidFor, Init

LEMMA CallsAlternatives ==
    ASSUME ShInv, ShInv', Next, NEW d \in Dirs
    PROVE  LET Same == called'[Deletion(d)] = called[Deletion(d)] /\ starts' = starts
               RowSame == row'[d] = "deleted" <=> row[d] = "deleted"
           IN \/ Free(d)' = Free(d) /\ Same /\ RowSame
              \/ \E c \in Controllers \ Free(d) :
                   /\ Free(d)' = Free(d) \cup {c} /\ RowSame
                   /\ starts' = starts + 1 /\ called'[Deletion(d)] = called[Deletion(d)]
              \/ \E c \in Controllers \ Free(d) :
                   /\ Free(d)' = Free(d) \cup {c} /\ Same
                   /\ row[d] # "deleted" /\ row'[d] = "deleted"
              \/ \E c \in Free(d) :
                   /\ Free(d)' = Free(d) \ {c} /\ RowSame /\ starts' = starts
                   /\ called'[Deletion(d)] \in {called[Deletion(d)], called[Deletion(d)] + 1}
<1> DEFINE Same == called'[Deletion(d)] = called[Deletion(d)] /\ starts' = starts
           RowSame == row'[d] = "deleted" <=> row[d] = "deleted"
           Marking(c) == pc[c] = "mark" /\ work[c].dir = d
<1>0. TypeOK /\ pc' \in [Controllers -> PCs] /\ Deletion(d) \in Change
  BY DEF ShInv, TypeOK, Deletion, Change
<1> USE DEF Goto, Stop
<1>1. ASSUME NEW c \in Controllers,
             \A k \in Controllers \ {c} : pc'[k] = pc[k] /\ work'[k] = work[k]
      PROVE  /\ Free(d)' = IF pc'[c] = "stopped" \/ Marking(c)' THEN Free(d) \ {c} ELSE Free(d) \cup {c}
             /\ c \in Free(d) <=> pc[c] # "stopped" /\ ~Marking(c)
  BY <1>0, <1>1 DEF Free, Running, TypeOK
<1>2. ASSUME NEW c \in Controllers, Start(c)
      PROVE  /\ c \notin Free(d) /\ Free(d)' = Free(d) \cup {c} /\ RowSame
             /\ starts' = starts + 1 /\ called'[Deletion(d)] = called[Deletion(d)]
  <2>1. /\ pc[c] = "stopped" /\ pc'[c] = "idle" /\ UNCHANGED <<row, called, work>>
        /\ \A k \in Controllers \ {c} : pc'[k] = pc[k]
        /\ starts' = starts + 1
    BY <1>0, <1>2 DEF Start, appVars, TypeOK
  <2>2. QED
    BY <1>1, <2>1
<1>3. ASSUME NEW c \in Controllers,
             \/ \E fact \in Fact : Hear(c, fact)
             \/ \E x \in Dirs : Get(c, x)
             \/ AskTracked(c) \/ AskParentTracked(c) \/ Compare(c) \/ Fails(c)
             \/ CallCreated(c) \/ Reconcile(c)
      PROVE  \/ Free(d)' = Free(d) /\ Same /\ RowSame
             \/ c \in Free(d) /\ Free(d)' = Free(d) \ {c} /\ Same /\ RowSame
  <2>1. pc[c] # "stopped" /\ UNCHANGED <<row, starts>>
    BY <1>3 DEF Hear, Get, AskTracked, AskParentTracked, Compare, Fails, CallCreated,
                Reconcile, CallBack, appVars
  <2>2. \A k \in Controllers \ {c} : pc'[k] = pc[k] /\ work'[k] = work[k]
    BY <1>0, <1>3 DEF Hear, Get, AskTracked, AskParentTracked, Compare, Fails, CallCreated,
                      Reconcile, CallBack, Persist, TypeOK
  <2>3. pc'[c] # "mark" /\ (pc[c] = "mark" => pc'[c] = "stopped")
    BY <1>0, <1>3 DEF Hear, Get, AskTracked, AskParentTracked, Compare, Fails, CallCreated,
                      Reconcile, CallBack, Persist, FirstCall, TypeOK
  <2>4. called'[Deletion(d)] = called[Deletion(d)]
    <3>1. CASE CallCreated(c)
      <4>1. work[c] # Deletion(d) /\ called' = [called EXCEPT ![work[c]] = called[work[c]] + 1]
        BY <1>0, <3>1 DEF CallCreated, CallBack, TypeOK, Deletion
      <4>2. QED
        BY <1>0, <4>1 DEF TypeOK
    <3>2. CASE called' = called
      BY <3>2
    <3>3. QED
      BY <1>3, <3>1, <3>2 DEF Hear, Get, AskTracked, AskParentTracked, Compare, Fails,
                              Reconcile, appVars
  <2>5. Same /\ RowSame
    BY <2>1, <2>4
  <2>6. CASE pc'[c] = "stopped"
    <3>1. Free(d)' = Free(d) \ {c}
      BY <1>1, <2>2, <2>6
    <3>2. Free(d)' = Free(d) \/ c \in Free(d)
      BY <3>1
    <3>3. QED
      BY <2>5, <3>1, <3>2
  <2>7. CASE pc'[c] # "stopped"
    <3>1. Free(d)' = Free(d) \cup {c}
      BY <1>1, <2>2, <2>3, <2>7
    <3>2. c \in Free(d)
      BY <1>1, <2>1, <2>2, <2>3, <2>7
    <3>3. Free(d)' = Free(d)
      BY <3>1, <3>2
    <3>4. QED
      BY <2>5, <3>3
  <2>8. QED
    BY <2>6, <2>7
<1>4. ASSUME NEW c \in Controllers, CallDelete(c)
      PROVE  \/ Free(d)' = Free(d) /\ Same /\ RowSame
             \/ /\ c \in Free(d) /\ Free(d)' = Free(d) \ {c} /\ RowSame /\ starts' = starts
                /\ called'[Deletion(d)] \in {called[Deletion(d)], called[Deletion(d)] + 1}
  <2>1. /\ pc[c] = "callback" /\ pc'[c] \in {"mark", "stopped"} /\ UNCHANGED <<row, work, starts>>
        /\ \A k \in Controllers \ {c} : pc'[k] = pc[k]
        /\ called' = [called EXCEPT ![work[c]] = called[work[c]] + 1]
    BY <1>0, <1>4 DEF CallDelete, CallBack, TypeOK
  <2>2. work[c] \in Change /\ work[c].type = "delete"
    BY <1>0, <2>1 DEF TypeOK, Persisting
  <2>3. work[c].dir # d => called'[Deletion(d)] = called[Deletion(d)]
    BY <1>0, <2>1, <2>2 DEF TypeOK, Deletion
  <2>4. called'[Deletion(d)] \in {called[Deletion(d)], called[Deletion(d)] + 1}
    BY <1>0, <2>1, <2>2 DEF TypeOK
  <2>5. QED
    BY <1>1, <2>1, <2>3, <2>4
<1>5. ASSUME NEW c \in Controllers, Insert(c)
      PROVE  \/ Free(d)' = Free(d) /\ Same /\ RowSame
             \/ c \in Free(d) /\ Free(d)' = Free(d) \ {c} /\ Same /\ RowSame
  <2>1. /\ pc[c] = "insert" /\ pc'[c] \in {"created", "stopped"}
        /\ UNCHANGED <<called, work, starts>>
        /\ \A k \in Controllers \ {c} : pc'[k] = pc[k]
    BY <1>0, <1>5 DEF Insert, appVars, TypeOK
  <2>2. RowSame
    BY <1>0, <1>5 DEF Insert, TypeOK
  <2>3. c \in Free(d)
    BY <1>1, <2>1
  <2>4. CASE pc'[c] = "created"
    <3>1. Free(d)' = Free(d) \cup {c}
      BY <1>1, <2>1, <2>4
    <3>2. Free(d)' = Free(d)
      BY <2>3, <3>1
    <3>3. QED
      BY <2>1, <2>2, <3>2
  <2>5. CASE pc'[c] = "stopped"
    <3>1. Free(d)' = Free(d) \ {c}
      BY <1>1, <2>1, <2>5
    <3>2. QED
      BY <2>1, <2>2, <2>3, <3>1
  <2>6. QED
    BY <2>1, <2>4, <2>5
<1>6. ASSUME NEW c \in Controllers, Mark(c)
      PROVE  \/ Free(d)' = Free(d) /\ Same /\ RowSame
             \/ c \in Free(d) /\ Free(d)' = Free(d) \ {c} /\ Same /\ RowSame
             \/ /\ c \notin Free(d) /\ Free(d)' = Free(d) \cup {c} /\ Same
                /\ row[d] # "deleted" /\ row'[d] = "deleted"
  <2>1. /\ pc[c] = "mark" /\ UNCHANGED <<called, work, starts>>
        /\ \A k \in Controllers \ {c} : pc'[k] = pc[k]
    BY <1>0, <1>6 DEF Mark, appVars, TypeOK
  <2>2. work[c] \in Change /\ work[c].dir \in Dirs
    BY <1>0, <2>1 DEF TypeOK, Persisting, Change
  <2>3. \/ pc'[c] = "stopped" /\ row' = row
        \/ /\ pc'[c] = "reconcile" /\ row[work[c].dir] = "live"
           /\ row' = [row EXCEPT ![work[c].dir] = "deleted"]
    BY <1>0, <1>6 DEF Mark, TypeOK
  <2>4. CASE work[c].dir = d
    BY <1>0, <1>1, <2>1, <2>2, <2>3, <2>4 DEF TypeOK
  <2>5. CASE work[c].dir # d
    <3>1. row'[d] = row[d]
      BY <1>0, <2>2, <2>3, <2>5 DEF TypeOK
    <3>2. c \in Free(d)
      BY <1>1, <2>1, <2>5
    <3>3. CASE pc'[c] = "reconcile"
      <4>1. Free(d)' = Free(d) \cup {c}
        BY <1>1, <2>1, <3>3
      <4>2. Free(d)' = Free(d)
        BY <3>2, <4>1
      <4>3. QED
        BY <2>1, <3>1, <4>2
    <3>4. CASE pc'[c] = "stopped"
      <4>1. Free(d)' = Free(d) \ {c}
        BY <1>1, <2>1, <3>4
      <4>2. QED
        BY <2>1, <3>1, <3>2, <4>1
    <3>5. QED
      BY <2>3, <3>3, <3>4
  <2>6. QED
    BY <2>4, <2>5
<1>7. CASE TreeChanges
  BY <1>7 DEF TreeChanges, appVars, Free, Running
<1>8. QED
  BY <1>2, <1>3, <1>4, <1>5, <1>6, <1>7 DEF Next, Work, Free, Running

LEMMA CallsStep ==
    ASSUME ShInv, ShInv', [Next]_vars, NEW d \in Dirs, CallsPaidFor(d)
    PROVE  CallsPaidFor(d)'
<1> DEFINE calls == called[Deletion(d)]
           mark == IF row[d] = "deleted" THEN 1 ELSE 0
<1>1. /\ IsFiniteSet(Free(d)) /\ Cardinality(Free(d)) \in Nat
      /\ calls \in Nat /\ calls' \in Nat /\ starts \in Nat
      /\ calls + Cardinality(Free(d)) <= starts + mark
  BY FS_CardinalityType DEF CallsPaidFor, ShInv, TypeOK, Deletion, Change
<1>2. CASE UNCHANGED vars
  BY <1>2 DEF vars, appVars, CallsPaidFor, Free, Running
<1>3. CASE /\ Free(d)' = Free(d) /\ calls' = calls /\ starts' = starts
           /\ row'[d] = "deleted" <=> row[d] = "deleted"
  BY <1>1, <1>3 DEF CallsPaidFor
<1>4. ASSUME NEW c \in Controllers \ Free(d), Free(d)' = Free(d) \cup {c}, calls' = calls,
             starts' + mark' = starts + mark + 1
      PROVE  CallsPaidFor(d)'
  <2>1. IsFiniteSet(Free(d)') /\ Cardinality(Free(d)') = Cardinality(Free(d)) + 1
    BY <1>1, <1>4, FS_AddElement
  <2>2. QED
    BY <1>1, <1>4, <2>1 DEF CallsPaidFor
<1>5. ASSUME NEW c \in Free(d), Free(d)' = Free(d) \ {c}, calls' \in {calls, calls + 1},
             starts' = starts, mark' = mark
      PROVE  CallsPaidFor(d)'
  <2>1. IsFiniteSet(Free(d)') /\ Cardinality(Free(d)') = Cardinality(Free(d)) - 1
    BY <1>1, <1>5, FS_RemoveElement
  <2>2. QED
    BY <1>1, <1>5, <2>1 DEF CallsPaidFor
<1>6. CASE Next
  BY <1>1, <1>3, <1>4, <1>5, <1>6, CallsAlternatives
<1>7. QED
  BY <1>2, <1>6

(* The callback for a deletion is called again only by a controller that   *)
(* was started again: all calls but the last were followed by a stop.      *)
THEOREM StartsBoundDeletions == Spec => []DeletionsCalledPerStart
<1> DEFINE Paid == \A d \in Dirs : CallsPaidFor(d)
<1>1. Init => Paid
  BY CallsInit
<1>2. ShInv /\ ShInv' /\ Paid /\ [Next]_vars => Paid'
  BY CallsStep
<1>3. ShInv /\ Paid => DeletionsCalledPerStart
  <2> SUFFICES ASSUME ShInv, Paid, NEW d \in Dirs
               PROVE  called[Deletion(d)] <= starts + 1
    BY DEF DeletionsCalledPerStart, Deletion
  <2>1. /\ Cardinality(Free(d)) \in Nat /\ called[Deletion(d)] \in Nat /\ starts \in Nat
        /\ called[Deletion(d)] + Cardinality(Free(d))
              <= starts + IF row[d] = "deleted" THEN 1 ELSE 0
    BY FS_CardinalityType DEF CallsPaidFor, ShInv, TypeOK, Deletion, Change
  <2>2. QED
    BY <2>1
<1> HIDE DEF Paid
<1>4. QED
  BY <1>1, <1>2, <1>3, ShInvariant, PTL DEF Spec

=============================================================================
