----------------------------- MODULE Directories -----------------------------
(***************************************************************************)
(* The directories table and the statements of the CockroachDB driver      *)
(* (storage/crdb/driver/driver.go) that change it.                         *)
(*                                                                         *)
(* Each driver method runs one SQL statement, which the database executes  *)
(* as one serializable transaction, so each statement is one atomic step   *)
(* here.  A step of the table's history is numbered by "now", the number   *)
(* of statements committed so far: created_at, updated_at and deleted_at   *)
(* are abstracted to the number of the statement that set them, and 0      *)
(* stands for NULL.                                                        *)
(***************************************************************************)
EXTENDS Integers, Trees

CONSTANTS
    Dirs,      \* the ids gen_random_uuid() may hand out
    NoDir,     \* parent_id IS NULL
    Names,     \* values of the name column
    Metas,     \* values of the metadata column
    Seed       \* the rows the table holds when the servers start

Text == [name : Names, metadata : Metas]

(* A seed row d has Seed.born[d] > 0; its parent is an older seed row.     *)
ASSUME NoDirAssumption == NoDir \notin Dirs

ASSUME SeedAssumption ==
    /\ Seed.time \in Nat
    /\ Seed.text \in Text
    /\ Seed.born \in [Dirs -> 0 .. Seed.time]
    /\ Seed.parent \in [Dirs -> Dirs \cup {NoDir}]
    /\ \A d \in Dirs :
         Seed.parent[d] # NoDir =>
            /\ Seed.born[Seed.parent[d]] > 0
            /\ Seed.born[Seed.parent[d]] < Seed.born[d]

(* A table holds finitely many rows.                                       *)
ASSUME SeedIsFinite == IsFiniteSet({ d \in Dirs : Seed.born[d] > 0 })

VARIABLES
    parent,    \* parent_id of each row
    born,      \* created_at of each row; 0: there is no such row
    died,      \* deleted_at of each row; 0: NULL
    edits,     \* every version of name and metadata, with its updated_at
    now,       \* the number of statements committed
    follower   \* the statement up to which follower reads see the table

tableVars == <<parent, born, died, edits, now, follower>>

Edit == [dir : Dirs, at : Nat, text : Text]

TableTypeOK ==
    /\ now \in Nat
    /\ follower \in 0 .. now
    /\ parent \in [Dirs -> Dirs \cup {NoDir}]
    /\ born \in [Dirs -> 0 .. now]
    /\ died \in [Dirs -> 0 .. now]
    /\ edits \subseteq Edit

TableInit ==
    /\ now = Seed.time
    /\ follower = Seed.time
    /\ parent = Seed.parent
    /\ born = Seed.born
    /\ died = [d \in Dirs |-> 0]
    /\ edits = { [dir |-> d, at |-> Seed.born[d], text |-> Seed.text] :
                    d \in { x \in Dirs : Seed.born[x] > 0 } }

----------------------------------------------------------------------------
(* Rows, as a statement that reads the table as of time t sees them.       *)

Exists(d) == born[d] > 0
Root(d) == parent[d] = NoDir
Live(d) == Exists(d) /\ died[d] = 0

ExistsAt(d, t) == born[d] > 0 /\ born[d] <= t
LiveAt(d, t) == ExistsAt(d, t) /\ (died[d] = 0 \/ died[d] > t)

(* e is the version of its row that a read as of time t returns.           *)
VersionAt(e, t) ==
    /\ e.at <= t
    /\ \A f \in edits : (f.dir = e.dir /\ f.at <= t) => f.at <= e.at

LiveDirs == { d \in Dirs : Live(d) }

(* Mutants of Doomed: without "parent_id IS NOT NULL"; without the walk    *)
(* down; without "deleted_at IS NULL"; reading from a follower.            *)
DoomedWithRoots(d) == IF Live(d) THEN Below(parent, d, LiveDirs) ELSE {}
DoomedAlone(d) == IF Live(d) /\ ~Root(d) THEN {d} ELSE {}
DoomedAgain(d) ==
    IF Exists(d) /\ ~Root(d) THEN Below(parent, d, { x \in Dirs : Exists(x) }) ELSE {}
DoomedAtFollower(d) ==
    IF LiveAt(d, follower) /\ ~Root(d)
      THEN Below(parent, d, { x \in Dirs : LiveAt(x, follower) }) ELSE {}

(* The rows DeleteDirectory(d) updates: a root is never among them, not    *)
(* even when it is d.                                                      *)
Doomed(d) == IF Live(d) /\ ~Root(d) THEN Below(parent, d, LiveDirs) ELSE {}

----------------------------------------------------------------------------
(* The statements.  Each is one commit.                                    *)

Commit == now' = now + 1

(* INSERT of row d below p (CreateRoot: p = NoDir).  The foreign key asks  *)
(* that row p exist; it does not ask that it be live.                      *)
Insert(d, p, text) ==
    /\ ~Exists(d)
    /\ p # NoDir => Exists(p)
    /\ Commit
    /\ parent' = [parent EXCEPT ![d] = p]
    /\ born' = [born EXCEPT ![d] = now + 1]
    /\ edits' = edits \cup {[dir |-> d, at |-> now + 1, text |-> text]}
    /\ UNCHANGED <<died, follower>>

(* Mutant of UpdateRow: it writes the whole row back as it was read.       *)
UpdateWholeRow(d, text) ==
    /\ Exists(d)
    /\ Commit
    /\ edits' = edits \cup {[dir |-> d, at |-> now + 1, text |-> text]}
    /\ died' = [died EXCEPT ![d] = 0]
    /\ UNCHANGED <<parent, born, follower>>

(* UPDATE of name and metadata by id alone: a deleted row is updated too,  *)
(* and stays deleted.                                                      *)
UpdateRow(d, text) ==
    /\ Exists(d)
    /\ Commit
    /\ edits' = edits \cup {[dir |-> d, at |-> now + 1, text |-> text]}
    /\ UNCHANGED <<parent, born, died, follower>>

(* The recursive UPDATE that soft deletes d and all that is live below it. *)
(* With nothing to delete it commits no change.                            *)
SoftDelete(d) ==
    /\ IF Doomed(d) = {} THEN UNCHANGED now ELSE Commit
    /\ died' = [x \in Dirs |-> IF x \in Doomed(d) THEN now + 1 ELSE died[x]]
    /\ UNCHANGED <<parent, born, edits, follower>>

(* The follower-read timestamp trails the present and moves forward only.  *)
CatchUp ==
    /\ follower < now
    /\ follower' = follower + 1
    /\ UNCHANGED <<parent, born, died, edits, now>>

(* The table in the hands of any client of the driver.                     *)
TableNext ==
    \/ \E d \in Dirs, p \in Dirs \cup {NoDir}, text \in Text : Insert(d, p, text)
    \/ \E d \in Dirs, text \in Text : UpdateRow(d, text)
    \/ \E d \in Dirs : SoftDelete(d)
    \/ CatchUp

TableSpec == TableInit /\ [][TableNext]_tableVars

----------------------------------------------------------------------------
(* What the driver guarantees.                                             *)

(* The rows form a forest whatever the interleaving: a row's parent exists *)
(* and was committed before it, so no chain of parents is a cycle and the  *)
(* recursive queries end.  Roots are never deleted.                        *)
Forest ==
    \A d \in Dirs :
        /\ ~Root(d) => /\ Exists(d) /\ Exists(parent[d])
                       /\ born[parent[d]] < born[d]
        /\ Root(d) => died[d] = 0

(* DeleteDirectory cascades completely: when a directory is deleted, each  *)
(* child it has is deleted with it or was deleted before.  A child that is *)
(* live, or deleted later, under a deleted parent was inserted after the   *)
(* parent's deletion, by a createDirectory that had looked the parent up   *)
(* before it.                                                              *)
CascadeIsComplete ==
    \A d \in Dirs :
        (~Root(d) /\ died[parent[d]] # 0) =>
            \/ died[d] # 0 /\ died[d] <= died[parent[d]]
            \/ died[parent[d]] < born[d]

(* A row is permanent and so is its deletion: no step, not even an update  *)
(* that read the row before it was deleted, moves a directory, revives it  *)
(* or changes when it was created or deleted.                              *)
HistoryStands ==
    [][\A d \in Dirs :
         /\ Exists(d) => born'[d] = born[d] /\ parent'[d] = parent[d]
         /\ died[d] # 0 => died'[d] = died[d]]_tableVars

=============================================================================
