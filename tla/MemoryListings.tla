---------------------------- MODULE MemoryListings ----------------------------
(***************************************************************************)
(* What the listings of the memory driver return while nothing else goes   *)
(* on: sequences of ids, cut into pages.                                   *)
(***************************************************************************)
EXTENDS MemoryDriver, SequencesExt

(* A listing returns ids, or fails: the directory is not found, a value in *)
(* the map is no directory, or a nil parent is dereferenced.               *)
Listed(ids) == [status |-> "ok", ids |-> ids]
NotFound == [status |-> "not found", ids |-> <<>>]
WrongType == [status |-> "wrong type", ids |-> <<>>]
Panics == [status |-> "panic", ids |-> <<>>]

(* GetDirectory: deleted directories are found only when they are asked    *)
(* for.                                                                    *)
Visible(d, deleted) == Exists(d) /\ (deleted \/ d \notin dead)

(* Sorted by CreatedAt: as many are in front of each as are older.         *)
ByAge(S) == [i \in 1 .. Cardinality(S) |-> CHOOSE x \in S : Cardinality(Older(x, S)) = i - 1]

(* The page that starts at GetPageOffset, or no ids at all behind the end. *)
PageOf(ids, page, size) ==
    LET offset == size * (page - 1)
        limit == IF offset + size > Len(ids) THEN Len(ids) ELSE offset + size
    IN IF offset > Len(ids) THEN <<>> ELSE SubSeq(ids, offset + 1, limit)

(* Range meets every value: one of another type fails these two.           *)
ListRoots(deleted, page, size) ==
    IF spoiled
      THEN WrongType
      ELSE Listed(PageOf(ByAge({ d \in Dirs : Visible(d, deleted) /\ parent[d] = NoDir }), page, size))

(* The listing does not ask whether d itself is there.                     *)
GetChildren(d, deleted, page, size) ==
    IF spoiled
      THEN WrongType
      ELSE Listed(PageOf(ByAge(Children(d, { x \in Dirs : Visible(x, deleted) })), page, size))

----------------------------------------------------------------------------
(* The listings of parents.                                                *)

StrictlyAbove(d) ==
    { x \in Dirs : Exists(x) /\ x # d /\ d \in Below(parent, x, { y \in Dirs : Exists(y) }) }

(* Members of one way up, the nearest first, which is the youngest.        *)
WayUp(S) == Reverse(ByAge(S))

(* sort.Slice(parentIDs, ...) swaps the ids, but compares two places by    *)
(* the directories in "parents", which stay where they are.  Up to twelve  *)
(* elements it sorts by insertion: the i-th moves down as long as its      *)
(* place compares as less than the one before.                             *)
InsertionLimit == 12

(* Mutant of Less: the younger one is less.                                *)
LessReversed(ids, i, j) == born[ids[j]] < born[ids[i]]

Less(ids, i, j) == born[ids[i]] < born[ids[j]]

SettlesAt(ids, i) ==
    CHOOSE k \in 1 .. i :
        /\ k = 1 \/ ~Less(ids, k, k - 1)
        /\ \A j \in k + 1 .. i : Less(ids, j, j - 1)

(* The i-th element moves to place k, those from there on make room.       *)
Moved(ids, i, k) ==
    [j \in DOMAIN ids |-> CASE j = k -> ids[i]
                            [] j \in k + 1 .. i -> ids[j - 1]
                            [] OTHER -> ids[j]]

SortedIds(ids) ==
    LET sorted[i \in 0 .. Len(ids)] ==
            IF i < 2 THEN ids ELSE Moved(sorted[i - 1], i, SettlesAt(ids, i))
    IN sorted[Len(ids)]

(* Every directory on the way has to be visible.                           *)
GetParents(d, deleted, page, size) ==
    IF \A x \in {d} \cup StrictlyAbove(d) : Visible(x, deleted)
      THEN Listed(PageOf(SortedIds(WayUp(StrictlyAbove(d))), page, size))
      ELSE NotFound

(* The walk starts from the child even when that is the ancestor, and so   *)
(* does not meet the ancestor any more.                                    *)
GetParentsUntilAncestor(d, anc, deleted, page, size) ==
    LET way == StrictlyAbove(d) \ StrictlyAbove(anc)
    IN CASE d = anc /\ Visible(d, deleted) /\ parent[d] = NoDir -> Panics
         [] anc \in way /\ \A x \in {d} \cup way : Visible(x, deleted)
              -> Listed(PageOf(SortedIds(WayUp(way)), page, size))
         [] OTHER -> NotFound

----------------------------------------------------------------------------
(* While nothing else goes on, and the map holds nothing but directories,  *)
(* the listings give, page by page, each directory they are to list once   *)
(* and nothing else, the older one first: the parents too, the farthest    *)
(* first, although their sort compares what it does not move.  A live      *)
(* directory below a deleted one has no parents to list.                   *)
Quiet == ~spoiled /\ \A r \in Requests : pc[r] \in {"idle", "done"}

LiveDirs == { x \in Dirs : Live(x) }

PageNumbers == 1 .. Cardinality(Dirs) + 1

Joined(pages) == FlattenSeq([page \in PageNumbers |-> pages[page].ids])

(* What stands above d up to anc, anc included.                            *)
Between(d, anc) == { x \in StrictlyAbove(d) : anc \in StrictlyAbove(x) \cup {x} }

(* These, or none of them when the way leads through a deleted directory.  *)
LiveWay(S) == IF S \cap dead # {} THEN <<>> ELSE ByAge(S)

RootsAreWhole(size) ==
    Joined([page \in PageNumbers |-> ListRoots(FALSE, page, size)])
        = ByAge({ x \in LiveDirs : parent[x] = NoDir })

ChildrenAreWhole(d, size) ==
    Joined([page \in PageNumbers |-> GetChildren(d, FALSE, page, size)])
        = ByAge(Below(parent, d, LiveDirs) \ {d})

ParentsAreWhole(d, size) ==
    Joined([page \in PageNumbers |-> GetParents(d, FALSE, page, size)])
        = LiveWay(StrictlyAbove(d))

ParentsUntilAreWhole(d, anc, size) ==
    Joined([page \in PageNumbers |-> GetParentsUntilAncestor(d, anc, FALSE, page, size)])
        = LiveWay(Between(d, anc))

AllAreWhole(size) ==
    /\ RootsAreWhole(size)
    /\ \A d \in LiveDirs :
         /\ ChildrenAreWhole(d, size)
         /\ Cardinality(StrictlyAbove(d)) <= InsertionLimit =>
              /\ ParentsAreWhole(d, size)
              /\ \A anc \in LiveDirs : ParentsUntilAreWhole(d, anc, size)

ListingsAreWhole == Quiet => \A size \in {1, 2} : AllAreWhole(size)

=============================================================================
