------------------------------- MODULE Listing -------------------------------
(***************************************************************************)
(* The listing handlers (listRoots, listChildren, listParents,             *)
(* listParentsUntil), the queries of the driver they run, and a client     *)
(* that follows the next links from one page to the last while the table   *)
(* changes.                                                                *)
(*                                                                         *)
(* Every page is a request of its own, and but for the roots a request is  *)
(* two statements or three: look the directory up, look the ancestor up,   *)
(* list.  Nothing holds the table still between any two of them, and any   *)
(* of them may fail, or lose its connection while its rows arrive.         *)
(***************************************************************************)
EXTENDS Directories, Sequences

CONSTANTS
    Kinds,             \* the listings a client may ask for
    FirstPages,        \* the pages it may start from; 0: it names none
    Limits,            \* the page sizes it may ask for; 0: it names none
    DefaultPageSize,
    MaxInt,            \* the largest int
    FastReads          \* does the server read from followers?

ASSUME ListingAssumption ==
    /\ Kinds \subseteq {"roots", "children", "parents", "until"}
    /\ MaxInt \in Nat
    /\ DefaultPageSize \in 1 .. MaxInt
    /\ FirstPages \subseteq 0 .. MaxInt
    /\ Limits \subseteq 0 .. MaxInt
    /\ FastReads \in BOOLEAN
    /\ \A d, e \in Dirs : Seed.born[d] = Seed.born[e] /\ Seed.born[d] > 0 => d = e

VARIABLES
    ask,      \* what the client asks for: kind, directory, ancestor, deleted ones too?
    page,     \* the page it asks for
    limit,    \* the size of a page
    pc,       \* how far the request for that page has come
    got,      \* the directories it has been given
    reply,    \* how the walk ended; 0: not yet
    looked,   \* when the directory was last looked up
    first,    \* when the first page was read
    last,     \* when the last page so far was read
    broken    \* history: did a statement fail, or was a page cut short?

walkVars == <<ask, page, limit, pc, got, reply, looked, first, last, broken>>
vars == <<tableVars, walkVars>>

Ask ==
    { a \in [kind : Kinds, dir : Dirs \cup {NoDir}, anc : Dirs \cup {NoDir},
             deleted : BOOLEAN] :
        /\ a.kind = "roots" <=> a.dir = NoDir
        /\ a.kind = "until" <=> a.anc # NoDir }

TypeOK ==
    /\ TableTypeOK
    /\ pc = "idle" \/ (ask \in Ask /\ page \in FirstPages \cup 1 .. Cardinality(Dirs) + 1)
    /\ limit \in 0 .. MaxInt
    /\ pc \in {"idle", "lookup", "ancestor", "list", "done"}
    /\ got \in Seq(Dirs)
    /\ reply \in {0, 200, 404, 500}
    /\ {looked, first, last} \subseteq 0 .. now
    /\ broken \in BOOLEAN

Init ==
    /\ TableInit
    /\ ask = NoDir
    /\ page = 0
    /\ limit = 0
    /\ pc = "idle"
    /\ got = <<>>
    /\ reply = 0
    /\ looked = 0 /\ first = 0 /\ last = 0
    /\ broken = FALSE

----------------------------------------------------------------------------
(* Paging (storage/options.go), in integers that wrap around.              *)

Wrap(n) == ((n + MaxInt + 1) % (2 * (MaxInt + 1))) - (MaxInt + 1)

GetPage == IF page < 1 THEN 1 ELSE page
GetPageSize == IF limit < 1 THEN DefaultPageSize ELSE limit
GetPageOffset == Wrap(GetPageSize * (GetPage - 1))

(* The drivers cut the page out of rows[1 :], whose first is the directory *)
(* itself: rows[from : to] in Go.                                          *)
From == Wrap(GetPageOffset + 1)
To(rows) ==
    LET to == Wrap(From + GetPageSize) IN IF to > Len(rows) THEN Len(rows) ELSE to

PastTheEnd(rows) == From >= Len(rows)
SlicePanics(rows) == ~PastTheEnd(rows) /\ (From < 0 \/ To(rows) < From)

PageOf(rows) ==
    IF PastTheEnd(rows) THEN <<>> ELSE SubSeq(rows, From + 1, To(rows))

(* LIMIT and OFFSET of ListRoots.                                          *)
PageOfRoots(rows) ==
    LET end == GetPageOffset + GetPageSize
    IN IF GetPageOffset >= Len(rows)
         THEN <<>>
         ELSE SubSeq(rows, GetPageOffset + 1, IF end > Len(rows) THEN Len(rows) ELSE end)

(* Mutants of HasNext: only a page longer than its size has a successor;   *)
(* every page has one.                                                     *)
HasNextWhenLonger(count) == count > GetPageSize
HasNextAlways(count) == count <= GetPageSize

(* paginationResponse: a full page may have a successor.                   *)
HasNext(count) == count = GetPageSize

----------------------------------------------------------------------------
(* What the driver's queries return at time t.                             *)

ReadTime == IF FastReads THEN follower ELSE now

Visible(t) == { x \in Dirs : ExistsAt(x, t) /\ (ask.deleted \/ LiveAt(x, t)) }

Above(x, y, t) == y \in Below(parent, x, Visible(t))   \* x is y or above it

RootsAt(t) == { x \in Visible(t) : Root(x) }

ChildrenAt(t) ==
    IF ask.dir \in Visible(t) THEN Below(parent, ask.dir, Visible(t)) ELSE {}

ParentsAt(t) ==
    IF ask.dir \in Visible(t)
      THEN { x \in Visible(t) : Above(x, ask.dir, t) } ELSE {}

(* Mutant of UntilAt: the walk up does not stop at the ancestor.           *)
UntilAtRoot(t) == ParentsAt(t)

(* The walk up does not go on from the ancestor; when it does not meet the *)
(* ancestor it goes on to the root.                                        *)
UntilAt(t) ==
    { x \in ParentsAt(t) :
        (ask.anc \in ParentsAt(t) /\ x # ask.anc) => ~Above(x, ask.anc, t) }

RowsAt(t) ==
    CASE ask.kind = "roots"    -> RootsAt(t)
      [] ask.kind = "children" -> ChildrenAt(t)
      [] ask.kind = "parents"  -> ParentsAt(t)
      [] ask.kind = "until"    -> UntilAt(t)

(* The rows come level by level from the directory that is asked for,      *)
(* older ones first within a level; the roots come by age.                 *)
Pairs(t) ==
    LET rows == RowsAt(t)
        visible == Visible(t)
    IN UNION { {x} \X (rows \cap Below(parent, x, visible)) : x \in rows }

Level(x, pairs) ==
    CASE ask.kind = "roots"    -> 0
      [] ask.kind = "children" -> Cardinality({ y \in Dirs : <<y, x>> \in pairs })
      [] OTHER                 -> Cardinality({ y \in Dirs : <<x, y>> \in pairs })

Before(t) ==
    LET pairs == Pairs(t)
    IN { p \in RowsAt(t) \X RowsAt(t) :
           \/ Level(p[1], pairs) < Level(p[2], pairs)
           \/ Level(p[1], pairs) = Level(p[2], pairs) /\ born[p[1]] < born[p[2]] }

Query(t) ==
    LET rows == RowsAt(t)
        before == Before(t)
    IN [i \in 1 .. Cardinality(rows) |->
          CHOOSE x \in rows : Cardinality({ y \in rows : <<y, x>> \in before }) = i - 1]

----------------------------------------------------------------------------
(* The walk.                                                               *)

Asking == IF ask.kind = "roots" THEN "list" ELSE "lookup"

Begin ==
    /\ pc = "idle"
    /\ ask' \in Ask
    /\ \A d \in {ask'.dir, ask'.anc} \ {NoDir} : Exists(d)
    /\ page' \in FirstPages
    /\ limit' \in Limits
    /\ pc' = IF ask'.kind = "roots" THEN "list" ELSE "lookup"
    /\ UNCHANGED <<tableVars, got, reply, looked, first, last, broken>>

Ends(status) == pc' = "done" /\ reply' = status

(* getDirectoryFromReference, for the directory and for the ancestor, when *)
(* the database answers; StatementFails is the case that it does not.      *)
LookUp ==
    /\ pc = "lookup"
    /\ looked' = ReadTime
    /\ IF ask.dir \in Visible(ReadTime)
         THEN /\ pc' = IF ask.kind = "until" THEN "ancestor" ELSE "list"
              /\ UNCHANGED reply
         ELSE Ends(404)
    /\ UNCHANGED <<tableVars, ask, page, limit, got, first, last, broken>>

LookUpAncestor ==
    /\ pc = "ancestor"
    /\ IF ask.anc \in Visible(ReadTime)
         THEN pc' = "list" /\ UNCHANGED reply
         ELSE Ends(404)
    /\ UNCHANGED <<tableVars, ask, page, limit, got, looked, first, last, broken>>

(* The loops over rows.Next() never ask rows.Err(): when the connection    *)
(* breaks while rows arrive, those that have come are all there is.        *)
Arriving(rows) == { SubSeq(rows, 1, n) : n \in 0 .. Len(rows) }

(* The handler answers with a page; the client asks for the next one, if   *)
(* there is a link to it.  "whole" is the page that there is to give.      *)
Give(rows, whole) ==
    /\ got' = got \o rows
    /\ broken' = (rows # whole)
    /\ last' = ReadTime
    /\ first' = IF got = <<>> THEN ReadTime ELSE first
    /\ IF HasNext(Len(rows))
         THEN /\ page' = GetPage + 1
              /\ limit' = GetPageSize
              /\ pc' = Asking
              /\ UNCHANGED reply
         ELSE Ends(200) /\ UNCHANGED <<page, limit>>
    /\ UNCHANGED <<tableVars, ask, looked>>

Fails == Ends(500) /\ UNCHANGED <<tableVars, ask, page, limit, got, looked, first, last>>

(* The database refuses a negative OFFSET.                                 *)
ListRoots ==
    /\ pc = "list"
    /\ ask.kind = "roots"
    /\ IF GetPageOffset < 0
         THEN Fails /\ UNCHANGED broken
         ELSE LET whole == PageOfRoots(Query(ReadTime))
              IN \E rows \in Arriving(whole) : Give(rows, whole)

(* Of a directory that is its own ancestor nothing is asked.               *)
AsksNothing == ask.kind = "until" /\ ask.dir = ask.anc

ListNothing ==
    /\ pc = "list"
    /\ AsksNothing
    /\ Give(<<>>, <<>>)

(* Mutant of ListRelatives: a page past the end is an error.               *)
ListRelativesStrictly ==
    /\ pc = "list"
    /\ ask.kind # "roots"
    /\ ~AsksNothing
    /\ LET all == Query(ReadTime)
       IN \E rows \in Arriving(all) :
            IF PastTheEnd(rows)
              THEN Fails /\ broken' = ~PastTheEnd(all)
              ELSE Give(PageOf(rows), PageOf(all))

(* GetChildren, GetParents, GetParentsUntilAncestor: no row at all means   *)
(* that the directory is not there, which these handlers answer, unlike    *)
(* the look-up, with an internal error; a panic is answered so too.        *)
ListRelatives ==
    /\ pc = "list"
    /\ ask.kind # "roots"
    /\ ~AsksNothing
    /\ LET all == Query(ReadTime)
           Refused(rows) == rows = <<>> \/ SlicePanics(rows)
       IN \E rows \in Arriving(all) :
            IF Refused(rows)
              THEN Fails /\ broken' = ~Refused(all)
              ELSE Give(PageOf(rows), PageOf(all))

(* A look-up or a query fails, for whatever reason the database has.       *)
StatementFails ==
    /\ pc \in {"lookup", "ancestor", "list"}
    /\ ~(pc = "list" /\ AsksNothing)
    /\ Fails
    /\ broken' = TRUE

(* Meanwhile others create and delete, and followers catch up.             *)
TableChanges ==
    /\ pc \in {"lookup", "ancestor", "list"}
    /\ \/ \E d \in Dirs, p \in Dirs \cup {NoDir} : Insert(d, p, Seed.text)
       \/ \E d \in Dirs : SoftDelete(d)
       \/ FastReads /\ CatchUp
    /\ UNCHANGED walkVars

Next ==
    \/ Begin
    \/ LookUp \/ LookUpAncestor
    \/ ListRoots \/ ListNothing \/ ListRelatives
    \/ StatementFails
    \/ TableChanges

Spec == Init /\ [][Next]_vars

----------------------------------------------------------------------------
(* What the listings guarantee.                                            *)

Given == { got[i] : i \in 1 .. Len(got) }

(* The directory asked for is not part of its own listing.                 *)
Wanted(t) == RowsAt(t) \ {ask.dir}

Deletions(from, to) == { d \in Dirs : from < died[d] /\ died[d] <= to }

(* Does d come after all the walk has been given, as last read?            *)
ComesAfterGiven(d) == \A i \in 1 .. Len(got) : <<got[i], d>> \in Before(last)

(* A walk to the last page misses nothing that was there all along,        *)
(* whatever is created meanwhile: what is new comes after what it has      *)
(* seen, or pushes it on to pages yet to come.  Only deletions can pull a  *)
(* directory back to a page that has been read, and they cannot when       *)
(* deleted directories are listed too.  Roots, never deleted, are safe.    *)
(* A page that was cut short passes for the last; what the walk then       *)
(* misses is the end of the listing, and nothing in the middle of it.      *)
NothingIsOmitted ==
    (reply = 200 /\ (ask.deleted \/ Deletions(first, last) = {})) =>
        \A d \in (Wanted(first) \cap Wanted(last)) \ Given :
            broken /\ ComesAfterGiven(d)

(* A walk is given nothing but what belongs to the listing, as the tree    *)
(* has it, and was visible at some time between its first page and its     *)
(* last.                                                                   *)
StrictlyAbove(x, y) == x # y /\ y \in Below(parent, x, { z \in Dirs : Exists(z) })

Belongs(x) ==
    CASE ask.kind = "roots"    -> Root(x)
      [] ask.kind = "children" -> StrictlyAbove(ask.dir, x)
      [] ask.kind = "parents"  -> StrictlyAbove(x, ask.dir)
      [] ask.kind = "until"    -> /\ StrictlyAbove(x, ask.dir)
                                  /\ StrictlyAbove(x, ask.anc) =>
                                       ask.dir # ask.anc /\ ~StrictlyAbove(ask.anc, ask.dir)

NothingIsMadeUp ==
    \A i \in 1 .. Len(got) :
        /\ Belongs(got[i])
        /\ ExistsAt(got[i], last)
        /\ ask.deleted \/ died[got[i]] = 0 \/ first < died[got[i]]

(* As long as the database answers, a listing fails only when the          *)
(* directory was there when it was looked up and is gone when its listing  *)
(* is read.                                                                *)
FailsOnlyByDeletion ==
    (reply = 500 /\ ~broken) =>
        /\ ask.kind # "roots"
        /\ looked < died[ask.dir]
        /\ died[ask.dir] <= ReadTime

=============================================================================
