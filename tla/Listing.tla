------------------------------ MODULE Listing ------------------------------
(***************************************************************************)
(* Going through a list while its rows come, go and change.                *)
(*                                                                         *)
(* By cursor (books): the first page is asked for by number, one query for *)
(* the ids and one for the rows, and comes with the id of its last row;    *)
(* the following pages are by id. Ids are UUIDv7, so that their order is   *)
(* that of creation, but the first page is ordered by createdAt.           *)
(*                                                                         *)
(* By number (all other lists): findMany and count run at the same time,   *)
(* as two statements, and there is a next page when page < ceil(count /    *)
(* limit).                                                                 *)
(*                                                                         *)
(* Every list is ordered by one column that is not unique: rows may be     *)
(* tied, and each query puts tied rows in an order of its own. Which rows  *)
(* are tied is left open. A filter stays the same during a walk, but a row *)
(* may come to pass it or cease to.                                        *)
(***************************************************************************)
EXTENDS Integers, Sequences, FiniteSets, SequencesExt

CONSTANTS
    Ids,            \* bound on the rows ever created
    Limit           \* the page size asked for

ASSUME ListingAssumption == Ids \in Nat /\ Limit \in Int

VARIABLES
    list,           \* the list
    shelf,          \* the rows that pass the filter, in that order
    hidden,         \* the rows that do not
    created,        \* ids given so far
    walk,           \* where the client is: new, ids, page, number, done
    ids,            \* the ids the first query has found
    cursor,         \* the cursor of the last answer, 0 for none
    number,         \* by number: the page, have its rows come, and its count
    got,            \* the rows the client was shown, in order
    seenAtStart,    \* the rows there were when the walk began (history)
    touched,        \* rows changed since then (history)
    turned,         \* rows a tie has carried from the pages shown to those to
                    \* come or back (history)
    events          \* what else happened to the walk (history): cut, a page
                    \* whose rows had gone; skew, a first page not of the newest
                    \* ids; during a walk by number: added (to the front or
                    \* between), removed, and late, a row added between a count
                    \* and its rows

listingVars == <<list, shelf, hidden, created, walk, ids, cursor, number, got,
                 seenAtStart, touched, turned, events>>
rowVars == <<shelf, hidden, created>>
history == <<seenAtStart, touched, turned, events>>
client == <<walk, ids, cursor, number, got, seenAtStart, turned>>

NotCounted == -1
FirstNumber == [page |-> 1, found |-> FALSE, total |-> NotCounted]

\* The lists: may a change move a row (the column that orders them is updatedAt,
\* or one that is edited), may it make a row pass the filter or cease to, and are
\* rows deleted.
ListOf(moves, filters, deletes) ==
    {[moves |-> m, filters |-> filters, deletes |-> deletes, byCursor |-> FALSE] : m \in moves}
OrderList == ListOf({FALSE, TRUE}, TRUE, FALSE)
ShipmentList == ListOf({FALSE, TRUE}, TRUE, FALSE)
VoucherList == ListOf({FALSE, TRUE}, TRUE, TRUE)
PromotionList == ListOf({TRUE}, TRUE, TRUE)
ReviewList == ListOf({FALSE, TRUE}, FALSE, TRUE)
UserList == ListOf({FALSE, TRUE}, TRUE, FALSE)
LogList == ListOf({FALSE}, FALSE, TRUE)
BookList == [moves |-> FALSE, filters |-> TRUE, deletes |-> TRUE, byCursor |-> TRUE]

Lists == {BookList} \cup OrderList \cup ShipmentList \cup VoucherList \cup PromotionList
         \cup ReviewList \cup UserList \cup LogList

ListingInit ==
    /\ list \in Lists
    /\ created \in 0..Ids
    /\ shelf = [i \in 1..created |-> created + 1 - i]
    /\ hidden = {}
    /\ walk = "new"
    /\ ids = {}
    /\ cursor = 0
    /\ number = FirstNumber
    /\ got = <<>>
    /\ seenAtStart = {}
    /\ touched = {}
    /\ turned = {}
    /\ events = {}

\* getPagination.
SafeLimit(n) == Min({100, Max({1, n})})
Take == SafeLimit(Limit)

Rows == ToSet(shelf)
NewestFirst(S) ==
    [i \in 1..Cardinality(S) |-> CHOOSE x \in S : Cardinality({y \in S : y > x}) = i - 1]
Newest_(S, n) == {x \in S : Cardinality({y \in S : y > x}) < n}

Numbered == walk = "number"
Happens(S) == events' = events \cup S
Joined == {"added"} \cup IF number.total # NotCounted THEN {"late"} ELSE {}

-----------------------------------------------------------------------------
(* The rows, while someone goes through them.                              *)

Walking == walk \notin {"new", "done"}
PlaceOf(s, b) == CHOOSE i \in DOMAIN s : s[i] = b
Others(b) == IF b \in Rows THEN RemoveAt(shelf, PlaceOf(shelf, b)) ELSE shelf

\* The list with b where it belongs: by its id, or by a column in which it may be
\* tied with any of the others.
With(b) ==
    IF list.byCursor THEN {NewestFirst(Rows \cup {b})}
    ELSE {InsertAt(Others(b), i, b) : i \in 1..Len(Others(b)) + 1}

AddEntry ==
    /\ Walking
    /\ created < Ids
    /\ created' = created + 1
    /\ shelf' \in With(created + 1)
    /\ Happens(IF Numbered THEN Joined ELSE {})
    /\ UNCHANGED <<list, hidden, client, touched>>

RemoveEntry ==
    /\ Walking /\ list.deletes
    /\ \E b \in Rows \cup hidden :
          /\ shelf' = Others(b)
          /\ hidden' = hidden \ {b}
          /\ Happens(IF Numbered /\ b \in Rows THEN {"removed"} ELSE {})
    /\ UNCHANGED <<list, created, client, touched>>

\* A row changes and moves, or passes the filter now. A move to the back closes a
\* gap as a deletion does.
EnterEntry ==
    /\ Walking
    /\ \E b \in (IF list.moves THEN Rows ELSE {}) \cup (IF list.filters THEN hidden ELSE {}) :
          /\ shelf' \in With(b)
          /\ hidden' = hidden \ {b}
          /\ touched' = touched \cup {b}
          /\ Happens(IF ~Numbered THEN {}
                     ELSE IF b \in hidden THEN Joined
                     ELSE {"added"} \cup IF PlaceOf(shelf', b) > PlaceOf(shelf, b)
                                        THEN {"removed"} ELSE {})
    /\ shelf' # shelf
    /\ UNCHANGED <<list, created, client>>

\* A row changes and ceases to pass the filter.
LeaveEntry ==
    /\ Walking /\ list.filters
    /\ \E b \in Rows :
          /\ shelf' = Others(b)
          /\ hidden' = hidden \cup {b}
          /\ touched' = touched \cup {b}
    /\ Happens(IF Numbered THEN {"removed"} ELSE {})
    /\ UNCHANGED <<list, created, client>>

-----------------------------------------------------------------------------
(* By cursor.                                                              *)

\* Page 1, the ids: the newest by createdAt. The rows it ties may not be those of
\* the largest ids. On an empty shelf there is no cursor and no next page.
FirstIds ==
    /\ walk = "new" /\ list.byCursor
    /\ ids' \in kSubset(Min({Take, Len(shelf)}), Rows)
    /\ seenAtStart' = Rows
    /\ walk' = IF ids' = {} THEN "done" ELSE "ids"
    /\ Happens(IF ids' = Newest_(Rows, Take) THEN {} ELSE {"skew"})
    /\ UNCHANGED <<list, rowVars, cursor, number, got, touched, turned>>

\* Page 1, the rows, by their ids alone and again by createdAt: those deleted
\* since are missing, and when all are the answer has no cursor.
FirstRows ==
    /\ walk = "ids"
    /\ LET found == ids \cap (Rows \cup hidden)
       IN  /\ got' \in SetToSeqs(found)
           /\ cursor' = IF found = {} THEN 0 ELSE Last(got')
           /\ walk' = IF found = {} THEN "done" ELSE "page"
           /\ Happens(IF found = {} THEN {"cut"}
                      ELSE IF got' = NewestFirst(found) THEN {} ELSE {"skew"})
    /\ ids' = {}
    /\ UNCHANGED <<list, rowVars, number, seenAtStart, touched, turned>>

\* From the row of the cursor on, without the first that passes the filter: that
\* is the cursor's own row, or one nobody has seen when the cursor's has ceased
\* to pass. A cursor whose row has gone finds nothing.
Onwards(c) == IF c \in Rows \cup hidden THEN {x \in Rows : x <= c} ELSE {}
\* Mutant: without skip.
After_NoSkip(c) == Onwards(c)
After(c) == Onwards(c) \ Newest_(Onwards(c), 1)

\* paginateCursorItems: one row more than the page was asked for, and its
\* presence says that there is a next page.
\* Mutant: the extra row is not asked for.
Fetched_NoExtra(c) == Newest_(After(c), Take)
Fetched(c) == Newest_(After(c), Take + 1)

NextPage ==
    /\ walk = "page"
    /\ LET rows == NewestFirst(Fetched(cursor))
           more == Len(rows) > Take
           page == IF more THEN SubSeq(rows, 1, Take) ELSE rows
       IN  /\ got' = got \o page
           /\ cursor' = IF more THEN Last(page) ELSE 0
           /\ walk' = IF more THEN "page" ELSE "done"
    /\ Happens(IF cursor \notin Rows THEN {"cut"} ELSE {})
    /\ UNCHANGED <<list, rowVars, ids, number, seenAtStart, touched, turned>>

-----------------------------------------------------------------------------
(* By number: all lists but that of the books.                             *)

StartNumbered ==
    /\ walk = "new" /\ ~list.byCursor
    /\ walk' = "number"
    /\ seenAtStart' = Rows
    /\ UNCHANGED <<list, rowVars, ids, cursor, number, got, touched, turned, events>>

Skip(p) == (p - 1) * Take

\* Between two queries tied rows change places; those that cross the border between
\* the pages shown and those to come will be shown again, or never.
TiesTurn ==
    /\ Numbered /\ ~number.found
    /\ shelf' \in SetToSeqs(Rows) \ {shelf}
    /\ turned' = turned \cup {b \in Rows : (PlaceOf(shelf, b) <= Skip(number.page))
                                            # (PlaceOf(shelf', b) <= Skip(number.page))}
    /\ UNCHANGED <<list, hidden, created, walk, ids, cursor, number, got, seenAtStart, touched, events>>

PageRows(p) == SubSeq(shelf, Skip(p) + 1, Min({p * Take, Len(shelf)}))

\* buildMeta: page < ceil(total / limit).
\* Mutant: rounded down.
HasNext_Floor(p, total) == p < total \div Take
HasNext(p, total) == p < (total + Take - 1) \div Take

\* The later of the two answers ends the request.
Asked(n) ==
    IF ~n.found \/ n.total = NotCounted THEN number' = n /\ walk' = walk
    ELSE IF HasNext(n.page, n.total)
         THEN number' = [FirstNumber EXCEPT !.page = n.page + 1] /\ walk' = walk
         ELSE number' = FirstNumber /\ walk' = "done"

FindMany ==
    /\ Numbered /\ ~number.found
    /\ got' = got \o PageRows(number.page)
    /\ Asked([number EXCEPT !.found = TRUE])
    /\ UNCHANGED <<list, rowVars, ids, cursor, history>>

Count ==
    /\ Numbered /\ number.total = NotCounted
    /\ Asked([number EXCEPT !.total = Len(shelf)])
    /\ UNCHANGED <<list, rowVars, ids, cursor, got, history>>

ListingNext ==
    \/ AddEntry \/ RemoveEntry \/ EnterEntry \/ LeaveEntry
    \/ FirstIds \/ FirstRows \/ NextPage
    \/ StartNumbered \/ TiesTurn \/ FindMany \/ Count

-----------------------------------------------------------------------------
ListingTypeOK ==
    /\ list \in Lists
    /\ created \in 0..Ids
    /\ shelf \in Seq(1..created) /\ IsInjective(shelf)
    /\ hidden \subseteq 1..created /\ hidden \cap Rows = {}
    /\ walk \in {"new", "ids", "page", "number", "done"}
    /\ ids \cup seenAtStart \cup touched \cup turned \subseteq 1..created
    /\ cursor \in 0..created
    /\ number \in [page : 1..Ids + 1, found : BOOLEAN, total : NotCounted..Ids]
    /\ got \in Seq(1..created)
    /\ events \subseteq {"cut", "skew", "added", "removed", "late"}

\* A walk by cursor whose first page is of the newest ids, in their order, shows
\* no row twice, whatever is added, deleted or changed between its pages. A walk
\* by number does not either, but for rows a tie has carried over the border of its
\* pages, unless a row was added before it was over, came to pass the filter, or
\* moved (getBooks by cursor; findByFilter, getAllShipments, findAll, findByBookId,
\* getUsers and getAllLog by number).
NoRowTwice ==
    events \cap {"added", "skew"} = {} =>
        \A i, j \in DOMAIN got : got[i] = got[j] /\ got[i] \notin turned => i = j

\* A walk to the last page has shown every row that was there from its start to
\* its end, did not change and was not carried over a border by a tie, unless by
\* cursor the first page was not of the newest ids, or the last row of a page had
\* gone or ceased to pass the filter when the next page was asked for, or by number
\* a row had gone, ceased to pass or moved back, or one had joined after the count
\* of a page and before its rows (the same queries).
NoRowMissed ==
    walk = "done" /\ events \cap {"cut", "skew", "removed", "late"} = {} =>
        (seenAtStart \cap Rows) \ (touched \cup turned) \subseteq ToSet(got)
=============================================================================
