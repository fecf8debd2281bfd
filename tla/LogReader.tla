------------------------------ MODULE LogReader ------------------------------
(***************************************************************************)
(* GET /api/logs, and a client of it that reads a list page by page: it    *)
(* asks for the next page from where the last one ended until a page comes *)
(* back with fewer rows than the limit the answer names.  The client is    *)
(* not part of RequestLens; limit, offset and total are made for it.       *)
(***************************************************************************)
EXTENDS LogList

CONSTANT Limits  \* limits that clients ask for

ASSUME ReaderAssumption == Limits \subseteq Int

VARIABLES
    readerPc,  \* idle, count, page (between the two statements), done
    request,   \* filter and limit of the client
    offset,    \* where the next page begins
    total,     \* the count of the last answer
    page,      \* ids of the rows of the last answer
    seen,      \* ids the client has received
    (* history *)
    stay,      \* ids in the list since the reading began
    repeated,  \* the client has received a row twice
    grown,     \* a row has come into the list since the reading began
    shrunk,    \* a row has left the list since the reading began
    steady     \* the list has not changed since it was counted

readerVars == <<readerPc, request, offset, total, page, seen, stay, repeated, grown,
                shrunk, steady>>

ReaderInit ==
    /\ readerPc = "idle"
    /\ request = [filter |-> NoFilter, limit |-> 0]
    /\ offset = 0 /\ total = 0 /\ page = {} /\ seen = {}
    /\ stay = {} /\ repeated = FALSE /\ grown = FALSE /\ shrunk = FALSE /\ steady = FALSE

InList == Selected(request.filter)

Limit == PageLimit(request.limit)

StartReading(f, limit) ==
    /\ readerPc = "idle"
    /\ readerPc' = "count"
    /\ request' = [filter |-> f, limit |-> limit]
    /\ stay' = RowIds(Selected(f))
    /\ UNCHANGED <<offset, total, page, seen, repeated, grown, shrunk, steady, tableVars>>

\* Mutant: the count takes every row of the table.
CountAllRows ==
    /\ readerPc = "count"
    /\ readerPc' = "page"
    /\ total' = Cardinality(table)
    /\ steady' = TRUE
    /\ UNCHANGED <<request, offset, page, seen, stay, repeated, grown, shrunk, tableVars>>

\* ListLogs: SELECT COUNT(*) ...
CountRows ==
    /\ readerPc = "count"
    /\ readerPc' = "page"
    /\ total' = Cardinality(InList)
    /\ steady' = TRUE
    /\ UNCHANGED <<request, offset, page, seen, stay, repeated, grown, shrunk, tableVars>>

\* ... then the page, which goes to the client together with the count.
SelectPage ==
    LET rows == Window(request.filter, Limit, offset) IN
    /\ readerPc = "page"
    /\ readerPc' = IF Cardinality(rows) < Limit THEN "done" ELSE "count"
    /\ page' = RowIds(rows)
    /\ offset' = offset + Cardinality(rows)
    /\ seen' = seen \cup RowIds(rows)
    /\ repeated' = (repeated \/ seen \cap RowIds(rows) # {})
    /\ UNCHANGED <<request, total, stay, grown, shrunk, steady, tableVars>>

ReaderNext ==
    \/ \E f \in Filters, limit \in Limits : StartReading(f, limit)
    \/ CountRows
    \/ SelectPage

\* What a change of the tables does to the history of the reading.
Watch ==
    IF readerPc \in {"count", "page"}
    THEN /\ UNCHANGED <<readerPc, request, offset, total, page, seen, repeated>>
         /\ stay' = stay \cap RowIds(InList')
         /\ grown' = (grown \/ RowIds(InList') \ RowIds(InList) # {})
         /\ shrunk' = (shrunk \/ RowIds(InList) \ RowIds(InList') # {})
         /\ steady' = (steady /\ RowIds(InList') = RowIds(InList))
    ELSE UNCHANGED readerVars

-----------------------------------------------------------------------------
(* Properties *)

ReaderTypeOK ==
    /\ readerPc \in {"idle", "count", "page", "done"}
    /\ request \in [filter: Filters \cup {NoFilter}, limit: Limits \cup {0}]
    /\ offset \in Nat /\ total \in Nat
    /\ page \subseteq 1..lastId /\ seen \subseteq 1..lastId /\ stay \subseteq 1..lastId

\* Reading page by page misses no row that was in the list from beginning to
\* end, unless a row left the list meanwhile: rows that are written meanwhile,
\* anywhere in the order since they carry the time their exchange began, move
\* others only to later pages.
PagingMissesNothing == readerPc = "done" /\ ~shrunk => stay \subseteq seen

\* It meets no row twice unless a row came into the list meanwhile.
PagingRepeatsNothing == repeated => grown

\* The total of an answer agrees with its page though they come from two
\* statements, unless the list changed between the two.
TotalAgrees ==
    readerPc \in {"count", "done"} /\ steady =>
        LET before == offset - Cardinality(page)
            left == IF total > before THEN total - before ELSE 0
        IN Cardinality(page) = IF left < Limit THEN left ELSE Limit

=============================================================================
