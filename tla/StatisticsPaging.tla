-------------------------- MODULE StatisticsPaging --------------------------
(***************************************************************************)
(* The order of the statistics rows and the cursor of the export            *)
(* (service/statistics_export.go, model/statistics_export_rows.go) against  *)
(* the order of the page (service/statistics.go).                           *)
(*                                                                          *)
(* An item is a dimension in a bucket; the export writes a row for each     *)
(* site of its breakdown.  Names are numbers and need not be unique.  The   *)
(* pages are read in one repeatable-read transaction, so the items do not   *)
(* change; the clock goes on.                                               *)
(***************************************************************************)
EXTENDS Integers, Sequences, FiniteSets, SequencesExt, TLC

CONSTANTS
    Keys,          \* the dimension keys
    Names,         \* the names a dimension may have
    Sites,         \* the sites of a breakdown
    Buckets,       \* the bucket starts; the last bucket is not over yet
    Numbers,       \* the values of the metric that is sorted by
    SortBys, SortOrders,
    PageSize,
    MaximumRows,   \* StatisticsExportMaximumCandidateRows
    FlowScope,     \* the scope is group, token or node
    MaxNow         \* bound: how often the hour changes during an export

VARIABLES
    items,         \* the items: name, metric, known, sites
    sortBy, sortOrder,
    now,
    cursor,        \* the row the last page ended with, or NoCursor
    offset,        \* snapshotOffset, and the status the snapshot has
    out,           \* the rows that were written
    state          \* "running", "done" or "failed"

request == <<items, sortBy, sortOrder>>
pagingVars == <<request, now, cursor, offset, out, state>>

NoCursor == [bucket |-> -1]
NoSite == 0
Metric == "quota"
Items == Keys \X Buckets

Init ==
    /\ \E names \in [Keys -> Names], sites \in [Keys -> SUBSET Sites],
          number \in [Items -> Numbers], known \in [Items -> BOOLEAN] :
        items = [i \in Items |-> [name |-> names[i[1]], sites |-> sites[i[1]],
                                  number |-> number[i], known |-> known[i]]]
    /\ sortBy \in SortBys
    /\ sortOrder \in SortOrders
    /\ sortBy # Metric => \A i \in Items : items[i].number = Min(Numbers) /\ items[i].known
    /\ now = 0
    /\ cursor = NoCursor
    /\ offset = [at |-> 0, now |-> -1]
    /\ out = <<>>
    /\ state = "running"

-----------------------------------------------------------------------------
(* The order of the rows of the export.                                     *)

\* A descending term is compared by its negation.
Directed(v) == IF sortOrder = "desc" THEN -v ELSE v

\* A row of final_rows: a site of the breakdown of an item, or none.
Row(i, s) == [key |-> i[1], bucket |-> i[2], site |-> s]
RowsOf(i) == {Row(i, s) : s \in IF items[i].sites = {} THEN {NoSite} ELSE items[i].sites}
Rows == UNION {RowsOf(i) : i \in Items}
ItemOf(r) == <<r.key, r.bucket>>


\* statisticsExportLogicalSelectionTerms and the terms before the site.
ItemTerms(i) ==
    CASE sortBy = Metric -> <<IF items[i].known THEN 0 ELSE 1, Directed(items[i].number),
                              Directed(items[i].name), Directed(i[2]), i[1]>>
      [] sortBy = "name" -> <<Directed(items[i].name), Directed(i[2]), i[1]>>
      [] sortBy = "bucket_start" -> <<Directed(i[2]), Directed(items[i].name), i[1]>>


\* statisticsExportOrderTerms.
OrderTerms(r) == Append(ItemTerms(ItemOf(r)), r.site)

\* statisticsExportAfter: one clause per term, equal in the terms before it.
After(t, u) == \E k \in DOMAIN t : t[k] > u[k] /\ \A j \in 1 .. k - 1 : t[j] = u[j]

\* statisticsExportAtOrAfter.
AtOrAfter(t, u) == After(t, u) \/ t = u

\* ORDER BY: the members of the domain of terms in the order of their terms.
InOrder(terms) == SortSeq(SetToSeq(DOMAIN terms), LAMBDA x, y : After(terms[y], terms[x]))

\* ORDER BY ... LIMIT n.
FirstOf(terms, n) ==
    LET sorted == InOrder(terms) IN {sorted[k] : k \in 1 .. Min({n, Len(sorted)})}

-----------------------------------------------------------------------------
(* A page of the export.                                                    *)

\* Mutant: no item is reserved for the one that is already consumed.
SelectedLimitPlain == PageSize + 1

SelectedLimit == PageSize + 1 + (IF cursor = NoCursor THEN 0 ELSE 1)

\* statisticsExportSelectedItemsSQL: a metric needs all items, the others are
\* limited before their metrics are read.
SelectedItems ==
    IF sortBy = Metric
    THEN Items
    ELSE LET from == {i \in Items : cursor = NoCursor \/ AtOrAfter(ItemTerms(i), ItemTerms(ItemOf(cursor)))}
         IN  FirstOf([i \in from |-> ItemTerms(i)], SelectedLimit)


\* The WHERE of the statement.
Beyond(r) == cursor = NoCursor \/ After(OrderTerms(r), OrderTerms(cursor))

\* LoadExportRows: one row more than the page shows.
LoadExportRows ==
    LET rows == {r \in UNION {RowsOf(i) : i \in SelectedItems} : Beyond(r)}
    IN  FirstOf([r \in rows |-> OrderTerms(r)], PageSize + 1)

\* validateStatisticsExportCapacity.
WithinCapacity == Cardinality({<<r.key, r.site>> : r \in Rows}) * Cardinality(Buckets) <= MaximumRows

\* The completeness of a row is computed for the time of its page.
Status(r, at) == IF r.bucket = Max(Buckets) /\ at > 0 THEN "partial" ELSE "complete"
Written(r, at) == [row |-> r, status |-> Status(r, at)]

\* Next of the iterator.
NextPage ==
    /\ ~FlowScope
    /\ state = "running"
    /\ WithinCapacity
    /\ \E loaded \in {InOrder([r \in LoadExportRows |-> OrderTerms(r)])} :
        IF loaded = <<>>
        THEN state' = "done" /\ UNCHANGED <<out, cursor>>
        ELSE LET shown == SubSeq(loaded, 1, Min({PageSize, Len(loaded)}))
             IN  /\ out' = out \o [k \in DOMAIN shown |-> Written(shown[k], now)]
                 /\ cursor' = shown[Len(shown)]
                 /\ state' = IF Len(loaded) > PageSize THEN "running" ELSE "done"
    /\ UNCHANGED <<request, now, offset>>

\* ErrStatisticsExportCapacity.
TooLarge ==
    /\ ~FlowScope
    /\ state = "running"
    /\ ~WithinCapacity
    /\ state' = "failed"
    /\ UNCHANGED <<request, now, cursor, offset, out>>

-----------------------------------------------------------------------------
(* The page, and the export of its snapshot.                                *)

Compare(a, b) == IF a < b THEN -1 ELSE IF a > b THEN 1 ELSE 0

\* breakdownLess.
BreakdownLess(l, r) ==
    LET first == CASE sortBy = "name" -> Compare(items[l].name, items[r].name)
                   [] sortBy = "bucket_start" -> Compare(l[2], r[2])
                   [] sortBy = Metric -> Compare(items[l].number, items[r].number)
        byName == Compare(items[l].name, items[r].name)
        byBucket == Compare(l[2], r[2])
        order == IF first # 0 THEN first ELSE IF byName # 0 THEN byName ELSE byBucket
    IN  CASE sortBy = Metric /\ items[l].known # items[r].known -> items[l].known
          [] order # 0 -> Directed(order) < 0
          [] OTHER -> l[1] < r[1]

\* buildBreakdown: all items in order.
Breakdown ==
    SortSeq(SetToSeq(Items), BreakdownLess)


\* The snapshot is taken once, with the first page.
SnapshotTime == IF offset.now < 0 THEN now ELSE offset.now


\* Where the next page goes on.
SnapshotNext(to) == to

\* A page of nextFlowDimensionSnapshot; its items have one site each.
NextSnapshot ==
    /\ FlowScope
    /\ state = "running"
    /\ LET to == Min({offset.at + PageSize, Cardinality(Items)})
           rows == [k \in 1 .. to - offset.at |-> Breakdown[offset.at + k]]
       IN  /\ out' = out \o [k \in DOMAIN rows |-> Written(Row(rows[k], NoSite), SnapshotTime)]
           /\ offset' = [at |-> SnapshotNext(to), now |-> SnapshotTime]
           /\ state' = IF to = Cardinality(Items) THEN "done" ELSE "running"
    /\ UNCHANGED <<request, now, cursor>>

\* An hour ends while the export runs.
Tick ==
    /\ now < MaxNow
    /\ state = "running"
    /\ now' = now + 1
    /\ UNCHANGED <<request, cursor, offset, out, state>>

Next == NextPage \/ NextSnapshot \/ TooLarge \/ Tick

Spec == Init /\ [][Next]_pagingVars

-----------------------------------------------------------------------------
(* Properties.                                                              *)

\* The cursor is a row, and the export never writes more than there is.
TypeOK ==
    /\ cursor \in Rows \cup {NoCursor}
    /\ state \in {"running", "done", "failed"}
    /\ Len(out) <= Cardinality(IF FlowScope THEN Items ELSE Rows)

\* A finished export has every row of the page's items exactly once, and they
\* are in the order in which the page shows them: the cursor neither skips nor
\* repeats a row, also inside the breakdown of an item and among equal names.
ExportIsThePage ==
    state = "done" =>
        /\ Len(out) = Cardinality(IF FlowScope THEN Items ELSE Rows)
        /\ \A j, k \in DOMAIN out : j < k =>
            /\ out[j].row # out[k].row
            /\ ~BreakdownLess(ItemOf(out[k].row), ItemOf(out[j].row))

PagesAdvanceStep ==
       state' = "running" /\ now' = now =>
        \/ offset'.at > offset.at
        \/ cursor' # NoCursor /\ (cursor = NoCursor \/ After(OrderTerms(cursor'), OrderTerms(cursor)))
\* A page that is not the last moves the cursor, or the offset, strictly
\* forward, so every export ends whatever the page size.
PagesAdvance == [][PagesAdvanceStep]_pagingVars

\* The rows of a bucket are all judged at one time, as they are of one snapshot.
OneSnapshot ==
    \A j, k \in DOMAIN out : out[j].row.bucket = out[k].row.bucket => out[j].status = out[k].status

=============================================================================
