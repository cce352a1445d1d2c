------------------------- MODULE StatisticsCoverage -------------------------
(***************************************************************************)
(* How complete a bucket of the statistics is: once computed in memory for  *)
(* the pages (service/statistics.go) and once in SQL for the export         *)
(* (model/statistics_export_rows.go).                                       *)
(*                                                                          *)
(* The database is chosen in Init and does not change; Query and Export     *)
(* answer the same request.  Time is counted in ticks, HourTicks of them    *)
(* make an hour, so that starts and pauses may lie inside an hour.          *)
(***************************************************************************)
EXTENDS Integers, FiniteSets, FiniteSetsExt

CONSTANTS
    Scope,           \* "global", "site", "account" or "customer"
    Sites, Accounts,  \* there is one customer
    HourTicks, MaxHour,
    BucketHours,     \* the hours of a bucket
    Daily,           \* the granularity is not "hour"
    UsageDelay, DeadlineSlack, MinDeadline,  \* ticks
    Nows, Starts, Ends, Disabled, Created, Paused,  \* bounds: choices of times
    Statuses, Runs,  \* bounds: choices of a window's status and of active runs
    Codes,           \* bound: registered message codes a window may carry as last_error_code
    RangeLimit,      \* how many ranges a page lists (100)
    Never            \* no such time: later than every other

Hours == 0 .. MaxHour - 1
At(h) == h * HourTicks
FloorHour(t) == (t \div HourTicks) * HourTicks

CeilHour(t) == IF t = Never THEN Never ELSE ((t + HourTicks - 1) \div HourTicks) * HourTicks
Buckets == {h \in Hours : h % BucketHours = 0}
BucketStart(b) == At(b)
BucketEnd(b) == At(b + BucketHours)
Customer == "customer"

VARIABLES
    now,
    site,      \* site: lifecycle of its statistics
    window,    \* collection_window
    runs,      \* the task types of the active run windows of an hour
    account,   \* account: site, remote_created_at, statistics_paused_at
    customer,  \* customer.statistics_paused_at
    page,      \* what the page shows of each dimension and bucket
    export     \* what the export shows of them

database == <<now, site, window, runs, account, customer>>
coverageVars == <<database, page, export>>

Nothing == [asked |-> FALSE]

\* A paused customer paused its accounts, and an account joins only a
\* customer in use; a site has an end only if it is disabled.
Reachable ==
    /\ \A s \in Sites : site[s].end # Never => site[s].disabled # Never
    /\ \A a \in Accounts :
        /\ account[a].created < account[a].paused
        /\ account[a].paused <= customer
        /\ FloorHour(account[a].created) <= customer
    /\ \A s \in Sites, h \in Hours :
        /\ At(h + 1) > now => window[s][h].status = "absent" /\ runs[s][h] = {}
        /\ window[s][h].verified => BucketEnd((h \div BucketHours) * BucketHours) <= now

\* A failed hour has the code of its failure, "none" when it is not registered.
Windows ==
    {w \in [status : Statuses, verified : BOOLEAN, code : Codes \cup {"none"}] :
        /\ w.verified => w.status = "complete"
        /\ w.code # "none" => w.status \in {"missing", "unavailable"}}

Init ==
    /\ now \in Nows
    /\ site \in [Sites -> [start : Starts, end : Ends, disabled : Disabled, backfilling : BOOLEAN]]
    /\ window \in [Sites -> [Hours -> Windows]]
    /\ runs \in [Sites -> [Hours -> Runs]]
    /\ account \in [Accounts -> [site : Sites, created : Created, paused : Paused]]
    /\ customer \in Paused
    /\ Reachable
    /\ page = Nothing
    /\ export = Nothing

\* The time after the end of an hour at which its absence counts.
Deadline == IF UsageDelay + DeadlineSlack < MinDeadline THEN MinDeadline ELSE UsageDelay + DeadlineSlack

-----------------------------------------------------------------------------
(* The page.                                                                *)

StatisticsSiteExpected(s, h) == site[s].start < At(h + 1) /\ site[s].end > At(h)
StatisticsAccountExpected(a, h) == account[a].created < At(h + 1) /\ At(h) < account[a].paused

\* The hours that may still be collected before they count as missing.
Awaited(h) == now < At(h + 1) + Deadline


\* windowState: the status of a site's hour on the page.
WindowState(s, h) ==
    LET status == window[s][h].status
    IN  CASE status \in {"complete", "unavailable"} -> status
          [] site[s].disabled # Never /\ site[s].end = Never /\ At(h) >= FloorHour(site[s].disabled) -> "paused"
          [] "usage_backfill" \in runs[s][h] -> "backfilling"
          [] runs[s][h] # {} -> "pending"
          [] status = "missing" -> "missing"
          [] ~Awaited(h) -> "missing"
          [] site[s].backfilling -> "backfilling"
          [] OTHER -> "pending"

WindowVerified(s, h) == window[s][h].status = "complete" /\ (Daily => window[s][h].verified)

Unit(s, h, status) ==
    [site |-> s, hour |-> h, status |-> status, verified |-> WindowVerified(s, h), code |-> window[s][h].code]
\* markPaused: an entity's pause is reported without the window.
PausedUnit(s, h) == [site |-> s, hour |-> h, status |-> "paused", verified |-> FALSE, code |-> "none"]

\* The closed hours of a bucket that a site expects.
ExpectedHours(s, b) ==
    {h \in Hours : b <= h /\ h < b + BucketHours /\ At(h) < FloorHour(now) /\ StatisticsSiteExpected(s, h)}

\* loadSiteCoverage.
SiteUnits(s, b) == {Unit(s, h, WindowState(s, h)) : h \in ExpectedHours(s, b)}

\* loadAccountCoverage.
AccountUnits(a, b) ==
    LET s == account[a].site IN
    {IF At(h) >= account[a].paused THEN PausedUnit(s, h) ELSE Unit(s, h, WindowState(s, h)) :
        h \in {i \in ExpectedHours(s, b) : account[a].created < At(i + 1)}}

\* loadCustomerCoverage of one site.
CustomerUnits(s, b) ==
    LET mine == {a \in Accounts : account[a].site = s}
        registered(h) == \E a \in mine : account[a].created < At(h + 1)
        expected(h) == \E a \in mine : StatisticsAccountExpected(a, h)
    IN  {IF At(h) >= customer \/ ~expected(h) THEN PausedUnit(s, h) ELSE Unit(s, h, WindowState(s, h)) :
            h \in {i \in ExpectedHours(s, b) : At(i) >= customer \/ registered(i)}}

Dimensions ==
    CASE Scope = "global" -> {"global"}
      [] Scope = "site" -> Sites
      [] Scope = "account" -> Accounts
      [] Scope = "customer" -> {Customer}

CustomerSites == {account[a].site : a \in Accounts}

\* buildDimensions and loadCoverage: the units of a dimension.
Units(d, b) ==
    CASE Scope = "global" -> UNION {SiteUnits(s, b) : s \in Sites}
      [] Scope = "site" -> SiteUnits(d, b)
      [] Scope = "account" -> AccountUnits(d, b)
      [] Scope = "customer" -> UNION {CustomerUnits(s, b) : s \in CustomerSites}

MaxOr0(S) == IF S = {} THEN 0 ELSE Max(S)

\* statisticsCoverage of a set of units.
Coverage(U) ==
    LET complete == {u \in U : u.status = "complete"}
    IN  [expected |-> Cardinality(U),
         complete |-> Cardinality(complete),
         verified |-> Cardinality({u \in complete : u.verified}),
         asOf |-> MaxOr0({At(u.hour + 1) : u \in complete}),
         statuses |-> {u.status : u \in U}]

Priority == <<"missing", "unavailable", "paused", "backfilling", "pending">>

\* status: complete, partial, or the worst of the statuses there are.
Status(cov) ==
    CASE cov.expected = 0 \/ cov.complete = cov.expected -> "complete"
      [] cov.complete > 0 -> "partial"
      [] OTHER -> Priority[Min({i \in DOMAIN Priority : Priority[i] \in cov.statuses})]

Final(cov, b) ==
    /\ cov.expected > 0
    /\ cov.complete = cov.expected
    /\ Daily => now >= BucketEnd(b) /\ cov.verified = cov.expected

\* buildTrend and breakdownItem: a row of the page.
Row(cov, b) ==
    [expected |-> cov.expected, complete |-> cov.complete, known |-> cov.complete > 0,
     activeKnown |-> cov.complete > 0 /\ (Scope = "account" => cov.complete = cov.expected),
     status |-> Status(cov), final |-> Final(cov, b), asOf |-> cov.asOf]

-----------------------------------------------------------------------------
(* Ranges of the hours that are not complete.                               *)

\* statisticsReason: the code of the window's failure, or the one of the status ("none").
\* appendMissing: a unit that is not complete, per site, hour, status and code.
Missing == UNION {{[site |-> u.site, hour |-> u.hour, status |-> u.status, code |-> u.code] :
                    u \in {v \in Units(d, b) : v.status # "complete"}} : d \in Dimensions, b \in Buckets}

\* missingRanges: adjacent hours of a site, a status and a code form one range.
MissingRanges(M) ==
    {[site |-> m.site, status |-> m.status, code |-> m.code, from |-> m.hour,
      to |-> Max({h \in Hours : h >= m.hour /\ \A i \in m.hour .. h : [m EXCEPT !.hour = i] \in M}) + 1] :
        m \in {n \in M : [n EXCEPT !.hour = n.hour - 1] \notin M}}

\* The ranges a page lists, those that begin last; of ranges that begin together any.
Listed(R) ==
    {L \in SUBSET R : /\ Cardinality(L) = Min({Cardinality(R), RangeLimit})
                      /\ \A q \in L, r \in R \ L : q.from >= r.from}

\* reasonForBucket: a row without a complete hour carries the reason of a unit
\* of its status; "none" if there is no such unit.
Reason(cov, b) ==
    LET status == Status(cov)
        of == {m \in Missing : b <= m.hour /\ m.hour < b + BucketHours /\ m.status = status}
    IN  CASE status \in {"complete", "partial"} -> status
          [] of # {} -> status
          [] OTHER -> "none"

Query ==
    /\ page = Nothing
    /\ \E listed \in Listed(MissingRanges(Missing)) :
        page' = [asked |-> TRUE,
                 rows |-> [d \in Dimensions |-> [b \in Buckets |-> Row(Coverage(Units(d, b)), b)]],
                 reasons |-> [d \in Dimensions |-> [b \in Buckets |-> Reason(Coverage(Units(d, b)), b)]],
                 ranges |-> listed, total |-> Cardinality(MissingRanges(Missing))]
    /\ UNCHANGED <<database, export>>

-----------------------------------------------------------------------------
(* The export.                                                              *)

\* The sites a dimension is broken down to.
RowSpace(d) ==
    CASE Scope = "global" -> Sites
      [] Scope = "site" -> {d}
      [] Scope = "account" -> {account[d].site}
      [] Scope = "customer" -> CustomerSites

EntityStart(d, s) ==
    CASE Scope = "account" -> account[d].created
      [] Scope = "customer" -> Min({account[a].created : a \in {x \in Accounts : account[x].site = s}})
      [] OTHER -> site[s].start

EntityPausedAt(d) ==
    CASE Scope = "account" -> account[d].paused
      [] Scope = "customer" -> customer
      [] OTHER -> Never

OldCutoff == FloorHour(now - Deadline)


\* candidate_bounds: effective_start, effective_end, entity_pause_at, site_pause_at.
Bounds(d, s, b) ==
    [from |-> Max({BucketStart(b), FloorHour(site[s].start), FloorHour(EntityStart(d, s))}),
     to |-> Min({BucketEnd(b), FloorHour(now), CeilHour(site[s].end)}),
     entityPause |-> CeilHour(EntityPausedAt(d)),
     sitePause |-> IF site[s].disabled # Never /\ site[s].end = Never THEN FloorHour(site[s].disabled) ELSE Never]

HoursBetween(from, to) == IF to > from THEN (to - from) \div HourTicks ELSE 0

\* customer_account_intervals: the interval of each account of the site.
Intervals(s, bd) ==
    {i \in {[account |-> a,
             from |-> Max({bd.from, FloorHour(account[a].created)}),
             to |-> Min({bd.to, CeilHour(account[a].paused), bd.entityPause})] :
                a \in {x \in Accounts : account[x].site = s}} : i.from < i.to}

Precedes(i, j) == i.from < j.from \/ (i.from = j.from /\ i.to < j.to)


StartsGroup(i, I) == \A j \in I : Precedes(j, i) => i.from > j.to

\* customer_active_ranges: the intervals merged where they touch.
ActiveRanges(I) ==
    LET starts == {i \in I : StartsGroup(i, I)}
        group(i) == Cardinality({j \in starts : j = i \/ Precedes(j, i)})
        groups == {group(i) : i \in I}
    IN  {[from |-> Min({i.from : i \in {x \in I : group(x) = g}}),
          to |-> Max({i.to : i \in {x \in I : group(x) = g}})] : g \in groups}

\* Equal intervals are one row for the order by which they are numbered.
DistinctIntervals(I) == {[from |-> i.from, to |-> i.to] : i \in I}

\* entity_activity: the hours in which the entity is active, and those of them
\* after the site's pause.
EntityActivity(d, s, bd) ==
    IF Scope = "customer"
    THEN LET R == ActiveRanges(DistinctIntervals(Intervals(s, bd)))
         IN  [active |-> MapThenSumSet(LAMBDA r : HoursBetween(r.from, r.to), R),
              after |-> MapThenSumSet(LAMBDA r : HoursBetween(Max({r.from, bd.sitePause}), r.to), R)]
    ELSE [active |-> HoursBetween(bd.from, bd.to) - HoursBetween(Max({bd.from, bd.entityPause}), bd.to),
          after |-> HoursBetween(Max({bd.from, bd.sitePause}), Min({bd.to, bd.entityPause}))]

\* statisticsExportCustomerEntityActive.
CustomerEntityActive(s, h) ==
    Scope = "customer" => \E a \in Accounts : account[a].site = s /\ StatisticsAccountExpected(a, h)


\* The hours of a row: in its bounds, before the entity's pause.
RowHours(d, s, bd) ==
    {h \in Hours : bd.from <= At(h) /\ At(h) < bd.to /\ At(h) < bd.entityPause /\ CustomerEntityActive(s, h)}

\* window_counts, active_count and the sums of windowed_rows for one site.
SiteRow(d, s, b) ==
    LET bd == Bounds(d, s, b)
        H == RowHours(d, s, bd)
        of(status) == {h \in H : window[s][h].status = status}
        after(S) == {h \in S : At(h) >= bd.sitePause}
        act == EntityActivity(d, s, bd)
        expected == HoursBetween(bd.from, bd.to)
        paused == expected - act.active + act.after
                    - Cardinality(after(of("complete"))) - Cardinality(after(of("unavailable")))
        active == {h \in H \ after(H) : runs[s][h] # {}}
    IN  [expected |-> expected,
         complete |-> Cardinality(of("complete")),
         verified |-> Cardinality({h \in of("complete") : WindowVerified(s, h)}),
         asOf |-> MaxOr0({At(h + 1) : h \in of("complete")}),
         unavailable |-> of("unavailable") # {},
         paused |-> paused > 0,
         missing |-> \/ of("missing") \ after(H) # {}
                     \/ HoursBetween(bd.from, Min({bd.to, OldCutoff})) >
                            Cardinality({h \in of("complete") : At(h) < OldCutoff})
                            + Cardinality(of("unavailable")) + paused + Cardinality(active),
         backfilling |-> site[s].backfilling \/ \E h \in active : "usage_backfill" \in runs[s][h]]

\* final_rows: the sites of a dimension added up.
FinalRow(d, b) ==
    LET R == RowSpace(d)
        sum(Op(_)) == MapThenSumSet(Op, R)
        expected == sum(LAMBDA s : SiteRow(d, s, b).expected)
        complete == sum(LAMBDA s : SiteRow(d, s, b).complete)
        verified == sum(LAMBDA s : SiteRow(d, s, b).verified)
        some(Op(_)) == \E s \in R : Op(SiteRow(d, s, b))
    IN  [expected |-> expected, complete |-> complete, known |-> complete > 0,
         activeKnown |-> complete > 0 /\ (Scope = "account" => complete = expected),
         status |-> CASE expected = 0 \/ complete = expected -> "complete"
                      [] complete > 0 -> "partial"
                      [] some(LAMBDA r : r.missing) -> "missing"
                      [] some(LAMBDA r : r.unavailable) -> "unavailable"
                      [] some(LAMBDA r : r.paused) -> "paused"
                      [] some(LAMBDA r : r.backfilling) -> "backfilling"
                      [] OTHER -> "pending",
         final |-> expected > 0 /\ complete = expected
                    /\ (Daily => BucketEnd(b) <= now /\ verified = expected),
         asOf |-> MaxOr0({SiteRow(d, s, b).asOf : s \in R})]

Export ==
    /\ export = Nothing
    /\ export' = [asked |-> TRUE, rows |-> [d \in Dimensions |-> [b \in Buckets |-> FinalRow(d, b)]]]
    /\ UNCHANGED <<database, page>>

Next == Query \/ Export

Spec == Init /\ [][Next]_coverageVars

-----------------------------------------------------------------------------
(* Properties.                                                              *)

RowStatuses == {"complete", "partial", "missing", "unavailable", "paused", "backfilling", "pending"}

\* The rows of both answers have a status and counts in their range.
TypeOK ==
    \A answer \in {page, export} : answer.asked =>
        \A d \in Dimensions, b \in Buckets :
            LET r == answer.rows[d][b]
            IN  /\ r.status \in RowStatuses
                /\ r.expected \in 0 .. Cardinality(Sites) * BucketHours
                /\ r.complete \in 0 .. r.expected
                /\ r.asOf \in 0 .. FloorHour(now)

BothAsked == page.asked /\ export.asked

\* The page and the export count the same hours, know the same metrics and
\* agree on what is final and up to which hour it is known, although one walks
\* the hours and the other computes with bounds, counts and merged intervals.
CountsAgree ==
    BothAsked => \A d \in Dimensions, b \in Buckets :
        LET p == page.rows[d][b]
            e == export.rows[d][b]
        IN  \A f \in {"expected", "complete", "known", "activeKnown", "final", "asOf"} : p[f] = e[f]

\* The page and the export show the same status for a bucket (the code's
\* windowState and the CASE of final_rows).
StatusesAgree ==
    BothAsked => \A d \in Dimensions, b \in Buckets : page.rows[d][b].status = export.rows[d][b].status

\* A bucket is settled when every hour of it that is closed is past its
\* deadline and no run is collecting one.
Settled(b) ==
    \A s \in Sites : \A h \in (b .. b + BucketHours - 1) \cap Hours :
        /\ At(h) < FloorHour(now) => ~Awaited(h)
        /\ runs[s][h] = {}

\* For a settled bucket the page and the export show the same status.
SettledStatusesAgree ==
    BothAsked => \A d \in Dimensions, b \in Buckets :
        Settled(b) => page.rows[d][b].status = export.rows[d][b].status

Holds(r, m) == r.site = m.site /\ r.status = m.status /\ r.code = m.code /\ m.hour \in r.from .. r.to - 1
BeginsAt(m) == Min({h \in 0 .. m.hour : \A i \in h .. m.hour : [m EXCEPT !.hour = i] \in Missing})
\* A range lists only hours that are not complete, all of one site, status and code, and two
\* such ranges never touch.  A page that is not cut has each of these hours in exactly one
\* range; one that is cut is full, and the stretches it leaves out began no later than those it
\* lists.  A bucket that is not complete or
\* partial has the reason of an hour of its own status.
RangesExplainGaps ==
    page.asked =>
        /\ \A r \in page.ranges : r.from < r.to /\ \A h \in r.from .. r.to - 1 :
                [site |-> r.site, hour |-> h, status |-> r.status, code |-> r.code] \in Missing
        /\ \A q, r \in page.ranges :
                q # r /\ q.site = r.site /\ q.status = r.status /\ q.code = r.code =>
                q.to < r.from \/ r.to < q.from
        /\ page.total <= RangeLimit => \A m \in Missing : \E r \in page.ranges : Holds(r, m)
        /\ page.total > RangeLimit =>
            /\ Cardinality(page.ranges) = RangeLimit
            /\ \A m \in Missing :
                \/ \E r \in page.ranges : Holds(r, m)
                \/ \A r \in page.ranges : BeginsAt(m) <= r.from
        /\ \A d \in Dimensions, b \in Buckets : page.reasons[d][b] = page.rows[d][b].status

=============================================================================
