-------------------------- MODULE UsageAggregation --------------------------
(***************************************************************************)
(* The statistics tables that one committed hour rebuilds                   *)
(* (model/usage_aggregation.go) from the facts of complete windows          *)
(* (model/usage_fact.go, service/usage_collection.go).                      *)
(*                                                                          *)
(* Time is the number of closed hours, a day has DayHours of them.  One     *)
(* amount stands for the three metrics of a row; the amount 0 of a fact and *)
(* of an hourly row stands for no row.  The site tables also stand for the  *)
(* model and channel tables, which are grouped from the same facts.  A      *)
(* commit holds the locks of every bucket it rebuilds, so it is one step.   *)
(***************************************************************************)
EXTENDS Naturals, FiniteSets, FiniteSetsExt

CONSTANTS
    Sites, Accounts, Customers,
    SiteOf, CustomerOf,  \* account.site_id and account.customer_id
    CreatedAt,           \* the hour of account.remote_created_at
    StatisticsStart,     \* site.statistics_start_at
    StatisticsEnd,       \* site.statistics_end_at, MaxHour if there is none
    Other,               \* a remote user that no account manages
    Amounts,             \* what a user may have used in an hour
    DayHours,            \* hours of a day
    MaxHour,             \* bound: hours of the run
    MaxCommits           \* bound: commits of each hour of a site

Hours == 0 .. MaxHour - 1
Day(h) == h \div DayHours
Days == {Day(h) : h \in Hours}
HoursOf(d) == {h \in Hours : Day(h) = d}
DayEnd(d) == (d + 1) * DayHours
Users(s) == {a \in Accounts : SiteOf[a] = s} \cup {Other}

NoRow == [n |-> 0, status |-> "absent", final |-> FALSE]
DailyRow(n, status, final) == [n |-> n, status |-> status, final |-> final]

VARIABLES
    now,       \* hours that are closed
    window,    \* collection_window of a site's hour
    facts,     \* usage_fact_hourly: what each user of the site used in the hour
    account,   \* account: its pause and its states
    customer,  \* customer: its pause and its status
    hourly,    \* the hourly tables
    daily      \* the daily tables

aggregationVars == <<now, window, facts, account, customer, hourly, daily>>

NoPause == MaxHour + 1
NoWindow == [status |-> "absent", verified |-> 0, commits |-> 0]

Init ==
    /\ now = 0
    /\ window = [s \in Sites |-> [h \in Hours |-> NoWindow]]
    /\ facts = [s \in Sites |-> [h \in Hours |-> [u \in Accounts \cup {Other} |-> 0]]]
    /\ account = [a \in Accounts |-> [managed |-> "active", remote |-> "normal", pause |-> NoPause]]
    /\ customer = [c \in Customers |-> [status |-> "using", pause |-> NoPause]]
    /\ hourly = [account  |-> [a \in Accounts |-> [h \in Hours |-> 0]],
                 customer |-> [c \in Customers |-> [s \in Sites |-> [h \in Hours |-> 0]]],
                 site     |-> [s \in Sites |-> [h \in Hours |-> 0]],
                 global   |-> [h \in Hours |-> NoRow]]
    /\ daily = [account  |-> [a \in Accounts |-> [d \in Days |-> NoRow]],
                customer |-> [c \in Customers |-> [s \in Sites |-> [d \in Days |-> NoRow]]],
                site     |-> [s \in Sites |-> [d \in Days |-> NoRow]],
                global   |-> [d \in Days |-> NoRow],
                fact     |-> [s \in Sites |-> [d \in Days |-> [u \in Accounts \cup {Other} |-> NoRow]]]]

-----------------------------------------------------------------------------
(* Coverage: the expected, complete and verified hours.                     *)

\* usageSiteExpectedAt.
Expected(s, h) == StatisticsStart[s] <= h /\ h < StatisticsEnd[s]


\* A complete window that was read again after its day had ended.
Verified(w, s, h) == w[s][h].status = "complete" /\ w[s][h].verified >= DayEnd(Day(h))

\* usageCoverage of a set of <<site, hour>> pairs.
Coverage(w, P) ==
    [expected |-> Cardinality(P),
     complete |-> Cardinality({p \in P : w[p[1]][p[2]].status = "complete"}),
     verified |-> Cardinality({p \in P : Verified(w, p[1], p[2])})]

Status(cov) == IF cov.expected > 0 /\ cov.complete = cov.expected THEN "complete" ELSE "partial"
KnownPartial(cov) == cov.complete > 0 /\ cov.complete < cov.expected
Final(cov, d) ==
    /\ now >= DayEnd(d)
    /\ cov.expected > 0
    /\ cov.complete = cov.expected
    /\ cov.verified = cov.expected

SitePairs(s, d) == {p \in {s} \X HoursOf(d) : Expected(s, p[2])}
GlobalPairs(H) == {p \in Sites \X H : Expected(p[1], p[2])}

\* The hours of an account that count, with the accounts a local rebuild
\* includes although they are paused.
AccountCounts(a, h, included) ==
    /\ account[a].managed # "deleted"
    /\ CreatedAt[a] <= h
    /\ h < account[a].pause \/ a \in included

CustomerCounts(c, h, included) == h < customer[c].pause \/ c \in included

\* loadUsageEntityCoverage: the hours an account, and a customer on a site, expects.
AccountPairs(a, d, incA) == {p \in SitePairs(SiteOf[a], d) : AccountCounts(a, p[2], incA)}
CustomerPairs(c, s, d, incA, incC) ==
    {p \in SitePairs(s, d) :
        /\ CustomerCounts(c, p[2], incC)
        /\ \E a \in Accounts : CustomerOf[a] = c /\ SiteOf[a] = s /\ AccountCounts(a, p[2], incA)}

-----------------------------------------------------------------------------
(* Amounts, from the facts of complete windows only.                        *)

Used(w, f, s, h, u) == IF w[s][h].status = "complete" THEN f[s][h][u] ELSE 0

SumOver(S, Op(_)) == MapThenSumSet(Op, S)

AccountAmount(w, f, a, H, incA) ==
    LET s == SiteOf[a] IN SumOver({h \in H : AccountCounts(a, h, incA)}, LAMBDA h : Used(w, f, s, h, a))


CustomerAmount(w, f, c, s, H, incA, incC) ==
    SumOver({a \in Accounts : CustomerOf[a] = c /\ SiteOf[a] = s},
            LAMBDA a : AccountAmount(w, f, a, {h \in H : CustomerCounts(c, h, incC)}, incA))

SiteAmount(w, f, s, H) ==
    SumOver(H \X Users(s), LAMBDA p : Used(w, f, s, p[1], p[2]))

\* loadUsageAggregateMetrics.
GlobalAmount(w, f, H) ==
    SumOver(Sites, LAMBDA s : SiteAmount(w, f, s, {h \in H : Expected(s, h)}))

-----------------------------------------------------------------------------
(* Rebuilding the buckets of one hour of a site.                            *)

\* A row of usage_fact_daily, or none.
FactRow(w, f, s, d, u, final) ==
    LET n == SumOver({h \in HoursOf(d) : Expected(s, h)}, LAMBDA h : Used(w, f, s, h, u))
    IN  IF n = 0 THEN NoRow ELSE DailyRow(n, "complete", final)

\* Mutant: only the keys of the new facts are affected.
AffectedByNew(old, new) == {u \in DOMAIN new : new[u] > 0}

\* affectedUsageFactDailyKeys of the facts before and after the commit.
Affected(old, new) == {u \in DOMAIN new : old[u] > 0 \/ new[u] > 0}

\* refreshUsageFactDaily: the rows of affected keys are computed, a full sweep
\* removes rows without facts, and the others only take the finality.
RefreshFactDaily(w, f, s, d, affected, sweep, final) ==
    [u \in Accounts \cup {Other} |->
        LET old == daily.fact[s][d][u]
            row == FactRow(w, f, s, d, u, final)
        IN  IF u \in affected \/ (sweep /\ row = NoRow) THEN row
            ELSE IF old = NoRow THEN NoRow ELSE [old EXCEPT !.final = final]]

\* shouldSweepUsageFactDaily; a local rebuild has no coverage from before.
ShouldSweep(prior, cov, d) ==
    /\ cov.complete = cov.expected
    /\ \/ prior.complete # prior.expected
       \/ Final(cov, d) /\ ~Final(prior, d)

\* A daily row of an account, a customer or a site: one that has no amount is
\* stored only when part of the day is known.
EntityRow(n, cov, d) ==
    IF n = 0 /\ ~KnownPartial(cov) THEN NoRow
    ELSE IF cov.expected = 0 THEN DailyRow(n, "complete", FALSE)
    ELSE DailyRow(n, Status(cov), Final(cov, d))

\* A global row also exists when part of the expected hours is complete.
GlobalRow(n, cov, final) ==
    IF cov.complete > 0 /\ (n > 0 \/ cov.complete < cov.expected)
    THEN DailyRow(n, Status(cov), final) ELSE NoRow

\* rebuildUsageHourly.
RebuildHourly(w, f, s, h, incA, incC) ==
    [account  |-> [a \in Accounts |->
                      IF SiteOf[a] # s THEN hourly.account[a]
                      ELSE [hourly.account[a] EXCEPT ![h] = AccountAmount(w, f, a, {h}, incA)]],
     customer |-> [c \in Customers |-> [hourly.customer[c] EXCEPT
                      ![s][h] = CustomerAmount(w, f, c, s, {h}, incA, incC)]],
     site     |-> [hourly.site EXCEPT ![s][h] = SiteAmount(w, f, s, {h})],
     global   |-> [hourly.global EXCEPT
                      ![h] = GlobalRow(GlobalAmount(w, f, {h}), Coverage(w, GlobalPairs({h})), FALSE)]]

\* rebuildUsageDaily.
RebuildDaily(w, f, s, d, affected, sweep, incA, incC) ==
    LET H == HoursOf(d)
        siteCov == Coverage(w, SitePairs(s, d))
        globalCov == Coverage(w, GlobalPairs(H))
    IN  [account  |-> [a \in Accounts |->
                          IF SiteOf[a] # s THEN daily.account[a]
                          ELSE [daily.account[a] EXCEPT ![d] =
                                  EntityRow(AccountAmount(w, f, a, H, incA),
                                            Coverage(w, AccountPairs(a, d, incA)), d)]],
         customer |-> [c \in Customers |-> [daily.customer[c] EXCEPT ![s][d] =
                                  EntityRow(CustomerAmount(w, f, c, s, H, incA, incC),
                                            Coverage(w, CustomerPairs(c, s, d, incA, incC)), d)]],
         site     |-> [daily.site EXCEPT ![s][d] = EntityRow(SiteAmount(w, f, s, H), siteCov, d)],
         global   |-> [daily.global EXCEPT ![d] =
                                  GlobalRow(GlobalAmount(w, f, H), globalCov, Final(globalCov, d))],
         fact     |-> [daily.fact EXCEPT ![s][d] =
                                  RefreshFactDaily(w, f, s, d, affected, sweep, Final(siteCov, d))]]

\* rebuildUsageAggregationBuckets.
RebuildBuckets(w, f, s, h, affected, sweep, incA, incC) ==
    /\ hourly' = RebuildHourly(w, f, s, h, incA, incC)
    /\ daily' = RebuildDaily(w, f, s, Day(h), affected, sweep, incA, incC)

\* refreshUsageDailyFinality: an hour that was only verified may complete the
\* finality of the rows of its day, and changes nothing else.
MarkFinal(row, final) == IF row # NoRow /\ final THEN [row EXCEPT !.final = TRUE] ELSE row

RefreshFinality(w, s, d) ==
    LET siteFinal == Final(Coverage(w, SitePairs(s, d)), d)
    IN  /\ hourly' = hourly
        /\ daily' =
            [account  |-> [a \in Accounts |->
                 IF SiteOf[a] # s THEN daily.account[a]
                 ELSE [daily.account[a] EXCEPT
                          ![d] = MarkFinal(@, Final(Coverage(w, AccountPairs(a, d, {})), d))]],
             customer |-> [c \in Customers |-> [daily.customer[c] EXCEPT
                 ![s][d] = MarkFinal(@, Final(Coverage(w, CustomerPairs(c, s, d, {}, {})), d))]],
             site     |-> [daily.site EXCEPT ![s][d] = MarkFinal(@, siteFinal)],
             global   |-> [daily.global EXCEPT
                 ![d] = MarkFinal(@, Final(Coverage(w, GlobalPairs(HoursOf(d))), d))],
             fact     |-> [daily.fact EXCEPT
                 ![s][d] = [u \in DOMAIN @ |-> MarkFinal(@[u], siteFinal)]]]

-----------------------------------------------------------------------------
(* Commits of a window.                                                     *)

NextHour == now < MaxHour /\ now' = now + 1 /\ UNCHANGED <<window, facts, account, customer, hourly, daily>>

CanCommit(s, h) == h < now /\ Expected(s, h) /\ window[s][h].commits < MaxCommits

\* The facts, their number and their hash are the ones of the complete window.
VerifiedOnly(s, h, new) == window[s][h].status = "complete" /\ facts[s][h] = new

\* NewUsageAggregationCommit: window and facts become w and f; the buckets are
\* rebuilt with the coverage from before, unless the hour was only verified.
AggregationCommit(s, h, w, f, same) ==
    LET d == Day(h)
        prior == Coverage(window, SitePairs(s, d))
        cov == Coverage(w, SitePairs(s, d))
    IN  /\ window' = w
        /\ facts' = f
        /\ IF same THEN RefreshFinality(w, s, d)
           ELSE RebuildBuckets(w, f, s, h, Affected(facts[s][h], f[s][h]), ShouldSweep(prior, cov, d), {}, {})
        /\ UNCHANGED <<now, account, customer>>

\* canonicalUsageFacts: the rows of a user are one fact.
CanonicalFacts(new) == [u \in Accounts \cup {Other} |-> IF u \in DOMAIN new THEN new[u] ELSE 0]

\* NewCompleteUsageWindowMutation: the facts of the hour are replaced, unless
\* they are the ones that are stored.
CompleteWindow(s, h, new) ==
    /\ CanCommit(s, h)
    /\ LET all == CanonicalFacts(new)
           w == [window EXCEPT ![s][h] =
                    [status |-> "complete", verified |-> now, commits |-> @.commits + 1]]
       IN  AggregationCommit(s, h, w, [facts EXCEPT ![s][h] = all], VerifiedOnly(s, h, all))

\* NewFailedUsageWindowMutation after the upstream's two answers differed: the
\* facts stay for comparison, but the window no longer counts.
MismatchWindow(s, h) ==
    /\ CanCommit(s, h)
    /\ LET w == [window EXCEPT ![s][h] =
                    [status |-> "missing", verified |-> 0, commits |-> @.commits + 1]]
       IN  AggregationCommit(s, h, w, facts, FALSE)


\* NewUsageFactOnlyCommit after a failed call: a complete window stays as it
\* is, any other becomes missing, and no bucket is touched.
FailWindow(s, h) ==
    /\ CanCommit(s, h)
    /\ window[s][h].status # "complete"
    /\ window' = [window EXCEPT ![s][h] = [status |-> "missing", verified |-> 0, commits |-> @.commits + 1]]
    /\ UNCHANGED <<now, facts, account, customer, hourly, daily>>

\* An hour is read twice: its flow by user, and its data, a total.  What the
\* data has more than the flow is kept as usage of no account, like that of a
\* user whom no account manages; a flow of more than the data is a mismatch.
Total(flow) == SumOver(DOMAIN flow, LAMBDA u : flow[u])
Mismatch(flow, data) == Total(flow) > data
reconcileUsageFacts(flow, data) == [flow EXCEPT ![Other] = @ + data - Total(flow)]

\* CollectHour: the two answers agree up to a remainder, differ or are missing.
Answers(s) == [flow : [Users(s) -> Amounts \cup {0}], data : 0 .. Cardinality(Users(s)) * Max(Amounts)]
Collect ==
    \E s \in Sites, h \in Hours :
        LET matched == {a \in Answers(s) : ~Mismatch(a.flow, a.data)}
        IN  /\ CanCommit(s, h)
            /\ \/ \E new \in {reconcileUsageFacts(a.flow, a.data) : a \in matched} : CompleteWindow(s, h, new)
               \/ matched # Answers(s) /\ MismatchWindow(s, h)
               \/ FailWindow(s, h)

Next == NextHour \/ Collect

Spec == Init /\ [][Next]_aggregationVars

-----------------------------------------------------------------------------
(* The verification of a restored database (internal/ops): every table is   *)
(* computed again from the facts, the windows, the sites and the accounts,  *)
(* by statements of its own.                                                *)

\* site_hours, account_hours and customer_hours: the expected hours of a day.
SiteHours(s, d) == {<<s, h>> : h \in {x \in HoursOf(d) : StatisticsStart[s] < x + 1 /\ StatisticsEnd[s] > x}}
AccountHours(a, d) ==
    {p \in SiteHours(SiteOf[a], d) : CreatedAt[a] < p[2] + 1 /\ p[2] < account[a].pause}
CustomerHours(c, s, d) ==
    UNION {{p \in AccountHours(a, d) : p[2] < customer[c].pause} :
              a \in {x \in Accounts : CustomerOf[x] = c /\ SiteOf[x] = s}}

\* metrics: the facts <<site, hour, user>> of complete windows added up.
Metrics(K) ==
    SumOver({k \in K : window[k[1]][k[2]].status = "complete"}, LAMBDA k : facts[k[1]][k[2]][k[3]])

\* The row of a table for the expected hours P: complete_count, verified_count
\* and the conditions of the statement that selects it.
Recomputed(P, n, end) ==
    LET complete == {p \in P : window[p[1]][p[2]].status = "complete"}
    IN  IF complete = {} \/ (n = 0 /\ complete = P) THEN NoRow
        ELSE DailyRow(n, IF complete = P THEN "complete" ELSE "partial",
                      /\ now >= end /\ complete = P
                      /\ \A p \in P : window[p[1]][p[2]].verified >= end)

\* usageFactDailyAggregation.
RecomputedFact(s, d, u) ==
    LET n == Metrics({<<s, h, u>> : h \in HoursOf(d)})
    IN  IF n = 0 THEN NoRow ELSE DailyRow(n, "complete", Recomputed(SiteHours(s, d), n, DayEnd(d)).final)

\* The hourly tables of accounts, customers, sites, models, channels and of all.
hourlyAggregations ==
    \A d \in Days : \A h \in HoursOf(d) :
        LET at(P, u) == {<<p[1], p[2], u>> : p \in {q \in P : q[2] = h}}
            ofSite(s) == {<<s, h, u>> : u \in Users(s)}
            all == UNION {SiteHours(s, d) : s \in Sites}
        IN  /\ \A a \in Accounts : hourly.account[a][h] = Metrics(at(AccountHours(a, d), a))
            /\ \A s \in Sites : hourly.site[s][h] = Metrics(ofSite(s))
            /\ \A c \in Customers, s \in Sites : hourly.customer[c][s][h] =
                   Metrics(UNION {at(AccountHours(a, d) \cap CustomerHours(c, s, d), a) :
                                     a \in {x \in Accounts : CustomerOf[x] = c}})
            /\ hourly.global[h] = [Recomputed({p \in all : p[2] = h}, Metrics(UNION {ofSite(s) : s \in Sites}), 0)
                                      EXCEPT !.final = FALSE]

\* The daily tables, with their status and their finality.
dailyAggregations ==
    \A d \in Days :
        LET ofSite(s) == {s} \X HoursOf(d) \X Users(s)
            of(P, u) == {<<p[1], p[2], u>> : p \in P}
        IN  /\ \A a \in Accounts : daily.account[a][d] =
                   Recomputed(AccountHours(a, d), Metrics(of(AccountHours(a, d), a)), DayEnd(d))
            /\ \A c \in Customers, s \in Sites : daily.customer[c][s][d] =
                   Recomputed(CustomerHours(c, s, d),
                              Metrics(UNION {of(AccountHours(a, d) \cap CustomerHours(c, s, d), a) :
                                                a \in {x \in Accounts : CustomerOf[x] = c}}),
                              DayEnd(d))
            /\ \A s \in Sites :
                   /\ daily.site[s][d] = Recomputed(SiteHours(s, d), Metrics(ofSite(s)), DayEnd(d))
                   /\ \A u \in Users(s) : daily.fact[s][d][u] = RecomputedFact(s, d, u)
            /\ daily.global[d] = Recomputed(UNION {SiteHours(s, d) : s \in Sites},
                                            Metrics(UNION {ofSite(s) : s \in Sites}), DayEnd(d))

verifyAggregations == hourlyAggregations /\ dailyAggregations

-----------------------------------------------------------------------------
(* Properties.                                                              *)

\* However hours are collected, corrected, contested or lost again, and in
\* whatever order, the tables that commits rewrite piece by piece are at every
\* moment the ones verify-restore computes as a whole: a backup taken between
\* any two commits passes the comparison.
BackupsVerify == verifyAggregations

Row == [n : Nat, status : {"absent", "partial", "complete"}, final : BOOLEAN]

\* The types of the tables that a commit rewrites.
AggregationTypeOK ==
    /\ now \in 0 .. MaxHour
    /\ \A s \in Sites, h \in Hours : window[s][h].status \in {"absent", "missing", "complete"}
    /\ \A s \in Sites, d \in Days : daily.site[s][d] \in Row /\ daily.global[d] \in Row
    /\ \A a \in Accounts, d \in Days : daily.account[a][d] \in Row

\* However an hour is collected, corrected, contested or lost again, the rows of
\* its site and the global rows are what its complete windows hold.
SiteTablesExact ==
    \A d \in Days :
        /\ \A s \in Sites :
            /\ daily.site[s][d].n = SiteAmount(window, facts, s, HoursOf(d))
            /\ \A h \in HoursOf(d) : hourly.site[s][h] = SiteAmount(window, facts, s, {h})
        /\ daily.global[d].n = SumOver(Sites, LAMBDA s : daily.site[s][d].n)
        /\ \A h \in HoursOf(d) : hourly.global[h].n = GlobalAmount(window, facts, {h})

\* The facts of a day, refreshed only for the keys a commit affects, add up to
\* the site's row of the day.
DailyFactsExact ==
    \A s \in Sites, d \in Days :
        SumOver(Accounts \cup {Other}, LAMBDA u : daily.fact[s][d][u].n) = daily.site[s][d].n

\* A row that says final or complete says the truth: every expected hour is
\* complete, and for final was read again after the day had ended.
FinalIsVerified ==
    \A d \in Days :
        /\ \A s \in Sites :
            /\ daily.site[s][d].status = "complete" =>
                   \A p \in SitePairs(s, d) : window[s][p[2]].status = "complete"
            /\ daily.site[s][d].final =>
                   \A p \in SitePairs(s, d) : window[s][p[2]].verified >= DayEnd(d)
            /\ \A u \in Accounts \cup {Other} : daily.fact[s][d][u].final => daily.site[s][d].final
        /\ daily.global[d].final =>
               \A p \in GlobalPairs(HoursOf(d)) :
                   window[p[1]][p[2]].status = "complete" /\ window[p[1]][p[2]].verified >= DayEnd(d)

\* Without pauses the rows of accounts and customers agree with each other,
\* hour by hour and day by day.
EntitiesAddUp ==
    \A c \in Customers, s \in Sites :
        LET mine == {a \in Accounts : CustomerOf[a] = c /\ SiteOf[a] = s}
        IN  /\ \A h \in Hours : hourly.customer[c][s][h] = SumOver(mine, LAMBDA a : hourly.account[a][h])
            /\ \A d \in Days :
                /\ daily.customer[c][s][d].n = SumOver(mine, LAMBDA a : daily.account[a][d].n)
                /\ \A a \in mine : daily.account[a][d].n = SumOver(HoursOf(d), LAMBDA h : hourly.account[a][h])
                /\ daily.customer[c][s][d].final /\ mine # {} =>
                       \A p \in SitePairs(s, d) : CreatedAt[CHOOSE a \in mine : TRUE] <= p[2] =>
                            window[s][p[2]].verified >= DayEnd(d)
=============================================================================
