------------------------------ MODULE Dashboard ------------------------------
(* The current values of the dashboard: which sites are expected to report,   *)
(* which of them report in time, what the totals, their status and their age  *)
(* are, the check the summary makes before it shows them, the order of the    *)
(* sites of the health block and the status of yesterday (sources:            *)
(* service/dashboard.go, service/dashboard_readers.go).                       *)
EXTENDS Integers, FiniteSets, Sequences, SequencesExt, FiniteSetsExt

CONSTANTS Sites,    \* the ids of the sites
          MaxAge,   \* dashboardCurrentSnapshotMaxAgeSeconds, in ticks
          MaxTime,  \* bound on the clock
          MaxLoad   \* bound on the instances a site reports

DashboardAssumption ==
    /\ Sites \subseteq Nat \ {0} /\ IsFiniteSet(Sites)
    /\ MaxAge \in Nat \ {0} /\ MaxTime \in Nat \ {0} /\ MaxLoad \in Nat

VARIABLES now,       \* the clock
          site,      \* the rows of the sites
          realtime,  \* when a site's rates were sampled last (0: never) and their value
          resource,  \* the latest minute of a site (0: none) and its instances
          snapshot,  \* what the last read of the dashboard showed
          reading    \* the sites' rows a read under way has in hand

dashboardVars == <<now, site, realtime, resource, snapshot, reading>>

Online == {"unknown", "online", "offline"}
SiteRows == [active : BOOLEAN, authorized : BOOLEAN, ended : BOOLEAN, online : Online]
NoReading == [at |-> 0, rows |-> <<>>]
NoSnapshot == [at |-> 0]

(* Any rows, except that the sites are either all alike or not all out of    *)
(* the dashboard's scope.                                                    *)
Init ==
    /\ now = 1
    /\ site \in [Sites -> SiteRows]
    /\ \/ \A s, x \in Sites : site[s] = site[x]
       \/ \E s \in Sites : site[s].active /\ site[s].authorized /\ ~site[s].ended
    /\ realtime = [s \in Sites |-> [at |-> 0, rpm |-> 0]]
    /\ resource = [s \in Sites |-> [at |-> 0, count |-> 0, online |-> 0]]
    /\ snapshot = NoSnapshot /\ reading = NoReading

-----------------------------------------------------------------------------
ExpectedWhileActive(row) == row.active  \* Mutant: a site without authorization is expected to report.
dashboardCurrentSiteExpected(row) == row.active /\ row.authorized /\ ~row.ended

StatusWithoutZero(complete, expected) ==  \* Mutant: no site in time is taken for partial.
    IF complete = expected THEN "complete" ELSE "partial"
dashboardCurrentDataStatus(complete, expected) ==
    IF complete = expected THEN "complete" ELSE IF complete > 0 THEN "partial" ELSE "missing"

InTime(row, at, t) == at > 0 /\ at >= t - MaxAge /\ row.online # "offline"

Newest(T) == IF T = {} THEN 0 ELSE Max(T)  \* Mutant: the age of the newest sample.
dashboardOldestTimestamp(T) == IF T = {} THEN 0 ELSE Min(T)

(* readDashboardRealtimeTotals and readDashboardResourceTotals: the sites    *)
(* that report in time are summed, the others listed; no site in time means  *)
(* no value.                                                                 *)
Totals(rows, t, at, value, oldest) ==
    LET expected == {s \in Sites : dashboardCurrentSiteExpected(rows[s])}
        inTime == {s \in expected : InTime(rows[s], at[s], t)}
    IN [expected |-> Cardinality(expected),
        complete |-> Cardinality(inTime),
        stale |-> expected \ inTime,
        status |-> dashboardCurrentDataStatus(Cardinality(inTime), Cardinality(expected)),
        known |-> inTime # {},
        total |-> MapThenSumSet(LAMBDA s : value[s], inTime),
        asOf |-> oldest]

AsOf(rows, t, at) ==
    dashboardOldestTimestamp({at[s] : s \in {x \in Sites : dashboardCurrentSiteExpected(rows[x]) /\ InTime(rows[x], at[x], t)}})

readDashboardRealtimeTotals(rows, t) ==
    LET at == [s \in Sites |-> realtime[s].at]
    IN Totals(rows, t, at, [s \in Sites |-> realtime[s].rpm], AsOf(rows, t, at))

readDashboardResourceTotals(rows, t) ==
    LET at == [s \in Sites |-> resource[s].at]
    IN Totals(rows, t, at, [s \in Sites |-> resource[s].count], AsOf(rows, t, at))

OnlineInstances(rows, t) ==
    MapThenSumSet(LAMBDA s : resource[s].online,
                  {s \in Sites : dashboardCurrentSiteExpected(rows[s]) /\ InTime(rows[s], resource[s].at, t)})

(* dashboardCurrentReason: whatever is not complete has a reason.            *)
dashboardCurrentReason(totals) ==
    IF totals.status = "complete" THEN "none"
    ELSE IF totals.expected > 0 THEN "partial_sites" ELSE "pending"

dashboardCoverageStatus(status, complete, expected) ==
    CASE status = "complete" -> complete = expected
      [] status = "partial" -> complete > 0 /\ complete < expected
      [] OTHER -> complete = 0

(* validateDashboardRealtime: the summary refuses a snapshot that            *)
(* contradicts itself.                                                       *)
ValidTotals(totals, reason) ==
    /\ totals.complete <= totals.expected
    /\ dashboardCoverageStatus(totals.status, totals.complete, totals.expected)
    /\ (totals.complete = 0) = ~totals.known
    /\ (totals.status = "complete") = (reason = "none")
validateDashboardRealtime(snap) ==
    /\ snap.onlineSites + snap.offlineSites <= snap.sites
    /\ snap.onlineInstances <= snap.resource.total
    /\ ValidTotals(snap.resource, snap.resourceReason)
    /\ ValidTotals(snap.realtime, snap.realtimeReason)

-----------------------------------------------------------------------------
Tick == now < MaxTime /\ now' = now + 1 /\ UNCHANGED <<site, realtime, resource, snapshot, reading>>

(* The samples of the fast tasks.                                            *)
SampleRealtime(s) ==
    /\ realtime' = [realtime EXCEPT ![s] = [at |-> now, rpm |-> 1]]
    /\ UNCHANGED <<now, site, resource, snapshot, reading>>

SampleMoreOnline(s) ==  \* Mutant: more instances are online than there are.
    /\ resource' = [resource EXCEPT ![s] = [at |-> now, count |-> 0, online |-> 1]]
    /\ UNCHANGED <<now, site, realtime, snapshot, reading>>
SampleResource(s) ==
    /\ \E count \in 0 .. MaxLoad : \E online \in 0 .. count :
          resource' = [resource EXCEPT ![s] = [at |-> now, count |-> count, online |-> online]]
    /\ UNCHANGED <<now, site, realtime, snapshot, reading>>

(* ReadDashboardRealtime takes the time and the rows of the sites, which     *)
(* carry the realtime rates; the minutes of the resources are read by a      *)
(* later statement.  A behaviour has one read; whatever the sites' rows hold *)
(* at that moment is among the initial rows.                                 *)
ReadSites ==
    /\ reading = NoReading
    /\ reading' = [at |-> now, rows |-> site, realtime |-> readDashboardRealtimeTotals(site, now)]
    /\ UNCHANGED <<now, site, realtime, resource, snapshot>>

CountOnline(rows, status) == Cardinality({s \in Sites : rows[s].online = status})

ReadDashboardRealtime ==
    /\ reading # NoReading
    /\ \E res \in {readDashboardResourceTotals(reading.rows, reading.at)} :
          snapshot' = [at |-> reading.at, rows |-> reading.rows,
                       sites |-> Cardinality(Sites),
                       onlineSites |-> CountOnline(reading.rows, "online"),
                       offlineSites |-> CountOnline(reading.rows, "offline"),
                       realtime |-> reading.realtime, resource |-> res,
                       onlineInstances |-> OnlineInstances(reading.rows, reading.at),
                       realtimeReason |-> dashboardCurrentReason(reading.realtime),
                       resourceReason |-> dashboardCurrentReason(res),
                       used |-> [s \in Sites |-> resource[s].at]]
    /\ reading' = NoReading
    /\ UNCHANGED <<now, site, realtime, resource>>

Shown == snapshot # NoSnapshot

Next ==
    /\ ~Shown
    /\ \/ Tick \/ ReadSites \/ ReadDashboardRealtime
       \/ \E s \in Sites : SampleRealtime(s) \/ SampleResource(s)

Spec == Init /\ [][Next]_dashboardVars

-----------------------------------------------------------------------------
(* Every variable keeps its type. *)
TypeOK ==
    /\ now \in 1 .. MaxTime /\ site \in [Sites -> SiteRows]
    /\ \A s \in Sites : realtime[s].at \in 0 .. MaxTime /\ resource[s].online <= resource[s].count
    /\ snapshot.at \in 0 .. MaxTime /\ reading.at \in 0 .. MaxTime

(* The check of the summary never refuses what the readers put together,     *)
(* although the sites and the minutes are read one after the other.          *)
SnapshotPassesCheck == Shown => validateDashboardRealtime(snapshot)

(* A total says whom it lacks: it is called complete only when every active, *)
(* authorized site that is not offline reported within the age limit before  *)
(* the read, and it names every expected site that did not.                  *)
CompleteMeansAllInTime ==
    Shown =>
        LET due == {s \in Sites : /\ snapshot.rows[s].active /\ snapshot.rows[s].authorized
                                  /\ ~snapshot.rows[s].ended}
            late == {s \in due : \/ snapshot.used[s] < snapshot.at - MaxAge \/ snapshot.used[s] = 0
                                 \/ snapshot.rows[s].online = "offline"}
        IN /\ snapshot.resource.stale = late
           /\ (snapshot.resource.status = "complete") = (late = {})
           /\ snapshot.resource.known = (due # late)

(* The age shown is that of the oldest sample in the total and never beyond  *)
(* the limit.                                                                *)
AsOfIsOldest ==
    Shown /\ snapshot.resource.known =>
        /\ snapshot.resource.asOf >= snapshot.at - MaxAge
        /\ \A s \in Sites :
              dashboardCurrentSiteExpected(snapshot.rows[s]) /\ s \notin snapshot.resource.stale
                  => snapshot.resource.asOf <= snapshot.used[s]
=============================================================================
