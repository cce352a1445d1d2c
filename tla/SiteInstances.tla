--------------------------- MODULE SiteInstances ---------------------------
(***************************************************************************)
(* The instances of one site as its snapshots show them: the current       *)
(* directory, the intervals in which a node was present, one sample per    *)
(* node and minute, and the health of the site.  A snapshot is committed   *)
(* by the periodic resource task or, with another rule for the status, by  *)
(* an authorization; both retire the nodes they do not deliver.            *)
(***************************************************************************)
EXTENDS Naturals, FiniteSets, FiniteSetsExt

CONSTANTS Nodes,        \* node names
          MinuteLength, \* ticks in a minute
          MaxTime,      \* bound on the clock
          MaxLag,       \* ticks by which a commit may come after its stamp
          MaxSnapshots, \* bound on committed snapshots
          Legacy        \* nodes imported with an interval of unknown start

InstancesAssumption ==
  /\ Legacy \subseteq Nodes /\ MinuteLength \in Nat \ {0}
  /\ {MaxTime, MaxLag, MaxSnapshots} \subseteq Nat

VARIABLES clock, updatedAt, instance, lifecycle, sample, siteSample, health, monitoringStart, snapshots,
          overtaken   \* ghost: a snapshot was committed whose stamp was not newer than the site's row
vars == <<clock, updatedAt, instance, lifecycle, sample, siteSample, health, monitoringStart, snapshots, overtaken>>

Open == MaxTime + 100        \* end_minute_ts IS NULL
Minute(t) == t \div MinuteLength
NoInstance == [status |-> "none", retired |-> FALSE]
Interval(start, end, evidence) == [start |-> start, end |-> end, evidence |-> evidence]

MonotonicMutationTime(now, previous) == IF now <= previous THEN previous + 1 ELSE now

OpenOf(n) == {i \in lifecycle[n] : i.end = Open}
Known(n) == instance[n] # NoInstance /\ ~ instance[n].retired

(***************************************************************************)
(* RetireMissingInstances: the nodes of the directory the snapshot lacks.  *)
(***************************************************************************)
Retiring(names) == {n \in Nodes : Known(n) /\ n \notin names}
CloseAt(i, minute) == IF i.end = Open THEN [i EXCEPT !.end = Max({i.start, minute})] ELSE i
RetiredLifecycle(names, at) ==
  [n \in Nodes |-> IF n \in Retiring(names) THEN {CloseAt(i, Minute(at)) : i \in lifecycle[n]}
                   ELSE lifecycle[n]]

(***************************************************************************)
(* SyncInstances: a node that is new, was retired, or has an open interval *)
(* of unknown start opens a known interval.  Either unique key turns the   *)
(* insert into an update of the row it meets.                              *)
(***************************************************************************)
CutLegacy(life, minute) ==
  {IF i.end = Open /\ i.evidence = "legacy_unknown" THEN [i EXCEPT !.end = minute] ELSE i : i \in life}

Upsert(life, start) ==
  LET met == {i \in life : i.start = start \/ i.end = Open}
  IN  IF met = {} THEN life \cup {Interval(start, Open, "known")}
      ELSE LET hit == IF \E i \in met : i.start = start
                      THEN CHOOSE i \in met : i.start = start ELSE CHOOSE i \in met : TRUE
           IN  (life \ {hit}) \cup {Interval(hit.start, Open, "known")}

HasLegacy(life) == \E i \in life : i.end = Open /\ i.evidence = "legacy_unknown"

\* Mutant: a returning node is opened at the time of its first appearance.
OpenedFirstSeen(n, life, at, minute, firstSeen) ==
  IF instance[n] = NoInstance THEN Upsert(life, Minute(at))
  ELSE IF instance[n].retired THEN Upsert(life, firstSeen)
  ELSE IF HasLegacy(life) THEN Upsert(CutLegacy(life, minute), Minute(at)) ELSE life
Opened(n, life, at, minute, firstSeen) ==
  IF instance[n] = NoInstance THEN Upsert(life, Minute(at))
  ELSE IF instance[n].retired THEN Upsert(life, minute)
  ELSE IF HasLegacy(life) THEN Upsert(CutLegacy(life, minute), Minute(at)) ELSE life

(***************************************************************************)
(* The status of a delivered node.                                         *)
(***************************************************************************)
Earlier(n, minute) == {m \in DOMAIN sample[n] : m < minute}
LastTwo(n, minute) ==
  {m \in Earlier(n, minute) : Cardinality({k \in Earlier(n, minute) : k > m}) < 2}
\* ListInstanceResourceStatesForUpdate: the directory without retired nodes,
\* and the two samples before this minute, however old.
PriorTwoNonOnline(n, minute) ==
  /\ Known(n) /\ Cardinality(LastTwo(n, minute)) = 2
  /\ \A m \in LastTwo(n, minute) : sample[n][m] # "online"

PeriodicStatus(n, alive, minute) ==
  IF alive THEN "online" ELSE IF PriorTwoNonOnline(n, minute) THEN "offline" ELSE "stale"
AuthorizedStatus(n, alive, minute) == IF alive THEN "online" ELSE "stale"

Worst(statuses) == IF "offline" \in statuses THEN "critical"
                   ELSE IF "stale" \in statuses THEN "warning" ELSE "ok"

----------------------------------------------------------------------------
Init ==
  /\ clock = MinuteLength /\ updatedAt = 0
  /\ instance = [n \in Nodes |-> IF n \in Legacy THEN [status |-> "online", retired |-> FALSE] ELSE NoInstance]
  /\ lifecycle = [n \in Nodes |-> IF n \in Legacy THEN {Interval(0, Open, "legacy_unknown")} ELSE {}]
  /\ sample = [n \in Nodes |-> <<>>]
  /\ siteSample = <<>> /\ health = "unavailable" /\ monitoringStart = Open
  /\ snapshots = 0 /\ overtaken = FALSE

Tick ==
  /\ clock < MaxTime /\ clock' = clock + 1
  /\ UNCHANGED <<updatedAt, instance, lifecycle, sample, siteSample, health, monitoringStart, snapshots, overtaken>>

\* Directory, intervals and samples of a snapshot: `new` is the status of each
\* delivered node.
CommitInstances(names, new, now, at) ==
  LET minute == Minute(now)
      retired == RetiredLifecycle(names, at)
  IN  /\ instance' = [n \in Nodes |->
            IF n \in names THEN [status |-> new[n], retired |-> FALSE]
            ELSE IF n \in Retiring(names) THEN [instance[n] EXCEPT !.retired = TRUE] ELSE instance[n]]
      /\ lifecycle' = [n \in Nodes |->
            IF n \in names
            THEN Opened(n, retired[n], now, minute, Min({minute} \cup {i.start : i \in retired[n]}))
            ELSE retired[n]]
      /\ sample' = [n \in Nodes |->
            IF n \in names THEN [m \in DOMAIN sample[n] \cup {minute} |-> IF m = minute THEN new[n] ELSE sample[n][m]]
            ELSE sample[n]]

\* What validateInstances lets through: nodes named once, each with its role and load.
Deliveries == SUBSET Nodes

\* executePeriodicResources: `now` is taken before the transaction.
PeriodicSnapshot ==
  \E names \in Deliveries, lag \in 0 .. MaxLag : \E alive \in SUBSET names :
    LET now == clock - lag at == MonotonicMutationTime(now, updatedAt)
        new == [n \in names |-> PeriodicStatus(n, n \in alive, Minute(now))]
        worst == Worst({new[n] : n \in names})
    IN  /\ snapshots < MaxSnapshots /\ snapshots' = snapshots + 1
        /\ now >= MinuteLength
        /\ overtaken' = (overtaken \/ now <= updatedAt)
        /\ CommitInstances(names, new, now, at)
        /\ siteSample' = [m \in DOMAIN siteSample \cup {Minute(now)} |->
                           IF m = Minute(now) THEN worst ELSE siteSample[m]]
        /\ health' = worst
        /\ monitoringStart' = IF monitoringStart = Open THEN Minute(now) ELSE monitoringStart
        /\ updatedAt' = at
        /\ UNCHANGED clock

\* The instances an authorization read: the commit time is the stamp.
AuthorizationSnapshot ==
  \E names \in Deliveries : \E alive \in SUBSET names :
    LET at == MonotonicMutationTime(clock, updatedAt)
        new == [n \in names |-> AuthorizedStatus(n, n \in alive, Minute(at))]
    IN  /\ snapshots < MaxSnapshots /\ snapshots' = snapshots + 1
        /\ CommitInstances(names, new, at, at)
        /\ monitoringStart' = IF monitoringStart = Open THEN Minute(at) ELSE monitoringStart
        /\ updatedAt' = at
        /\ UNCHANGED <<clock, siteSample, health, overtaken>>

Next == Tick \/ PeriodicSnapshot \/ AuthorizationSnapshot
Spec == Init /\ [][Next]_vars

----------------------------------------------------------------------------
\* A node is in the directory and not retired exactly when one interval is
\* open (SyncInstances and RetireMissingInstances together).
OpenIffPresent == \A n \in Nodes : Cardinality(OpenOf(n)) = (IF Known(n) THEN 1 ELSE 0)

\* Intervals do not overlap, so a minute of a node is expected at most once,
\* unless a snapshot was overtaken between its stamp and its commit.
IntervalsDisjoint == ~ overtaken => \A n \in Nodes : \A i, j \in lifecycle[n] :
  i # j => i.end <= j.start \/ j.end <= i.start

\* A sample of the site lies in an interval of the node, the minute of its
\* end included, if the snapshots came in the order of their stamps.
SampledIsCovered == ~ overtaken => \A n \in Nodes : \A m \in DOMAIN sample[n] :
  \E i \in lifecycle[n] : i.start <= m /\ m <= i.end

\* A node is offline only after its two samples before were not online
\* (PriorTwoNonOnline against the stored samples), if no sample came late.
OfflineEarned == ~ overtaken => \A n \in Nodes : \A m \in DOMAIN sample[n] : sample[n][m] = "offline" =>
  Cardinality(LastTwo(n, m)) = 2 /\ \A k \in LastTwo(n, m) : sample[n][k] # "online"

\* While the directory lists a node as offline the site is critical, whichever
\* of the two kinds of snapshots came since and however late.
OfflineIsCritical == (\E n \in Nodes : Known(n) /\ instance[n].status = "offline") => health = "critical"

\* The same as IntervalsDisjoint, of late snapshots too.
NeverOverlap == \A n \in Nodes : \A i, j \in lifecycle[n] :
  i # j => i.end <= j.start \/ j.end <= i.start

\* The design counts anew after a node was retired.
ReappearedCountsAnew == \A n \in Nodes : \A m \in DOMAIN sample[n] : sample[n][m] = "offline" =>
  \A k \in LastTwo(n, m) : \E i \in lifecycle[n] : i.start <= k /\ m <= i.end
=============================================================================
