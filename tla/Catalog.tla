------------------------------ MODULE Catalog ------------------------------
(***************************************************************************)
(* The catalogs a site is polled for: model metadata, subscription plans,  *)
(* pricing items and groups, upstream tasks and system tasks.  Each has a  *)
(* table of rows and one collection state per site.  A round reads the     *)
(* configuration, takes a snapshot upstream and commits it under the site  *)
(* lock; a round whose lease ran out may still commit after its successor. *)
(* The collection states become the data_status the readers report.        *)
(***************************************************************************)
EXTENDS Naturals, Sequences, FiniteSets

LOCAL INSTANCE SequencesExt

CONSTANTS Sites, Items, Rounds,
          Kinds,       \* the catalogs of the run
          MaxValue,    \* bound on the upstream's changes to an item
          MaxConfig,   \* bound on config_version
          MaxTime,     \* bound on the clock
          PageSize,    \* rows an export reads at a time
          MaxExports   \* bound on the exports begun

CatalogAssumption ==
  /\ {MaxValue, MaxConfig, MaxTime, MaxExports} \subseteq Nat /\ PageSize \in Nat \ {0}
  /\ Kinds \subseteq {"model", "plan", "pricing", "group", "upstream_task", "system_task"}

VARIABLES kind,     \* the catalog of this behaviour
          now,
          site,     \* site -> [active, config, since], since when it has this config
          edits,    \* revisions made upstream
          remote,   \* site -> item -> its revision upstream, 0 when absent
          rows,     \* site -> item -> row
          state,    \* site -> collection state
          round,    \* round -> the round under way
          applied,  \* site -> the snapshot committed last (history)
          export,   \* the export under way: its transaction's view, its page, its file
          exports   \* exports begun
exporting == <<export, exports>>
vars == <<kind, now, site, edits, remote, rows, state, round, applied, exporting>>

Nil == 0
NoRow == [state |-> "none", value |-> 0, missing |-> 0]
NoState == [success |-> Nil, failure |-> Nil, config |-> 0, list |-> "none", current |-> "none"]
Idle == [pc |-> "idle"]
Nothing == [i \in Items |-> 0]
Priced == {"pricing", "group"}

Init ==
  /\ kind \in Kinds /\ now = 1
  /\ site = [s \in Sites |-> [active |-> TRUE, config |-> 1, since |-> 1]]
  /\ edits = 0
  /\ remote = [s \in Sites |-> Nothing]
  /\ rows = [s \in Sites |-> [i \in Items |-> NoRow]]
  /\ state = [s \in Sites |-> NoState]
  /\ round = [r \in Rounds |-> Idle]
  /\ applied = [s \in Sites |-> Nothing]
  /\ export = Idle /\ exports = 0

----------------------------------------------------------------------------
(***************************************************************************)
(* The upstream changes an item, adds it or removes it.  A revision stands *)
(* for the item's updated time and content; prices and groups have no      *)
(* time, and an item may come back with a content it had before.           *)
(***************************************************************************)
RemoteSet(s, i, value) ==
  /\ edits < MaxValue /\ edits' = edits + 1
  /\ kind \notin Priced => value = edits + 1
  /\ remote' = [remote EXCEPT ![s][i] = value]
  /\ UNCHANGED <<kind, now, site, rows, state, round, applied, exporting>>
RemoteDrop(s, i) ==
  /\ remote[s][i] # 0 /\ remote' = [remote EXCEPT ![s][i] = 0]
  /\ UNCHANGED <<kind, now, site, edits, rows, state, round, applied, exporting>>
Tick == /\ now < MaxTime /\ now' = now + 1
        /\ UNCHANGED <<kind, site, edits, remote, rows, state, round, applied, exporting>>

\* Disable, enable and reconfigure raise config_version.  An edit takes
\* place in a second of its own.
Fence(s, active) ==
  /\ site[s].config < MaxConfig /\ now < MaxTime
  /\ site' = [site EXCEPT ![s] = [active |-> active, config |-> @.config + 1, since |-> now + 1]]
  /\ now' = now + 1
  /\ UNCHANGED <<kind, edits, remote, rows, state, round, applied, exporting>>

----------------------------------------------------------------------------
(***************************************************************************)
(* The commit.                                                             *)
(***************************************************************************)
\* An item replaces its row when it is not older than the row and differs.
Newer(row, value) == row.state = "none" \/ value > row.value

Normal(value) == [state |-> "normal", value |-> value, missing |-> 0]
\* Mutant: a row that was missing is left alone while its hash is the same.
SyncMissingHash(row, value) ==
  IF value # 0 THEN IF row.value # value THEN Normal(value) ELSE row
  ELSE IF row.state = "normal" THEN [row EXCEPT !.state = "missing", !.missing = @ + 1] ELSE row
\* A row that is not in the snapshot is kept as missing.
SyncMissing(row, value) ==
  IF value # 0 THEN IF row.value # value \/ row.state # "normal" THEN Normal(value) ELSE row
  ELSE IF row.state = "normal" THEN [row EXCEPT !.state = "missing", !.missing = @ + 1] ELSE row
SyncSubscriptionPlans(row, value) == SyncMissing(row, value)
SyncPricingItems(row, value) == SyncMissing(row, value)
SyncPricingGroups(row, value) == SyncMissing(row, value)
\* SyncModelCatalog: a row that is not in the snapshot is deleted.
SyncModel(row, value) ==
  IF value = 0 THEN NoRow ELSE IF Newer(row, value) THEN Normal(value) ELSE row
\* SyncUpstreamTasks, SyncSystemTasks: a row that is not in the snapshot stays.
SyncTask(row, value) == IF value # 0 /\ Newer(row, value) THEN Normal(value) ELSE row
Sync(row, value) ==
  CASE kind = "model" -> SyncModel(row, value)
    [] kind = "plan" -> SyncSubscriptionPlans(row, value)
    [] kind = "pricing" -> SyncPricingItems(row, value)
    [] kind = "group" -> SyncPricingGroups(row, value)
    [] OTHER -> SyncTask(row, value)

\* The state after a commit.  system_task keeps a status for the list and
\* one for the current tasks, which are read apart.
Succeeded(old, r) ==
  [old EXCEPT !.success = round[r].at, !.config = round[r].config,
              !.list = IF round[r].partial THEN "partial" ELSE "complete",
              !.current = IF round[r].currentFailed THEN "unavailable" ELSE "complete"]
\* Mark...Failure keeps the rows and the time of the last success.
Failed(old, r) == [old EXCEPT !.failure = round[r].at, !.config = round[r].config, !.list = "unavailable"]

----------------------------------------------------------------------------
(***************************************************************************)
(* A round.  Pricing takes its time before the snapshot, the others after. *)
(***************************************************************************)
Begin(r, s) ==
  /\ round[r] = Idle /\ site[s].active
  /\ round' = [round EXCEPT ![r] = [pc |-> "read", site |-> s, config |-> site[s].config, at |-> now]]
  /\ UNCHANGED <<kind, now, site, edits, remote, rows, state, applied, exporting>>

\* What the client delivers: an answer with a malformed or repeated entry is refused as a
\* whole (Fail), and pages of models are accepted under the fence of PagedSync.
SnapshotModelMeta(s) == remote[s]
SnapshotSubscriptionPlans(s) == remote[s]
\* A price or a group is named by the price list, by the options of the site, or by both.
Unlisted == {CHOOSE i \in Items : TRUE}
SnapshotPricing(s) == [i \in Items |-> IF i \in Unlisted THEN 0 ELSE remote[s][i]]
SnapshotPricingConfiguration(s) == remote[s]
mergePricingConfiguration(listed, configured) ==
  [i \in Items |-> IF listed[i] # 0 THEN listed[i] ELSE configured[i]]
SnapshotOf(s) ==
  CASE kind = "model" -> SnapshotModelMeta(s)
    [] kind = "plan" -> SnapshotSubscriptionPlans(s)
    [] kind \in Priced -> mergePricingConfiguration(SnapshotPricing(s), SnapshotPricingConfiguration(s))
    [] OTHER -> remote[s]

Snapshot(r, partial, currentFailed) ==
  /\ round[r].pc = "read"
  /\ round' = [round EXCEPT ![r] =
       [pc |-> "commit", site |-> @.site, config |-> @.config,
        at |-> IF kind \in Priced THEN @.at ELSE now,
        snapshot |-> SnapshotOf(@.site), partial |-> partial, currentFailed |-> currentFailed]]
  /\ UNCHANGED <<kind, now, site, edits, remote, rows, state, applied, exporting>>

Fail(r) ==
  /\ round[r].pc = "read"
  /\ LET s == round[r].site
         at == IF kind \in Priced THEN round[r].at ELSE now
     IN  state' = IF site[s].config = round[r].config
                  THEN [state EXCEPT ![s] = [Failed(@, r) EXCEPT !.failure = at]] ELSE state
  /\ round' = [round EXCEPT ![r] = Idle]
  /\ UNCHANGED <<kind, now, site, edits, remote, rows, applied, exporting>>

\* validatePeriodicCommit.
Valid(r) == LET s == round[r].site IN site[s].active /\ site[s].config = round[r].config

Commit(r) ==
  /\ round[r].pc = "commit"
  /\ LET s == round[r].site
     IN  IF Valid(r)
         THEN /\ rows' = [rows EXCEPT ![s] = [i \in Items |-> Sync(@[i], round[r].snapshot[i])]]
              /\ state' = [state EXCEPT ![s] = Succeeded(@, r)]
              /\ applied' = [applied EXCEPT ![s] = round[r].snapshot]
         ELSE UNCHANGED <<rows, state, applied>>
  /\ round' = [round EXCEPT ![r] = Idle]
  /\ UNCHANGED <<kind, now, site, edits, remote, exporting>>

Round(r) == Snapshot(r, FALSE, FALSE) \/ Fail(r) \/ Commit(r)
executePeriodicModelMeta(r) == kind = "model" /\ Round(r)
executePeriodicPlans(r) == kind = "plan" /\ Round(r)
executePeriodicPricing(r) == kind \in Priced /\ Round(r)
executePeriodicUpstreamTasks(r) == kind = "upstream_task" /\ Round(r)
executePeriodicSystemTasks(r) ==
  /\ kind = "system_task"
  /\ \/ \E partial, currentFailed \in BOOLEAN : Snapshot(r, partial, currentFailed)
     \/ Fail(r) \/ Commit(r)

----------------------------------------------------------------------------
(***************************************************************************)
(* The export of a catalog (service/*_export.go): offset pages, read in    *)
(* one repeatable-read transaction while rounds commit.                    *)
(***************************************************************************)
\* Mutant: every statement sees the rows as they are.
ViewCurrent == [rows |-> rows, state |-> state]
\* What a statement of the transaction reads: the first one fixes the snapshot.
View == export.view

\* SystemTaskRepository.CollectionStatuses: the list and the current tasks.
SystemTaskStatus(x) ==
  IF x.list = "unavailable" THEN "unavailable"
  ELSE IF x.list = "complete" /\ x.current = "complete" THEN "complete" ELSE "partial"

\* The status of the site that a system task is exported with.
ExportStatus(view, s) ==
  IF kind # "system_task" \/ view.state[s] = NoState THEN "pending" ELSE SystemTaskStatus(view.state[s])
ExportRow(view, k) ==
  [key |-> k, row |-> view.rows[k[1]][k[2]], status |-> ExportStatus(view, k[1])]
\* List: the rows in the order of a unique key.
List(view) ==
  LET keys == SelectSeq(SetToSeq(Sites \X Items), LAMBDA k : view.rows[k[1]][k[2]].state # "none")
  IN  [n \in DOMAIN keys |-> ExportRow(view, keys[n])]

BeginExport ==
  /\ export.pc # "pages" /\ exports < MaxExports
  /\ export' = [pc |-> "pages", view |-> [rows |-> rows, state |-> state], page |-> 1, file |-> <<>>]
  /\ exports' = exports + 1
  /\ UNCHANGED <<kind, now, site, edits, remote, rows, state, round, applied>>

\* One pass of the loop: the page is written, and the loop ends when as many rows were
\* written as the count of the same pass says there are; an empty page before is
\* ErrExportContract.
ExportPage ==
  /\ export.pc = "pages"
  /\ LET listed == List(View)
         page == SelectSeq([n \in DOMAIN listed |-> <<n, listed[n]>>],
                           LAMBDA x : x[1] > (export.page - 1) * PageSize /\ x[1] <= export.page * PageSize)
         file == export.file \o [n \in DOMAIN page |-> page[n][2]]
     IN  export' = [export EXCEPT !.file = file, !.page = @ + 1,
                                  !.pc = IF Len(file) >= Len(listed) THEN "done"
                                         ELSE IF page = <<>> THEN "refused" ELSE "pages"]
  /\ UNCHANGED <<kind, now, site, edits, remote, rows, state, round, applied, exports>>
\* The claim is lost, the disk is full or the file grows too large (ExportJob).
ExportEnds ==
  /\ export.pc = "pages" /\ export' = Idle
  /\ UNCHANGED <<kind, now, site, edits, remote, rows, state, round, applied, exports>>

ExportStep == BeginExport \/ ExportPage \/ ExportEnds
GenerateModelCatalogExport == kind = "model" /\ ExportStep
GenerateSubscriptionPlanExport == kind = "plan" /\ ExportStep
GeneratePricingCatalogExport == kind \in Priced /\ ExportStep
GenerateUpstreamTaskExport == kind = "upstream_task" /\ ExportStep
GenerateSystemTaskExport == kind = "system_task" /\ ExportStep

Next ==
  \/ GenerateModelCatalogExport \/ GenerateSubscriptionPlanExport \/ GeneratePricingCatalogExport
  \/ GenerateUpstreamTaskExport \/ GenerateSystemTaskExport
  \/ \E s \in Sites, i \in Items : \/ \E value \in 1..(edits + 1) : RemoteSet(s, i, value)
                                    \/ RemoteDrop(s, i)
  \/ \E s \in Sites, active \in BOOLEAN : Fence(s, active)
  \/ \E r \in Rounds : \/ \E s \in Sites : Begin(r, s)
                       \/ executePeriodicModelMeta(r) \/ executePeriodicPlans(r)
                       \/ executePeriodicPricing(r) \/ executePeriodicUpstreamTasks(r)
                       \/ executePeriodicSystemTasks(r)
  \/ Tick
Spec == Init /\ [][Next]_vars
\* The scheduler opens a round in every period and an upstream that is asked
\* again and again answers.
FairSpec ==
  /\ Spec
  /\ \A r \in Rounds, s \in Sites :
       /\ SF_vars(Begin(r, s)) /\ SF_vars(Snapshot(r, FALSE, FALSE))
       /\ WF_vars(Commit(r))

----------------------------------------------------------------------------
(***************************************************************************)
(* The data_status of a site and of all sites, as the readers compute it.  *)
(***************************************************************************)
Active == {s \in Sites : site[s].active}
Recorded == {s \in Sites : state[s] # NoState}
CompleteTimes(x) == x.success # Nil /\ (x.failure = Nil \/ x.success >= x.failure)

\* ModelCatalogRepository.Statuses, planSiteStatus, pricingResourceStatus:
\* the state counts under the configuration it was written with.
TimedStatus(s) ==
  IF state[s].config # site[s].config THEN "pending"
  ELSE IF CompleteTimes(state[s]) THEN "complete"
  ELSE IF state[s].failure # Nil THEN "unavailable" ELSE "pending"
\* UpstreamTaskRepository.CollectionStatuses.
UpstreamTaskStatus(s) ==
  IF state[s].failure # Nil /\ ~CompleteTimes(state[s]) THEN "unavailable"
  ELSE IF state[s].success = Nil THEN "pending" ELSE "complete"

SiteStatus(s) == CASE kind = "upstream_task" -> UpstreamTaskStatus(s)
                   [] kind = "system_task" -> SystemTaskStatus(state[s])
                   [] OTHER -> TimedStatus(s)
Count(S, status) == Cardinality({s \in S : SiteStatus(s) = status})

\* Statuses, planOverallStatus, pricingOverall: over the active sites.
OverActive ==
  IF Active = {} THEN "pending"
  ELSE IF Count(Active, "complete") = Cardinality(Active) THEN "complete"
  ELSE IF Count(Active, "unavailable") = Cardinality(Active) THEN "unavailable"
  ELSE IF Count(Active, "pending") = Cardinality(Active) THEN "pending" ELSE "partial"
\* CollectionStatuses of the tasks: every recorded state is counted, of
\* disabled sites too.
OverRecorded ==
  IF Active = {} \/ Recorded = {} THEN "pending"
  ELSE IF Count(Recorded, "complete") = Cardinality(Active) THEN "complete"
  ELSE IF Count(Recorded, "unavailable") = Cardinality(Active) THEN "unavailable" ELSE "partial"
Overall == IF kind \in {"upstream_task", "system_task"} THEN OverRecorded ELSE OverActive

----------------------------------------------------------------------------
Rows == [state : {"none", "normal", "missing"}, value : 0..MaxValue, missing : Nat]
\* The stored rows, the rounds and the upstream have their declared shape.
TypeOK ==
  /\ kind \in Kinds /\ now \in 1..MaxTime
  /\ site \in [Sites -> [active : BOOLEAN, config : 1..MaxConfig, since : 1..MaxTime]]
  /\ rows \in [Sites -> [Items -> Rows]]
  /\ \A s \in Sites : {state[s].success, state[s].failure} \subseteq 0..MaxTime

\* The rows a site serves are those of the last snapshot committed, and a
\* row is kept as missing once it was served: however rounds overlap, what
\* one of them adds, changes and removes never mixes with the other's.
ServesSnapshot ==
  \A s \in Sites, i \in Items :
    /\ kind \in {"model", "plan", "pricing", "group"} =>
         (rows[s][i].state = "normal" <=> applied[s][i] # 0)
    /\ kind \in {"plan", "pricing", "group"} /\ applied[s][i] # 0 => rows[s][i].value = applied[s][i]
    /\ rows[s][i].value >= applied[s][i] \/ kind \in Priced

Current(s) ==
  \A i \in Items :
    /\ (rows[s][i].state = "normal") = (remote[s][i] # 0)
    /\ remote[s][i] # 0 => rows[s][i].value = remote[s][i]
\* Once the upstream is quiet, an active site ends up serving exactly what
\* the upstream holds, whatever was missing or failed before.
Converges ==
  \A s \in Sites :
    <>[]site[s].active => <>[]Current(s)

NeverOlderStep ==
     \A s \in Sites, i \in Items :
       kind \in {"model", "upstream_task", "system_task"} /\ rows'[s][i].state # "none"
         => rows'[s][i].value >= rows[s][i].value
\* A row of a model or of a task never goes back to an older revision while
\* it stays, though a late round commits an older snapshot.
NeverOlder == [][NeverOlderStep]_vars

\* A site reported complete was read whole under the configuration it has
\* now: neither a state of an earlier configuration nor a failure recorded
\* under the new one brings the old success back.
CompleteIsCurrent ==
  \A s \in Sites :
    kind \in {"model", "plan", "pricing", "group"} /\ TimedStatus(s) = "complete"
      => state[s].success >= site[s].since

\* The status of all sites is complete only when every active site is: the
\* states of disabled sites do not stand in for an active one.
OverallConservative ==
  Overall = "complete" => \A s \in Active : SiteStatus(s) = "complete"

\* An export holds every row its catalog had when the transaction began, each once and with
\* the revision and the status of that moment, though rounds commit between its pages; and
\* the count it reads with every page never makes it give up.
ExportIsOneMoment ==
  export.pc \in {"done", "refused"} =>
    /\ export.pc = "done"
    /\ \A s \in Sites, i \in Items :
         Cardinality({n \in DOMAIN export.file : export.file[n].key = <<s, i>>})
           = IF export.view.rows[s][i].state = "none" THEN 0 ELSE 1
    /\ \A n \in DOMAIN export.file :
         LET k == export.file[n].key
         IN  /\ export.file[n].row = export.view.rows[k[1]][k[2]]
             /\ export.file[n].status = ExportStatus(export.view, k[1])
=============================================================================
