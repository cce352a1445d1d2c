----------------------- MODULE CollectionSystemProofs -----------------------
(***************************************************************************)
(* Theorems about CollectionSystem for every value of its constants: the    *)
(* runs of a site, which claim and which fence holds, and below them the     *)
(* windows of a run, the claims that execute them and the facts they write.  *)
(***************************************************************************)
EXTENDS CollectionSystem, TLAPS

-----------------------------------------------------------------------------
(* Rows.                                                                    *)

\* The rows NewSiteCollectionRun and CompleteEmptyRun build are rows of collection_run.
LEMMA NewRunType ==
    ASSUME NEW s \in Site, NEW version \in 1 .. MaxVersion,
           NEW task \in WindowedTasks \cup PlainTasks, NEW hours \in SUBSET Hour,
           NEW initial \in BOOLEAN
    PROVE  /\ NewSiteCollectionRun(s, version, task, hours, initial) \in RunRow
           /\ CompleteEmptyRun(NewSiteCollectionRun(s, version, task, hours, initial)) \in RunRow
PROOF
  <1> DEFINE row == NewSiteCollectionRun(s, version, task, hours, initial)
  <1>1. 0 \in 0 .. MaxClaims
    BY BoundAssumption
  <1>2. (task \notin WindowedTasks) \in BOOLEAN
    OBVIOUS
  <1>3. row \in RunRow
    BY <1>1, <1>2 DEF NewSiteCollectionRun, RunRow, RunStatus
  <1>4. [row EXCEPT !.status = "success", !.initialized = TRUE] \in RunRow
    BY <1>3 DEF RunRow, RunStatus
  <1>5. QED
    BY <1>3, <1>4 DEF CompleteEmptyRun

\* Rows that are inserted get ids of their own, and only ids that were free.
LEMMA InsertLemma ==
    ASSUME NEW base, NEW rows, Insert(base, rows)
    PROVE  /\ run' = [r \in Run |-> run'[r]]
           /\ \A r \in Run : \/ run'[r] = base[r]
                             \/ run'[r] \in rows /\ run[r].status = "absent"
           /\ \A q, r \in Run : q # r => \/ run'[q] = base[q]
                                         \/ run'[r] = base[r]
                                         \/ run'[q] # run'[r]
PROOF
  <1>1. PICK id \in [rows -> FreeRuns] :
          /\ \A a, b \in rows : id[a] = id[b] => a = b
          /\ run' = [r \in Run |-> IF \E a \in rows : id[a] = r
                                   THEN CHOOSE a \in rows : id[a] = r
                                   ELSE base[r]]
    BY DEF Insert
  <1>2. ASSUME NEW r \in Run, run'[r] # base[r]
        PROVE  run'[r] \in rows /\ id[run'[r]] = r /\ run[r].status = "absent"
    <2>1. \E a \in rows : id[a] = r
      BY <1>1, <1>2
    <2>2. run'[r] = CHOOSE a \in rows : id[a] = r
      BY <1>1, <2>1
    <2>3. run'[r] \in rows /\ id[run'[r]] = r
      BY <2>1, <2>2
    <2>4. QED
      BY <2>3 DEF FreeRuns
  <1>3. QED
    BY <1>1, <1>2

\* A recount gives a status of an existing run.
LEMMA RunStatusType == \A ws : RunStatusOf(ws) \in RunStatus \ {"absent"}
  BY DEF RunStatusOf, RunStatus

\* A row stays a row when its status is set.
LEMMA SetRunStatusType ==
    ASSUME NEW row \in RunRow, NEW status \in RunStatus
    PROVE  SetRunStatus(row, status) \in RunRow
  BY DEF SetRunStatus, RunRow

\* What a transaction does to the windows of one run.
LEMMA WindowUpdates ==
    ASSUME TypeOK, NEW r \in Run, run[r].status # "absent"
    PROVE  /\ RequeueRunning(r) \in [Hour -> WindowRow]
           /\ \A h \in Hour, status \in RunStatus : SettleWindow(r, h, status) \in [Hour -> WindowRow]
           /\ \A ws \in [Hour -> WindowRow] : [win EXCEPT ![r] = ws] \in [Run -> [Hour -> WindowRow]]
PROOF
  <1>1. win[r] \in [Hour -> WindowRow]
    BY DEF TypeOK
  <1>2. \A w \in WindowRow, status \in RunStatus : [w EXCEPT !.status = status] \in WindowRow
    BY DEF WindowRow
  <1>3. RequeueRunning(r) \in [Hour -> WindowRow]
    BY <1>1, <1>2 DEF RequeueRunning, RunStatus
  <1>4. \A h \in Hour, status \in RunStatus : SettleWindow(r, h, status) \in [Hour -> WindowRow]
    BY <1>1, <1>2 DEF SettleWindow
  <1>5. \A ws \in [Hour -> WindowRow] : [win EXCEPT ![r] = ws] \in [Run -> [Hour -> WindowRow]]
    BY DEF TypeOK
  <1>6. QED
    BY <1>3, <1>4, <1>5

\* The fence rewrites rows of both tables into rows.
LEMMA FenceType ==
    ASSUME TypeOK, NEW s \in Site
    PROVE  /\ FencedRuns(s) \in [Run -> RunRow]
           /\ FencedWindows(s) \in [Run -> [Hour -> WindowRow]]
PROOF
  <1>1. \A r \in Run : run[r] \in RunRow /\ win[r] \in [Hour -> WindowRow]
    BY DEF TypeOK
  <1>2. FencedRuns(s) \in [Run -> RunRow]
    BY <1>1, SetRunStatusType DEF FencedRuns, RunStatus
  <1>3. \A w \in WindowRow : [w EXCEPT !.status = "failed"] \in WindowRow
    BY DEF WindowRow, RunStatus
  <1>4. FencedWindows(s) \in [Run -> [Hour -> WindowRow]]
    BY <1>1, <1>3 DEF FencedWindows
  <1>5. QED
    BY <1>2, <1>4

\* What a step does to an execution.
LEMMA ExecutionUpdates ==
    ASSUME TypeOK, NEW r \in Run, NEW e \in 1 .. MaxClaims
    PROVE  /\ exec[r][e] \in Execution
           /\ NoExecution \in Execution
           /\ \A x \in Execution : [exec EXCEPT ![r][e] = x] \in [Run -> [1 .. MaxClaims -> Execution]]
           /\ \A x \in Execution, phase \in {"exec", "yield", "ending", "done"} :
                [x EXCEPT !.phase = phase] \in Execution
           /\ \A x \in Execution, h \in Hour : [x EXCEPT !.todo = @ \ {h}] \in Execution
PROOF
  <1>1. exec[r][e] \in Execution
    BY DEF TypeOK
  <1>2. NoExecution \in Execution
    BY BoundAssumption DEF NoExecution, Execution
  <1>3. \A x \in Execution : [exec EXCEPT ![r][e] = x] \in [Run -> [1 .. MaxClaims -> Execution]]
    BY DEF TypeOK
  <1>4. \A x \in Execution, phase \in {"exec", "yield", "ending", "done"} :
          [x EXCEPT !.phase = phase] \in Execution
    BY DEF Execution
  <1>5. \A x \in Execution, h \in Hour : [x EXCEPT !.todo = @ \ {h}] \in Execution
    BY DEF Execution
  <1>6. QED
    BY <1>1, <1>2, <1>3, <1>4, <1>5

-----------------------------------------------------------------------------
(* Type correctness, one lemma for each group of actions.                   *)

\* The rows the system starts from.
LEMMA TypeInit == Init => TypeOK
PROOF
  <1> SUFFICES ASSUME Init PROVE TypeOK
    OBVIOUS
  <1>1. site \in [Site -> SiteRow]
    BY DEF Init
  <1>2. run \in [Run -> RunRow]
    <2>1. (CHOOSE s \in Site : TRUE) \in Site
      BY SiteAssumption
    <2>2. 1 \in 1 .. MaxVersion
      BY BoundAssumption
    <2>3. NewSiteCollectionRun(CHOOSE s \in Site : TRUE, 1, "site_probe", {}, FALSE) \in RunRow
      BY <2>1, <2>2, NewRunType DEF PlainTasks
    <2>4. \A row \in RunRow : [row EXCEPT !.status = "absent"] \in RunRow
      BY DEF RunRow, RunStatus
    <2>5. QED
      BY <2>3, <2>4 DEF Init
  <1>3. win \in [Run -> [Hour -> WindowRow]]
    BY BoundAssumption DEF Init, NoWindow, WindowRow, RunStatus
  <1>4. fact \in [Site -> [Hour -> 0 .. MaxVersion]]
    <2>1. {0, 1} \subseteq 0 .. MaxVersion
      BY BoundAssumption
    <2>2. QED
      BY <2>1 DEF Init
  <1>5. exec \in [Run -> [1 .. MaxClaims -> Execution]]
    <2>1. NoExecution \in Execution
      BY BoundAssumption DEF NoExecution, Execution
    <2>2. QED
      BY <2>1 DEF Init
  <1>6. mat \in [Run -> Materialization]
    BY DEF Init, NoMaterialization, Materialization
  <1>7. proc \in {"down", "starting", "up"} /\ crashes \in 0 .. MaxCrashes
    BY BoundAssumption DEF Init
  <1>8. QED
    BY <1>1, <1>2, <1>3, <1>4, <1>5, <1>6, <1>7 DEF TypeOK

\* Rows inserted on top of a table of rows make a table of rows.
LEMMA InsertType ==
    ASSUME NEW base, NEW rows, base \in [Run -> RunRow], rows \subseteq RunRow, Insert(base, rows)
    PROVE  run' \in [Run -> RunRow]
PROOF
  <1>1. \A r \in Run : run'[r] \in RunRow
    BY InsertLemma
  <1>2. run' = [r \in Run |-> run'[r]]
    BY InsertLemma
  <1>3. QED
    BY <1>1, <1>2

\* Ranges and segments are sets of hours.
LEMMA RangeType ==
    /\ Ranges \subseteq SUBSET Hour
    /\ \A S \in SUBSET Hour : Segments(S) \subseteq SUBSET S
PROOF
  <1>1. Ranges \subseteq SUBSET Hour
    BY HourAssumption DEF Ranges, Hour
  <1>2. \A S \in SUBSET Hour : Segments(S) \subseteq SUBSET S
    BY DEF Segments
  <1>3. QED
    BY <1>1, <1>2

\* The fence, with rows of the caller's, keeps the types (BumpSiteFence).
LEMMA BumpType ==
    ASSUME TypeOK, NEW s \in Site, NEW row \in SiteRow, NEW created \in SUBSET RunRow,
           BumpSiteFence(s, row, created)
    PROVE  TypeOK'
PROOF
  <1>1. site' \in [Site -> SiteRow]
    BY DEF BumpSiteFence, TypeOK
  <1>2. run' \in [Run -> RunRow]
    BY FenceType, InsertType DEF BumpSiteFence
  <1>3. win' \in [Run -> [Hour -> WindowRow]]
    BY FenceType DEF BumpSiteFence
  <1>4. UNCHANGED <<fact, exec, mat, proc, crashes>>
    BY DEF BumpSiteFence
  <1>5. QED
    BY <1>1, <1>2, <1>3, <1>4 DEF TypeOK

\* The row after the fence, with any of its fields but the version changed.
LEMMA BumpedType ==
    ASSUME TypeOK, NEW s \in Site, CanBump(s)
    PROVE  /\ Bumped(s) \in SiteRow
           /\ \A row \in SiteRow, b \in BOOLEAN :
                /\ [row EXCEPT !.active = b] \in SiteRow
                /\ [row EXCEPT !.rooted = b] \in SiteRow
                /\ [row EXCEPT !.ended = b] \in SiteRow
                /\ [row EXCEPT !.ready = b] \in SiteRow
           /\ \A row \in SiteRow, auth \in AuthStatus : [row EXCEPT !.auth = auth] \in SiteRow
PROOF
  <1>1. site[s] \in SiteRow
    BY DEF TypeOK
  <1>2. site[s].version \in 1 .. MaxVersion /\ site[s].version < MaxVersion
    BY <1>1 DEF SiteRow, CanBump
  <1>3. site[s].version + 1 \in 1 .. MaxVersion
    BY <1>2, BoundAssumption
  <1>4. Bumped(s) \in SiteRow
    BY <1>1, <1>3 DEF Bumped, SiteRow
  <1>5. \A row \in SiteRow, b \in BOOLEAN :
          /\ [row EXCEPT !.active = b] \in SiteRow
          /\ [row EXCEPT !.rooted = b] \in SiteRow
          /\ [row EXCEPT !.ended = b] \in SiteRow
          /\ [row EXCEPT !.ready = b] \in SiteRow
    BY DEF SiteRow
  <1>6. \A row \in SiteRow, auth \in AuthStatus : [row EXCEPT !.auth = auth] \in SiteRow
    BY DEF SiteRow
  <1>7. QED
    BY <1>4, <1>5, <1>6

\* Changes of a site keep the types: every caller of BumpSiteFence saves a site row.
LEMMA LifecycleType == ASSUME TypeOK, NEW s \in Site, Lifecycle(s) PROVE TypeOK'
PROOF
  <1> USE DEF AuthStatus
  <1>1. site[s] \in SiteRow
    BY DEF TypeOK
  <1>2. CASE Disable(s)
    <2>1. [Bumped(s) EXCEPT !.active = FALSE] \in SiteRow
      BY <1>2, BumpedType DEF Disable, BumpSiteFence
    <2>2. QED
      BY <1>2, <2>1, BumpType DEF Disable
  <1>3. ASSUME NEW hours \in Ranges, Enable(s, hours) PROVE TypeOK'
    <2> DEFINE row == [Bumped(s) EXCEPT !.active = TRUE]
               backfill == CompleteEmptyRun(
                             NewSiteCollectionRun(s, row.version, "usage_backfill", hours, FALSE))
               created == {backfill} \cup
                 {NewSiteCollectionRun(s, row.version, t, {}, FALSE) : t \in PlainTasks \cap TaskTypes}
    <2>1. BumpSiteFence(s, row, created)
      BY <1>3 DEF Enable
    <2>2. row \in SiteRow
      BY <2>1, BumpedType DEF BumpSiteFence
    <2>3. row.version \in 1 .. MaxVersion /\ hours \in SUBSET Hour /\ {} \in SUBSET Hour
      BY <2>2, RangeType DEF SiteRow
    <2>4. backfill \in RunRow
      BY <2>3, NewRunType DEF WindowedTasks
    <2>5. \A t \in PlainTasks \cap TaskTypes : NewSiteCollectionRun(s, row.version, t, {}, FALSE) \in RunRow
      BY <2>3, NewRunType
    <2> HIDE DEF row, backfill
    <2>6. created \in SUBSET RunRow
      BY <2>4, <2>5
    <2> HIDE DEF created
    <2>7. QED
      BY <2>1, <2>2, <2>6, BumpType
  <1>4. CASE EndStatistics(s)
    <2>1. [site[s] EXCEPT !.ended = TRUE] \in SiteRow
      BY <1>1 DEF SiteRow
    <2>2. site' \in [Site -> SiteRow]
      BY <1>4, <2>1 DEF EndStatistics, TypeOK
    <2>3. QED
      BY <1>4, <2>2 DEF EndStatistics, TypeOK
  <1>5. CASE ClearStatisticsEnd(s)
    <2>1. [site[s] EXCEPT !.ended = FALSE] \in SiteRow
      BY <1>1 DEF SiteRow
    <2>2. site' \in [Site -> SiteRow]
      BY <1>5, <2>1 DEF ClearStatisticsEnd, TypeOK
    <2>3. QED
      BY <1>5, <2>2 DEF ClearStatisticsEnd, TypeOK
  <1>6. ASSUME NEW ready \in BOOLEAN, NEW rotate \in BOOLEAN, NEW hours \in Ranges,
               commitAuthorization(s, ready, rotate, hours)
        PROVE  TypeOK'
    <2> DEFINE row == [Bumped(s) EXCEPT !.auth = "authorized", !.rooted = TRUE, !.ready = ready]
               backfill == CompleteEmptyRun(
                             NewSiteCollectionRun(s, row.version, "usage_backfill", hours, TRUE))
               created == IF ready /\ site[s].active THEN {backfill} ELSE {}
    <2>1. BumpSiteFence(s, row, created)
      BY <1>6 DEF commitAuthorization
    <2>2. Bumped(s) \in SiteRow
      BY <2>1, BumpedType DEF BumpSiteFence
    <2>3. row \in SiteRow
      BY <2>2 DEF SiteRow
    <2>4. row.version \in 1 .. MaxVersion /\ hours \in SUBSET Hour
      BY <2>3, RangeType DEF SiteRow
    <2>5. backfill \in RunRow
      BY <2>4, NewRunType DEF WindowedTasks
    <2> HIDE DEF row, backfill
    <2>6. created \in SUBSET RunRow
      BY <2>5
    <2> HIDE DEF created
    <2>7. QED
      BY <2>1, <2>3, <2>6, BumpType
  <1>7. CASE expireSiteAuthorization(s)
    <2>1. [Bumped(s) EXCEPT !.auth = "expired"] \in SiteRow
      BY <1>7, BumpedType DEF expireSiteAuthorization, BumpSiteFence
    <2>2. QED
      BY <1>7, <2>1, BumpType DEF expireSiteAuthorization
  <1>8. ASSUME NEW expired \in BOOLEAN, markRecheckIdentityFailure(s, expired) PROVE TypeOK'
    <2> DEFINE row == [Bumped(s) EXCEPT !.ready = FALSE,
                         !.auth = IF expired THEN "expired" ELSE site[s].auth]
    <2>1. BumpSiteFence(s, row, {})
      BY <1>8 DEF markRecheckIdentityFailure
    <2>2. Bumped(s) \in SiteRow
      BY <2>1, BumpedType DEF BumpSiteFence
    <2>3. row \in SiteRow
      BY <1>1, <2>2 DEF SiteRow
    <2> HIDE DEF row
    <2>4. QED
      BY <2>1, <2>3, BumpType
  <1>9. CASE ProbeCapabilityFailure(s)
    <2>1. [Bumped(s) EXCEPT !.ready = FALSE] \in SiteRow
      BY <1>9, BumpedType DEF ProbeCapabilityFailure, BumpSiteFence
    <2>2. QED
      BY <1>9, <2>1, BumpType DEF ProbeCapabilityFailure
  <1>10. ASSUME NEW origin \in BOOLEAN, UpdateBaseURL(s, origin) PROVE TypeOK'
    <2> DEFINE row == [Bumped(s) EXCEPT !.ready = FALSE,
                         !.auth = IF origin THEN "unauthorized" ELSE site[s].auth]
    <2>1. BumpSiteFence(s, row, {})
      BY <1>10 DEF UpdateBaseURL
    <2>2. Bumped(s) \in SiteRow
      BY <2>1, BumpedType DEF BumpSiteFence
    <2>3. row \in SiteRow
      BY <1>1, <2>2 DEF SiteRow
    <2> HIDE DEF row
    <2>4. QED
      BY <2>1, <2>3, BumpType
  <1>11. QED
    BY <1>2, <1>3, <1>4, <1>5, <1>6, <1>7, <1>8, <1>9, <1>10 DEF Lifecycle

\* Creating runs of the version the site has now.
LEMMA CreateType == ASSUME TypeOK, NEW s \in Site, Create(s) PROVE TypeOK'
PROOF
  <1>1. site[s].version \in 1 .. MaxVersion /\ run \in [Run -> RunRow]
    BY DEF TypeOK, SiteRow
  <1>2. \A task \in WindowedTasks \cup PlainTasks, hours \in SUBSET Hour :
          NewSiteCollectionRun(s, site[s].version, task, hours, FALSE) \in RunRow
    BY <1>1, NewRunType
  <1>3. ASSUME NEW task \in WindowedTasks \cap TaskTypes, NEW hours \in Ranges \ {{}},
               CreateSiteWindowRunStrict(s, task, hours)
        PROVE  TypeOK'
    <2>1. {NewSiteCollectionRun(s, site[s].version, task, hours, FALSE)} \subseteq RunRow
      <3>1. hours \in SUBSET Hour
        BY RangeType
      <3>2. NewSiteCollectionRun(s, site[s].version, task, hours, FALSE) \in RunRow
        BY <1>2, <3>1
      <3>3. QED
        BY <3>2
    <2>2. run' \in [Run -> RunRow]
      BY <1>1, <1>3, <2>1, InsertType DEF CreateSiteWindowRunStrict
    <2>3. QED
      BY <1>3, <2>2 DEF CreateSiteWindowRunStrict, TypeOK
  <1>4. ASSUME NEW task \in WindowedTasks \cap TaskTypes, NEW hours \in Ranges \ {{}},
               CreateSiteWindowRunGaps(s, task, hours)
        PROVE  TypeOK'
    <2> DEFINE free == uncoveredSiteWindowRanges(s, hours)
               wanted == IF task = "usage_backfill" THEN collectableUsageBackfillRanges(s, free) ELSE free
               rows == {NewSiteCollectionRun(s, site[s].version, task, g, FALSE) : g \in Segments(wanted)}
    <2>1. Insert(run, rows)
      BY <1>4 DEF CreateSiteWindowRunGaps
    <2>2. wanted \in SUBSET Hour
      BY RangeType DEF uncoveredSiteWindowRanges, collectableUsageBackfillRanges
    <2> HIDE DEF free, wanted
    <2>3. Segments(wanted) \subseteq SUBSET Hour
      BY <2>2, RangeType
    <2>4. rows \subseteq RunRow
      BY <1>2, <2>3
    <2> HIDE DEF rows
    <2>5. run' \in [Run -> RunRow]
      BY <1>1, <2>1, <2>4, InsertType
    <2>6. QED
      BY <1>4, <2>5 DEF CreateSiteWindowRunGaps, TypeOK
  <1>5. ASSUME NEW task \in PlainTasks \cap TaskTypes, EnqueueSiteTask(s, task) PROVE TypeOK'
    <2>1. {NewSiteCollectionRun(s, site[s].version, task, {}, FALSE)} \subseteq RunRow
      BY <1>2
    <2>2. run' \in [Run -> RunRow]
      BY <1>1, <1>5, <2>1, InsertType DEF EnqueueSiteTask
    <2>3. QED
      BY <1>5, <2>2 DEF EnqueueSiteTask, TypeOK
  <1>6. CASE QueueRefresh(s)
    <2> DEFINE queued == NotQueued(s, PlainTasks \cap TaskTypes)
               rows == {NewSiteCollectionRun(s, site[s].version, t, {}, FALSE) : t \in queued}
    <2>1. Insert(run, rows)
      BY <1>6 DEF QueueRefresh
    <2>2. queued \subseteq PlainTasks
      BY DEF NotQueued
    <2> HIDE DEF queued
    <2>3. rows \subseteq RunRow
      BY <1>2, <2>2
    <2> HIDE DEF rows
    <2>4. run' \in [Run -> RunRow]
      BY <1>1, <2>1, <2>3, InsertType
    <2>5. QED
      BY <1>6, <2>4 DEF QueueRefresh, TypeOK
  <1>7. QED
    BY <1>3, <1>4, <1>5, <1>6 DEF Create

\* Materializing windows keeps the types (MaterializeRunWindows).
LEMMA MaterializeType == ASSUME TypeOK, NEW r \in Run, Materialize(r) PROVE TypeOK'
PROOF
  <1>1. run[r] \in RunRow /\ run \in [Run -> RunRow] /\ mat \in [Run -> Materialization]
    BY DEF TypeOK
  <1>2. CASE LoadExpectation(r)
    <2>1. expectedSiteRunWindowHours(r) \in SUBSET Hour
      BY <1>1 DEF expectedSiteRunWindowHours, RunRow
    <2>2. mat' \in [Run -> Materialization]
      BY <1>1, <1>2, <2>1 DEF LoadExpectation, Materialization
    <2>3. QED
      BY <1>2, <2>2 DEF LoadExpectation, TypeOK
  <1>3. ASSUME NEW h \in Hour, MaterializeChunk(r, h) PROVE TypeOK'
    <2>1. [NoWindow EXCEPT !.status = "pending"] \in WindowRow
      BY BoundAssumption DEF NoWindow, WindowRow, RunStatus
    <2>2. win' \in [Run -> [Hour -> WindowRow]]
      BY <1>3, <2>1 DEF MaterializeChunk, TypeOK
    <2>3. QED
      BY <1>3, <2>2 DEF MaterializeChunk, TypeOK
  <1>4. NoMaterialization \in Materialization
    BY DEF NoMaterialization, Materialization
  <1>5. CASE FinishMaterialization(r)
    <2>1. [run[r] EXCEPT !.initialized = TRUE] \in RunRow
      BY <1>1 DEF RunRow
    <2>2. SetRunStatus([run[r] EXCEPT !.initialized = TRUE], RunStatusOf(win[r])) \in RunRow
      BY <2>1, RunStatusType, SetRunStatusType
    <2>3. run' \in [Run -> RunRow] /\ mat' \in [Run -> Materialization]
      BY <1>1, <1>4, <1>5, <2>2 DEF FinishMaterialization
    <2>4. QED
      BY <1>5, <2>3 DEF FinishMaterialization, TypeOK
  <1>6. CASE AbandonMaterialization(r)
    <2>1. mat' \in [Run -> Materialization]
      BY <1>1, <1>4, <1>6 DEF AbandonMaterialization
    <2>2. QED
      BY <1>6, <2>1 DEF AbandonMaterialization, TypeOK
  <1>7. QED
    BY <1>2, <1>3, <1>5, <1>6 DEF Materialize

\* A claim within the bounds keeps the types.
LEMMA ClaimRunType ==
    ASSUME TypeOK, NEW r \in Run, NEW ws \in [Hour -> WindowRow], NEW due \in SUBSET Hour,
           run[r].epoch < MaxClaims, Windowed(r) \/ run[r].retry < MaxClaims, ClaimRun(r, ws, due)
    PROVE  TypeOK'
PROOF
  <1> DEFINE e == run[r].epoch + 1
             x == [NoExecution EXCEPT !.phase = "exec", !.version = run[r].version, !.todo = due,
                     !.attempt = [h \in Hour |-> IF h \in due THEN ws[h].attempt ELSE 0]]
  <1>1. run[r] \in RunRow /\ run \in [Run -> RunRow]
    BY DEF TypeOK
  <1>2. run[r].epoch \in 0 .. MaxClaims /\ run[r].retry \in 0 .. MaxClaims
        /\ run[r].version \in 1 .. MaxVersion
    BY <1>1 DEF RunRow
  <1>3. e \in 1 .. MaxClaims /\ e \in 0 .. MaxClaims
    BY <1>2, BoundAssumption
  <1>4. (IF Windowed(r) THEN run[r].retry ELSE run[r].retry + 1) \in 0 .. MaxClaims
    BY <1>2, BoundAssumption
  <1>5. run' \in [Run -> RunRow]
    BY <1>1, <1>3, <1>4 DEF ClaimRun, RunRow, RunStatus
  <1>6. win' \in [Run -> [Hour -> WindowRow]]
    BY DEF ClaimRun, TypeOK
  <1>7. x \in Execution
    <2>1. NoExecution \in Execution
      BY <1>3, ExecutionUpdates
    <2>2. [h \in Hour |-> IF h \in due THEN ws[h].attempt ELSE 0] \in [Hour -> 0 .. MaxClaims]
      BY BoundAssumption DEF WindowRow
    <2>3. run[r].version \in 0 .. MaxVersion
      BY <1>2, BoundAssumption
    <2>4. QED
      BY <2>1, <2>2, <2>3 DEF Execution
  <1>8. exec' = [exec EXCEPT ![r][e] = x]
    BY DEF ClaimRun
  <1> HIDE DEF e, x
  <1>9. exec' \in [Run -> [1 .. MaxClaims -> Execution]]
    BY <1>3, <1>7, <1>8, ExecutionUpdates
  <1>10. QED
    BY <1>5, <1>6, <1>9 DEF ClaimRun, TypeOK

\* Attempts are spent by claims only: neither the retry_count of a run nor the attempt_count
\* of a window passes the number of claims.
ClaimsBounded ==
    \A r \in Run :
        /\ run[r].retry <= run[r].epoch
        /\ \A h \in Hour : win[r][h].attempt <= run[r].epoch
        /\ run[r].status = "absent" => run[r].epoch = 0

\* A claim is within the bounds when attempts are spent by claims only.
LEMMA ClaimType == ASSUME TypeOK, ClaimsBounded, NEW r \in Run, Claim(r) PROVE TypeOK'
PROOF
  <1>1. run[r].epoch \in 0 .. MaxClaims /\ run[r].retry \in 0 .. MaxClaims /\ run[r].retry <= run[r].epoch
        /\ win[r] \in [Hour -> WindowRow] /\ \A h \in Hour : win[r][h].attempt <= run[r].epoch
    BY DEF TypeOK, RunRow, ClaimsBounded
  <1>2. ASSUME NEW due \in SUBSET Hour, ClaimWindows(r, due) PROVE TypeOK'
    <2> DEFINE ws == [h \in Hour |-> IF h \in due
                        THEN [status |-> "running", attempt |-> win[r][h].attempt + 1]
                        ELSE win[r][h]]
    <2>1. ClaimRun(r, ws, due) /\ run[r].epoch < MaxClaims /\ Windowed(r)
      BY <1>2 DEF ClaimWindows
    <2>2. ws \in [Hour -> WindowRow]
      <3>1. ASSUME NEW h \in Hour PROVE win[r][h].attempt + 1 \in 0 .. MaxClaims
        <4>1. win[r][h].attempt \in 0 .. MaxClaims /\ win[r][h].attempt <= run[r].epoch
          BY <1>1 DEF WindowRow
        <4>2. QED
          BY <1>1, <2>1, <4>1, BoundAssumption
      <3>2. QED
        BY <1>1, <3>1 DEF WindowRow, RunStatus
    <2> HIDE DEF ws
    <2>3. QED
      BY <2>1, <2>2, ClaimRunType
  <1>3. CASE ClaimPlain(r)
    <2>1. ClaimRun(r, win[r], {}) /\ run[r].epoch < MaxClaims
      BY <1>3 DEF ClaimPlain
    <2>2. run[r].retry < MaxClaims
      BY <1>1, <2>1, BoundAssumption
    <2>3. QED
      BY <1>1, <2>1, <2>2, ClaimRunType
  <1>4. QED
    BY <1>2, <1>3 DEF Claim

\* A transaction that settles windows of r and recounts the run.
LEMMA SettleType ==
    ASSUME TypeOK, NEW r \in Run, NEW ws \in [Hour -> WindowRow], NEW status \in RunStatus
    PROVE  /\ [win EXCEPT ![r] = ws] \in [Run -> [Hour -> WindowRow]]
           /\ [run EXCEPT ![r] = SetRunStatus(run[r], status)] \in [Run -> RunRow]
  BY SetRunStatusType DEF TypeOK

\* What a window's outcome makes of it and of the fact.
LEMMA OutcomeType ==
    ASSUME TypeOK, NEW r \in Run, NEW e \in 1 .. MaxClaims, NEW h \in Hour, NEW o
    PROVE  /\ OutcomeStatus(o) \in RunStatus \ {"absent"}
           /\ SettleWindow(r, h, OutcomeStatus(o)) \in [Hour -> WindowRow]
           /\ SettleWindow(r, h, "pending") \in [Hour -> WindowRow]
           /\ [fact EXCEPT ![run[r].site][h] = FactAfter(r, e, h, o)]
                \in [Site -> [Hour -> 0 .. MaxVersion]]
PROOF
  <1>1. OutcomeStatus(o) \in RunStatus \ {"absent"}
    BY DEF OutcomeStatus, RunStatus
  <1>2. win[r] \in [Hour -> WindowRow] /\ run[r].site \in Site
    BY DEF TypeOK, RunRow
  <1>3. SettleWindow(r, h, OutcomeStatus(o)) \in [Hour -> WindowRow]
    BY <1>1, <1>2 DEF SettleWindow, WindowRow
  <1>4. SettleWindow(r, h, "pending") \in [Hour -> WindowRow]
    BY <1>2 DEF SettleWindow, WindowRow, RunStatus
  <1>5. exec[r][e].version \in 0 .. MaxVersion
    BY ExecutionUpdates DEF Execution
  <1>6. FactAfter(r, e, h, o) \in 0 .. MaxVersion
    <2>1. fact[run[r].site][h] \in 0 .. MaxVersion
      BY <1>2 DEF TypeOK
    <2>2. 0 \in 0 .. MaxVersion
      BY BoundAssumption
    <2>3. QED
      BY <1>5, <2>1, <2>2 DEF FactAfter
  <1>7. [fact EXCEPT ![run[r].site][h] = FactAfter(r, e, h, o)] \in [Site -> [Hour -> 0 .. MaxVersion]]
    BY <1>2, <1>6 DEF TypeOK
  <1>8. QED
    BY <1>1, <1>3, <1>4, <1>7

\* The steps of an execution keep the types.
LEMMA ExecuteType ==
    ASSUME TypeOK, NEW r \in Run, NEW e \in 1 .. MaxClaims, Execute(r, e) PROVE TypeOK'
PROOF
  <1>1. run[r] \in RunRow /\ run \in [Run -> RunRow]
    BY DEF TypeOK
  <1> DEFINE x == exec[r][e]
  <1>x. x \in Execution /\ \A y \in Execution :
          [exec EXCEPT ![r][e] = y] \in [Run -> [1 .. MaxClaims -> Execution]]
    BY ExecutionUpdates
  <1>2. ASSUME NEW h \in Hour
        PROVE  [exec EXCEPT ![r][e].todo = @ \ {h}] \in [Run -> [1 .. MaxClaims -> Execution]]
    <2>1. [x EXCEPT !.todo = @ \ {h}] \in Execution
      BY <1>x DEF Execution
    <2>2. QED
      BY <1>x, <2>1
  <1>3. ASSUME NEW phase \in {"exec", "yield", "ending", "done"}
        PROVE  [exec EXCEPT ![r][e].phase = phase] \in [Run -> [1 .. MaxClaims -> Execution]]
    <2>1. [x EXCEPT !.phase = phase] \in Execution
      BY <1>x DEF Execution
    <2>2. QED
      BY <1>x, <2>1
  <1>4. ASSUME NEW h \in Hour
        PROVE  [exec EXCEPT ![r][e] = FinishInitial(@, h)] \in [Run -> [1 .. MaxClaims -> Execution]]
    <2>1. [x.view EXCEPT ![h] = {}] \in [Hour -> SUBSET Hour]
      BY <1>x DEF Execution
    <2>2. FinishInitial(x, h) \in Execution
      BY <1>x, <2>1 DEF FinishInitial, Execution
    <2>3. QED
      BY <1>x, <2>2
  <1>5. ASSUME NEW h \in Hour, NEW o, CompleteClaimedWindow(r, e, h, o) PROVE TypeOK'
    <2>1. run' \in [Run -> RunRow] /\ win' \in [Run -> [Hour -> WindowRow]]
      BY <1>5, SettleType, OutcomeType, RunStatusType DEF CompleteClaimedWindow
    <2>2. fact' \in [Site -> [Hour -> 0 .. MaxVersion]]
      BY <1>5, OutcomeType DEF CompleteClaimedWindow
    <2>3. exec' \in [Run -> [1 .. MaxClaims -> Execution]]
      BY <1>2, <1>5 DEF CompleteClaimedWindow
    <2>4. QED
      BY <1>5, <2>1, <2>2, <2>3 DEF CompleteClaimedWindow, TypeOK
  <1>6. ASSUME NEW h \in Hour, NEW o, EndInitialCommit(r, e, h, o) PROVE TypeOK'
    <2>1. run' \in [Run -> RunRow] /\ win' \in [Run -> [Hour -> WindowRow]]
      BY <1>6, SettleType, OutcomeType, RunStatusType DEF EndInitialCommit, RunStatusSeen
    <2>2. fact' \in [Site -> [Hour -> 0 .. MaxVersion]]
      BY <1>6, OutcomeType DEF EndInitialCommit
    <2>3. exec' \in [Run -> [1 .. MaxClaims -> Execution]]
      BY <1>4, <1>6 DEF EndInitialCommit
    <2>4. QED
      BY <1>6, <2>1, <2>2, <2>3 DEF EndInitialCommit, TypeOK
  <1>7. ASSUME NEW h \in Hour, YieldWindow(r, e, h) PROVE TypeOK'
    <2>1. run' \in [Run -> RunRow] /\ win' \in [Run -> [Hour -> WindowRow]]
      BY <1>7, SettleType, OutcomeType, RunStatusType DEF YieldWindow
    <2>2. exec' \in [Run -> [1 .. MaxClaims -> Execution]]
      BY <1>2, <1>7 DEF YieldWindow
    <2>3. QED
      BY <1>7, <2>1, <2>2 DEF YieldWindow, TypeOK
  <1>8. ASSUME NEW h \in Hour, BeginInitialCommit(r, e, h) PROVE TypeOK'
    <2>1. RunningHours(r) \in SUBSET Hour
      BY DEF RunningHours
    <2>2. [x.view EXCEPT ![h] = RunningHours(r)] \in [Hour -> SUBSET Hour]
      BY <1>x, <2>1 DEF Execution
    <2>3. StartInitial(x, h, RunningHours(r)) \in Execution
      BY <1>x, <2>2 DEF StartInitial, Execution
    <2>4. exec' \in [Run -> [1 .. MaxClaims -> Execution]]
      BY <1>x, <1>8, <2>3 DEF BeginInitialCommit
    <2>5. QED
      BY <1>8, <2>4 DEF BeginInitialCommit, TypeOK
  <1>9. ASSUME NEW h \in Hour, InitialCommitLost(r, e, h) PROVE TypeOK'
    BY <1>4, <1>9 DEF InitialCommitLost, TypeOK
  <1>10. CASE CommitLost(r, e) \/ YieldSlice(r, e) \/ CancelClaim(r, e)
    BY <1>3, <1>10 DEF CommitLost, YieldSlice, CancelClaim, TypeOK
  <1>11. ASSUME NEW o, CommitClaim(r, e, o) PROVE TypeOK'
    <2>1. run' \in [Run -> RunRow]
      <3>1. OutcomeStatus(o) \in RunStatus
        BY DEF OutcomeStatus, RunStatus
      <3>2. QED
        BY <1>1, <1>11, <3>1, SetRunStatusType DEF CommitClaim
    <2>2. exec' \in [Run -> [1 .. MaxClaims -> Execution]]
      BY <1>3, <1>11 DEF CommitClaim
    <2>3. QED
      BY <1>11, <2>1, <2>2 DEF CommitClaim, TypeOK
  <1>12. [exec EXCEPT ![r][e] = [NoExecution EXCEPT !.phase = "done"]] \in [Run -> [1 .. MaxClaims -> Execution]]
    BY ExecutionUpdates
  <1>13. CASE ReleaseOwnedRunning(r, e)
    <2>1. run' \in [Run -> RunRow] /\ win' \in [Run -> [Hour -> WindowRow]]
      <3>1. CASE UNCHANGED <<run, win>>
        BY <3>1 DEF TypeOK
      <3>2. CASE ~UNCHANGED <<run, win>>
        <4>1. run[r].status # "absent" /\ win' = [win EXCEPT ![r] = RequeueRunning(r)]
              /\ run' = [run EXCEPT ![r] =
                   SetRunStatus(run[r], IF Windowed(r) THEN RunStatusOf(RequeueRunning(r)) ELSE "pending")]
          BY <1>13, <3>2 DEF ReleaseOwnedRunning, Owns
        <4>2. RequeueRunning(r) \in [Hour -> WindowRow]
          BY <4>1, WindowUpdates
        <4>3. (IF Windowed(r) THEN RunStatusOf(RequeueRunning(r)) ELSE "pending") \in RunStatus
          BY RunStatusType DEF RunStatus
        <4>4. QED
          BY <4>1, <4>2, <4>3, SettleType
      <3>3. QED
        BY <3>1, <3>2
    <2>2. QED
      BY <1>12, <1>13, <2>1 DEF ReleaseOwnedRunning, TypeOK
  <1>14. CASE ReleaseFails(r, e)
    BY <1>12, <1>14 DEF ReleaseFails, TypeOK
  <1>15. CASE Heartbeat(r, e)
    <2>1. run' \in [Run -> RunRow]
      BY <1>1, <1>15 DEF Heartbeat, RunRow
    <2>2. QED
      BY <1>15, <2>1 DEF Heartbeat, TypeOK
  <1>16. QED
    BY <1>5, <1>6, <1>7, <1>8, <1>9, <1>10, <1>11, <1>13, <1>14, <1>15 DEF Execute, Progress

\* So do recovery and the end of a lease (recoverRun).
LEMMA RecoverType == ASSUME TypeOK, NEW r \in Run, RecoverRun(r) \/ LeaseExpires(r) PROVE TypeOK'
PROOF
  <1>1. CASE RecoverRun(r)
    <2> DEFINE status == IF Windowed(r) THEN RunStatusOf(RequeueRunning(r))
                         ELSE IF run[r].retry < MaxAttempts[run[r].task] THEN "pending" ELSE "failed"
    <2>1. run' = [run EXCEPT ![r] = SetRunStatus(run[r], status)]
          /\ win' = (IF Windowed(r) THEN [win EXCEPT ![r] = RequeueRunning(r)] ELSE win)
          /\ run[r].status # "absent"
      BY <1>1 DEF RecoverRun
    <2>2. status \in RunStatus
      BY RunStatusType DEF RunStatus
    <2> HIDE DEF status
    <2>3. RequeueRunning(r) \in [Hour -> WindowRow]
      BY <2>1, WindowUpdates
    <2>4. run' \in [Run -> RunRow] /\ win' \in [Run -> [Hour -> WindowRow]]
      BY <2>1, <2>2, <2>3, SettleType DEF TypeOK
    <2>5. QED
      BY <1>1, <2>4 DEF RecoverRun, TypeOK
  <1>2. CASE LeaseExpires(r)
    <2>1. [run[r] EXCEPT !.heartbeat = "stale"] \in RunRow
      <3>1. run[r] \in RunRow
        BY DEF TypeOK
      <3>2. QED
        BY <3>1 DEF RunRow
    <2>2. run' \in [Run -> RunRow]
      BY <1>2, <2>1 DEF LeaseExpires, TypeOK
    <2>3. QED
      BY <1>2, <2>2 DEF LeaseExpires, TypeOK
  <1>3. QED
    BY <1>1, <1>2

\* So do stops and starts of the process.
LEMMA ProcessType ==
    ASSUME TypeOK, (crashes < MaxCrashes /\ StopProcess) \/ Restart \/ Ready PROVE TypeOK'
PROOF
  <1>1. CASE crashes < MaxCrashes /\ StopProcess
    <2>1. crashes' \in 0 .. MaxCrashes
      BY <1>1, BoundAssumption DEF StopProcess, TypeOK
    <2>2. NoExecution \in Execution /\ [NoExecution EXCEPT !.phase = "done"] \in Execution
      BY BoundAssumption DEF NoExecution, Execution
    <2>3. exec' \in [Run -> [1 .. MaxClaims -> Execution]]
      BY <1>1, <2>2 DEF StopProcess
    <2>4. mat' \in [Run -> Materialization]
      BY <1>1 DEF StopProcess, NoMaterialization, Materialization
    <2>5. QED
      BY <1>1, <2>1, <2>3, <2>4 DEF StopProcess, TypeOK
  <1>2. CASE Restart \/ Ready
    BY <1>2 DEF Restart, Ready, TypeOK
  <1>3. QED
    BY <1>1, <1>2

-----------------------------------------------------------------------------
(* What the engine leaves alone: the facts the invariants rest on.          *)

\* A step that neither creates nor claims keeps what each run is about, who claimed it
\* last and what that cost.  It moves a run only out of pending or running, and starts none.
EngineFrame ==
    /\ site' = site
    /\ \A r \in Run :
        /\ run'[r].site = run[r].site
        /\ run'[r].task = run[r].task
        /\ run'[r].version = run[r].version
        /\ run'[r].hours = run[r].hours
        /\ run'[r].epoch = run[r].epoch
        /\ run'[r].retry = run[r].retry
        /\ run'[r].status # run[r].status => run[r].status \in Unfinished /\ run'[r].status # "absent"
        /\ run'[r].status = "running" => run[r].status = "running"
        /\ run[r].status \in Terminal => run'[r] = run[r]
        /\ \A h \in Hour : /\ win'[r][h].attempt \in {win[r][h].attempt, 0}
                           /\ win[r][h].status \in Terminal => win'[r][h] = win[r][h]

\* The same for one run whose status is set.
LEMMA SetRunStatusFrame ==
    ASSUME NEW row \in RunRow, NEW status
    PROVE  LET new == SetRunStatus(row, status)
           IN  /\ new.status = status
               /\ new.site = row.site /\ new.task = row.task /\ new.version = row.version
               /\ new.hours = row.hours /\ new.epoch = row.epoch /\ new.retry = row.retry
  BY DEF SetRunStatus, RunRow

\* A transaction that settles windows of an unfinished run and recounts it.
LEMMA SettleFrame ==
    ASSUME TypeOK, NEW r \in Run, NEW status, run[r].status \in Unfinished,
           status # "absent", status = "running" => run[r].status = "running",
           site' = site, run'[r] = SetRunStatus(run[r], status),
           \A q \in Run \ {r} : run'[q] = run[q],
           \A q \in Run, h \in Hour : /\ win'[q][h].attempt = win[q][h].attempt
                                      /\ win[q][h].status \in Terminal => win'[q][h] = win[q][h]
    PROVE  EngineFrame
PROOF
  <1>1. run[r] \in RunRow
    BY DEF TypeOK
  <1>2. run[r].status \notin Terminal
    BY DEF Unfinished, Terminal
  <1>3. /\ run'[r].status = status
        /\ run'[r].site = run[r].site /\ run'[r].task = run[r].task
        /\ run'[r].version = run[r].version /\ run'[r].hours = run[r].hours
        /\ run'[r].epoch = run[r].epoch /\ run'[r].retry = run[r].retry
    BY <1>1, SetRunStatusFrame
  <1>4. QED
    BY <1>2, <1>3 DEF EngineFrame

\* A window keeps its attempt_count when it is settled or put back, and the windows that
\* are already settled stay as they are.
Kept(r, ws) ==
    \A h \in Hour : /\ ws[h].attempt = win[r][h].attempt
                    /\ win[r][h].status \in Terminal => ws[h] = win[r][h]

\* Requeueing, and settling a window that was running, keep all that.
LEMMA WindowsKept ==
    ASSUME TypeOK, NEW r \in Run
    PROVE  /\ Kept(r, RequeueRunning(r))
           /\ \A g \in Hour : \A status : win[r][g].status = "running" => Kept(r, SettleWindow(r, g, status))
PROOF
  <1>1. win[r] \in [Hour -> WindowRow]
    BY DEF TypeOK
  <1>2. \A w \in WindowRow : \A status : [w EXCEPT !.status = status].attempt = w.attempt
    BY DEF WindowRow
  <1>3. QED
    BY <1>1, <1>2 DEF RequeueRunning, SettleWindow, Kept, Terminal

\* A step that leaves the three tables alone.
LEMMA UnchangedFrame == ASSUME UNCHANGED <<site, run, win>> PROVE EngineFrame
  BY DEF EngineFrame

\* Materialization opens pending runs and inserts windows only.
LEMMA MaterializeFrame == ASSUME TypeOK, NEW r \in Run, Materialize(r) PROVE EngineFrame
PROOF
  <1>1. run \in [Run -> RunRow] /\ run[r] \in RunRow /\ win \in [Run -> [Hour -> WindowRow]]
    BY DEF TypeOK
  <1>2. CASE LoadExpectation(r) \/ AbandonMaterialization(r)
    BY <1>2, UnchangedFrame DEF LoadExpectation, AbandonMaterialization
  <1>3. ASSUME NEW h \in Hour, MaterializeChunk(r, h) PROVE EngineFrame
    <2>1. [NoWindow EXCEPT !.status = "pending"].attempt = 0
      BY DEF NoWindow
    <2>2. \A q \in Run, g \in Hour :
            /\ win'[q][g].attempt \in {win[q][g].attempt, 0}
            /\ win[q][g].status \in Terminal => win'[q][g] = win[q][g]
      BY <1>1, <1>3, <2>1 DEF MaterializeChunk, Materialized, Terminal
    <2>3. QED
      BY <1>3, <2>2 DEF MaterializeChunk, EngineFrame
  <1>4. CASE FinishMaterialization(r)
    <2> DEFINE row == [run[r] EXCEPT !.initialized = TRUE]
    <2>1. row \in RunRow /\ row.site = run[r].site /\ row.task = run[r].task /\ row.version = run[r].version
          /\ row.hours = run[r].hours /\ row.epoch = run[r].epoch /\ row.retry = run[r].retry
      BY <1>1 DEF RunRow
    <2>2. RunStatusOf(win[r]) \notin {"running", "absent"}
      <3>1. \A h \in Hour : win[r][h].status # "running"
        BY <1>4 DEF FinishMaterialization, Materialized, PendingHours
      <3>2. QED
        BY <3>1, RunStatusType DEF RunStatusOf
    <2>3. run[r].status = "pending"
      BY <1>4 DEF FinishMaterialization, Materializable
    <2>4. run' = [run EXCEPT ![r] = SetRunStatus(row, RunStatusOf(win[r]))] /\ UNCHANGED <<site, win>>
      BY <1>4 DEF FinishMaterialization
    <2> HIDE DEF row
    <2>5. QED
      BY <1>1, <2>1, <2>2, <2>3, <2>4, SetRunStatusFrame DEF EngineFrame, Unfinished, Terminal
  <1>5. QED
    BY <1>2, <1>3, <1>4 DEF Materialize

\* An execution settles windows and runs it still owns.
LEMMA ExecuteFrame ==
    ASSUME TypeOK, NEW r \in Run, NEW e \in 1 .. MaxClaims, Execute(r, e) PROVE EngineFrame
PROOF
  <1>1. run \in [Run -> RunRow] /\ run[r] \in RunRow /\ win \in [Run -> [Hour -> WindowRow]]
    BY DEF TypeOK
  <1>2. CanCommit(r, e) => run[r].status = "running" /\ run[r].status \in Unfinished
    BY DEF CanCommit, Owns, Unfinished
  <1>3. ASSUME NEW h \in Hour, NEW o, CompleteClaimedWindow(r, e, h, o) PROVE EngineFrame
    <2> DEFINE ws == SettleWindow(r, h, OutcomeStatus(o))
    <2>1. CanCommit(r, e) /\ WindowMatches(r, e, h) /\ site' = site /\ win' = [win EXCEPT ![r] = ws]
          /\ run' = [run EXCEPT ![r] = SetRunStatus(run[r], RunStatusOf(ws))]
      BY <1>3 DEF CompleteClaimedWindow
    <2>2. Kept(r, ws)
      BY <2>1, WindowsKept DEF WindowMatches
    <2>3. RunStatusOf(ws) # "absent"
      BY RunStatusType
    <2> HIDE DEF ws
    <2>4. \A q \in Run, g \in Hour : /\ win'[q][g].attempt = win[q][g].attempt
                                     /\ win[q][g].status \in Terminal => win'[q][g] = win[q][g]
      BY <1>1, <2>1, <2>2 DEF Kept
    <2>5. run'[r] = SetRunStatus(run[r], RunStatusOf(ws)) /\ \A q \in Run \ {r} : run'[q] = run[q]
      BY <1>1, <2>1
    <2>6. QED
      BY <1>2, <2>1, <2>3, <2>4, <2>5, SettleFrame
  <1>4. ASSUME NEW h \in Hour, NEW o, EndInitialCommit(r, e, h, o) PROVE EngineFrame
    <2> DEFINE ws == SettleWindow(r, h, OutcomeStatus(o))
               status == RunStatusSeen(ws, exec[r][e].view[h], h)
    <2>1. CanCommit(r, e) /\ WindowMatches(r, e, h) /\ site' = site /\ win' = [win EXCEPT ![r] = ws]
          /\ run' = [run EXCEPT ![r] = SetRunStatus(run[r], status)]
      BY <1>4 DEF EndInitialCommit
    <2>2. Kept(r, ws)
      BY <2>1, WindowsKept DEF WindowMatches
    <2>3. status # "absent"
      BY RunStatusType DEF RunStatusSeen
    <2> HIDE DEF ws, status
    <2>4. \A q \in Run, g \in Hour : /\ win'[q][g].attempt = win[q][g].attempt
                                     /\ win[q][g].status \in Terminal => win'[q][g] = win[q][g]
      BY <1>1, <2>1, <2>2 DEF Kept
    <2>5. run'[r] = SetRunStatus(run[r], status) /\ \A q \in Run \ {r} : run'[q] = run[q]
      BY <1>1, <2>1
    <2>6. QED
      BY <1>2, <2>1, <2>3, <2>4, <2>5, SettleFrame
  <1>5. ASSUME NEW h \in Hour, YieldWindow(r, e, h) PROVE EngineFrame
    <2> DEFINE ws == SettleWindow(r, h, "pending")
    <2>1. CanCommit(r, e) /\ WindowMatches(r, e, h) /\ site' = site /\ win' = [win EXCEPT ![r] = ws]
          /\ run' = [run EXCEPT ![r] = SetRunStatus(run[r], RunStatusOf(ws))]
      BY <1>5 DEF YieldWindow
    <2>2. Kept(r, ws)
      BY <2>1, WindowsKept DEF WindowMatches
    <2>3. RunStatusOf(ws) # "absent"
      BY RunStatusType
    <2> HIDE DEF ws
    <2>4. \A q \in Run, g \in Hour : /\ win'[q][g].attempt = win[q][g].attempt
                                     /\ win[q][g].status \in Terminal => win'[q][g] = win[q][g]
      BY <1>1, <2>1, <2>2 DEF Kept
    <2>5. run'[r] = SetRunStatus(run[r], RunStatusOf(ws)) /\ \A q \in Run \ {r} : run'[q] = run[q]
      BY <1>1, <2>1
    <2>6. QED
      BY <1>2, <2>1, <2>3, <2>4, <2>5, SettleFrame
  <1>6. ASSUME NEW h \in Hour, BeginInitialCommit(r, e, h) \/ InitialCommitLost(r, e, h) PROVE EngineFrame
    BY <1>6, UnchangedFrame DEF BeginInitialCommit, InitialCommitLost
  <1>7. CASE CommitLost(r, e) \/ YieldSlice(r, e) \/ CancelClaim(r, e) \/ ReleaseFails(r, e)
    BY <1>7, UnchangedFrame DEF CommitLost, YieldSlice, CancelClaim, ReleaseFails
  <1>8. ASSUME NEW o, CommitClaim(r, e, o) PROVE EngineFrame
    <2>1. OutcomeStatus(o) # "absent"
      BY DEF OutcomeStatus
    <2>2. QED
      BY <1>1, <1>2, <1>8, <2>1, SettleFrame DEF CommitClaim
  <1>9. CASE ReleaseOwnedRunning(r, e)
    <2>1. CASE UNCHANGED <<run, win>>
      BY <1>9, <2>1, UnchangedFrame DEF ReleaseOwnedRunning
    <2>2. CASE ~UNCHANGED <<run, win>>
      <3> DEFINE status == IF Windowed(r) THEN RunStatusOf(RequeueRunning(r)) ELSE "pending"
      <3>1. Owns(r, e) /\ win' = [win EXCEPT ![r] = RequeueRunning(r)]
            /\ run' = [run EXCEPT ![r] = SetRunStatus(run[r], status)] /\ site' = site
        BY <1>9, <2>2 DEF ReleaseOwnedRunning
      <3>2. status # "absent"
        BY RunStatusType
      <3> HIDE DEF status
      <3>3. QED
        <4>1. run[r].status = "running" /\ run[r].status \in Unfinished
          BY <3>1 DEF Owns, Unfinished
        <4>2. Kept(r, RequeueRunning(r))
          BY WindowsKept
        <4>3. \A q \in Run, g \in Hour : /\ win'[q][g].attempt = win[q][g].attempt
                                         /\ win[q][g].status \in Terminal => win'[q][g] = win[q][g]
          BY <1>1, <3>1, <4>2 DEF Kept
        <4>4. run'[r] = SetRunStatus(run[r], status) /\ \A q \in Run \ {r} : run'[q] = run[q]
          BY <1>1, <3>1
        <4>5. QED
          BY <3>1, <3>2, <4>1, <4>3, <4>4, SettleFrame
    <2>3. QED
      BY <2>1, <2>2
  <1>10. CASE Heartbeat(r, e)
    BY <1>1, <1>10 DEF Heartbeat, Owns, EngineFrame, RunRow, Terminal
  <1>11. QED
    BY <1>3, <1>4, <1>5, <1>6, <1>7, <1>8, <1>9, <1>10 DEF Execute, Progress

\* Recovery ends running runs only.
LEMMA RecoverFrame == ASSUME TypeOK, NEW r \in Run, Recover(r) PROVE EngineFrame
PROOF
  <1>1. run \in [Run -> RunRow] /\ run[r] \in RunRow
    BY DEF TypeOK
  <1>2. CASE RecoverRun(r)
    <2> DEFINE status == IF Windowed(r) THEN RunStatusOf(RequeueRunning(r))
                         ELSE IF run[r].retry < MaxAttempts[run[r].task] THEN "pending" ELSE "failed"
    <2>1. run' = [run EXCEPT ![r] = SetRunStatus(run[r], status)] /\ run[r].status = "running"
          /\ win' = (IF Windowed(r) THEN [win EXCEPT ![r] = RequeueRunning(r)] ELSE win) /\ site' = site
      BY <1>2 DEF RecoverRun
    <2>2. status # "absent"
      BY RunStatusType
    <2> HIDE DEF status
    <2>3. QED
      <3>1. run[r].status \in Unfinished
        BY <2>1 DEF Unfinished
      <3>2. Kept(r, RequeueRunning(r))
        BY WindowsKept
      <3>3. \A q \in Run, g \in Hour : /\ win'[q][g].attempt = win[q][g].attempt
                                       /\ win[q][g].status \in Terminal => win'[q][g] = win[q][g]
        BY <2>1, <3>2 DEF TypeOK, Kept
      <3>4. run'[r] = SetRunStatus(run[r], status) /\ \A q \in Run \ {r} : run'[q] = run[q]
        BY <1>1, <2>1
      <3>5. QED
        BY <2>1, <2>2, <3>1, <3>3, <3>4, SettleFrame
  <1>3. CASE LeaseExpires(r)
    BY <1>1, <1>3 DEF LeaseExpires, EngineFrame, RunRow, Terminal
  <1>4. CASE ClaimFatal(r)
    BY <1>4, UnchangedFrame DEF ClaimFatal, StopProcess
  <1>5. QED
    BY <1>2, <1>3, <1>4 DEF Recover

\* Every step that is not a change of a site, a creation or a claim.
LEMMA EngineSteps ==
    ASSUME TypeOK,
           \/ \E r \in Run : Materialize(r) \/ Recover(r)
           \/ \E r \in Run, e \in 1 .. MaxClaims : Execute(r, e)
           \/ Crash \/ Restart \/ Ready
           \/ UNCHANGED vars
    PROVE  EngineFrame
PROOF
  <1>1. CASE Crash \/ Restart \/ Ready \/ UNCHANGED vars
    BY <1>1, UnchangedFrame DEF Crash, StopProcess, Restart, Ready, vars
  <1>2. QED
    BY <1>1, MaterializeFrame, ExecuteFrame, RecoverFrame

-----------------------------------------------------------------------------
(* What the other steps do to a run: creation, a change of the site, a claim. *)

\* A new row waits for its windows, or has none to wait for.
Fresh(c) ==
    /\ c.initialized \/ c.task \in WindowedTasks
    /\ c.task \in WindowedTasks /\ c.status = "pending" => ~c.initialized
    /\ c.status = "success" => c.hours = {} /\ c.initialized

\* The rows the callers build are fresh.
LEMMA NewRunFresh ==
    ASSUME NEW s, NEW version, NEW task, NEW hours, NEW initial
    PROVE  /\ Fresh(NewSiteCollectionRun(s, version, task, hours, initial))
           /\ Fresh(CompleteEmptyRun(NewSiteCollectionRun(s, version, task, hours, initial)))
PROOF
  <1> DEFINE row == NewSiteCollectionRun(s, version, task, hours, initial)
  <1>1. /\ row.initialized <=> task \notin WindowedTasks
        /\ row.task = task /\ row.status = "pending" /\ row.hours = hours
    BY Zenon DEF NewSiteCollectionRun
  <1>2. Fresh(row)
    BY <1>1 DEF Fresh
  <1>3. /\ [row EXCEPT !.status = "success", !.initialized = TRUE].initialized
        /\ [row EXCEPT !.status = "success", !.initialized = TRUE].status = "success"
        /\ [row EXCEPT !.status = "success", !.initialized = TRUE].hours = row.hours
    BY DEF NewSiteCollectionRun
  <1> HIDE DEF row
  <1>4. row.hours = {} => Fresh([row EXCEPT !.status = "success", !.initialized = TRUE])
    BY <1>3 DEF Fresh
  <1>5. Fresh(CompleteEmptyRun(row))
    BY <1>2, <1>4 DEF CompleteEmptyRun
  <1>6. QED
    BY <1>2, <1>5 DEF row

\* Rows that may be inserted for site s when its row is st: pending under the current
\* version where the site admits them, or finished at once, and never claimed.
NewRows(s, st, rows) ==
    \A c \in rows :
        /\ c.site = s /\ c.version = st.version
        /\ c.epoch = 0 /\ c.retry = 0
        /\ c.status \in {"pending", "success"} /\ Fresh(c)
        /\ c.status = "pending" => /\ st.active /\ ~st.ended
                                   /\ c.task \in WindowedTasks => Collectable(st)

\* No row of a set gets in the way of another one.
Apart(rows) ==
    \A a, b \in rows : a # b =>
        /\ a.task \in WindowedTasks /\ b.task \in WindowedTasks => a.hours \cap b.hours = {}
        /\ a.task \notin WindowedTasks => a.task # b.task

\* No row of a set gets in the way of an active run.
Clear(rows) ==
    \A c \in rows, r \in Run : (Active(r) /\ run[r].site = c.site) =>
        /\ c.task \in WindowedTasks /\ Windowed(r) => c.hours \cap run[r].hours = {}
        /\ c.task \notin WindowedTasks \/ ~Windowed(r) => c.task # run[r].task

\* Statistics end only while the site is disabled.
EndedIsDisabled == \A s \in Site : site[s].ended => ~site[s].active

\* A change of a site either bumps its version and fences its runs, or ends or resumes the
\* statistics of a disabled site.
Fenced(s, row, created) ==
    /\ BumpSiteFence(s, row, created)
    /\ row.version = site[s].version + 1
    /\ row.ended => ~row.active
    /\ NewRows(s, row, created)
    /\ Apart(created)

EndedChanged(s) ==
    /\ ~site[s].active
    /\ UNCHANGED <<run, win, fact, exec, mat>>
    /\ \E ended \in BOOLEAN : site' = [site EXCEPT ![s].ended = ended]

Created(s, rows) ==
    /\ Insert(run, rows)
    /\ UNCHANGED <<site, win, fact, exec, mat>>
    /\ NewRows(s, site[s], rows)
    /\ Apart(rows)
    /\ Clear(rows)

\* Different segments of a set of hours have no hour in common.
LEMMA SegmentsApart ==
    ASSUME NEW S \in SUBSET Hour, NEW f \in Segments(S), NEW g \in Segments(S), f \cap g # {}
    PROVE  f = g
PROOF
  <1>1. S \subseteq Nat
    BY HourAssumption DEF Hour
  <1>2. PICK a \in S, b \in S : /\ f = a .. b /\ f \subseteq S
                                /\ a - 1 \notin S /\ b + 1 \notin S
    BY DEF Segments
  <1>3. PICK c \in S, d \in S : /\ g = c .. d /\ g \subseteq S
                                /\ c - 1 \notin S /\ d + 1 \notin S
    BY DEF Segments
  <1>4. a \in Nat /\ b \in Nat /\ c \in Nat /\ d \in Nat
    BY <1>1
  <1>5. PICK x \in S : a <= x /\ x <= b /\ c <= x /\ x <= d /\ x \in Nat
    BY <1>1, <1>2, <1>3, <1>4
  <1>6. ~(a < c) /\ ~(c < a)
    <2>1. CASE a < c
      <3>1. c - 1 \in a .. b
        BY <1>4, <1>5, <2>1
      <3>2. QED
        BY <1>2, <1>3, <3>1
    <2>2. CASE c < a
      <3>1. a - 1 \in c .. d
        BY <1>4, <1>5, <2>2
      <3>2. QED
        BY <1>2, <1>3, <3>1
    <2>3. QED
      BY <2>1, <2>2
  <1>7. ~(b < d) /\ ~(d < b)
    <2>1. CASE b < d
      <3>1. b + 1 \in c .. d
        BY <1>4, <1>5, <2>1
      <3>2. QED
        BY <1>2, <1>3, <3>1
    <2>2. CASE d < b
      <3>1. d + 1 \in a .. b
        BY <1>4, <1>5, <2>2
      <3>2. QED
        BY <1>2, <1>3, <3>1
    <2>3. QED
      BY <2>1, <2>2
  <1>8. a = c /\ b = d
    BY <1>4, <1>6, <1>7
  <1>9. QED
    BY <1>2, <1>3, <1>8

\* Every change of a site is one or the other, with rows that fit the site it leaves.
LEMMA LifecycleFrame ==
    ASSUME TypeOK, EndedIsDisabled, NEW s \in Site, Lifecycle(s)
    PROVE  EndedChanged(s) \/ \E row, created : Fenced(s, row, created)
PROOF
  <1>1. site[s] \in SiteRow
    BY DEF TypeOK
  <1>3. site[s].ended => ~site[s].active
    BY DEF EndedIsDisabled
  <1>4. \A row : NewRows(s, row, {}) /\ Apart({})
    BY DEF NewRows, Apart
  <1>5. CASE Disable(s)
    <2> DEFINE row == [Bumped(s) EXCEPT !.active = FALSE]
    <2>1. BumpSiteFence(s, row, {})
      BY <1>5 DEF Disable
    <2>2. row.version = site[s].version + 1 /\ ~row.active
      BY <1>1 DEF Bumped, SiteRow
    <2> HIDE DEF row
    <2>3. QED
      BY <1>4, <2>1, <2>2 DEF Fenced
  <1>6. ASSUME NEW hours \in Ranges, Enable(s, hours) PROVE \E row, created : Fenced(s, row, created)
    <2> DEFINE row == [Bumped(s) EXCEPT !.active = TRUE]
               plain(t) == NewSiteCollectionRun(s, row.version, t, {}, FALSE)
               backfill == CompleteEmptyRun(
                             NewSiteCollectionRun(s, row.version, "usage_backfill", hours, FALSE))
               created == {backfill} \cup {plain(t) : t \in PlainTasks \cap TaskTypes}
    <2>1. BumpSiteFence(s, row, created)
      BY <1>6 DEF Enable
    <2>2. row.version = site[s].version + 1 /\ ~row.ended /\ row.active /\ Collectable(row)
      BY <1>1, <1>6 DEF Enable, Bumped, SiteRow, Collectable
    <2> HIDE DEF row
    <2>3. /\ backfill.site = s /\ backfill.version = row.version /\ backfill.task = "usage_backfill"
          /\ backfill.epoch = 0 /\ backfill.retry = 0 /\ backfill.status \in {"pending", "success"}
          /\ Fresh(backfill)
      BY NewRunFresh DEF NewSiteCollectionRun, CompleteEmptyRun
    <2>4. \A t : /\ plain(t).site = s /\ plain(t).version = row.version /\ plain(t).task = t
                 /\ plain(t).epoch = 0 /\ plain(t).retry = 0 /\ plain(t).status = "pending"
                 /\ Fresh(plain(t))
      BY NewRunFresh DEF NewSiteCollectionRun, CompleteEmptyRun
    <2>5. "usage_backfill" \in WindowedTasks /\ \A t \in PlainTasks : t \notin WindowedTasks
      BY DEF WindowedTasks, PlainTasks
    <2> HIDE DEF plain, backfill
    <2>6. NewRows(s, row, created)
      BY <2>2, <2>3, <2>4 DEF NewRows
    <2>7. Apart(created)
      BY <2>3, <2>4, <2>5 DEF Apart
    <2> HIDE DEF created
    <2>8. QED
      BY <2>1, <2>2, <2>6, <2>7 DEF Fenced
  <1>7. CASE EndStatistics(s) \/ ClearStatisticsEnd(s)
    BY <1>7 DEF EndStatistics, ClearStatisticsEnd, EndedChanged
  <1>8. ASSUME NEW ready \in BOOLEAN, NEW rotate \in BOOLEAN, NEW hours \in Ranges,
               commitAuthorization(s, ready, rotate, hours)
        PROVE  \E row, created : Fenced(s, row, created)
    <2> DEFINE row == [Bumped(s) EXCEPT !.auth = "authorized", !.rooted = TRUE, !.ready = ready]
               backfill == CompleteEmptyRun(
                             NewSiteCollectionRun(s, row.version, "usage_backfill", hours, TRUE))
               created == IF ready /\ site[s].active THEN {backfill} ELSE {}
    <2>1. BumpSiteFence(s, row, created)
      BY <1>8 DEF commitAuthorization
    <2>2. row.version = site[s].version + 1 /\ row.active = site[s].active /\ row.ended = site[s].ended
          /\ row.auth = "authorized" /\ row.ready = ready
      BY <1>1 DEF Bumped, SiteRow
    <2> HIDE DEF row
    <2>3. /\ backfill.site = s /\ backfill.version = row.version /\ backfill.task = "usage_backfill"
          /\ backfill.epoch = 0 /\ backfill.retry = 0 /\ backfill.status \in {"pending", "success"}
          /\ Fresh(backfill)
      BY NewRunFresh DEF NewSiteCollectionRun, CompleteEmptyRun
    <2> HIDE DEF backfill
    <2>4. NewRows(s, row, created)
      BY <1>3, <2>2, <2>3 DEF NewRows, Collectable
    <2>5. Apart(created)
      BY DEF Apart
    <2> HIDE DEF created
    <2>6. QED
      BY <1>3, <2>1, <2>2, <2>4, <2>5 DEF Fenced
  <1>9. ASSUME NEW row, BumpSiteFence(s, row, {}), row.version = site[s].version + 1,
               row.active = site[s].active, row.ended = site[s].ended
        PROVE  \E r, created : Fenced(s, r, created)
    BY <1>3, <1>4, <1>9 DEF Fenced
  <1>10. CASE expireSiteAuthorization(s)
    BY <1>1, <1>9, <1>10 DEF expireSiteAuthorization, Bumped, SiteRow
  <1>11. ASSUME NEW expired \in BOOLEAN, markRecheckIdentityFailure(s, expired)
         PROVE  \E row, created : Fenced(s, row, created)
    BY <1>1, <1>9, <1>11 DEF markRecheckIdentityFailure, Bumped, SiteRow
  <1>12. CASE ProbeCapabilityFailure(s)
    BY <1>1, <1>9, <1>12 DEF ProbeCapabilityFailure, Bumped, SiteRow
  <1>13. ASSUME NEW origin \in BOOLEAN, UpdateBaseURL(s, origin)
         PROVE  \E row, created : Fenced(s, row, created)
    BY <1>1, <1>9, <1>13 DEF UpdateBaseURL, Bumped, SiteRow
  <1>14. QED
    BY <1>5, <1>6, <1>7, <1>8, <1>10, <1>11, <1>12, <1>13 DEF Lifecycle

\* Every creation inserts rows that fit the site and stay clear of what is queued.
LEMMA CreateFrame ==
    ASSUME TypeOK, EndedIsDisabled, NEW s \in Site, Create(s)
    PROVE  \E rows : Created(s, rows)
PROOF
  <1> DEFINE new(task, hours) == NewSiteCollectionRun(s, site[s].version, task, hours, FALSE)
  <1>1. \A task, hours :
          /\ new(task, hours).site = s /\ new(task, hours).version = site[s].version
          /\ new(task, hours).task = task /\ new(task, hours).hours = hours
          /\ new(task, hours).epoch = 0 /\ new(task, hours).retry = 0
          /\ new(task, hours).status = "pending" /\ Fresh(new(task, hours))
    BY NewRunFresh DEF NewSiteCollectionRun
  <1>2. site[s].ended => ~site[s].active
    BY DEF EndedIsDisabled
  <1>3. \A t \in PlainTasks : t \notin WindowedTasks
    BY DEF WindowedTasks, PlainTasks
  <1>4. Collectable(site[s]) => site[s].active /\ ~site[s].ended
    BY DEF Collectable
  <1>5. ASSUME NEW task \in WindowedTasks \cap TaskTypes, NEW hours \in Ranges \ {{}},
               CreateSiteWindowRunStrict(s, task, hours)
        PROVE  \E rows : Created(s, rows)
    <2>1. Insert(run, {new(task, hours)}) /\ UNCHANGED <<site, win, fact, exec, mat>> /\ Collectable(site[s])
          /\ Overlapping(s, hours) = {}
      BY <1>5 DEF CreateSiteWindowRunStrict, CanCreate
    <2> HIDE DEF new
    <2>2. NewRows(s, site[s], {new(task, hours)}) /\ Apart({new(task, hours)})
      BY <1>1, <1>4, <2>1 DEF NewRows, Apart
    <2>3. \A r \in Run : Active(r) /\ Windowed(r) /\ run[r].site = s => run[r].hours \cap hours = {}
      BY <2>1 DEF Overlapping
    <2>4. Clear({new(task, hours)})
      BY <1>1, <2>3 DEF Clear, Windowed
    <2>5. QED
      BY <2>1, <2>2, <2>4 DEF Created
  <1>6. ASSUME NEW task \in WindowedTasks \cap TaskTypes, NEW hours \in Ranges \ {{}},
               CreateSiteWindowRunGaps(s, task, hours)
        PROVE  \E rows : Created(s, rows)
    <2> DEFINE free == uncoveredSiteWindowRanges(s, hours)
               wanted == IF task = "usage_backfill" THEN collectableUsageBackfillRanges(s, free) ELSE free
               rows == {new(task, g) : g \in Segments(wanted)}
    <2>1. Insert(run, rows) /\ UNCHANGED <<site, win, fact, exec, mat>> /\ Collectable(site[s])
      BY <1>6 DEF CreateSiteWindowRunGaps, CanCreate
    <2>2. wanted \in SUBSET Hour /\ wanted \subseteq free
      BY RangeType DEF uncoveredSiteWindowRanges, collectableUsageBackfillRanges
    <2>3. \A r \in Run : Active(r) /\ Windowed(r) /\ run[r].site = s => run[r].hours \cap free = {}
      BY DEF uncoveredSiteWindowRanges, Overlapping
    <2> HIDE DEF new, free, wanted
    <2>4. \A g \in Segments(wanted) : g \subseteq wanted
      BY <2>2, RangeType
    <2>5. \A f, g \in Segments(wanted) : f # g => f \cap g = {}
      BY <2>2, SegmentsApart
    <2>6. NewRows(s, site[s], rows)
      BY <1>1, <1>4, <2>1 DEF NewRows
    <2>7. Apart(rows)
      BY <1>1, <2>5 DEF Apart
    <2>8. Clear(rows)
      <3>1. \A r \in Run, g \in Segments(wanted) :
              Active(r) /\ Windowed(r) /\ run[r].site = s => g \cap run[r].hours = {}
        BY <2>2, <2>3, <2>4
      <3>2. QED
        BY <1>1, <3>1 DEF Clear, Windowed
    <2> HIDE DEF rows
    <2>9. QED
      BY <2>1, <2>6, <2>7, <2>8 DEF Created
  <1>7. ASSUME NEW task \in PlainTasks \cap TaskTypes, EnqueueSiteTask(s, task)
        PROVE  \E rows : Created(s, rows)
    <2>1. Insert(run, {new(task, {})}) /\ UNCHANGED <<site, win, fact, exec, mat>>
          /\ siteAllowsTask(site[s], task) /\ task \in NotQueued(s, {task})
      BY <1>7 DEF EnqueueSiteTask
    <2> HIDE DEF new
    <2>2. NewRows(s, site[s], {new(task, {})}) /\ Apart({new(task, {})})
      BY <1>1, <1>3, <2>1 DEF NewRows, Apart, siteAllowsTask
    <2>3. Clear({new(task, {})})
      BY <1>1, <1>3, <2>1 DEF Clear, NotQueued
    <2>4. QED
      BY <2>1, <2>2, <2>3 DEF Created
  <1>8. CASE QueueRefresh(s)
    <2> DEFINE queued == NotQueued(s, PlainTasks \cap TaskTypes)
               rows == {new(t, {}) : t \in queued}
    <2>1. Insert(run, rows) /\ UNCHANGED <<site, win, fact, exec, mat>> /\ site[s].active
      BY <1>8 DEF QueueRefresh
    <2>2. \A t \in queued : t \notin WindowedTasks
      BY <1>3 DEF NotQueued
    <2>3. \A t \in queued, r \in Run : Active(r) /\ run[r].site = s => run[r].task # t
      BY DEF NotQueued
    <2> HIDE DEF new, queued
    <2>4. NewRows(s, site[s], rows)
      BY <1>1, <1>2, <2>1, <2>2 DEF NewRows
    <2>5. Apart(rows)
      BY <1>1, <2>2 DEF Apart
    <2>6. Clear(rows)
      BY <1>1, <2>2, <2>3 DEF Clear
    <2> HIDE DEF rows
    <2>7. QED
      BY <2>1, <2>4, <2>5, <2>6 DEF Created
  <1>9. QED
    BY <1>5, <1>6, <1>7, <1>8 DEF Create

\* A claim starts a pending run whose task type is not running at the site; it costs
\* one attempt of the run or of the windows it takes, and touches no settled window.
Claimed(r) ==
    /\ site' = site
    /\ run[r].status = "pending" /\ ~scopeHasRunningTask(r)
    /\ run'[r].status = "running" /\ run'[r].epoch = run[r].epoch + 1
    /\ run'[r].retry \in {run[r].retry, run[r].retry + 1}
    /\ run'[r].site = run[r].site /\ run'[r].task = run[r].task
    /\ run'[r].version = run[r].version /\ run'[r].hours = run[r].hours
    /\ \A q \in Run \ {r} : run'[q] = run[q] /\ win'[q] = win[q]
    /\ \A h \in Hour : /\ win'[r][h].attempt \in {win[r][h].attempt, win[r][h].attempt + 1}
                       /\ win[r][h].status \in Terminal => win'[r][h] = win[r][h]

\* claimCandidate, for windowed and other runs.
LEMMA ClaimFrame == ASSUME TypeOK, NEW r \in Run, Claim(r) PROVE Claimed(r)
PROOF
  <1>1. run \in [Run -> RunRow] /\ run[r] \in RunRow /\ win \in [Run -> [Hour -> WindowRow]]
    BY DEF TypeOK
  <1>2. ASSUME NEW ws, NEW due, ClaimRun(r, ws, due)
        PROVE  /\ site' = site
               /\ run'[r].status = "running" /\ run'[r].epoch = run[r].epoch + 1
               /\ run'[r].retry \in {run[r].retry, run[r].retry + 1}
               /\ run'[r].site = run[r].site /\ run'[r].task = run[r].task
               /\ run'[r].version = run[r].version /\ run'[r].hours = run[r].hours
               /\ \A q \in Run \ {r} : run'[q] = run[q] /\ win'[q] = win[q]
               /\ win'[r] = ws
    BY <1>1, <1>2 DEF ClaimRun, RunRow
  <1>3. ASSUME NEW due \in SUBSET Hour, ClaimWindows(r, due) PROVE Claimed(r)
    <2> DEFINE ws == [h \in Hour |-> IF h \in due
                        THEN [status |-> "running", attempt |-> win[r][h].attempt + 1]
                        ELSE win[r][h]]
    <2>1. ClaimRun(r, ws, due) /\ run[r].status = "pending" /\ ~scopeHasRunningTask(r)
          /\ due \subseteq PendingHours(r)
      BY <1>3 DEF ClaimWindows, Candidate
    <2>2. \A h \in Hour : /\ ws[h].attempt \in {win[r][h].attempt, win[r][h].attempt + 1}
                          /\ win[r][h].status \in Terminal => ws[h] = win[r][h]
      BY <2>1 DEF PendingHours, Terminal
    <2> HIDE DEF ws
    <2>3. QED
      BY <1>2, <2>1, <2>2 DEF Claimed
  <1>4. CASE ClaimPlain(r)
    <2>1. ClaimRun(r, win[r], {}) /\ run[r].status = "pending" /\ ~scopeHasRunningTask(r)
      BY <1>4 DEF ClaimPlain, Candidate
    <2>2. QED
      BY <1>2, <2>1 DEF Claimed
  <1>5. QED
    BY <1>3, <1>4 DEF Claim

\* Every step is of one of these kinds.
LEMMA StepKinds ==
    ASSUME TypeOK, EndedIsDisabled, [Next]_vars
    PROVE  \/ EngineFrame
           \/ \E r \in Run : Claimed(r)
           \/ \E s \in Site : EndedChanged(s)
           \/ \E s \in Site : \E row, created : Fenced(s, row, created)
           \/ \E s \in Site : \E rows : Created(s, rows)
  BY EngineSteps, ClaimFrame, LifecycleFrame, CreateFrame DEF Next

\* What the fence makes of one run and its windows.
LEMMA FenceFrame ==
    ASSUME TypeOK, NEW s \in Site, NEW r \in Run
    PROVE  /\ Active(r) /\ run[r].site = s =>
                /\ FencedRuns(s)[r].status = "failed"
                /\ FencedRuns(s)[r].epoch = run[r].epoch
                /\ FencedRuns(s)[r].retry = run[r].retry
           /\ ~(Active(r) /\ run[r].site = s) => FencedRuns(s)[r] = run[r]
           /\ Kept(r, FencedWindows(s)[r])
PROOF
  <1>1. run[r] \in RunRow /\ win[r] \in [Hour -> WindowRow]
    BY DEF TypeOK
  <1>2. Active(r) /\ run[r].site = s => FencedRuns(s)[r] = SetRunStatus(run[r], "failed")
    BY DEF FencedRuns
  <1>3. \A w \in WindowRow : [w EXCEPT !.status = "failed"].attempt = w.attempt
    BY DEF WindowRow
  <1>4. Kept(r, FencedWindows(s)[r])
    BY <1>1, <1>3 DEF FencedWindows, Kept, Unfinished, Terminal
  <1>5. QED
    BY <1>1, <1>2, <1>4, SetRunStatusFrame DEF FencedRuns

\* The same after the rows of the transaction were inserted.
LEMMA FencedStep ==
    ASSUME TypeOK, NEW s \in Site, NEW row, NEW created, Fenced(s, row, created)
    PROVE  /\ site' = [site EXCEPT ![s] = row]
           /\ \A r \in Run :
                /\ \/ run'[r] = run[r] /\ ~(Active(r) /\ run[r].site = s)
                   \/ /\ run'[r].status = "failed" /\ Active(r)
                      /\ run'[r].epoch = run[r].epoch /\ run'[r].retry = run[r].retry
                   \/ run'[r] \in created /\ run[r].status = "absent"
                /\ Kept(r, win'[r])
           /\ \A q, r \in Run : (q # r /\ run'[q] \in created /\ run'[r] \in created
                                   /\ run[q].status = "absent" /\ run[r].status = "absent")
                => run'[q] # run'[r] \/ run'[q] = run[q] \/ run'[r] = run[r]
PROOF
  <1>1. site' = [site EXCEPT ![s] = row] /\ win' = FencedWindows(s) /\ Insert(FencedRuns(s), created)
    BY DEF Fenced, BumpSiteFence
  <1>2. \A r \in Run : run'[r] = FencedRuns(s)[r] \/ (run'[r] \in created /\ run[r].status = "absent")
    BY <1>1, InsertLemma
  <1>3. \A q, r \in Run : q # r => \/ run'[q] = FencedRuns(s)[q]
                                   \/ run'[r] = FencedRuns(s)[r]
                                   \/ run'[q] # run'[r]
    BY <1>1, InsertLemma
  <1>4. \A r \in Run : run[r].status = "absent" => ~Active(r)
    BY DEF Active, Unfinished
  <1>5. QED
    BY <1>1, <1>2, <1>3, <1>4, FenceFrame

\* Inserting rows for a site changes no other run.
LEMMA CreatedStep ==
    ASSUME NEW s \in Site, NEW rows, Created(s, rows)
    PROVE  /\ \A r \in Run : run'[r] = run[r] \/ (run'[r] \in rows /\ run[r].status = "absent")
           /\ \A q, r \in Run : q # r => run'[q] = run[q] \/ run'[r] = run[r] \/ run'[q] # run'[r]
  BY InsertLemma DEF Created

-----------------------------------------------------------------------------
(* The inductive invariants.                                                *)

\* Attempts stay within the number of claims.
LEMMA ClaimsBoundedStep ==
    ASSUME TypeOK, EndedIsDisabled, ClaimsBounded, [Next]_vars PROVE ClaimsBounded'
PROOF
  <1>1. \A r \in Run : /\ run[r].epoch \in Nat /\ run[r].retry \in Nat
                       /\ \A h \in Hour : win[r][h].attempt \in Nat
    BY BoundAssumption DEF TypeOK, RunRow, WindowRow
  <1>2. CASE EngineFrame
    BY <1>1, <1>2 DEF EngineFrame, ClaimsBounded
  <1>3. ASSUME NEW r \in Run, Claimed(r) PROVE ClaimsBounded'
    BY <1>1, <1>3 DEF Claimed, ClaimsBounded
  <1>4. ASSUME NEW s \in Site, EndedChanged(s) PROVE ClaimsBounded'
    BY <1>4 DEF EndedChanged, ClaimsBounded
  <1>5. ASSUME NEW s \in Site, NEW row, NEW created, Fenced(s, row, created) PROVE ClaimsBounded'
    <2>1. \A c \in created : c.epoch = 0 /\ c.retry = 0 /\ c.status # "absent"
      BY <1>5 DEF Fenced, NewRows
    <2>2. \A r \in Run, h \in Hour : win'[r][h].attempt = win[r][h].attempt
      BY <1>5, FencedStep DEF Kept
    <2>3. QED
      BY <1>1, <1>5, <2>1, <2>2, FencedStep DEF ClaimsBounded
  <1>6. ASSUME NEW s \in Site, NEW rows, Created(s, rows) PROVE ClaimsBounded'
    <2>1. \A c \in rows : c.epoch = 0 /\ c.retry = 0 /\ c.status # "absent"
      BY <1>6 DEF Created, NewRows
    <2>2. win' = win
      BY <1>6 DEF Created
    <2>3. QED
      BY <1>1, <1>6, <2>1, <2>2, CreatedStep DEF ClaimsBounded
  <1>7. QED
    BY <1>2, <1>3, <1>4, <1>5, <1>6, StepKinds

\* Only a disabled site can end its statistics, and only an open one can be enabled.
LEMMA EndedIsDisabledStep ==
    ASSUME TypeOK, EndedIsDisabled, [Next]_vars PROVE EndedIsDisabled'
PROOF
  <1>1. site \in [Site -> SiteRow]
    BY DEF TypeOK
  <1>2. CASE site' = site
    BY <1>2 DEF EndedIsDisabled
  <1>3. ASSUME NEW s \in Site, EndedChanged(s) PROVE EndedIsDisabled'
    <2>1. \A t \in Site : site'[t].active = site[t].active /\ (t # s => site'[t] = site[t])
      BY <1>1, <1>3 DEF EndedChanged, SiteRow
    <2>2. QED
      BY <1>3, <2>1 DEF EndedChanged, EndedIsDisabled
  <1>4. ASSUME NEW s \in Site, NEW row, NEW created, Fenced(s, row, created) PROVE EndedIsDisabled'
    BY <1>1, <1>4, FencedStep DEF Fenced, EndedIsDisabled
  <1>5. QED
    BY <1>2, <1>3, <1>4, StepKinds DEF EngineFrame, Claimed, Created

\* Every change of a site fences the runs it makes meaningless, and every run is created
\* where the site admits it.
LEMMA FenceStep ==
    ASSUME TypeOK, EndedIsDisabled, FenceHolds, [Next]_vars PROVE FenceHolds'
PROOF
  <1>1. site \in [Site -> SiteRow] /\ \A r \in Run : run[r].site \in Site
    BY DEF TypeOK, RunRow
  <1>2. CASE EngineFrame
    BY <1>2 DEF EngineFrame, FenceHolds, Active, Windowed
  <1>3. ASSUME NEW r \in Run, Claimed(r) PROVE FenceHolds'
    BY <1>3 DEF Claimed, FenceHolds, Active, Windowed, Unfinished
  <1>4. ASSUME NEW s \in Site, EndedChanged(s) PROVE FenceHolds'
    <2>1. \A r \in Run : Active(r) => run[r].site # s
      BY <1>4 DEF EndedChanged, FenceHolds
    <2>2. \A t \in Site \ {s} : site'[t] = site[t]
      BY <1>1, <1>4 DEF EndedChanged
    <2>3. QED
      BY <1>1, <1>4, <2>1, <2>2 DEF EndedChanged, FenceHolds, Active, Windowed
  <1>5. ASSUME NEW s \in Site, NEW row, NEW created, Fenced(s, row, created) PROVE FenceHolds'
    <2> SUFFICES ASSUME NEW r \in Run, Active(r)'
                 PROVE  LET st == site'[run'[r].site]
                        IN  /\ run'[r].version = st.version
                            /\ st.active /\ ~st.ended
                            /\ Windowed(r)' => Collectable(st)
      BY DEF FenceHolds
    <2>1. site'[s] = row /\ \A t \in Site \ {s} : site'[t] = site[t]
      BY <1>1, <1>5, FencedStep
    <2>2. run'[r].status \in Unfinished
      BY DEF Active
    <2>3. CASE run'[r] \in created
      <3>1. run'[r].status = "pending"
        BY <1>5, <2>2, <2>3 DEF Fenced, NewRows, Unfinished
      <3>2. QED
        BY <1>5, <2>1, <2>3, <3>1 DEF Fenced, NewRows, Windowed
    <2>4. CASE run'[r] \notin created
      <3>1. run'[r] = run[r] /\ ~(Active(r) /\ run[r].site = s)
        BY <1>5, <2>2, <2>4, FencedStep DEF Unfinished
      <3>2. Active(r) /\ run[r].site # s
        BY <2>2, <3>1 DEF Active
      <3>3. QED
        BY <1>1, <2>1, <3>1, <3>2 DEF FenceHolds, Windowed
    <2>5. QED
      BY <2>3, <2>4
  <1>6. ASSUME NEW s \in Site, NEW rows, Created(s, rows) PROVE FenceHolds'
    <2> SUFFICES ASSUME NEW r \in Run, Active(r)'
                 PROVE  LET st == site'[run'[r].site]
                        IN  /\ run'[r].version = st.version
                            /\ st.active /\ ~st.ended
                            /\ Windowed(r)' => Collectable(st)
      BY DEF FenceHolds
    <2>1. site' = site /\ run'[r].status \in Unfinished
      BY <1>6 DEF Active, Created
    <2>2. CASE run'[r] = run[r]
      BY <2>1, <2>2 DEF FenceHolds, Active, Windowed
    <2>3. CASE run'[r] \in rows
      <3>1. run'[r].status = "pending"
        BY <1>6, <2>1, <2>3 DEF Created, NewRows, Unfinished
      <3>2. QED
        BY <1>6, <2>1, <2>3, <3>1 DEF Created, NewRows, Windowed
    <2>4. QED
      BY <1>6, <2>2, <2>3, CreatedStep
  <1>7. QED
    BY <1>2, <1>3, <1>4, <1>5, <1>6, StepKinds

\* Whatever creates runs, the new ones stay clear of the active ones and of each other.
LEMMA OverlapStep ==
    ASSUME TypeOK, EndedIsDisabled, NoOverlap, [Next]_vars PROVE NoOverlap'
PROOF
  <1>1. CASE EngineFrame
    BY <1>1 DEF EngineFrame, NoOverlap, Active, Windowed
  <1>2. ASSUME NEW r \in Run, Claimed(r) PROVE NoOverlap'
    BY <1>2 DEF Claimed, NoOverlap, Active, Windowed, Unfinished
  <1>3. ASSUME NEW s \in Site, EndedChanged(s) PROVE NoOverlap'
    BY <1>3 DEF EndedChanged, NoOverlap, Active, Windowed
  <1>4. ASSUME NEW s \in Site, NEW row, NEW created, Fenced(s, row, created) PROVE NoOverlap'
    <2> SUFFICES ASSUME NEW q \in Run, NEW r \in Run, q # r, Active(q)', Active(r)',
                        run'[q].site = run'[r].site
                 PROVE  /\ Windowed(q)' /\ Windowed(r)' => run'[q].hours \cap run'[r].hours = {}
                        /\ ~Windowed(q)' => run'[q].task # run'[r].task
      BY DEF NoOverlap
    <2>1. ASSUME NEW p \in Run, Active(p)'
          PROVE  \/ run'[p] \in created /\ run[p].status = "absent" /\ run'[p].site = s
                                        /\ run'[p] # run[p]
                 \/ run'[p] = run[p] /\ Active(p) /\ run[p].site # s
      <3>1. run'[p].status \in Unfinished
        BY <2>1 DEF Active
      <3>2. \A c \in created : c.site = s
        BY <1>4 DEF Fenced, NewRows
      <3>3. QED
        BY <1>4, <3>1, <3>2, FencedStep DEF Active, Unfinished
    <2>2. CASE run'[q] = run[q] /\ Active(q) /\ run[q].site # s
      BY <2>1, <2>2 DEF NoOverlap, Windowed
    <2>3. CASE run'[q] \in created /\ run[q].status = "absent" /\ run'[q].site = s /\ run'[q] # run[q]
      <3>1. run'[r] \in created /\ run[r].status = "absent" /\ run'[r] # run[r]
        BY <2>1, <2>3
      <3>2. run'[q] # run'[r]
        BY <1>4, <2>3, <3>1, FencedStep
      <3>3. QED
        BY <1>4, <2>3, <3>1, <3>2 DEF Fenced, Apart, Windowed
    <2>4. QED
      BY <2>1, <2>2, <2>3
  <1>5. ASSUME NEW s \in Site, NEW rows, Created(s, rows) PROVE NoOverlap'
    <2> SUFFICES ASSUME NEW q \in Run, NEW r \in Run, q # r, Active(q)', Active(r)',
                        run'[q].site = run'[r].site
                 PROVE  /\ Windowed(q)' /\ Windowed(r)' => run'[q].hours \cap run'[r].hours = {}
                        /\ ~Windowed(q)' => run'[q].task # run'[r].task
      BY DEF NoOverlap
    <2>1. ASSUME NEW p \in Run, Active(p)'
          PROVE  \/ run'[p] \in rows /\ run'[p] # run[p] /\ run'[p].site = s
                 \/ run'[p] = run[p] /\ Active(p)
      <3>1. \A c \in rows : c.site = s
        BY <1>5 DEF Created, NewRows
      <3>2. QED
        BY <1>5, <2>1, <3>1, CreatedStep DEF Active
    <2>2. CASE run'[q] = run[q] /\ run'[r] = run[r]
      BY <2>1, <2>2 DEF NoOverlap, Windowed, Active
    <2>3. CASE run'[q] # run[q] /\ run'[r] # run[r]
      <3>1. run'[q] \in rows /\ run'[r] \in rows /\ run'[q] # run'[r]
        BY <1>5, <2>1, <2>3, CreatedStep
      <3>2. QED
        BY <1>5, <3>1 DEF Created, Apart, Windowed
    <2>4. CASE run'[q] # run[q] /\ run'[r] = run[r]
      BY <1>5, <2>1, <2>4 DEF Created, Clear, Windowed
    <2>5. CASE run'[q] = run[q] /\ run'[r] # run[r]
      BY <1>5, <2>1, <2>5 DEF Created, Clear, Windowed
    <2>6. QED
      BY <2>2, <2>3, <2>4, <2>5
  <1>6. QED
    BY <1>1, <1>2, <1>3, <1>4, <1>5, StepKinds

\* Only a claim starts a run, and it looks for a running task of its type first.
LEMMA OneRunningStep ==
    ASSUME TypeOK, EndedIsDisabled, OneRunningPerTask, [Next]_vars PROVE OneRunningPerTask'
PROOF
  <1>1. CASE \A r \in Run : run'[r].status = "running" =>
               run[r].status = "running" /\ run'[r].site = run[r].site /\ run'[r].task = run[r].task
    BY <1>1 DEF OneRunningPerTask
  <1>2. ASSUME NEW r \in Run, Claimed(r) PROVE OneRunningPerTask'
    BY <1>2 DEF Claimed, OneRunningPerTask, scopeHasRunningTask
  <1>3. CASE EngineFrame
    BY <1>1, <1>3 DEF EngineFrame
  <1>4. ASSUME NEW s \in Site, EndedChanged(s) PROVE OneRunningPerTask'
    BY <1>1, <1>4 DEF EndedChanged
  <1>5. ASSUME NEW s \in Site, NEW row, NEW created, Fenced(s, row, created) PROVE OneRunningPerTask'
    <2>1. \A c \in created : c.status # "running"
      BY <1>5 DEF Fenced, NewRows
    <2>2. QED
      BY <1>1, <1>5, <2>1, FencedStep
  <1>6. ASSUME NEW s \in Site, NEW rows, Created(s, rows) PROVE OneRunningPerTask'
    <2>1. \A c \in rows : c.status # "running"
      BY <1>6 DEF Created, NewRows
    <2>2. QED
      BY <1>1, <1>6, <2>1, CreatedStep
  <1>7. QED
    BY <1>2, <1>3, <1>4, <1>5, <1>6, StepKinds

\* Every step keeps the types: the claims count on ClaimsBounded.
LEMMA TypeStep == ASSUME TypeOK, ClaimsBounded, [Next]_vars PROVE TypeOK'
PROOF
  <1>1. CASE \E s \in Site : Lifecycle(s) \/ Create(s)
    BY <1>1, LifecycleType, CreateType
  <1>2. ASSUME NEW r \in Run, Materialize(r) \/ Claim(r) PROVE TypeOK'
    BY <1>2, MaterializeType, ClaimType
  <1>3. ASSUME NEW r \in Run, Recover(r) PROVE TypeOK'
    <2>1. CASE RecoverRun(r) \/ LeaseExpires(r)
      BY <2>1, RecoverType
    <2>2. CASE ClaimFatal(r)
      BY <2>2, ProcessType DEF ClaimFatal
    <2>3. QED
      BY <1>3, <2>1, <2>2 DEF Recover
  <1>4. ASSUME NEW r \in Run, NEW e \in 1 .. MaxClaims, Execute(r, e) PROVE TypeOK'
    BY <1>4, ExecuteType
  <1>5. CASE Crash \/ Restart \/ Ready
    BY <1>5, ProcessType DEF Crash
  <1>6. CASE UNCHANGED vars
    BY <1>6 DEF vars, TypeOK
  <1>7. QED
    BY <1>1, <1>2, <1>3, <1>4, <1>5, <1>6 DEF Next

\* The invariant that is inductive: the safety properties and what their steps need.
IInv ==
    /\ TypeOK
    /\ ClaimsBounded
    /\ EndedIsDisabled
    /\ FenceHolds
    /\ NoOverlap
    /\ OneRunningPerTask

\* Nothing is queued at the start.
LEMMA InitIInv == Init => IInv
PROOF
  <1> SUFFICES ASSUME Init PROVE IInv
    OBVIOUS
  <1>1. TypeOK
    BY TypeInit
  <1>2. \A r \in Run : run[r].status = "absent" /\ run[r].epoch = 0 /\ run[r].retry = 0
    BY DEF Init, NewSiteCollectionRun
  <1>3. \A r \in Run, h \in Hour : win[r][h].attempt = 0
    BY DEF Init, NoWindow
  <1>4. ClaimsBounded
    BY <1>2, <1>3 DEF ClaimsBounded
  <1>5. EndedIsDisabled
    BY DEF Init, RestingSite, EndedIsDisabled
  <1>6. FenceHolds /\ NoOverlap /\ OneRunningPerTask
    BY <1>2 DEF FenceHolds, NoOverlap, OneRunningPerTask, Active, Unfinished
  <1>7. QED
    BY <1>1, <1>4, <1>5, <1>6 DEF IInv

\* Every behaviour of the task engine and of its sites keeps the inductive invariant.
THEOREM Invariance == Spec => []IInv
PROOF
  <1>1. Init => IInv
    BY InitIInv
  <1>2. IInv /\ [Next]_vars => IInv'
    BY TypeStep, ClaimsBoundedStep, EndedIsDisabledStep, FenceStep, OverlapStep, OneRunningStep DEF IInv
  <1>3. QED
    BY <1>1, <1>2, PTL DEF Spec

\* The tables and the executions always have their declared shape: in particular a run
\* never spends more attempts than it has claims.
THEOREM TypeCorrect == Spec => []TypeOK
PROOF
  <1>1. IInv => TypeOK
    BY DEF IInv
  <1>2. QED
    BY <1>1, Invariance, PTL

\* No run outlives the configuration it was created under, and no windowed run the
\* authorization and capabilities of its site (BumpSiteFence and its callers).
THEOREM FenceCorrect == Spec => []FenceHolds
PROOF
  <1>1. IInv => FenceHolds
    BY DEF IInv
  <1>2. QED
    BY <1>1, Invariance, PTL

\* No hour of a site is ever queued twice, by whatever interleaving of scheduler, probe
\* recovery, administrator and API (CreateSiteWindowRun, uncoveredSiteWindowRanges).
THEOREM OverlapFree == Spec => []NoOverlap
PROOF
  <1>1. IInv => NoOverlap
    BY DEF IInv
  <1>2. QED
    BY <1>1, Invariance, PTL

\* No claim ever starts a second run of a task type at a site (scopeHasRunningTask).
THEOREM ScopeExclusive == Spec => []OneRunningPerTask
PROOF
  <1>1. IInv => OneRunningPerTask
    BY DEF IInv
  <1>2. QED
    BY <1>1, Invariance, PTL

\* No step reopens a finished run or a settled window: late commits, releases, recoveries
\* and fences included.
THEOREM TerminalStaysFrozen == Spec => TerminalFrozen
PROOF
  <1> DEFINE Frozen == \A r \in Run :
        /\ run[r].status \in Terminal => run'[r] = run[r]
        /\ \A h \in Hour : win[r][h].status \in Terminal => win'[r][h] = win[r][h]
  <1>1. ASSUME TypeOK, EndedIsDisabled, [Next]_vars PROVE Frozen
    <2>1. CASE EngineFrame
      BY <2>1 DEF EngineFrame
    <2>2. ASSUME NEW r \in Run, Claimed(r) PROVE Frozen
      BY <2>2 DEF Claimed, Terminal
    <2>3. ASSUME NEW s \in Site, EndedChanged(s) PROVE Frozen
      BY <2>3 DEF EndedChanged
    <2>4. ASSUME NEW s \in Site, NEW row, NEW created, Fenced(s, row, created) PROVE Frozen
      <3>1. \A r \in Run, h \in Hour : win[r][h].status \in Terminal => win'[r][h] = win[r][h]
        BY <1>1, <2>4, FencedStep DEF Kept
      <3>2. \A r \in Run : run[r].status \in Terminal => ~Active(r) /\ run[r].status # "absent"
        BY DEF Active, Unfinished, Terminal
      <3>3. \A r \in Run : run[r].status \in Terminal => run'[r] = run[r]
        BY <1>1, <2>4, <3>2, FencedStep
      <3>4. QED
        BY <3>1, <3>3
    <2>5. ASSUME NEW s \in Site, NEW rows, Created(s, rows) PROVE Frozen
      <3>1. win' = win
        BY <2>5 DEF Created
      <3>2. \A r \in Run : run[r].status \in Terminal => run'[r] = run[r]
        BY <2>5, CreatedStep DEF Terminal
      <3>3. QED
        BY <3>1, <3>2
    <2>6. QED
      BY <1>1, <2>1, <2>2, <2>3, <2>4, <2>5, StepKinds
  <1>2. IInv /\ [Next]_vars => [Frozen]_vars
    BY <1>1 DEF IInv
  <1>3. QED
    BY <1>2, Invariance, PTL DEF Spec, TerminalFrozen

-----------------------------------------------------------------------------
(* Windows, claims and facts, on top of the invariant above.                *)
-----------------------------------------------------------------------------
(* The invariant, by run.                                                   *)

\* Windows belong to hours of a windowed run, and a free id has neither windows nor a
\* materialization; a run without windows needs none, and only a materialized run is claimed
\* or succeeds.
RowsFit(r) ==
    /\ \A h \in Hour : win[r][h].status # "absent" =>
         Windowed(r) /\ h \in run[r].hours /\ run[r].status # "absent"
    /\ mat[r].on => run[r].status # "absent"
    /\ run[r].initialized \/ Windowed(r)
    /\ run[r].status \in {"running", "success"} => run[r].initialized
    /\ run[r].status = "running" => run[r].epoch \in 1 .. MaxClaims

\* A live execution works for the run that is there, under the version the run was
\* created with, and commits only windows it still has to settle.
\* Commits in parallel and time slices are for different runs.
ExecutionsFit(r) ==
    \A e \in 1 .. MaxClaims :
        /\ exec[r][e].inflight \subseteq exec[r][e].todo
        /\ exec[r][e].phase \in {"none", "done"} => exec[r][e].todo = {}
        /\ exec[r][e].phase \notin {"none", "done"} =>
             run[r].status # "absent" /\ exec[r][e].version = run[r].version
        /\ exec[r][e].inflight # {} => run[r].initial
        /\ exec[r][e].phase = "yield" => ~run[r].initial

\* MaterializationStable of one run.
Stable(r) ==
    (run[r].status = "pending" /\ ~run[r].initialized) =>
        /\ mat[r].on => mat[r].hours = expectedSiteRunWindowHours(r)
        /\ Materialized(r) = PendingHours(r)
        /\ Materialized(r) \subseteq expectedSiteRunWindowHours(r)

\* ParentMatchesWindows of one run.
ParentFits(r) ==
    (run[r].initialized /\ Windowed(r)) =>
        /\ run[r].status = "pending" => RunningHours(r) = {} /\ PendingHours(r) # {}
        /\ (run[r].status = "running" /\ ~run[r].initial) => RunningHours(r) # {}
        /\ run[r].status \in Terminal => RunningHours(r) \cup PendingHours(r) = {}
        /\ run[r].status = "success" => \A h \in Hour : win[r][h].status # "failed"

\* OwnerHoldsItsWindows of one run.
OwnerHolds(r) ==
    (run[r].status = "running" /\ Windowed(r)) =>
        LET x == exec[r][run[r].epoch]
        IN  x.phase \in {"exec", "yield", "ending"} =>
              /\ x.todo = RunningHours(r)
              /\ \A h \in x.todo : win[r][h].attempt = x.attempt[h]

\* The hours the materialization of a run left out and the ones its windows settled are
\* collected.
Covered(r) ==
    Windowed(r) =>
        /\ run[r].initialized => \A h \in run[r].hours :
             win[r][h].status = "absent" => fact[run[r].site][h] > 0
        /\ \A h \in Hour : win[r][h].status = "success" => fact[run[r].site][h] > 0

\* That is so while the run is active: no other active run covers its hours.
Accounted(r) == Active(r) => Covered(r)

\* All of it, of one run.
RunFits(r) ==
    RowsFit(r) /\ ExecutionsFit(r) /\ Stable(r) /\ ParentFits(r) /\ OwnerHolds(r) /\ Accounted(r)

\* What a step shows of one run: the invariant holds again, and if the run has succeeded its
\* hours are accounted for.
FitsAfter(r) ==
    /\ RunFits(r)'
    /\ run[r].status # "success" /\ run'[r].status = "success" => Covered(r)'

\* The inductive invariant.
WInv == IInv /\ \A r \in Run : RunFits(r)
-----------------------------------------------------------------------------
(* Runs a step leaves alone.                                                *)

\* What the invariant says of a run's identity and place in its life.
SameRow(q) ==
    /\ run'[q].status = run[q].status /\ run'[q].site = run[q].site /\ run'[q].task = run[q].task
    /\ run'[q].version = run[q].version /\ run'[q].hours = run[q].hours /\ run'[q].epoch = run[q].epoch
    /\ run'[q].initial = run[q].initial /\ run'[q].initialized = run[q].initialized

\* The facts of the hours an active windowed run covers stay as they are.
FactsKept(q) ==
    (Active(q) /\ Windowed(q)) =>
        \A h \in run[q].hours : fact'[run[q].site][h] = fact[run[q].site][h]

\* The state of the invariant has its types.
LEMMA Typed ==
    ASSUME TypeOK, NEW q \in Run
    PROVE  /\ run \in [Run -> RunRow] /\ run[q] \in RunRow
           /\ win \in [Run -> [Hour -> WindowRow]] /\ win[q] \in [Hour -> WindowRow]
           /\ exec \in [Run -> [1 .. MaxClaims -> Execution]] /\ exec[q] \in [1 .. MaxClaims -> Execution]
           /\ mat \in [Run -> Materialization] /\ mat[q] \in Materialization
           /\ run[q].site \in Site /\ fact \in [Site -> [Hour -> 0 .. MaxVersion]]
  BY DEF TypeOK, RunRow

\* A run whose rows, windows, materialization, executions and facts do not change.
LEMMA SameRun ==
    ASSUME NEW q \in Run, RunFits(q), SameRow(q), FactsKept(q),
           win'[q] = win[q], mat'[q] = mat[q], exec'[q] = exec[q]
    PROVE  FitsAfter(q)
PROOF
  <1>1. RowsFit(q)'
    BY DEF RunFits, RowsFit, SameRow, Windowed
  <1>2. ExecutionsFit(q)'
    BY DEF RunFits, ExecutionsFit, SameRow
  <1>3. Stable(q)'
    <2>1. SUFFICES ASSUME run'[q].status = "pending", ~run'[q].initialized
                   PROVE  /\ mat'[q].on => mat'[q].hours = expectedSiteRunWindowHours(q)'
                          /\ Materialized(q)' = PendingHours(q)'
                          /\ Materialized(q)' \subseteq expectedSiteRunWindowHours(q)'
      BY DEF Stable
    <2>2. expectedSiteRunWindowHours(q)' = expectedSiteRunWindowHours(q)
      BY <2>1 DEF expectedSiteRunWindowHours, FactsKept, SameRow, Active, Windowed, Unfinished, WindowedTasks
    <2>3. Materialized(q)' = Materialized(q) /\ PendingHours(q)' = PendingHours(q)
      BY DEF Materialized, PendingHours
    <2>4. QED
      BY <2>1, <2>2, <2>3 DEF RunFits, Stable, SameRow
  <1>4. ParentFits(q)'
    BY DEF RunFits, ParentFits, SameRow, Windowed, RunningHours, PendingHours
  <1>5. OwnerHolds(q)'
    BY DEF RunFits, OwnerHolds, SameRow, Windowed, RunningHours
  <1>6. Accounted(q)'
    <2>1. SUFFICES ASSUME Active(q)', Windowed(q)'
                   PROVE  /\ run'[q].initialized => \A h \in run'[q].hours :
                               win'[q][h].status = "absent" => fact'[run'[q].site][h] > 0
                          /\ \A h \in Hour : win'[q][h].status = "success" => fact'[run'[q].site][h] > 0
      BY DEF Accounted, Covered
    <2>2. Active(q) /\ Windowed(q)
      BY <2>1 DEF Active, Windowed, SameRow
    <2>3. \A h \in Hour : win[q][h].status = "success" => h \in run[q].hours
      BY DEF RunFits, RowsFit
    <2>4. QED
      BY <2>2, <2>3 DEF RunFits, Accounted, Covered, FactsKept, SameRow
  <1>7. QED
    BY <1>1, <1>2, <1>3, <1>4, <1>5, <1>6 DEF RunFits, FitsAfter, SameRow

\* A step on one run.
LEMMA OtherRuns ==
    ASSUME WInv, NEW r \in Run, FitsAfter(r),
           \A q \in Run \ {r} : /\ run'[q] = run[q] /\ win'[q] = win[q] /\ mat'[q] = mat[q]
                                 /\ exec'[q] = exec[q] /\ FactsKept(q)
    PROVE  \A q \in Run : FitsAfter(q)
PROOF
  <1>1. ASSUME NEW q \in Run \ {r} PROVE FitsAfter(q)
    <2>1. SameRow(q)
      BY DEF SameRow
    <2>2. QED
      BY <2>1, SameRun DEF WInv
  <1>2. QED
    BY <1>1

\* A window that is running belongs to its run alone: a fact written for it is of no
\* concern to the other runs of the site.
LEMMA FactOfOne ==
    ASSUME WInv, NEW r \in Run, NEW h \in Hour, run[r].status = "running", win[r][h].status = "running",
           \A s \in Site, g \in Hour : fact'[s][g] # fact[s][g] => s = run[r].site /\ g = h
    PROVE  \A q \in Run \ {r} : FactsKept(q)
PROOF
  <1>1. Active(r) /\ Windowed(r) /\ h \in run[r].hours
    BY DEF WInv, RunFits, RowsFit, Active, Unfinished
  <1>2. ASSUME NEW q \in Run \ {r}, Active(q), Windowed(q), NEW g \in run[q].hours
        PROVE  fact'[run[q].site][g] = fact[run[q].site][g]
    <2>1. run[q].site \in Site /\ g \in Hour
      BY <1>2 DEF WInv, IInv, TypeOK, RunRow
    <2>2. run[q].site = run[r].site => run[q].hours \cap run[r].hours = {}
      BY <1>1, <1>2 DEF WInv, IInv, NoOverlap
    <2>3. QED
      BY <1>1, <1>2, <2>1, <2>2
  <1>3. QED
    BY <1>2 DEF FactsKept

-----------------------------------------------------------------------------
(* Steps of one run, by what they do to it.                                 *)

\* A step of an execution that writes no table: it may give up what it does not own, and
\* keeps what it still owns.
LEMMA ExecutionOnly ==
    ASSUME WInv, NEW r \in Run, NEW e \in 1 .. MaxClaims, NEW x,
           exec' = [exec EXCEPT ![r][e] = x], UNCHANGED <<site, run, win, fact, mat>>,
           x.inflight \subseteq x.todo,
           x.phase \in {"none", "done"} => x.todo = {},
           x.inflight # {} => run[r].initial, x.phase = "yield" => ~run[r].initial,
           x.phase \notin {"none", "done"} =>
             exec[r][e].phase \notin {"none", "done"} /\ x.version = exec[r][e].version,
           (Owns(r, e) /\ Windowed(r) /\ x.phase \in {"exec", "yield", "ending"}) =>
             /\ exec[r][e].phase \in {"exec", "yield", "ending"}
             /\ x.todo = exec[r][e].todo /\ x.attempt = exec[r][e].attempt
    PROVE  \A q \in Run : FitsAfter(q)
PROOF
  <1>1. exec \in [Run -> [1 .. MaxClaims -> Execution]] /\ RunFits(r)
    BY DEF WInv, IInv, TypeOK
  <1>2. /\ exec'[r][e] = x
        /\ \A d \in 1 .. MaxClaims \ {e} : exec'[r][d] = exec[r][d]
        /\ \A q \in Run \ {r} : exec'[q] = exec[q]
    BY <1>1
  <1>3. RowsFit(r)' /\ Stable(r)' /\ ParentFits(r)' /\ Accounted(r)'
    BY <1>1 DEF RunFits, RowsFit, Stable, ParentFits, Accounted, Covered, Windowed, Active, Materialized,
                PendingHours, RunningHours, expectedSiteRunWindowHours
  <1>4. ExecutionsFit(r)'
    BY <1>1, <1>2 DEF RunFits, ExecutionsFit
  <1>5. OwnerHolds(r)'
    <2>1. SUFFICES ASSUME run[r].status = "running", Windowed(r),
                          exec'[r][run[r].epoch].phase \in {"exec", "yield", "ending"}
                   PROVE  /\ exec'[r][run[r].epoch].todo = RunningHours(r)
                          /\ \A h \in exec'[r][run[r].epoch].todo :
                               win[r][h].attempt = exec'[r][run[r].epoch].attempt[h]
      BY DEF OwnerHolds, Windowed, RunningHours
    <2>2. run[r].epoch \in 1 .. MaxClaims
      BY <1>1, <2>1 DEF RunFits, RowsFit
    <2>3. CASE run[r].epoch = e
      BY <1>1, <1>2, <2>1, <2>3 DEF RunFits, OwnerHolds, Owns
    <2>4. CASE run[r].epoch # e
      BY <1>1, <1>2, <2>1, <2>2, <2>4 DEF RunFits, OwnerHolds
    <2>5. QED
      BY <2>3, <2>4
  <1>6. \A q \in Run : FactsKept(q)
    BY DEF FactsKept
  <1>7. QED
    BY <1>1, <1>2, <1>3, <1>4, <1>5, <1>6, OtherRuns DEF RunFits, FitsAfter

\* A heartbeat that is renewed or grows old.
LEMMA HeartbeatOnly ==
    ASSUME WInv, NEW r \in Run, NEW beat, run' = [run EXCEPT ![r].heartbeat = beat],
           UNCHANGED <<win, fact, exec, mat>>
    PROVE  \A q \in Run : FitsAfter(q)
PROOF
  <1>1. run \in [Run -> RunRow]
    BY DEF WInv, IInv, TypeOK
  <1>2. \A q \in Run : SameRow(q)
    BY <1>1 DEF SameRow, RunRow
  <1>3. \A q \in Run : FactsKept(q)
    BY DEF FactsKept
  <1>4. QED
    BY <1>2, <1>3, SameRun DEF WInv

\* The materializer begins or gives up.
LEMMA MaterializationOnly ==
    ASSUME WInv, NEW r \in Run, NEW m, mat' = [mat EXCEPT ![r] = m],
           UNCHANGED <<run, win, fact, exec>>,
           m.on => run[r].status # "absent" /\ m.hours = expectedSiteRunWindowHours(r)
    PROVE  \A q \in Run : FitsAfter(q)
PROOF
  <1>1. mat \in [Run -> Materialization] /\ RunFits(r)
    BY DEF WInv, IInv, TypeOK
  <1>2. mat'[r] = m /\ \A q \in Run \ {r} : mat'[q] = mat[q]
    BY <1>1
  <1>3. expectedSiteRunWindowHours(r)' = expectedSiteRunWindowHours(r)
    BY DEF expectedSiteRunWindowHours
  <1>4. Stable(r)'
    BY <1>1, <1>2, <1>3 DEF RunFits, Stable, Materialized, PendingHours
  <1>5. RowsFit(r)' /\ ExecutionsFit(r)' /\ ParentFits(r)' /\ OwnerHolds(r)' /\ Accounted(r)'
    BY <1>1, <1>2 DEF RunFits, RowsFit, ExecutionsFit, ParentFits, OwnerHolds, Accounted, Covered, Windowed,
                      Active, PendingHours, RunningHours
  <1>6. \A q \in Run : FactsKept(q)
    BY DEF FactsKept
  <1>7. QED
    BY <1>2, <1>4, <1>5, <1>6, OtherRuns DEF RunFits, FitsAfter

\* What a recount of the windows ws gives: the parent's part of the invariant.
Recounted(r, status, ws) ==
    /\ status \in RunStatus \ {"absent"}
    /\ status = "pending" => /\ \A h \in Hour : ws[h].status # "running"
                             /\ \E h \in Hour : ws[h].status = "pending"
    /\ (status = "running" /\ ~run[r].initial) => \E h \in Hour : ws[h].status = "running"
    /\ status \in Terminal => \A h \in Hour : ws[h].status \notin {"running", "pending"}
    /\ status = "success" => \A h \in Hour : ws[h].status # "failed"

\* The plain recount, and the one of an initial backfill with its older view: it may miss
\* that nothing is running any more, and errs in no other way.
LEMMA RecountLemma ==
    ASSUME NEW r \in Run, NEW ws
    PROVE  /\ Recounted(r, RunStatusOf(ws), ws)
           /\ \A view \in SUBSET Hour, h \in Hour :
                ws \in [Hour -> WindowRow] /\ run[r].initial => Recounted(r, RunStatusSeen(ws, view, h), ws)
PROOF
  <1>1. Recounted(r, RunStatusOf(ws), ws)
    BY DEF Recounted, RunStatusOf, RunStatus, Terminal
  <1>2. ASSUME NEW view \in SUBSET Hour, NEW h \in Hour, ws \in [Hour -> WindowRow], run[r].initial
        PROVE  Recounted(r, RunStatusSeen(ws, view, h), ws)
    <2> DEFINE seen == [g \in Hour |-> IF g \in view \ {h} THEN [ws[g] EXCEPT !.status = "running"] ELSE ws[g]]
    <2>1. CASE view \ {h} = {}
      <3>1. seen = ws
        BY <1>2, <2>1
      <3>2. QED
        BY <1>1, <3>1 DEF RunStatusSeen
    <2>2. CASE view \ {h} # {}
      <3>1. PICK g \in view \ {h} : TRUE
        BY <2>2
      <3>2. seen[g].status = "running"
        BY <1>2, <3>1 DEF WindowRow
      <3>3. RunStatusOf(seen) = "running"
        BY <3>1, <3>2 DEF RunStatusOf
      <3>4. QED
        BY <1>2, <3>3 DEF RunStatusSeen, Recounted, RunStatus, Terminal
    <2>3. QED
      BY <2>1, <2>2
  <1>3. QED
    BY <1>1, <1>2

\* The owner settles a window, or puts it back, and recounts its run.
LEMMA SettleOne ==
    ASSUME WInv, NEW r \in Run, NEW e \in 1 .. MaxClaims, NEW h \in Hour, NEW x,
           NEW outcome \in {"success", "pending", "failed"}, NEW status,
           Owns(r, e), WindowMatches(r, e, h), h \in exec[r][e].todo,
           win' = [win EXCEPT ![r] = SettleWindow(r, h, outcome)],
           run' = [run EXCEPT ![r] = SetRunStatus(run[r], status)],
           Recounted(r, status, SettleWindow(r, h, outcome)),
           \A s \in Site, g \in Hour : fact'[s][g] # fact[s][g] => s = run[r].site /\ g = h,
           outcome = "success" => fact'[run[r].site][h] > 0,
           exec' = [exec EXCEPT ![r][e] = x], mat' = mat,
           x.phase = exec[r][e].phase, x.version = exec[r][e].version, x.attempt = exec[r][e].attempt,
           x.todo = exec[r][e].todo \ {h}, x.inflight \subseteq x.todo,
           x.inflight \subseteq exec[r][e].inflight
    PROVE  \A q \in Run : FitsAfter(q)
PROOF
  <1>1. /\ run \in [Run -> RunRow] /\ run[r] \in RunRow /\ win \in [Run -> [Hour -> WindowRow]]
        /\ win[r] \in [Hour -> WindowRow] /\ exec \in [Run -> [1 .. MaxClaims -> Execution]]
        /\ run[r].site \in Site /\ RunFits(r)
    BY DEF WInv, IInv, TypeOK, RunRow
  <1>2. /\ run[r].status = "running" /\ run[r].epoch = e /\ win[r][h].status = "running"
        /\ Windowed(r) /\ h \in run[r].hours /\ run[r].initialized /\ Active(r)
        /\ exec[r][e].phase \in {"exec", "yield", "ending"}
    <2>1. exec[r][e].phase \notin {"none", "done"}
      BY <1>1 DEF RunFits, ExecutionsFit
    <2>2. exec[r][e] \in Execution
      BY ExecutionUpdates DEF WInv, IInv
    <2>3. exec[r][e].phase \in {"exec", "yield", "ending"}
      BY <2>1, <2>2 DEF Execution
    <2>4. run[r].status = "running" /\ run[r].epoch = e /\ win[r][h].status = "running" /\ Active(r)
      BY DEF Owns, WindowMatches, Active, Unfinished
    <2>5. RowsFit(r)
      BY <1>1 DEF RunFits
    <2>6. Windowed(r) /\ h \in run[r].hours /\ run[r].initialized
      BY <2>4, <2>5 DEF RowsFit
    <2>7. QED
      BY <2>3, <2>4, <2>6
  <1>3. /\ win'[r][h].status = outcome
        /\ \A g \in Hour : win'[r][g].attempt = win[r][g].attempt
        /\ \A g \in Hour \ {h} : win'[r][g] = win[r][g]
        /\ win'[r] = SettleWindow(r, h, outcome)
    BY <1>1 DEF SettleWindow, WindowRow
  <1>4. /\ run'[r].status = status /\ status \in RunStatus \ {"absent"}
        /\ run'[r].site = run[r].site /\ run'[r].task = run[r].task /\ run'[r].version = run[r].version
        /\ run'[r].hours = run[r].hours /\ run'[r].epoch = run[r].epoch
        /\ run'[r].initial = run[r].initial /\ run'[r].initialized = run[r].initialized
    BY <1>1 DEF SetRunStatus, RunRow, Recounted
  <1>5. /\ exec'[r][e] = x
        /\ \A d \in 1 .. MaxClaims \ {e} : exec'[r][d] = exec[r][d]
        /\ \A q \in Run \ {r} : exec'[q] = exec[q] /\ run'[q] = run[q] /\ win'[q] = win[q]
    BY <1>1
  <1>6. RowsFit(r)'
    <2>1. Windowed(r)' /\ run'[r].initialized /\ run'[r].status # "absent" /\ mat'[r] = mat[r]
      BY <1>2, <1>4 DEF Windowed
    <2>2. \A g \in Hour : win[r][g].status # "absent" => g \in run[r].hours
      BY <1>1 DEF RunFits, RowsFit
    <2>3. \A g \in Hour : win'[r][g].status # "absent" => g \in run'[r].hours
      BY <1>2, <1>3, <1>4, <2>2
    <2>4. run'[r].epoch \in 1 .. MaxClaims
      BY <1>2, <1>4
    <2>5. QED
      BY <2>1, <2>3, <2>4 DEF RowsFit
  <1>7. ExecutionsFit(r)'
    BY <1>1, <1>4, <1>5 DEF RunFits, ExecutionsFit
  <1>8. Stable(r)'
    BY <1>2, <1>4 DEF Stable
  <1>9. ParentFits(r)'
    BY <1>3, <1>4 DEF ParentFits, Recounted, RunningHours, PendingHours
  <1>10. OwnerHolds(r)'
    <2>1. exec[r][e].todo = RunningHours(r) /\ \A g \in exec[r][e].todo : win[r][g].attempt = exec[r][e].attempt[g]
      BY <1>1, <1>2 DEF RunFits, OwnerHolds
    <2>2. RunningHours(r)' = RunningHours(r) \ {h}
      BY <1>2, <1>3 DEF RunningHours
    <2>3. \A g \in x.todo : g \in Hour /\ g \in exec[r][e].todo
      BY <2>1 DEF RunningHours
    <2>4. QED
      BY <1>2, <1>3, <1>4, <1>5, <2>1, <2>2, <2>3 DEF OwnerHolds
  <1>11. Covered(r)'
    <2>1. \A g \in Hour \ {h} : fact'[run[r].site][g] = fact[run[r].site][g]
      BY <1>1
    <2>2. run[r].hours \subseteq Hour
      BY <1>1 DEF RunRow
    <2>3. Accounted(r)
      BY <1>1 DEF RunFits
    <2>4. /\ \A g \in run[r].hours : win[r][g].status = "absent" => fact[run[r].site][g] > 0
          /\ \A g \in Hour : win[r][g].status = "success" => fact[run[r].site][g] > 0
      BY <1>2, <2>3 DEF Accounted, Covered
    <2>5. \A g \in run[r].hours : win'[r][g].status = "absent" => fact'[run[r].site][g] > 0
      BY <1>3, <2>1, <2>2, <2>4
    <2>6. \A g \in Hour : win'[r][g].status = "success" => fact'[run[r].site][g] > 0
      BY <1>3, <2>1, <2>4
    <2>7. QED
      BY <1>4, <2>5, <2>6 DEF Covered
  <1>12. \A q \in Run \ {r} : FactsKept(q)
    BY <1>2, FactOfOne
  <1>13. QED
    BY <1>5, <1>6, <1>7, <1>8, <1>9, <1>10, <1>11, <1>12, OtherRuns DEF RunFits, FitsAfter, Accounted

\* A released or recovered run: its running windows are put back or fail, and it is
\* recounted; the execution that releases it is over.
LEMMA RequeueOne ==
    ASSUME WInv, NEW r \in Run, NEW status, run[r].status = "running",
           \/ win' = [win EXCEPT ![r] = RequeueRunning(r)]
           \/ ~Windowed(r) /\ win' = win,
           run' = [run EXCEPT ![r] = SetRunStatus(run[r], status)],
           status \in RunStatus \ {"absent", "running"},
           Windowed(r) => status = RunStatusOf(RequeueRunning(r)),
           UNCHANGED <<fact, mat>>,
           \/ exec' = exec
           \/ \E e \in 1 .. MaxClaims : exec' = [exec EXCEPT ![r][e] = [NoExecution EXCEPT !.phase = "done"]]
    PROVE  \A q \in Run : FitsAfter(q)
PROOF
  <1>1. /\ run \in [Run -> RunRow] /\ run[r] \in RunRow /\ win \in [Run -> [Hour -> WindowRow]]
        /\ win[r] \in [Hour -> WindowRow] /\ exec \in [Run -> [1 .. MaxClaims -> Execution]]
    BY DEF WInv, IInv, TypeOK, RunRow
  <1>2. RowsFit(r) /\ ExecutionsFit(r) /\ Accounted(r)
    BY DEF WInv, RunFits
  <1>3. /\ run'[r].status = status
        /\ run'[r].site = run[r].site /\ run'[r].task = run[r].task /\ run'[r].version = run[r].version
        /\ run'[r].hours = run[r].hours /\ run'[r].epoch = run[r].epoch
        /\ run'[r].initial = run[r].initial /\ run'[r].initialized = run[r].initialized
    BY <1>1 DEF SetRunStatus, RunRow
  <1>4. \A q \in Run \ {r} : exec'[q] = exec[q] /\ run'[q] = run[q] /\ win'[q] = win[q]
    BY <1>1
  <1>5. \A h \in Hour : /\ win[r][h].status # "running" => win'[r][h] = win[r][h]
                        /\ win[r][h].status = "running" => win'[r][h].status \in {"pending", "failed"}
    <2>1. CASE win' = [win EXCEPT ![r] = RequeueRunning(r)]
      BY <1>1, <2>1 DEF RequeueRunning, WindowRow
    <2>2. CASE ~Windowed(r) /\ win' = win
      BY <1>2, <2>2 DEF RowsFit
    <2>3. QED
      BY <2>1, <2>2
  <1>6. RowsFit(r)'
    BY <1>2, <1>3, <1>5 DEF RowsFit, Windowed
  <1>7. ExecutionsFit(r)'
    <2>1. CASE exec' = exec
      BY <1>2, <1>3, <2>1 DEF ExecutionsFit
    <2>2. ASSUME NEW e \in 1 .. MaxClaims, exec' = [exec EXCEPT ![r][e] = [NoExecution EXCEPT !.phase = "done"]]
          PROVE  ExecutionsFit(r)'
      <3>1. exec'[r][e].phase = "done" /\ exec'[r][e].todo = {} /\ exec'[r][e].inflight = {}
        BY <1>1, <2>2 DEF NoExecution
      <3>2. \A d \in 1 .. MaxClaims \ {e} : exec'[r][d] = exec[r][d]
        BY <1>1, <2>2
      <3>3. QED
        BY <1>2, <1>3, <3>1, <3>2 DEF ExecutionsFit
    <2>3. QED
      BY <2>1, <2>2
  <1>8. Stable(r)' /\ OwnerHolds(r)'
    BY <1>2, <1>3 DEF RowsFit, Stable, OwnerHolds
  <1>9. ParentFits(r)'
    <2>1. SUFFICES ASSUME Windowed(r) PROVE ParentFits(r)'
      BY <1>3 DEF ParentFits, Windowed
    <2>2. win'[r] = RequeueRunning(r) /\ status = RunStatusOf(RequeueRunning(r))
      BY <1>1, <2>1
    <2>3. Recounted(r, status, win'[r])
      BY <2>2, RecountLemma
    <2>4. QED
      BY <1>3, <2>3 DEF ParentFits, Recounted, RunningHours, PendingHours
  <1>10. Covered(r)'
    <2>1. run[r].hours \subseteq Hour
      BY <1>1 DEF RunRow
    <2>2. Windowed(r) => /\ run[r].initialized => \A h \in run[r].hours :
                             win[r][h].status = "absent" => fact[run[r].site][h] > 0
                         /\ \A h \in Hour : win[r][h].status = "success" => fact[run[r].site][h] > 0
      BY <1>2 DEF Accounted, Covered, Active, Unfinished
    <2>3. \A h \in Hour : /\ win'[r][h].status = "absent" => win[r][h].status = "absent"
                          /\ win'[r][h].status = "success" => win[r][h].status = "success"
      BY <1>5
    <2>4. QED
      BY <1>3, <2>1, <2>2, <2>3 DEF Covered, Windowed
  <1>11. \A q \in Run : FactsKept(q)
    BY DEF FactsKept
  <1>12. QED
    BY <1>4, <1>6, <1>7, <1>8, <1>9, <1>10, <1>11, OtherRuns DEF RunFits, FitsAfter, Accounted

\* The result of a run without windows.
LEMMA CommitPlain ==
    ASSUME WInv, NEW r \in Run, NEW e \in 1 .. MaxClaims, NEW o, CommitClaim(r, e, o)
    PROVE  \A q \in Run : FitsAfter(q)
PROOF
  <1>1. /\ run \in [Run -> RunRow] /\ run[r] \in RunRow
        /\ exec \in [Run -> [1 .. MaxClaims -> Execution]] /\ exec[r][e] \in Execution
    BY ExecutionUpdates DEF WInv, IInv, TypeOK
  <1>2. RowsFit(r) /\ ExecutionsFit(r)
    BY DEF WInv, RunFits
  <1>3. OutcomeStatus(o) \in {"success", "pending", "failed"}
    BY DEF OutcomeStatus
  <1>4. /\ exec[r][e].phase = "exec" /\ ~Windowed(r) /\ run[r].status = "running"
        /\ run' = [run EXCEPT ![r] = SetRunStatus(run[r], OutcomeStatus(o))]
        /\ exec' = [exec EXCEPT ![r][e].phase = "ending"] /\ UNCHANGED <<win, fact, mat>>
    BY DEF CommitClaim, Executing, CanCommit, Owns
  <1>5. /\ run'[r].status = OutcomeStatus(o)
        /\ run'[r].site = run[r].site /\ run'[r].task = run[r].task /\ run'[r].version = run[r].version
        /\ run'[r].hours = run[r].hours /\ run'[r].initial = run[r].initial
        /\ run'[r].initialized = run[r].initialized
    BY <1>1, <1>4 DEF SetRunStatus, RunRow
  <1>6. /\ exec'[r][e].phase = "ending" /\ exec'[r][e].todo = exec[r][e].todo
        /\ exec'[r][e].inflight = exec[r][e].inflight /\ exec'[r][e].version = exec[r][e].version
        /\ \A d \in 1 .. MaxClaims \ {e} : exec'[r][d] = exec[r][d]
        /\ \A q \in Run \ {r} : exec'[q] = exec[q] /\ run'[q] = run[q]
    BY <1>1, <1>4 DEF Execution
  <1>7. RowsFit(r)' /\ Stable(r)' /\ ParentFits(r)' /\ OwnerHolds(r)' /\ Covered(r)'
    BY <1>2, <1>3, <1>4, <1>5 DEF RowsFit, Stable, ParentFits, OwnerHolds, Covered, Windowed
  <1>8. ExecutionsFit(r)'
    BY <1>2, <1>3, <1>4, <1>5, <1>6 DEF ExecutionsFit
  <1>9. \A q \in Run : FactsKept(q)
    BY <1>4 DEF FactsKept
  <1>10. QED
    BY <1>4, <1>6, <1>7, <1>8, <1>9, OtherRuns DEF RunFits, FitsAfter, Accounted

\* A chunk of windows.
LEMMA ChunkOne ==
    ASSUME WInv, NEW r \in Run, NEW h \in Hour, MaterializeChunk(r, h)
    PROVE  \A q \in Run : FitsAfter(q)
PROOF
  <1>1. /\ win \in [Run -> [Hour -> WindowRow]] /\ win[r] \in [Hour -> WindowRow] /\ run[r] \in RunRow
    BY DEF WInv, IInv, TypeOK
  <1>2. RowsFit(r) /\ ExecutionsFit(r) /\ Stable(r)
    BY DEF WInv, RunFits
  <1>3. /\ run[r].status = "pending" /\ ~run[r].initialized /\ mat[r].on
        /\ mat[r].hours = expectedSiteRunWindowHours(r) /\ h \in mat[r].hours
        /\ win' = [win EXCEPT ![r][h] = [NoWindow EXCEPT !.status = "pending"]]
        /\ UNCHANGED <<run, fact, exec, mat>>
    BY DEF MaterializeChunk, Materializable
  <1>4. win'[r][h].status = "pending" /\ \A g \in Hour \ {h} : win'[r][g] = win[r][g]
    BY <1>1, <1>3 DEF NoWindow
  <1>5. expectedSiteRunWindowHours(r) \subseteq run[r].hours
    BY DEF expectedSiteRunWindowHours
  <1>6. Windowed(r)
    BY <1>2, <1>3 DEF RowsFit
  <1>7. RowsFit(r)'
    BY <1>2, <1>3, <1>4, <1>5, <1>6 DEF RowsFit, Windowed
  <1>8. Stable(r)'
    <2>1. expectedSiteRunWindowHours(r)' = expectedSiteRunWindowHours(r)
      BY <1>3 DEF expectedSiteRunWindowHours
    <2>2. Materialized(r)' = Materialized(r) \cup {h} /\ PendingHours(r)' = PendingHours(r) \cup {h}
      BY <1>4 DEF Materialized, PendingHours
    <2>3. QED
      BY <1>2, <1>3, <2>1, <2>2 DEF Stable
  <1>9. ExecutionsFit(r)' /\ ParentFits(r)' /\ OwnerHolds(r)'
    BY <1>2, <1>3 DEF ExecutionsFit, ParentFits, OwnerHolds
  <1>10. Accounted(r)'
    <2>1. Materialized(r) = PendingHours(r)
      BY <1>2, <1>3 DEF Stable
    <2>2. \A g \in Hour : win[r][g].status # "success"
      BY <2>1 DEF Materialized, PendingHours
    <2>3. QED
      BY <1>3, <1>4, <2>2 DEF Accounted, Covered
  <1>11. \A q \in Run \ {r} : win'[q] = win[q] /\ FactsKept(q)
    BY <1>1, <1>3 DEF FactsKept
  <1>12. QED
    BY <1>3, <1>7, <1>8, <1>9, <1>10, <1>11, OtherRuns DEF RunFits, FitsAfter

\* The materialization is complete: the run opens, or is finished when it has no window.
LEMMA FinishOne ==
    ASSUME WInv, NEW r \in Run, FinishMaterialization(r)
    PROVE  \A q \in Run : FitsAfter(q)
PROOF
  <1>1. /\ run \in [Run -> RunRow] /\ run[r] \in RunRow /\ mat \in [Run -> Materialization]
        /\ win[r] \in [Hour -> WindowRow] /\ fact \in [Site -> [Hour -> 0 .. MaxVersion]]
        /\ run[r].site \in Site
    BY DEF WInv, IInv, TypeOK, RunRow
  <1>2. RowsFit(r) /\ ExecutionsFit(r) /\ Stable(r) /\ Accounted(r)
    BY DEF WInv, RunFits
  <1> DEFINE status == RunStatusOf(win[r])
             opened == [run[r] EXCEPT !.initialized = TRUE]
  <1>3. /\ run[r].status = "pending" /\ ~run[r].initialized
        /\ mat[r].hours = expectedSiteRunWindowHours(r) /\ mat[r].hours = Materialized(r)
        /\ mat[r].hours = PendingHours(r)
        /\ run' = [run EXCEPT ![r] = SetRunStatus(opened, status)]
        /\ mat' = [mat EXCEPT ![r] = NoMaterialization]
        /\ UNCHANGED <<site, win, fact, exec>>
    BY DEF FinishMaterialization, Materializable
  <1>4. Recounted(r, status, win[r])
    BY RecountLemma
  <1>5. status # "running"
    BY <1>3 DEF RunStatusOf, Materialized, PendingHours
  <1>6. /\ opened \in RunRow /\ opened.initialized
        /\ opened.site = run[r].site /\ opened.task = run[r].task /\ opened.version = run[r].version
        /\ opened.hours = run[r].hours /\ opened.epoch = run[r].epoch /\ opened.initial = run[r].initial
    BY <1>1 DEF RunRow
  <1> HIDE DEF status, opened
  <1>7. /\ run'[r].status = status /\ run'[r].initialized
        /\ run'[r].site = run[r].site /\ run'[r].task = run[r].task /\ run'[r].version = run[r].version
        /\ run'[r].hours = run[r].hours /\ run'[r].epoch = run[r].epoch /\ run'[r].initial = run[r].initial
    BY <1>1, <1>3, <1>6 DEF SetRunStatus, RunRow
  <1>8. ~mat'[r].on /\ \A q \in Run \ {r} : mat'[q] = mat[q] /\ run'[q] = run[q]
    BY <1>1, <1>3 DEF NoMaterialization
  <1>9. status # "absent"
    BY <1>4 DEF Recounted
  <1>10. RowsFit(r)' /\ ExecutionsFit(r)' /\ OwnerHolds(r)' /\ Stable(r)'
    BY <1>2, <1>3, <1>5, <1>7, <1>8, <1>9 DEF RowsFit, ExecutionsFit, OwnerHolds, Stable, Windowed
  <1>11. ParentFits(r)'
    BY <1>3, <1>4, <1>5, <1>7 DEF ParentFits, Recounted, RunningHours, PendingHours
  <1>12. Covered(r)'
    <2>1. \A h \in run[r].hours : win[r][h].status = "absent" => fact[run[r].site][h] > 0
      <3>1. SUFFICES ASSUME NEW h \in run[r].hours, win[r][h].status = "absent"
                     PROVE  fact[run[r].site][h] > 0
        OBVIOUS
      <3>2. h \in Hour
        BY <1>1 DEF RunRow
      <3>3. h \notin expectedSiteRunWindowHours(r)
        BY <1>3, <3>1 DEF Materialized
      <3>4. fact[run[r].site][h] # 0
        BY <3>1, <3>3 DEF expectedSiteRunWindowHours
      <3>5. fact[run[r].site][h] \in 0 .. MaxVersion
        BY <1>1, <3>2
      <3>6. QED
        BY <3>4, <3>5
    <2>2. \A h \in Hour : win[r][h].status # "success"
      BY <1>3 DEF Materialized, PendingHours
    <2>3. QED
      BY <1>3, <1>7, <2>1, <2>2 DEF Covered
  <1>13. \A q \in Run : FactsKept(q)
    BY <1>3 DEF FactsKept
  <1>14. QED
    BY <1>3, <1>8, <1>10, <1>11, <1>12, <1>13, OtherRuns DEF RunFits, FitsAfter, Accounted

\* What a claim writes.
LEMMA ClaimWrites ==
    ASSUME TypeOK, NEW r \in Run, NEW ws, NEW due, run[r].epoch + 1 \in 1 .. MaxClaims, ClaimRun(r, ws, due)
    PROVE  LET e == run[r].epoch + 1
           IN  /\ run'[r].status = "running" /\ run'[r].epoch = e
               /\ run'[r].site = run[r].site /\ run'[r].task = run[r].task
               /\ run'[r].version = run[r].version /\ run'[r].hours = run[r].hours
               /\ run'[r].initial = run[r].initial /\ run'[r].initialized = run[r].initialized
               /\ win'[r] = ws
               /\ exec'[r][e].phase = "exec" /\ exec'[r][e].version = run[r].version
               /\ exec'[r][e].todo = due /\ exec'[r][e].inflight = {}
               /\ exec'[r][e].attempt = [h \in Hour |-> IF h \in due THEN ws[h].attempt ELSE 0]
               /\ \A d \in 1 .. MaxClaims \ {e} : exec'[r][d] = exec[r][d]
               /\ \A q \in Run \ {r} : run'[q] = run[q] /\ win'[q] = win[q] /\ exec'[q] = exec[q]
               /\ UNCHANGED <<site, fact, mat>>
PROOF
  <1> DEFINE e == run[r].epoch + 1
             x == [NoExecution EXCEPT !.phase = "exec", !.version = run[r].version, !.todo = due,
                     !.attempt = [h \in Hour |-> IF h \in due THEN ws[h].attempt ELSE 0]]
  <1>1. /\ run \in [Run -> RunRow] /\ run[r] \in RunRow /\ win \in [Run -> [Hour -> WindowRow]]
        /\ exec \in [Run -> [1 .. MaxClaims -> Execution]]
    BY DEF TypeOK
  <1>2. /\ x.phase = "exec" /\ x.version = run[r].version /\ x.todo = due /\ x.inflight = {}
        /\ x.attempt = [h \in Hour |-> IF h \in due THEN ws[h].attempt ELSE 0]
    BY DEF NoExecution
  <1>3. exec' = [exec EXCEPT ![r][e] = x] /\ win' = [win EXCEPT ![r] = ws] /\ UNCHANGED <<site, fact, mat>>
    BY DEF ClaimRun
  <1>4. /\ run'[r].status = "running" /\ run'[r].epoch = e
        /\ run'[r].site = run[r].site /\ run'[r].task = run[r].task
        /\ run'[r].version = run[r].version /\ run'[r].hours = run[r].hours
        /\ run'[r].initial = run[r].initial /\ run'[r].initialized = run[r].initialized
        /\ \A q \in Run \ {r} : run'[q] = run[q]
    BY <1>1 DEF ClaimRun, RunRow
  <1> HIDE DEF x
  <1>5. exec'[r][e] = x /\ \A d \in 1 .. MaxClaims \ {e} : exec'[r][d] = exec[r][d]
    BY <1>1, <1>3
  <1>6. \A q \in Run \ {r} : win'[q] = win[q] /\ exec'[q] = exec[q]
    BY <1>1, <1>3
  <1>7. win'[r] = ws
    BY <1>1, <1>3
  <1>8. QED
    BY <1>2, <1>3, <1>4, <1>5, <1>6, <1>7

\* A claim of windows: the ones it takes are the only ones that run.
LEMMA ClaimWindowsOne ==
    ASSUME WInv, NEW r \in Run, NEW due \in SUBSET Hour, ClaimWindows(r, due)
    PROVE  \A q \in Run : FitsAfter(q)
PROOF
  <1> DEFINE e == run[r].epoch + 1
             ws == [h \in Hour |-> IF h \in due
                      THEN [status |-> "running", attempt |-> win[r][h].attempt + 1] ELSE win[r][h]]
  <1>1. TypeOK /\ run[r] \in RunRow /\ win[r] \in [Hour -> WindowRow]
    BY DEF WInv, IInv, TypeOK
  <1>2. RowsFit(r) /\ ExecutionsFit(r) /\ ParentFits(r) /\ Accounted(r)
    BY DEF WInv, RunFits
  <1>3. /\ run[r].status = "pending" /\ run[r].initialized /\ Windowed(r) /\ run[r].epoch < MaxClaims
        /\ due # {} /\ due \subseteq PendingHours(r) /\ ClaimRun(r, ws, due)
    BY DEF ClaimWindows, Candidate
  <1>4. e \in 1 .. MaxClaims
    BY <1>1, <1>3, BoundAssumption DEF RunRow
  <1>5. /\ \A h \in due : h \in Hour /\ ws[h].status = "running"
        /\ \A h \in Hour \ due : ws[h] = win[r][h]
    OBVIOUS
  <1> HIDE DEF ws, e
  <1>6. /\ run'[r].status = "running" /\ run'[r].epoch = e
        /\ run'[r].site = run[r].site /\ run'[r].task = run[r].task
        /\ run'[r].version = run[r].version /\ run'[r].hours = run[r].hours
        /\ run'[r].initial = run[r].initial /\ run'[r].initialized = run[r].initialized
        /\ win'[r] = ws
        /\ exec'[r][e].phase = "exec" /\ exec'[r][e].version = run[r].version
        /\ exec'[r][e].todo = due /\ exec'[r][e].inflight = {}
        /\ exec'[r][e].attempt = [h \in Hour |-> IF h \in due THEN ws[h].attempt ELSE 0]
        /\ \A d \in 1 .. MaxClaims \ {e} : exec'[r][d] = exec[r][d]
        /\ \A q \in Run \ {r} : run'[q] = run[q] /\ win'[q] = win[q] /\ exec'[q] = exec[q]
        /\ UNCHANGED <<site, fact, mat>>
    BY <1>1, <1>3, <1>4, ClaimWrites DEF e
  <1>7. \A h \in due : win[r][h].status = "pending"
    BY <1>3 DEF PendingHours
  <1>8. RowsFit(r)'
    BY <1>2, <1>3, <1>4, <1>5, <1>6, <1>7 DEF RowsFit, Windowed
  <1>9. ExecutionsFit(r)' /\ Stable(r)'
    BY <1>2, <1>4, <1>6 DEF ExecutionsFit, Stable
  <1>10. RunningHours(r)' = due
    <2>1. RunningHours(r) = {}
      BY <1>2, <1>3 DEF ParentFits
    <2>2. QED
      BY <1>5, <1>6, <2>1 DEF RunningHours
  <1>11. ParentFits(r)' /\ OwnerHolds(r)'
    BY <1>3, <1>5, <1>6, <1>10 DEF ParentFits, OwnerHolds, Terminal
  <1>12. Accounted(r)'
    <2>1. run[r].hours \subseteq Hour
      BY <1>1 DEF RunRow
    <2>2. /\ \A h \in run[r].hours : win[r][h].status = "absent" => fact[run[r].site][h] > 0
          /\ \A h \in Hour : win[r][h].status = "success" => fact[run[r].site][h] > 0
      BY <1>2, <1>3 DEF Accounted, Covered, Active, Unfinished
    <2>3. QED
      BY <1>5, <1>6, <2>1, <2>2 DEF Accounted, Covered
  <1>13. \A q \in Run : FactsKept(q) /\ mat'[q] = mat[q]
    BY <1>6 DEF FactsKept
  <1>14. QED
    BY <1>6, <1>8, <1>9, <1>11, <1>12, <1>13, OtherRuns DEF RunFits, FitsAfter

\* A claim of a run without windows.
LEMMA ClaimPlainOne ==
    ASSUME WInv, NEW r \in Run, ClaimPlain(r)
    PROVE  \A q \in Run : FitsAfter(q)
PROOF
  <1> DEFINE e == run[r].epoch + 1
             ws == win[r]
             due == {}
  <1>1. TypeOK /\ run[r] \in RunRow
    BY DEF WInv, IInv, TypeOK
  <1>2. RowsFit(r) /\ ExecutionsFit(r)
    BY DEF WInv, RunFits
  <1>3. /\ run[r].status = "pending" /\ run[r].initialized /\ ~Windowed(r) /\ run[r].epoch < MaxClaims
        /\ ClaimRun(r, ws, due)
    BY DEF ClaimPlain, Candidate
  <1>4. e \in 1 .. MaxClaims
    BY <1>1, <1>3, BoundAssumption DEF RunRow
  <1> HIDE DEF e, ws, due
  <1>5. /\ run'[r].status = "running" /\ run'[r].epoch = e
        /\ run'[r].site = run[r].site /\ run'[r].task = run[r].task
        /\ run'[r].version = run[r].version /\ run'[r].hours = run[r].hours
        /\ run'[r].initial = run[r].initial /\ run'[r].initialized = run[r].initialized
        /\ win'[r] = ws
        /\ exec'[r][e].phase = "exec" /\ exec'[r][e].version = run[r].version
        /\ exec'[r][e].todo = due /\ exec'[r][e].inflight = {}
        /\ exec'[r][e].attempt = [h \in Hour |-> IF h \in due THEN ws[h].attempt ELSE 0]
        /\ \A d \in 1 .. MaxClaims \ {e} : exec'[r][d] = exec[r][d]
        /\ \A q \in Run \ {r} : run'[q] = run[q] /\ win'[q] = win[q] /\ exec'[q] = exec[q]
        /\ UNCHANGED <<site, fact, mat>>
    BY <1>1, <1>3, <1>4, ClaimWrites DEF e
  <1>6. RowsFit(r)' /\ ExecutionsFit(r)'
    BY <1>2, <1>3, <1>4, <1>5 DEF RowsFit, ExecutionsFit, Windowed, ws, due
  <1>7. Stable(r)' /\ ParentFits(r)' /\ OwnerHolds(r)' /\ Accounted(r)'
    BY <1>3, <1>5 DEF Stable, ParentFits, OwnerHolds, Accounted, Covered, Windowed
  <1>8. \A q \in Run : FactsKept(q) /\ mat'[q] = mat[q]
    BY <1>5 DEF FactsKept
  <1>9. QED
    BY <1>5, <1>6, <1>7, <1>8, OtherRuns DEF RunFits, FitsAfter

-----------------------------------------------------------------------------
(* Steps of many runs.                                                      *)

\* The process stops: what it had in memory is gone.
LEMMA StopAll ==
    ASSUME WInv, StopProcess
    PROVE  \A q \in Run : FitsAfter(q)
PROOF
  <1> SUFFICES ASSUME NEW q \in Run PROVE FitsAfter(q)
    OBVIOUS
  <1>1. RowsFit(q) /\ Stable(q) /\ ParentFits(q) /\ Accounted(q)
    BY DEF WInv, RunFits
  <1>2. /\ UNCHANGED <<run, win, fact>> /\ mat'[q] = NoMaterialization
        /\ \A e \in 1 .. MaxClaims : exec'[q][e] \in {NoExecution, [NoExecution EXCEPT !.phase = "done"]}
    BY DEF StopProcess
  <1>3. \A e \in 1 .. MaxClaims : /\ exec'[q][e].phase \in {"none", "done"}
                                  /\ exec'[q][e].todo = {} /\ exec'[q][e].inflight = {}
    BY <1>2 DEF NoExecution
  <1>4. ~mat'[q].on
    BY <1>2 DEF NoMaterialization
  <1>5. RowsFit(q)' /\ ExecutionsFit(q)' /\ Stable(q)'
    BY <1>1, <1>2, <1>3, <1>4 DEF RowsFit, ExecutionsFit, Stable, Windowed, Materialized, PendingHours,
                                  expectedSiteRunWindowHours
  <1>6. ParentFits(q)' /\ Accounted(q)'
    BY <1>1, <1>2 DEF ParentFits, Accounted, Covered, Windowed, Active, RunningHours, PendingHours
  <1>7. OwnerHolds(q)'
    BY <1>1, <1>2, <1>3 DEF RowsFit, OwnerHolds
  <1>8. QED
    BY <1>2, <1>5, <1>6, <1>7 DEF RunFits, FitsAfter

\* A row that is inserted under a free id.
LEMMA FreshOne ==
    ASSUME WInv, NEW q \in Run, run[q].status = "absent",
           Fresh(run'[q]), run'[q].status \in {"pending", "success"},
           win'[q] = win[q], mat'[q] = mat[q], exec'[q] = exec[q]
    PROVE  FitsAfter(q)
PROOF
  <1>1. RowsFit(q) /\ ExecutionsFit(q)
    BY DEF WInv, RunFits
  <1>2. (\A h \in Hour : win[q][h].status = "absent") /\ ~mat[q].on
    BY <1>1 DEF RowsFit
  <1>3. RowsFit(q)' /\ ExecutionsFit(q)' /\ OwnerHolds(q)'
    BY <1>1, <1>2 DEF RowsFit, ExecutionsFit, OwnerHolds, Windowed, Fresh
  <1>4. Stable(q)'
    BY <1>2 DEF Stable, Materialized, PendingHours
  <1>5. ParentFits(q)' /\ Covered(q)'
    BY <1>2 DEF ParentFits, Covered, RunningHours, PendingHours, Windowed, Active, Fresh, Unfinished
  <1>6. QED
    BY <1>3, <1>4, <1>5 DEF RunFits, FitsAfter, Accounted

\* A run that the fence fails, with what was left of its windows.
LEMMA FencedOne ==
    ASSUME WInv, NEW q \in Run, NEW s \in Site, Active(q), run[q].site = s,
           run'[q] = FencedRuns(s)[q], win'[q] = FencedWindows(s)[q], mat'[q] = mat[q], exec'[q] = exec[q]
    PROVE  FitsAfter(q)
PROOF
  <1>1. run[q] \in RunRow /\ win[q] \in [Hour -> WindowRow]
    BY DEF WInv, IInv, TypeOK
  <1>2. RowsFit(q) /\ ExecutionsFit(q)
    BY DEF WInv, RunFits
  <1>3. run'[q] = SetRunStatus(run[q], "failed")
    BY DEF FencedRuns
  <1>4. /\ run'[q].status = "failed"
        /\ run'[q].task = run[q].task /\ run'[q].version = run[q].version
        /\ run'[q].hours = run[q].hours /\ run'[q].initialized = run[q].initialized
        /\ run'[q].initial = run[q].initial
    BY <1>1, <1>3 DEF SetRunStatus, RunRow
  <1>5. \A h \in Hour : /\ win[q][h].status \in Unfinished => win'[q][h].status = "failed"
                        /\ win[q][h].status \notin Unfinished => win'[q][h] = win[q][h]
    BY <1>1 DEF FencedWindows, WindowRow
  <1>6. run[q].status # "absent"
    BY DEF Active, Unfinished
  <1>7. RowsFit(q)'
    BY <1>2, <1>4, <1>5, <1>6 DEF RowsFit, Windowed, Unfinished
  <1>8. ExecutionsFit(q)'
    BY <1>2, <1>4, <1>6 DEF ExecutionsFit
  <1>9. ParentFits(q)'
    BY <1>4, <1>5 DEF ParentFits, RunningHours, PendingHours, Unfinished, Terminal
  <1>10. Stable(q)' /\ OwnerHolds(q)' /\ Accounted(q)'
    BY <1>4 DEF Stable, OwnerHolds, Accounted, Covered, Active, Unfinished
  <1>11. QED
    BY <1>4, <1>7, <1>8, <1>9, <1>10 DEF RunFits, FitsAfter

\* A change of a site.
LEMMA LifecycleAll ==
    ASSUME WInv, NEW s \in Site, Lifecycle(s)
    PROVE  \A q \in Run : FitsAfter(q)
PROOF
  <1>1. TypeOK /\ EndedIsDisabled
    BY DEF WInv, IInv
  <1>2. CASE EndedChanged(s)
    <2>1. \A q \in Run : SameRow(q) /\ FactsKept(q)
      BY <1>2 DEF EndedChanged, SameRow, FactsKept
    <2>2. QED
      BY <1>2, <2>1, SameRun DEF EndedChanged, WInv
  <1>3. ASSUME NEW row, NEW created, Fenced(s, row, created), NEW q \in Run
        PROVE  FitsAfter(q)
    <2>1. /\ Insert(FencedRuns(s), created) /\ win' = FencedWindows(s) /\ UNCHANGED <<fact, exec, mat>>
          /\ NewRows(s, row, created)
      BY <1>3 DEF Fenced, BumpSiteFence
    <2>2. run'[q] = FencedRuns(s)[q] \/ (run'[q] \in created /\ run[q].status = "absent")
      BY <2>1, InsertLemma
    <2>3. ~(Active(q) /\ run[q].site = s) => FencedRuns(s)[q] = run[q] /\ FencedWindows(s)[q] = win[q]
      BY DEF FencedRuns, FencedWindows
    <2>4. CASE Active(q) /\ run[q].site = s /\ run'[q] = FencedRuns(s)[q]
      BY <2>1, <2>4, FencedOne
    <2>5. CASE ~(Active(q) /\ run[q].site = s) /\ run'[q] = FencedRuns(s)[q]
      <3>1. SameRow(q) /\ FactsKept(q) /\ win'[q] = win[q]
        BY <2>1, <2>3, <2>5 DEF SameRow, FactsKept
      <3>2. QED
        BY <2>1, <3>1, SameRun DEF WInv
    <2>6. CASE run'[q] \in created /\ run[q].status = "absent"
      <3>1. ~Active(q) /\ Fresh(run'[q]) /\ run'[q].status \in {"pending", "success"}
        BY <2>1, <2>6 DEF Active, Unfinished, NewRows
      <3>2. QED
        BY <2>1, <2>3, <2>6, <3>1, FreshOne
    <2>7. QED
      BY <2>2, <2>4, <2>5, <2>6
  <1>4. QED
    BY <1>1, <1>2, <1>3, LifecycleFrame

\* New runs.
LEMMA CreateAll ==
    ASSUME WInv, NEW s \in Site, Create(s)
    PROVE  \A q \in Run : FitsAfter(q)
PROOF
  <1>1. PICK rows : Created(s, rows)
    BY CreateFrame DEF WInv, IInv
  <1>2. UNCHANGED <<win, fact, exec, mat>> /\ NewRows(s, site[s], rows)
    BY <1>1 DEF Created
  <1>3. ASSUME NEW q \in Run PROVE FitsAfter(q)
    <2>1. CASE run'[q] = run[q]
      <3>1. SameRow(q) /\ FactsKept(q)
        BY <1>2, <2>1 DEF SameRow, FactsKept
      <3>2. QED
        BY <1>2, <3>1, SameRun DEF WInv
    <2>2. CASE run'[q] \in rows /\ run[q].status = "absent"
      <3>1. Fresh(run'[q]) /\ run'[q].status \in {"pending", "success"}
        BY <1>2, <2>2 DEF NewRows
      <3>2. QED
        BY <1>2, <2>2, <3>1, FreshOne
    <2>3. QED
      BY <1>1, <2>1, <2>2, CreatedStep
  <1>4. QED
    BY <1>3

-----------------------------------------------------------------------------
(* Every step.                                                              *)

\* The usage mutation of a commit.
Mutated(r, e, h, o) == fact' = [fact EXCEPT ![run[r].site][h] = FactAfter(r, e, h, o)]

\* A commit of the owner writes the fact of its window, or leaves it.
LEMMA FactWritten ==
    ASSUME WInv, NEW r \in Run, NEW e \in 1 .. MaxClaims, NEW h \in Hour, NEW o,
           h \in exec[r][e].todo, Mutated(r, e, h, o)
    PROVE  /\ \A s \in Site, g \in Hour : fact'[s][g] # fact[s][g] => s = run[r].site /\ g = h
           /\ fact'[run[r].site][h] \in {0, run[r].version, fact[run[r].site][h]}
           /\ OutcomeStatus(o) = "success" => fact'[run[r].site][h] > 0
PROOF
  <1>1. fact \in [Site -> [Hour -> 0 .. MaxVersion]] /\ run[r].site \in Site /\ run[r].version \in 1 .. MaxVersion
    BY DEF WInv, IInv, TypeOK, RunRow
  <1>2. exec[r][e].version = run[r].version
    BY DEF WInv, RunFits, ExecutionsFit
  <1>3. /\ FactAfter(r, e, h, o) \in {0, run[r].version, fact[run[r].site][h]}
        /\ OutcomeStatus(o) = "success" => FactAfter(r, e, h, o) = run[r].version
    BY <1>2 DEF FactAfter, OutcomeStatus
  <1>4. /\ fact'[run[r].site][h] = FactAfter(r, e, h, o)
        /\ \A s \in Site, g \in Hour : ~(s = run[r].site /\ g = h) => fact'[s][g] = fact[s][g]
    BY <1>1 DEF Mutated
  <1>5. run[r].version > 0
    BY <1>1, BoundAssumption
  <1>6. QED
    BY <1>3, <1>4, <1>5

\* After a requeue no window runs, so the run does not either.
LEMMA RequeueStops ==
    ASSUME TypeOK, NEW r \in Run
    PROVE  RunStatusOf(RequeueRunning(r)) \in RunStatus \ {"absent", "running"}
PROOF
  <1>1. win[r] \in [Hour -> WindowRow]
    BY DEF TypeOK
  <1>2. \A h \in Hour : RequeueRunning(r)[h].status # "running"
    BY <1>1 DEF RequeueRunning, WindowRow
  <1>3. QED
    BY <1>2, RunStatusType DEF RunStatusOf

\* The owner of a windowed run is never refused: its site has not moved, and each window
\* it has to settle is running with the attempt it claimed.
LEMMA OwnerCommits ==
    ASSUME WInv, NEW r \in Run, NEW e \in 1 .. MaxClaims, NEW h \in Hour,
           Owns(r, e), Windowed(r), h \in exec[r][e].todo, exec[r][e].phase \in {"exec", "yield", "ending"}
    PROVE  CanCommit(r, e) /\ WindowMatches(r, e, h)
PROOF
  <1>1. run[r].status = "running" /\ run[r].epoch = e /\ Active(r)
    BY DEF Owns, Active, Unfinished
  <1>2. verifyTaskScope(r)
    BY <1>1 DEF WInv, IInv, FenceHolds, verifyTaskScope, siteAllowsTask, Collectable
  <1>3. OwnerHolds(r)
    BY DEF WInv, RunFits
  <1>4. h \in RunningHours(r) /\ win[r][h].attempt = exec[r][e].attempt[h]
    BY <1>1, <1>3 DEF OwnerHolds
  <1>5. QED
    BY <1>2, <1>4 DEF CanCommit, WindowMatches, RunningHours

\* The steps of an execution.
LEMMA ExecuteAll ==
    ASSUME WInv, NEW r \in Run, NEW e \in 1 .. MaxClaims, Execute(r, e)
    PROVE  \A q \in Run : FitsAfter(q)
PROOF
  <1>1. /\ TypeOK /\ exec[r][e] \in Execution /\ exec[r] \in [1 .. MaxClaims -> Execution]
        /\ exec \in [Run -> [1 .. MaxClaims -> Execution]] /\ run[r] \in RunRow
        /\ win[r] \in [Hour -> WindowRow] /\ fact \in [Site -> [Hour -> 0 .. MaxVersion]]
    BY ExecutionUpdates DEF WInv, IInv, TypeOK
  <1>2. RunFits(r) /\ ExecutionsFit(r) /\ OwnerHolds(r) /\ RowsFit(r)
    BY DEF WInv, RunFits
  <1>3. /\ exec[r][e].inflight \subseteq exec[r][e].todo
        /\ exec[r][e].phase \in {"none", "done"} => exec[r][e].todo = {}
        /\ exec[r][e].inflight # {} => run[r].initial
        /\ exec[r][e].phase = "yield" => ~run[r].initial
    BY <1>2 DEF ExecutionsFit
  <1>4. \A o : OutcomeStatus(o) \in {"success", "pending", "failed"}
    BY DEF OutcomeStatus
  <1>5. ASSUME NEW h \in Hour, NEW o, CompleteClaimedWindow(r, e, h, o) PROVE \A q \in Run : FitsAfter(q)
    <2> DEFINE ws == SettleWindow(r, h, OutcomeStatus(o))
               x == [exec[r][e] EXCEPT !.todo = @ \ {h}]
               status == RunStatusOf(ws)
               outcome == OutcomeStatus(o)
    <2>1. /\ ~run[r].initial /\ Owns(r, e) /\ WindowMatches(r, e, h) /\ h \in exec[r][e].todo
          /\ win' = [win EXCEPT ![r] = SettleWindow(r, h, outcome)]
          /\ run' = [run EXCEPT ![r] = SetRunStatus(run[r], status)]
          /\ fact' = [fact EXCEPT ![run[r].site][h] = FactAfter(r, e, h, o)] /\ mat' = mat
          /\ exec' = [exec EXCEPT ![r][e].todo = @ \ {h}]
      BY <1>5 DEF CompleteClaimedWindow, NextWindow, CanCommit
    <2>2. exec' = [exec EXCEPT ![r][e] = x]
      BY <2>1, <1>1
    <2>3. /\ x.phase = exec[r][e].phase /\ x.version = exec[r][e].version /\ x.attempt = exec[r][e].attempt
          /\ x.todo = exec[r][e].todo \ {h} /\ x.inflight \subseteq x.todo
          /\ x.inflight \subseteq exec[r][e].inflight
      BY <1>1, <1>3, <2>1 DEF Execution
    <2>4. Recounted(r, status, SettleWindow(r, h, outcome))
      BY RecountLemma
    <2>5. /\ \A s \in Site, g \in Hour : fact'[s][g] # fact[s][g] => s = run[r].site /\ g = h
          /\ outcome = "success" => fact'[run[r].site][h] > 0
      <3>1. h \in exec[r][e].todo /\ Mutated(r, e, h, o)
        BY <2>1 DEF Mutated
      <3>2. /\ \A s \in Site, g \in Hour : fact'[s][g] # fact[s][g] => s = run[r].site /\ g = h
            /\ fact'[run[r].site][h] \in {0, run[r].version, fact[run[r].site][h]}
            /\ OutcomeStatus(o) = "success" => fact'[run[r].site][h] > 0
        BY <3>1, FactWritten
      <3>3. QED
        BY <3>2
    <2>6. outcome \in {"success", "pending", "failed"}
      BY <1>4
    <2> HIDE DEF x, status, outcome
    <2>7. /\ Owns(r, e) /\ WindowMatches(r, e, h) /\ h \in exec[r][e].todo
          /\ win' = [win EXCEPT ![r] = SettleWindow(r, h, outcome)]
          /\ run' = [run EXCEPT ![r] = SetRunStatus(run[r], status)] /\ mat' = mat
      BY <2>1
    <2>8. QED
      BY <2>2, <2>3, <2>4, <2>5, <2>6, <2>7, SettleOne
  <1>6. ASSUME NEW h \in Hour, NEW o, EndInitialCommit(r, e, h, o) PROVE \A q \in Run : FitsAfter(q)
    <2> DEFINE ws == SettleWindow(r, h, OutcomeStatus(o))
               x == FinishInitial(exec[r][e], h)
               status == RunStatusSeen(ws, exec[r][e].view[h], h)
               outcome == OutcomeStatus(o)
    <2>1. /\ Owns(r, e) /\ WindowMatches(r, e, h) /\ h \in exec[r][e].inflight
          /\ win' = [win EXCEPT ![r] = SettleWindow(r, h, outcome)]
          /\ run' = [run EXCEPT ![r] = SetRunStatus(run[r], status)]
          /\ fact' = [fact EXCEPT ![run[r].site][h] = FactAfter(r, e, h, o)] /\ mat' = mat
          /\ exec' = [exec EXCEPT ![r][e] = x]
      BY <1>6 DEF EndInitialCommit, CanCommit
    <2>2. h \in exec[r][e].todo /\ run[r].initial
      BY <1>3, <2>1
    <2>3. /\ x.phase = exec[r][e].phase /\ x.version = exec[r][e].version /\ x.attempt = exec[r][e].attempt
          /\ x.todo = exec[r][e].todo \ {h} /\ x.inflight = exec[r][e].inflight \ {h}
      BY <1>1 DEF Execution, FinishInitial
    <2>4. Recounted(r, status, SettleWindow(r, h, outcome))
      <3>1. exec[r][e].view[h] \in SUBSET Hour
        BY <1>1 DEF Execution
      <3>2. ws \in [Hour -> WindowRow]
        BY <1>1, <1>4, <2>1, WindowUpdates DEF Owns, RunStatus
      <3>3. QED
        BY <2>2, <3>1, <3>2, RecountLemma
    <2>5. /\ \A s \in Site, g \in Hour : fact'[s][g] # fact[s][g] => s = run[r].site /\ g = h
          /\ outcome = "success" => fact'[run[r].site][h] > 0
      <3>1. h \in exec[r][e].todo /\ Mutated(r, e, h, o)
        BY <2>1, <2>2 DEF Mutated
      <3>2. /\ \A s \in Site, g \in Hour : fact'[s][g] # fact[s][g] => s = run[r].site /\ g = h
            /\ fact'[run[r].site][h] \in {0, run[r].version, fact[run[r].site][h]}
            /\ OutcomeStatus(o) = "success" => fact'[run[r].site][h] > 0
        BY <3>1, FactWritten
      <3>3. QED
        BY <3>2
    <2>6. outcome \in {"success", "pending", "failed"}
      BY <1>4
    <2>7. x.inflight \subseteq x.todo /\ x.inflight \subseteq exec[r][e].inflight
      BY <1>3, <2>3
    <2> HIDE DEF x, status, outcome
    <2>8. QED
      BY <2>1, <2>2, <2>3, <2>4, <2>5, <2>6, <2>7, SettleOne
  <1>7. ASSUME NEW h \in Hour, YieldWindow(r, e, h) PROVE \A q \in Run : FitsAfter(q)
    <2> DEFINE outcome == "pending"
               ws == SettleWindow(r, h, outcome)
               x == [exec[r][e] EXCEPT !.todo = @ \ {h}]
               status == RunStatusOf(ws)
    <2>1. /\ exec[r][e].phase = "yield" /\ Owns(r, e) /\ WindowMatches(r, e, h) /\ h \in exec[r][e].todo
          /\ win' = [win EXCEPT ![r] = SettleWindow(r, h, outcome)]
          /\ run' = [run EXCEPT ![r] = SetRunStatus(run[r], status)]
          /\ UNCHANGED <<fact, mat>>
          /\ exec' = [exec EXCEPT ![r][e].todo = @ \ {h}]
      BY <1>7 DEF YieldWindow, NextWindow, CanCommit
    <2>2. exec' = [exec EXCEPT ![r][e] = x]
      BY <2>1, <1>1
    <2>3. /\ x.phase = exec[r][e].phase /\ x.version = exec[r][e].version /\ x.attempt = exec[r][e].attempt
          /\ x.todo = exec[r][e].todo \ {h} /\ x.inflight \subseteq x.todo
          /\ x.inflight \subseteq exec[r][e].inflight
      BY <1>1, <1>3, <2>1 DEF Execution
    <2>4. Recounted(r, status, SettleWindow(r, h, outcome))
      BY RecountLemma
    <2>5. outcome \in {"success", "pending", "failed"} /\ outcome # "success"
      OBVIOUS
    <2> HIDE DEF x, status, outcome
    <2>6. QED
      BY <2>1, <2>2, <2>3, <2>4, <2>5, SettleOne
  <1>8. ASSUME NEW h \in Hour, BeginInitialCommit(r, e, h) PROVE \A q \in Run : FitsAfter(q)
    <2> DEFINE x == StartInitial(exec[r][e], h, RunningHours(r))
    <2>1. /\ exec[r][e].phase = "exec" /\ run[r].initial /\ h \in exec[r][e].todo
          /\ exec' = [exec EXCEPT ![r][e] = x] /\ UNCHANGED <<site, run, win, fact, mat>>
      BY <1>8 DEF BeginInitialCommit, Executing
    <2>2. /\ x.phase = exec[r][e].phase /\ x.version = exec[r][e].version /\ x.attempt = exec[r][e].attempt
          /\ x.todo = exec[r][e].todo /\ x.inflight = exec[r][e].inflight \cup {h}
      BY <1>1 DEF Execution, StartInitial
    <2> HIDE DEF x
    <2>3. QED
      BY <1>3, <2>1, <2>2, ExecutionOnly
  <1>9. ASSUME NEW h \in Hour, InitialCommitLost(r, e, h) PROVE \A q \in Run : FitsAfter(q)
    <2> DEFINE x == FinishInitial(exec[r][e], h)
    <2>1. /\ h \in exec[r][e].inflight /\ ~(CanCommit(r, e) /\ WindowMatches(r, e, h))
          /\ exec' = [exec EXCEPT ![r][e] = x] /\ UNCHANGED <<site, run, win, fact, mat>>
      BY <1>9 DEF InitialCommitLost
    <2>2. /\ x.phase = exec[r][e].phase /\ x.version = exec[r][e].version
          /\ x.todo = exec[r][e].todo \ {h} /\ x.inflight = exec[r][e].inflight \ {h}
      BY <1>1 DEF Execution, FinishInitial
    <2>3. exec[r][e].phase \in {"exec", "yield", "ending"}
      BY <1>1, <1>3, <2>1 DEF Execution
    <2>4. ~(Owns(r, e) /\ Windowed(r))
      BY <1>2, <1>3, <2>1, <2>3, OwnerCommits
    <2> HIDE DEF x
    <2>5. QED
      BY <1>3, <2>1, <2>2, <2>3, <2>4, ExecutionOnly
  <1>10. ASSUME NEW phase \in {"yield", "ending"}, exec' = [exec EXCEPT ![r][e].phase = phase],
                exec[r][e].phase \in {"exec", "yield"}, phase = "yield" => ~run[r].initial,
                UNCHANGED <<site, run, win, fact, mat>>
         PROVE  \A q \in Run : FitsAfter(q)
    <2> DEFINE x == [exec[r][e] EXCEPT !.phase = phase]
    <2>1. exec' = [exec EXCEPT ![r][e] = x]
      BY <1>1, <1>10
    <2>2. /\ x.phase = phase /\ x.version = exec[r][e].version /\ x.attempt = exec[r][e].attempt
          /\ x.todo = exec[r][e].todo /\ x.inflight = exec[r][e].inflight
      BY <1>1 DEF Execution
    <2> HIDE DEF x
    <2>3. /\ x.inflight \subseteq x.todo /\ x.phase \notin {"none", "done"}
          /\ exec[r][e].phase \notin {"none", "done"}
          /\ exec[r][e].phase \in {"exec", "yield", "ending"}
          /\ x.inflight # {} => run[r].initial
          /\ x.phase = "yield" => ~run[r].initial
      BY <1>3, <1>10, <2>2
    <2>4. QED
      BY <1>10, <2>1, <2>2, <2>3, ExecutionOnly
  <1>11. CASE CommitLost(r, e) \/ YieldSlice(r, e) \/ CancelClaim(r, e)
    BY <1>10, <1>11 DEF CommitLost, YieldSlice, CancelClaim, Executing
  <1>12. ASSUME exec' = [exec EXCEPT ![r][e] = [NoExecution EXCEPT !.phase = "done"]],
                UNCHANGED <<site, run, win, fact, mat>>
         PROVE  \A q \in Run : FitsAfter(q)
    <2> DEFINE x == [NoExecution EXCEPT !.phase = "done"]
    <2>1. x.phase = "done" /\ x.todo = {} /\ x.inflight = {}
      BY DEF NoExecution
    <2>2. exec' = [exec EXCEPT ![r][e] = x]
      BY <1>12
    <2> HIDE DEF x
    <2>3. QED
      BY <1>12, <2>1, <2>2, ExecutionOnly
  <1>13. CASE ReleaseFails(r, e)
    BY <1>12, <1>13 DEF ReleaseFails
  <1>14. CASE ReleaseOwnedRunning(r, e)
    <2>1. CASE ~Owns(r, e) \/ (Windowed(r) /\ RunningHours(r) = {})
      BY <1>12, <1>14, <2>1 DEF ReleaseOwnedRunning
    <2>2. CASE ~(~Owns(r, e) \/ (Windowed(r) /\ RunningHours(r) = {}))
      <3> DEFINE status == IF Windowed(r) THEN RunStatusOf(RequeueRunning(r)) ELSE "pending"
      <3>1. /\ run[r].status = "running" /\ win' = [win EXCEPT ![r] = RequeueRunning(r)]
            /\ run' = [run EXCEPT ![r] = SetRunStatus(run[r], status)] /\ UNCHANGED <<fact, mat>>
            /\ exec' = [exec EXCEPT ![r][e] = [NoExecution EXCEPT !.phase = "done"]]
        BY <1>14, <2>2 DEF ReleaseOwnedRunning, Owns
      <3>2. status \in RunStatus \ {"absent", "running"} /\ (Windowed(r) => status = RunStatusOf(RequeueRunning(r)))
        BY <1>1, RequeueStops DEF RunStatus
      <3> HIDE DEF status
      <3>3. QED
        BY <3>1, <3>2, RequeueOne
    <2>3. QED
      BY <2>1, <2>2
  <1>15. CASE Heartbeat(r, e)
    BY <1>15, HeartbeatOnly DEF Heartbeat
  <1>16. ASSUME NEW o, CommitClaim(r, e, o) PROVE \A q \in Run : FitsAfter(q)
    BY <1>16, CommitPlain
  <1>17. QED
    BY <1>5, <1>6, <1>7, <1>8, <1>9, <1>11, <1>13, <1>14, <1>15, <1>16 DEF Execute, Progress

\* The steps of the materializer.
LEMMA MaterializeAll ==
    ASSUME WInv, NEW r \in Run, Materialize(r)
    PROVE  \A q \in Run : FitsAfter(q)
PROOF
  <1>1. CASE LoadExpectation(r)
    <2> DEFINE m == [on |-> TRUE, hours |-> expectedSiteRunWindowHours(r)]
    <2>1. mat' = [mat EXCEPT ![r] = m] /\ UNCHANGED <<run, win, fact, exec>> /\ run[r].status # "absent"
      BY <1>1 DEF LoadExpectation, Materializable
    <2>2. m.hours = expectedSiteRunWindowHours(r)
      OBVIOUS
    <2> HIDE DEF m
    <2>3. QED
      BY <2>1, <2>2, MaterializationOnly
  <1>2. CASE AbandonMaterialization(r)
    <2>1. ~NoMaterialization.on
      BY DEF NoMaterialization
    <2>2. QED
      BY <1>2, <2>1, MaterializationOnly DEF AbandonMaterialization
  <1>3. QED
    BY <1>1, <1>2, ChunkOne, FinishOne DEF Materialize

\* The steps of the reaper and the takeover.
LEMMA RecoverAll ==
    ASSUME WInv, NEW r \in Run, Recover(r)
    PROVE  \A q \in Run : FitsAfter(q)
PROOF
  <1>1. CASE RecoverRun(r)
    <2> DEFINE status == IF Windowed(r) THEN RunStatusOf(RequeueRunning(r))
                         ELSE IF run[r].retry < MaxAttempts[run[r].task] THEN "pending" ELSE "failed"
    <2>1. /\ run[r].status = "running" /\ run' = [run EXCEPT ![r] = SetRunStatus(run[r], status)]
          /\ \/ win' = [win EXCEPT ![r] = RequeueRunning(r)]
             \/ ~Windowed(r) /\ win' = win
          /\ UNCHANGED <<fact, exec, mat>>
      BY <1>1 DEF RecoverRun
    <2>2. TypeOK
      BY DEF WInv, IInv
    <2>3. status \in RunStatus \ {"absent", "running"} /\ (Windowed(r) => status = RunStatusOf(RequeueRunning(r)))
      BY <2>2, RequeueStops DEF RunStatus
    <2> HIDE DEF status
    <2>4. QED
      BY <2>1, <2>3, RequeueOne
  <1>2. CASE LeaseExpires(r)
    BY <1>2, HeartbeatOnly DEF LeaseExpires
  <1>3. CASE ClaimFatal(r)
    BY <1>3, StopAll DEF ClaimFatal
  <1>4. QED
    BY <1>1, <1>2, <1>3 DEF Recover

\* Every step keeps the invariant.
LEMMA WindowStep ==
    ASSUME WInv, [Next]_vars
    PROVE  WInv' /\ \A q \in Run : FitsAfter(q)
PROOF
  <1>1. IInv'
    BY TypeStep, ClaimsBoundedStep, EndedIsDisabledStep, FenceStep, OverlapStep, OneRunningStep DEF WInv, IInv
  <1>2. CASE UNCHANGED <<run, win, fact, exec, mat>>
    <2>1. \A q \in Run : SameRow(q) /\ FactsKept(q)
      BY <1>2 DEF SameRow, FactsKept
    <2>2. \A q \in Run : win'[q] = win[q] /\ mat'[q] = mat[q] /\ exec'[q] = exec[q] /\ RunFits(q)
      BY <1>2 DEF WInv
    <2>3. \A q \in Run : FitsAfter(q)
      BY <2>1, <2>2, SameRun
    <2>4. QED
      BY <1>1, <2>3 DEF WInv, FitsAfter
  <1>3. ASSUME NEW s \in Site, Lifecycle(s) \/ Create(s) PROVE \A q \in Run : FitsAfter(q)
    BY <1>3, LifecycleAll, CreateAll
  <1>4. ASSUME NEW r \in Run, Materialize(r) \/ Claim(r) \/ Recover(r) PROVE \A q \in Run : FitsAfter(q)
    BY <1>4, MaterializeAll, RecoverAll, ClaimWindowsOne, ClaimPlainOne DEF Claim
  <1>5. ASSUME NEW r \in Run, NEW e \in 1 .. MaxClaims, Execute(r, e) PROVE \A q \in Run : FitsAfter(q)
    BY <1>5, ExecuteAll
  <1>6. CASE Crash
    BY <1>1, <1>6, StopAll DEF Crash, WInv, FitsAfter
  <1>7. CASE Restart \/ Ready \/ UNCHANGED vars
    BY <1>2, <1>7 DEF Restart, Ready, vars
  <1>8. QED
    BY <1>1, <1>3, <1>4, <1>5, <1>6, <1>7 DEF Next, WInv, FitsAfter

\* At the start there are no windows, executions or materializations.
LEMMA InitWInv == Init => WInv
PROOF
  <1> SUFFICES ASSUME Init, NEW q \in Run PROVE IInv /\ RunFits(q)
    BY InitIInv DEF WInv
  <1>1. run[q].status = "absent" /\ run[q].initialized /\ run[q].task \notin WindowedTasks
    BY DEF Init, NewSiteCollectionRun, WindowedTasks
  <1>2. \A h \in Hour : win[q][h].status = "absent"
    BY DEF Init, NoWindow
  <1>3. ~mat[q].on /\ \A e \in 1 .. MaxClaims : /\ exec[q][e].phase = "none" /\ exec[q][e].todo = {}
                                                /\ exec[q][e].inflight = {}
    BY DEF Init, NoMaterialization, NoExecution
  <1>4. RunFits(q)
    BY <1>1, <1>2, <1>3 DEF RunFits, RowsFit, ExecutionsFit, Stable, ParentFits, OwnerHolds, Accounted, Covered, Windowed,
                            Active, Unfinished
  <1>5. QED
    BY <1>4, InitIInv

-----------------------------------------------------------------------------
(* The theorems.                                                            *)

\* Every behaviour keeps the invariant of runs, windows, executions and facts.
THEOREM WindowInvariance == Spec => []WInv
  BY InitWInv, WindowStep, PTL DEF Spec

\* The materializer never finds its run or its windows different from what it expects:
\* MaterializeRunWindows never meets ErrCollectionRunContract, whatever the other runs of
\* the site commit meanwhile and wherever the process crashed.
THEOREM MaterializationIsStable == Spec => []MaterializationStable
PROOF
  <1>1. WInv => MaterializationStable
    BY DEF WInv, RunFits, Stable, MaterializationStable
  <1>2. QED
    BY <1>1, WindowInvariance, PTL

\* Run and windows agree after every commit, release, recovery and fence.
THEOREM ParentsMatch == Spec => []ParentMatchesWindows
PROOF
  <1>1. WInv => ParentMatchesWindows
    BY DEF WInv, RunFits, ParentFits, ParentMatchesWindows
  <1>2. QED
    BY <1>1, WindowInvariance, PTL

\* The current claim holds exactly the running windows of its run, with their attempts.
THEOREM OwnersHold == Spec => []OwnerHoldsItsWindows
PROOF
  <1>1. WInv => OwnerHoldsItsWindows
    BY DEF WInv, RunFits, OwnerHolds, OwnerHoldsItsWindows
  <1>2. QED
    BY <1>1, WindowInvariance, PTL

-----------------------------------------------------------------------------
(* What a step may do to facts, to a leased run, and to a run's success.    *)

\* The usage mutation of the owner's commit of a window, by an execution of run r.
Writes(r) ==
    \E e \in 1 .. MaxClaims, h \in Hour, o \in {"success", "retry", "canceled", "failed", "mismatch"} :
        CanCommit(r, e) /\ WindowMatches(r, e, h) /\ h \in exec[r][e].todo /\ Mutated(r, e, h, o)

\* An execution changes no run but its own, and facts only by commits of the owner.
LEMMA ExecuteWrites ==
    ASSUME WInv, NEW r \in Run, NEW e \in 1 .. MaxClaims, Execute(r, e)
    PROVE  /\ fact' = fact \/ Writes(r)
           /\ \A q \in Run \ {r} : run'[q] = run[q]
PROOF
  <1>1. exec[r][e].inflight \subseteq exec[r][e].todo
    BY DEF WInv, RunFits, ExecutionsFit
  <1>2. run \in [Run -> RunRow]
    BY DEF WInv, IInv, TypeOK
  <1>3. ASSUME NEW h \in Hour, NEW o \in {"success", "retry", "canceled", "failed", "mismatch"},
               CompleteClaimedWindow(r, e, h, o) \/ EndInitialCommit(r, e, h, o)
        PROVE  Writes(r) /\ \A q \in Run \ {r} : run'[q] = run[q]
    <2>1. CanCommit(r, e) /\ WindowMatches(r, e, h) /\ h \in exec[r][e].todo /\ Mutated(r, e, h, o)
      BY <1>1, <1>3 DEF CompleteClaimedWindow, EndInitialCommit, NextWindow, Mutated
    <2>2. \A q \in Run \ {r} : run'[q] = run[q]
      BY <1>2, <1>3 DEF CompleteClaimedWindow, EndInitialCommit
    <2>3. QED
      BY <2>1, <2>2 DEF Writes
  <1>4. CASE \E h \in Hour : YieldWindow(r, e, h) \/ BeginInitialCommit(r, e, h) \/ InitialCommitLost(r, e, h)
    BY <1>2, <1>4 DEF YieldWindow, BeginInitialCommit, InitialCommitLost
  <1>5. CASE \/ CommitLost(r, e) \/ ReleaseFails(r, e) \/ YieldSlice(r, e) \/ CancelClaim(r, e) \/ Heartbeat(r, e)
             \/ \E o \in {"success", "retry", "canceled", "failed"} : CommitClaim(r, e, o)
    BY <1>2, <1>5 DEF CommitLost, ReleaseFails, YieldSlice, CancelClaim, Heartbeat, CommitClaim
  <1>6. CASE ReleaseOwnedRunning(r, e)
    BY <1>2, <1>6 DEF ReleaseOwnedRunning
  <1>7. QED
    BY <1>3, <1>4, <1>5, <1>6 DEF Execute, Progress

\* Facts are written by commits of the owner, and by nothing else.
LEMMA FactWriters ==
    ASSUME WInv, [Next]_vars
    PROVE  fact' = fact \/ \E r \in Run : Writes(r)
PROOF
  <1>1. ASSUME NEW s \in Site, Lifecycle(s) PROVE fact' = fact
    BY <1>1, LifecycleFrame DEF WInv, IInv, EndedChanged, Fenced, BumpSiteFence
  <1>2. ASSUME NEW s \in Site, Create(s) PROVE fact' = fact
    BY <1>2, CreateFrame DEF WInv, IInv, Created
  <1>3. ASSUME NEW r \in Run, Materialize(r) PROVE fact' = fact
    BY <1>3 DEF Materialize, LoadExpectation, MaterializeChunk, FinishMaterialization, AbandonMaterialization
  <1>4. ASSUME NEW r \in Run, Claim(r) PROVE fact' = fact
    BY <1>4 DEF Claim, ClaimWindows, ClaimPlain, ClaimRun
  <1>5. ASSUME NEW r \in Run, Recover(r) PROVE fact' = fact
    BY <1>5 DEF Recover, RecoverRun, LeaseExpires, ClaimFatal, StopProcess
  <1>6. CASE Crash \/ Restart \/ Ready \/ UNCHANGED vars
    BY <1>6 DEF Crash, StopProcess, Restart, Ready, vars
  <1>7. QED
    BY <1>1, <1>2, <1>3, <1>4, <1>5, <1>6, ExecuteWrites DEF Next

\* What a commit writes: the fact of one hour of its own run, under the version of the site,
\* which can be collected from.
LEMMA WriteIsFenced ==
    ASSUME WInv, NEW r \in Run, Writes(r)
    PROVE  /\ run[r].status = "running" /\ Windowed(r)
           /\ run[r].version = site[run[r].site].version /\ Collectable(site[run[r].site])
           /\ \E h \in run[r].hours : \E v \in {0, run[r].version, fact[run[r].site][h]} :
                fact' = [fact EXCEPT ![run[r].site][h] = v]
PROOF
  <1>1. PICK e \in 1 .. MaxClaims, h \in Hour, o \in {"success", "retry", "canceled", "failed", "mismatch"} :
          CanCommit(r, e) /\ WindowMatches(r, e, h) /\ h \in exec[r][e].todo /\ Mutated(r, e, h, o)
    BY DEF Writes
  <1>2. h \in run[r].hours /\ Windowed(r)
    BY <1>1 DEF WInv, RunFits, RowsFit, WindowMatches
  <1>3. verifyTaskScope(r) /\ run[r].status = "running"
    BY <1>1 DEF CanCommit, Owns
  <1>4. run[r].version = site[run[r].site].version /\ Collectable(site[run[r].site])
    BY <1>2, <1>3 DEF verifyTaskScope, siteAllowsTask, Collectable, Windowed, WindowedTasks
  <1>5. exec[r][e].version = run[r].version
    BY <1>1 DEF WInv, RunFits, ExecutionsFit
  <1>6. FactAfter(r, e, h, o) \in {0, run[r].version, fact[run[r].site][h]}
    BY <1>5 DEF FactAfter
  <1>7. QED
    BY <1>1, <1>2, <1>3, <1>4, <1>6 DEF Mutated

\* A fact is only written while its site can be collected from and with the site's current
\* version: the answer of an execution that began before a fence is never stored.
THEOREM FactsAreFenced == Spec => FactsFenced
PROOF
  <1>1. ASSUME WInv, [Next]_vars, NEW s \in Site, NEW h \in Hour, fact'[s][h] # fact[s][h]
        PROVE  Collectable(site[s]) /\ fact'[s][h] \in {0, site[s].version}
    <2>1. PICK r \in Run : Writes(r)
      BY <1>1, FactWriters
    <2>2. PICK g \in run[r].hours : \E v \in {0, run[r].version, fact[run[r].site][g]} :
            fact' = [fact EXCEPT ![run[r].site][g] = v]
      BY <1>1, <2>1, WriteIsFenced
    <2>3. run[r].version = site[run[r].site].version /\ Collectable(site[run[r].site])
      BY <1>1, <2>1, WriteIsFenced
    <2>4. fact \in [Site -> [Hour -> 0 .. MaxVersion]]
      BY <1>1 DEF WInv, IInv, TypeOK
    <2>5. s = run[r].site /\ h = g /\ fact'[s][h] \in {0, run[r].version}
      BY <1>1, <2>2, <2>4
    <2>6. QED
      BY <2>3, <2>5
  <1>2. WInv /\ [Next]_vars => [FactsFencedStep]_vars
    BY <1>1 DEF FactsFencedStep
  <1>3. QED
    BY <1>2, WindowInvariance, PTL DEF Spec, FactsFenced

\* Every step that makes a run successful leaves its hours collected.
LEMMA SuccessStep == ASSUME WInv, [Next]_vars PROVE SuccessMeansCollectedStep
PROOF
  <1> SUFFICES ASSUME NEW r \in Run, run[r].status # "success", run'[r].status = "success", Windowed(r)',
                      NEW h \in run'[r].hours
               PROVE  fact'[run'[r].site][h] > 0
    BY DEF SuccessMeansCollectedStep
  <1>1. WInv' /\ FitsAfter(r)
    BY WindowStep
  <1>2. Covered(r)' /\ RowsFit(r)' /\ ParentFits(r)'
    BY <1>1 DEF FitsAfter, RunFits
  <1>3. run'[r].initialized
    BY <1>2 DEF RowsFit
  <1>4. h \in Hour /\ win'[r][h].status \in RunStatus
    BY <1>1 DEF WInv, IInv, TypeOK, RunRow, WindowRow
  <1>5. win'[r][h].status \in {"absent", "success"}
    BY <1>2, <1>3, <1>4 DEF ParentFits, RunningHours, PendingHours, RunStatus, Terminal
  <1>6. QED
    BY <1>2, <1>3, <1>4, <1>5 DEF Covered

\* A run that becomes successful leaves every hour of its range collected: the hours its
\* materialization left out and the windows it settled long before, too.
THEOREM SuccessIsCollected == Spec => SuccessMeansCollected
PROOF
  <1>1. WInv /\ [Next]_vars => [SuccessMeansCollectedStep]_vars
    BY SuccessStep
  <1>2. QED
    BY <1>1, WindowInvariance, PTL DEF Spec, SuccessMeansCollected

\* A step of an execution that ends a run or touches its windows is one of the current claim,
\* whose execution it changes.
LEMMA OwnerActs ==
    ASSUME WInv, NEW r \in Run, NEW q \in Run, NEW e \in 1 .. MaxClaims, Execute(q, e),
           run[r].status = "running", run'[r].status # "running" \/ win'[r] # win[r]
    PROVE  exec'[r][run[r].epoch] # exec[r][run[r].epoch]
PROOF
  <1>1. /\ run \in [Run -> RunRow] /\ win \in [Run -> [Hour -> WindowRow]]
        /\ exec \in [Run -> [1 .. MaxClaims -> Execution]] /\ exec[q] \in [1 .. MaxClaims -> Execution]
        /\ exec[q][e] \in Execution
    BY ExecutionUpdates DEF WInv, IInv, TypeOK
  <1>2. CASE \/ \E h \in Hour : BeginInitialCommit(q, e, h) \/ InitialCommitLost(q, e, h)
             \/ CommitLost(q, e) \/ ReleaseFails(q, e) \/ YieldSlice(q, e) \/ CancelClaim(q, e)
    BY <1>2 DEF BeginInitialCommit, InitialCommitLost, CommitLost, ReleaseFails, YieldSlice, CancelClaim
  <1>3. CASE Heartbeat(q, e)
    BY <1>1, <1>3 DEF Heartbeat, RunRow
  <1>4. ASSUME NEW ws, NEW row, win' = [win EXCEPT ![q] = ws] \/ win' = win, run' = [run EXCEPT ![q] = row]
        PROVE  q = r
    BY <1>1, <1>4
  <1>5. ASSUME NEW h \in Hour, NEW o, CompleteClaimedWindow(q, e, h, o)
        PROVE  exec'[r][run[r].epoch] # exec[r][run[r].epoch]
    <2>1. q = r /\ run[r].epoch = e
      BY <1>4, <1>5 DEF CompleteClaimedWindow, CanCommit, Owns
    <2>2. h \in exec[q][e].todo /\ exec'[q][e] = [exec[q][e] EXCEPT !.todo = @ \ {h}]
      BY <1>1, <1>5 DEF CompleteClaimedWindow, NextWindow
    <2>3. exec'[q][e].todo = exec[q][e].todo \ {h}
      BY <1>1, <2>2 DEF Execution
    <2>4. QED
      BY <2>1, <2>2, <2>3
  <1>6. ASSUME NEW h \in Hour, NEW o, EndInitialCommit(q, e, h, o)
        PROVE  exec'[r][run[r].epoch] # exec[r][run[r].epoch]
    <2>1. q = r /\ run[r].epoch = e
      BY <1>4, <1>6 DEF EndInitialCommit, CanCommit, Owns
    <2>2. h \in exec[q][e].inflight /\ exec'[q][e] = FinishInitial(exec[q][e], h)
      BY <1>1, <1>6 DEF EndInitialCommit
    <2>3. exec'[q][e].inflight = exec[q][e].inflight \ {h}
      BY <1>1, <2>2 DEF Execution, FinishInitial
    <2>4. QED
      BY <2>1, <2>2, <2>3
  <1>7. ASSUME NEW h \in Hour, YieldWindow(q, e, h)
        PROVE  exec'[r][run[r].epoch] # exec[r][run[r].epoch]
    <2>1. q = r /\ run[r].epoch = e
      BY <1>4, <1>7 DEF YieldWindow, CanCommit, Owns
    <2>2. h \in exec[q][e].todo /\ exec'[q][e] = [exec[q][e] EXCEPT !.todo = @ \ {h}]
      BY <1>1, <1>7 DEF YieldWindow, NextWindow
    <2>3. exec'[q][e].todo = exec[q][e].todo \ {h}
      BY <1>1, <2>2 DEF Execution
    <2>4. QED
      BY <2>1, <2>2, <2>3
  <1>8. ASSUME NEW o, CommitClaim(q, e, o)
        PROVE  exec'[r][run[r].epoch] # exec[r][run[r].epoch]
    <2>1. q = r /\ run[r].epoch = e
      BY <1>4, <1>8 DEF CommitClaim, CanCommit, Owns
    <2>2. exec[q][e].phase = "exec" /\ exec'[q][e] = [exec[q][e] EXCEPT !.phase = "ending"]
      BY <1>1, <1>8 DEF CommitClaim, Executing
    <2>3. exec'[q][e].phase = "ending"
      BY <1>1, <2>2 DEF Execution
    <2>4. QED
      BY <2>1, <2>2, <2>3
  <1>9. CASE ReleaseOwnedRunning(q, e)
    <2>1. Owns(q, e)
      BY <1>9 DEF ReleaseOwnedRunning
    <2>2. q = r /\ run[r].epoch = e
      BY <1>4, <1>9, <2>1 DEF ReleaseOwnedRunning, Owns
    <2>3. exec[q][e].phase # "done" /\ exec'[q][e] = [NoExecution EXCEPT !.phase = "done"]
      BY <1>1, <1>9 DEF ReleaseOwnedRunning, AtEnd
    <2>4. exec'[q][e].phase = "done"
      BY <2>3 DEF NoExecution
    <2>5. QED
      BY <2>2, <2>3, <2>4
  <1>10. QED
    BY <1>2, <1>3, <1>5, <1>6, <1>7, <1>8, <1>9 DEF Execute, Progress

\* While the lease is fresh, the process up and the site unchanged, only the execution of the
\* current claim ends the run or touches its windows: nothing that an earlier claim of the
\* run, the reaper or the materializer does late disturbs it.
THEOREM FreshLeaseIsSafe == Spec => FreshLeaseProtects
PROOF
  <1>1. ASSUME WInv, [Next]_vars PROVE FreshLeaseProtectsStep
    <2> SUFFICES ASSUME NEW r \in Run, run[r].status = "running", run[r].heartbeat = "fresh",
                        proc = "up", site' = site, run'[r].status # "running" \/ win'[r] # win[r]
                 PROVE  exec'[r][run[r].epoch] # exec[r][run[r].epoch]
      BY DEF FreshLeaseProtectsStep
    <2>1. /\ TypeOK /\ EndedIsDisabled /\ run \in [Run -> RunRow] /\ win \in [Run -> [Hour -> WindowRow]]
          /\ site \in [Site -> SiteRow]
      BY <1>1 DEF WInv, IInv, TypeOK
    <2>2. ASSUME NEW s \in Site, Lifecycle(s) PROVE FALSE
      <3>1. ASSUME NEW row, NEW created, Fenced(s, row, created) PROVE FALSE
        <4>1. site'[s] = row /\ row.version = site[s].version + 1
          BY <2>1, <3>1 DEF Fenced, BumpSiteFence
        <4>2. site[s].version \in Nat
          BY <2>1 DEF SiteRow
        <4>3. QED
          BY <4>1, <4>2
      <3>2. QED
        BY <2>1, <2>2, <3>1, LifecycleFrame DEF EndedChanged
    <2>3. ASSUME NEW s \in Site, Create(s) PROVE FALSE
      <3>1. PICK rows : Created(s, rows)
        BY <2>1, <2>3, CreateFrame
      <3>2. QED
        BY <3>1, CreatedStep DEF Created
    <2>4. ASSUME NEW q \in Run, Materialize(q) PROVE FALSE
      BY <2>1, <2>4 DEF Materialize, LoadExpectation, MaterializeChunk, FinishMaterialization, AbandonMaterialization,
                        Materializable
    <2>5. ASSUME NEW q \in Run, Claim(q) PROVE FALSE
      BY <2>1, <2>5, ClaimFrame DEF Claimed
    <2>6. ASSUME NEW q \in Run, Recover(q) PROVE FALSE
      <3>1. CASE RecoverRun(q)
        BY <2>1, <3>1 DEF RecoverRun
      <3>2. CASE LeaseExpires(q)
        BY <2>1, <3>2 DEF LeaseExpires, RunRow
      <3>3. QED
        BY <2>6, <3>1, <3>2 DEF Recover, ClaimFatal, StopProcess
    <2>7. CASE Crash \/ Restart \/ Ready \/ UNCHANGED vars
      BY <2>7 DEF Crash, StopProcess, Restart, Ready, vars
    <2>8. QED
      BY <1>1, <2>2, <2>3, <2>4, <2>5, <2>6, <2>7, OwnerActs DEF Next
  <1>2. WInv /\ [Next]_vars => [FreshLeaseProtectsStep]_vars
    BY <1>1
  <1>3. QED
    BY <1>2, WindowInvariance, PTL DEF Spec, FreshLeaseProtects

-----------------------------------------------------------------------------
(***************************************************************************)
(* The task engine implements FencedLeases, for every value of the          *)
(* constants.  A claim, a heartbeat, a chunk of the materialization or a    *)
(* crash is a stuttering step of the leases, a creation of runs is a Grant, *)
(* a change of a site is a Fence, and a commit, release or recovery of a    *)
(* windowed run is a step of Work.                                          *)
(***************************************************************************)
\* What the lease of a run is.
LEMMA LeaseFacts ==
    ASSUME NEW r \in Run, run[r] \in RunRow
    PROVE  /\ LeaseOf(r).state = "held" <=> (Windowed(r) /\ Active(r))
           /\ LeaseOf(r).state = "free" <=> (~Windowed(r) \/ run[r].status = "absent")
           /\ LeaseOf(r).state # "free" => LeaseOf(r).site = run[r].site /\ LeaseOf(r).hours = run[r].hours
           /\ LeaseOf(r).state = "free" => LeaseOf(r) = [state |-> "free", site |-> CHOOSE s \in Site : TRUE, hours |-> {}]
           /\ LeaseOf(r) \in [state : {"free", "held", "kept", "lost"}, site : Site, hours : SUBSET Hour]
PROOF
  <1>1. (CHOOSE s \in Site : TRUE) \in Site
    BY SiteAssumption
  <1>2. run[r].site \in Site /\ run[r].hours \in SUBSET Hour
    BY DEF RunRow
  <1>3. CASE Windowed(r) /\ run[r].status # "absent"
    BY <1>2, <1>3 DEF LeaseOf
  <1>4. CASE ~(Windowed(r) /\ run[r].status # "absent")
    BY <1>1, <1>4 DEF LeaseOf, Active, Unfinished
  <1>5. QED
    BY <1>3, <1>4

\* The same after a step.
LEMMA LeaseFactsNext ==
    ASSUME NEW r \in Run, run'[r] \in RunRow
    PROVE  /\ LeaseOf(r)'.state = "held" <=> (Windowed(r)' /\ Active(r)')
           /\ LeaseOf(r)'.state = "free" <=> (~Windowed(r)' \/ run'[r].status = "absent")
           /\ LeaseOf(r)'.state # "free" => LeaseOf(r)'.site = run'[r].site /\ LeaseOf(r)'.hours = run'[r].hours
           /\ LeaseOf(r)'.state = "free" => LeaseOf(r)' = [state |-> "free", site |-> CHOOSE s \in Site : TRUE, hours |-> {}]
           /\ LeaseOf(r)' \in [state : {"free", "held", "kept", "lost"}, site : Site, hours : SUBSET Hour]
PROOF
  <1>1. (CHOOSE s \in Site : TRUE) \in Site
    BY SiteAssumption
  <1>2. run'[r].site \in Site /\ run'[r].hours \in SUBSET Hour
    BY DEF RunRow
  <1>3. CASE Windowed(r)' /\ run'[r].status # "absent"
    BY <1>2, <1>3 DEF LeaseOf
  <1>4. CASE ~(Windowed(r)' /\ run'[r].status # "absent")
    BY <1>1, <1>4 DEF LeaseOf, Active, Unfinished
  <1>5. QED
    BY <1>3, <1>4

\* A lease depends on what its run is and on its status only.
LEMMA SameLease ==
    ASSUME NEW r \in Run, run'[r].task = run[r].task, run'[r].site = run[r].site, run'[r].hours = run[r].hours,
           run'[r].status = run[r].status \/ (Active(r) /\ Active(r)')
    PROVE  LeaseOf(r)' = LeaseOf(r)
  BY DEF LeaseOf, Windowed, Active, Unfinished

\* The initial state has no leases.
LEMMA LeaseInit == Init => Leases!Init
PROOF
  <1> SUFFICES ASSUME Init PROVE Leases!Init
    OBVIOUS
  <1>1. TypeOK
    BY TypeInit
  <1>2. \A r \in Run : LeaseOf(r).state = "free" /\ LeaseOf(r) \in Leases!Lease
    <2>1. \A r \in Run : run[r] \in RunRow /\ run[r].status = "absent"
      BY <1>1 DEF Init, TypeOK, NewSiteCollectionRun
    <2>2. QED
      BY <2>1, LeaseFacts DEF Leases!Lease
  <1>3. \A s \in Site : site[s].version = 1
    BY DEF Init, RestingSite
  <1>4. [s \in Site |-> Collectable(site[s])] \in [Site -> BOOLEAN]
    BY DEF Collectable
  <1>5. fact \in [Site -> [Hour -> {0, 1}]]
    BY DEF Init
  <1>6. QED
    BY <1>2, <1>3, <1>4, <1>5 DEF Leases!Init

-----------------------------------------------------------------------------
(* Steps.                                                                   *)

\* A step that changes no lease, no fact and no site is none of the leases'.
LEMMA LeaseStutter ==
    ASSUME \A s \in Site : site'[s].version = site[s].version /\ (Collectable(site'[s]) <=> Collectable(site[s])),
           \A r \in Run : LeaseOf(r)' = LeaseOf(r), fact' = fact
    PROVE  UNCHANGED Leases!vars
PROOF
  <1>1. [s \in Site |-> site[s].version]' = [s \in Site |-> site[s].version]
    OBVIOUS
  <1>2. [s \in Site |-> Collectable(site[s])]' = [s \in Site |-> Collectable(site[s])]
    <2>1. \A s \in Site : Collectable(site'[s]) = Collectable(site[s])
      BY DEF Collectable
    <2>2. QED
      BY <2>1
  <1>3. [r \in Run |-> LeaseOf(r)]' = [r \in Run |-> LeaseOf(r)]
    OBVIOUS
  <1>4. QED
    BY <1>1, <1>2, <1>3 DEF Leases!vars

\* A step of the engine on one run that may write a fact.
LEMMA EngineLease ==
    ASSUME WInv, WInv', NEW r \in Run, EngineFrame, SuccessMeansCollectedStep,
           \A q \in Run \ {r} : run'[q] = run[q], fact' = fact \/ Writes(r)
    PROVE  Leases!Work(r) \/ UNCHANGED Leases!vars
PROOF
  <1>1. /\ run[r] \in RunRow /\ run'[r] \in RunRow /\ site' = site
        /\ run'[r].task = run[r].task /\ run'[r].site = run[r].site /\ run'[r].hours = run[r].hours
        /\ run[r].site \in Site
    BY DEF WInv, IInv, TypeOK, EngineFrame, RunRow
  <1>2. \A q \in Run \ {r} : LeaseOf(q)' = LeaseOf(q)
    BY SameLease
  <1>3. CASE ~(Windowed(r) /\ Active(r))
    <2>1. fact' = fact
      BY <1>3, WriteIsFenced DEF Active, Unfinished
    <2>2. LeaseOf(r)' = LeaseOf(r)
      <3>1. CASE Windowed(r)
        <4>1. run'[r].status = run[r].status
          BY <1>3, <3>1 DEF EngineFrame, Active
        <4>2. QED
          BY <1>1, <4>1, SameLease
      <3>2. CASE ~Windowed(r)
        BY <1>1, <3>2 DEF LeaseOf, Windowed
      <3>3. QED
        BY <3>1, <3>2
    <2>3. QED
      BY <1>1, <1>2, <2>1, <2>2, LeaseStutter
  <1>4. CASE Windowed(r) /\ Active(r)
    <2>1. LeaseOf(r).state = "held" /\ LeaseOf(r).site = run[r].site /\ LeaseOf(r).hours = run[r].hours
      BY <1>1, <1>4, LeaseFacts
    <2>2. Collectable(site[run[r].site]) /\ run[r].version = site[run[r].site].version
      BY <1>4 DEF WInv, IInv, FenceHolds
    <2>3. \/ fact' = fact
          \/ \E h \in run[r].hours, v \in {0, site[run[r].site].version} : fact' = [fact EXCEPT ![run[r].site][h] = v]
      <3>1. CASE Writes(r)
        <4>1. PICK h \in run[r].hours : \E v \in {0, run[r].version, fact[run[r].site][h]} :
                fact' = [fact EXCEPT ![run[r].site][h] = v]
          BY <3>1, WriteIsFenced
        <4>2. fact \in [Site -> [Hour -> 0 .. MaxVersion]] /\ h \in Hour
          BY <1>1, <4>1 DEF WInv, IInv, TypeOK, RunRow
        <4>3. [fact EXCEPT ![run[r].site][h] = fact[run[r].site][h]] = fact
          BY <1>1, <4>2
        <4>4. QED
          BY <2>2, <4>1, <4>3
      <3>2. QED
        BY <3>1
    <2>4. CASE Active(r)'
      <3>1. [q \in Run |-> LeaseOf(q)]' = [q \in Run |-> LeaseOf(q)]
        BY <1>1, <1>2, <1>4, <2>4, SameLease
      <3>2. QED
        BY <1>1, <2>1, <2>2, <2>3, <3>1 DEF Leases!Work, Leases!Held, Leases!Store
    <2>5. CASE ~Active(r)'
      <3>1. run'[r].status \in {"success", "failed"} /\ run[r].status # "success"
        BY <1>1, <1>4, <2>5 DEF EngineFrame, Active, Unfinished, RunRow, RunStatus
      <3>2. run'[r].status = "success" => \A h \in run[r].hours : fact'[run[r].site][h] > 0
        BY <1>1, <1>4, <3>1 DEF SuccessMeansCollectedStep, Windowed
      <3>3. LeaseOf(r) = [state |-> "held", site |-> run[r].site, hours |-> run[r].hours]
        BY <1>4 DEF LeaseOf, Active, Unfinished
      <3>4. LeaseOf(r)' = [state |-> IF run'[r].status = "success" THEN "kept" ELSE "lost",
                           site |-> run[r].site, hours |-> run[r].hours]
        BY <1>1, <1>4, <2>5, <3>1 DEF LeaseOf, Windowed
      <3>5. LeaseOf(r)' = [LeaseOf(r) EXCEPT !.state = IF run'[r].status = "success" THEN "kept" ELSE "lost"]
        BY <3>3, <3>4
      <3>6. [q \in Run |-> LeaseOf(q)]' = [[q \in Run |-> LeaseOf(q)] EXCEPT
                ![r].state = IF run'[r].status = "success" THEN "kept" ELSE "lost"]
        BY <1>2, <3>5
      <3>7. Leases!End(r)
        BY <2>1, <3>1, <3>2, <3>6 DEF Leases!End
      <3>8. QED
        BY <1>1, <2>1, <2>2, <2>3, <3>7 DEF Leases!Work, Leases!Held, Leases!Store
    <2>6. QED
      BY <2>4, <2>5
  <1>5. QED
    BY <1>3, <1>4

\* A run whose row was just inserted takes a lease, or none.
LEMMA NewLease ==
    ASSUME WInv, WInv', NEW r \in Run, NEW s \in Site, NEW rows, NewRows(s, site'[s], rows),
           run'[r] \in rows, run[r].status = "absent"
    PROVE  LeaseOf(r)' = LeaseOf(r) \/ Leases!Take(r, s)
PROOF
  <1>1. \A q \in Run : run[q] \in RunRow /\ run'[q] \in RunRow
    BY DEF WInv, IInv, TypeOK
  <1>2. LeaseOf(r).state = "free"
    BY <1>1, LeaseFacts
  <1>3. /\ run'[r].site = s /\ run'[r].status \in {"pending", "success"}
        /\ run'[r].status = "success" => run'[r].hours = {}
        /\ run'[r].status = "pending" /\ Windowed(r)' => Collectable(site'[s])
    BY DEF NewRows, Fresh, Windowed
  <1>4. CASE ~Windowed(r)'
    BY <1>1, <1>2, <1>4, LeaseFacts, LeaseFactsNext
  <1>5. CASE Windowed(r)'
    <2>1. LeaseOf(r)'.site = s /\ LeaseOf(r)'.hours = run'[r].hours
      BY <1>1, <1>3, <1>5, LeaseFactsNext
    <2>2. \/ LeaseOf(r)'.state = "held" /\ Collectable(site'[s])
          \/ LeaseOf(r)'.state = "kept" /\ LeaseOf(r)'.hours = {}
      BY <1>1, <1>3, <1>5, <2>1 DEF LeaseOf, Active, Unfinished
    <2>3. ASSUME NEW q \in Run \ {r}, LeaseOf(q)'.state = "held", LeaseOf(q)'.site = s
          PROVE  LeaseOf(q)'.hours \cap LeaseOf(r)'.hours = {}
      <3>1. Windowed(q)' /\ Active(q)' /\ run'[q].site = s /\ LeaseOf(q)'.hours = run'[q].hours
        BY <1>1, <2>3, LeaseFactsNext
      <3>2. Active(r)' => run'[q].hours \cap run'[r].hours = {}
        BY <1>3, <1>5, <3>1 DEF WInv, IInv, NoOverlap
      <3>3. QED
        BY <1>3, <2>1, <3>1, <3>2 DEF Active, Unfinished
    <2>4. Leases!Take(r, s)
      BY <1>2, <2>1, <2>2, <2>3 DEF Leases!Take, Leases!Held
    <2>5. QED
      BY <2>4
  <1>6. QED
    BY <1>4, <1>5

\* The leases after a step have their type.
LEMMA LeaseTypeNext == ASSUME WInv' PROVE [r \in Run |-> LeaseOf(r)]' \in [Run -> Leases!Lease]
PROOF
  <1>1. \A r \in Run : run'[r] \in RunRow
    BY DEF WInv, IInv, TypeOK
  <1>2. QED
    BY <1>1, LeaseFactsNext DEF Leases!Lease

\* New runs take leases.
LEMMA CreateLease ==
    ASSUME WInv, WInv', NEW s \in Site, NEW rows, Created(s, rows)
    PROVE  Leases!Grant(s)
PROOF
  <1>1. UNCHANGED <<site, fact>> /\ NewRows(s, site'[s], rows)
    BY DEF Created
  <1>2. \A r \in Run : run'[r] = run[r] \/ (run'[r] \in rows /\ run[r].status = "absent")
    BY CreatedStep
  <1>3. \A r \in Run : LeaseOf(r)' = LeaseOf(r) \/ Leases!Take(r, s)
    BY <1>1, <1>2, SameLease, NewLease
  <1>4. QED
    BY <1>1, <1>3, LeaseTypeNext DEF Leases!Grant

\* A change of a site takes its leases away.
LEMMA FenceLease ==
    ASSUME WInv, WInv', NEW s \in Site, NEW row, NEW created, Fenced(s, row, created)
    PROVE  Leases!Fence(s)
PROOF
  <1>1. /\ TypeOK /\ site \in [Site -> SiteRow] /\ \A r \in Run : run[r] \in RunRow
        /\ site[s].version \in Nat
    BY DEF WInv, IInv, TypeOK, SiteRow
  <1>2. /\ site' = [site EXCEPT ![s] = row] /\ row.version = site[s].version + 1 /\ fact' = fact
        /\ NewRows(s, site'[s], created) /\ Insert(FencedRuns(s), created)
    BY <1>1 DEF Fenced, BumpSiteFence
  <1>3. [t \in Site |-> site[t].version]' = [[t \in Site |-> site[t].version] EXCEPT ![s] = @ + 1]
    BY <1>1, <1>2
  <1>4. \E now \in BOOLEAN : [t \in Site |-> Collectable(site[t])]' = [[t \in Site |-> Collectable(site[t])] EXCEPT ![s] = now]
    <2>1. Collectable(row) \in BOOLEAN
      BY DEF Collectable
    <2>2. [t \in Site |-> Collectable(site[t])]' = [[t \in Site |-> Collectable(site[t])] EXCEPT ![s] = Collectable(row)]
      BY <1>1, <1>2
    <2>3. QED
      BY <2>1, <2>2
  <1>5. ASSUME NEW r \in Run
        PROVE  IF LeaseOf(r).state = "held" /\ LeaseOf(r).site = s
               THEN LeaseOf(r)' = [LeaseOf(r) EXCEPT !.state = "lost"]
               ELSE LeaseOf(r)' = LeaseOf(r) \/ Leases!Take(r, s)
    <2>1. run'[r] = FencedRuns(s)[r] \/ (run'[r] \in created /\ run[r].status = "absent")
      BY <1>2, InsertLemma
    <2>2. CASE Active(r) /\ run[r].site = s
      <3>1. run[r].status # "absent"
        BY <2>2 DEF Active, Unfinished
      <3>2. run'[r] = SetRunStatus(run[r], "failed")
        BY <2>1, <2>2, <3>1 DEF FencedRuns
      <3>3. /\ run'[r].status = "failed" /\ run'[r].site = run[r].site
            /\ run'[r].task = run[r].task /\ run'[r].hours = run[r].hours
        BY <1>1, <3>2, SetRunStatusFrame
      <3>4. CASE Windowed(r)
        <4>1. LeaseOf(r) = [state |-> "held", site |-> run[r].site, hours |-> run[r].hours]
          BY <2>2, <3>1, <3>4 DEF LeaseOf
        <4>2. LeaseOf(r)' = [state |-> "lost", site |-> run[r].site, hours |-> run[r].hours]
          BY <3>3, <3>4 DEF LeaseOf, Windowed, Active, Unfinished
        <4>3. QED
          BY <2>2, <4>1, <4>2
      <3>5. CASE ~Windowed(r)
        <4>1. LeaseOf(r)' = LeaseOf(r) /\ LeaseOf(r).state = "free"
          BY <3>3, <3>5 DEF LeaseOf, Windowed
        <4>2. QED
          BY <4>1
      <3>6. QED
        BY <3>4, <3>5
    <2>3. CASE ~(Active(r) /\ run[r].site = s)
      <3>1. ~(LeaseOf(r).state = "held" /\ LeaseOf(r).site = s)
        BY <1>1, <2>3, LeaseFacts
      <3>2. run'[r] = run[r] => LeaseOf(r)' = LeaseOf(r)
        BY SameLease
      <3>3. LeaseOf(r)' = LeaseOf(r) \/ Leases!Take(r, s)
        BY <1>2, <2>1, <2>3, <3>2, NewLease DEF FencedRuns
      <3>4. QED
        BY <3>1, <3>3
    <2>4. QED
      BY <2>2, <2>3
  <1>6. QED
    BY <1>2, <1>3, <1>4, <1>5, LeaseTypeNext DEF Leases!Fence, Leases!Held

\* Every step of the engine is a step of the leases, or none.
LEMMA LeaseStep ==
    ASSUME WInv, [Next]_vars
    PROVE  [Leases!Next]_(Leases!vars)
PROOF
  <1>1. WInv' /\ SuccessMeansCollectedStep
    BY WindowStep, SuccessStep
  <1>2. TypeOK /\ EndedIsDisabled /\ site \in [Site -> SiteRow] /\ run \in [Run -> RunRow]
    BY DEF WInv, IInv, TypeOK
  <1>3. ASSUME NEW s \in Site, Lifecycle(s) PROVE [Leases!Next]_(Leases!vars)
    <2>1. CASE EndedChanged(s)
      <3>1. PICK ended \in BOOLEAN : site' = [site EXCEPT ![s].ended = ended]
        BY <2>1 DEF EndedChanged
      <3>2. /\ \A t \in Site \ {s} : site'[t] = site[t]
            /\ site'[s].version = site[s].version /\ site'[s].active = site[s].active
        BY <1>2, <3>1 DEF SiteRow
      <3>3. \A t \in Site : Collectable(site'[t]) <=> Collectable(site[t])
        BY <2>1, <3>2 DEF Collectable, EndedChanged
      <3>4. \A r \in Run : LeaseOf(r)' = LeaseOf(r)
        BY <2>1, SameLease DEF EndedChanged
      <3>5. UNCHANGED Leases!vars
        BY <2>1, <3>2, <3>3, <3>4, LeaseStutter DEF EndedChanged
      <3>6. QED
        BY <3>5
    <2>2. ASSUME NEW row, NEW created, Fenced(s, row, created) PROVE Leases!Next
      BY <1>1, <2>2, FenceLease DEF Leases!Next
    <2>3. QED
      BY <1>2, <1>3, <2>1, <2>2, LifecycleFrame
  <1>4. ASSUME NEW s \in Site, Create(s) PROVE Leases!Next
    BY <1>1, <1>2, <1>4, CreateFrame, CreateLease DEF Leases!Next
  <1>5. ASSUME NEW r \in Run, EngineFrame, \A q \in Run \ {r} : run'[q] = run[q], fact' = fact \/ Writes(r)
        PROVE  [Leases!Next]_(Leases!vars)
    BY <1>1, <1>5, EngineLease DEF Leases!Next
  <1>6. ASSUME NEW r \in Run, Claim(r) PROVE [Leases!Next]_(Leases!vars)
    <2>1. Claimed(r) /\ fact' = fact
      BY <1>2, <1>6, ClaimFrame DEF Claim, ClaimWindows, ClaimPlain, ClaimRun
    <2>2. \A q \in Run : LeaseOf(q)' = LeaseOf(q)
      BY <2>1, SameLease DEF Claimed, Active, Unfinished
    <2>3. UNCHANGED Leases!vars
      BY <2>1, <2>2, LeaseStutter DEF Claimed
    <2>4. QED
      BY <2>3
  <1>7. ASSUME NEW r \in Run, Materialize(r) PROVE [Leases!Next]_(Leases!vars)
    <2>1. fact' = fact /\ \A q \in Run \ {r} : run'[q] = run[q]
      BY <1>2, <1>7 DEF Materialize, LoadExpectation, MaterializeChunk, FinishMaterialization, AbandonMaterialization
    <2>2. QED
      BY <1>2, <1>5, <1>7, <2>1, MaterializeFrame
  <1>8. ASSUME NEW r \in Run, Recover(r) PROVE [Leases!Next]_(Leases!vars)
    <2>1. fact' = fact /\ \A q \in Run \ {r} : run'[q] = run[q]
      BY <1>2, <1>8 DEF Recover, RecoverRun, LeaseExpires, ClaimFatal, StopProcess
    <2>2. QED
      BY <1>2, <1>5, <1>8, <2>1, RecoverFrame
  <1>9. ASSUME NEW r \in Run, NEW e \in 1 .. MaxClaims, Execute(r, e) PROVE [Leases!Next]_(Leases!vars)
    BY <1>2, <1>5, <1>9, ExecuteFrame, ExecuteWrites
  <1>10. CASE Crash \/ Restart \/ Ready \/ UNCHANGED vars
    <2>1. UNCHANGED <<site, run, fact>>
      BY <1>10 DEF Crash, StopProcess, Restart, Ready, vars
    <2>2. UNCHANGED Leases!vars
      BY <2>1, SameLease, LeaseStutter
    <2>3. QED
      BY <2>2
  <1>11. QED
    BY <1>3, <1>4, <1>6, <1>7, <1>8, <1>9, <1>10 DEF Next

-----------------------------------------------------------------------------
\* The task engine, with all its claims, retries, recoveries, crashes and late answers,
\* implements fenced leases on the hours of its sites.
THEOREM Refinement == Spec => ImplementsLeases
  BY LeaseInit, LeaseStep, WindowInvariance, PTL DEF Spec, ImplementsLeases, Leases!Spec
=============================================================================
