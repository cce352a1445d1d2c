--------------------------- MODULE CollectionTask ---------------------------
(***************************************************************************)
(* The database-backed task engine of the pilot: collection_run rows, their *)
(* collection_run_window rows, the usage facts the windows write, and the   *)
(* executions ("claims") that a worker process holds in memory.             *)
(*                                                                          *)
(* model/collection_task.go, model/site_run.go, model/site_run_state.go and *)
(* worker/executor.go, materializer.go, reaper.go.  Every action below is   *)
(* one database transaction of that code, or one step of the goroutine that *)
(* executes a claim.  All transactions on a run take the row lock of its    *)
(* site first, so each is atomic, with one exception that is kept: the      *)
(* recount of an initial backfill reads the windows through the transaction *)
(* snapshot, which is older than the lock (BeginInitialCommit).             *)
(*                                                                          *)
(* Time is abstracted to what the code compares it with: a heartbeat is     *)
(* fresh or older than the lease, a window's retry time has passed or not.  *)
(***************************************************************************)
EXTENDS Naturals, FiniteSets

CONSTANTS
    Site,                \* sites
    Run,                 \* primary keys of collection_run
    MaxHour,             \* hours 1 .. MaxHour can be collected
    TaskTypes,           \* the task types in use
    MaxAttempts,         \* attempt policy, by task type
    MaxWindow,           \* windows one claim may take (24, or 2048 for initial backfills)
    BackfillConcurrency, \* windows of an initial backfill executed at a time
    MaxClaims,           \* bound: claims of one run
    MaxVersion,          \* bound: config versions of a site
    MaxCrashes           \* bound: crashes of the worker process

WindowedTasks == {"usage_hour", "usage_backfill", "usage_validation"}
PlainTasks == {"site_probe", "realtime_stat"}

ASSUME SiteAssumption == Site # {}
ASSUME HourAssumption == MaxHour \in Nat
ASSUME TaskAssumption ==
    TaskTypes \subseteq WindowedTasks \cup PlainTasks /\ "usage_backfill" \in TaskTypes
ASSUME AttemptAssumption == MaxAttempts \in [TaskTypes -> Nat \ {0}]
ASSUME BoundAssumption ==
    /\ MaxWindow \in Nat \ {0}
    /\ BackfillConcurrency \in Nat \ {0}
    /\ MaxClaims \in Nat
    /\ MaxVersion \in Nat \ {0}
    /\ MaxCrashes \in Nat

Hour == 1 .. MaxHour

\* [start_timestamp, end_timestamp) as the set of its hours.
Ranges == {i .. j : i \in Hour, j \in Hour} \cup {{}}

VARIABLES
    site,   \* site row: config_version, management and auth status, statistics end, capabilities
    run,    \* collection_run rows
    win,    \* collection_run_window rows, by run and hour
    fact,   \* collection_window: 0 while not complete, else the config version that collected it
    exec,   \* in-memory execution of each claim, by run and claim number
    mat,    \* in-memory expectation of the materializer, by run
    proc,   \* the worker process: "down", "starting" (takeover) or "up"
    crashes

vars == <<site, run, win, fact, exec, mat, proc, crashes>>

AuthStatus == {"unauthorized", "authorized", "expired"}
RunStatus == {"absent", "pending", "running", "success", "failed"}
Terminal == {"success", "failed"}
Unfinished == {"pending", "running"}

\* rooted: the root user, hence statistics_start_at, is known.
SiteRow == [version : 1 .. MaxVersion, active : BOOLEAN, auth : AuthStatus,
            rooted : BOOLEAN, ended : BOOLEAN, ready : BOOLEAN]

\* epoch stands for last_request_id: the number of the claim that owns the run.
\* initial is priority = CollectionPriorityInitialBackfill.
RunRow == [status : RunStatus, site : Site, task : WindowedTasks \cup PlainTasks,
           version : 1 .. MaxVersion, hours : SUBSET Hour, initial : BOOLEAN,
           initialized : BOOLEAN, epoch : 0 .. MaxClaims,
           heartbeat : {"none", "fresh", "stale"}, retry : 0 .. MaxClaims]

WindowRow == [status : RunStatus, attempt : 0 .. MaxClaims]

\* attempt: attempt_count of the claimed windows, 0 for the others.  todo: claimed
\* windows without a committed result.  inflight and view: the commit transactions of
\* an initial backfill that took their snapshot and still wait for the site lock.
Execution == [phase : {"none", "exec", "yield", "ending", "done"},
              version : 0 .. MaxVersion, attempt : [Hour -> 0 .. MaxClaims],
              todo : SUBSET Hour, inflight : SUBSET Hour, view : [Hour -> SUBSET Hour]]

Materialization == [on : BOOLEAN, hours : SUBSET Hour]

NoExecution == [phase |-> "none", version |-> 0, attempt |-> [h \in Hour |-> 0],
                todo |-> {}, inflight |-> {}, view |-> [h \in Hour |-> {}]]
NoMaterialization == [on |-> FALSE, hours |-> {}]
NoWindow == [status |-> "absent", attempt |-> 0]

Windowed(r) == run[r].task \in WindowedTasks
Active(r) == run[r].status \in Unfinished
Materialized(r) == {h \in Hour : win[r][h].status # "absent"}
PendingHours(r) == {h \in Hour : win[r][h].status = "pending"}
RunningHours(r) == {h \in Hour : win[r][h].status = "running"}

-----------------------------------------------------------------------------
(* Which tasks a site admits.                                               *)

Collectable(st) == st.active /\ st.auth = "authorized" /\ ~st.ended /\ st.ready

\* siteAllowsTask, with the capability snapshot that windowed tasks add.
siteAllowsTask(st, task) ==
    /\ st.active /\ ~st.ended
    /\ task = "site_probe" \/ st.auth = "authorized"
    /\ task \in WindowedTasks => st.ready

verifyTaskScope(r) ==
    /\ run[r].version = site[run[r].site].version
    /\ siteAllowsTask(site[run[r].site], run[r].task)

-----------------------------------------------------------------------------
(* Creating runs.                                                           *)

NewSiteCollectionRun(s, version, task, hours, initial) ==
    [status |-> "pending", site |-> s, task |-> task, version |-> version,
     hours |-> hours, initial |-> initial, initialized |-> task \notin WindowedTasks,
     epoch |-> 0, heartbeat |-> "none", retry |-> 0]

\* An empty range has no window to materialize: the caller finishes it at once.
CompleteEmptyRun(row) ==
    IF row.hours = {} /\ row.task \in WindowedTasks
    THEN [row EXCEPT !.status = "success", !.initialized = TRUE]
    ELSE row

FreeRuns == {r \in Run : run[r].status = "absent"}

\* rows are inserted under fresh ids, on top of the table base.
Insert(base, rows) ==
    \E id \in [rows -> FreeRuns] :
        /\ \A a, b \in rows : id[a] = id[b] => a = b
        /\ run' = [r \in Run |-> IF \E a \in rows : id[a] = r
                                 THEN CHOOSE a \in rows : id[a] = r
                                 ELSE base[r]]

\* Mutant: only runs inside the requested range count.
ContainedRuns(s, hours) ==
    {r \in Run : Active(r) /\ Windowed(r) /\ run[r].site = s /\ run[r].hours \subseteq hours}

\* The active runs of the site's usage family that overlap hours.
Overlapping(s, hours) ==
    {r \in Run : Active(r) /\ Windowed(r) /\ run[r].site = s /\ run[r].hours \cap hours # {}}

\* The maximal runs of consecutive hours in S.
Segments(S) ==
    {p[1] .. p[2] : p \in {q \in S \X S :
        q[1] <= q[2] /\ q[1] .. q[2] \subseteq S /\ q[1] - 1 \notin S /\ q[2] + 1 \notin S}}

\* Mutant: runs that were claimed are not looked at.
UncoveredByPending(s, hours) ==
    hours \ UNION {run[r].hours : r \in {q \in Overlapping(s, hours) : run[q].status = "pending"}}

uncoveredSiteWindowRanges(s, hours) ==
    hours \ UNION {run[r].hours : r \in Overlapping(s, hours)}

collectableUsageBackfillRanges(s, hours) == {h \in hours : fact[s][h] = 0}

CanCreate(s) == proc # "down" /\ Collectable(site[s])

\* Mode strict: an overlapping active run refuses the request (or is returned for it).
CreateSiteWindowRunStrict(s, task, hours) ==
    /\ CanCreate(s)
    /\ Overlapping(s, hours) = {}
    /\ Insert(run, {NewSiteCollectionRun(s, site[s].version, task, hours, FALSE)})
    /\ UNCHANGED <<site, win, fact, exec, mat, proc, crashes>>

\* Modes schedule and gaps: one run for each range no active run covers; a backfill
\* also leaves out the hours that are settled.
CreateSiteWindowRunGaps(s, task, hours) ==
    LET free == uncoveredSiteWindowRanges(s, hours)
        wanted == IF task = "usage_backfill" THEN collectableUsageBackfillRanges(s, free)
                                             ELSE free
    IN  /\ CanCreate(s)
        /\ Insert(run, {NewSiteCollectionRun(s, site[s].version, task, g, FALSE) : g \in Segments(wanted)})
        /\ UNCHANGED <<site, win, fact, exec, mat, proc, crashes>>


\* The tasks among ts without an active run at s: the others are deduplicated by active_key.
NotQueued(s, ts) ==
    {t \in ts : \A r \in Run : ~(Active(r) /\ run[r].site = s /\ run[r].task = t)}

EnqueueSiteTask(s, task) ==
    /\ proc # "down"
    /\ siteAllowsTask(site[s], task)
    /\ task \in NotQueued(s, {task})
    /\ Insert(run, {NewSiteCollectionRun(s, site[s].version, task, {}, FALSE)})
    /\ UNCHANGED <<site, win, fact, exec, mat, proc, crashes>>

\* SiteService.QueueRefresh looks at the management status only.
QueueRefresh(s) ==
    LET queued == NotQueued(s, PlainTasks \cap TaskTypes)
    IN  /\ proc # "down"
        /\ site[s].active
        /\ Insert(run, {NewSiteCollectionRun(s, site[s].version, t, {}, FALSE) : t \in queued})
        /\ UNCHANGED <<site, win, fact, exec, mat, proc, crashes>>

-----------------------------------------------------------------------------
(* Parent status from the windows.                                          *)

\* Mutant: pending windows are counted before running ones.
RunStatusPendingFirst(ws) ==
    LET has(st) == \E h \in Hour : ws[h].status = st
    IN  IF has("pending") THEN "pending"
        ELSE IF has("running") THEN "running"
        ELSE IF has("failed") THEN "failed"
        ELSE "success"

\* RecalculateLockedCollectionRun without a forced failure.
RunStatusOf(ws) ==
    LET has(st) == \E h \in Hour : ws[h].status = st
    IN  IF has("running") THEN "running"
        ELSE IF has("pending") THEN "pending"
        ELSE IF has("failed") THEN "failed"
        ELSE "success"

SetRunStatus(row, status) ==
    [row EXCEPT !.status = status,
                !.heartbeat = IF status = "running" THEN row.heartbeat ELSE "none"]

\* Running windows go back to pending while the policy leaves them an attempt, and fail otherwise.
RequeueRunning(r) ==
    [h \in Hour |->
        IF win[r][h].status = "running"
        THEN [win[r][h] EXCEPT !.status =
                 IF win[r][h].attempt < MaxAttempts[run[r].task] THEN "pending" ELSE "failed"]
        ELSE win[r][h]]

\* Mutant: the fence overlooks what is running.
FencedPendingRuns(s) ==
    [r \in Run |-> IF run[r].status = "pending" /\ run[r].site = s
                   THEN SetRunStatus(run[r], "failed") ELSE run[r]]

\* FailLockedCollectionRun on every active run of s.
FencedRuns(s) ==
    [r \in Run |-> IF Active(r) /\ run[r].site = s THEN SetRunStatus(run[r], "failed") ELSE run[r]]

\* Mutant: the fence fails settled windows too.
FencedAllWindows(s) ==
    [r \in Run |->
        IF Active(r) /\ run[r].site = s
        THEN [h \in Hour |-> IF win[r][h].status # "absent"
                             THEN [win[r][h] EXCEPT !.status = "failed"] ELSE win[r][h]]
        ELSE win[r]]

FencedWindows(s) ==
    [r \in Run |->
        IF Active(r) /\ run[r].site = s
        THEN [h \in Hour |-> IF win[r][h].status \in Unfinished
                             THEN [win[r][h] EXCEPT !.status = "failed"] ELSE win[r][h]]
        ELSE win[r]]

-----------------------------------------------------------------------------
(* Materializing the windows of a run.                                      *)

\* expectedSiteRunWindowHours: an only_missing backfill leaves out settled hours.
expectedSiteRunWindowHours(r) ==
    IF run[r].task = "usage_backfill"
    THEN {h \in run[r].hours : fact[run[r].site][h] = 0}
    ELSE run[r].hours

Materializable(r) == run[r].status = "pending" /\ ~run[r].initialized /\ verifyTaskScope(r)

\* loadMaterializationExpectation; the materializer is one goroutine.
LoadExpectation(r) ==
    /\ proc # "down"
    /\ \A q \in Run : ~mat[q].on
    /\ Materializable(r)
    /\ mat' = [mat EXCEPT ![r] = [on |-> TRUE, hours |-> expectedSiteRunWindowHours(r)]]
    /\ UNCHANGED <<site, run, win, fact, exec, proc, crashes>>

\* One chunk of pending windows, inserted in hour order in a transaction of its own.
MaterializeChunk(r, h) ==
    /\ mat[r].on
    /\ Materializable(r)
    /\ mat[r].hours = expectedSiteRunWindowHours(r)
    /\ h \in mat[r].hours \ Materialized(r)
    /\ \A g \in mat[r].hours \ Materialized(r) : h <= g
    /\ win' = [win EXCEPT ![r][h] = [NoWindow EXCEPT !.status = "pending"]]
    /\ UNCHANGED <<site, run, fact, exec, mat, proc, crashes>>

\* The last transaction: the windows are exactly the expected ones and the run opens.
FinishMaterialization(r) ==
    /\ mat[r].on
    /\ Materializable(r)
    /\ mat[r].hours = expectedSiteRunWindowHours(r)
    /\ mat[r].hours = Materialized(r)
    /\ mat[r].hours = PendingHours(r)
    /\ run' = [run EXCEPT ![r] = SetRunStatus([run[r] EXCEPT !.initialized = TRUE],
                                              RunStatusOf(win[r]))]
    /\ mat' = [mat EXCEPT ![r] = NoMaterialization]
    /\ UNCHANGED <<site, win, fact, exec, proc, crashes>>

\* The run was fenced in between (ErrCollectionTaskClaimLost): the next run is tried.
AbandonMaterialization(r) ==
    /\ mat[r].on
    /\ ~Materializable(r)
    /\ mat' = [mat EXCEPT ![r] = NoMaterialization]
    /\ UNCHANGED <<site, run, win, fact, exec, proc, crashes>>

-----------------------------------------------------------------------------
(* Claiming.                                                                *)

\* Mutant: only the same range is looked for.
SameRangeRunning(r) ==
    \E q \in Run \ {r} : /\ run[q].status = "running"
                         /\ run[q].site = run[r].site
                         /\ run[q].hours = run[r].hours

scopeHasRunningTask(r) ==
    \E q \in Run \ {r} : /\ run[q].status = "running"
                         /\ run[q].site = run[r].site
                         /\ run[q].task = run[r].task

Candidate(r) == proc = "up" /\ run[r].status = "pending" /\ run[r].initialized

\* Mutant: the claim hands out the windows as they were read, before attempt_count was raised.
ClaimRunAsRead(r, ws, due) ==
    LET e == run[r].epoch + 1
    IN  /\ run' = [run EXCEPT ![r].status = "running", ![r].heartbeat = "fresh", ![r].epoch = e,
                              ![r].retry = IF Windowed(r) THEN @ ELSE @ + 1]
        /\ win' = [win EXCEPT ![r] = ws]
        /\ exec' = [exec EXCEPT ![r][e] =
                      [NoExecution EXCEPT !.phase = "exec", !.version = run[r].version, !.todo = due,
                         !.attempt = [h \in Hour |-> IF h \in due THEN win[r][h].attempt ELSE 0]]]
        /\ UNCHANGED <<site, fact, mat, proc, crashes>>

ClaimRun(r, ws, due) ==
    LET e == run[r].epoch + 1
    IN  /\ run' = [run EXCEPT ![r].status = "running", ![r].heartbeat = "fresh", ![r].epoch = e,
                              ![r].retry = IF Windowed(r) THEN @ ELSE @ + 1]
        /\ win' = [win EXCEPT ![r] = ws]
        /\ exec' = [exec EXCEPT ![r][e] =
                      [NoExecution EXCEPT !.phase = "exec", !.version = run[r].version, !.todo = due,
                         !.attempt = [h \in Hour |-> IF h \in due THEN ws[h].attempt ELSE 0]]]
        /\ UNCHANGED <<site, fact, mat, proc, crashes>>

\* claimCandidate on a windowed run: the newest MaxWindow windows that are due.  A
\* window that was never attempted is due; one that was retried may or may not be.
ClaimWindows(r, due) ==
    LET ready == PendingHours(r)
    IN  /\ Candidate(r) /\ Windowed(r)
        /\ run[r].epoch < MaxClaims
        /\ verifyTaskScope(r)
        /\ ~scopeHasRunningTask(r)
        /\ due # {} /\ due \subseteq ready
        /\ Cardinality(due) <= MaxWindow
        /\ \A h \in ready \ due :
              \/ win[r][h].attempt > 0
              \/ Cardinality(due) = MaxWindow /\ \A g \in due : h < g
        /\ ClaimRun(r, [h \in Hour |-> IF h \in due
                          THEN [status |-> "running", attempt |-> win[r][h].attempt + 1]
                          ELSE win[r][h]], due)

ClaimPlain(r) ==
    /\ Candidate(r) /\ ~Windowed(r)
    /\ run[r].epoch < MaxClaims
    /\ verifyTaskScope(r)
    /\ ~scopeHasRunningTask(r)
    /\ ClaimRun(r, win[r], {})

-----------------------------------------------------------------------------
(* Executing a claim.  e is the number of the claim.                        *)

\* Mutant: the owner token is not compared.
OwnsByStatus(r, e) == run[r].status = "running"

\* The execution still holds the run: status and last_request_id match.
Owns(r, e) == run[r].status = "running" /\ run[r].epoch = e

CanCommit(r, e) == Owns(r, e) /\ verifyTaskScope(r)

WindowMatches(r, e, h) == win[r][h].status = "running" /\ win[r][h].attempt = exec[r][e].attempt[h]

Executing(r, e) == exec[r][e].phase = "exec"

\* Windows are executed newest first; an initial backfill executes several at a time.
NextWindow(r, e, h) == h \in exec[r][e].todo /\ \A g \in exec[r][e].todo : g <= h

\* windowOutcome: what a window's execution ends in, and what the usage mutation of
\* that outcome makes of the hour's fact.  A request that was canceled is tried again
\* whatever its attempts.
Outcomes(r, e, h) ==
    {"success", "failed", "mismatch", "canceled"} \cup
    (IF exec[r][e].attempt[h] < MaxAttempts[run[r].task] THEN {"retry"} ELSE {})

\* Mutants: an outcome the recount does not know; a mismatch that counts as settled.
OutcomeStatusCanceled(o) ==
    CASE o = "success" -> "success"
      [] o \in {"retry", "canceled"} -> "canceled"
      [] OTHER -> "failed"

OutcomeStatusLenient(o) ==
    CASE o \in {"success", "mismatch"} -> "success"
      [] o \in {"retry", "canceled"} -> "pending"
      [] OTHER -> "failed"

OutcomeStatus(o) ==
    CASE o = "success" -> "success"
      [] o \in {"retry", "canceled"} -> "pending"
      [] OTHER -> "failed"

FactAfter(r, e, h, o) ==
    CASE o = "success" -> exec[r][e].version
      [] o = "mismatch" -> 0
      [] OTHER -> fact[run[r].site][h]

SettleWindow(r, h, status) == [win[r] EXCEPT ![h].status = status]

\* Mutant: the result is stored on the word of the claim in memory.
CompleteWithoutRecheck(r, e, h, o) ==
    /\ Executing(r, e) /\ ~run[r].initial
    /\ NextWindow(r, e, h)
    /\ fact' = [fact EXCEPT ![run[r].site][h] = FactAfter(r, e, h, o)]
    /\ exec' = [exec EXCEPT ![r][e].todo = @ \ {h}]
    /\ UNCHANGED <<site, run, win, mat, proc, crashes>>

\* CompleteClaimedWindow: mutation, window, parent recount in one transaction.
CompleteClaimedWindow(r, e, h, o) ==
    /\ Executing(r, e) /\ ~run[r].initial
    /\ NextWindow(r, e, h)
    /\ CanCommit(r, e)
    /\ WindowMatches(r, e, h)
    /\ o \in Outcomes(r, e, h)
    /\ LET ws == SettleWindow(r, h, OutcomeStatus(o))
       IN  /\ win' = [win EXCEPT ![r] = ws]
           /\ run' = [run EXCEPT ![r] = SetRunStatus(run[r], RunStatusOf(ws))]
    /\ fact' = [fact EXCEPT ![run[r].site][h] = FactAfter(r, e, h, o)]
    /\ exec' = [exec EXCEPT ![r][e].todo = @ \ {h}]
    /\ UNCHANGED <<site, mat, proc, crashes>>

\* The time slice is over: never before the first window, and then for all that remain.
YieldSlice(r, e) ==
    /\ Executing(r, e) /\ ~run[r].initial
    /\ exec[r][e].todo # {}
    /\ \E h \in Hour \ exec[r][e].todo : exec[r][e].attempt[h] > 0
    /\ exec' = [exec EXCEPT ![r][e].phase = "yield"]
    /\ UNCHANGED <<site, run, win, fact, mat, proc, crashes>>

\* The remaining windows are put back one by one, without a mutation.
YieldWindow(r, e, h) ==
    /\ exec[r][e].phase = "yield"
    /\ NextWindow(r, e, h)
    /\ CanCommit(r, e)
    /\ WindowMatches(r, e, h)
    /\ LET ws == SettleWindow(r, h, "pending")
       IN  /\ win' = [win EXCEPT ![r] = ws]
           /\ run' = [run EXCEPT ![r] = SetRunStatus(run[r], RunStatusOf(ws))]
    /\ exec' = [exec EXCEPT ![r][e].todo = @ \ {h}]
    /\ UNCHANGED <<site, fact, mat, proc, crashes>>

StartInitial(x, h, seen) == [x EXCEPT !.inflight = @ \cup {h}, !.view = [@ EXCEPT ![h] = seen]]
FinishInitial(x, h) == [x EXCEPT !.todo = @ \ {h}, !.inflight = @ \ {h}, !.view = [@ EXCEPT ![h] = {}]]

\* executeInitialBackfillClaim: the commit transaction of a window reads the run,
\* which fixes its snapshot of the window table, and then waits for the site lock.
BeginInitialCommit(r, e, h) ==
    LET x == exec[r][e]
    IN  /\ Executing(r, e) /\ run[r].initial
        /\ h \in x.todo \ x.inflight
        /\ Cardinality(x.inflight) < BackfillConcurrency
        /\ exec' = [exec EXCEPT ![r][e] = StartInitial(@, h, RunningHours(r))]
        /\ UNCHANGED <<site, run, win, fact, mat, proc, crashes>>

\* recalculateInitialBackfillRun: its own write, the other windows as the snapshot has
\* them.  While the run is owned only this claim's windows change, from running, so a
\* window that the snapshot does not show running is as it is now.
RunStatusSeen(ws, view, h) == RunStatusOf([g \in Hour |->
    IF g \in view \ {h} THEN [ws[g] EXCEPT !.status = "running"] ELSE ws[g]])

EndInitialCommit(r, e, h, o) ==
    /\ h \in exec[r][e].inflight
    /\ CanCommit(r, e)
    /\ WindowMatches(r, e, h)
    /\ o \in Outcomes(r, e, h)
    /\ LET ws == SettleWindow(r, h, OutcomeStatus(o))
       IN  /\ win' = [win EXCEPT ![r] = ws]
           /\ run' = [run EXCEPT ![r] = SetRunStatus(run[r], RunStatusSeen(ws, exec[r][e].view[h], h))]
    /\ fact' = [fact EXCEPT ![run[r].site][h] = FactAfter(r, e, h, o)]
    /\ exec' = [exec EXCEPT ![r][e] = FinishInitial(@, h)]
    /\ UNCHANGED <<site, mat, proc, crashes>>

\* The other windows of the claim go on: each finds out for itself.
InitialCommitLost(r, e, h) ==
    /\ h \in exec[r][e].inflight
    /\ ~(CanCommit(r, e) /\ WindowMatches(r, e, h))
    /\ exec' = [exec EXCEPT ![r][e] = FinishInitial(@, h)]
    /\ UNCHANGED <<site, run, win, fact, mat, proc, crashes>>

\* A sequential execution stops at the first commit that is refused.
CommitLost(r, e) ==
    /\ exec[r][e].phase \in {"exec", "yield"} /\ ~run[r].initial
    /\ Windowed(r) => exec[r][e].todo # {}
    /\ ~CanCommit(r, e) \/ \E h \in exec[r][e].todo : NextWindow(r, e, h) /\ ~WindowMatches(r, e, h)
    /\ exec' = [exec EXCEPT ![r][e].phase = "ending"]
    /\ UNCHANGED <<site, run, win, fact, mat, proc, crashes>>

\* executeNonWindow: what the execution of another task ends in.
PlainOutcomes(r) ==
    {"success", "failed", "canceled"} \cup (IF run[r].retry < MaxAttempts[run[r].task] THEN {"retry"} ELSE {})

\* commitNonWindowResult.
CommitClaim(r, e, o) ==
    /\ Executing(r, e) /\ ~Windowed(r)
    /\ CanCommit(r, e)
    /\ o \in PlainOutcomes(r)
    /\ run' = [run EXCEPT ![r] = SetRunStatus(run[r], OutcomeStatus(o))]
    /\ exec' = [exec EXCEPT ![r][e].phase = "ending"]
    /\ UNCHANGED <<site, win, fact, mat, proc, crashes>>

Heartbeat(r, e) ==
    /\ exec[r][e].phase \in {"exec", "yield"}
    /\ Owns(r, e)
    /\ run[r].heartbeat = "stale"
    /\ run' = [run EXCEPT ![r].heartbeat = "fresh"]
    /\ UNCHANGED <<site, win, fact, exec, mat, proc, crashes>>

\* The claim's context ends: the heartbeat was refused or failed, or the runtime stops.
CancelClaim(r, e) ==
    /\ exec[r][e].phase \in {"exec", "yield"}
    /\ exec' = [exec EXCEPT ![r][e].phase = "ending"]
    /\ UNCHANGED <<site, run, win, fact, mat, proc, crashes>>

\* The deferred release at the end of executeClaim: nothing is left to do, or the
\* context ended.  Commits of an initial backfill that are under way finish first.
AtEnd(r, e) ==
    LET x == exec[r][e]
    IN  /\ x.inflight = {}
        /\ x.phase = "ending" \/ (x.phase \in {"exec", "yield"} /\ Windowed(r) /\ x.todo = {})

\* ReleaseOwnedRunning.  A windowed run without a running window is left as it is.
ReleaseOwnedRunning(r, e) ==
    /\ AtEnd(r, e)
    /\ exec' = [exec EXCEPT ![r][e] = [NoExecution EXCEPT !.phase = "done"]]
    /\ IF ~Owns(r, e) \/ (Windowed(r) /\ RunningHours(r) = {})
       THEN UNCHANGED <<run, win>>
       ELSE /\ win' = [win EXCEPT ![r] = RequeueRunning(r)]
            /\ run' = [run EXCEPT ![r] =
                 SetRunStatus(run[r], IF Windowed(r) THEN RunStatusOf(RequeueRunning(r)) ELSE "pending")]
    /\ UNCHANGED <<site, fact, mat, proc, crashes>>

\* The release did not reach the database: the run stays running without an owner.
ReleaseFails(r, e) ==
    /\ AtEnd(r, e)
    /\ exec' = [exec EXCEPT ![r][e] = [NoExecution EXCEPT !.phase = "done"]]
    /\ UNCHANGED <<site, run, win, fact, mat, proc, crashes>>

-----------------------------------------------------------------------------
(* Leases, recovery, crashes.                                               *)

\* No heartbeat for collectionTaskLeaseTimeout.
LeaseExpires(r) ==
    /\ run[r].status = "running" /\ run[r].heartbeat = "fresh"
    /\ run' = [run EXCEPT ![r].heartbeat = "stale"]
    /\ UNCHANGED <<site, win, fact, exec, mat, proc, crashes>>

\* Mutant: a run without a running window is not recovered.
RecoverRunWithWindows(r) ==
    /\ run[r].status = "running"
    /\ proc = "starting" \/ (proc = "up" /\ run[r].heartbeat # "fresh")
    /\ RunningHours(r) # {}
    /\ win' = [win EXCEPT ![r] = RequeueRunning(r)]
    /\ run' = [run EXCEPT ![r] = SetRunStatus(run[r], RunStatusOf(RequeueRunning(r)))]
    /\ UNCHANGED <<site, fact, exec, mat, proc, crashes>>

\* recoverRun: by the reaper once the lease is over, by the takeover of a new process at once.
RecoverRun(r) ==
    /\ run[r].status = "running"
    /\ proc = "starting" \/ (proc = "up" /\ run[r].heartbeat # "fresh")
    /\ win' = IF Windowed(r) THEN [win EXCEPT ![r] = RequeueRunning(r)] ELSE win
    /\ run' = [run EXCEPT ![r] = SetRunStatus(run[r],
                 IF Windowed(r) THEN RunStatusOf(RequeueRunning(r))
                 ELSE IF run[r].retry < MaxAttempts[run[r].task] THEN "pending" ELSE "failed")]
    /\ UNCHANGED <<site, fact, exec, mat, proc, crashes>>

StopProcess ==
    /\ proc' = "down"
    /\ exec' = [r \in Run |-> [e \in 1 .. MaxClaims |->
                  IF exec[r][e].phase = "none" THEN NoExecution
                  ELSE [NoExecution EXCEPT !.phase = "done"]]]
    /\ mat' = [r \in Run |-> NoMaterialization]
    /\ crashes' = crashes + 1
    /\ UNCHANGED <<site, run, win, fact>>

Crash == proc # "down" /\ crashes < MaxCrashes /\ StopProcess

\* ClaimNext returns an error that fatalPollError does not forgive and the process exits:
\* a candidate fails verifyTaskScopeLocked.
ClaimFatal(r) ==
    /\ Candidate(r)
    /\ ~verifyTaskScope(r)
    /\ crashes < MaxCrashes
    /\ StopProcess

Restart ==
    /\ proc = "down"
    /\ proc' = "starting"
    /\ UNCHANGED <<site, run, win, fact, exec, mat, crashes>>

\* Takeover is over when nothing is left running; the other components start.
Ready ==
    /\ proc = "starting"
    /\ \A r \in Run : run[r].status # "running"
    /\ proc' = "up"
    /\ UNCHANGED <<site, run, win, fact, exec, mat, crashes>>
=============================================================================
