-------------------------- MODULE CollectionSystem --------------------------
(***************************************************************************)
(* The task engine and the life of its sites together: the worker process,  *)
(* the schedulers and the API handlers share one database.                  *)
(***************************************************************************)
EXTENDS CollectionTask

(***************************************************************************)
(* What an administrator, a probe or an authorization check does to a site. *)
(* service/site_lifecycle.go, site_authorization.go, site_auth_expiry.go,   *)
(* site.go.  Each action is one transaction under the row lock of the site. *)
(* A change that makes queued work meaningless bumps config_version and     *)
(* fails every active run of the site in the same transaction (the fence).  *)
(*                                                                          *)
(* The site row keeps four facts: management status (active), auth status,  *)
(* whether statistics were ended, and ready: every required capability row  *)
(* is passed (requiredCapabilitiesReady), which implies data export.        *)
(* statistics_status is not kept: an active site is in pending_config or    *)
(* error exactly while it is not authorized and ready.                      *)
(*                                                                          *)
(* An operation that reads the site, talks to the upstream and comes back   *)
(* later checks config_version again under the lock and gives up when it    *)
(* moved, so only the transaction at its end is a step here.                *)
(***************************************************************************)
\* A site as the database may hold it when no run of it is active; version 1 is the
\* version observation starts from.
RestingSite(st) ==
    /\ st.version = 1
    /\ st.ended => ~st.active /\ st.rooted
    /\ st.auth # "unauthorized" => st.rooted
    /\ st.ready => st.auth # "unauthorized"

\* The site after the fence, before the caller's own changes.
Bumped(s) == [site[s] EXCEPT !.version = @ + 1]

CanBump(s) == proc # "down" /\ site[s].version < MaxVersion

\* BumpSiteFence and the row the caller saves; created runs are added to the same transaction.
BumpSiteFence(s, row, created) ==
    /\ CanBump(s)
    /\ site' = [site EXCEPT ![s] = row]
    /\ win' = FencedWindows(s)
    /\ Insert(FencedRuns(s), created)
    /\ UNCHANGED <<fact, exec, mat, proc, crashes>>

Disable(s) ==
    /\ site[s].active
    /\ BumpSiteFence(s, [Bumped(s) EXCEPT !.active = FALSE], {})

\* Enable starts the recovery backfill of the hours since the cursor, possibly none,
\* and the three refresh tasks.
Enable(s, hours) ==
    LET row == [Bumped(s) EXCEPT !.active = TRUE]
        backfill == CompleteEmptyRun(
                      NewSiteCollectionRun(s, row.version, "usage_backfill", hours, FALSE))
    IN  /\ ~site[s].active /\ ~site[s].ended
        /\ site[s].auth = "authorized" /\ site[s].ready
        /\ BumpSiteFence(s, row, {backfill} \cup
             {NewSiteCollectionRun(s, row.version, t, {}, FALSE) : t \in PlainTasks \cap TaskTypes})

EndStatistics(s) ==
    /\ proc # "down"
    /\ ~site[s].active /\ ~site[s].ended
    /\ site[s].rooted
    /\ site' = [site EXCEPT ![s].ended = TRUE]
    /\ UNCHANGED <<run, win, fact, exec, mat, proc, crashes>>

ClearStatisticsEnd(s) ==
    /\ proc # "down"
    /\ ~site[s].active /\ site[s].ended
    /\ site' = [site EXCEPT ![s].ended = FALSE]
    /\ UNCHANGED <<run, win, fact, exec, mat, proc, crashes>>

\* commitAuthorization.  The evidence says whether all capabilities passed; rotate: new
\* credentials were given, otherwise the stored ones were checked again.  A site that
\* becomes collectable gets its initial backfill, over all its hours so far.
commitAuthorization(s, ready, rotate, hours) ==
    LET needsFence == rotate \/ site[s].auth # "authorized" \/ site[s].ready # ready
        row == [Bumped(s) EXCEPT !.auth = "authorized", !.rooted = TRUE, !.ready = ready]
        backfill == CompleteEmptyRun(
                      NewSiteCollectionRun(s, row.version, "usage_backfill", hours, TRUE))
    IN  /\ needsFence
        /\ BumpSiteFence(s, row, IF ready /\ site[s].active THEN {backfill} ELSE {})

\* Mutant: the expiry is recorded without the fence.
ExpireWithoutFence(s) ==
    /\ proc # "down"
    /\ site[s].auth = "authorized"
    /\ site' = [site EXCEPT ![s].auth = "expired"]
    /\ UNCHANGED <<run, win, fact, exec, mat, proc, crashes>>

\* An upstream 401 seen by any task, or by an API call.
expireSiteAuthorization(s) ==
    /\ site[s].auth = "authorized"
    /\ BumpSiteFence(s, [Bumped(s) EXCEPT !.auth = "expired"], {})

\* The identity check of a recheck failed.
markRecheckIdentityFailure(s, expired) ==
    /\ site[s].auth # "unauthorized"
    /\ BumpSiteFence(s, [Bumped(s) EXCEPT !.ready = FALSE,
                           !.auth = IF expired THEN "expired" ELSE site[s].auth], {})

\* A probe that reached the upstream found a capability failed that was passed; the
\* fence also fails the probe's own run.  A probe never turns a failed capability back.
ProbeCapabilityFailure(s) ==
    /\ site[s].auth # "unauthorized"
    /\ BumpSiteFence(s, [Bumped(s) EXCEPT !.ready = FALSE], {})

\* The base URL changed: capabilities are dropped, and a new origin drops the credentials.
UpdateBaseURL(s, origin) ==
    BumpSiteFence(s, [Bumped(s) EXCEPT !.ready = FALSE,
                        !.auth = IF origin THEN "unauthorized" ELSE site[s].auth], {})

----------------------------------------------------------------------------
Init ==
    /\ site \in [Site -> {st \in SiteRow : RestingSite(st)}]
    /\ run = [r \in Run |->
                [NewSiteCollectionRun(CHOOSE s \in Site : TRUE, 1, "site_probe", {}, FALSE)
                   EXCEPT !.status = "absent"]]
    /\ win = [r \in Run |-> [h \in Hour |-> NoWindow]]
    /\ fact \in [Site -> [Hour -> {0, 1}]]
    /\ exec = [r \in Run |-> [e \in 1 .. MaxClaims |-> NoExecution]]
    /\ mat = [r \in Run |-> NoMaterialization]
    /\ proc = "up"
    /\ crashes = 0

Lifecycle(s) ==
    \/ Disable(s)
    \/ \E hours \in Ranges : Enable(s, hours)
    \/ EndStatistics(s)
    \/ ClearStatisticsEnd(s)
    \/ \E ready, rotate \in BOOLEAN, hours \in Ranges : commitAuthorization(s, ready, rotate, hours)
    \/ expireSiteAuthorization(s)
    \/ \E expired \in BOOLEAN : markRecheckIdentityFailure(s, expired)
    \/ ProbeCapabilityFailure(s)
    \/ \E origin \in BOOLEAN : UpdateBaseURL(s, origin)

Create(s) ==
    \/ \E task \in WindowedTasks \cap TaskTypes, hours \in Ranges \ {{}} :
         \/ CreateSiteWindowRunStrict(s, task, hours)
         \/ CreateSiteWindowRunGaps(s, task, hours)
    \/ \E task \in PlainTasks \cap TaskTypes : EnqueueSiteTask(s, task)
    \/ QueueRefresh(s)

Materialize(r) ==
    \/ LoadExpectation(r)
    \/ \E h \in Hour : MaterializeChunk(r, h)
    \/ FinishMaterialization(r)
    \/ AbandonMaterialization(r)

Claim(r) ==
    \/ \E due \in SUBSET Hour : ClaimWindows(r, due)
    \/ ClaimPlain(r)

\* The steps that bring an execution closer to its end.
Progress(r, e) ==
    \/ \E h \in Hour, o \in {"success", "retry", "canceled", "failed", "mismatch"} :
         \/ CompleteClaimedWindow(r, e, h, o)
         \/ EndInitialCommit(r, e, h, o)
    \/ \E h \in Hour : YieldWindow(r, e, h) \/ BeginInitialCommit(r, e, h) \/ InitialCommitLost(r, e, h)
    \/ CommitLost(r, e)
    \/ \E o \in {"success", "retry", "canceled", "failed"} : CommitClaim(r, e, o)
    \/ ReleaseOwnedRunning(r, e)
    \/ ReleaseFails(r, e)

Execute(r, e) ==
    \/ Progress(r, e)
    \/ YieldSlice(r, e)
    \/ CancelClaim(r, e)
    \/ Heartbeat(r, e)

Recover(r) == RecoverRun(r) \/ LeaseExpires(r) \/ ClaimFatal(r)

Next ==
    \/ \E s \in Site : Lifecycle(s) \/ Create(s)
    \/ \E r \in Run : Materialize(r) \/ Claim(r) \/ Recover(r)
    \/ \E r \in Run, e \in 1 .. MaxClaims : Execute(r, e)
    \/ Crash \/ Restart \/ Ready

Spec == Init /\ [][Next]_vars

-----------------------------------------------------------------------------
\* Every row of the tables and every execution has its declared shape.
TypeOK ==
    /\ site \in [Site -> SiteRow]
    /\ run \in [Run -> RunRow]
    /\ win \in [Run -> [Hour -> WindowRow]]
    /\ fact \in [Site -> [Hour -> 0 .. MaxVersion]]
    /\ exec \in [Run -> [1 .. MaxClaims -> Execution]]
    /\ mat \in [Run -> Materialization]
    /\ proc \in {"down", "starting", "up"}
    /\ crashes \in 0 .. MaxCrashes

\* An active run was created under the configuration its site has now, the site is still
\* managed, and a windowed run's site can still be collected from: no change of a site
\* leaves work behind that the fence should have failed (BumpSiteFence and its callers).
FenceHolds ==
    \A r \in Run : Active(r) =>
        LET st == site[run[r].site]
        IN  /\ run[r].version = st.version
            /\ st.active /\ ~st.ended
            /\ Windowed(r) => Collectable(st)

\* No two active runs of a site collect the same hour, whatever the order in which the
\* scheduler, the recovery after a probe and the API created them, and no non-windowed
\* task is queued twice (CreateSiteWindowRun, active_key).
NoOverlap ==
    \A q, r \in Run : (q # r /\ Active(q) /\ Active(r) /\ run[q].site = run[r].site) =>
        /\ Windowed(q) /\ Windowed(r) => run[q].hours \cap run[r].hours = {}
        /\ ~Windowed(q) => run[q].task # run[r].task

\* A site never has two runs of one task type running (scopeHasRunningTask).
OneRunningPerTask ==
    \A q, r \in Run : (q # r /\ run[q].status = "running" /\ run[r].status = "running")
        => run[q].site # run[r].site \/ run[q].task # run[r].task

\* Parent and windows agree: a window runs only while its run does, a run that is not
\* finished has a window left to settle once it is materialized, and a finished one has none;
\* it succeeded exactly when no window failed.  (commitWindowResults, ReleaseOwnedRunning,
\* recoverRun, FailLockedCollectionRun)  For a run of an initial backfill the running
\* parent is left out: see InitialBackfillSettles.
ParentMatchesWindows ==
    \A r \in Run : (run[r].initialized /\ Windowed(r)) =>
        LET st == run[r].status
        IN  /\ st = "pending" => RunningHours(r) = {} /\ PendingHours(r) # {}
            /\ (st = "running" /\ ~run[r].initial) => RunningHours(r) # {}
            /\ st \in Terminal => RunningHours(r) \cup PendingHours(r) = {}
            /\ st = "success" => \A h \in Hour : win[r][h].status # "failed"

\* The windows of a running run that are running are the ones the current claim still has
\* to settle, with the attempt it claimed; while its execution lives it can settle each.
\* So a release never takes a window from someone else, and a commit of the owner is
\* never refused for the window's sake.
OwnerHoldsItsWindows ==
    \A r \in Run : (run[r].status = "running" /\ Windowed(r)) =>
        LET x == exec[r][run[r].epoch]
        IN  x.phase \in {"exec", "yield", "ending"} =>
              /\ x.todo = RunningHours(r)
              /\ \A h \in x.todo : win[r][h].attempt = x.attempt[h]

\* While the lease is fresh and the site is not changed, only the execution of the current
\* claim ends the run or touches its windows: the late release, commit or failure of an
\* earlier claim of the same run leaves the new owner's work alone.
FreshLeaseProtectsStep ==
    \A r \in Run :
      (/\ run[r].status = "running" /\ run[r].heartbeat = "fresh"
       /\ proc = "up" /\ site' = site
       /\ run'[r].status # "running" \/ win'[r] # win[r])
      => exec'[r][run[r].epoch] # exec[r][run[r].epoch]

\* The same of every step.
FreshLeaseProtects == [][FreshLeaseProtectsStep]_vars

\* While the materializer works on a run nothing changes what it expects, and what it has
\* inserted so far, before a crash too, is part of it: MaterializeRunWindows never meets
\* ErrCollectionRunContract, which would stop the process.
MaterializationStable ==
    \A r \in Run : (run[r].status = "pending" /\ ~run[r].initialized) =>
        /\ mat[r].on => mat[r].hours = expectedSiteRunWindowHours(r)
        /\ Materialized(r) = PendingHours(r)
        /\ Materialized(r) \subseteq expectedSiteRunWindowHours(r)

\* A finished run and a settled window never change again: no late commit, release,
\* recovery or fence reopens them.
TerminalFrozen ==
    [][\A r \in Run :
         /\ run[r].status \in Terminal => run'[r] = run[r]
         /\ \A h \in Hour : win[r][h].status \in Terminal => win'[r][h] = win[r][h]]_vars

\* A fact is written only while its site can be collected from, with data that was fetched
\* under the site's current configuration: the late answer of an execution that began before
\* a fence is never stored.
FactsFencedStep ==
    \A s \in Site, h \in Hour : fact'[s][h] # fact[s][h] =>
        /\ Collectable(site[s])
        /\ fact'[s][h] \in {0, site[s].version}

\* The same of every step.
FactsFenced == [][FactsFencedStep]_vars

\* A run that finishes successfully leaves every hour of its range collected: the hours its
\* materialization left out, the windows it settled long before, and the last one.
SuccessMeansCollectedStep ==
    \A r \in Run : (run[r].status # "success" /\ run'[r].status = "success" /\ Windowed(r)')
      => \A h \in run'[r].hours : fact'[run'[r].site][h] > 0

\* The same of every step.
SuccessMeansCollected == [][SuccessMeansCollectedStep]_vars

-----------------------------------------------------------------------------
\* The lease that a run stands for: an active windowed run holds its hours.
LeaseOf(r) ==
    IF Windowed(r) /\ run[r].status # "absent"
    THEN [state |-> IF Active(r) THEN "held" ELSE IF run[r].status = "success" THEN "kept" ELSE "lost",
          site |-> run[r].site, hours |-> run[r].hours]
    ELSE [state |-> "free", site |-> CHOOSE s \in Site : TRUE, hours |-> {}]

Leases == INSTANCE FencedLeases WITH
    Holder <- Run,
    epoch <- [s \in Site |-> site[s].version],
    open <- [s \in Site |-> Collectable(site[s])],
    lease <- [r \in Run |-> LeaseOf(r)],
    stored <- fact

\* The engine implements fenced leases: with all its claims, retries, crashes and late
\* answers, an hour is only ever stored under the one lease on it and the site's current
\* configuration, and a run succeeds only when its hours are stored.
ImplementsLeases == Leases!Spec

-----------------------------------------------------------------------------
(***************************************************************************)
(* Fairness.  An execution goes on until it has released its claim (remote  *)
(* calls have timeouts, and so has the release), the reaper and the takeover*)
(* visit every running run, a heartbeat nobody renews grows old, and a      *)
(* process that stopped is started again (restart: unless-stopped).         *)
(* Nothing is assumed of the API, of the scheduler or of claims.            *)
(***************************************************************************)
OrphanExpires(r) ==
    /\ \A e \in 1 .. MaxClaims : Owns(r, e) => exec[r][e].phase = "done"
    /\ LeaseExpires(r)

Fairness ==
    /\ \A r \in Run : WF_vars(RecoverRun(r)) /\ WF_vars(OrphanExpires(r))
    /\ \A r \in Run, e \in 1 .. MaxClaims : WF_vars(Progress(r, e))
    /\ WF_vars(Restart) /\ WF_vars(Ready)

FairSpec == Spec /\ Fairness

\* No run stays running for ever, wherever its execution stopped: crashed, refused by the
\* fence, its release lost, or the recount of an initial backfill missed the last window.
RunningIsReleased == \A r \in Run : run[r].status = "running" ~> run[r].status # "running"

-----------------------------------------------------------------------------
\* Every active run passes the check its claim makes: the executor never meets a
\* candidate that stops the process (docs: all remote tasks but site_probe need an
\* active, authorized site without statistics_end_at).
NoPoisonRun == \A r \in Run : Active(r) => verifyTaskScope(r)

\* A running initial backfill has a window that is running.
InitialBackfillSettles ==
    \A r \in Run : (run[r].status = "running" /\ run[r].initial) => RunningHours(r) # {}
=============================================================================
