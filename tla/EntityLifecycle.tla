--------------------------- MODULE EntityLifecycle ---------------------------
(***************************************************************************)
(* Archiving and restoring accounts, disabling and enabling customers, and  *)
(* the local rebuilds that bring their statistics back (model/account.go,   *)
(* model/customer.go, model/statistics_pause.go, model/local_rebuild.go and *)
(* the services), beside the commits of UsageAggregation.                   *)
(*                                                                          *)
(* Every user of a site used one unit in every hour.  A pause boundary is   *)
(* the current hour.  The claims and retries of a rebuild's windows are     *)
(* those of CollectionTask: here a window succeeds once, or fails for good. *)
(*                                                                          *)
(* A transaction sees, in its plain reads, what was committed before the    *)
(* first of them.  Archive, Disable and a rebuild read before they wait for *)
(* the lock of the site: waiting is such a transaction with its view.  A    *)
(* deletion and a mismatch lock first, so their view is the present.        *)
(***************************************************************************)
EXTENDS UsageAggregation

CONSTANTS
    Created,   \* accounts whose creation rebuild is pending at the start
    MaxRuns,   \* bound: local rebuild runs
    MaxPauses, \* bound: pauses of accounts and customers
    MayWait    \* whether a transaction may have to wait after its first read

VARIABLES
    runs,      \* collection_run of the types account_rebuild and customer_rebuild
    wanted,    \* ghost: entities whose owner's last request was to open them
    touched,   \* ghost: what met an active rebuild: a collection, a pause, another rebuild;
               \* and "overtaken", once a transaction committed on an older view
    pauses,    \* pauses so far
    waiting    \* the transaction that has read and waits for its locks, or Nobody

lifecycleVars == <<aggregationVars, runs, wanted, touched, pauses, waiting>>

Nobody == [t |-> "none"]

\* What plain reads of a transaction return.
Present == [now |-> now, account |-> account, customer |-> customer, hourly |-> hourly, daily |-> daily]

Active(r) == r.status \in {"pending", "running"}
RunsOf(target) == {i \in DOMAIN runs : runs[i].target = target}
AccountsOf(c) == {a \in Accounts : CustomerOf[a] = c /\ account[a].managed # "deleted"}
SitesOf(target) ==
    IF target \in Accounts THEN {SiteOf[target]} ELSE {SiteOf[a] : a \in AccountsOf(target)}

\* newLocalRebuildRun.
NewRun(target, start, end) ==
    [target |-> target, start |-> start, end |-> IF end < start THEN start ELSE end,
     status |-> "pending", windows |-> <<>>]

LifecycleInit ==
    /\ Init
    /\ runs = [i \in 1 .. Cardinality(Created) |->
                  LET a == CHOOSE x \in Created : TRUE IN NewRun(a, CreatedAt[a], now)]
    /\ wanted = Accounts \cup Customers
    /\ touched = {}
    /\ pauses = 0
    /\ waiting = Nobody

\* A commit on the view v while others are active.
Touch(what, others, v) ==
    touched' = touched \cup {x \in {what} : \E i \in others : Active(runs[i])}
                       \cup {x \in {"overtaken"} : v # Present}

-----------------------------------------------------------------------------
(* Pauses: cleanupStatisticsForPause.                                       *)

\* statisticsPauseDataStatus and the finality of the row from before.
KeptRow(n, old) ==
    IF n = 0 THEN NoRow
    ELSE DailyRow(n, IF old.status = "partial" THEN "partial" ELSE "complete", old.final)

\* cleanupPausedAccountStatistics: P gives the boundaries of the accounts.
CleanAccountHourly(rows, P) ==
    [a \in Accounts |-> IF a \notin DOMAIN P THEN rows[a]
                        ELSE [h \in Hours |-> IF h < P[a] THEN rows[a][h] ELSE 0]]

\* The rows from the boundary on are deleted as they are now, and made again
\* from those the transaction sees.
CleanAccountDaily(v, P, rows) ==
    [a \in Accounts |->
        [d \in Days |->
            IF a \notin DOMAIN P THEN daily.account[a][d]
            ELSE IF d < Day(P[a]) THEN daily.account[a][d]
            ELSE KeptRow(SumOver(HoursOf(d), LAMBDA h : rows[a][h]), v.daily.account[a][d])]]

\* statisticsPauseCustomerSites: the first hour of each customer and site that changes.
Boundary(P, C, c, s) ==
    Min({P[a] : a \in {x \in DOMAIN P : CustomerOf[x] = c /\ SiteOf[x] = s}}
        \cup {C[x] : x \in {x \in DOMAIN C : x = c /\ s \in SitesOf(c)}} \cup {NoPause})

\* The rows of accounts that count for a customer: those before every pause.
Shared(acc, C, rows, c, s, h) ==
    SumOver({a \in Accounts : /\ CustomerOf[a] = c /\ SiteOf[a] = s /\ acc[a].managed # "deleted"
                              /\ h < acc[a].pause /\ (c \in DOMAIN C => h < C[c])},
            LAMBDA a : rows[a][h])

\* rebuildPausedCustomerHourly and rebuildPausedCustomerDaily.
CleanCustomerHourly(acc, P, C, rows) ==
    [c \in Customers |-> [s \in Sites |-> [h \in Hours |->
        IF h < Boundary(P, C, c, s) THEN hourly.customer[c][s][h] ELSE Shared(acc, C, rows, c, s, h)]]]

CleanCustomerDaily(v, acc, P, C, rows) ==
    [c \in Customers |-> [s \in Sites |-> [d \in Days |->
        IF Boundary(P, C, c, s) = NoPause \/ d < Day(Boundary(P, C, c, s)) THEN daily.customer[c][s][d]
        ELSE KeptRow(SumOver(HoursOf(d), LAMBDA h : Shared(acc, C, rows, c, s, h)),
                     v.daily.customer[c][s][d])]]]

\* Mutant: the customers' rows keep the share of the paused accounts.
CleanupAccountsOnly(v, new, P, C) ==
    LET rows == CleanAccountHourly(v.hourly.account, P)
    IN  /\ hourly' = [hourly EXCEPT !.account = CleanAccountHourly(@, P)]
        /\ daily' = [daily EXCEPT !.account = CleanAccountDaily(v, P, rows)]

\* cleanupStatisticsForPause in a transaction that sees v and its own writes:
\* new holds the accounts of P.
Cleanup(v, new, P, C) ==
    LET rows == CleanAccountHourly(v.hourly.account, P)
        acc == [a \in Accounts |-> IF a \in DOMAIN P THEN new[a] ELSE v.account[a]]
    IN  /\ hourly' = [hourly EXCEPT !.account = CleanAccountHourly(@, P),
                                    !.customer = CleanCustomerHourly(acc, P, C, rows)]
        /\ daily' = [daily EXCEPT !.account = CleanAccountDaily(v, P, rows),
                                  !.customer = CleanCustomerDaily(v, acc, P, C, rows)]

Earlier(old, new) == IF old < new THEN old ELSE new

Pausing(v) == pauses < MaxPauses /\ pauses' = pauses + 1 /\ Touch("pause", DOMAIN runs, v)

\* AccountService.Archive and AccountRepository.Archive: the status is looked
\* at before the transaction only.
Archive(a, v) ==
    /\ v.account[a].managed = "active"
    /\ account[a].managed # "deleted"
    /\ Pausing(v)
    /\ account' = [account EXCEPT ![a].managed = "archived", ![a].pause = Earlier(@, v.now)]
    /\ Cleanup(v, account', [x \in {a} |-> account'[a].pause], <<>>)
    /\ wanted' = wanted \ {a}
    /\ UNCHANGED <<now, window, facts, customer, runs>>

\* MarkIdentityMismatch, or a snapshot of the site's users that shows another
\* person behind the id; the state is not left again.
IdentityMismatch(a) ==
    /\ account[a].managed # "deleted"
    /\ Pausing(Present)
    /\ account' = [account EXCEPT ![a].remote = "identity_mismatch", ![a].pause = Earlier(@, now)]
    /\ Cleanup(Present, account', [x \in {a} |-> account'[a].pause], <<>>)
    /\ UNCHANGED <<now, window, facts, customer, runs, wanted>>

\* DisableInTransaction: the active accounts take the customer's boundary.  The
\* accounts must be the ones that were read before the locks.
Disable(c, v) ==
    /\ \A a \in Accounts : CustomerOf[a] = c =>
           (v.account[a].managed = "deleted" <=> account[a].managed = "deleted")
    /\ Pausing(v)
    /\ LET p == Earlier(customer[c].pause, v.now)
           A == {a \in AccountsOf(c) : account[a].managed = "active"}
       IN  /\ customer' = [customer EXCEPT ![c] = [status |-> "disabled", pause |-> p]]
           /\ account' = [a \in Accounts |->
                             IF a \in A THEN [account[a] EXCEPT !.pause = Earlier(@, p)] ELSE account[a]]
           /\ Cleanup(v, account', [a \in A |-> account'[a].pause], [x \in {c} |-> p])
    /\ wanted' = wanted \ {c}
    /\ UNCHANGED <<now, window, facts, runs>>

\* accountDeletionDependencies: its statistics and the runs under way.
Dependent(a) ==
    \/ \E h \in Hours : hourly.account[a][h] > 0
    \/ \E d \in Days : daily.account[a][d] # NoRow
    \/ \E i \in RunsOf(a) \cup RunsOf(CustomerOf[a]) : Active(runs[i])

\* AccountRepository.DeleteByID and deleteAccountOwnedMetadata.
Delete(a) ==
    /\ account[a].managed # "deleted"
    /\ ~Dependent(a)
    /\ account' = [account EXCEPT ![a].managed = "deleted"]
    /\ UNCHANGED <<now, window, facts, customer, hourly, daily, runs, wanted, touched, pauses>>

-----------------------------------------------------------------------------
(* Restoring: a rebuild of the paused hours, then the opening.              *)

\* activeLocalRebuildRun and CreateOrGetRun: an active run of the same range
\* is returned, one of another range refuses the request.
CreateRun(target, pause) ==
    LET run == NewRun(target, pause, now)
        active == {i \in RunsOf(target) : Active(runs[i])}
    IN  IF active # {}
        THEN /\ \A i \in active : runs[i].start = run.start /\ runs[i].end = run.end
             /\ runs' = runs
        ELSE Cardinality(DOMAIN runs) < MaxRuns /\ runs' = [i \in DOMAIN runs \cup {Cardinality(DOMAIN runs) + 1} |->
                                                   IF i \in DOMAIN runs THEN runs[i] ELSE run]

\* AccountService.Restore.
Restore(a) ==
    /\ customer[CustomerOf[a]].status # "disabled"
    /\ account[a].remote # "identity_mismatch"
    /\ account[a].managed = "archived"
    /\ account[a].pause # NoPause
    /\ CreateRun(a, account[a].pause)
    /\ wanted' = wanted \cup {a}
    /\ UNCHANGED <<aggregationVars, touched, pauses>>

\* CustomerService.Enable.
Enable(c) ==
    /\ customer[c].status = "disabled"
    /\ CreateRun(c, customer[c].pause)
    /\ wanted' = wanted \cup {c}
    /\ UNCHANGED <<aggregationVars, touched, pauses>>

\* localRebuildRunCoversPause.
CoversPause(r, pause) == r.start <= pause /\ pause <= r.end


\* finalizeAccountRebuildLifecycle: the rows are those of the view, the update
\* goes to the current one.
FinalizeAccount(r, a, v) ==
    IF v.account[a].managed = "active" /\ v.account[a].pause = NoPause
    THEN UNCHANGED <<account, customer>>
    ELSE /\ v.customer[CustomerOf[a]].status # "disabled"
         /\ v.account[a].remote # "identity_mismatch"
         /\ v.account[a].managed = "archived"
         /\ CoversPause(r, v.account[a].pause)
         /\ account' = [account EXCEPT ![a].managed = "active", ![a].pause = NoPause]
         /\ UNCHANGED customer

\* The accounts of a customer that are neither archived nor replaced, as seen in v.
Openable(c, v) ==
    {a \in Accounts : /\ CustomerOf[a] = c
                      /\ v.account[a].managed \notin {"archived", "deleted"}
                      /\ v.account[a].remote # "identity_mismatch"}

\* finalizeCustomerRebuildLifecycle.
FinalizeCustomer(r, c, v) ==
    LET A == Openable(c, v)
    IN  IF v.customer[c].status = "using" /\ v.customer[c].pause = NoPause
        THEN UNCHANGED <<account, customer>>
        ELSE /\ v.customer[c].status = "disabled"
             /\ CoversPause(r, v.customer[c].pause)
             /\ \A a \in A : v.account[a].pause = NoPause \/ CoversPause(r, v.account[a].pause)
             /\ customer' = [customer EXCEPT ![c] = [status |-> "using", pause |-> NoPause]]
             /\ account' = [a \in Accounts |-> IF a \in A THEN [account[a] EXCEPT !.pause = NoPause] ELSE account[a]]

\* finalizeLocalRebuildLifecycle: only the target's latest run may open it,
\* which is read under a lock.
Finalize(i, r, v) ==
    IF r.status # "success" THEN UNCHANGED <<account, customer>>
    ELSE /\ \A j \in RunsOf(r.target) : j <= i
         /\ IF r.target \in Accounts THEN FinalizeAccount(r, r.target, v) ELSE FinalizeCustomer(r, r.target, v)

\* lockTaskScope: the accounts that were read are still there.
ScopeHolds(target, v) ==
    \A a \in Accounts : a = target \/ CustomerOf[a] = target =>
        (v.account[a].managed = "deleted" <=> account[a].managed = "deleted")

\* MaterializeRunWindows: every hour of the range on every site of the target.
\* A range without hours is a success at once.
Materialize(i, v) ==
    /\ runs[i].status = "pending"
    /\ ScopeHolds(runs[i].target, v)
    /\ LET keys == SitesOf(runs[i].target) \X {h \in Hours : runs[i].start <= h /\ h < runs[i].end}
           r == [runs[i] EXCEPT !.status = IF keys = {} THEN "success" ELSE "running",
                                !.windows = [k \in keys |-> "pending"]]
       IN  /\ runs' = [runs EXCEPT ![i] = r]
           /\ Finalize(i, r, v)
           /\ IF r.status = "success" THEN Touch("rebuild", DOMAIN runs \ {i}, v) ELSE UNCHANGED touched
    /\ UNCHANGED <<now, window, facts, hourly, daily, wanted, pauses>>

\* Mutants: a failed window is over, or makes the run partial.
RunStatusDone(W) == IF \E k \in DOMAIN W : W[k] = "pending" THEN "running" ELSE "success"
RunStatusPartial(W) ==
    IF \E k \in DOMAIN W : W[k] = "pending" THEN "running"
    ELSE IF \E k \in DOMAIN W : W[k] = "failed" THEN "partial" ELSE "success"

\* The status of a run whose windows are W.
RunStatus(W) ==
    IF \E k \in DOMAIN W : W[k] = "pending" THEN "running"
    ELSE IF \E k \in DOMAIN W : W[k] = "failed" THEN "failed" ELSE "success"

\* localRebuildAggregationOptions: what counts although it is paused.
IncludedAccounts(r, v) == IF r.target \in Accounts THEN {r.target} ELSE Openable(r.target, v)
IncludedCustomers(r) == IF r.target \in Accounts THEN {} ELSE {r.target}

\* ApplyCollectionTaskWindow of a rebuild in CompleteClaimedWindow: the buckets
\* of a complete hour, and the opening when it was the last window.
RebuildWindow(i, s, h, v) ==
    LET W == [runs[i].windows EXCEPT ![<<s, h>>] = "success"]
        r == [runs[i] EXCEPT !.windows = W, !.status = RunStatus(W)]
    IN  /\ runs[i].status = "running"
        /\ runs[i].windows[<<s, h>>] = "pending"
        /\ ScopeHolds(runs[i].target, v)
        /\ window[s][h].status = "complete"
        /\ RebuildBuckets(window, facts, s, h, {}, FALSE, IncludedAccounts(r, v), IncludedCustomers(r))
        /\ runs' = [runs EXCEPT ![i] = r]
        /\ Finalize(i, r, v)
        /\ Touch("rebuild", DOMAIN runs \ {i}, v)
        /\ UNCHANGED <<now, window, facts, wanted, pauses>>

\* The attempts of a window are used up: its hour was never complete, or the
\* opening was refused.
FailRebuildWindow(i, s, h) ==
    LET W == [runs[i].windows EXCEPT ![<<s, h>>] = "failed"]
    IN  /\ runs[i].status = "running"
        /\ runs[i].windows[<<s, h>>] = "pending"
        /\ runs' = [runs EXCEPT ![i].windows = W, ![i].status = RunStatus(W)]
        /\ UNCHANGED <<aggregationVars, wanted, touched, pauses>>

-----------------------------------------------------------------------------
(* Transactions that read before they lock.                                 *)

\* The work there is: an operation and what it is about.
Operations ==
    [op : {"archive"}, on : {a \in Accounts : account[a].managed = "active"}]
    \cup [op : {"disable"}, on : Customers]
    \cup [op : {"materialize"}, on : {i \in DOMAIN runs : runs[i].status = "pending"}]
    \cup UNION {[op : {"rebuild"}, on : {i}, key : {k \in DOMAIN runs[i].windows : runs[i].windows[k] = "pending"}] :
                   i \in {j \in DOMAIN runs : runs[j].status = "running"}}

\* The commit of t, whose plain reads see v.
Commit(t, v) ==
    CASE t.op = "archive" -> Archive(t.on, v)
      [] t.op = "disable" -> Disable(t.on, v)
      [] t.op = "materialize" -> Materialize(t.on, v)
      [] t.op = "rebuild" -> RebuildWindow(t.on, t.key[1], t.key[2], v)

\* The first read of a transaction that then waits for the site.
Begin(t) ==
    /\ MayWait
    /\ waiting = Nobody
    /\ waiting' = [t |-> t, view |-> Present]
    /\ UNCHANGED <<aggregationVars, runs, wanted, touched, pauses>>

\* It gets its locks and commits, or finds that its work is gone.
GoOn == waiting # Nobody /\ Commit(waiting.t, waiting.view) /\ waiting' = Nobody
GiveUp == waiting # Nobody /\ waiting' = Nobody /\ UNCHANGED <<aggregationVars, runs, wanted, touched, pauses>>

-----------------------------------------------------------------------------
CollectOne ==
    /\ \E s \in Sites, h \in Hours :
        CompleteWindow(s, h, [u \in Users(s) |-> 1]) \/ MismatchWindow(s, h) \/ FailWindow(s, h)
    /\ Touch("collection", DOMAIN runs, Present)
    /\ UNCHANGED <<runs, wanted, pauses>>

\* Steps of transactions that did not wait, or lock before they read.
AtOnce ==
    \/ NextHour /\ UNCHANGED <<runs, wanted, touched, pauses>>
    \/ CollectOne
    \/ \E a \in Accounts : Restore(a) \/ IdentityMismatch(a) \/ Delete(a)
    \/ \E c \in Customers : Enable(c)
    \/ \E t \in Operations : Commit(t, Present)
    \/ \E i \in DOMAIN runs : \E k \in DOMAIN runs[i].windows : FailRebuildWindow(i, k[1], k[2])

LifecycleNext ==
    \/ AtOnce /\ UNCHANGED waiting
    \/ \E t \in Operations : Begin(t)
    \/ GoOn
    \/ GiveUp

LifecycleSpec == LifecycleInit /\ [][LifecycleNext]_lifecycleVars

-----------------------------------------------------------------------------
(* Properties.                                                              *)

\* The types of what the lifecycle changes.
LifecycleTypeOK ==
    /\ \A a \in Accounts : account[a].pause \in 0 .. NoPause
    /\ \A c \in Customers : customer[c].status \in {"using", "disabled"} /\ customer[c].pause \in 0 .. NoPause
    /\ \A i \in DOMAIN runs : runs[i].status \in {"pending", "running", "success", "failed"}
    /\ touched \subseteq {"collection", "pause", "rebuild", "overtaken"}

\* No transaction has committed on a view that others had changed.
InTime == "overtaken" \notin touched

\* A paused account or customer is closed, and a closed one has a boundary:
\* for accounts as long as nothing was opened on an old view.
ClosedHasBoundary ==
    /\ \A c \in Customers : customer[c].status = "disabled" <=> customer[c].pause # NoPause
    /\ InTime =>
        /\ \A a \in Accounts : account[a].managed = "archived" \/ account[a].remote = "identity_mismatch"
                                  => account[a].pause # NoPause
        /\ \A c \in Customers : customer[c].status = "disabled" =>
               \A a \in AccountsOf(c) : account[a].managed = "active" => account[a].pause <= customer[c].pause

\* The rows of open accounts and customers are those of the facts, as if there
\* had been no pause.
AsNeverPaused ==
    /\ \A a \in Accounts : account[a].pause = NoPause /\ (\A i \in RunsOf(a) : ~Active(runs[i])) =>
           \A d \in Days :
               /\ \A h \in HoursOf(d) : hourly.account[a][h] = AccountAmount(window, facts, a, {h}, {})
               /\ daily.account[a][d].n = AccountAmount(window, facts, a, HoursOf(d), {})
    /\ \A c \in Customers, s \in Sites :
           (/\ customer[c].pause = NoPause
            /\ \A a \in AccountsOf(c) : account[a].pause = NoPause /\ \A i \in RunsOf(a) : ~Active(runs[i]))
           => \A d \in Days : daily.customer[c][s][d].n = CustomerAmount(window, facts, c, s, HoursOf(d), {}, {})

\* Rebuilds that nothing met or overtook restore the statistics as if there
\* had been no pause, whatever was collected, contested or lost before and
\* after them.
RestoredExact == touched = {} => AsNeverPaused

\* Once every rebuild has succeeded, no row of an account or of its customer
\* shows more than the facts before the pauses, by the hour or by the day,
\* unless a transaction was overtaken.
PausedIsHidden ==
    InTime /\ (\A i \in DOMAIN runs : runs[i].status = "success") =>
        \A d \in Days :
            /\ \A a \in Accounts :
                /\ daily.account[a][d].n <= AccountAmount(window, facts, a, HoursOf(d), {})
                /\ \A h \in HoursOf(d) : hourly.account[a][h] <= AccountAmount(window, facts, a, {h}, {})
            /\ \A c \in Customers, s \in Sites :
                /\ daily.customer[c][s][d].n <= CustomerAmount(window, facts, c, s, HoursOf(d), {}, {})
                /\ \A h \in HoursOf(d) :
                       hourly.customer[c][s][h] <= CustomerAmount(window, facts, c, s, {h}, {}, {})

\* An account whose identity was replaced keeps that state for good, and its
\* boundary too, but for one case: the last window of a rebuild that had read
\* the account before the replacement opens it.
MismatchIsForeverStep ==
       \A a \in Accounts : account[a].remote = "identity_mismatch" =>
           /\ account'[a].remote = "identity_mismatch"
           /\ \/ account'[a].pause <= account[a].pause
              \/ /\ waiting.t \in [op : {"materialize"}, on : DOMAIN runs]
                               \cup [op : {"rebuild"}, on : DOMAIN runs, key : Sites \X Hours]
                 /\ waiting.view.account[a].remote # "identity_mismatch"
                 /\ waiting' = Nobody
\* The same of every step.
MismatchIsForever == [][MismatchIsForeverStep]_lifecycleVars

\* account.go:352: a replaced identity "is permanent", and nothing can "remove
\* isolation or pause".
IsolationHolds == \A a \in Accounts : account[a].remote = "identity_mismatch" => account[a].pause # NoPause

\* A pause never publishes more than the facts, though hours are withdrawn
\* while it waits for the site.
PausedIsHiddenAlways == (~InTime /\ \A i \in DOMAIN runs : runs[i].status = "success") =>
    \A a \in Accounts, d \in Days : daily.account[a][d].n <= AccountAmount(window, facts, a, HoursOf(d), {})

\* 12.4 of the data model: after the rebuild the history is the one of an
\* account that was never paused, also when hours are collected meanwhile.
RestoredDespiteCollection == touched \subseteq {"collection"} => AsNeverPaused

\* The same, when two entities of a site are rebuilt at the same time.
RestoredDespiteRebuild == touched \subseteq {"rebuild"} => AsNeverPaused

\* What an administrator closed stays closed until it is asked to open.
ClosedHolds ==
    /\ \A a \in Accounts : account[a].managed = "active" => a \in wanted
    /\ \A c \in Customers : customer[c].status = "using" => c \in wanted
=============================================================================
