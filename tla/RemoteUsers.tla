---------------------------- MODULE RemoteUsers ----------------------------
(***************************************************************************)
(* What the platform knows about the users of one site: the inventory of   *)
(* all users, the hourly totals over it and the managed accounts bound to  *)
(* some of them.  Complete snapshots (user_sync, authorization) and the    *)
(* refresh of one account read the site first, take their observation time *)
(* afterwards and commit later still, so that a worker whose lease was     *)
(* lost commits an old observation after a newer one.                      *)
(***************************************************************************)
EXTENDS Naturals, Sequences, FiniteSets, SequencesExt

CONSTANTS Users,       \* remote user ids of the site
          Accounts,    \* the ids bound to a managed account
          Groups,      \* values of (role, status, group)
          Workers,     \* goroutines that observe the site
          HourLength,  \* ticks of the clock in an hour
          MaxTime,     \* bound on the clock
          MaxReads,    \* bound on upstream reads
          MaxRefresh,  \* of which refreshes of one account
          MaxConfig    \* bound on the configuration version

RemoteAssumption ==
  /\ Accounts \subseteq Users
  /\ {HourLength, MaxTime, MaxReads, MaxRefresh, MaxConfig} \subseteq Nat
  /\ HourLength > 0

VARIABLES clock, site, inventory, hourly, account, job,
          reads, refreshes, log, lastHour
vars == <<clock, site, inventory, hourly, account, job,
          reads, refreshes, log, lastHour>>

NoUser == [created |-> 0, group |-> CHOOSE g \in Groups : TRUE, deleted |-> FALSE]
\* Between two reads the site may add, change, delete or replace any user.
Found == [created : 1 .. 2, group : Groups, deleted : BOOLEAN]
NoRow == [created |-> 0, state |-> "none", missing |-> 0, group |-> NoUser.group,
          cv |-> 0, seen |-> 0]
\* What validateUserPage lets through.
Answers == [Users -> Found \cup {NoUser}]
Idle == [kind |-> "idle"]
Hour(t) == t \div HourLength
Hours == 0 .. Hour(MaxTime)
NoTotals == [g \in Groups |-> 0]
Bound == 1    \* remote_created_at of every managed account

\* The site's snapshot contains a user: softly deleted ones are delivered too.
Listed(data, u) == data[u].created # 0

(***************************************************************************)
(* The inventory of a complete snapshot.                                   *)
(***************************************************************************)
FreshRow(item, at, cv) ==
  [created |-> item.created, state |-> IF item.deleted THEN "deleted" ELSE "normal",
   missing |-> 0, group |-> item.group, cv |-> cv, seen |-> at]
\* A user the snapshot delivers: another creation time is a conflict that is
\* never resolved, anything else is written when a fact changed.
ObservedRow(row, item, at, cv) ==
  IF row.state = "identity_mismatch" THEN row
  ELSE IF row # NoRow /\ row.created # item.created
       THEN [row EXCEPT !.state = "identity_mismatch", !.cv = cv]
  ELSE IF [FreshRow(item, at, cv) EXCEPT !.seen = row.seen] = row THEN row
       ELSE FreshRow(item, at, cv)

\* A user the complete snapshot does not deliver.
AbsentRow(row, cv) ==
  IF row = NoRow \/ row.state = "identity_mismatch" THEN row
  ELSE [row EXCEPT !.state = "missing", !.missing = @ + 1, !.cv = cv]

InventorySnapshot(data, at, cv) ==
  [u \in Users |-> IF Listed(data, u) THEN ObservedRow(inventory[u], data[u], at, cv)
                   ELSE AbsentRow(inventory[u], cv)]

\* The totals of the hour: live users whose identity is the known one.
InventoryHourlyRows(data) ==
  [g \in Groups |-> Cardinality({u \in Users :
     /\ Listed(data, u) /\ ~ data[u].deleted /\ data[u].group = g
     /\ inventory[u] # NoRow => inventory[u].created = data[u].created})]

SiteUserHourlyEqual(left, right) == left = right

HourlySnapshot(data, at) ==
  LET rows == InventoryHourlyRows(data)
  IN  IF SiteUserHourlyEqual(hourly[Hour(at)], rows) THEN hourly
      ELSE [hourly EXCEPT ![Hour(at)] = rows]

(***************************************************************************)
(* The managed accounts.                                                   *)
(***************************************************************************)
IsNewerAccountObservation(a, at) == at > a.synced

EffectivePause(a, at) ==
  IF a.paused # <<>> /\ a.paused[1] < Hour(at) THEN a.paused ELSE <<Hour(at)>>

Mismatched(a, at) ==
  [a EXCEPT !.state = "identity_mismatch", !.paused = EffectivePause(a, at), !.synced = at]

MissingOnce(a, at) ==
  IF a.state = "identity_mismatch" THEN [a EXCEPT !.synced = at]
  ELSE [a EXCEPT !.missing = @ + 1, !.synced = at,
                 !.state = IF a.missing + 1 >= 2 THEN "missing" ELSE @]

AccountObserved(a, item, at) ==
  IF item.created = 0 \/ item.deleted THEN MissingOnce(a, at)
  ELSE IF item.created # Bound THEN Mismatched(a, at)
  ELSE IF a.state = "identity_mismatch" THEN [a EXCEPT !.synced = at]
  ELSE [a EXCEPT !.state = "normal", !.missing = 0, !.group = item.group, !.synced = at]

\* applySiteUserSnapshot, the account bound to a delivered or absent user.
AccountSnapshot(a, item, at) ==
  IF IsNewerAccountObservation(a, at) THEN AccountObserved(a, item, at) ELSE a

\* Refresh: a deleted or unknown user is an error and leaves the account alone.
AccountRefresh(a, item, at) ==
  IF item.created = 0 \/ item.deleted \/ ~ IsNewerAccountObservation(a, at) THEN a
  ELSE IF item.created # Bound THEN Mismatched(a, at)
  ELSE [a EXCEPT !.group = item.group, !.synced = at,
                 !.state = IF @ = "identity_mismatch" THEN @ ELSE "normal",
                 !.missing = IF a.state = "identity_mismatch" THEN @ ELSE 0]

----------------------------------------------------------------------------
Init ==
  /\ clock = 1
  /\ site = [cv |-> 1, open |-> TRUE]
  /\ inventory = [u \in Users |-> NoRow]
  /\ hourly = [h \in Hours |-> NoTotals]
  /\ account = [u \in Accounts |-> [state |-> "normal", missing |-> 0, group |-> NoUser.group,
                                    paused |-> <<>>, synced |-> 1]]
  /\ job = [w \in Workers |-> Idle]
  /\ reads = 0 /\ refreshes = 0
  /\ log = [u \in Accounts |-> <<[at |-> 1, item |-> [NoUser EXCEPT !.created = Bound]]>>]
  /\ lastHour = <<>>

Tick ==
  /\ clock < MaxTime /\ clock' = clock + 1
  /\ UNCHANGED <<site, inventory, hourly, account, job, reads, refreshes, log, lastHour>>

\* The site is paused or opened, or its configuration changes.
SiteChanges ==
  /\ \/ site' = [site EXCEPT !.open = ~ @]
     \/ site.cv < MaxConfig /\ site' = [site EXCEPT !.cv = @ + 1]
  /\ UNCHANGED <<clock, inventory, hourly, account, job, reads, refreshes, log, lastHour>>

\* executePeriodicUsers up to the complete answer of the site.
SyncRead(w) ==
  /\ job[w] = Idle /\ site.open /\ reads < MaxReads
  /\ \E data \in Answers :
       job' = [job EXCEPT ![w] = [kind |-> "sync", cv |-> site.cv, data |-> data, at |-> 0]]
  /\ reads' = reads + 1
  /\ UNCHANGED <<clock, site, inventory, hourly, account, refreshes, log, lastHour>>

\* Refresh of an account up to the answer of the site.
RefreshRead(w) ==
  /\ job[w] = Idle /\ site.open /\ reads < MaxReads /\ refreshes < MaxRefresh
  /\ \E u \in Accounts, item \in Found \cup {NoUser} :
       job' = [job EXCEPT ![w] = [kind |-> "refresh", user |-> u, item |-> item, at |-> 0]]
  /\ reads' = reads + 1 /\ refreshes' = refreshes + 1
  /\ UNCHANGED <<clock, site, inventory, hourly, account, log, lastHour>>

\* The observation time is taken after the answer.
Stamp(w) ==
  /\ job[w] # Idle /\ job[w].at = 0
  /\ job' = [job EXCEPT ![w].at = clock]
  /\ UNCHANGED <<clock, site, inventory, hourly, account, reads, refreshes, log, lastHour>>

\* The task's context ends, the site may not be read any more, or the answer is refused
\* as invalid (validateExactRemoteUser).
Abandon(w) ==
  /\ job[w] # Idle /\ job' = [job EXCEPT ![w] = Idle]
  /\ UNCHANGED <<clock, site, inventory, hourly, account, reads, refreshes, log, lastHour>>

\* One transaction: inventory, hour and accounts of a complete snapshot.
ApplySnapshot(data, at, cv) ==
  /\ inventory' = InventorySnapshot(data, at, cv)
  /\ hourly' = HourlySnapshot(data, at)
  /\ account' = [u \in Accounts |-> AccountSnapshot(account[u], data[u], at)]
  /\ log' = [u \in Accounts |-> Append(log[u], [at |-> at, item |-> data[u]])]
  /\ lastHour' = <<Hour(at)>>

\* ApplySiteUserSnapshot: the configuration is the one the task started with.
SyncCommit(w) ==
  /\ job[w] # Idle /\ job[w].kind = "sync" /\ job[w].at # 0
  /\ site.cv = job[w].cv /\ site.open
  /\ ApplySnapshot(job[w].data, job[w].at, site.cv)
  /\ job' = [job EXCEPT ![w] = Idle]
  /\ UNCHANGED <<clock, site, reads, refreshes>>

\* Authorization reads the users and commits them with the new configuration,
\* also while the site is paused.
Authorize ==
  /\ site.cv < MaxConfig /\ reads < MaxReads
  /\ site' = [site EXCEPT !.cv = @ + 1]
  /\ reads' = reads + 1
  /\ \E data \in Answers : ApplySnapshot(data, clock, site.cv + 1)
  /\ UNCHANGED <<clock, job, refreshes>>

\* The commit of a refresh knows no configuration, only the account.
RefreshCommit(w) ==
  /\ job[w] # Idle /\ job[w].kind = "refresh" /\ job[w].at # 0
  /\ LET u == job[w].user item == job[w].item
     IN  /\ account' = [account EXCEPT ![u] = AccountRefresh(@, item, job[w].at)]
         /\ log' = IF item.created = 0 \/ item.deleted THEN log
                   ELSE [log EXCEPT ![u] = Append(@, [at |-> job[w].at, item |-> item])]
  /\ job' = [job EXCEPT ![w] = Idle]
  /\ UNCHANGED <<clock, site, inventory, hourly, reads, refreshes, lastHour>>

Next ==
  \/ Tick \/ SiteChanges \/ Authorize
  \/ \E w \in Workers : SyncRead(w) \/ RefreshRead(w) \/ Stamp(w) \/ Abandon(w)
                        \/ SyncCommit(w) \/ RefreshCommit(w)

Spec == Init /\ [][Next]_vars

----------------------------------------------------------------------------
Gone(entry) == entry.item.created = 0 \/ entry.item.deleted
Sighted(entry) == ~ Gone(entry) /\ entry.item.created = Bound

\* Types of the stored rows.
RemoteTypeOK ==
  /\ \A u \in Users : inventory[u] = NoRow \/
       inventory[u].state \in {"normal", "deleted", "missing", "identity_mismatch"}
  /\ \A u \in Users : inventory[u].state = "missing" <=> inventory[u].missing > 0 /\ inventory[u].state # "identity_mismatch"
  /\ \A u \in Accounts : /\ account[u].state \in {"normal", "missing", "identity_mismatch"}
                         /\ account[u].synced \in 1 .. MaxTime

\* applySiteUserSnapshot calls an account missing only after two complete
\* snapshots with different observation times did not deliver its user, and
\* no observation in between or newer than both showed it.
MissingSeenTwice == \A u \in Accounts : account[u].state = "missing" =>
  \E i, j \in DOMAIN log[u] :
    /\ i < j /\ Gone(log[u][i]) /\ Gone(log[u][j]) /\ log[u][i].at < log[u][j].at
    /\ \A k \in i .. j : Sighted(log[u][k]) => log[u][k].at <= log[u][i].at
    /\ \A k \in j .. Len(log[u]) : Sighted(log[u][k]) => log[u][k].at <= log[u][j].at

\* Whatever the order of the commits, an account whose newest observations
\* show its user is normal and shows what one of them delivered
\* (isNewerAccountObservation with accountObservationCAS).
AccountShowsNewest == \A u \in Accounts :
  LET newest == {e \in ToSet(log[u]) : \A f \in ToSet(log[u]) : f.at <= e.at}
  IN  (account[u].state # "identity_mismatch" /\ \A e \in newest : Sighted(e))
        => /\ account[u].state = "normal" /\ account[u].missing = 0
           /\ account[u].group \in {e.item.group : e \in newest}

\* The totals of the hour written last count at least every user the
\* inventory lists as normal (inventoryHourlyRows against the inventory rows).
NormalAreCounted == lastHour # <<>> => \A g \in Groups :
  hourly[lastHour[1]][g] >=
    Cardinality({u \in Users : inventory[u].state = "normal" /\ inventory[u].group = g})

IdentityIsForeverStep == 
   /\ \A u \in Users : inventory[u].state = "identity_mismatch" => inventory'[u] = inventory[u]
   /\ \A u \in Accounts : account[u].state = "identity_mismatch" =>
        /\ account'[u].state = "identity_mismatch"
        /\ account'[u].paused[1] <= account[u].paused[1]
\* A replaced identity is never trusted again: the row of the inventory and
\* the account keep their mark, and the account's pause only moves back.
IdentityIsForever == [][IdentityIsForeverStep]_vars

\* The design lets a conflict mark the inventory and the account at once.
ConflictTogether == \A u \in Accounts :
  account[u].state = "identity_mismatch" => inventory[u].state = "identity_mismatch"
=============================================================================
