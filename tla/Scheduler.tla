----------------------------- MODULE Scheduler -----------------------------
(***************************************************************************)
(* The scheduler of the durable tasks.  A round loads the sites, then      *)
(* enqueues one task after the other, each in a transaction of its own, so *)
(* that sites change and runs end in between.  Periodic tasks are offered  *)
(* in every round of their slot and found by their request id; hourly      *)
(* tasks are offered when the hour turns, the usage hour once per site;    *)
(* both are remembered in memory only.  An error that is neither a skip    *)
(* nor a deadlock of the database stops the worker.                        *)
(***************************************************************************)
EXTENDS Naturals, Sequences, FiniteSets, SequencesExt

CONSTANTS Sites,
          Hour,        \* ticks of an hour
          Interval,    \* ticks of a periodic slot
          Delay,       \* ticks after the hour until its usage is collected
          MaxTime,     \* bound on the clock
          MaxConfig,   \* bound on config_version
          MaxStarts    \* bound on starts of the process

SchedulerAssumption ==
  /\ {MaxTime, MaxConfig, MaxStarts, Delay} \subseteq Nat /\ {Hour, Interval} \subseteq Nat \ {0}
  /\ Delay < Hour

VARIABLES now,
          site,     \* site -> [config, authorized, online, changed]: changed is history
          runs,     \* set of collection_run: [type, site, config, slot, active, nth]
          memory,   \* [starts, initialized, hour, usage]: lost with the process
          round     \* the round under way: [at, sites, todo]
vars == <<now, site, runs, memory, round>>

Types == {"periodic", "hourly", "usage"}
NoRound == [at |-> 0, sites |-> <<>>, todo |-> <<>>]
Forgotten(n) == [starts |-> n, initialized |-> FALSE, hour |-> 0, usage |-> [s \in Sites |-> 0]]

Init ==
  /\ now = Hour
  /\ site = [s \in Sites |-> [config |-> 1, authorized |-> TRUE, online |-> TRUE, changed |-> 0]]
  /\ runs = {} /\ memory = Forgotten(1) /\ round = NoRound

HourOf(t) == t \div Hour
SlotOf(ty, t) == IF ty = "periodic" THEN t \div Interval ELSE t \div Hour
Active(ty, s) == {r \in runs : r.active /\ r.type = ty /\ r.site = s}

----------------------------------------------------------------------------
(***************************************************************************)
(* The enqueue of one task.                                                *)
(***************************************************************************)
\* schedulerSiteEligible, on the row the round loaded.
Eligible(row) == row.authorized /\ row.online
\* siteAllowsTask, on the row as it is: an offline site is not refused.
Allowed(s, config) == site[s].config = config /\ site[s].authorized

\* Mutant: only a run that is still active is found.
LogicalActive(ty, s, config, slot) ==
  {r \in Active(ty, s) : r.config = config /\ r.slot = slot}
\* findLogicalSiteTask: the run of the slot, finished or not.
findLogicalSiteTask(ty, s, config, slot) ==
  {r \in runs : r.type = ty /\ r.site = s /\ r.config = config /\ r.slot = slot}

New(ty, s, config, slot) ==
  [type |-> ty, site |-> s, config |-> config, slot |-> slot, active |-> TRUE,
   nth |-> Cardinality(findLogicalSiteTask(ty, s, config, slot)), start |-> memory.starts]
\* EnqueueSiteTask and CreateOrGetRun: an active run of the type stands for
\* the new one; one of another configuration breaks the contract.
EnqueueSiteTask(ty, s, config, slot) ==
  IF findLogicalSiteTask(ty, s, config, slot) # {} THEN [runs |-> runs, result |-> "ok"]
  ELSE IF ~Allowed(s, config) THEN [runs |-> runs, result |-> "skip"]
  ELSE IF Active(ty, s) = {} THEN [runs |-> runs \cup {New(ty, s, config, slot)}, result |-> "ok"]
  ELSE [runs |-> runs,
        result |-> IF \A r \in Active(ty, s) : r.config = config THEN "ok" ELSE "contract"]
\* EnqueueScheduledSiteWindowTask: what active runs leave of the hour.
EnqueueScheduledSiteWindowTask(s, config, slot) ==
  LET covering == {r \in Active("usage", s) : r.slot = slot}
  IN  IF ~Allowed(s, config) THEN [runs |-> runs, result |-> "skip"]
      ELSE IF covering = {} THEN [runs |-> runs \cup {New("usage", s, config, slot)}, result |-> "ok"]
      ELSE [runs |-> runs,
            result |-> IF \A r \in covering : r.config = config THEN "ok" ELSE "contract"]

----------------------------------------------------------------------------
(***************************************************************************)
(* A round.                                                                *)
(***************************************************************************)
SiteOrder == SetToSeq(Sites)
OfType(ty) == [i \in DOMAIN SiteOrder |-> <<ty, SiteOrder[i]>>]
Startup == ~memory.initialized
\* The tasks of a round, in order.  The hourly tasks of the hour in which
\* the process starts are not enqueued.
Todo ==
  OfType("periodic")
  \o (IF ~Startup /\ memory.hour # HourOf(now) THEN OfType("hourly") ELSE <<>>)
  \o <<<<"mark", SiteOrder[1]>>>>
  \o (IF now % Hour >= Delay THEN OfType("usage") ELSE <<>>)
runOnce ==
  /\ round = NoRound
  /\ round' = [at |-> now, sites |-> site, todo |-> Todo]
  /\ UNCHANGED <<now, site, runs, memory>>

UsageTaken(s) == memory.usage[s] = SlotOf("usage", round.at)
Skipped(ty, s) == ~Eligible(round.sites[s]) \/ (ty = "usage" /\ UsageTaken(s))
Enqueued(ty, s) ==
  LET config == round.sites[s].config
      slot == SlotOf(ty, round.at)
  IN  IF ty = "usage" THEN EnqueueScheduledSiteWindowTask(s, config, slot)
      ELSE EnqueueSiteTask(ty, s, config, slot)
Crashed == Forgotten(memory.starts + 1)
\* The hour is remembered once its tasks are enqueued.
MarkHour ==
  /\ round.todo # <<>> /\ Head(round.todo)[1] = "mark"
  /\ memory' = [memory EXCEPT !.hour = HourOf(round.at)]
  /\ round' = [round EXCEPT !.todo = Tail(@)] /\ UNCHANGED <<now, site, runs>>
\* One task of the round.  A contract error ends the worker.
Step ==
  /\ round.todo # <<>> /\ Head(round.todo)[1] # "mark"
  /\ LET ty == Head(round.todo)[1]
         s == Head(round.todo)[2]
         r == Enqueued(ty, s)
     IN  IF Skipped(ty, s)
         THEN /\ round' = [round EXCEPT !.todo = Tail(@)] /\ UNCHANGED <<runs, memory>>
         ELSE IF r.result = "contract"
         THEN /\ round' = NoRound /\ memory' = [Crashed EXCEPT !.starts = MaxStarts + 1] /\ runs' = runs
         ELSE /\ runs' = r.runs
              /\ round' = [round EXCEPT !.todo = Tail(@)]
              /\ memory' = IF ty = "usage"
                           THEN [memory EXCEPT !.usage[s] = SlotOf("usage", round.at)] ELSE memory
  /\ UNCHANGED <<now, site>>
\* The database refuses: the rest of the round waits for the next tick; at
\* the start it ends the process.
StepFails ==
  /\ round.todo # <<>> /\ round' = NoRound
  /\ ~Startup \/ memory.starts < MaxStarts
  /\ memory' = IF Startup THEN Crashed ELSE memory
  /\ UNCHANGED <<now, site, runs>>
EndRound ==
  /\ round # NoRound /\ round.todo = <<>>
  /\ memory' = [memory EXCEPT !.initialized = TRUE]
  /\ round' = NoRound /\ UNCHANGED <<now, site, runs>>

----------------------------------------------------------------------------
\* A run ends; nothing else of its life matters here.
Finish(r) ==
  /\ r.active /\ runs' = (runs \ {r}) \cup {[r EXCEPT !.active = FALSE]}
  /\ UNCHANGED <<now, site, memory, round>>
\* BumpSiteFence: the active runs of the site end with it.
Fenced(s) == {IF r.site = s THEN [r EXCEPT !.active = FALSE] ELSE r : r \in runs}
Fence(s, authorized) ==
  /\ site[s].config < MaxConfig
  /\ site' = [site EXCEPT ![s].config = @ + 1, ![s].authorized = authorized, ![s].changed = HourOf(now)]
  /\ runs' = Fenced(s) /\ UNCHANGED <<now, memory, round>>
Probe(s) == /\ site' = [site EXCEPT ![s].online = ~@] /\ UNCHANGED <<now, runs, memory, round>>
Crash == /\ memory.starts < MaxStarts /\ memory' = Crashed /\ round' = NoRound
         /\ UNCHANGED <<now, site, runs>>
Tick == /\ now < MaxTime /\ round = NoRound /\ now' = now + 1
        /\ UNCHANGED <<site, runs, memory, round>>
Next ==
  \/ runOnce \/ MarkHour \/ Step \/ StepFails \/ EndRound \/ Crash \/ Tick
  \/ \E r \in runs : Finish(r)
  \/ \E s \in Sites : Probe(s) \/ \E authorized \in BOOLEAN : Fence(s, authorized)
Spec == Init /\ [][Next]_vars

----------------------------------------------------------------------------
\* Runs, windows and the marks of the scheduler have their declared shape.
TypeOK ==
  /\ memory.hour \in 0..HourOf(MaxTime)
  /\ now \in Hour..MaxTime /\ memory.usage \in [Sites -> 0..HourOf(MaxTime)]
  /\ \A r \in runs : r.type \in Types /\ r.site \in Sites /\ r.config \in 1..MaxConfig

\* The run of a slot is created once, though the scheduler offers it in
\* every round of the slot, is started again within it and fails halfway;
\* the usage hour once by a process.
OncePerSlot ==
  \A p, q \in runs :
    (/\ p.type = q.type /\ p.site = q.site /\ p.config = q.config /\ p.slot = q.slot
     /\ (p.type = "usage" => p.start = q.start)) => p = q

\* The scheduler never meets an active run of another configuration: that
\* would stop the worker.
NoContractError == memory.starts <= MaxStarts

HourServedStep ==
     round # NoRound /\ round.todo = <<>> /\ round.at % Hour >= Delay /\ round' = NoRound =>
       \A s \in Sites :
         Eligible(round.sites[s]) /\ site[s].authorized /\ site[s].changed # HourOf(now)
           => \E r \in runs : r.type = "usage" /\ r.site = s /\ r.slot = HourOf(round.at)
\* At the end of a round every site that was fit for it has a run of the
\* usage hour, though the hour is remembered per site and other sites were
\* passed over in an earlier round of it.  A site whose configuration
\* changed within the hour is left to the backfill its change enqueues.
HourServed == [][HourServedStep]_vars
=============================================================================
