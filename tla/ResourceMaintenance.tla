------------------------ MODULE ResourceMaintenance ------------------------
(***************************************************************************)
(* The rollups of the resource samples.  Hours are computed from minutes   *)
(* by the gap repair, days from hours by the two phases of the daily       *)
(* finalization, and minutes are deleted once their hour and their final   *)
(* day exist.  The maintenance works through a list in many transactions,  *)
(* with a durable cursor and a revision of its scope, while pauses are     *)
(* entered, the process stops and the retention deletes.  A unit is a site *)
(* or one of its nodes, in the order the maintenance visits them; the      *)
(* minutes of an hour are one sample.                                      *)
(***************************************************************************)
EXTENDS Integers, FiniteSets

CONSTANTS Units,       \* 1..n
          Day,         \* hours of a day
          FinalHour,   \* hour of the day from which the day before is finalized (3)
          Retention,   \* collector.minute_retention_days
          Batch,       \* maximumSites and maximumRows (100)
          Prompt,      \* whether a running process does all its work within an hour
          MaxTime, MaxPauses, MaxMisses, MaxStops, MaxFaults

MaintenanceAssumption ==
  /\ Units = 1..Cardinality(Units) /\ {Day, Retention, Batch} \subseteq Nat \ {0} /\ FinalHour \in 1..(Day - 1)
  /\ {MaxTime, MaxPauses, MaxMisses, MaxStops, MaxFaults} \subseteq Nat /\ Prompt \in BOOLEAN

VARIABLES now,       \* hours since the start of monitoring; hours below now are closed
          taken,     \* <<unit, hour>> sampled (history)
          minutes,   \* <<unit, hour>> whose minutes are stored
          paused,    \* <<unit, hour>> covered by site_monitoring_pause
          hourly,    \* <<unit, hour>> -> <<>> or [samples, expected]
          daily,     \* <<unit, day>> -> <<>> or [samples, expected, final]
          gap,       \* data_maintenance_state of the gap repair: [date, revision, status, cursor]
          final,     \* the one of the daily finalization
          cleaned,   \* lastCompletedDate of the retention, in memory
          job,       \* the round under way: [pc, start, end, revision, list, cursor]
          up, spent, \* whether the process runs; the faults so far
          between    \* ghost: days with a pause entered after the repair of a round and before its finalization
vars == <<now, taken, minutes, paused, hourly, daily, gap, final, cleaned, job, up, spent, between>>

Hours == 0..MaxTime
Days == 0..(MaxTime \div Day)
Idle == [pc |-> "idle", start |-> 0, end |-> 0, revision |-> <<{}, 0, 0>>, list |-> {}]
NoState(revision) == [date |-> 0, revision |-> revision, status |-> "pending", cursor |-> 0]

Init ==
  /\ now = 0 /\ taken = {} /\ minutes = {} /\ paused = {}
  /\ hourly = [k \in Units \X Hours |-> <<>>] /\ daily = [k \in Units \X Days |-> <<>>]
  /\ gap = NoState(<<{}, 0, 0>>) /\ final = NoState({}) /\ cleaned = 0 /\ job = Idle /\ up = TRUE
  /\ spent = [pauses |-> 0, misses |-> 0, stops |-> 0, faults |-> 0] /\ between = {}

Today == now \div Day
HourOfDay == now % Day
DayHours(d) == {h \in Hours : h \div Day = d}
\* ResourceScopeRevision: the pauses and lifecycles that meet the range.
ResourceScopeRevision(start, end) == {k \in paused : k[2] >= start /\ k[2] < end}

----------------------------------------------------------------------------
(***************************************************************************)
(* The gap repair.                                                         *)
(***************************************************************************)
\* What the minutes of an hour amount to.
Expected(k) == IF k \in paused THEN 0 ELSE 1
Computed(k) == [samples |-> IF k \in minutes /\ Expected(k) = 1 THEN 1 ELSE 0, expected |-> Expected(k)]
CursorOf(k) == k[1] * (MaxTime + 1) + k[2] + 1
\* RunScheduledMaintenance: early in the day the last hour of the day before,
\* later all of it.
RepairStart == IF HourOfDay < FinalHour THEN Today * Day - 1 ELSE (Today - 1) * Day
GapRevision(start, end) == <<ResourceScopeRevision(start, end), start, end>>
\* prepareGapState: another day, range or scope starts from the beginning.
prepareGapState(date, revision) ==
  IF gap.date # date \/ gap.revision # revision
  THEN [date |-> date, revision |-> revision, status |-> "pending", cursor |-> 0] ELSE gap
\* resourceGapStillNeedsRepair: the row is missing or differs.
NeedsRepair(k) == hourly[k] # Computed(k)
\* nextResourceGapCandidates: in order, behind the cursor.
Candidates(start, end, cursor) ==
  LET ks == {k \in Units \X Hours : k[2] >= start /\ k[2] < end /\ CursorOf(k) > cursor /\ NeedsRepair(k)}
  IN  {k \in ks : Cardinality({j \in ks : CursorOf(j) < CursorOf(k)}) < Batch}

\* A round begins: the first transaction of repairResourceRollupGapItems and
\* the read of the candidates.  Nothing to do leads on to the finalization.
GapBegin ==
  /\ up /\ job = Idle /\ Today >= 1
  /\ LET start == RepairStart
         revision == GapRevision(start, now)
         state == prepareGapState(Today, revision)
         list == Candidates(start, now, state.cursor)
     IN  /\ gap' = state
         /\ job' = [pc |-> IF state.status = "complete" THEN "final" ELSE IF list = {} THEN "scanned" ELSE "items",
                    start |-> start, end |-> now, revision |-> revision, list |-> list]
  /\ UNCHANGED <<now, taken, minutes, paused, hourly, daily, final, cleaned, up, spent, between>>
\* One candidate, in a transaction that locks the site and its pauses.
GapItem ==
  /\ job.pc = "items"
  /\ LET k == CHOOSE c \in job.list : \A other \in job.list : CursorOf(c) <= CursorOf(other)
     IN  IF gap.revision = job.revision /\ CursorOf(k) > gap.cursor
         THEN /\ hourly' = IF NeedsRepair(k) THEN [hourly EXCEPT ![k] = Computed(k)] ELSE hourly
              /\ gap' = [gap EXCEPT !.cursor = CursorOf(k), !.status = "pending"]
              /\ job' = IF job.list = {k} THEN Idle ELSE [job EXCEPT !.list = @ \ {k}]
         ELSE /\ gap' = [gap EXCEPT !.status = "failed"] /\ job' = Idle /\ hourly' = hourly
  /\ UNCHANGED <<now, taken, minutes, paused, daily, final, cleaned, up, spent, between>>
\* Mutant: the end of the scan does not look at the scope again.
GapScannedAnyway ==
  /\ job.pc = "scanned" /\ gap' = [gap EXCEPT !.status = "complete"] /\ job' = [job EXCEPT !.pc = "final"]
  /\ UNCHANGED <<now, taken, minutes, paused, hourly, daily, final, cleaned, up, spent, between>>
\* No candidate is left: complete, unless the scope changed meanwhile.
GapScanned ==
  /\ job.pc = "scanned"
  /\ IF gap.revision = GapRevision(job.start, job.end)
     THEN gap' = [gap EXCEPT !.status = "complete"] /\ job' = [job EXCEPT !.pc = "final"]
     ELSE /\ gap' = [gap EXCEPT !.revision = GapRevision(job.start, job.end), !.cursor = 0, !.status = "pending"]
          /\ job' = Idle
  /\ UNCHANGED <<now, taken, minutes, paused, hourly, daily, final, cleaned, up, spent, between>>

----------------------------------------------------------------------------
(***************************************************************************)
(* The daily finalization, in two phases.                                  *)
(***************************************************************************)
Target == job.end \div Day - 1
DayRevision(d) == ResourceScopeRevision(d * Day, (d + 1) * Day)
Unfinal(d) == [k \in DOMAIN daily |-> IF k[2] = d /\ daily[k] # <<>> THEN [daily[k] EXCEPT !.final = FALSE] ELSE daily[k]]
\* prepareResourceDailyPhase: a new day or scope withdraws what was final.
FinalPrepare ==
  /\ job.pc = "final"
  /\ IF job.end % Day < FinalHour \/ (final.date = Target /\ final.revision = DayRevision(Target) /\ final.status = "complete")
     THEN job' = Idle /\ UNCHANGED <<daily, final>>
     ELSE /\ job' = [job EXCEPT !.pc = "sites", !.list = {}]
          /\ IF final.date = Target /\ final.revision = DayRevision(Target)
             THEN UNCHANGED <<daily, final>>
             ELSE /\ daily' = Unfinal(Target)
                  /\ final' = [date |-> Target, revision |-> DayRevision(Target), status |-> "pending", cursor |-> 0]
  /\ UNCHANGED <<now, taken, minutes, paused, hourly, gap, cleaned, up, spent, between>>
\* runResourceSiteBatch: the scope is compared, the next units are listed.
FinalList ==
  /\ job.pc = "sites"
  /\ LET page == {u \in Units : u > final.cursor /\ u <= final.cursor + Batch}
     IN  job' = IF final.revision # DayRevision(Target) THEN Idle
                ELSE [job EXCEPT !.pc = IF page = {} THEN "publish" ELSE "rebuild",
                                 !.list = page, !.start = Cardinality(page)]
  /\ UNCHANGED <<now, taken, minutes, paused, hourly, daily, gap, final, cleaned, up, spent, between>>
RowsOf(u, d) == {k \in DOMAIN hourly : k[1] = u /\ k[2] \in DayHours(d) /\ hourly[k] # <<>>}
Total(u, d) ==
  [samples |-> Cardinality({k \in RowsOf(u, d) : hourly[k].samples = 1}),
   expected |-> Cardinality({k \in RowsOf(u, d) : hourly[k].expected = 1}), final |-> FALSE]
\* finalizeResourceSite: rebuildResourceDailySite, then every hour must be there.
FinalRebuild ==
  /\ job.pc = "rebuild"
  /\ LET u == CHOOSE x \in job.list : \A y \in job.list : x <= y
         last == job.list = {u}
     IN  IF Cardinality(RowsOf(u, Target)) = Day
         THEN /\ daily' = [daily EXCEPT ![<<u, Target>>] = Total(u, Target)]
              /\ final' = [final EXCEPT !.cursor = u, !.status = "pending"]
              /\ job' = IF ~last THEN [job EXCEPT !.list = @ \ {u}]
                        ELSE IF job.start < Batch THEN [job EXCEPT !.pc = "publish"] ELSE Idle
         ELSE final' = [final EXCEPT !.status = "failed"] /\ job' = Idle /\ daily' = daily
  /\ UNCHANGED <<now, taken, minutes, paused, hourly, gap, cleaned, up, spent, between>>
Publishable ==
  /\ final.date = Target /\ final.revision = DayRevision(Target) /\ final.status # "complete"
  /\ \A u \in Units : daily[<<u, Target>>] # <<>> /\ ~daily[<<u, Target>>].final
\* publishResourceDaily: all rows of the day in one transaction.
FinalPublish ==
  /\ job.pc = "publish" /\ job' = Idle
  /\ IF Publishable
     THEN /\ daily' = [k \in DOMAIN daily |-> IF k[2] = Target THEN [daily[k] EXCEPT !.final = TRUE] ELSE daily[k]]
          /\ final' = [final EXCEPT !.status = "complete"]
     ELSE UNCHANGED <<daily, final>>
  /\ UNCHANGED <<now, taken, minutes, paused, hourly, gap, cleaned, up, spent, between>>

----------------------------------------------------------------------------
(***************************************************************************)
(* The retention of the minutes.                                           *)
(***************************************************************************)
Expired(k) == k[2] + Retention * Day < now
\* listFinalizedResourceMinuteCandidates: the hour exists and the day is final.
Finalized(k) ==
  /\ hourly[k] # <<>>
  /\ daily[<<k[1], k[2] \div Day>>] # <<>> /\ daily[<<k[1], k[2] \div Day>>].final
CleanResourceMinuteBatch(u) ==
  /\ up /\ HourOfDay >= FinalHour /\ cleaned # Today
  /\ \E k \in minutes : k[1] = u /\ Expired(k) /\ Finalized(k)
  /\ minutes' = {k \in minutes : ~(k[1] = u /\ Expired(k) /\ Finalized(k))}
  /\ UNCHANGED <<now, taken, paused, hourly, daily, gap, final, cleaned, job, up, spent, between>>
\* Clean: the day is done when no expired minute is left.
CleanDone ==
  /\ up /\ HourOfDay >= FinalHour /\ cleaned # Today /\ ~\E k \in minutes : Expired(k)
  /\ cleaned' = Today
  /\ UNCHANGED <<now, taken, minutes, paused, hourly, daily, gap, final, job, up, spent, between>>

----------------------------------------------------------------------------
\* The work of the hour is done.
Settled ==
  /\ job = Idle
  /\ Today >= 1 => /\ gap.date = Today /\ gap.revision = GapRevision(RepairStart, now) /\ gap.status = "complete"
                   /\ HourOfDay >= FinalHour => final.date = Today - 1 /\ final.status = "complete"
\* An hour closes; the collector sampled its minutes, or missed them.
Tick ==
  /\ now < MaxTime /\ job = Idle /\ (Prompt /\ up => Settled)
  /\ \E missed \in SUBSET Units :
       /\ IF up THEN spent.misses + Cardinality(missed) <= MaxMisses ELSE missed = Units
       /\ taken' = taken \cup {<<u, now>> : u \in Units \ missed}
       /\ minutes' = minutes \cup {<<u, now>> : u \in Units \ missed}
       /\ spent' = [spent EXCEPT !.misses = IF up THEN @ + Cardinality(missed) ELSE @]
  /\ now' = now + 1
  /\ UNCHANGED <<paused, hourly, daily, gap, final, cleaned, job, up, between>>
\* A pause is entered for a closed hour of yesterday or today.
Pause(u, h) ==
  /\ spent.pauses < MaxPauses
  /\ h < now /\ h \div Day + 1 >= Today /\ <<u, h>> \notin paused
  /\ paused' = paused \cup {<<u, h>>} /\ spent' = [spent EXCEPT !.pauses = @ + 1]
  /\ between' = IF job.pc = "final" THEN between \cup {h \div Day} ELSE between
  /\ UNCHANGED <<now, taken, minutes, hourly, daily, gap, final, cleaned, job, up>>
\* markGlobalFailure: a transaction of the round fails, the round ends.
Fault ==
  /\ job # Idle /\ spent.faults < MaxFaults /\ spent' = [spent EXCEPT !.faults = @ + 1] /\ job' = Idle
  /\ gap' = IF job.pc = "items" THEN [gap EXCEPT !.status = "failed"] ELSE gap
  /\ final' = IF job.pc = "rebuild" THEN [final EXCEPT !.status = "failed"] ELSE final
  /\ UNCHANGED <<now, taken, minutes, paused, hourly, daily, cleaned, up, between>>
Stop == /\ up /\ spent.stops < MaxStops /\ spent' = [spent EXCEPT !.stops = @ + 1]
        /\ up' = FALSE /\ job' = Idle /\ cleaned' = 0
        /\ UNCHANGED <<now, taken, minutes, paused, hourly, daily, gap, final, between>>
Start == /\ ~up /\ up' = TRUE
         /\ UNCHANGED <<now, taken, minutes, paused, hourly, daily, gap, final, cleaned, job, spent, between>>

Round == GapBegin \/ GapItem \/ GapScanned \/ FinalPrepare \/ FinalList \/ FinalRebuild \/ FinalPublish
Next ==
  \/ Round \/ CleanDone \/ Tick \/ Fault \/ Stop \/ Start
  \/ \E u \in Units : CleanResourceMinuteBatch(u) \/ (\E h \in Hours : Pause(u, h))
Spec == Init /\ [][Next]_vars
\* The runtime ticks every minute, no round holds the clock back, and a stopped process
\* is started again.
FairSpec == Spec /\ WF_vars(Round) /\ SF_vars(Tick) /\ WF_vars(Start)

----------------------------------------------------------------------------
\* A stored minute was sampled, and a day counts no more than its hours.
TypeOK ==
  /\ now \in Hours /\ minutes \subseteq taken /\ cleaned \in Days
  /\ \A k \in DOMAIN daily : daily[k] # <<>> => daily[k].samples \in 0..Day /\ daily[k].expected \in 0..Day
  /\ gap.status \in {"pending", "failed", "complete"} /\ final.status \in {"pending", "failed", "complete"}

\* The rows of a day become final together and are withdrawn together,
\* though they are rebuilt one transaction after the other.
PublishedTogether ==
  \A d \in Days : \A u, v \in Units :
    daily[<<u, d>>] # <<>> /\ daily[<<u, d>>].final => daily[<<v, d>>] # <<>> /\ daily[<<v, d>>].final

\* A sample is kept: in its minutes, or in the row of its hour.
NoSampleLost ==
  \A k \in taken : k \in minutes \/ (hourly[k] # <<>> /\ (hourly[k].expected = 1 => hourly[k].samples = 1))

\* A repair never takes a sample away from an hour that has it.
ComputedStays ==
  \A k \in taken \ paused : hourly[k] # <<>> => hourly[k].samples = 1

FinalExact ==
  \A u \in Units :
    LET due == ({u} \X DayHours(final.date)) \ paused
        row == daily[<<u, final.date>>]
    IN  /\ row # <<>> /\ row.final /\ row.expected = Cardinality(due)
        /\ row.samples = Cardinality(due \cap taken)
\* When the finalization of a day is complete and its scope is what it was,
\* the final rows are what was sampled, less what was paused, unless a pause
\* of that day was entered between the repair and the finalization.
FinalIsTrue ==
  final.status = "complete" /\ final.revision = DayRevision(final.date) /\ final.date \notin between => FinalExact
\* The same wherever the pause came.
FinalIsTrueAlways ==
  final.status = "complete" /\ final.revision = DayRevision(final.date) => FinalExact

FinalUntilToday ==
  Today >= 1 /\ \A u \in Units : daily[<<u, Today - 1>>] # <<>> /\ daily[<<u, Today - 1>>].final
\* Yesterday becomes final in the end, though transactions fail, the process
\* stops and pauses are entered late.
YesterdayFinal == <>[]FinalUntilToday

\* Every day that ended becomes final.
EveryDayFinal ==
  <>[](\A d \in 0..(Today - 1) : \A u \in Units : daily[<<u, d>>] # <<>> /\ daily[<<u, d>>].final)
=============================================================================
