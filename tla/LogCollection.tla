--------------------------- MODULE LogCollection ---------------------------
(***************************************************************************)
(* Collection of the upstream log of one site (log_sync).  Time is counted *)
(* in hours.  A run first closes the gap behind the last window, then      *)
(* reads the recent hours, then goes back into the past, window by window. *)
(* A window is read in pages, fenced, and committed as a whole.            *)
(***************************************************************************)
EXTENDS Naturals, FiniteSets, FiniteSetsExt

CONSTANTS MaxHour,       \* bound on the clock
          FirstHour,     \* the hour of the authorization
          StartHour,     \* site.statistics_start_at
          Recent,        \* hours of the regular window (2)
          Span,          \* hours of a window at most (24)
          MaxWindows,    \* maximumLogBackfillWindowsPerRun
          Retention,     \* logs.retention_days, in hours
          Twins,         \* hours with two entries that differ in their id only
          MaxConfig,     \* bound on config_version
          MaxFails       \* bound on windows that cannot be read

LogAssumption ==
  /\ {MaxHour, FirstHour, StartHour, MaxConfig, MaxFails} \subseteq Nat
  /\ {Recent, Span, MaxWindows, Retention} \subseteq Nat \ {0}
  /\ FirstHour > Recent /\ Twins \subseteq 1..MaxHour

VARIABLES hour,    \* the clock
          config,  \* site.config_version
          facts,   \* upstream_log_fact: <<hour, config_version>>
          state,   \* upstream_log_collection_state
          run,     \* the run under way
          fails
vars == <<hour, config, facts, state, run, fails>>

None == 0
NoState == [config |-> 0, status |-> "none", start |-> 0, end |-> 0, history |-> None, backfilled |-> FALSE]
Idle == [pc |-> "idle"]
Window(start, end) == start..(end - 1)
Nonneg(a, b) == IF a > b THEN a - b ELSE 0

Init == /\ hour = FirstHour /\ config = 1 /\ facts = {} /\ state = NoState /\ run = Idle /\ fails = 0

Tick == /\ hour < MaxHour /\ hour' = hour + 1 /\ UNCHANGED <<config, facts, state, run, fails>>
Reconfigure == /\ config < MaxConfig /\ config' = config + 1
               /\ UNCHANGED <<hour, facts, state, run, fails>>
\* The retention worker.
DeleteBefore == /\ facts' = {f \in facts : f[1] >= Nonneg(hour, Retention)} /\ facts' # facts
                /\ UNCHANGED <<hour, config, state, run, fails>>

(***************************************************************************)
(* CommitWindow: a failure keeps the last complete window, a window of the *)
(* past keeps the newer one.  The first commit of a site keeps nothing.    *)
(***************************************************************************)
\* Mutant: a window of the past replaces the newer one.
CommitStateAny(start, end, status) ==
  [config |-> run.config, status |-> status, backfilled |-> state.backfilled,
   start |-> start, end |-> end,
   history |-> IF status = "complete" /\ (state.history = None \/ start < state.history) THEN start ELSE state.history]
CommitState(start, end, status) ==
  LET old == state.config # 0
      keep == old /\ (status # "complete" \/ end < state.end)
  IN  [config |-> run.config, backfilled |-> state.backfilled,
       status |-> IF old /\ status = "complete" /\ end < state.end THEN state.status ELSE status,
       start |-> IF keep THEN state.start ELSE start,
       end |-> IF keep THEN state.end ELSE end,
       history |-> IF status = "complete" /\ (state.history = None \/ start < state.history)
                   THEN start ELSE state.history]

(***************************************************************************)
(* collectWindow.  Entries are told apart by a hash that leaves the id     *)
(* out: two that are alike count once, the total is never reached and the  *)
(* window is refused.  A configuration that changed ends the run without a *)
(* trace.                                                                  *)
(***************************************************************************)
Readable(start, end) == Window(start, end) \cap Twins = {}
collectWindow(start, end, after) ==
  IF config # run.config THEN run' = Idle /\ UNCHANGED <<facts, state, fails>>
  ELSE \/ /\ Readable(start, end)
          /\ facts' = facts \cup (Window(start, end) \X {config})
          /\ state' = CommitState(start, end, "complete")
          /\ run' = after /\ UNCHANGED fails
       \/ /\ ~ Readable(start, end) \/ fails < MaxFails
          /\ fails' = IF Readable(start, end) THEN fails + 1 ELSE fails
          /\ state' = CommitState(start, end, "unavailable")
          /\ run' = Idle /\ UNCHANGED facts

TargetStart(from) == Max({Nonneg(from, Retention), StartHour})

(***************************************************************************)
(* CollectScheduled: the end of the run is the full hour it starts in.     *)
(***************************************************************************)
RecentStart(end) == end - Recent
\* Mutant: the gap is taken to begin where the recent window would.
GapCursorLate(end) == RecentStart(end)
GapCursor(end) ==
  IF state.config = config /\ state.end > 0 /\ state.end < RecentStart(end)
  THEN Max({state.end, TargetStart(RecentStart(end))}) ELSE RecentStart(end)

Start == /\ run.pc = "idle"
         /\ run' = [pc |-> "gap", config |-> config, end |-> hour, cursor |-> GapCursor(hour), windows |-> 0]
         /\ UNCHANGED <<hour, config, facts, state, fails>>

\* recoverScheduledGap: at most MaxWindows windows; what is left fails the run.
RecoverGap ==
  /\ run.pc = "gap" /\ UNCHANGED <<hour, config>>
  /\ IF run.cursor >= RecentStart(run.end)
     THEN run' = [run EXCEPT !.pc = "recent"] /\ UNCHANGED <<facts, state, fails>>
     ELSE IF run.windows = MaxWindows THEN run' = Idle /\ UNCHANGED <<facts, state, fails>>
     ELSE LET end == Min({run.cursor + Span, RecentStart(run.end)})
          IN  collectWindow(run.cursor, end, [run EXCEPT !.cursor = end, !.windows = @ + 1])

CollectRecent ==
  /\ run.pc = "recent" /\ UNCHANGED <<hour, config>>
  /\ collectWindow(RecentStart(run.end), run.end, [run EXCEPT !.pc = "history"])

\* backfillHistory goes back from the oldest hour collected.
BackfillCursor(end) == IF state.history # None /\ state.history < end - Recent THEN state.history ELSE end - Recent
BeginBackfill ==
  /\ run.pc = "history" /\ UNCHANGED <<hour, config, facts, state, fails>>
  /\ run' = IF config # run.config \/ state.backfilled THEN Idle
            ELSE [run EXCEPT !.pc = "backfill", !.cursor = BackfillCursor(run.end), !.windows = 0]

\* MarkBackfillCompleted checks that the history reaches the target.
MarkBackfillAnyway(target) == config = run.config
MarkBackfillCompleted(target) == /\ run.cursor <= target /\ config = run.config
                                 /\ state.history # None /\ state.history <= target
BackfillHistory ==
  /\ run.pc = "backfill" /\ UNCHANGED <<hour, config>>
  /\ LET target == TargetStart(run.end)
         start == Max({Nonneg(run.cursor, Span), target})
     IN  IF run.cursor > target /\ run.windows < MaxWindows
         THEN collectWindow(start, run.cursor, [run EXCEPT !.cursor = start, !.windows = @ + 1])
         ELSE /\ run' = Idle /\ UNCHANGED <<facts, fails>>
              /\ state' = IF MarkBackfillCompleted(target)
                          THEN [state EXCEPT !.backfilled = TRUE] ELSE state

RunStep == RecoverGap \/ CollectRecent \/ BeginBackfill \/ BackfillHistory
Next == Tick \/ Reconfigure \/ DeleteBefore \/ Start \/ RunStep
Spec == Init /\ [][Next]_vars
\* log_sync is enqueued at every full hour and a run that was started goes on.
FairSpec == Spec /\ WF_vars(Start) /\ WF_vars(RunStep) /\ WF_vars(Tick)

----------------------------------------------------------------------------
(***************************************************************************)
(* Properties.                                                             *)
(***************************************************************************)
Has(h) == \E c \in 1..MaxConfig : <<h, c>> \in facts
Kept(from, end) == {h \in Window(from, end) : h >= Nonneg(hour, Retention)}

(* Between the start of the history and the end of the last window there   *)
(* is no hole: failed windows, gaps and windows of the past commit in any  *)
(* order a site can meet (CommitWindow, recoverScheduledGap).              *)
NoHoles == state.history # None => \A h \in Kept(state.history, state.end) : Has(h)

(* backfill_completed_at is set only when the history is whole down to the *)
(* start of the statistics or of the retention.                            *)
BackfillIsWhole ==
  state.backfilled => \A h \in Kept(StartHour, state.end) : Has(h)

(* The window that is known to be complete never moves back, and the       *)
(* history never gets shorter, even when the configuration changes during  *)
(* a run or a window of the past commits last.                             *)
CursorForwardStep ==
     /\ state'.end >= state.end
     /\ state.history # None => state'.history # None /\ state'.history <= state.history
CursorForward == [][CursorForwardStep]_vars

CaughtUp == \A h \in Kept(StartHour, hour) : Has(h)
(* Whatever failed or was missed, a site that is reachable again catches   *)
(* up: every hour that is kept is collected in the end.                    *)
CatchesUp == <>[]CaughtUp

(* An entry of the upstream is stored once: the query over the facts does  *)
(* not look at config_version.                                             *)
StoredOnce == \A f, g \in facts : f[1] = g[1] => f = g
=============================================================================
