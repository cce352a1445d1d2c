--------------------------- MODULE RunRetention ---------------------------
(***************************************************************************)
(* The round of the scheduled maintenance and its two retentions of        *)
(* collection runs: the error text of an old run is cleared, an old        *)
(* successful diagnostic run is deleted.  Each works through the runs in   *)
(* the order of their ids, one bounded transaction per round, behind a     *)
(* durable cursor that starts again every day.  Runs end in another order  *)
(* than their ids.  A day has Phases phases; the retentions run in the     *)
(* last one.                                                               *)
(***************************************************************************)
EXTENDS Integers, FiniteSets

CONSTANTS Ids,         \* 1..n
          Phases,      \* phases of a day
          RedactAfter, CleanAfter,  \* days
          Batch,       \* rows of a transaction (500)
          MaxDays, MaxFaults
RetentionAssumption ==
  /\ Ids = 1..Cardinality(Ids) /\ Phases \in Nat \ {0, 1} /\ {RedactAfter, CleanAfter, Batch} \subseteq Nat \ {0}
  /\ {MaxDays, MaxFaults} \subseteq Nat

VARIABLES now,     \* phases since the start
          runs,    \* id -> [status, finished, error, windows]; status "live", "diagnostic", "other", "gone"
          state,   \* operation -> [date, cursor, status]
          round,   \* what the round under way has still to do
          faults
vars == <<now, runs, state, round, faults>>

Operations == {"redact", "clean"}
Today == now \div Phases + 1
RetentionDue == now % Phases = Phases - 1
After == [redact |-> RedactAfter, clean |-> CleanAfter]
Cutoff(op) == now - After[op] * Phases

Init ==
  /\ now = 0
  /\ \E w \in Ids \cup {0} : runs = [id \in Ids |-> [status |-> "live", finished |-> -1, error |-> FALSE, windows |-> id = w]]
  /\ state = [op \in Operations |-> [date |-> 0, cursor |-> 0, status |-> "pending"]]
  /\ round = {} /\ faults = 0

\* A run ends: successful ones of the schedule without windows are diagnostics,
\* others may carry an error text.
Finish(id) ==
  /\ runs[id].status = "live"
  /\ \E status \in {"diagnostic", "other"}, error \in BOOLEAN :
       /\ status = "diagnostic" => ~error
       /\ runs' = [runs EXCEPT ![id].status = status, ![id].finished = now, ![id].error = error]
  /\ UNCHANGED <<now, state, round, faults>>
Tick == now < MaxDays * Phases - 1 /\ round = {} /\ now' = now + 1 /\ UNCHANGED <<runs, state, round, faults>>

----------------------------------------------------------------------------
\* RunScheduledMaintenance: both retentions when they are due, the second also
\* when the first failed.
BeginRound ==
  /\ RetentionDue /\ round = {} /\ \E op \in Operations : ~(state[op].date = Today /\ state[op].status = "complete")
  /\ round' = Operations /\ UNCHANGED <<now, runs, state, faults>>

\* A new day starts over; a complete day is left alone.
Resumed(op) == IF state[op].date = Today THEN state[op] ELSE [date |-> Today, cursor |-> 0, status |-> "pending"]
Old(op, id) == runs[id].status \notin {"live", "gone"} /\ runs[id].finished < Cutoff(op)
Eligible(op, id) == Old(op, id) /\ IF op = "redact" THEN runs[id].error ELSE runs[id].status = "diagnostic" /\ ~runs[id].windows
Selected(op) ==
  LET all == {id \in Ids : id > Resumed(op).cursor /\ Eligible(op, id)} IN
  {id \in all : Cardinality({x \in all : x < id}) < Batch}
Advanced(op, ids) ==
  [date |-> Today, cursor |-> IF ids = {} THEN Resumed(op).cursor ELSE CHOOSE m \in ids : \A x \in ids : x <= m,
   status |-> IF Cardinality(ids) < Batch THEN "complete" ELSE "pending"]
Treated(op, run) == IF op = "redact" THEN [run EXCEPT !.error = FALSE] ELSE [run EXCEPT !.status = "gone"]
RetentionBatch(op) ==
  /\ op \in round /\ (op = "clean" => "redact" \notin round) /\ round' = round \ {op}
  /\ IF Resumed(op).status = "complete"
     THEN UNCHANGED <<runs, state>>
     ELSE /\ runs' = [id \in Ids |-> IF id \in Selected(op) THEN Treated(op, runs[id]) ELSE runs[id]]
          /\ state' = [state EXCEPT ![op] = Advanced(op, Selected(op))]
  /\ UNCHANGED <<now, faults>>
\* The transaction fails: date and cursor stay, markGlobalFailure notes it.
BatchFault(op) ==
  /\ op \in round /\ (op = "clean" => "redact" \notin round) /\ Resumed(op).status # "complete" /\ faults < MaxFaults
  /\ faults' = faults + 1 /\ round' = round \ {op}
  /\ state' = [state EXCEPT ![op].status = "failed"]
  /\ UNCHANGED <<now, runs>>

Next == Tick \/ BeginRound \/ (\E id \in Ids : Finish(id)) \/ (\E op \in Operations : RetentionBatch(op) \/ BatchFault(op))
Spec == Init /\ [][Next]_vars

----------------------------------------------------------------------------
\* The runs and the states of the operations are of their types.
TypeOK ==
  /\ \A id \in Ids : runs[id].status \in {"live", "diagnostic", "other", "gone"} /\ runs[id].finished \in -1..now
  /\ \A op \in Operations : state[op].cursor \in 0..Cardinality(Ids) /\ state[op].status \in {"pending", "failed", "complete"}
OnlyOldDiagnosticsGoStep ==
     \A id \in Ids :
       /\ runs'[id].status = "gone" /\ runs[id].status # "gone" =>
            runs[id].status = "diagnostic" /\ ~runs[id].windows /\ now - runs[id].finished > CleanAfter * Phases
       /\ runs[id].error /\ ~runs'[id].error => now - runs[id].finished > RedactAfter * Phases
\* A run with windows, one that failed and one that still runs are never deleted,
\* and nothing is touched before its age.
OnlyOldDiagnosticsGo == [][OnlyOldDiagnosticsGoStep]_vars
\* A day is complete only when every run that was old at its beginning is treated,
\* though runs end out of the order of their ids and batches fail in between.
DayIsComplete ==
  \A op \in Operations, id \in Ids :
    state[op].date = Today /\ state[op].status = "complete" /\ runs[id].status \notin {"live", "gone"}
      /\ runs[id].finished < (Today - 1) * Phases - After[op] * Phases
    => IF op = "redact" THEN ~runs[id].error ELSE ~(runs[id].status = "diagnostic" /\ ~runs[id].windows)
=============================================================================
