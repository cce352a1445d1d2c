------------------------- MODULE PerformanceHistory -------------------------
(***************************************************************************)
(* Collection of one upstream's performance buckets (performance_sync).    *)
(* The first success reads the retention, later rounds the last hours      *)
(* only, and a commit makes the rows of its window exactly what it read.   *)
(* The window is computed after the read and before the transaction, so    *)
(* the clock may pass an hour on either side, and a round whose lease ran  *)
(* out may commit after a later one.  Time is in half hours; a bucket is   *)
(* an hour, named by its start.  The upstream answers with the buckets     *)
(* from the start of the hour on (external).                               *)
(***************************************************************************)
EXTENDS Naturals, FiniteSets

CONSTANTS Rounds,
          MaxTime,     \* bound on the clock
          MaxValue,    \* bound on a bucket's value
          MaxConfig,   \* bound on config_version
          Rolling,     \* half hours of a later round (4)
          Retention,   \* half hours of the history kept
          MaxGap       \* half hours without a success at most

PerformanceAssumption ==
  /\ {MaxTime, MaxValue, MaxConfig} \subseteq Nat
  /\ {Rolling, Retention, MaxGap} \subseteq Nat \ {0}
  /\ MaxGap + 1 <= Rolling /\ Rolling < Retention

VARIABLES now, config,
          remote,   \* bucket -> its value upstream, 0 without traffic
          rows,     \* bucket -> [value, config], stored
          state,    \* [capability, backfilled, config]
          readAt,   \* when the snapshot committed last was read (history)
          round     \* round -> the round under way; late (ghost): another
                    \* committed since it read
vars == <<now, config, remote, rows, state, readAt, round>>

Monus(a, b) == IF a > b THEN a - b ELSE 0
FloorHour(t) == t - (t % 2)
Buckets == {b \in 0..MaxTime : b % 2 = 0}
Idle == [pc |-> "idle"]

Init ==
  /\ now \in {2, 3} /\ config = 1
  /\ remote \in {f \in [Buckets -> 0..MaxValue] : \A b \in Buckets : b > 0 => f[b] = 0}
  /\ rows = <<>> /\ readAt = 0
  /\ state = [capability |-> "none", backfilled |-> FALSE, config |-> 0]
  /\ round = [r \in Rounds |-> Idle]

\* Requests go to the bucket of the clock.
Traffic ==
  /\ remote[FloorHour(now)] < MaxValue
  /\ remote' = [remote EXCEPT ![FloorHour(now)] = @ + 1]
  /\ UNCHANGED <<now, config, rows, state, readAt, round>>
\* Neither a gap between snapshots nor a round lasts longer than MaxGap.
Tick ==
  /\ now < MaxTime /\ (state.backfilled => now < readAt + MaxGap)
  /\ \A r \in Rounds : round[r] # Idle => now < round[r].since + MaxGap
  /\ now' = now + 1 /\ UNCHANGED <<config, remote, rows, state, readAt, round>>
Fence == /\ config < MaxConfig /\ config' = config + 1
         /\ UNCHANGED <<now, remote, rows, state, readAt, round>>

----------------------------------------------------------------------------
\* The hours of a round: PerformanceBackfillRequired.
Hours == IF ~state.backfilled THEN Retention ELSE Rolling
Begin(r) ==
  /\ round[r] = Idle
  /\ round' = [round EXCEPT ![r] = [pc |-> "read", config |-> config, hours |-> Hours, since |-> now]]
  /\ UNCHANGED <<now, config, remote, rows, state, readAt>>

\* PerformanceHistory, PerformanceHistoryIncremental: the summary names the
\* models of the window, one request per model reads its buckets.
Answer(hours) == LET window == {b \in Buckets : b >= FloorHour(Monus(now, hours)) /\ remote[b] # 0}
                 IN  [b \in window |-> remote[b]]
Read(r) ==
  /\ round[r].pc = "read"
  /\ round' = [round EXCEPT ![r] = [pc |-> "stamp", config |-> @.config, hours |-> @.hours,
                                    since |-> @.since, at |-> now, got |-> Answer(@.hours),
                                    late |-> FALSE]]
  /\ UNCHANGED <<now, config, remote, rows, state, readAt>>
\* The clock after the last answer gives the start of the window.
Stamp(r) ==
  /\ round[r].pc = "stamp"
  /\ round' = [round EXCEPT ![r] = [pc |-> "commit", config |-> @.config, hours |-> @.hours,
                                    since |-> @.since, at |-> @.at, got |-> @.got,
                                    late |-> @.late, now |-> now]]
  /\ UNCHANGED <<now, config, remote, rows, state, readAt>>
\* MarkPerformanceUnavailable; backfill_completed_at stays.
Fail(r) ==
  /\ round[r].pc = "read"
  /\ state' = IF round[r].config = config
              THEN [state EXCEPT !.capability = "unavailable", !.config = config] ELSE state
  /\ round' = [round EXCEPT ![r] = Idle]
  /\ UNCHANGED <<now, config, remote, rows, readAt>>

\* ApplyPerformanceHistorySnapshot: the rows from start on become the
\* snapshot; equal rows (performanceBucketFactsEqual) are not written again.
Applied(got, start) ==
  [b \in {k \in DOMAIN rows : k < start} \cup DOMAIN got |->
     IF b \in DOMAIN got THEN [value |-> got[b], config |-> config] ELSE rows[b]]
\* DeletePerformanceBefore.
Kept(f, at) == [b \in {k \in DOMAIN f : k >= Monus(at, Retention)} |-> f[b]]

Valid(t, start) == config = t.config /\ \A b \in DOMAIN t.got : b >= start
Overtaken(t) == IF t.pc \in {"stamp", "commit"} THEN [t EXCEPT !.late = TRUE] ELSE t
Commit(r) ==
  /\ round[r].pc = "commit"
  /\ LET t == round[r]
         start == FloorHour(Monus(t.now, t.hours))
     IN  IF Valid(t, start)
         THEN /\ rows' = Kept(Applied(t.got, start), t.now)
              /\ state' = [capability |-> "available", config |-> config,
                           backfilled |-> state.backfilled \/ t.hours = Retention]
              /\ readAt' = t.at
              /\ round' = [q \in Rounds |-> IF q = r THEN Idle ELSE Overtaken(round[q])]
         ELSE round' = [round EXCEPT ![r] = Idle] /\ UNCHANGED <<rows, state, readAt>>
  /\ UNCHANGED <<now, config, remote>>

\* executePeriodicPerformance.
executePeriodicPerformance(r) == Begin(r) \/ Read(r) \/ Stamp(r) \/ Fail(r) \/ Commit(r)
Next == Traffic \/ Tick \/ Fence \/ \E r \in Rounds : executePeriodicPerformance(r)
Spec == Init /\ [][Next]_vars

----------------------------------------------------------------------------
\* The stored points and the state of the round have their declared shape.
TypeOK ==
  /\ now \in 0..MaxTime /\ config \in 1..MaxConfig
  /\ DOMAIN rows \subseteq Buckets /\ \A b \in DOMAIN rows : rows[b].value \in 1..MaxValue
  /\ state.capability \in {"none", "available", "unavailable"}

InRetention(b) == b >= Monus(now, Retention)
\* Every bucket of the retention that was over when the last snapshot was
\* read is stored with its final value, though later rounds read two hours
\* only and the hour may turn between a read and its commit.
SettledWhole ==
  state.backfilled =>
    \A b \in Buckets :
      b + 2 <= readAt /\ InRetention(b) /\ remote[b] # 0
        => b \in DOMAIN rows /\ rows[b].value = remote[b]

Lasts(b) == b \in DOMAIN rows /\ b >= Monus(now', Retention) => b \in DOMAIN rows'
Late(r) == round[r].pc = "commit" /\ round[r].late /\ round'[r] = Idle
HistoryKeptStep == \A b \in Buckets : Lasts(b) \/ \E r \in Rounds : Late(r)
\* A bucket that is stored never disappears before its retention ends, unless
\* a round commits what it read before another committed.
HistoryKept == [][HistoryKeptStep]_vars

\* The same of every round.
RetainsFactsStep == \A b \in Buckets : Lasts(b)
RetainsFacts == [][RetainsFactsStep]_vars
=============================================================================
