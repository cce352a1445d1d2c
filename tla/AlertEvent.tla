----------------------------- MODULE AlertEvent -----------------------------
(***************************************************************************)
(* One alert target of one site: the rules of its rule key, the evaluation  *)
(* cursor, the active event and the notifications of service/alert.go.      *)
(*                                                                          *)
(* Samples come from two sources, a hook after each commit and the periodic *)
(* scan (service/alert_scanner.go).  Both read a committed row and evaluate *)
(* it later, so samples arrive twice, out of order or, when a hook fails,   *)
(* not at all.  The sample of a row carries the time the row changed, that  *)
(* of a target whose scope ended the time it was built: when the scope is    *)
(* back the sample of an unchanged row is the older one.  Evaluate     *)
(* locks the rules of the key first: evaluations of a target are atomic with *)
(* respect to each other and to changes of the rules.                        *)
(***************************************************************************)
EXTENDS Naturals, FiniteSets

CONSTANTS
    MaxTime,        \* bound on the clock
    MaxValue,       \* sample values and thresholds are 0 .. MaxValue
    Operator,       \* compare_operator of the rule key: ">=" or "<="
    ForTimes,       \* values of for_times
    Reasons,        \* resolution reasons a healthy sample may carry
    MaxFlight,      \* bound: samples read and not yet evaluated
    MaxRuleChanges, \* bound: administrator requests for rules
    MaxScopes       \* bound: how often the scope of the target ends or begins

AlertBoundAssumption == {MaxTime, MaxValue, MaxFlight, MaxRuleChanges, MaxScopes} \subseteq Nat
AlertOperatorAssumption == Operator \in {">=", "<="}

Value == 0 .. MaxValue
Level == {"warning", "critical"}
\* What alertRulePatch accepts: a threshold in the range of the metric, a count of samples.
Rule == [enabled : BOOLEAN, threshold : Value, forTimes : ForTimes]
\* The states validateAlertEvaluation admits.
SampleState == {"known", "unknown", "scope_inactive"}

NoSample == [at |-> 0, key |-> 1, state |-> "unknown", value |-> 0, reason |-> CHOOSE r \in Reasons : TRUE]

\* Key 2 is the identity of a corrected row; it names key 1 in PriorSampleKeys.  Key 3 is
\* that of the site's lifecycle.  Only a known sample has a value.
Sample ==
    {s \in [at : 0 .. MaxTime, key : 1 .. 3, state : SampleState, value : Value, reason : Reasons] :
        s.state # "known" => s.value = 0 /\ s.reason = NoSample.reason}
PriorSampleKeys(s) == IF s.key = 2 THEN {1} ELSE {}

NoRule == [none |-> TRUE]
NoEvent == [id |-> 0]

VARIABLES
    global,    \* global rule of each level
    override,  \* the site's rule of each level, or NoRule
    cursor,    \* alert_evaluation_cursor, at = 0 for none
    active,    \* the pending or firing event, or NoEvent
    closed,    \* the event resolved last: id, whether it had fired, reason
    outbox,    \* the notifications enqueued by the last evaluation: <<event id, type>>
    now,
    latest,    \* the committed row as a sample
    scopes,    \* how often the scope of the target ended or began
    flight,    \* samples read and not yet evaluated
    changes,   \* administrator requests so far
    counted,   \* history: the samples that count in the active event
    back       \* history: an older sample was applied to the active event

vars == <<global, override, cursor, active, closed, outbox, now, latest, scopes, flight, changes, counted, back>>

DefaultThreshold(l) ==
    IF Operator = ">=" THEN IF l = "critical" THEN MaxValue ELSE 1
    ELSE IF l = "critical" THEN 0 ELSE MaxValue - 1

Init ==
    /\ \E f \in [Level -> ForTimes] :
        global = [l \in Level |-> [enabled |-> TRUE, threshold |-> DefaultThreshold(l), forTimes |-> f[l]]]
    /\ override = [l \in Level |-> NoRule]
    /\ cursor = [at |-> 0, key |-> 1]
    /\ active = NoEvent
    /\ closed = [id |-> 2, fired |-> FALSE, reason |-> "none"]
    /\ outbox = {}
    /\ latest = NoSample
    /\ flight = {}
    /\ changes = 0 /\ now = 1 /\ scopes = 0
    /\ counted = {} /\ back = FALSE

-----------------------------------------------------------------------------
\* Rules.
\* effectiveAlertRules, and effectiveAlertRulesForSite: an override replaces its level.
effectiveAlertRules(gl, ov) == [l \in Level |-> IF ov[l] = NoRule THEN gl[l] ELSE ov[l]]

\* validEffectiveAlertPair: disabled rules are compared as well.
validEffectiveAlertPair(rules) ==
    CASE Operator = ">=" -> rules["warning"].threshold < rules["critical"].threshold
      [] Operator = "<=" -> rules["warning"].threshold > rules["critical"].threshold

\* validateAlertPairs: the global pair and the site's.
validateAlertPairs(gl, ov) ==
    /\ validEffectiveAlertPair(gl)
    /\ validEffectiveAlertPair(effectiveAlertRules(gl, ov))

Administrate ==
    /\ changes < MaxRuleChanges
    /\ changes' = changes + 1
    /\ UNCHANGED <<cursor, active, closed, outbox, now, latest, scopes, flight, counted, back>>

\* The row of a level is patched, created as a copy of its base rule with the patch, or
\* taken out of its rule key.
PutRule(rules, l, rule) == [rules EXCEPT ![l] = rule]

UpdateRule(l, rule) ==
    /\ Administrate
    /\ \/ /\ global' = PutRule(global, l, rule)
          /\ UNCHANGED override
       \/ /\ override[l] # NoRule
          /\ override' = PutRule(override, l, rule)
          /\ UNCHANGED global
    /\ validateAlertPairs(global', override')

CreateOverride(l, rule) ==
    /\ Administrate
    /\ override[l] = NoRule
    /\ override' = PutRule(override, l, rule)
    /\ validateAlertPairs(global, override')
    /\ UNCHANGED global

\* DeleteOverride: the pair that remains is not validated.
DeleteOverride(l) ==
    /\ Administrate
    /\ override[l] # NoRule
    /\ override' = PutRule(override, l, NoRule)
    /\ UNCHANGED global

-----------------------------------------------------------------------------
\* Samples.
WithinScope(n) == n % 2 = 0
InScope == WithinScope(scopes)
Inactive == [NoSample EXCEPT !.at = now, !.key = 3, !.state = "scope_inactive"]
\* What a read of the rows is built into: the row, or, when the scope has ended, a sample of
\* the moment (alertScanLatestObservedAt).
ReadingOf(row, n) == IF WithinScope(n) THEN row ELSE Inactive
Reading == ReadingOf(latest, scopes)

Tick ==
    /\ now < MaxTime /\ now' = now + 1
    /\ UNCHANGED <<global, override, cursor, active, closed, outbox, latest, scopes, flight, changes, counted, back>>

\* A commit replaces the row; a correction keeps its observation time.  The last moment of
\* the clock is free of commits (bound).
CommitSample ==
    /\ Cardinality(flight) < MaxFlight /\ now < MaxTime
    /\ \E s \in Sample :
        /\ \/ s.at = now /\ now > latest.at /\ s.key = 1
           \/ s.at = latest.at /\ s.at > 0 /\ s.key = 2 /\ latest.key = 1
        /\ latest' = s
    /\ flight' = flight \cup {ReadingOf(latest', scopes)}
    /\ UNCHANGED <<global, override, cursor, active, closed, outbox, now, scopes, changes, counted, back>>

\* The site is disabled, enabled again, or loses and regains its authorization; its hook
\* reads the rows.
ScopeChanges ==
    /\ scopes < MaxScopes /\ Cardinality(flight) < MaxFlight
    /\ scopes' = scopes + 1
    /\ flight' = flight \cup ({ReadingOf(latest, scopes')} \ {NoSample})
    /\ UNCHANGED <<global, override, cursor, active, closed, outbox, now, latest, changes, counted, back>>

\* The scan reads the committed row; a hook whose evaluation fails is only logged.
ReadByScan ==
    /\ latest.at > 0 /\ Reading \notin flight /\ Cardinality(flight) < MaxFlight
    /\ flight' = flight \cup {Reading}
    /\ UNCHANGED <<global, override, cursor, active, closed, outbox, now, latest, scopes, changes, counted, back>>

LoseHook(s) ==
    /\ s \in flight
    /\ flight' = flight \ {s}
    /\ UNCHANGED <<global, override, cursor, active, closed, outbox, now, latest, scopes, changes, counted, back>>

-----------------------------------------------------------------------------
\* Evaluation.  Values and thresholds are compared as numbers, never as their text.
Matches(rule, v) ==
    /\ rule.enabled
    /\ CASE Operator = ">=" -> v >= rule.threshold
         [] Operator = "<=" -> v <= rule.threshold

\* matchingAlertRule: the level of the most severe rule that matches, or none.
matchingAlertRule(v) ==
    LET rules == effectiveAlertRules(global, override)
    IN  CASE Matches(rules["critical"], v) -> "critical"
          [] ~Matches(rules["critical"], v) /\ Matches(rules["warning"], v) -> "warning"
          [] OTHER -> "none"

\* The cursor row of the target is created by its first sample and advanced by later ones.
HasCursor == cursor.at > 0
\* The one event whose active_key is that of the rule key and the canonical target.
HasActive == active # NoEvent

alertEvaluationIdentityUpgrade(s) ==
    /\ HasCursor /\ s.at = cursor.at /\ s.key # cursor.key
    /\ cursor.key \in PriorSampleKeys(s)

\* alertEvaluationAlreadyApplied: new, duplicate or a conflict that rolls back.
alertEvaluationAlreadyApplied(s) ==
    CASE ~HasCursor \/ s.at > cursor.at -> "new"
      [] HasCursor /\ (s.at < cursor.at \/ (s.at = cursor.at /\ s.key = cursor.key)) -> "duplicate"
      [] OTHER -> "conflict"



\* alertIdentityUpgradeRequiresMutation, with an active event.
alertIdentityUpgradeRequiresMutation(s) ==
    /\ HasActive
    /\ \/ s.state = "scope_inactive"
       \/ s.state = "known" /\ s.value # active.value


\* Whether Evaluate reaches its mutation.
Applied(s) ==
    CASE alertEvaluationIdentityUpgrade(s) -> alertIdentityUpgradeRequiresMutation(s)
      [] ~alertEvaluationIdentityUpgrade(s) ->
            \/ alertEvaluationAlreadyApplied(s) = "new"
            \/ alertEvaluationAlreadyApplied(s) = "duplicate" /\ alertIdentityUpgradeRequiresMutation(s)

\* enqueueAlertTransition: both levels are sent, when the channel is enabled.
Notify(enabled, id, type) == IF enabled THEN {<<id, type>>} ELSE {}


\* The notification of resolveAlertEvent's callers: only a firing event that recovered.
ResolveNotification(enabled, reason) ==
    IF active.status = "firing" /\ reason = "recovered"
    THEN Notify(enabled, active.id, "resolved") ELSE {}

\* resolveAlertEvent; the event keeps its level and takes the reason and last value.
Closing(reason) == [id |-> active.id, fired |-> active.status = "firing", reason |-> reason]

\* The id of an event is only compared with those next to it.
After(id) == 3 - id

NewEvent(id, level, v) ==
    [id |-> id, level |-> level, count |-> 1, value |-> v,
     status |-> IF effectiveAlertRules(global, override)[level].forTimes <= 1 THEN "firing" ELSE "pending"]


\* A sample of the event's own level counts towards for_times.
SameLevel(level, v) ==
    LET total == IF active.status = "pending" THEN active.count + 1 ELSE active.count
        fires == total >= effectiveAlertRules(global, override)[level].forTimes
    IN  [active EXCEPT !.value = v, !.count = total,
            !.status = IF active.status = "firing" \/ fires THEN "firing" ELSE "pending"]

\* An event that starts to fire is announced.
FiringNotification(enabled, before, after) ==
    IF after.status = "firing" /\ before # "firing" THEN Notify(enabled, after.id, "firing") ELSE {}

\* The mutation for a known value; level is the candidate's.
ApplyKnown(s, enabled) ==
    LET level == matchingAlertRule(s.value)
    IN  \/ /\ level = "none" /\ ~HasActive
           /\ outbox' = {}
           /\ UNCHANGED <<active, closed>>
        \/ /\ level = "none" /\ HasActive
           /\ active' = NoEvent
           /\ closed' = Closing(s.reason)
           /\ outbox' = ResolveNotification(enabled, s.reason)
        \/ /\ level # "none" /\ HasActive /\ active.level = level
           /\ active' = SameLevel(level, s.value)
           /\ outbox' = FiringNotification(enabled, active.status, active')
           /\ UNCHANGED closed
        \/ /\ level # "none" /\ ~HasActive
           /\ active' = NewEvent(After(closed.id), level, s.value)
           /\ outbox' = FiringNotification(enabled, "none", active')
           /\ UNCHANGED closed
        \* The other level: the old event is resolved and a new one counts from one.
        \/ /\ level # "none" /\ HasActive /\ active.level # level
           /\ closed' = Closing(s.reason)
           /\ active' = NewEvent(After(active.id), level, s.value)
           /\ outbox' = ResolveNotification(enabled, s.reason) \cup FiringNotification(enabled, "none", active')

\* scope_inactive retires the event without a notification.
ApplyInactive ==
    /\ active' = NoEvent
    /\ closed' = IF HasActive THEN Closing("retired") ELSE closed
    /\ outbox' = {}

\* The cursor follows every applied sample but an unknown one; an upgrade changes its key.
CursorAfter(s) ==
    CASE Applied(s) /\ s.state # "unknown" -> [at |-> s.at, key |-> s.key]
      [] ~Applied(s) /\ alertEvaluationIdentityUpgrade(s) -> [cursor EXCEPT !.key = s.key]
      [] OTHER -> cursor

\* History: which samples count in the event, and whether an older one was applied to it.
Recorded(s) ==
    LET same == HasActive /\ active' # NoEvent /\ active'.id = active.id
        applied == Applied(s) /\ s.state = "known" /\ active' # NoEvent
    IN  /\ counted' = (IF same THEN counted ELSE {}) \cup (IF applied THEN {cursor'} ELSE {})
        /\ back' = (same /\ (back \/ (applied /\ s.at < cursor.at)))

Evaluate(s, enabled) ==
    /\ IF Applied(s) /\ s.state # "unknown"
       THEN IF s.state = "known" THEN ApplyKnown(s, enabled) ELSE ApplyInactive
       ELSE outbox' = {} /\ UNCHANGED <<active, closed>>
    /\ cursor' = CursorAfter(s)
    /\ Recorded(s)
    /\ UNCHANGED <<global, override, now, latest, scopes, changes>>

EvaluateFlight ==
    \E s \in flight, enabled \in BOOLEAN : Evaluate(s, enabled) /\ flight' = flight \ {s}

\* A scan whose evaluation follows its read.
EvaluateScan ==
    /\ latest.at > 0
    /\ \E enabled \in BOOLEAN : Evaluate(Reading, enabled)
    /\ UNCHANGED flight

Next ==
    \/ \E l \in Level, rule \in Rule : UpdateRule(l, rule) \/ CreateOverride(l, rule)
    \/ \E l \in Level : DeleteOverride(l)
    \/ Tick \/ CommitSample \/ ScopeChanges
    \/ ReadByScan
    \/ \E s \in flight : LoseHook(s)
    \/ EvaluateFlight
    \/ EvaluateScan

\* The scan runs every five minutes; what has been read is evaluated in the end.
Fairness == WF_vars(EvaluateScan) /\ WF_vars(EvaluateFlight) /\ WF_vars(Tick)

Spec == Init /\ [][Next]_vars /\ Fairness

-----------------------------------------------------------------------------
ActiveEvent == [id : {1, 2}, level : Level, status : {"pending", "firing"}, count : Nat \ {0}, value : Value]

\* Rules, cursor, event and samples have their declared shape; an event that fires stops
\* counting, so its count stays within for_times.
EventTypeOK ==
    /\ global \in [Level -> Rule]
    /\ override \in [Level -> Rule \cup {NoRule}]
    /\ cursor \in [at : 0 .. MaxTime, key : 1 .. 3]
    /\ active = NoEvent \/ (active \in ActiveEvent /\ \E f \in ForTimes : active.count <= f)
    /\ latest \in Sample /\ flight \subseteq Sample

\* A recovery is announced only of an event that fired and recovered, and never of one
\* that was retired, remediated or superseded, whichever path closed it.
RecoveryAnnounced ==
    \A n \in outbox : n[2] = "resolved" =>
        closed.id = n[1] /\ closed.fired /\ closed.reason = "recovered"

NoResurrectionStep ==
       ~HasActive /\ active' # NoEvent => cursor'.at > cursor.at
\* A target without an active event gets one only from a sample newer than the cursor: a
\* late or repeated sample never raises an alert again.
NoResurrection == [][NoResurrectionStep]_vars

Counts == HasActive /\ active' # NoEvent /\ active'.id = active.id /\ active'.count > active.count
SampleCountsOnceStep == Counts => cursor' \notin counted \/ back'
\* The same sample, evaluated by the hook and by every later scan, counts once towards
\* for_times, unless an older sample with another value took the cursor back meanwhile.
SampleCountsOnce == [][SampleCountsOnceStep]_vars

CountsOnceAlwaysStep == Counts => cursor' \notin counted
\* The same without the exception.
CountsOnceAlways == [][CountsOnceAlwaysStep]_vars

Severity == IF HasActive THEN active.level ELSE "none"
AtLatest ==
    /\ ~InScope => ~HasActive
    /\ InScope /\ latest.state = "known" =>
        \/ Severity = matchingAlertRule(latest.value)
        \/ ~HasActive /\ (cursor.at > latest.at \/ cursor.key # 1)
\* Once samples, rules and scope stop changing, the target settles at the severity of the
\* committed sample, whatever order the evaluations of earlier ones took and whichever hooks
\* failed; a target out of scope has no event.  The code raises no alert where there was
\* none for a correction (key 2), nor for a row that is not newer than the sample which
\* ended the scope (key 3 or a later cursor).
ConvergesToLatest == <>[]AtLatest

\* The same without the exception of the scope.
AtRow == InScope /\ latest.state = "known" => Severity = matchingAlertRule(latest.value) \/ (latest.key = 2 /\ ~HasActive)
ConvergesToRow == <>[]AtRow

\* No sequence of updates, overrides and their deletion leaves the global pair of levels in
\* the wrong order, though every request is checked together with the overrides.
GlobalPairConsistent == validEffectiveAlertPair(global)

OlderSampleIgnoredStep == cursor'.at >= cursor.at
\* An older sample is ignored: it changes neither the event nor the cursor.
OlderSampleIgnored == [][OlderSampleIgnoredStep]_vars

\* Under one rule key the warning threshold is less severe than the critical one.
PairConsistent == validEffectiveAlertPair(effectiveAlertRules(global, override))
=============================================================================
