------------------------------ MODULE AlertScan ------------------------------
(***************************************************************************)
(* From committed rows to alert samples: one usage hour of a site with its   *)
(* validation and one backfill run.  The periodic scan                       *)
(* (service/alert_scanner.go over model/alert_evaluation.go) reads windows,   *)
(* runs and validations one query after the other, builds the samples of the  *)
(* rules collection_missing, validation_failed and backfill_failed and        *)
(* evaluates them in that order, each in a transaction of its own; rows and   *)
(* events may change at every point between.  The hook after a commit         *)
(* (service/alert_post_commit.go) evaluates the rows of its commit.           *)
(*                                                                           *)
(* A sample carries the time its rows changed, one of a site out of scope the *)
(* time it was built, and the evaluation cursor of the rule drops what is not *)
(* newer (service/alert.go).  Only the order of these times matters: order    *)
(* ranks them for each rule.  Every change has a second of its own, so equal   *)
(* ranks are the same sample.                                                 *)
(***************************************************************************)
EXTENDS Naturals, FiniteSets

CONSTANTS
    ProofGaps,    \* whether fact rows may disagree with their proof, or validations be late
    Causes,       \* why a site may be out of scope: disabled, unauthorized, export off
    Runs,         \* the run types the hour has: subset of {"validation", "backfill"}
    MaxDisturbed  \* bound: changes of rows and hooks within one scan

ProofGapsAssumption == ProofGaps \in BOOLEAN
ScanBoundAssumption == MaxDisturbed \in Nat

Rules == {"collection_missing", "validation_failed", "backfill_failed"}
\* The times behind the samples of a rule, next to its cursor and the stamp the scan read.
Sources(r) ==
    CASE r = "collection_missing" -> {"window"}
      [] r = "validation_failed" -> {"window", "validation"}
      [] r = "backfill_failed" -> {"backfill"}

VARIABLES
    site,        \* lost: why it is out of scope; ended: its statistics have ended
    window,      \* collection_window of the hour
    validation,  \* the latest usage_validation run window of the hour
    backfill,    \* a usage_backfill run whose only window is the hour
    active,      \* rules with an active event for this target
    order,       \* for each rule the ranks of its times
    scan,        \* the scan under way: its next step and the samples built so far
    disturbed,   \* changes and hooks since the scan began
    scanner      \* the alert runtime: running, or stopped by an error of the scan

rows == <<site, window, validation, backfill>>
vars == <<site, window, validation, backfill, active, order, scan, disturbed, scanner>>

Site == [lost : SUBSET Causes, ended : BOOLEAN]
\* proven: fact_rows equals the number of facts; due: two hours past the end of the day;
\* verified: verified_at is not before the end of the day.
Window == [status : {"absent", "missing", "complete"}, mismatch : BOOLEAN,
           proven : BOOLEAN, due : BOOLEAN, verified : BOOLEAN]
\* repaired: the fact was verified after the validation failed.
Validation == [status : {"none", "pending", "failed", "superseded", "success"}, repaired : BOOLEAN]
Backfill == {"none", "pending", "failed", "superseded", "success"}

\* No sample: nothing to evaluate.
NoSample == [state |-> "none", source |-> "scan"]
Idle == [pc |-> "idle", sample |-> [r \in Rules |-> NoSample]]

Init ==
    /\ site = [lost |-> {}, ended |-> FALSE]
    /\ window = [status |-> "absent", mismatch |-> FALSE, proven |-> TRUE,
                 due |-> FALSE, verified |-> FALSE]
    /\ validation = [status |-> "none", repaired |-> FALSE]
    /\ backfill = "none"
    /\ active = {}
    /\ order = [r \in Rules |-> [n \in Sources(r) \cup {"cursor", "read"} |-> 0]]
    /\ scan = Idle /\ disturbed = 0
    /\ scanner = "running"

-----------------------------------------------------------------------------
\* The order of times.
Dense(f) == [n \in DOMAIN f |-> Cardinality({f[m] : m \in {k \in DOMAIN f : f[k] < f[n]}})]
LatestOf(f, names) == CHOOSE x \in {f[n] : n \in names} : \A n \in names : x >= f[n]
\* The moment: newer than every time so far.
Now(r) == 1 + LatestOf(order[r], DOMAIN order[r])

\* A row changes now.
Touch(name) ==
    order' = [r \in Rules |-> IF name \in Sources(r)
                              THEN Dense([order[r] EXCEPT ![name] = Now(r)]) ELSE order[r]]

-----------------------------------------------------------------------------
\* Samples: "breach", "healthy", "unknown" or "inactive".
Sample(state) == [state |-> state, source |-> "scan"]
Breach(source) == [state |-> "breach", source |-> source]

\* collectionAlertApplicable; the hour lies before the end of the statistics.
collectionAlertApplicable == site.lost = {}

\* The validation and backfill rules also end with the statistics.
openEndedApplicable == collectionAlertApplicable /\ ~site.ended

\* A mismatch is the more specific diagnosis: validation_failed owns the incident.
collectionMissingEvaluation ==
    CASE ~collectionAlertApplicable -> Sample("inactive")
      [] collectionAlertApplicable /\ window.status = "missing" ->
            IF window.mismatch THEN Sample("healthy") ELSE Sample("breach")
      [] collectionAlertApplicable /\ window.status = "complete" -> Sample("healthy")
      [] OTHER -> Sample("unknown")

\* What the branches of validationFailedEvaluation say of a failed validation.
FailedValidation ==
    CASE validation.status = "superseded" -> Sample("healthy")
      [] validation.status = "failed" /\ window.status = "complete" /\ validation.repaired ->
            Sample("healthy")
      [] OTHER -> Breach("execution_failed")

\* Mutant: a retry closes the incident.
LatestValidationOptimistic ==
    IF validation.status \in {"failed", "superseded"} THEN FailedValidation ELSE Sample("healthy")

\* The latest validation row, when there is one: a retry under way proves nothing.  The
\* status of the facts is that of its own query.
LatestValidation ==
    CASE validation.status \in {"failed", "superseded"} -> FailedValidation
      [] validation.status = "success" /\ window.status = "complete" -> Sample("healthy")
      [] OTHER -> Sample("unknown")

\* The first branches of validationFailedEvaluation, on the window; counted: its fact rows
\* were counted (the scan only).  "complete" and "missing" leave it to the validation row.
WindowDiagnosis(counted) ==
    CASE ~openEndedApplicable -> Sample("inactive")
      [] openEndedApplicable /\ window.status = "missing" ->
            IF window.mismatch THEN Breach("data_mismatch") ELSE Sample("missing")
      [] openEndedApplicable /\ window.status = "complete" /\ counted /\ ~window.proven ->
            Breach("fact_proof_mismatch")
      [] openEndedApplicable /\ window.status = "complete" /\ ~(counted /\ ~window.proven) ->
            IF window.due /\ ~window.verified THEN Breach("validation_pending") ELSE Sample("complete")
      [] OTHER -> NoSample

\* validationFailedEvaluation: the diagnosis d of the window, when it was selected, and the
\* validation row, when it is known.
validationFailedEvaluation(d, known) ==
    CASE d.state \in {"inactive", "breach"} \/ (d = NoSample /\ ~known) -> d
      [] d = NoSample /\ known /\ ~openEndedApplicable -> Sample("inactive")
      [] d.state = "complete" /\ ~known -> Sample("healthy")
      [] d.state = "missing" /\ ~known -> Sample("unknown")
      [] OTHER -> LatestValidation

\* A failed run is remediated once the facts of its windows are complete.
backfillFailedEvaluation ==
    CASE ~openEndedApplicable -> Sample("inactive")
      [] openEndedApplicable /\ backfill = "failed" /\ window.status # "complete" -> Sample("breach")
      [] OTHER -> Sample("healthy")

\* buildAlertMessage knows two kinds of validation failure and rejects any other.
buildAlertMessage(r, s) ==
    r = "validation_failed" /\ s.state = "breach" => s.source \in {"data_mismatch", "execution_failed"}

-----------------------------------------------------------------------------
\* Rows the scan selects.

HourEvents == active \cap {"collection_missing", "validation_failed"}

\* Mutant: a complete hour is counted only when it is due.
countedWhenDue == window.status = "complete" /\ window.due

\* bounded_complete: complete hours that are due for their proof or have an active event.
countedComplete == window.status = "complete" /\ (window.due \/ HourEvents # {})

\* listCollectionWindows, with fewer hours than alertValidationProofCandidateLimitPerSite.
listCollectionWindows == window.status = "missing" \/ countedComplete

listValidations ==
    \/ validation.status \in {"failed", "superseded"}
    \/ validation.status # "none" /\ "validation_failed" \in active

listBackfills ==
    \/ backfill \in {"failed", "superseded"}
    \/ backfill # "none" /\ "backfill_failed" \in active

-----------------------------------------------------------------------------
\* Evaluate, for a sample s with the time at.  What is not newer than the cursor is a
\* duplicate, which only closes an event.
Applied(r, s, at) ==
    /\ s # NoSample
    /\ at > order[r].cursor \/ (r \in active /\ s.state \in {"healthy", "inactive"})

\* A rejected message rolls the evaluation back.
Rejected(r, s, at) == Applied(r, s, at) /\ ~buildAlertMessage(r, s)

\* The cursor follows every applied sample but an unknown one.
CursorAfter(r, s, at) ==
    IF Applied(r, s, at) /\ ~Rejected(r, s, at) /\ s.state # "unknown" THEN at ELSE order[r].cursor

\* samples and times are functions on the rules; the rules are independent.
Evaluate(samples, times) ==
    LET applied == {r \in Rules : /\ Applied(r, samples[r], times[r])
                                  /\ ~Rejected(r, samples[r], times[r])}
    IN  active' = (active \ {r \in applied : samples[r].state \in {"healthy", "inactive"}})
                  \cup {r \in applied : samples[r].state = "breach"}

\* The time of a sample: that of the rows it was built from, or of the moment.
TimeOf(r, s, names) == IF s.state = "inactive" \/ names = {} THEN Now(r) ELSE LatestOf(order[r], names)

\* A hook evaluates what it read at once.
Hook(collection, validated, hasWindow, known, backfilled) ==
    LET samples == [r \in Rules |-> CASE r = "collection_missing" -> collection
                                      [] r = "validation_failed" -> validated
                                      [] r = "backfill_failed" -> backfilled]
        named(r) == CASE r = "validation_failed" -> (IF hasWindow THEN {"window"} ELSE {})
                                                    \cup (IF known THEN {"validation"} ELSE {})
                      [] OTHER -> Sources(r)
        times == [r \in Rules |-> TimeOf(r, samples[r], named(r))]
    IN  /\ Evaluate(samples, times)
        /\ order' = [r \in Rules |->
                Dense([order[r] EXCEPT !.cursor = CursorAfter(r, samples[r], times[r]),
                        !.read = IF scan = Idle THEN CursorAfter(r, samples[r], times[r]) ELSE @])]
        /\ UNCHANGED <<rows, scan, scanner>>

\* What happens while a scan is under way.
Disturb ==
    /\ scan = Idle \/ disturbed < MaxDisturbed
    /\ disturbed' = IF scan = Idle THEN 0 ELSE disturbed + 1

\* loadCommittedCollectionWindow and loadCommittedValidationWindow: the window with its
\* latest validation, without counting facts.  A rejected evaluation is only logged.
HookWindow ==
    /\ Disturb
    /\ window.status # "absent" \/ validation.status # "none"
    /\ LET known == validation.status # "none"
           present == window.status # "absent"
       IN  Hook(IF present THEN collectionMissingEvaluation ELSE NoSample,
                validationFailedEvaluation(IF present THEN WindowDiagnosis(FALSE) ELSE NoSample, known),
                present, known, NoSample)

\* loadCommittedBackfillRun
HookBackfill ==
    /\ Disturb
    /\ backfill # "none"
    /\ Hook(NoSample, NoSample, FALSE, FALSE, backfillFailedEvaluation)

\* loadCommittedSiteScope, after a change of the site: all of its open incidents.
HookSite ==
    /\ Disturb
    /\ LET windows == window.status = "missing" \/ (window.status = "complete" /\ HourEvents # {})
       IN  Hook(IF windows THEN collectionMissingEvaluation ELSE NoSample,
                validationFailedEvaluation(IF windows THEN WindowDiagnosis(FALSE) ELSE NoSample, listValidations),
                windows, listValidations, IF listBackfills THEN backfillFailedEvaluation ELSE NoSample)

-----------------------------------------------------------------------------
\* RunOnce, a query or an evaluation at a time.

\* LoadSnapshot: the windows with the site and the count of their facts,
ListWindows ==
    /\ scanner = "running"
    /\ scan.pc = "idle"
    /\ scan' = [pc |-> "backfills",
                sample |-> [scan.sample EXCEPT
                    !["collection_missing"] =
                        IF listCollectionWindows THEN collectionMissingEvaluation ELSE NoSample,
                    !["validation_failed"] =
                        IF listCollectionWindows THEN WindowDiagnosis(countedComplete) ELSE NoSample]]
    /\ order' = [r \in Rules |-> IF "window" \in Sources(r) /\ listCollectionWindows
                                 THEN Dense([order[r] EXCEPT !.read = order[r].window]) ELSE order[r]]
    /\ disturbed' = 0
    /\ UNCHANGED <<rows, active, scanner>>

\* then the runs,
ListBackfills ==
    /\ scan.pc = "backfills"
    /\ scan' = [scan EXCEPT !.pc = "validations",
                    !.sample["backfill_failed"] =
                        IF listBackfills THEN backfillFailedEvaluation ELSE NoSample]
    /\ order' = [order EXCEPT !["backfill_failed"] =
                        Dense([@ EXCEPT !.read = order["backfill_failed"].backfill])]
    /\ UNCHANGED <<rows, active, disturbed, scanner>>

\* then the validations; the clock that stamps an inactive sample is read last.
ListValidations ==
    /\ scan.pc = "validations"
    /\ LET d == scan.sample["validation_failed"]
           v == validationFailedEvaluation(d, listValidations)
           times == order["validation_failed"]
           seen == CASE d = NoSample -> times.validation
                     [] d # NoSample /\ listValidations -> LatestOf(times, {"read", "validation"})
                     [] OTHER -> times.read
           samples == [scan.sample EXCEPT !["validation_failed"] = v]
       IN  /\ scan' = [pc |-> "collection_missing", sample |-> samples]
           /\ order' = [r \in Rules |-> Dense([order[r] EXCEPT !.read =
                    CASE samples[r].state = "inactive" -> Now(r)
                      [] samples[r].state # "inactive" /\ r = "validation_failed" -> seen
                      [] OTHER -> @])]
    /\ UNCHANGED <<rows, active, disturbed, scanner>>

After(r) ==
    CASE r = "collection_missing" -> "validation_failed"
      [] r = "validation_failed" -> "backfill_failed"
      [] OTHER -> "idle"

\* The samples in the order of buildAlertEvaluations: one that is rejected ends the scan, its
\* later targets and the runtime.
EvaluateNext ==
    /\ scan.pc \in Rules
    /\ LET r == scan.pc
           s == scan.sample[r]
           at == order[r].read
           samples == [q \in Rules |-> IF q = r THEN s ELSE NoSample]
           stops == Rejected(r, s, at)
           over == stops \/ After(r) = "idle"
           cursor == CursorAfter(r, s, at)
       IN  /\ Evaluate(samples, [q \in Rules |-> at])
           /\ scanner' = IF stops THEN "stopped" ELSE scanner
           /\ scan' = IF over THEN Idle
                      ELSE [pc |-> After(r), sample |-> [scan.sample EXCEPT ![r] = NoSample]]
           /\ order' = [q \in Rules |->
                CASE q = r -> Dense([order[q] EXCEPT !.cursor = cursor, !.read = cursor])
                  [] q # r /\ over -> Dense([order[q] EXCEPT !.read = order[q].cursor])
                  [] OTHER -> order[q]]
    /\ UNCHANGED <<rows, disturbed>>

-----------------------------------------------------------------------------
\* The rows change (CollectionTask, CollectionSystem).
SiteChanges ==
    /\ Disturb
    /\ site' \in Site \ {site}
    /\ UNCHANGED <<window, validation, backfill, active, order, scan, scanner>>

\* Without gaps an hour is proven, and verified by the time it is due.
WindowCommitted ==
    /\ Disturb
    /\ window' \in Window
    /\ window'.status # "absent" /\ window'.due = window.due
    /\ window'.status = "complete" => ~window'.mismatch
    /\ ~ProofGaps => window'.proven /\ window'.verified = window.due
    /\ validation' = [validation EXCEPT !.repaired =
                        @ \/ (validation.status = "failed" /\ window'.status = "complete")]
    /\ Touch("window")
    /\ UNCHANGED <<site, backfill, active, scan, scanner>>

\* Two hours after the end of the day the hour is due for its proof.
DayEnds ==
    /\ Disturb
    /\ ~window.due
    /\ window' = [window EXCEPT !.due = TRUE, !.verified = ~ProofGaps]
    /\ UNCHANGED <<site, validation, backfill, active, order, scan, scanner>>

\* A validation run window is created, retried or settled.
ValidationMoves ==
    /\ Disturb
    /\ "validation" \in Runs
    /\ validation' \in Validation
    /\ validation'.status # "none"
    /\ ~validation'.repaired
    /\ Touch("validation")
    /\ UNCHANGED <<site, window, backfill, active, scan, scanner>>

BackfillMoves ==
    /\ Disturb
    /\ "backfill" \in Runs
    /\ backfill' \in Backfill \ {"none"}
    /\ Touch("backfill")
    /\ UNCHANGED <<site, window, validation, active, scan, scanner>>

ScanStep == ListWindows \/ ListBackfills \/ ListValidations \/ EvaluateNext

Next ==
    \/ ScanStep \/ HookWindow \/ HookBackfill \/ HookSite
    \/ SiteChanges \/ WindowCommitted \/ DayEnds \/ ValidationMoves \/ BackfillMoves

\* The scan runs every five minutes while the runtime lives.
Fairness == WF_vars(ScanStep)

Spec == Init /\ [][Next]_vars /\ Fairness

-----------------------------------------------------------------------------
\* An active event never drops out of the scan: whatever became of its hour or run, the
\* next scan selects the row again, so that the event can be closed.
ActiveStaysSelected ==
    /\ "collection_missing" \in active => listCollectionWindows
    /\ "validation_failed" \in active => listCollectionWindows \/ listValidations
    /\ "backfill_failed" \in active => listBackfills

\* The end of a scan whose rows did not change under it.
ScanEnds == scan.pc = "backfill_failed" /\ scan' = Idle /\ disturbed = 0

\* A sample of the rule newer than the window was applied.
Passed(r) == order[r].cursor > order[r].window

MismatchHasOneOwnerStep ==
    (ScanEnds /\ window.status = "missing" /\ window.mismatch /\ openEndedApplicable) =>
        /\ "collection_missing" \notin active'
        /\ "validation_failed" \in active' \/ Passed("validation_failed")
\* One incident per hour: a scan leaves a mismatch to the validation event, which it has
\* raised unless a newer sample had been applied, and no gap event beside it.
MismatchHasOneOwner == [][MismatchHasOneOwnerStep]_vars

RetryIsNotRecoveryStep ==
    ("validation_failed" \in active /\ "validation_failed" \notin active') =>
        \/ ~openEndedApplicable
        \/ validation.status # "pending"
        \/ scan # Idle /\ disturbed > 0
\* A validation failure is closed by evidence only: facts verified later, a later success,
\* a changed configuration or a scope that ended; a retry under way never closes it, unless
\* the scan that does had read the rows before the retry began.
RetryIsNotRecovery == [][RetryIsNotRecoveryStep]_vars

InScopeOnly ==
    /\ ~collectionAlertApplicable => "collection_missing" \notin active
    /\ ~openEndedApplicable => active \cap {"validation_failed", "backfill_failed"} = {}
Gap == collectionAlertApplicable /\ window.status = "missing" /\ ~window.mismatch
ScanSettlesStep ==
    ScanEnds =>
        /\ InScopeOnly'
        /\ Gap => "collection_missing" \in active' \/ Passed("collection_missing")
        /\ window.status = "complete" => "collection_missing" \notin active'
        /\ backfill = "failed" /\ window.status = "complete" => "backfill_failed" \notin active'
\* One scan is enough: whatever the hooks missed and however the rows changed since the last
\* one, a scan whose rows do not change under it leaves no event of a site out of scope, no
\* gap or failed backfill event of a complete hour, and an incomplete hour without a mismatch
\* has its gap event, unless a sample newer than the hour was applied before.
ScanSettles == [][ScanSettlesStep]_vars

GapHasEventStep == ScanEnds /\ Gap => "collection_missing" \in active'
\* The same without the exception: an incomplete hour has its gap event.
GapHasEvent == [][GapHasEventStep]_vars

\* A row count that contradicts its proof becomes a validation_failed alert: the scan
\* accepts every sample it builds and goes on.
ScanContinues == scanner = "running"
=============================================================================
