------------------------------ MODULE MCAlerts ------------------------------
(***************************************************************************)
(* Instances of the alert modules and of the export jobs for TLC.  A        *)
(* behaviour is one of a single instance, which part names; the variables   *)
(* of the other modules keep a value of no meaning.                         *)
(***************************************************************************)
EXTENDS AlertDelivery

VARIABLES
    part,   \* the instance this behaviour is of
    \* AlertEvent
    global, override, cursor, active, closed, outbox, now, latest, scopes, flight, changes,
    counted, back,
    \* AlertScan
    site, window, validation, backfill, scanActive, order, scan, disturbed, scanner,
    \* AlertTargets
    targetsSite, targetsRow,
    \* ExportJob
    job, disk, rates, loop, request, crashes, doubtful, refused

alertVars == <<global, override, cursor, active, closed, outbox, now, latest, scopes, flight,
               changes, counted, back>>
scanVars == <<site, window, validation, backfill, scanActive, order, scan, disturbed, scanner>>
targetsVars == <<targetsSite, targetsRow>>
queueVars == <<job, disk, rates, loop, request, crashes, doubtful, refused>>
mcVars == <<part, vars, alertVars, scanVars, targetsVars, queueVars>>

\* Two exports of one user, one of another.
OwnerOfKey == [k \in {"a1", "a2", "b1"} |-> IF k = "b1" THEN "b" ELSE "a"]

Alert == INSTANCE AlertEvent WITH MaxTime <- 3, MaxValue <- 3, Operator <- ">=",
                                  ForTimes <- {1, 3}, Reasons <- {"recovered"}, MaxFlight <- 2,
                                  MaxRuleChanges <- 0, MaxScopes <- 1
Rules == INSTANCE AlertEvent WITH MaxTime <- 1, MaxValue <- 3, Operator <- ">=",
                                  ForTimes <- {1}, Reasons <- {"recovered"}, MaxFlight <- 2,
                                  MaxRuleChanges <- 4, MaxScopes <- 0
Scan == INSTANCE AlertScan WITH ProofGaps <- FALSE, Causes <- {"disabled"},
                                Runs <- {"validation"}, MaxDisturbed <- 1, active <- scanActive
Repair == INSTANCE AlertScan WITH ProofGaps <- FALSE, Causes <- {"disabled"},
                                  Runs <- {"backfill"}, MaxDisturbed <- 1, active <- scanActive
Targets == INSTANCE AlertTargets WITH site <- targetsSite, row <- targetsRow
Queue == INSTANCE ExportJob WITH MaxJobs <- 3, Keys <- DOMAIN OwnerOfKey, OwnerOf <- OwnerOfKey,
                                 MaxActivePerUser <- 1, MaxActiveGlobal <- 2, MaxAttempts <- 1,
                                 Rates <- {1}, Downloads <- {}, MaxCrashes <- 0
Files == INSTANCE ExportJob WITH MaxJobs <- 1, Keys <- {"a1"}, OwnerOf <- OwnerOfKey,
                                 MaxActivePerUser <- 1, MaxActiveGlobal <- 2, MaxAttempts <- 2,
                                 Rates <- {1, 2}, Downloads <- {"d1", "d2"}, MaxCrashes <- 3

ASSUME Alert!AlertBoundAssumption
ASSUME Alert!AlertOperatorAssumption
ASSUME Rules!AlertBoundAssumption
ASSUME Rules!AlertOperatorAssumption
ASSUME Scan!ProofGapsAssumption
ASSUME Scan!ScanBoundAssumption
ASSUME Repair!ProofGapsAssumption
ASSUME Repair!ScanBoundAssumption
ASSUME Queue!ExportBoundAssumption
ASSUME Queue!ExportLimitAssumption
ASSUME Queue!ExportRatesAssumption
ASSUME Files!ExportBoundAssumption
ASSUME Files!ExportLimitAssumption
ASSUME Files!ExportRatesAssumption

NoAlert == global = 0 /\ override = 0 /\ cursor = 0 /\ active = 0 /\ closed = 0 /\ outbox = 0 /\
           now = 0 /\ latest = 0 /\ scopes = 0 /\ flight = 0 /\ changes = 0 /\ counted = 0 /\
           back = 0
NoScan == site = 0 /\ window = 0 /\ validation = 0 /\ backfill = 0 /\ scanActive = 0 /\
          order = 0 /\ scan = 0 /\ disturbed = 0 /\ scanner = 0
NoTargets == targetsSite = 0 /\ targetsRow = 0
NoQueue == job = 0 /\ disk = 0 /\ rates = 0 /\ loop = 0 /\ request = 0 /\ crashes = 0 /\
           doubtful = 0 /\ refused = 0
NoDelivery == Init /\ setting = "ok"

MCInit ==
    \/ part = "delivery" /\ Init /\ NoAlert /\ NoScan /\ NoTargets /\ NoQueue
    \/ part = "event" /\ Alert!Init /\ NoDelivery /\ NoScan /\ NoTargets /\ NoQueue
    \/ part = "rules" /\ Rules!Init /\ NoDelivery /\ NoScan /\ NoTargets /\ NoQueue
    \/ part = "scan" /\ Scan!Init /\ NoDelivery /\ NoAlert /\ NoTargets /\ NoQueue
    \/ part = "repair" /\ Repair!Init /\ NoDelivery /\ NoAlert /\ NoTargets /\ NoQueue
    \/ part = "targets" /\ Targets!Init /\ NoDelivery /\ NoAlert /\ NoScan /\ NoQueue
    \/ part = "queue" /\ Queue!Init /\ NoDelivery /\ NoAlert /\ NoScan /\ NoTargets
    \/ part = "files" /\ Files!Init /\ NoDelivery /\ NoAlert /\ NoScan /\ NoTargets

MCNext ==
    \/ part = "delivery" /\ Next /\ UNCHANGED <<part, alertVars, scanVars, targetsVars,
                                                queueVars>>
    \/ part = "event" /\ Alert!Next /\ UNCHANGED <<part, vars, scanVars, targetsVars,
                                                   queueVars>>
    \/ part = "rules" /\ Rules!Next /\ UNCHANGED <<part, vars, scanVars, targetsVars,
                                                   queueVars>>
    \/ part = "scan" /\ Scan!Next /\ UNCHANGED <<part, vars, alertVars, targetsVars, queueVars>>
    \/ part = "repair" /\ Repair!Next /\ UNCHANGED <<part, vars, alertVars, targetsVars,
                                                     queueVars>>
    \/ part = "targets" /\ Targets!Next /\ UNCHANGED <<part, vars, alertVars, scanVars,
                                                       queueVars>>
    \/ part = "queue" /\ Queue!Next /\ UNCHANGED <<part, vars, alertVars, scanVars,
                                                   targetsVars>>
    \/ part = "files" /\ Files!Next /\ UNCHANGED <<part, vars, alertVars, scanVars,
                                                   targetsVars>>

MCSpec == MCInit /\ [][MCNext]_mcVars

-----------------------------------------------------------------------------
\* A recovery is announced only of an event that fired and recovered, no sequence of rule
\* changes and overrides leaves the global pair of levels out of order, an active event
\* never drops out of the scan, a site that is disabled or ended raises nothing, and an
\* account has one diagnosis at a time.
DiagnosisSound ==
    /\ part = "event" => Alert!RecoveryAnnounced
    /\ part = "rules" => Rules!GlobalPairConsistent
    /\ part = "scan" => Scan!ActiveStaysSelected
    /\ part = "repair" => Repair!ActiveStaysSelected
    /\ part = "targets" => Targets!DisabledIsSilent /\ Targets!OneDiagnosis

\* Through crashes at any step of an export, a half-written file is on record in its job's
\* row unless its removal was refused, a successful job has its file until it expires,
\* written with the rates of its first attempt, a file reported as missing is gone, after
\* a completion in doubt or the end of its time to live, and active jobs keep to the
\* limits of a user and of all.
FilesMatchRows ==
    /\ part = "queue" => Queue!QueueWithinLimits
    /\ part = "files" => Files!HalfWrittenIsKnown /\ Files!SuccessHasFile /\ Files!MissingIsTrue


\* One scan whose rows do not change under it is enough to bring the events of an hour in
\* line with them, but for an hour whose scope ended and came back, which the cursor has
\* passed; it leaves one owner of a mismatch, and no retry under way or lost authorization
\* closes an incident.
ScanSettles ==
    [][/\ part = "scan" => Scan!ScanSettlesStep /\ Scan!MismatchHasOneOwnerStep /\
                           Scan!RetryIsNotRecoveryStep
       /\ part = "repair" => Repair!ScanSettlesStep
       /\ part = "targets" => Targets!AuthorizationLossSettlesNothingStep]_mcVars
=============================================================================
