----------------------------- MODULE MCProgress -----------------------------
(***************************************************************************)
(* What must happen in the end, on one small instance of each module, and   *)
(* the runtimes and the process that make it happen.  A behaviour is one of *)
(* a single instance, which part names; the variables of the other modules  *)
(* keep a value of no meaning.                                              *)
(***************************************************************************)

VARIABLES
    part,   \* the instance this behaviour is of
    \* CollectionSystem
    site, run, win, fact, exec, mat, proc, crashes,
    \* UsageCursor
    status, cursor, inflight, view, commits, collected,
    \* LogCollection
    hour, config, facts, state, logsRun, fails,
    \* ValidationRecovery
    due, window, upstream, active, validationFails, losses,
    \* FastTasks
    now, fastSite, limit, starts, last, dispatcher, workers, diagnostics, accepted,
    \* PricingIntent
    pricingNow, pricingSite, intent, wanted, runs, open, wake, picked, up, faults,
    \* Catalog
    kind, listsNow, listsSite, edits, remote, rows, listsState, round, applied, export, exports,
    \* ResourceMaintenance
    resourceNow, taken, minutes, paused, hourly, daily, gap, final, cleaned, job, resourceUp,
    spent, between,
    \* AlertDelivery
    row, phase, setting, actor, deliveryUp, bounds, deliveryAccepted, sure,
    \* AlertEvent
    global, override, alertCursor, alertActive, closed, outbox, alertNow, latest, scopes,
    flight, changes, counted, back,
    \* ExportJob
    exportJob, disk, rates, loop, request, exportCrashes, doubtful, refused,
    \* StatisticsRead
    readNow, complete, readCommits, entries, flights, req,
    \* RuntimeLifecycle
    runtimeKind, running, ready, cancel, done, runtimeClosed, panicked, admission, execution,
    start, quiesce, stop, runtimeLoop, down,
    \* RuntimeSettings
    settingsRows, history, memory, governor, update, refresh, publish, shown, settingsCrashes,
    settingsFaults,
    \* ApplicationLifecycle
    pc, comp, readiness, listener, requests, drained, late, database, noticed, admin, appStarts

collVars == <<site, run, win, fact, exec, mat, proc, crashes>>
cursorVars == <<status, cursor, inflight, view, commits, collected>>
logsVars == <<hour, config, facts, state, logsRun, fails>>
validationVars == <<due, window, upstream, active, validationFails, losses>>
fastVars == <<now, fastSite, limit, starts, last, dispatcher, workers, diagnostics, accepted>>
pricingVars == <<pricingNow, pricingSite, intent, wanted, runs, open, wake, picked, up, faults>>
listsVars == <<kind, listsNow, listsSite, edits, remote, rows, listsState, round, applied,
               export, exports>>
resourceVars == <<resourceNow, taken, minutes, paused, hourly, daily, gap, final, cleaned, job,
                  resourceUp, spent, between>>
deliveryVars == <<row, phase, setting, actor, deliveryUp, bounds, deliveryAccepted, sure>>
alertVars == <<global, override, alertCursor, alertActive, closed, outbox, alertNow, latest,
               scopes, flight, changes, counted, back>>
exportVars == <<exportJob, disk, rates, loop, request, exportCrashes, doubtful, refused>>
readVars == <<readNow, complete, readCommits, entries, flights, req>>
runtimeVars == <<runtimeKind, running, ready, cancel, done, runtimeClosed, panicked, admission,
                 execution, start, quiesce, stop, runtimeLoop, down>>
settingsVars == <<settingsRows, history, memory, governor, update, refresh, publish, shown,
                  settingsCrashes, settingsFaults>>
appVars == <<pc, comp, readiness, listener, requests, drained, late, database, noticed, admin,
             appStarts>>
mcVars == <<part, collVars, cursorVars, logsVars, validationVars, fastVars, pricingVars,
            listsVars, resourceVars, deliveryVars, alertVars, exportVars, readVars, runtimeVars,
            settingsVars, appVars>>

Coll == INSTANCE CollectionSystem WITH Site <- {"s1"}, Run <- {"r1"}, MaxHour <- 2,
                                       TaskTypes <- {"usage_backfill"},
                                       MaxAttempts <- [t \in {"usage_backfill"} |-> 2],
                                       MaxWindow <- 2, BackfillConcurrency <- 2, MaxClaims <- 1,
                                       MaxVersion <- 2, MaxCrashes <- 0
Fenced == INSTANCE CollectionSystem WITH Site <- {"s1"}, Run <- {"r1"}, MaxHour <- 1,
                                         TaskTypes <- {"usage_backfill"},
                                         MaxAttempts <- [t \in {"usage_backfill"} |-> 2],
                                         MaxWindow <- 2, BackfillConcurrency <- 2,
                                         MaxClaims <- 2, MaxVersion <- 2, MaxCrashes <- 1
Cursor == INSTANCE UsageCursor WITH MaxHour <- 3, Concurrency <- 2, MaxCommits <- 4
Logs == INSTANCE LogCollection WITH MaxHour <- 11, FirstHour <- 7, StartHour <- 1, Recent <- 2,
                                    Span <- 2, MaxWindows <- 1, Retention <- 7, Twins <- {},
                                    MaxConfig <- 1, MaxFails <- 2, run <- logsRun
Validation == INSTANCE ValidationRecovery WITH Hours <- {1, 2, 3}, Limit <- 2, Permanent <- {2},
                                               MaxFails <- 1, MaxLosses <- 1,
                                               fails <- validationFails
Fast == INSTANCE FastTasks WITH Sites <- {"s1", "s2"}, Types <- {"probe"},
                                Jitter <- [s \in {"s1", "s2"} |-> IF s = "s1" THEN 0 ELSE 1],
                                Capacity <- 3, Interval <- 2, Limits <- {1, 2}, MaxTime <- 3,
                                MaxConfig <- 1, MaxStarts <- 1, site <- fastSite
Pricing == INSTANCE PricingIntent WITH MaxVersion <- 3, MaxTime <- 3, MaxFaults <- 2,
                                       Concurrent <- FALSE, now <- pricingNow,
                                       site <- pricingSite
Lists == INSTANCE Catalog WITH Sites <- {"s1"}, Items <- {"i1"}, Rounds <- {"r1"},
                               Kinds <- {"pricing"}, MaxValue <- 3, MaxConfig <- 2,
                               MaxTime <- 2, PageSize <- 1, MaxExports <- 0, now <- listsNow,
                               site <- listsSite, state <- listsState
Resource == INSTANCE ResourceMaintenance WITH Units <- {1}, Day <- 3, FinalHour <- 1,
                                              Batch <- 2, MaxTime <- 5, Retention <- 2,
                                              Prompt <- FALSE, MaxPauses <- 1, MaxMisses <- 0,
                                              MaxStops <- 0, MaxFaults <- 1, now <- resourceNow,
                                              up <- resourceUp
Delivery == INSTANCE AlertDelivery WITH Event <- {"e1"}, TestIds <- {}, MaxAttempts <- 2,
                                        MaxToggles <- 1, MaxCrashes <- 1, up <- deliveryUp,
                                        accepted <- deliveryAccepted
Alert == INSTANCE AlertEvent WITH MaxTime <- 3, MaxValue <- 2, Operator <- "<=",
                                  ForTimes <- {2}, Reasons <- {"recovered"}, MaxFlight <- 1,
                                  MaxRuleChanges <- 0, MaxScopes <- 2, cursor <- alertCursor,
                                  active <- alertActive, now <- alertNow
Export == INSTANCE ExportJob WITH MaxJobs <- 1, Keys <- {"a1"},
                                  OwnerOf <- [k \in {"a1"} |-> "a"], MaxActivePerUser <- 1,
                                  MaxActiveGlobal <- 2, MaxAttempts <- 2, Rates <- {1},
                                  Downloads <- {"d1"}, MaxCrashes <- 2, job <- exportJob,
                                  crashes <- exportCrashes
Read == INSTANCE StatisticsRead WITH Requests <- {"r1", "r2"}, Hours <- {1}, Sites <- {"s1"},
                                     TTL <- 1, MaxEntries <- 1, MaxTime <- 1, MaxCommits <- 1,
                                     now <- readNow, commits <- readCommits
Runtime == INSTANCE RuntimeLifecycle WITH Kinds <- {"worker", "export", "alert", "maintenance"},
                                          Starters <- {"s1", "s2"}, Quiescers <- {"q1"},
                                          Stoppers <- {"p1"}, EarlyStop <- FALSE,
                                          Deadlines <- FALSE, kind <- runtimeKind,
                                          closed <- runtimeClosed, loop <- runtimeLoop
Stopped == INSTANCE RuntimeLifecycle WITH Kinds <- {"worker", "retention"},
                                          Starters <- {"s1", "s2"}, Quiescers <- {"q1"},
                                          Stoppers <- {"p1"}, EarlyStop <- TRUE,
                                          Deadlines <- FALSE, kind <- runtimeKind,
                                          closed <- runtimeClosed, loop <- runtimeLoop
Settings == INSTANCE RuntimeSettings WITH Process <- {1, 2},
                                          Keys <- {"low", "high", "on", "secret", "rate"},
                                          Kind <- [k \in {"low", "high", "on", "secret", "rate"} |-> CASE k = "on" -> "bool" [] k = "secret" -> "secret" [] k = "rate" -> "decimal" [] OTHER -> "int"],
                                          Minimum <- [k \in {"low", "high", "on", "secret", "rate"} |-> IF k = "on" THEN 0 ELSE 1],
                                          Maximum <- [k \in {"low", "high", "on", "secret", "rate"} |-> IF k = "on" THEN 1 ELSE 2],
                                          Ordered <- {<<"low", "high">>},
                                          Governing <- {"low", "high"}, Switch <- "on",
                                          First <- [k \in {"low", "high", "on", "secret", "rate"} |-> CASE k = "low" -> 1 [] k = "high" -> 2 [] OTHER -> 0],
                                          Requests <- {[k \in {"low"} |-> [op |-> "set", value |-> 2]], [k \in {"high"} |-> [op |-> "set", value |-> 1]]},
                                          Clocks <- {1}, MaxCommits <- 1, MaxCrashes <- 1,
                                          MaxFaults <- 0, rows <- settingsRows,
                                          crashes <- settingsCrashes, faults <- settingsFaults
App == INSTANCE ApplicationLifecycle WITH Components <- {1, 2}, Generated <- TRUE,
                                          MaxStarts <- 2, MaxRequests <- 2, starts <- appStarts

ASSUME Logs!LogAssumption
ASSUME Validation!ValidationAssumption
ASSUME Fast!FastTaskAssumption
ASSUME Pricing!IntentAssumption
ASSUME Lists!CatalogAssumption
ASSUME Resource!MaintenanceAssumption
ASSUME Alert!AlertBoundAssumption
ASSUME Alert!AlertOperatorAssumption
ASSUME Export!ExportBoundAssumption
ASSUME Export!ExportLimitAssumption
ASSUME Export!ExportRatesAssumption
ASSUME Read!StatisticsReadAssumption
ASSUME Runtime!RuntimeAssumption
ASSUME Stopped!RuntimeAssumption
ASSUME Settings!SettingAssumption
ASSUME App!ApplicationAssumption

NoColl == site = 0 /\ run = 0 /\ win = 0 /\ fact = 0 /\ exec = 0 /\ mat = 0 /\ proc = 0 /\
          crashes = 0
NoCursor == status = 0 /\ cursor = 0 /\ inflight = 0 /\ view = 0 /\ commits = 0 /\ collected = 0
NoLogs == hour = 0 /\ config = 0 /\ facts = 0 /\ state = 0 /\ logsRun = 0 /\ fails = 0
NoValidation == due = 0 /\ window = 0 /\ upstream = 0 /\ active = 0 /\ validationFails = 0 /\
                losses = 0
NoFast == now = 0 /\ fastSite = 0 /\ limit = 0 /\ starts = 0 /\ last = 0 /\ dispatcher = 0 /\
          workers = 0 /\ diagnostics = 0 /\ accepted = 0
NoPricing == pricingNow = 0 /\ pricingSite = 0 /\ intent = 0 /\ wanted = 0 /\ runs = 0 /\
             open = 0 /\ wake = 0 /\ picked = 0 /\ up = 0 /\ faults = 0
NoLists == kind = 0 /\ listsNow = 0 /\ listsSite = 0 /\ edits = 0 /\ remote = 0 /\ rows = 0 /\
           listsState = 0 /\ round = 0 /\ applied = 0 /\ export = 0 /\ exports = 0
NoResource == resourceNow = 0 /\ taken = 0 /\ minutes = 0 /\ paused = 0 /\ hourly = 0 /\
              daily = 0 /\ gap = 0 /\ final = 0 /\ cleaned = 0 /\ job = 0 /\ resourceUp = 0 /\
              spent = 0 /\ between = 0
NoDelivery == row = 0 /\ phase = 0 /\ setting = 0 /\ actor = 0 /\ deliveryUp = 0 /\
              bounds = 0 /\ deliveryAccepted = 0 /\ sure = 0
NoAlert == global = 0 /\ override = 0 /\ alertCursor = 0 /\ alertActive = 0 /\ closed = 0 /\
           outbox = 0 /\ alertNow = 0 /\ latest = 0 /\ scopes = 0 /\ flight = 0 /\
           changes = 0 /\ counted = 0 /\ back = 0
NoExport == exportJob = 0 /\ disk = 0 /\ rates = 0 /\ loop = 0 /\ request = 0 /\
            exportCrashes = 0 /\ doubtful = 0 /\ refused = 0
NoRead == readNow = 0 /\ complete = 0 /\ readCommits = 0 /\ entries = 0 /\ flights = 0 /\
          req = 0
NoRuntime == runtimeKind = 0 /\ running = 0 /\ ready = 0 /\ cancel = 0 /\ done = 0 /\
             runtimeClosed = 0 /\ panicked = 0 /\ admission = 0 /\ execution = 0 /\ start = 0 /\
             quiesce = 0 /\ stop = 0 /\ runtimeLoop = 0 /\ down = 0
NoSettings == settingsRows = 0 /\ history = 0 /\ memory = 0 /\ governor = 0 /\ update = 0 /\
              refresh = 0 /\ publish = 0 /\ shown = 0 /\ settingsCrashes = 0 /\
              settingsFaults = 0
NoApp == pc = 0 /\ comp = 0 /\ readiness = 0 /\ listener = 0 /\ requests = 0 /\ drained = 0 /\
         late = 0 /\ database = 0 /\ noticed = 0 /\ admin = 0 /\ appStarts = 0

MCInit ==
    \/ part = "collection" /\ Coll!Init /\ NoCursor /\ NoLogs /\ NoValidation /\ NoFast /\
                                           NoPricing /\ NoLists /\ NoResource /\ NoDelivery /\
                                           NoAlert /\ NoExport /\ NoRead /\ NoRuntime /\
                                           NoSettings /\ NoApp
    \/ part = "fenced" /\ Fenced!Init /\ NoCursor /\ NoLogs /\ NoValidation /\ NoFast /\
                                         NoPricing /\ NoLists /\ NoResource /\ NoDelivery /\
                                         NoAlert /\ NoExport /\ NoRead /\ NoRuntime /\
                                         NoSettings /\ NoApp
    \/ part = "cursor" /\ Cursor!Init /\ NoColl /\ NoLogs /\ NoValidation /\ NoFast /\
                                         NoPricing /\ NoLists /\ NoResource /\ NoDelivery /\
                                         NoAlert /\ NoExport /\ NoRead /\ NoRuntime /\
                                         NoSettings /\ NoApp
    \/ part = "logs" /\ Logs!Init /\ NoColl /\ NoCursor /\ NoValidation /\ NoFast /\
                                     NoPricing /\ NoLists /\ NoResource /\ NoDelivery /\
                                     NoAlert /\ NoExport /\ NoRead /\ NoRuntime /\ NoSettings /\
                                     NoApp
    \/ part = "validation" /\ Validation!Init /\ NoColl /\ NoCursor /\ NoLogs /\ NoFast /\
                                                 NoPricing /\ NoLists /\ NoResource /\
                                                 NoDelivery /\ NoAlert /\ NoExport /\ NoRead /\
                                                 NoRuntime /\ NoSettings /\ NoApp
    \/ part = "fast" /\ Fast!Init /\ NoColl /\ NoCursor /\ NoLogs /\ NoValidation /\
                                     NoPricing /\ NoLists /\ NoResource /\ NoDelivery /\
                                     NoAlert /\ NoExport /\ NoRead /\ NoRuntime /\ NoSettings /\
                                     NoApp
    \/ part = "pricing" /\ Pricing!Init /\ NoColl /\ NoCursor /\ NoLogs /\ NoValidation /\
                                           NoFast /\ NoLists /\ NoResource /\ NoDelivery /\
                                           NoAlert /\ NoExport /\ NoRead /\ NoRuntime /\
                                           NoSettings /\ NoApp
    \/ part = "catalog" /\ Lists!Init /\ NoColl /\ NoCursor /\ NoLogs /\ NoValidation /\
                                         NoFast /\ NoPricing /\ NoResource /\ NoDelivery /\
                                         NoAlert /\ NoExport /\ NoRead /\ NoRuntime /\
                                         NoSettings /\ NoApp
    \/ part = "resource" /\ Resource!Init /\ NoColl /\ NoCursor /\ NoLogs /\ NoValidation /\
                                             NoFast /\ NoPricing /\ NoLists /\ NoDelivery /\
                                             NoAlert /\ NoExport /\ NoRead /\ NoRuntime /\
                                             NoSettings /\ NoApp
    \/ part = "delivery" /\ Delivery!Init /\ NoColl /\ NoCursor /\ NoLogs /\ NoValidation /\
                                             NoFast /\ NoPricing /\ NoLists /\ NoResource /\
                                             NoAlert /\ NoExport /\ NoRead /\ NoRuntime /\
                                             NoSettings /\ NoApp
    \/ part = "alert" /\ Alert!Init /\ NoColl /\ NoCursor /\ NoLogs /\ NoValidation /\ NoFast /\
                                       NoPricing /\ NoLists /\ NoResource /\ NoDelivery /\
                                       NoExport /\ NoRead /\ NoRuntime /\ NoSettings /\ NoApp
    \/ part = "export" /\ Export!Init /\ NoColl /\ NoCursor /\ NoLogs /\ NoValidation /\
                                         NoFast /\ NoPricing /\ NoLists /\ NoResource /\
                                         NoDelivery /\ NoAlert /\ NoRead /\ NoRuntime /\
                                         NoSettings /\ NoApp
    \/ part = "read" /\ Read!Init /\ NoColl /\ NoCursor /\ NoLogs /\ NoValidation /\ NoFast /\
                                     NoPricing /\ NoLists /\ NoResource /\ NoDelivery /\
                                     NoAlert /\ NoExport /\ NoRuntime /\ NoSettings /\ NoApp
    \/ part = "runtime" /\ Runtime!Init /\ NoColl /\ NoCursor /\ NoLogs /\ NoValidation /\
                                           NoFast /\ NoPricing /\ NoLists /\ NoResource /\
                                           NoDelivery /\ NoAlert /\ NoExport /\ NoRead /\
                                           NoSettings /\ NoApp
    \/ part = "stopped" /\ Stopped!Init /\ NoColl /\ NoCursor /\ NoLogs /\ NoValidation /\
                                           NoFast /\ NoPricing /\ NoLists /\ NoResource /\
                                           NoDelivery /\ NoAlert /\ NoExport /\ NoRead /\
                                           NoSettings /\ NoApp
    \/ part = "settings" /\ Settings!Init /\ NoColl /\ NoCursor /\ NoLogs /\ NoValidation /\
                                             NoFast /\ NoPricing /\ NoLists /\ NoResource /\
                                             NoDelivery /\ NoAlert /\ NoExport /\ NoRead /\
                                             NoRuntime /\ NoApp
    \/ part = "application" /\ App!Init /\ NoColl /\ NoCursor /\ NoLogs /\ NoValidation /\
                                           NoFast /\ NoPricing /\ NoLists /\ NoResource /\
                                           NoDelivery /\ NoAlert /\ NoExport /\ NoRead /\
                                           NoRuntime /\ NoSettings

\* A step of one part leaves the variables of the others alone.
OnlyColl == part = "collection" /\ UNCHANGED <<part, cursorVars, logsVars, validationVars,
                                               fastVars, pricingVars, listsVars, resourceVars,
                                               deliveryVars, alertVars, exportVars, readVars,
                                               runtimeVars, settingsVars, appVars>>
OnlyFenced == part = "fenced" /\ UNCHANGED <<part, cursorVars, logsVars, validationVars,
                                             fastVars, pricingVars, listsVars, resourceVars,
                                             deliveryVars, alertVars, exportVars, readVars,
                                             runtimeVars, settingsVars, appVars>>
OnlyCursor == part = "cursor" /\ UNCHANGED <<part, collVars, logsVars, validationVars, fastVars,
                                             pricingVars, listsVars, resourceVars, deliveryVars,
                                             alertVars, exportVars, readVars, runtimeVars,
                                             settingsVars, appVars>>
OnlyLogs == part = "logs" /\ UNCHANGED <<part, collVars, cursorVars, validationVars, fastVars,
                                         pricingVars, listsVars, resourceVars, deliveryVars,
                                         alertVars, exportVars, readVars, runtimeVars,
                                         settingsVars, appVars>>
OnlyValidation == part = "validation" /\ UNCHANGED <<part, collVars, cursorVars, logsVars,
                                                     fastVars, pricingVars, listsVars,
                                                     resourceVars, deliveryVars, alertVars,
                                                     exportVars, readVars, runtimeVars,
                                                     settingsVars, appVars>>
OnlyFast == part = "fast" /\ UNCHANGED <<part, collVars, cursorVars, logsVars, validationVars,
                                         pricingVars, listsVars, resourceVars, deliveryVars,
                                         alertVars, exportVars, readVars, runtimeVars,
                                         settingsVars, appVars>>
OnlyPricing == part = "pricing" /\ UNCHANGED <<part, collVars, cursorVars, logsVars,
                                               validationVars, fastVars, listsVars,
                                               resourceVars, deliveryVars, alertVars,
                                               exportVars, readVars, runtimeVars, settingsVars,
                                               appVars>>
OnlyLists == part = "catalog" /\ UNCHANGED <<part, collVars, cursorVars, logsVars,
                                             validationVars, fastVars, pricingVars,
                                             resourceVars, deliveryVars, alertVars, exportVars,
                                             readVars, runtimeVars, settingsVars, appVars>>
OnlyResource == part = "resource" /\ UNCHANGED <<part, collVars, cursorVars, logsVars,
                                                 validationVars, fastVars, pricingVars,
                                                 listsVars, deliveryVars, alertVars, exportVars,
                                                 readVars, runtimeVars, settingsVars, appVars>>
OnlyDelivery == part = "delivery" /\ UNCHANGED <<part, collVars, cursorVars, logsVars,
                                                 validationVars, fastVars, pricingVars,
                                                 listsVars, resourceVars, alertVars, exportVars,
                                                 readVars, runtimeVars, settingsVars, appVars>>
OnlyAlert == part = "alert" /\ UNCHANGED <<part, collVars, cursorVars, logsVars, validationVars,
                                           fastVars, pricingVars, listsVars, resourceVars,
                                           deliveryVars, exportVars, readVars, runtimeVars,
                                           settingsVars, appVars>>
OnlyExport == part = "export" /\ UNCHANGED <<part, collVars, cursorVars, logsVars,
                                             validationVars, fastVars, pricingVars, listsVars,
                                             resourceVars, deliveryVars, alertVars, readVars,
                                             runtimeVars, settingsVars, appVars>>
OnlyRead == part = "read" /\ UNCHANGED <<part, collVars, cursorVars, logsVars, validationVars,
                                         fastVars, pricingVars, listsVars, resourceVars,
                                         deliveryVars, alertVars, exportVars, runtimeVars,
                                         settingsVars, appVars>>
OnlyRuntime == part = "runtime" /\ UNCHANGED <<part, collVars, cursorVars, logsVars,
                                               validationVars, fastVars, pricingVars, listsVars,
                                               resourceVars, deliveryVars, alertVars,
                                               exportVars, readVars, settingsVars, appVars>>
OnlyStopped == part = "stopped" /\ UNCHANGED <<part, collVars, cursorVars, logsVars,
                                               validationVars, fastVars, pricingVars, listsVars,
                                               resourceVars, deliveryVars, alertVars,
                                               exportVars, readVars, settingsVars, appVars>>
OnlySettings == part = "settings" /\ UNCHANGED <<part, collVars, cursorVars, logsVars,
                                                 validationVars, fastVars, pricingVars,
                                                 listsVars, resourceVars, deliveryVars,
                                                 alertVars, exportVars, readVars, runtimeVars,
                                                 appVars>>
OnlyApp == part = "application" /\ UNCHANGED <<part, collVars, cursorVars, logsVars,
                                               validationVars, fastVars, pricingVars, listsVars,
                                               resourceVars, deliveryVars, alertVars,
                                               exportVars, readVars, runtimeVars, settingsVars>>

MCNext ==
    \/ OnlyColl /\ Coll!Next
    \/ OnlyFenced /\ Fenced!Next
    \/ OnlyCursor /\ Cursor!Next
    \/ OnlyLogs /\ Logs!Next
    \/ OnlyValidation /\ Validation!Next
    \/ OnlyFast /\ Fast!Next
    \/ OnlyPricing /\ Pricing!Next
    \/ OnlyLists /\ Lists!Next
    \/ OnlyResource /\ Resource!Next
    \/ OnlyDelivery /\ Delivery!Next
    \/ OnlyAlert /\ Alert!Next
    \/ OnlyExport /\ Export!Next
    \/ OnlyRead /\ Read!Next
    \/ OnlyRuntime /\ Runtime!Next
    \/ OnlyStopped /\ Stopped!Next
    \/ OnlySettings /\ Settings!Next
    \/ OnlyApp /\ App!Next

(***************************************************************************)
(* The fairness of every module.  As part never changes, the fairness of a   *)
(* disjunction over the parts is the fairness of each of its actions.       *)
(***************************************************************************)
MCFairness ==
    /\ WF_mcVars(\/ OnlyColl /\ Coll!RecoverRun("r1")
                 \/ OnlyFenced /\ Fenced!RecoverRun("r1")
                 \/ OnlyCursor /\ Cursor!ProbeReconcile
                 \/ OnlyLogs /\ Logs!Start
                 \/ OnlyValidation /\ Validation!Recover
                 \/ OnlyFast /\ Fast!WorkerStep(<<"probe", "s1">>, 1)
                 \/ OnlyPricing /\ Pricing!Tick
                 \/ OnlyLists /\ Lists!Commit("r1")
                 \/ OnlyResource /\ Resource!Round
                 \/ OnlyDelivery /\ Delivery!send("run")
                 \/ OnlyAlert /\ Alert!EvaluateScan
                 \/ OnlyExport /\ Export!Execute
                 \/ OnlyRead /\ Read!LoadMetricRows("r1")
                 \/ OnlyRuntime /\ Runtime!StartStep("s1")
                 \/ OnlyStopped /\ Stopped!StartStep("s1")
                 \/ OnlySettings /\ Settings!CommitUpdate(1)
                 \/ OnlyApp /\ App!MainStep)
    /\ WF_mcVars(\/ OnlyColl /\ Coll!OrphanExpires("r1")
                 \/ OnlyFenced /\ Fenced!OrphanExpires("r1")
                 \/ OnlyLogs /\ Logs!RunStep
                 \/ OnlyValidation /\ Validation!Validate(1)
                 \/ OnlyFast /\ Fast!WorkerStep(<<"probe", "s2">>, 1)
                 \/ OnlyPricing /\ Pricing!Boot
                 \/ OnlyResource /\ Resource!Start
                 \/ OnlyDelivery /\ Delivery!send("test")
                 \/ OnlyAlert /\ Alert!EvaluateFlight
                 \/ OnlyExport /\ Export!Takeover
                 \/ OnlyRead /\ Read!LoadWindows("r1")
                 \/ OnlyRuntime /\ Runtime!StartStep("s2")
                 \/ OnlyStopped /\ Stopped!StartStep("s2")
                 \/ OnlySettings /\ Settings!ReadRefresh(1)
                 \/ OnlyApp /\ App!MonitorRuntime)
    /\ WF_mcVars(\/ OnlyColl /\ Coll!Progress("r1", 1)
                 \/ OnlyFenced /\ Fenced!Progress("r1", 1)
                 \/ OnlyLogs /\ Logs!Tick
                 \/ OnlyValidation /\ Validation!DayEnds(1)
                 \/ OnlyPricing /\ Pricing!Pick(1)
                 \/ OnlyDelivery /\ Delivery!Complete("run")
                 \/ OnlyAlert /\ Alert!Tick
                 \/ OnlyExport /\ Export!Work
                 \/ OnlyRead /\ Read!Follow("r1")
                 \/ OnlyRuntime /\ Runtime!EndRound(1)
                 \/ OnlyStopped /\ Stopped!EndRound(1)
                 \/ OnlySettings /\ Settings!StoreUpdate(1))
    /\ WF_mcVars(\/ OnlyColl /\ Coll!Restart
                 \/ OnlyFenced /\ Fenced!Progress("r1", 2)
                 \/ OnlyValidation /\ Validation!Heal(1)
                 \/ OnlyPricing /\ Pricing!Process(1)
                 \/ OnlyDelivery /\ Delivery!Complete("test")
                 \/ OnlyExport /\ Export!Recovered
                 \/ OnlyRead /\ Read!Summary("r1")
                 \/ OnlyRuntime /\ Runtime!EndRound(2)
                 \/ OnlyStopped /\ Stopped!EndRound(2)
                 \/ OnlySettings /\ Settings!StoreRefresh(1))
    /\ WF_mcVars(\/ OnlyColl /\ Coll!Ready
                 \/ OnlyFenced /\ Fenced!Restart
                 \/ OnlyValidation /\ Validation!Validate(2)
                 \/ OnlyDelivery /\ Delivery!prepare("run")
                 \/ OnlyExport /\ Export!RetryDue(1)
                 \/ OnlyRead /\ Read!LoadMetricRows("r2")
                 \/ OnlyRuntime /\ Runtime!RunSafely(1)
                 \/ OnlyStopped /\ Stopped!RunSafely(1)
                 \/ OnlySettings /\ Settings!CommitUpdate(2))
    /\ WF_mcVars(\/ OnlyFenced /\ Fenced!Ready
                 \/ OnlyValidation /\ Validation!DayEnds(2)
                 \/ OnlyDelivery /\ Delivery!SweepQueue
                 \/ OnlyExport /\ Export!TimeToLiveEnds(1)
                 \/ OnlyRead /\ Read!LoadWindows("r2")
                 \/ OnlyRuntime /\ Runtime!RunSafely(2)
                 \/ OnlyStopped /\ Stopped!RunSafely(2)
                 \/ OnlySettings /\ Settings!ReadRefresh(2))
    /\ WF_mcVars(\/ OnlyValidation /\ Validation!Heal(2)
                 \/ OnlyDelivery /\ Delivery!ClaimNext
                 \/ OnlyRead /\ Read!Follow("r2")
                 \/ OnlyRuntime /\ Runtime!QuiesceCancel("q1")
                 \/ OnlyStopped /\ Stopped!QuiesceCancel("q1")
                 \/ OnlySettings /\ Settings!StoreUpdate(2))
    /\ WF_mcVars(\/ OnlyValidation /\ Validation!Validate(3)
                 \/ OnlyDelivery /\ Delivery!TestEnqueue
                 \/ OnlyRead /\ Read!Summary("r2")
                 \/ OnlyRuntime /\ Runtime!StopStep("p1")
                 \/ OnlyStopped /\ Stopped!StopStep("p1")
                 \/ OnlySettings /\ Settings!StoreRefresh(2))
    /\ WF_mcVars(\/ OnlyValidation /\ Validation!DayEnds(3)
                 \/ OnlyDelivery /\ Delivery!ClaimByID)
    /\ WF_mcVars(\/ OnlyValidation /\ Validation!Heal(3)
                 \/ OnlyDelivery /\ Delivery!Recover)
    /\ WF_mcVars(\/ OnlyDelivery /\ Delivery!RetryDue(<<"e1", "firing">>))
    /\ WF_mcVars(\/ OnlyDelivery /\ Delivery!LeaseExpires(<<"e1", "firing">>))
    /\ WF_mcVars(\/ OnlyDelivery /\ Delivery!RetryDue(<<"e1", "resolved">>))
    /\ WF_mcVars(\/ OnlyDelivery /\ Delivery!LeaseExpires(<<"e1", "resolved">>))
    /\ SF_mcVars(\/ OnlyLists /\ Lists!Begin("r1", "s1")
                 \/ OnlyResource /\ Resource!Tick
                 \/ OnlyDelivery /\ Delivery!ClaimOf(<<"e1", "firing">>)
                 \/ OnlyExport /\ Export!RecoverOnce
                 \/ OnlyRuntime /\ Runtime!RunEnd(1)
                 \/ OnlyStopped /\ Stopped!RunEnd(1)
                 \/ OnlySettings /\ Settings!PublishUpdate(1))
    /\ SF_mcVars(\/ OnlyLists /\ Lists!Snapshot("r1", FALSE, FALSE)
                 \/ OnlyDelivery /\ Delivery!ClaimOf(<<"e1", "resolved">>)
                 \/ OnlyExport /\ Export!Expire
                 \/ OnlyRuntime /\ Runtime!RunEnd(2)
                 \/ OnlyStopped /\ Stopped!RunEnd(2)
                 \/ OnlySettings /\ Settings!PublishRefresh(1))
    /\ SF_mcVars(\/ OnlyExport /\ Export!Claim(1)
                 \/ OnlySettings /\ Settings!PublishUpdate(2))
    /\ SF_mcVars(\/ OnlySettings /\ Settings!PublishRefresh(2))

MCSpec == MCInit /\ [][MCNext]_mcVars /\ MCFairness

-----------------------------------------------------------------------------
\* Once nothing changes any more, everything follows what changed last, whatever failed, was
\* missed or overtaken before: the cursor is at the end of the unbroken run of complete hours;
\* every kept hour of the log is collected; every hour whose upstream answers agree is complete
\* and verified, and the newest hour has its facts back; an active site's catalog is that of
\* the upstream; yesterday is final; the alert is at the severity of the last sample, unless
\* it is a correction or not newer than the sample that ended the scope; and every process works
\* with the settings committed last.
Converges ==
    <>[](/\ part = "cursor" => Cursor!AtPrefix
         /\ part = "logs" => Logs!CaughtUp
         /\ part = "validation" =>
                /\ \A h \in {1, 3} : window[h].status = "complete" /\ window[h].verified
                /\ window[3].proof
         /\ part = "catalog" => (listsSite["s1"].active => Lists!Current("s1"))
         /\ part = "resource" => Resource!FinalUntilToday
         /\ part = "alert" => Alert!AtLatest
         /\ part = "settings" => \A p \in {1, 2} : Settings!CaughtUp(p))

\* Nothing stays under way for ever, wherever its execution stopped (crashed, refused by the
\* fence, its release or its wake lost): a running run, a queued fast task, a due pricing intent,
\* a pending delivery, an active export job, the file of an expired one, and a request that
\* loads or follows the load of another.  Going down ends as well: a ready that came back
\* after Quiesce or Stop goes down again by itself, a Stop without a deadline returns (nobody
\* waits for a channel nobody closes), and a component that died while serving ends the
\* process, so that a supervisor can start it again.
Settles ==
    /\ []<>(part \in {"collection", "fenced"} => run["r1"].status # "running")
    /\ \A s \in {"s1", "s2"} : []<>(part = "fast" => <<"probe", s>> \notin dispatcher.queued)
    /\ \A v \in {1, 2, 3} : []<>(part = "pricing" => ~Pricing!Due(v))
    /\ \A k \in {"firing", "resolved"} : []<>(part = "delivery" => ~Delivery!Pending(<<"e1", k>>))
    /\ []<>(part = "export" => ~Export!Active(1))
    /\ []<>(part = "export" =>
                (exportJob[1].status = "expired" => ~Export!Exists(1, Export!Final)))
    /\ \A r \in {"r1", "r2"} :
           []<>(part = "read" => req[r].pc \in {"idle", "done", "contract"})
    /\ []<>(part = "runtime" => ~(down /\ ready))
    /\ []<>(part \in {"runtime", "stopped"} => stop["p1"].pc \notin {"cancel", "drain", "wait"})
    /\ []<>(part = "application" => ~(pc = "serve" /\ \E c \in {1, 2} : comp[c] = "dead"))
=============================================================================
