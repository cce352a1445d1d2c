----------------------------- MODULE MCDispatch -----------------------------
(***************************************************************************)
(* Instances of the modules that decide when work is done, for TLC: the     *)
(* scheduler, the fast tasks, the intents of pricing, the retention of      *)
(* runs, the maintenance of resource data, the requests to an upstream, the *)
(* process that starts and stops all of them, the rotation of its master    *)
(* key, and the migrations before the start, with the constants of the      *)
(* configuration.  A behaviour is one of a single instance, which part      *)
(* names; the variables of the other modules keep a value of no meaning.    *)
(***************************************************************************)
EXTENDS SchemaMigration

VARIABLES
    part,   \* the instance this behaviour is of
    \* Scheduler
    now, site, runs, memory, round,
    \* FastTasks
    fastNow, fastSite, limit, starts, last, dispatcher, workers, diagnostics, accepted,
    \* PricingIntent
    intentNow, intentSite, intent, wanted, intentRuns, open, wake, picked, up, faults,
    \* RunRetention
    runsNow, runsRuns, state, runsRound, runsFaults,
    \* ResourceMaintenance
    resourceNow, taken, minutes, paused, hourly, daily, gap, final, cleaned, job, resourceUp,
    spent, between,
    \* ApplicationLifecycle
    pc, comp, readiness, listener, requests, drained, late, database, noticed, admin, appStarts,
    \* UpstreamClient
    readsNow, config, reload, reloads, gov, readsPc, until, lockOf, users, held, mine, entries,
    answer, rotated,
    \* SecretRotation
    secret, text, rotationJob, rotationLock, run, nonce, rotationFaults

slotsVars == <<now, site, runs, memory, round>>
fastVars == <<fastNow, fastSite, limit, starts, last, dispatcher, workers, diagnostics,
              accepted>>
intentVars == <<intentNow, intentSite, intent, wanted, intentRuns, open, wake, picked, up,
                faults>>
runsVars == <<runsNow, runsRuns, state, runsRound, runsFaults>>
resourceVars == <<resourceNow, taken, minutes, paused, hourly, daily, gap, final, cleaned, job,
                  resourceUp, spent, between>>
appVars == <<pc, comp, readiness, listener, requests, drained, late, database, noticed, admin,
             appStarts>>
readsVars == <<readsNow, config, reload, reloads, gov, readsPc, until, lockOf, users, held,
               mine, entries, answer, rotated>>
rotationVars == <<secret, text, rotationJob, rotationLock, run, nonce, rotationFaults>>
mcVars == <<part, vars, slotsVars, fastVars, intentVars, runsVars, resourceVars, appVars,
            readsVars, rotationVars>>

\* Three builds: an old one, a new one in which the first file was released in a changed form,
\* and one whose second file was edited while the database may hold part of the other.
MCRepository ==
    [r \in {"old", "new", "edited"} |->
        IF r = "old" THEN <<"a">> ELSE IF r = "new" THEN <<"b", "c">> ELSE <<"b", "d">>]
MCStatements ==
    [s \in {"a", "b", "c", "d"} |->
        IF s = "c" THEN <<"ddl", "dml", "ddl">> ELSE IF s = "d" THEN <<"dml", "ddl">> ELSE <<"ddl">>]
MCReleased == {<<"b", "a">>}

Slots == INSTANCE Scheduler WITH Sites <- {"s1"}, Hour <- 3, Interval <- 2, Delay <- 1,
                                 MaxTime <- 6, MaxConfig <- 2, MaxStarts <- 2
SiteHours == INSTANCE Scheduler WITH Sites <- {"s1", "s2"}, Hour <- 2, Interval <- 2,
                                     Delay <- 1, MaxTime <- 3, MaxConfig <- 2, MaxStarts <- 1
Fast == INSTANCE FastTasks WITH Sites <- {"s1", "s2"}, Types <- {"probe", "stat"},
                                Jitter <- [s \in {"s1", "s2"} |-> IF s = "s1" THEN 0 ELSE 1],
                                Capacity <- 1, Interval <- 2, Limits <- {1}, MaxTime <- 4,
                                MaxConfig <- 2, MaxStarts <- 1, now <- fastNow, site <- fastSite
Restarted == INSTANCE FastTasks WITH Sites <- {"s1", "s2"}, Types <- {"probe"},
                                     Jitter <- [s \in {"s1", "s2"} |-> IF s = "s1" THEN 0 ELSE 1],
                                     Capacity <- 3, Interval <- 2, Limits <- {1, 2},
                                     MaxTime <- 3, MaxConfig <- 1, MaxStarts <- 2,
                                     now <- fastNow, site <- fastSite
Intent == INSTANCE PricingIntent WITH MaxVersion <- 4, MaxTime <- 3, MaxFaults <- 3,
                                      Concurrent <- FALSE, now <- intentNow, site <- intentSite,
                                      runs <- intentRuns
Intents == INSTANCE PricingIntent WITH MaxVersion <- 3, MaxTime <- 3, MaxFaults <- 2,
                                       Concurrent <- TRUE, now <- intentNow, site <- intentSite,
                                       runs <- intentRuns
Runs == INSTANCE RunRetention WITH Ids <- {1, 2}, Phases <- 2, RedactAfter <- 1,
                                   CleanAfter <- 1, Batch <- 1, MaxDays <- 3, MaxFaults <- 1,
                                   now <- runsNow, runs <- runsRuns, round <- runsRound,
                                   faults <- runsFaults
Resource == INSTANCE ResourceMaintenance WITH Units <- {1}, Day <- 3, FinalHour <- 1,
                                              Batch <- 2, MaxTime <- 7, Retention <- 2,
                                              Prompt <- FALSE, MaxPauses <- 1, MaxMisses <- 1,
                                              MaxStops <- 0, MaxFaults <- 0, now <- resourceNow,
                                              up <- resourceUp
Faults == INSTANCE ResourceMaintenance WITH Units <- {1, 2}, Day <- 3, FinalHour <- 1,
                                            Batch <- 2, MaxTime <- 5, Retention <- 2,
                                            Prompt <- TRUE, MaxPauses <- 1, MaxMisses <- 0,
                                            MaxStops <- 1, MaxFaults <- 1, now <- resourceNow,
                                            up <- resourceUp
App == INSTANCE ApplicationLifecycle WITH Components <- {1, 2}, Generated <- TRUE,
                                          MaxStarts <- 2, MaxRequests <- 2, starts <- appStarts
Reads == INSTANCE UpstreamClient WITH Req <- {"a", "b", "c"}, Bulk <- {}, Rotation <- {},
                                      LoginOf <- <<>>, KeyOf <- [r \in {"a", "b", "c"} |-> "k"],
                                      Configs <- {[interval |-> 1, window |-> 1, maxInFlight |-> 2]},
                                      TTL <- 1, MaxEntries <- 1, Hour <- 3,
                                      RetryAfters <- {[kind |-> "none", value |-> 0]},
                                      MaxTime <- 2, MaxReloads <- 0, now <- readsNow,
                                      pc <- readsPc
Evicted == INSTANCE UpstreamClient WITH Req <- {"a", "b", "d"}, Bulk <- {}, Rotation <- {},
                                        LoginOf <- <<>>,
                                        KeyOf <- [r \in {"a", "b", "d"} |-> IF r = "d" THEN "l" ELSE "k"],
                                        Configs <- {[interval |-> 1, window |-> 1, maxInFlight |-> 2]},
                                        TTL <- 1, MaxEntries <- 1, Hour <- 3,
                                        RetryAfters <- {[kind |-> "none", value |-> 0]},
                                        MaxTime <- 2, MaxReloads <- 0, now <- readsNow,
                                        pc <- readsPc
Governor == INSTANCE UpstreamClient WITH Req <- {"a", "b", "c"}, Bulk <- {"c"},
                                         Rotation <- {"c"}, LoginOf <- [r \in {"c"} |-> "b"],
                                         KeyOf <- [r \in {"a", "b", "c"} |-> "none"],
                                         Configs <- {[interval |-> 1, window |-> 2, maxInFlight |-> 2], [interval |-> 2, window |-> 2, maxInFlight |-> 1]},
                                         TTL <- 1, MaxEntries <- 1, Hour <- 3,
                                         RetryAfters <- {[kind |-> "none", value |-> 0], [kind |-> "seconds", value |-> 1]},
                                         MaxTime <- 4, MaxReloads <- 1, now <- readsNow,
                                         pc <- readsPc
Rotation == INSTANCE SecretRotation WITH Tokens <- {"t1"}, Settings <- {"w1"},
                                         Keys <- {"a", "b"}, Texts <- {"x", "y"},
                                         None <- "none", Commands <- {"c1"}, BatchSize <- 1,
                                         MaxNonce <- 3, MaxFaults <- 1, job <- rotationJob,
                                         lock <- rotationLock, faults <- rotationFaults

ASSUME Slots!SchedulerAssumption
ASSUME SiteHours!SchedulerAssumption
ASSUME Fast!FastTaskAssumption
ASSUME Restarted!FastTaskAssumption
ASSUME Intent!IntentAssumption
ASSUME Intents!IntentAssumption
ASSUME Runs!RetentionAssumption
ASSUME Resource!MaintenanceAssumption
ASSUME Faults!MaintenanceAssumption
ASSUME App!ApplicationAssumption
ASSUME Reads!ClientAssumption
ASSUME Evicted!ClientAssumption
ASSUME Governor!ClientAssumption

NoSlots == now = 0 /\ site = 0 /\ runs = 0 /\ memory = 0 /\ round = 0
NoFast == fastNow = 0 /\ fastSite = 0 /\ limit = 0 /\ starts = 0 /\ last = 0 /\
          dispatcher = 0 /\ workers = 0 /\ diagnostics = 0 /\ accepted = 0
NoIntent == intentNow = 0 /\ intentSite = 0 /\ intent = 0 /\ wanted = 0 /\ intentRuns = 0 /\
            open = 0 /\ wake = 0 /\ picked = 0 /\ up = 0 /\ faults = 0
NoRuns == runsNow = 0 /\ runsRuns = 0 /\ state = 0 /\ runsRound = 0 /\ runsFaults = 0
NoResource == resourceNow = 0 /\ taken = 0 /\ minutes = 0 /\ paused = 0 /\ hourly = 0 /\
              daily = 0 /\ gap = 0 /\ final = 0 /\ cleaned = 0 /\ job = 0 /\ resourceUp = 0 /\
              spent = 0 /\ between = 0
NoApp == pc = 0 /\ comp = 0 /\ readiness = 0 /\ listener = 0 /\ requests = 0 /\ drained = 0 /\
         late = 0 /\ database = 0 /\ noticed = 0 /\ admin = 0 /\ appStarts = 0
NoReads == readsNow = 0 /\ config = 0 /\ reload = 0 /\ reloads = 0 /\ gov = 0 /\ readsPc = 0 /\
           until = 0 /\ lockOf = 0 /\ users = 0 /\ held = 0 /\ mine = 0 /\ entries = 0 /\
           answer = 0 /\ rotated = 0
NoRotation == secret = 0 /\ text = 0 /\ rotationJob = 0 /\ rotationLock = 0 /\ run = 0 /\
              nonce = 0 /\ rotationFaults = 0
NoMigration == Init /\ foreign = FALSE

MCInit ==
    \/ part = "migration" /\ Init /\ NoSlots /\ NoFast /\ NoIntent /\ NoRuns /\ NoResource /\
                                     NoApp /\ NoReads /\ NoRotation
    \/ part = "slots" /\ Slots!Init /\ NoMigration /\ NoFast /\ NoIntent /\ NoRuns /\
                                       NoResource /\ NoApp /\ NoReads /\ NoRotation
    \/ part = "sites" /\ SiteHours!Init /\ NoMigration /\ NoFast /\ NoIntent /\ NoRuns /\
                                           NoResource /\ NoApp /\ NoReads /\ NoRotation
    \/ part = "fast" /\ Fast!Init /\ NoMigration /\ NoSlots /\ NoIntent /\ NoRuns /\
                                     NoResource /\ NoApp /\ NoReads /\ NoRotation
    \/ part = "restart" /\ Restarted!Init /\ NoMigration /\ NoSlots /\ NoIntent /\ NoRuns /\
                                             NoResource /\ NoApp /\ NoReads /\ NoRotation
    \/ part = "intent" /\ Intent!Init /\ NoMigration /\ NoSlots /\ NoFast /\ NoRuns /\
                                         NoResource /\ NoApp /\ NoReads /\ NoRotation
    \/ part = "intents" /\ Intents!Init /\ NoMigration /\ NoSlots /\ NoFast /\ NoRuns /\
                                           NoResource /\ NoApp /\ NoReads /\ NoRotation
    \/ part = "retention" /\ Runs!Init /\ NoMigration /\ NoSlots /\ NoFast /\ NoIntent /\
                                          NoResource /\ NoApp /\ NoReads /\ NoRotation
    \/ part = "resource" /\ Resource!Init /\ NoMigration /\ NoSlots /\ NoFast /\ NoIntent /\
                                             NoRuns /\ NoApp /\ NoReads /\ NoRotation
    \/ part = "faults" /\ Faults!Init /\ NoMigration /\ NoSlots /\ NoFast /\ NoIntent /\
                                         NoRuns /\ NoApp /\ NoReads /\ NoRotation
    \/ part = "application" /\ App!Init /\ NoMigration /\ NoSlots /\ NoFast /\ NoIntent /\
                                           NoRuns /\ NoResource /\ NoReads /\ NoRotation
    \/ part = "reads" /\ Reads!Init /\ NoMigration /\ NoSlots /\ NoFast /\ NoIntent /\ NoRuns /\
                                       NoResource /\ NoApp /\ NoRotation
    \/ part = "evicted" /\ Evicted!Init /\ NoMigration /\ NoSlots /\ NoFast /\ NoIntent /\
                                           NoRuns /\ NoResource /\ NoApp /\ NoRotation
    \/ part = "governor" /\ Governor!Init /\ NoMigration /\ NoSlots /\ NoFast /\ NoIntent /\
                                             NoRuns /\ NoResource /\ NoApp /\ NoRotation
    \/ part = "rotation" /\ Rotation!Init /\ NoMigration /\ NoSlots /\ NoFast /\ NoIntent /\
                                             NoRuns /\ NoResource /\ NoApp /\ NoReads

MCNext ==
    \/ part = "migration" /\ Next /\ UNCHANGED <<part, slotsVars, fastVars, intentVars,
                                                 runsVars, resourceVars, appVars, readsVars,
                                                 rotationVars>>
    \/ part = "slots" /\ Slots!Next /\ UNCHANGED <<part, vars, fastVars, intentVars, runsVars,
                                                   resourceVars, appVars, readsVars,
                                                   rotationVars>>
    \/ part = "sites" /\ SiteHours!Next /\ UNCHANGED <<part, vars, fastVars, intentVars,
                                                       runsVars, resourceVars, appVars,
                                                       readsVars, rotationVars>>
    \/ part = "fast" /\ Fast!Next /\ UNCHANGED <<part, vars, slotsVars, intentVars, runsVars,
                                                 resourceVars, appVars, readsVars,
                                                 rotationVars>>
    \/ part = "restart" /\ Restarted!Next /\ UNCHANGED <<part, vars, slotsVars, intentVars,
                                                         runsVars, resourceVars, appVars,
                                                         readsVars, rotationVars>>
    \/ part = "intent" /\ Intent!Next /\ UNCHANGED <<part, vars, slotsVars, fastVars, runsVars,
                                                     resourceVars, appVars, readsVars,
                                                     rotationVars>>
    \/ part = "intents" /\ Intents!Next /\ UNCHANGED <<part, vars, slotsVars, fastVars,
                                                       runsVars, resourceVars, appVars,
                                                       readsVars, rotationVars>>
    \/ part = "retention" /\ Runs!Next /\ UNCHANGED <<part, vars, slotsVars, fastVars,
                                                      intentVars, resourceVars, appVars,
                                                      readsVars, rotationVars>>
    \/ part = "resource" /\ Resource!Next /\ UNCHANGED <<part, vars, slotsVars, fastVars,
                                                         intentVars, runsVars, appVars,
                                                         readsVars, rotationVars>>
    \/ part = "faults" /\ Faults!Next /\ UNCHANGED <<part, vars, slotsVars, fastVars,
                                                     intentVars, runsVars, appVars, readsVars,
                                                     rotationVars>>
    \/ part = "application" /\ App!Next /\ UNCHANGED <<part, vars, slotsVars, fastVars,
                                                       intentVars, runsVars, resourceVars,
                                                       readsVars, rotationVars>>
    \/ part = "reads" /\ Reads!Next /\ UNCHANGED <<part, vars, slotsVars, fastVars, intentVars,
                                                   runsVars, resourceVars, appVars,
                                                   rotationVars>>
    \/ part = "evicted" /\ Evicted!Next /\ UNCHANGED <<part, vars, slotsVars, fastVars,
                                                       intentVars, runsVars, resourceVars,
                                                       appVars, rotationVars>>
    \/ part = "governor" /\ Governor!Next /\ UNCHANGED <<part, vars, slotsVars, fastVars,
                                                         intentVars, runsVars, resourceVars,
                                                         appVars, rotationVars>>
    \/ part = "rotation" /\ Rotation!Next /\ UNCHANGED <<part, vars, slotsVars, fastVars,
                                                         intentVars, runsVars, resourceVars,
                                                         appVars, readsVars>>

MCSpec == MCInit /\ [][MCNext]_mcVars

-----------------------------------------------------------------------------
\* Whatever is due is started once: one run for each slot of a site through restarts and
\* rounds that fail halfway, one place in the queue for each slot of a fast task, one run
\* for each pricing intent, which is complete without a run only when its version is past;
\* and the scheduler never meets an active run of another configuration, which would stop
\* the worker.
OnceEach ==
    /\ part = "slots" => Slots!OncePerSlot /\ Slots!NoContractError
    /\ part = "fast" => Fast!OncePerSlot
    /\ part = "intent" => Intent!OneRunPerIntent /\ Intent!CompleteIsSettled
    /\ part = "intents" => Intents!OneRunPerIntent /\ Intents!CompleteIsSettled

\* The four maps of the fast task dispatcher agree with the workers that run, through
\* restarts with old workers still busy; a site has one fast task at a time, and no task
\* waits while its site is free and its type has room. The governor of an origin loses no
\* slot and no wake-up when requests are cancelled as they are admitted, and keeps the
\* pace in force; one request reads a cached answer anew at a time, and a token that was
\* rotated is never reported as kept. The process that hosts them is ready only with all
\* its components, takes no traffic while they stop, and closes the database under a
\* running component only at the hard deadline and under a request only after the drain
\* deadline.
DispatcherSound ==
    /\ part = "fast" => Fast!Bookkeeping /\ Fast!OnePerSite /\ Fast!NoIdle
    /\ part = "restart" => Restarted!Bookkeeping /\ Restarted!OnePerSite
    /\ part = "reads" => Reads!SlotsKept /\ Reads!NoLostWakeup /\ Reads!PaceIsCurrent /\
                         Reads!OneReadPerKey
    /\ part = "evicted" => Evicted!SlotsKept /\ Evicted!NoLostWakeup /\ Evicted!PaceIsCurrent /\
                           Evicted!OneReadPerKey
    /\ part = "governor" => Governor!SlotsKept /\ Governor!NoLostWakeup /\
                            Governor!PaceIsCurrent /\ Governor!RotationIsReported
    /\ part = "application" => App!ReadyIsWhole /\ App!NoTrafficWhileStopping /\ App!OrderlyExit

\* A retention that reports its day as done has treated every run that was old when the
\* day began, though runs end out of order and batches fail; the rows of a day become
\* final and are withdrawn together; a sample is in its minutes or in its hour, no repair
\* takes it away from there, and a finalization whose scope did not change holds exactly
\* what was sampled and not paused, unless a pause of the day was entered between the
\* repair and the finalization. A rotation of the master key loses no secret, whatever
\* interrupts it and whatever the service writes meanwhile, and what an interrupted one
\* staged is valid for the next.
MaintenanceIsTrue ==
    /\ part = "retention" => Runs!DayIsComplete
    /\ part = "resource" => Resource!PublishedTogether /\ Resource!NoSampleLost /\
                            Resource!ComputedStays /\ Resource!FinalIsTrue
    /\ part = "faults" => Faults!PublishedTogether /\ Faults!FinalIsTrue
    /\ part = "rotation" => Rotation!NoSecretLost /\ Rotation!StagingHolds

\* A step acts on the current state only: a round of the scheduler that passes the hour of
\* a site leaves a run for it, an intent creates a run of the version it belongs to, and
\* the retention never deletes a run that has windows, failed or still runs, and touches
\* none before its age; a rotation of the master key that reports success has moved every
\* secret that was not written after its snapshot; no request is admitted beyond the limit
\* in force or before the end of a pause the governor was told of.
StartsAreCurrent ==
    [][/\ part = "sites" => SiteHours!HourServedStep
       /\ part = "intent" => Intent!RunOfCurrentVersionStep
       /\ part = "intents" => Intents!RunOfCurrentVersionStep
       /\ part = "retention" => Runs!OnlyOldDiagnosticsGoStep
       /\ part = "rotation" => Rotation!RotatedStep
       /\ part = "reads" => Reads!AdmissionsWaitStep
       /\ part = "evicted" => Evicted!AdmissionsWaitStep
       /\ part = "governor" => Governor!AdmissionsWaitStep]_mcVars
=============================================================================
