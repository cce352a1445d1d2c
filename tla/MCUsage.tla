------------------------------- MODULE MCUsage -------------------------------
(***************************************************************************)
(* Instances of what becomes of collected data, for TLC: the cursor, with   *)
(* the constants of the configuration, the aggregates, the lifecycle of     *)
(* accounts and customers, the log, and the copies of upstream lists.  A    *)
(* behaviour is one of a single instance, which part names; the variables   *)
(* of the other modules keep a value of no meaning.                         *)
(***************************************************************************)
EXTENDS UsageCursor

VARIABLES
    part,   \* the instance this behaviour is of
    \* UsageAggregation
    now, window, facts, account, customer, hourly, daily,
    \* EntityLifecycle
    lifecycleNow, lifecycleWindow, lifecycleFacts, lifecycleAccount, lifecycleCustomer,
    lifecycleHourly, lifecycleDaily, runs, wanted, touched, pauses, waiting,
    \* LogCollection
    hour, config, windowsFacts, state, run, fails,
    \* PagedSync
    kind, up, next, rows, pagedState, pagedConfig, round, pagedFails, proved,
    \* Catalog
    listsKind, listsNow, site, edits, remote, listsRows, listsState, listsRound, applied,
    export, exports,
    \* UpstreamTasks
    tasksHour, tasksRemote, visible, tasksRows, tasksState, tasksRound,
    \* SystemTasks
    systemNow, systemRemote, systemRows, systemState, whole, systemRound,
    \* PerformanceHistory
    historyNow, historyConfig, historyRemote, historyRows, historyState, readAt, historyRound,
    \* RemoteUsers
    clock, remoteSite, inventory, remoteHourly, remoteAccount, job, reads, refreshes, log,
    lastHour,
    \* SiteInstances
    instancesClock, updatedAt, instance, lifecycle, sample, siteSample, health, monitoringStart,
    snapshots, overtaken

siteTablesVars == <<now, window, facts, account, customer, hourly, daily>>
lifecycleVars == <<lifecycleNow, lifecycleWindow, lifecycleFacts, lifecycleAccount,
                   lifecycleCustomer, lifecycleHourly, lifecycleDaily, runs, wanted, touched,
                   pauses, waiting>>
windowsVars == <<hour, config, windowsFacts, state, run, fails>>
pagedVars == <<kind, up, next, rows, pagedState, pagedConfig, round, pagedFails, proved>>
listsVars == <<listsKind, listsNow, site, edits, remote, listsRows, listsState, listsRound,
               applied, export, exports>>
tasksVars == <<tasksHour, tasksRemote, visible, tasksRows, tasksState, tasksRound>>
systemVars == <<systemNow, systemRemote, systemRows, systemState, whole, systemRound>>
historyVars == <<historyNow, historyConfig, historyRemote, historyRows, historyState, readAt,
                 historyRound>>
remoteVars == <<clock, remoteSite, inventory, remoteHourly, remoteAccount, job, reads,
                refreshes, log, lastHour>>
instancesVars == <<instancesClock, updatedAt, instance, lifecycle, sample, siteSample, health,
                   monitoringStart, snapshots, overtaken>>
mcVars == <<part, vars, siteTablesVars, lifecycleVars, windowsVars, pagedVars, listsVars,
            tasksVars, systemVars, historyVars, remoteVars, instancesVars>>

SiteTables == INSTANCE UsageAggregation WITH Sites <- {"s1", "s2"}, Accounts <- {"a1"},
                                             Customers <- {"c1"},
                                             SiteOf <- [a \in {"a1"} |-> "s1"],
                                             CustomerOf <- [a \in {"a1"} |-> "c1"],
                                             CreatedAt <- [a \in {"a1"} |-> 1],
                                             StatisticsStart <- [s \in {"s1", "s2"} |-> IF s = "s2" THEN 1 ELSE 0],
                                             StatisticsEnd <- [s \in {"s1", "s2"} |-> 2],
                                             Other <- "other", Amounts <- {1}, DayHours <- 2,
                                             MaxHour <- 2, MaxCommits <- 2
Entities == INSTANCE UsageAggregation WITH Sites <- {"s1"}, Accounts <- {"a1", "a2"},
                                           Customers <- {"c1"},
                                           SiteOf <- [a \in {"a1", "a2"} |-> "s1"],
                                           CustomerOf <- [a \in {"a1", "a2"} |-> "c1"],
                                           CreatedAt <- [a \in {"a1", "a2"} |-> IF a = "a1" THEN 1 ELSE 0],
                                           StatisticsStart <- [s \in {"s1"} |-> 0],
                                           StatisticsEnd <- [s \in {"s1"} |-> 2],
                                           Other <- "other", Amounts <- {1}, DayHours <- 2,
                                           MaxHour <- 2, MaxCommits <- 2
Lifecycle == INSTANCE EntityLifecycle WITH Sites <- {"s1"}, Accounts <- {"a1", "a2"},
                                           Customers <- {"c1"},
                                           SiteOf <- [a \in {"a1", "a2"} |-> "s1"],
                                           CustomerOf <- [a \in {"a1", "a2"} |-> "c1"],
                                           CreatedAt <- [a \in {"a1", "a2"} |-> 0],
                                           StatisticsStart <- [s \in {"s1"} |-> 0],
                                           StatisticsEnd <- [s \in {"s1"} |-> 2],
                                           Other <- "other", Amounts <- {1}, DayHours <- 2,
                                           MaxHour <- 2, MaxCommits <- 1, Created <- {},
                                           MaxRuns <- 1, MaxPauses <- 2, MayWait <- FALSE,
                                           now <- lifecycleNow, window <- lifecycleWindow,
                                           facts <- lifecycleFacts, account <- lifecycleAccount,
                                           customer <- lifecycleCustomer,
                                           hourly <- lifecycleHourly, daily <- lifecycleDaily
Days == INSTANCE EntityLifecycle WITH Sites <- {"s1"}, Accounts <- {"a1"}, Customers <- {"c1"},
                                      SiteOf <- [a \in {"a1"} |-> "s1"],
                                      CustomerOf <- [a \in {"a1"} |-> "c1"],
                                      CreatedAt <- [a \in {"a1"} |-> 0],
                                      StatisticsStart <- [s \in {"s1"} |-> 0],
                                      StatisticsEnd <- [s \in {"s1"} |-> 2], Other <- "other",
                                      Amounts <- {1}, DayHours <- 1, MaxHour <- 2,
                                      MaxCommits <- 2, Created <- {}, MaxRuns <- 2,
                                      MaxPauses <- 1, MayWait <- FALSE, now <- lifecycleNow,
                                      window <- lifecycleWindow, facts <- lifecycleFacts,
                                      account <- lifecycleAccount,
                                      customer <- lifecycleCustomer, hourly <- lifecycleHourly,
                                      daily <- lifecycleDaily
Waits == INSTANCE EntityLifecycle WITH Sites <- {"s1"}, Accounts <- {"a1"}, Customers <- {"c1"},
                                       SiteOf <- [a \in {"a1"} |-> "s1"],
                                       CustomerOf <- [a \in {"a1"} |-> "c1"],
                                       CreatedAt <- [a \in {"a1"} |-> 0],
                                       StatisticsStart <- [s \in {"s1"} |-> 0],
                                       StatisticsEnd <- [s \in {"s1"} |-> 1], Other <- "other",
                                       Amounts <- {1}, DayHours <- 2, MaxHour <- 1,
                                       MaxCommits <- 2, Created <- {}, MaxRuns <- 1,
                                       MaxPauses <- 2, MayWait <- TRUE, now <- lifecycleNow,
                                       window <- lifecycleWindow, facts <- lifecycleFacts,
                                       account <- lifecycleAccount,
                                       customer <- lifecycleCustomer, hourly <- lifecycleHourly,
                                       daily <- lifecycleDaily
Windows == INSTANCE LogCollection WITH MaxHour <- 13, FirstHour <- 7, StartHour <- 1,
                                       Recent <- 2, Span <- 2, MaxWindows <- 1, Retention <- 7,
                                       Twins <- {}, MaxConfig <- 1, MaxFails <- 3,
                                       facts <- windowsFacts
Configs == INSTANCE LogCollection WITH MaxHour <- 12, FirstHour <- 7, StartHour <- 1,
                                       Recent <- 2, Span <- 2, MaxWindows <- 1, Retention <- 7,
                                       Twins <- {}, MaxConfig <- 2, MaxFails <- 1,
                                       facts <- windowsFacts
Paged == INSTANCE PagedSync WITH Kinds <- {"user", "channel", "topup"}, MaxId <- 4,
                                 PageSize <- 1, Cap <- 3, Changes <- {"done"}, MaxConfig <- 1,
                                 MaxFails <- 1, state <- pagedState, config <- pagedConfig,
                                 fails <- pagedFails
Redemptions == INSTANCE PagedSync WITH Kinds <- {"topup", "redemption"}, MaxId <- 3,
                                       PageSize <- 1, Cap <- 2, Changes <- {"done"},
                                       MaxConfig <- 2, MaxFails <- 0, state <- pagedState,
                                       config <- pagedConfig, fails <- pagedFails
Lists == INSTANCE Catalog WITH Sites <- {"s1"}, Items <- {"i1"}, Rounds <- {"r1", "r2"},
                               Kinds <- {"plan", "model", "upstream_task"}, MaxValue <- 2,
                               MaxConfig <- 2, MaxTime <- 2, PageSize <- 1, MaxExports <- 0,
                               kind <- listsKind, now <- listsNow, rows <- listsRows,
                               state <- listsState, round <- listsRound
SiteLists == INSTANCE Catalog WITH Sites <- {"s1", "s2"}, Items <- {"i1"}, Rounds <- {"r1"},
                                   Kinds <- {"plan"}, MaxValue <- 1, MaxConfig <- 2,
                                   MaxTime <- 2, PageSize <- 1, MaxExports <- 0,
                                   kind <- listsKind, now <- listsNow, rows <- listsRows,
                                   state <- listsState, round <- listsRound
AllLists == INSTANCE Catalog WITH Sites <- {"s1"}, Items <- {"i1"}, Rounds <- {"r1"},
                                  Kinds <- {"model", "plan", "pricing", "group", "upstream_task", "system_task"},
                                  MaxValue <- 1, MaxConfig <- 2, MaxTime <- 2, PageSize <- 1,
                                  MaxExports <- 0, kind <- listsKind, now <- listsNow,
                                  rows <- listsRows, state <- listsState, round <- listsRound
Exports == INSTANCE Catalog WITH Sites <- {"s1"}, Items <- {"i1", "i2"}, Rounds <- {"r1"},
                                 Kinds <- {"model", "plan", "pricing", "group", "upstream_task", "system_task"},
                                 MaxValue <- 1, MaxConfig <- 1, MaxTime <- 1, PageSize <- 1,
                                 MaxExports <- 1, kind <- listsKind, now <- listsNow,
                                 rows <- listsRows, state <- listsState, round <- listsRound
Tasks == INSTANCE UpstreamTasks WITH MaxTask <- 2, Rounds <- {"r1"}, MaxHour <- 5, Cap <- 3,
                                     MaxGap <- 2, Instant <- TRUE, Back <- 1, Retention <- 9,
                                     StartHour <- 1, PageSize <- 1, Late <- 1,
                                     hour <- tasksHour, remote <- tasksRemote,
                                     rows <- tasksRows, state <- tasksState, round <- tasksRound
Delayed == INSTANCE UpstreamTasks WITH MaxTask <- 1, Rounds <- {"r1", "r2"}, MaxHour <- 5,
                                       Cap <- 3, MaxGap <- 2, Instant <- FALSE, Back <- 1,
                                       Retention <- 9, StartHour <- 1, PageSize <- 1, Late <- 1,
                                       hour <- tasksHour, remote <- tasksRemote,
                                       rows <- tasksRows, state <- tasksState,
                                       round <- tasksRound
Old == INSTANCE UpstreamTasks WITH MaxTask <- 1, Rounds <- {"r1"}, MaxHour <- 5, Cap <- 3,
                                   MaxGap <- 2, Instant <- TRUE, Back <- 1, Retention <- 2,
                                   StartHour <- 1, PageSize <- 1, Late <- 1, hour <- tasksHour,
                                   remote <- tasksRemote, rows <- tasksRows,
                                   state <- tasksState, round <- tasksRound
System == INSTANCE SystemTasks WITH Types <- {"log_cleanup", "other"}, MaxTask <- 3, Limit <- 2,
                                    Behind <- 2, MaxTime <- 2, Retention <- 1, now <- systemNow,
                                    remote <- systemRemote, rows <- systemRows,
                                    state <- systemState, round <- systemRound
History == INSTANCE PerformanceHistory WITH Rounds <- {"r1"}, MaxTime <- 7, MaxValue <- 1,
                                            MaxConfig <- 2, Rolling <- 4, Retention <- 6,
                                            MaxGap <- 3, now <- historyNow,
                                            config <- historyConfig, remote <- historyRemote,
                                            rows <- historyRows, state <- historyState,
                                            round <- historyRound
Overlap == INSTANCE PerformanceHistory WITH Rounds <- {"r1", "r2"}, MaxTime <- 5, MaxValue <- 1,
                                            MaxConfig <- 1, Rolling <- 2, Retention <- 4,
                                            MaxGap <- 1, now <- historyNow,
                                            config <- historyConfig, remote <- historyRemote,
                                            rows <- historyRows, state <- historyState,
                                            round <- historyRound
Remote == INSTANCE RemoteUsers WITH Users <- {"u1"}, Accounts <- {"u1"}, Groups <- {"g1", "g2"},
                                    Workers <- {"w1", "w2"}, HourLength <- 2, MaxTime <- 3,
                                    MaxReads <- 2, MaxRefresh <- 1, MaxConfig <- 2,
                                    site <- remoteSite, hourly <- remoteHourly,
                                    account <- remoteAccount
Identity == INSTANCE RemoteUsers WITH Users <- {"u1"}, Accounts <- {"u1"}, Groups <- {"g1"},
                                      Workers <- {"w1"}, HourLength <- 2, MaxTime <- 3,
                                      MaxReads <- 3, MaxRefresh <- 0, MaxConfig <- 1,
                                      site <- remoteSite, hourly <- remoteHourly,
                                      account <- remoteAccount
Instances == INSTANCE SiteInstances WITH Nodes <- {"n1"}, MinuteLength <- 2, MaxTime <- 7,
                                         MaxLag <- 2, MaxSnapshots <- 4, Legacy <- {},
                                         clock <- instancesClock
Imported == INSTANCE SiteInstances WITH Nodes <- {"n1", "n2"}, MinuteLength <- 2, MaxTime <- 6,
                                        MaxLag <- 2, MaxSnapshots <- 3, Legacy <- {"n2"},
                                        clock <- instancesClock

ASSUME Windows!LogAssumption
ASSUME Configs!LogAssumption
ASSUME Paged!PagedAssumption
ASSUME Redemptions!PagedAssumption
ASSUME Lists!CatalogAssumption
ASSUME SiteLists!CatalogAssumption
ASSUME AllLists!CatalogAssumption
ASSUME Exports!CatalogAssumption
ASSUME Tasks!UpstreamTaskAssumption
ASSUME Delayed!UpstreamTaskAssumption
ASSUME Old!UpstreamTaskAssumption
ASSUME System!SystemTaskAssumption
ASSUME History!PerformanceAssumption
ASSUME Overlap!PerformanceAssumption
ASSUME Remote!RemoteAssumption
ASSUME Identity!RemoteAssumption
ASSUME Instances!InstancesAssumption
ASSUME Imported!InstancesAssumption

NoSiteTables == now = 0 /\ window = 0 /\ facts = 0 /\ account = 0 /\ customer = 0 /\
                hourly = 0 /\ daily = 0
NoLifecycle == lifecycleNow = 0 /\ lifecycleWindow = 0 /\ lifecycleFacts = 0 /\
               lifecycleAccount = 0 /\ lifecycleCustomer = 0 /\ lifecycleHourly = 0 /\
               lifecycleDaily = 0 /\ runs = 0 /\ wanted = 0 /\ touched = 0 /\ pauses = 0 /\
               waiting = 0
NoWindows == hour = 0 /\ config = 0 /\ windowsFacts = 0 /\ state = 0 /\ run = 0 /\ fails = 0
NoPaged == kind = 0 /\ up = 0 /\ next = 0 /\ rows = 0 /\ pagedState = 0 /\ pagedConfig = 0 /\
           round = 0 /\ pagedFails = 0 /\ proved = 0
NoLists == listsKind = 0 /\ listsNow = 0 /\ site = 0 /\ edits = 0 /\ remote = 0 /\
           listsRows = 0 /\ listsState = 0 /\ listsRound = 0 /\ applied = 0 /\ export = 0 /\
           exports = 0
NoTasks == tasksHour = 0 /\ tasksRemote = 0 /\ visible = 0 /\ tasksRows = 0 /\ tasksState = 0 /\
           tasksRound = 0
NoSystem == systemNow = 0 /\ systemRemote = 0 /\ systemRows = 0 /\ systemState = 0 /\
            whole = 0 /\ systemRound = 0
NoHistory == historyNow = 0 /\ historyConfig = 0 /\ historyRemote = 0 /\ historyRows = 0 /\
             historyState = 0 /\ readAt = 0 /\ historyRound = 0
NoRemote == clock = 0 /\ remoteSite = 0 /\ inventory = 0 /\ remoteHourly = 0 /\
            remoteAccount = 0 /\ job = 0 /\ reads = 0 /\ refreshes = 0 /\ log = 0 /\
            lastHour = 0
NoInstances == instancesClock = 0 /\ updatedAt = 0 /\ instance = 0 /\ lifecycle = 0 /\
               sample = 0 /\ siteSample = 0 /\ health = 0 /\ monitoringStart = 0 /\
               snapshots = 0 /\ overtaken = 0
NoCursor == Init

MCInit ==
    \/ part = "cursor" /\ Init /\ NoSiteTables /\ NoLifecycle /\ NoWindows /\ NoPaged /\
                                  NoLists /\ NoTasks /\ NoSystem /\ NoHistory /\ NoRemote /\
                                  NoInstances
    \/ part = "sites" /\ SiteTables!Init /\ NoCursor /\ NoLifecycle /\ NoWindows /\ NoPaged /\
                                            NoLists /\ NoTasks /\ NoSystem /\ NoHistory /\
                                            NoRemote /\ NoInstances
    \/ part = "entities" /\ Entities!Init /\ NoCursor /\ NoLifecycle /\ NoWindows /\ NoPaged /\
                                             NoLists /\ NoTasks /\ NoSystem /\ NoHistory /\
                                             NoRemote /\ NoInstances
    \/ part = "lifecycle" /\ Lifecycle!LifecycleInit /\ NoCursor /\ NoSiteTables /\ NoWindows /\
                                                        NoPaged /\ NoLists /\ NoTasks /\
                                                        NoSystem /\ NoHistory /\ NoRemote /\
                                                        NoInstances
    \/ part = "days" /\ Days!LifecycleInit /\ NoCursor /\ NoSiteTables /\ NoWindows /\
                                              NoPaged /\ NoLists /\ NoTasks /\ NoSystem /\
                                              NoHistory /\ NoRemote /\ NoInstances
    \/ part = "waits" /\ Waits!LifecycleInit /\ NoCursor /\ NoSiteTables /\ NoWindows /\
                                                NoPaged /\ NoLists /\ NoTasks /\ NoSystem /\
                                                NoHistory /\ NoRemote /\ NoInstances
    \/ part = "windows" /\ Windows!Init /\ NoCursor /\ NoSiteTables /\ NoLifecycle /\ NoPaged /\
                                           NoLists /\ NoTasks /\ NoSystem /\ NoHistory /\
                                           NoRemote /\ NoInstances
    \/ part = "configs" /\ Configs!Init /\ NoCursor /\ NoSiteTables /\ NoLifecycle /\ NoPaged /\
                                           NoLists /\ NoTasks /\ NoSystem /\ NoHistory /\
                                           NoRemote /\ NoInstances
    \/ part = "paged" /\ Paged!Init /\ NoCursor /\ NoSiteTables /\ NoLifecycle /\ NoWindows /\
                                       NoLists /\ NoTasks /\ NoSystem /\ NoHistory /\
                                       NoRemote /\ NoInstances
    \/ part = "redemptions" /\ Redemptions!Init /\ NoCursor /\ NoSiteTables /\ NoLifecycle /\
                                                   NoWindows /\ NoLists /\ NoTasks /\
                                                   NoSystem /\ NoHistory /\ NoRemote /\
                                                   NoInstances
    \/ part = "catalog" /\ Lists!Init /\ NoCursor /\ NoSiteTables /\ NoLifecycle /\ NoWindows /\
                                         NoPaged /\ NoTasks /\ NoSystem /\ NoHistory /\
                                         NoRemote /\ NoInstances
    \/ part = "catalogs" /\ SiteLists!Init /\ NoCursor /\ NoSiteTables /\ NoLifecycle /\
                                              NoWindows /\ NoPaged /\ NoTasks /\ NoSystem /\
                                              NoHistory /\ NoRemote /\ NoInstances
    \/ part = "kinds" /\ AllLists!Init /\ NoCursor /\ NoSiteTables /\ NoLifecycle /\
                                          NoWindows /\ NoPaged /\ NoTasks /\ NoSystem /\
                                          NoHistory /\ NoRemote /\ NoInstances
    \/ part = "exports" /\ Exports!Init /\ NoCursor /\ NoSiteTables /\ NoLifecycle /\
                                           NoWindows /\ NoPaged /\ NoTasks /\ NoSystem /\
                                           NoHistory /\ NoRemote /\ NoInstances
    \/ part = "tasks" /\ Tasks!Init /\ NoCursor /\ NoSiteTables /\ NoLifecycle /\ NoWindows /\
                                       NoPaged /\ NoLists /\ NoSystem /\ NoHistory /\
                                       NoRemote /\ NoInstances
    \/ part = "late" /\ Delayed!Init /\ NoCursor /\ NoSiteTables /\ NoLifecycle /\ NoWindows /\
                                        NoPaged /\ NoLists /\ NoSystem /\ NoHistory /\
                                        NoRemote /\ NoInstances
    \/ part = "old" /\ Old!Init /\ NoCursor /\ NoSiteTables /\ NoLifecycle /\ NoWindows /\
                                   NoPaged /\ NoLists /\ NoSystem /\ NoHistory /\ NoRemote /\
                                   NoInstances
    \/ part = "system" /\ System!Init /\ NoCursor /\ NoSiteTables /\ NoLifecycle /\ NoWindows /\
                                         NoPaged /\ NoLists /\ NoTasks /\ NoHistory /\
                                         NoRemote /\ NoInstances
    \/ part = "history" /\ History!Init /\ NoCursor /\ NoSiteTables /\ NoLifecycle /\
                                           NoWindows /\ NoPaged /\ NoLists /\ NoTasks /\
                                           NoSystem /\ NoRemote /\ NoInstances
    \/ part = "overlap" /\ Overlap!Init /\ NoCursor /\ NoSiteTables /\ NoLifecycle /\
                                           NoWindows /\ NoPaged /\ NoLists /\ NoTasks /\
                                           NoSystem /\ NoRemote /\ NoInstances
    \/ part = "users" /\ Remote!Init /\ NoCursor /\ NoSiteTables /\ NoLifecycle /\ NoWindows /\
                                        NoPaged /\ NoLists /\ NoTasks /\ NoSystem /\
                                        NoHistory /\ NoInstances
    \/ part = "identity" /\ Identity!Init /\ NoCursor /\ NoSiteTables /\ NoLifecycle /\
                                             NoWindows /\ NoPaged /\ NoLists /\ NoTasks /\
                                             NoSystem /\ NoHistory /\ NoInstances
    \/ part = "nodes" /\ Instances!Init /\ NoCursor /\ NoSiteTables /\ NoLifecycle /\
                                           NoWindows /\ NoPaged /\ NoLists /\ NoTasks /\
                                           NoSystem /\ NoHistory /\ NoRemote
    \/ part = "legacy" /\ Imported!Init /\ NoCursor /\ NoSiteTables /\ NoLifecycle /\
                                           NoWindows /\ NoPaged /\ NoLists /\ NoTasks /\
                                           NoSystem /\ NoHistory /\ NoRemote

MCNext ==
    \/ part = "cursor" /\ Next /\ UNCHANGED <<part, siteTablesVars, lifecycleVars, windowsVars,
                                              pagedVars, listsVars, tasksVars, systemVars,
                                              historyVars, remoteVars, instancesVars>>
    \/ part = "sites" /\ SiteTables!Next /\ UNCHANGED <<part, vars, lifecycleVars, windowsVars,
                                                        pagedVars, listsVars, tasksVars,
                                                        systemVars, historyVars, remoteVars,
                                                        instancesVars>>
    \/ part = "entities" /\ Entities!Next /\ UNCHANGED <<part, vars, lifecycleVars, windowsVars,
                                                         pagedVars, listsVars, tasksVars,
                                                         systemVars, historyVars, remoteVars,
                                                         instancesVars>>
    \/ part = "lifecycle" /\ Lifecycle!LifecycleNext /\ UNCHANGED <<part, vars, siteTablesVars,
                                                                    windowsVars, pagedVars,
                                                                    listsVars, tasksVars,
                                                                    systemVars, historyVars,
                                                                    remoteVars, instancesVars>>
    \/ part = "days" /\ Days!LifecycleNext /\ UNCHANGED <<part, vars, siteTablesVars,
                                                          windowsVars, pagedVars, listsVars,
                                                          tasksVars, systemVars, historyVars,
                                                          remoteVars, instancesVars>>
    \/ part = "waits" /\ Waits!LifecycleNext /\ UNCHANGED <<part, vars, siteTablesVars,
                                                            windowsVars, pagedVars, listsVars,
                                                            tasksVars, systemVars, historyVars,
                                                            remoteVars, instancesVars>>
    \/ part = "windows" /\ Windows!Next /\ UNCHANGED <<part, vars, siteTablesVars,
                                                       lifecycleVars, pagedVars, listsVars,
                                                       tasksVars, systemVars, historyVars,
                                                       remoteVars, instancesVars>>
    \/ part = "configs" /\ Configs!Next /\ UNCHANGED <<part, vars, siteTablesVars,
                                                       lifecycleVars, pagedVars, listsVars,
                                                       tasksVars, systemVars, historyVars,
                                                       remoteVars, instancesVars>>
    \/ part = "paged" /\ Paged!Next /\ UNCHANGED <<part, vars, siteTablesVars, lifecycleVars,
                                                   windowsVars, listsVars, tasksVars,
                                                   systemVars, historyVars, remoteVars,
                                                   instancesVars>>
    \/ part = "redemptions" /\ Redemptions!Next /\ UNCHANGED <<part, vars, siteTablesVars,
                                                               lifecycleVars, windowsVars,
                                                               listsVars, tasksVars, systemVars,
                                                               historyVars, remoteVars,
                                                               instancesVars>>
    \/ part = "catalog" /\ Lists!Next /\ UNCHANGED <<part, vars, siteTablesVars, lifecycleVars,
                                                     windowsVars, pagedVars, tasksVars,
                                                     systemVars, historyVars, remoteVars,
                                                     instancesVars>>
    \/ part = "catalogs" /\ SiteLists!Next /\ UNCHANGED <<part, vars, siteTablesVars,
                                                          lifecycleVars, windowsVars, pagedVars,
                                                          tasksVars, systemVars, historyVars,
                                                          remoteVars, instancesVars>>
    \/ part = "kinds" /\ AllLists!Next /\ UNCHANGED <<part, vars, siteTablesVars, lifecycleVars,
                                                      windowsVars, pagedVars, tasksVars,
                                                      systemVars, historyVars, remoteVars,
                                                      instancesVars>>
    \/ part = "exports" /\ Exports!Next /\ UNCHANGED <<part, vars, siteTablesVars,
                                                       lifecycleVars, windowsVars, pagedVars,
                                                       tasksVars, systemVars, historyVars,
                                                       remoteVars, instancesVars>>
    \/ part = "tasks" /\ Tasks!Next /\ UNCHANGED <<part, vars, siteTablesVars, lifecycleVars,
                                                   windowsVars, pagedVars, listsVars,
                                                   systemVars, historyVars, remoteVars,
                                                   instancesVars>>
    \/ part = "late" /\ Delayed!Next /\ UNCHANGED <<part, vars, siteTablesVars, lifecycleVars,
                                                    windowsVars, pagedVars, listsVars,
                                                    systemVars, historyVars, remoteVars,
                                                    instancesVars>>
    \/ part = "old" /\ Old!Next /\ UNCHANGED <<part, vars, siteTablesVars, lifecycleVars,
                                               windowsVars, pagedVars, listsVars, systemVars,
                                               historyVars, remoteVars, instancesVars>>
    \/ part = "system" /\ System!Next /\ UNCHANGED <<part, vars, siteTablesVars, lifecycleVars,
                                                     windowsVars, pagedVars, listsVars,
                                                     tasksVars, historyVars, remoteVars,
                                                     instancesVars>>
    \/ part = "history" /\ History!Next /\ UNCHANGED <<part, vars, siteTablesVars,
                                                       lifecycleVars, windowsVars, pagedVars,
                                                       listsVars, tasksVars, systemVars,
                                                       remoteVars, instancesVars>>
    \/ part = "overlap" /\ Overlap!Next /\ UNCHANGED <<part, vars, siteTablesVars,
                                                       lifecycleVars, windowsVars, pagedVars,
                                                       listsVars, tasksVars, systemVars,
                                                       remoteVars, instancesVars>>
    \/ part = "users" /\ Remote!Next /\ UNCHANGED <<part, vars, siteTablesVars, lifecycleVars,
                                                    windowsVars, pagedVars, listsVars,
                                                    tasksVars, systemVars, historyVars,
                                                    instancesVars>>
    \/ part = "identity" /\ Identity!Next /\ UNCHANGED <<part, vars, siteTablesVars,
                                                         lifecycleVars, windowsVars, pagedVars,
                                                         listsVars, tasksVars, systemVars,
                                                         historyVars, instancesVars>>
    \/ part = "nodes" /\ Instances!Next /\ UNCHANGED <<part, vars, siteTablesVars,
                                                       lifecycleVars, windowsVars, pagedVars,
                                                       listsVars, tasksVars, systemVars,
                                                       historyVars, remoteVars>>
    \/ part = "legacy" /\ Imported!Next /\ UNCHANGED <<part, vars, siteTablesVars,
                                                       lifecycleVars, windowsVars, pagedVars,
                                                       listsVars, tasksVars, systemVars,
                                                       historyVars, remoteVars>>

MCSpec == MCInit /\ [][MCNext]_mcVars

-----------------------------------------------------------------------------
\* Every stored sum is the sum of the facts it stands for, whichever hours were collected,
\* verified or withdrawn in between: the hourly and daily rows of the sites, the daily
\* facts that are kept incrementally, the rows of accounts and customers. A day is final
\* only when each of its hours was verified after it ended.
TablesExact ==
    /\ part = "sites" => SiteTables!SiteTablesExact /\ SiteTables!DailyFactsExact /\
                         SiteTables!FinalIsVerified /\ SiteTables!BackupsVerify
    /\ part = "entities" => Entities!EntitiesAddUp /\ Entities!BackupsVerify

\* A closed account or customer has a boundary, and once every rebuild has succeeded no
\* row shows more than the facts before it, though hours are collected, contested and lost
\* meanwhile, unless a transaction committed on a view that others had changed while it
\* waited for the locks; a restore that met no other rebuild and no collection leaves the
\* rows as if there had been no pause.
PausesExact ==
    /\ part = "lifecycle" => Lifecycle!ClosedHasBoundary /\ Lifecycle!RestoredExact /\
                             Lifecycle!PausedIsHidden
    /\ part = "days" => Days!RestoredExact /\ Days!PausedIsHidden
    /\ part = "waits" => Waits!ClosedHasBoundary /\ Waits!RestoredExact /\ Waits!PausedIsHidden

\* Between the start of the stored history and its end every hour of the log was
\* collected, whichever windows failed, and a backfill that is marked as completed reached
\* its start.
LogWhole == part = "windows" => Windows!NoHoles /\ Windows!BackfillIsWhole

\* What is stored of an upstream list is what was observed: a complete list put together
\* from pages is the list as it stood at the fence though entries move over the page
\* boundaries, an entry marked as missing is gone, the rows of a catalog are those of the
\* snapshot committed last; a user is missing only after two snapshots without it and an
\* account shows the newest observation; a node has an open interval exactly while it is
\* present; as long as snapshots commit in the order of their stamps its intervals are
\* disjoint and cover its samples, and it is offline only after two samples say so; a site
\* with an offline node is critical, however late its snapshots come; an export of a
\* catalog holds the rows of one moment, each once, though rounds commit between its
\* pages.
CopiesAreTrue ==
    /\ part = "paged" => Paged!SnapshotIsTruth /\ Paged!MissingIsGone
    /\ part = "redemptions" => Redemptions!SnapshotIsTruth /\ Redemptions!MissingIsGone
    /\ part = "catalog" => Lists!ServesSnapshot
    /\ part = "kinds" => AllLists!ServesSnapshot
    /\ part = "exports" => Exports!ExportIsOneMoment
    /\ part = "users" => Remote!MissingSeenTwice /\ Remote!AccountShowsNewest /\
                         Remote!NormalAreCounted
    /\ part = "nodes" => Instances!OpenIffPresent /\ Instances!IntervalsDisjoint /\
                         Instances!SampledIsCovered /\ Instances!OfflineEarned /\
                         Instances!OfflineIsCritical
    /\ part = "legacy" => Imported!OpenIffPresent /\ Imported!IntervalsDisjoint /\
                          Imported!SampledIsCovered

\* A status never says more than was read: complete means complete under the current
\* configuration and for every active site, a task list that reports success knows every
\* task created before it, a complete system task list is whole, and a closed hour of the
\* history holds every sample.
StatusIsEarned ==
    /\ part = "catalog" => Lists!CompleteIsCurrent
    /\ part = "catalogs" => SiteLists!OverallConservative
    /\ part = "tasks" => Tasks!Known
    /\ part = "late" => Delayed!Known
    /\ part = "system" => System!CompleteIsWhole
    /\ part = "history" => History!SettledWhole
    /\ part = "overlap" => Overlap!SettledWhole

\* What was settled is not taken back: an account whose remote identity was replaced keeps
\* that state and opens again only through the last window of a rebuild that had read it
\* before, the end of the log's window never moves back under whichever configuration a
\* late window commits, a row is not replaced by an older one, a short round covers
\* everything above its watermark and every open entry, and unfinished tasks and stored
\* hours are not deleted, but for hours of the history that a round deletes which read
\* before another committed.
NothingGoesBack ==
    [][/\ part = "lifecycle" => Lifecycle!MismatchIsForeverStep
       /\ part = "waits" => Waits!MismatchIsForeverStep
       /\ part = "configs" => Configs!CursorForwardStep
       /\ part = "catalog" => Lists!NeverOlderStep
       /\ part = "late" => Delayed!NeverOlderStep
       /\ part = "paged" => Paged!CommitCoversStep /\ Paged!OpenConvergesStep
       /\ part = "redemptions" => Redemptions!OpenConvergesStep
       /\ part = "old" => Old!UnfinishedStaysStep
       /\ part = "system" => System!RunningStaysStep
       /\ part = "history" => History!HistoryKeptStep
       /\ part = "overlap" => Overlap!HistoryKeptStep
       /\ part = "users" => Remote!IdentityIsForeverStep
       /\ part = "identity" => Identity!IdentityIsForeverStep]_mcVars
=============================================================================
