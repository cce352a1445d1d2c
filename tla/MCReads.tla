------------------------------- MODULE MCReads -------------------------------
(***************************************************************************)
(* Instances of the modules that read statistics, of the settings each      *)
(* process keeps a copy of, and of users and their sessions, for TLC.  A    *)
(* behaviour is one of a single instance, which part names; the variables   *)
(* of the other modules keep a value of no meaning.                         *)
(***************************************************************************)
EXTENDS PlatformUsers

VARIABLES
    part,   \* the instance this behaviour is of
    \* StatisticsCoverage
    siteCoverageNow, site, window, runs, account, customer, page, export,
    \* StatisticsPaging
    items, sortBy, sortOrder, pagesNow, cursor, offset, out, state,
    \* StatisticsRead
    cacheNow, complete, commits, entries, flights, req,
    \* Dashboard
    boardNow, boardSite, realtime, resource, snapshot, reading,
    \* LocalRanking
    ranksNow, ranksWindow, fact, answer,
    \* StatisticsActive
    status, hourly, daily, life, activesAccount, activesAnswer,
    \* RuntimeSettings
    rows, history, memory, governor, update, refresh, publish, shown, crashes, faults

siteCoverageVars == <<siteCoverageNow, site, window, runs, account, customer, page, export>>
pagesVars == <<items, sortBy, sortOrder, pagesNow, cursor, offset, out, state>>
cacheVars == <<cacheNow, complete, commits, entries, flights, req>>
boardVars == <<boardNow, boardSite, realtime, resource, snapshot, reading>>
ranksVars == <<ranksNow, ranksWindow, fact, answer>>
activesVars == <<status, hourly, daily, life, activesAccount, activesAnswer>>
settingsVars == <<rows, history, memory, governor, update, refresh, publish, shown, crashes,
                  faults>>
mcVars == <<part, vars, siteCoverageVars, pagesVars, cacheVars, boardVars, ranksVars,
            activesVars, settingsVars>>

SiteCoverage == INSTANCE StatisticsCoverage WITH HourTicks <- 2, Daily <- TRUE, UsageDelay <- 0,
                                                 DeadlineSlack <- 0, MinDeadline <- 1,
                                                 Never <- 99, Codes <- {"mismatch"},
                                                 RangeLimit <- 2, Scope <- "site",
                                                 Sites <- {"s"}, Accounts <- {}, MaxHour <- 3,
                                                 BucketHours <- 3, Nows <- {7},
                                                 Starts <- {0, 3}, Ends <- {3, 99},
                                                 Disabled <- {4, 99}, Created <- {0},
                                                 Paused <- {99},
                                                 Statuses <- {"absent", "complete", "missing", "unavailable"},
                                                 Runs <- {{}, {"usage_hour"}},
                                                 now <- siteCoverageNow
AccountCoverage == INSTANCE StatisticsCoverage WITH HourTicks <- 2, Daily <- TRUE,
                                                    UsageDelay <- 0, DeadlineSlack <- 0,
                                                    MinDeadline <- 1, Never <- 99,
                                                    Codes <- {"mismatch"}, RangeLimit <- 1,
                                                    Scope <- "account", Sites <- {"s"},
                                                    Accounts <- {"a"}, MaxHour <- 3,
                                                    BucketHours <- 2, Nows <- {7},
                                                    Starts <- {0, 3}, Ends <- {3, 99},
                                                    Disabled <- {3, 99}, Created <- {1, 2},
                                                    Paused <- {3, 4, 99},
                                                    Statuses <- {"absent", "complete", "missing"},
                                                    Runs <- {{}}, now <- siteCoverageNow
CustomerCoverage == INSTANCE StatisticsCoverage WITH HourTicks <- 2, Daily <- TRUE,
                                                     UsageDelay <- 0, DeadlineSlack <- 0,
                                                     MinDeadline <- 1, Never <- 99, Codes <- {},
                                                     RangeLimit <- 2, Scope <- "customer",
                                                     Sites <- {"s"},
                                                     Accounts <- {"a", "b", "c"}, MaxHour <- 4,
                                                     BucketHours <- 4, Nows <- {9},
                                                     Starts <- {0}, Ends <- {99},
                                                     Disabled <- {99}, Created <- {0, 6},
                                                     Paused <- {3, 99},
                                                     Statuses <- {"absent", "complete"},
                                                     Runs <- {{}}, now <- siteCoverageNow
GlobalCoverage == INSTANCE StatisticsCoverage WITH HourTicks <- 2, Daily <- TRUE,
                                                   UsageDelay <- 0, DeadlineSlack <- 0,
                                                   MinDeadline <- 1, Never <- 99, Codes <- {},
                                                   RangeLimit <- 2, Scope <- "global",
                                                   Sites <- {"s", "t"}, Accounts <- {},
                                                   MaxHour <- 2, BucketHours <- 2, Nows <- {5},
                                                   Starts <- {0, 3}, Ends <- {3, 99},
                                                   Disabled <- {2, 99}, Created <- {0},
                                                   Paused <- {99},
                                                   Statuses <- {"absent", "complete"},
                                                   Runs <- {{}}, now <- siteCoverageNow
Pages == INSTANCE StatisticsPaging WITH Keys <- {1, 2}, Names <- {1, 2}, Buckets <- {1, 2},
                                        SortOrders <- {"asc", "desc"}, Sites <- {1, 2},
                                        Numbers <- {0}, SortBys <- {"name", "bucket_start"},
                                        MaximumRows <- 11, FlowScope <- FALSE, PageSize <- 1,
                                        MaxNow <- 1, now <- pagesNow
WidePages == INSTANCE StatisticsPaging WITH Keys <- {1, 2, 3}, Names <- {1, 2},
                                            Buckets <- {1, 2}, SortOrders <- {"asc", "desc"},
                                            Sites <- {1, 2}, Numbers <- {0},
                                            SortBys <- {"name", "bucket_start"},
                                            MaximumRows <- 11, FlowScope <- FALSE,
                                            PageSize <- 2, MaxNow <- 0, now <- pagesNow
MetricPages == INSTANCE StatisticsPaging WITH Keys <- {1, 2}, Names <- {1, 2},
                                              Buckets <- {1, 2}, SortOrders <- {"asc", "desc"},
                                              Sites <- {1}, Numbers <- {0, 1},
                                              SortBys <- {"quota"}, MaximumRows <- 11,
                                              FlowScope <- FALSE, PageSize <- 1, MaxNow <- 0,
                                              now <- pagesNow
FlowPages == INSTANCE StatisticsPaging WITH Keys <- {1, 2}, Names <- {1, 2}, Buckets <- {1, 2},
                                            SortOrders <- {"asc", "desc"}, Sites <- {},
                                            Numbers <- {0, 1},
                                            SortBys <- {"name", "bucket_start", "quota"},
                                            MaximumRows <- 12, FlowScope <- TRUE, PageSize <- 1,
                                            MaxNow <- 1, now <- pagesNow
Cache == INSTANCE StatisticsRead WITH Requests <- {"r1", "r2"}, Hours <- {1},
                                      Sites <- {"s1", "s2"}, TTL <- 1, MaxEntries <- 1,
                                      MaxTime <- 2, MaxCommits <- 1, now <- cacheNow
Board == INSTANCE Dashboard WITH Sites <- {1, 2}, MaxAge <- 1, MaxTime <- 2, MaxLoad <- 1,
                                 now <- boardNow, site <- boardSite
Ranks == INSTANCE LocalRanking WITH Sites <- {"s1"}, Dimensions <- {1, 2}, HourTicks <- 2,
                                    DayHours <- 2, Weekday0 <- 6, MaxHour <- 3, MaxTokens <- 2,
                                    StatisticsStart <- [s \in {"s1"} |-> 0], now <- ranksNow,
                                    window <- ranksWindow
RankWindows == INSTANCE LocalRanking WITH Sites <- {"s1", "s2"}, Dimensions <- {1},
                                          HourTicks <- 2, DayHours <- 2, Weekday0 <- 0,
                                          MaxHour <- 3, MaxTokens <- 1,
                                          StatisticsStart <- [s \in {"s1", "s2"} |-> IF s = "s1" THEN 0 ELSE 1],
                                          now <- ranksNow, window <- ranksWindow
RankPeriods == INSTANCE LocalRanking WITH Sites <- {}, Dimensions <- {1}, HourTicks <- 2,
                                          DayHours <- 2, Weekday0 <- 1, MaxHour <- 30,
                                          MaxTokens <- 0, StatisticsStart <- [s \in {} |-> 0],
                                          now <- ranksNow, window <- ranksWindow
Actives == INSTANCE StatisticsActive WITH Sites <- {"s1"}, Users <- {"u1"}, DayHours <- 2,
                                          MaxHour <- 4, Scopes <- {"global", "customer"},
                                          Granularities <- {"hour", "day"},
                                          account <- activesAccount, answer <- activesAnswer
Settings == INSTANCE RuntimeSettings WITH Process <- {1, 2},
                                          Keys <- {"low", "high", "on", "secret", "rate"},
                                          Kind <- [k \in {"low", "high", "on", "secret", "rate"} |-> CASE k = "on" -> "bool" [] k = "secret" -> "secret" [] k = "rate" -> "decimal" [] OTHER -> "int"],
                                          Minimum <- [k \in {"low", "high", "on", "secret", "rate"} |-> IF k = "on" THEN 0 ELSE 1],
                                          Maximum <- [k \in {"low", "high", "on", "secret", "rate"} |-> IF k = "on" THEN 1 ELSE 2],
                                          Ordered <- {<<"low", "high">>},
                                          Governing <- {"low", "high"}, Switch <- "on",
                                          First <- [k \in {"low", "high", "on", "secret", "rate"} |-> CASE k = "low" -> 1 [] k = "high" -> 2 [] OTHER -> 0],
                                          Requests <- {[k \in {"low"} |-> [op |-> "set", value |-> 2]], [k \in {"high", "secret"} |-> [op |-> "set", value |-> 1]], [k \in {"on", "secret", "rate"} |-> IF k = "on" THEN [op |-> "set", value |-> 1] ELSE [op |-> "clear"]]},
                                          Clocks <- {1, 2}, MaxCommits <- 2, MaxCrashes <- 1,
                                          MaxFaults <- 1

ASSUME Cache!StatisticsReadAssumption
ASSUME Board!DashboardAssumption
ASSUME Ranks!LocalRankingAssumption
ASSUME RankWindows!LocalRankingAssumption
ASSUME RankPeriods!LocalRankingAssumption
ASSUME Actives!StatisticsActiveAssumption
ASSUME Settings!SettingAssumption

NoSiteCoverage == siteCoverageNow = 0 /\ site = 0 /\ window = 0 /\ runs = 0 /\ account = 0 /\
                  customer = 0 /\ page = 0 /\ export = 0
NoPages == items = 0 /\ sortBy = 0 /\ sortOrder = 0 /\ pagesNow = 0 /\ cursor = 0 /\
           offset = 0 /\ out = 0 /\ state = 0
NoCache == cacheNow = 0 /\ complete = 0 /\ commits = 0 /\ entries = 0 /\ flights = 0 /\ req = 0
NoBoard == boardNow = 0 /\ boardSite = 0 /\ realtime = 0 /\ resource = 0 /\ snapshot = 0 /\
           reading = 0
NoRanks == ranksNow = 0 /\ ranksWindow = 0 /\ fact = 0 /\ answer = 0
NoActives == status = 0 /\ hourly = 0 /\ daily = 0 /\ life = 0 /\ activesAccount = 0 /\
             activesAnswer = 0
NoSettings == rows = 0 /\ history = 0 /\ memory = 0 /\ governor = 0 /\ update = 0 /\
              refresh = 0 /\ publish = 0 /\ shown = 0 /\ crashes = 0 /\ faults = 0
NoUsers == Init /\ (\A u \in User : row[u] = NoUser)

MCInit ==
    \/ part = "users" /\ Init /\ NoSiteCoverage /\ NoPages /\ NoCache /\ NoBoard /\ NoRanks /\
                                 NoActives /\ NoSettings
    \/ part = "site" /\ SiteCoverage!Init /\ NoUsers /\ NoPages /\ NoCache /\ NoBoard /\
                                             NoRanks /\ NoActives /\ NoSettings
    \/ part = "account" /\ AccountCoverage!Init /\ NoUsers /\ NoPages /\ NoCache /\ NoBoard /\
                                                   NoRanks /\ NoActives /\ NoSettings
    \/ part = "customer" /\ CustomerCoverage!Init /\ NoUsers /\ NoPages /\ NoCache /\ NoBoard /\
                                                     NoRanks /\ NoActives /\ NoSettings
    \/ part = "global" /\ GlobalCoverage!Init /\ NoUsers /\ NoPages /\ NoCache /\ NoBoard /\
                                                 NoRanks /\ NoActives /\ NoSettings
    \/ part = "pages" /\ Pages!Init /\ NoUsers /\ NoSiteCoverage /\ NoCache /\ NoBoard /\
                                       NoRanks /\ NoActives /\ NoSettings
    \/ part = "wide" /\ WidePages!Init /\ NoUsers /\ NoSiteCoverage /\ NoCache /\ NoBoard /\
                                          NoRanks /\ NoActives /\ NoSettings
    \/ part = "metric" /\ MetricPages!Init /\ NoUsers /\ NoSiteCoverage /\ NoCache /\ NoBoard /\
                                              NoRanks /\ NoActives /\ NoSettings
    \/ part = "flow" /\ FlowPages!Init /\ NoUsers /\ NoSiteCoverage /\ NoCache /\ NoBoard /\
                                          NoRanks /\ NoActives /\ NoSettings
    \/ part = "cache" /\ Cache!Init /\ NoUsers /\ NoSiteCoverage /\ NoPages /\ NoBoard /\
                                       NoRanks /\ NoActives /\ NoSettings
    \/ part = "dashboard" /\ Board!Init /\ NoUsers /\ NoSiteCoverage /\ NoPages /\ NoCache /\
                                           NoRanks /\ NoActives /\ NoSettings
    \/ part = "movers" /\ Ranks!Init /\ NoUsers /\ NoSiteCoverage /\ NoPages /\ NoCache /\
                                        NoBoard /\ NoActives /\ NoSettings
    \/ part = "windows" /\ RankWindows!Init /\ NoUsers /\ NoSiteCoverage /\ NoPages /\
                                               NoCache /\ NoBoard /\ NoActives /\ NoSettings
    \/ part = "periods" /\ RankPeriods!Init /\ NoUsers /\ NoSiteCoverage /\ NoPages /\
                                               NoCache /\ NoBoard /\ NoActives /\ NoSettings
    \/ part = "active" /\ Actives!Init /\ NoUsers /\ NoSiteCoverage /\ NoPages /\ NoCache /\
                                          NoBoard /\ NoRanks /\ NoSettings
    \/ part = "settings" /\ Settings!Init /\ NoUsers /\ NoSiteCoverage /\ NoPages /\ NoCache /\
                                             NoBoard /\ NoRanks /\ NoActives

MCNext ==
    \/ part = "users" /\ Next /\ UNCHANGED <<part, siteCoverageVars, pagesVars, cacheVars,
                                             boardVars, ranksVars, activesVars, settingsVars>>
    \/ part = "site" /\ SiteCoverage!Next /\ UNCHANGED <<part, vars, pagesVars, cacheVars,
                                                         boardVars, ranksVars, activesVars,
                                                         settingsVars>>
    \/ part = "account" /\ AccountCoverage!Next /\ UNCHANGED <<part, vars, pagesVars, cacheVars,
                                                               boardVars, ranksVars,
                                                               activesVars, settingsVars>>
    \/ part = "customer" /\ CustomerCoverage!Next /\ UNCHANGED <<part, vars, pagesVars,
                                                                 cacheVars, boardVars,
                                                                 ranksVars, activesVars,
                                                                 settingsVars>>
    \/ part = "global" /\ GlobalCoverage!Next /\ UNCHANGED <<part, vars, pagesVars, cacheVars,
                                                             boardVars, ranksVars, activesVars,
                                                             settingsVars>>
    \/ part = "pages" /\ Pages!Next /\ UNCHANGED <<part, vars, siteCoverageVars, cacheVars,
                                                   boardVars, ranksVars, activesVars,
                                                   settingsVars>>
    \/ part = "wide" /\ WidePages!Next /\ UNCHANGED <<part, vars, siteCoverageVars, cacheVars,
                                                      boardVars, ranksVars, activesVars,
                                                      settingsVars>>
    \/ part = "metric" /\ MetricPages!Next /\ UNCHANGED <<part, vars, siteCoverageVars,
                                                          cacheVars, boardVars, ranksVars,
                                                          activesVars, settingsVars>>
    \/ part = "flow" /\ FlowPages!Next /\ UNCHANGED <<part, vars, siteCoverageVars, cacheVars,
                                                      boardVars, ranksVars, activesVars,
                                                      settingsVars>>
    \/ part = "cache" /\ Cache!Next /\ UNCHANGED <<part, vars, siteCoverageVars, pagesVars,
                                                   boardVars, ranksVars, activesVars,
                                                   settingsVars>>
    \/ part = "dashboard" /\ Board!Next /\ UNCHANGED <<part, vars, siteCoverageVars, pagesVars,
                                                       cacheVars, ranksVars, activesVars,
                                                       settingsVars>>
    \/ part = "movers" /\ Ranks!Next /\ UNCHANGED <<part, vars, siteCoverageVars, pagesVars,
                                                    cacheVars, boardVars, activesVars,
                                                    settingsVars>>
    \/ part = "windows" /\ RankWindows!Next /\ UNCHANGED <<part, vars, siteCoverageVars,
                                                           pagesVars, cacheVars, boardVars,
                                                           activesVars, settingsVars>>
    \/ part = "periods" /\ RankPeriods!Next /\ UNCHANGED <<part, vars, siteCoverageVars,
                                                           pagesVars, cacheVars, boardVars,
                                                           activesVars, settingsVars>>
    \/ part = "active" /\ Actives!Next /\ UNCHANGED <<part, vars, siteCoverageVars, pagesVars,
                                                      cacheVars, boardVars, ranksVars,
                                                      settingsVars>>
    \/ part = "settings" /\ Settings!Next /\ UNCHANGED <<part, vars, siteCoverageVars,
                                                         pagesVars, cacheVars, boardVars,
                                                         ranksVars, activesVars>>

MCSpec == MCInit /\ [][MCNext]_mcVars

-----------------------------------------------------------------------------
\* Page and export, which compute them apart, agree: on the expected and complete hours of
\* every bucket, on its status once no run is active, and on the rows and their order
\* whatever the size of a page; and the ranges a page lists explain its own gaps: they
\* merge only hours of one site, status and reason, miss none unless the list is cut, and
\* a list that is cut leaves out the oldest.
ExportAgrees ==
    /\ part = "site" => SiteCoverage!CountsAgree /\ SiteCoverage!SettledStatusesAgree /\
                        SiteCoverage!RangesExplainGaps
    /\ part = "account" => AccountCoverage!CountsAgree /\
                           AccountCoverage!SettledStatusesAgree /\
                           AccountCoverage!RangesExplainGaps
    /\ part = "customer" => CustomerCoverage!CountsAgree /\
                            CustomerCoverage!SettledStatusesAgree /\
                            CustomerCoverage!RangesExplainGaps
    /\ part = "global" => GlobalCoverage!CountsAgree /\ GlobalCoverage!SettledStatusesAgree
    /\ part = "pages" => Pages!ExportIsThePage
    /\ part = "wide" => WidePages!ExportIsThePage
    /\ part = "metric" => MetricPages!ExportIsThePage
    /\ part = "flow" => FlowPages!ExportIsThePage /\ FlowPages!OneSnapshot

\* A cached or joined read answers the question of its request with data that are not
\* older than the time to live, a failure is given to those that waited for it and to
\* nobody else, every flight has a leader, the cache keeps to its bound, and an export
\* reads one snapshot. Every process works with settings that were committed as a whole,
\* fit together and are accepted by every reader, it never returns to older ones, and its
\* governor has the same.
CacheSound ==
    /\ part = "cache" => Cache!AnswersOwnQuestion /\ Cache!ServedFresh /\
                         Cache!FailureStaysInFlight /\ Cache!FlightsAreLed /\
                         Cache!CacheBounded /\ Cache!ExportConsistent
    /\ part = "settings" => Settings!SnapshotIsCommitted /\ Settings!GovernorFollows /\
                            Settings!SettingsForward /\ Settings!CommittedIsAccepted

\* A figure claims no more than its rows: the dashboard is complete only when every
\* expected site is in time and shows the oldest time of them, a ranking compares
\* stretches of equal length, orders its movers by change and is complete only when each
\* expected hour was collected, and active users are counted exactly at the ends of a
\* range.
FiguresHonest ==
    /\ part = "dashboard" => Board!SnapshotPassesCheck /\ Board!CompleteMeansAllInTime /\
                             Board!AsOfIsOldest
    /\ part = "periods" => RankPeriods!PeriodsComparable
    /\ part = "movers" => Ranks!MoversAreNewOrUp /\ Ranks!LargestChangeFirst
    /\ part = "windows" => RankWindows!CompleteMeansCollected
    /\ part = "active" => Actives!SummaryIsExact
=============================================================================
