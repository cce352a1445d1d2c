--------------------------- MODULE StatisticsRead ---------------------------
(* The read path of the statistics and of the dashboard summary.  A page asks *)
(* for statistics; the short-lived cache answers it from an entry, joins it   *)
(* to the flight under way for the same key or lets it load.  A load reads    *)
(* the metrics of the range and then, in a second statement, its windows; an  *)
(* export reads both in one repeatable-read snapshot and never uses the cache. *)
(* The dashboard summary reads its point through the cache and the current    *)
(* values beside it.  The hours of the range are collected and withdrawn      *)
(* meanwhile (sources: service/statistics.go, service/statistics_cache.go,    *)
(* service/dashboard.go, service/dashboard_readers.go, model/statistics.go).  *)
EXTENDS Naturals, FiniteSets, Sequences, SequencesExt

CONSTANTS Requests,     \* the requests of one behaviour, each made once
          Hours,        \* the hours of the range
          Sites,        \* the sites a caller may filter on
          TTL,          \* statisticsReadCacheTTL in clock ticks
          MaxEntries,   \* statisticsReadCacheMaxEntries
          MaxTime,      \* bound on the clock
          MaxCommits    \* bound on the changes of the windows

StatisticsReadAssumption ==
    /\ TTL \in Nat \ {0} /\ MaxEntries \in Nat \ {0}
    /\ MaxTime \in Nat /\ MaxCommits \in Nat

VARIABLES now,       \* the process's wall clock
          complete,  \* the hours whose window is complete, with their metrics
          commits,   \* how often the windows changed
          entries,   \* the cache: stored responses
          flights,   \* the cache: the leader of the flight of each key
          req        \* the requests

readVars == <<now, complete, commits, entries, flights, req>>

(* A request is for the export of the statistics, for a short range or a     *)
(* narrow scope ("direct"), for a week or more of the global hourly          *)
(* statistics ("page") or for the dashboard's summary.  The caller writes    *)
(* the sites of the filter, one or several, in any order.                    *)
Kinds == {"export", "direct", "page", "dashboard"}
Queries == [kind : Kinds, sites : UNION {SetToSeqs(S) : S \in SUBSET Sites \ {{}}}]
NoQuery == [kind |-> "none", sites |-> <<>>]

NoAnswer == [kind |-> "none", metrics |-> {}, windows |-> {}, ended |-> 0, asked |-> NoQuery]
Idle == [pc |-> "idle", query |-> NoQuery, arrived |-> 0, metrics |-> {}, leader |-> "none", answer |-> NoAnswer]

Init ==
    /\ now = 0 /\ complete = {} /\ commits = 0
    /\ entries = {} /\ flights = {}
    /\ req = [r \in Requests |-> Idle]

-----------------------------------------------------------------------------
(* The key of a query: its projection and its filters as sets.  Only the     *)
(* pages and the dashboard have one.                                         *)
KeyIgnoresProjection(q) == [kind |-> "page", sites |-> ToSet(q.sites)]  \* Mutant: the projection is not part of the key.
statisticsReadCacheKey(q) == [kind |-> q.kind, sites |-> ToSet(q.sites)]

Cacheable(q) == q.kind \in {"page", "dashboard"}
KeyOf(e) == statisticsReadCacheKey(e.asked)
Flight(key) == {r \in flights : statisticsReadCacheKey(req[r].query) = key}

LiveAtExpiry == {e \in entries : e.ended + TTL >= now}  \* Mutant: an entry lives through the second of its expiry.
Live == {e \in entries : e.ended + TTL > now}

-----------------------------------------------------------------------------
(* The windows: a commit writes metrics and window of an hour in one         *)
(* transaction; a validation that finds its facts lost withdraws it.         *)
CommitHour(h) ==
    /\ commits < MaxCommits /\ h \notin complete
    /\ complete' = complete \cup {h} /\ commits' = commits + 1
    /\ UNCHANGED <<now, entries, flights, req>>

WithdrawHour(h) ==
    /\ commits < MaxCommits /\ h \in complete
    /\ complete' = complete \ {h} /\ commits' = commits + 1
    /\ UNCHANGED <<now, entries, flights, req>>

Tick == now < MaxTime /\ now' = now + 1 /\ UNCHANGED <<complete, commits, entries, flights, req>>

-----------------------------------------------------------------------------
(* What a response shows: the hours counted in its metrics and the hours it  *)
(* reports as complete.                                                      *)
Response(q, metrics, windows) ==
    [kind |-> "ok", metrics |-> metrics, windows |-> windows, ended |-> now, asked |-> q]
Failure(q) == [kind |-> "error", metrics |-> {}, windows |-> {}, ended |-> now, asked |-> q]

(* After its statistics the summary of the dashboard still reads the current *)
(* values.                                                                   *)
Answered(q) == IF q.kind = "dashboard" THEN "point" ELSE "done"

Respond(r, a) ==
    [req[r] EXCEPT !.answer = a, !.pc = IF a.kind = "ok" THEN Answered(req[r].query) ELSE "done"]

(* ExportSnapshot: both reads in the caller's transaction.                   *)
ExportUnordered(r, q) ==  \* Mutant: an export goes through the two reads of a page.
    /\ q.kind = "export"
    /\ req' = [req EXCEPT ![r] = [Idle EXCEPT !.pc = "load", !.query = q, !.arrived = now, !.leader = r]]
    /\ UNCHANGED <<now, complete, commits, entries, flights>>
ExportSnapshot(r, q) ==
    /\ q.kind = "export"
    /\ req' = [req EXCEPT ![r] =
                  [Idle EXCEPT !.pc = "done", !.query = q, !.arrived = now, !.leader = r,
                               !.answer = Response(q, complete, complete)]]
    /\ UNCHANGED <<now, complete, commits, entries, flights>>

(* load: an entry that has not expired answers; else the request joins the   *)
(* flight of its key, else it leads one.                                     *)
load(r, q) ==
    LET key == statisticsReadCacheKey(q)
        hit == {e \in Live : KeyOf(e) = key}
        base == [Idle EXCEPT !.query = q, !.arrived = now]
    IN /\ Cacheable(q)
       /\ entries' = Live
       /\ \/ /\ hit # {}
             /\ \E e \in hit :
                   req' = [req EXCEPT ![r] = [base EXCEPT !.answer = e, !.pc = Answered(q)]]
             /\ UNCHANGED flights
          \/ /\ hit = {} /\ Flight(key) # {}
             /\ \E l \in Flight(key) : req' = [req EXCEPT ![r] = [base EXCEPT !.pc = "wait", !.leader = l]]
             /\ UNCHANGED flights
          \/ /\ hit = {} /\ Flight(key) = {}
             /\ req' = [req EXCEPT ![r] = [base EXCEPT !.pc = "load", !.leader = r]]
             /\ flights' = flights \cup {r}
       /\ UNCHANGED <<now, complete, commits>>

(* A query without a key goes straight to its load.                          *)
query(r, q) ==
    /\ q.kind = "direct"
    /\ req' = [req EXCEPT ![r] = [Idle EXCEPT !.pc = "load", !.query = q, !.arrived = now, !.leader = r]]
    /\ UNCHANGED <<now, complete, commits, entries, flights>>

Arrive(r) ==
    /\ req[r].pc = "idle"
    /\ \E q \in Queries : ExportSnapshot(r, q) \/ query(r, q) \/ load(r, q)

-----------------------------------------------------------------------------
(* queryInternal reads the metrics first and the windows afterwards.         *)
RowsOfNextHour(r) ==  \* Mutant: the range of the metrics has an hour too many.
    /\ req[r].pc = "load"
    /\ req' = [req EXCEPT ![r].pc = "rows", ![r].metrics = complete \cup {0}]
    /\ UNCHANGED <<now, complete, commits, entries, flights>>
LoadMetricRows(r) ==
    /\ req[r].pc = "load"
    /\ req' = [req EXCEPT ![r].pc = "rows", ![r].metrics = complete]
    /\ UNCHANGED <<now, complete, commits, entries, flights>>

(* The end of a flight, under the lock of the cache: a success is stored,    *)
(* the oldest entry gives way when the cache is full, the flight is gone.    *)
Evicted ==
    IF Cardinality(entries) < MaxEntries THEN {entries}
    ELSE {entries \ {o} : o \in {e \in entries : \A x \in entries : e.ended <= x.ended}}
StoredUnbounded(r, a) == IF a.kind = "ok" /\ r \in flights THEN {entries \cup {a}} ELSE {entries}  \* Mutant: nothing gives way.
StoredFailures(r, a) == IF r \in flights THEN {E \cup {a} : E \in Evicted} ELSE {entries}  \* Mutant: failures are stored.
Stored(r, a) == IF a.kind = "ok" /\ r \in flights THEN {E \cup {a} : E \in Evicted} ELSE {entries}

FlightKept(r, a) ==  \* Mutant: a failed load leaves its flight in the map.
    /\ entries' \in Stored(r, a)
    /\ flights' = IF a.kind = "ok" THEN flights \ {r} ELSE flights
    /\ req' = [req EXCEPT ![r] = Respond(r, a)]
FinishFlight(r, a) ==
    /\ entries' \in Stored(r, a)
    /\ flights' = flights \ {r}
    /\ req' = [req EXCEPT ![r] = Respond(r, a)]

LoadWindows(r) ==
    /\ req[r].pc = "rows"
    /\ FinishFlight(r, Response(req[r].query, req[r].metrics, complete))
    /\ UNCHANGED <<now, complete, commits>>

(* A read fails, or the leader's page is closed.                             *)
LoadFails(r) ==
    /\ req[r].pc \in {"load", "rows"}
    /\ FinishFlight(r, Failure(req[r].query))
    /\ UNCHANGED <<now, complete, commits>>

(* A waiting request takes the result of its flight, or gives up itself.     *)
Ended(l) == l \notin flights /\ req[l].answer.kind # "none"
FollowOnlySuccess(r) ==  \* Mutant: the flight is closed only after a success.
    LET l == req[r].leader
    IN /\ req[r].pc = "wait" /\ Ended(l) /\ req[l].answer.kind = "ok"
       /\ req' = [req EXCEPT ![r] = Respond(r, req[l].answer)]
       /\ UNCHANGED <<now, complete, commits, entries, flights>>
Follow(r) ==
    LET l == req[r].leader
    IN /\ req[r].pc = "wait" /\ Ended(l)
       /\ req' = [req EXCEPT ![r] = Respond(r, req[l].answer)]
       /\ UNCHANGED <<now, complete, commits, entries, flights>>

GiveUp(r) ==
    /\ req[r].pc = "wait"
    /\ req' = [req EXCEPT ![r].pc = "done", ![r].answer = [Failure(req[r].query) EXCEPT !.kind = "canceled"]]
    /\ UNCHANGED <<now, complete, commits, entries, flights>>

-----------------------------------------------------------------------------
(* Summary: the point has a value when it counts a complete hour; the active *)
(* accounts have one when a complete window exists now.  The two have to     *)
(* agree, or the summary fails.                                              *)
PointHasValue(a) == a.windows # {}
readDashboardActiveAccounts == complete # {}

Summary(r) ==
    /\ req[r].pc = "point"
    /\ req' = [req EXCEPT ![r].pc =
                  IF PointHasValue(req[r].answer) = readDashboardActiveAccounts THEN "done" ELSE "contract"]
    /\ UNCHANGED <<now, complete, commits, entries, flights>>

Next ==
    \/ Tick
    \/ \E h \in Hours : CommitHour(h) \/ WithdrawHour(h)
    \/ \E r \in Requests :
          \/ Arrive(r) \/ LoadMetricRows(r) \/ LoadWindows(r) \/ LoadFails(r)
          \/ Follow(r) \/ GiveUp(r) \/ Summary(r)

Spec == Init /\ [][Next]_readVars

(* Each request runs in a goroutine of its own and every read has a deadline, *)
(* so a load ends; nothing is assumed of the pages that give up.             *)
Fairness ==
    \A r \in Requests :
        /\ WF_readVars(LoadMetricRows(r)) /\ WF_readVars(LoadWindows(r))
        /\ WF_readVars(Follow(r)) /\ WF_readVars(Summary(r))

FairSpec == Spec /\ Fairness

-----------------------------------------------------------------------------
Answers == [kind : {"none", "ok", "error", "canceled"}, metrics : SUBSET Hours, windows : SUBSET Hours,
            ended : 0 .. MaxTime, asked : Queries \cup {NoQuery}]

(* Every variable keeps its type. *)
TypeOK ==
    /\ now \in 0 .. MaxTime /\ complete \subseteq Hours /\ commits \in 0 .. MaxCommits
    /\ entries \subseteq Answers /\ flights \subseteq Requests
    /\ \A r \in Requests :
          /\ req[r].pc \in {"idle", "load", "rows", "wait", "point", "done", "contract"}
          /\ req[r].answer \in Answers /\ req[r].metrics \subseteq Hours

Success(r) == req[r].answer.kind = "ok"

(* A request is answered with a response to its own question: the same       *)
(* projection and the same set of sites, in whatever order they were written *)
(* (statisticsReadCacheKey, normalizeStatisticsCacheQuery).                  *)
AnswersOwnQuestion ==
    \A r \in Requests :
        Success(r) => /\ req[r].answer.asked.kind = req[r].query.kind
                      /\ ToSet(req[r].answer.asked.sites) = ToSet(req[r].query.sites)

(* The load of a response handed out ended less than a TTL before the request *)
(* arrived, or while it waited: purging and storing never stretch the age.   *)
ServedFresh ==
    \A r \in Requests : Success(r) => req[r].answer.ended + TTL > req[r].arrived

(* A failed load fails the requests of its own flight only: a request that   *)
(* arrives after the failure loads again.                                    *)
FailureStaysInFlight ==
    \A r \in Requests :
        req[r].answer.kind = "error" =>
            req[r].leader # "none" /\ req[r].answer = req[req[r].leader].answer

(* Whoever is registered as the leader of a flight is still loading, one per *)
(* key: nobody joins a flight that nobody ends.                              *)
FlightsAreLed ==
    /\ \A r \in flights : req[r].pc \in {"load", "rows"}
    /\ \A r, q \in flights : statisticsReadCacheKey(req[r].query) = statisticsReadCacheKey(req[q].query) => r = q

(* The cache holds one entry per key and no more than its bound.             *)
CacheBounded ==
    /\ Cardinality(entries) <= MaxEntries
    /\ \A d, e \in entries : KeyOf(d) = KeyOf(e) => d = e

(* An export counts exactly the hours it reports as complete.                *)
ExportConsistent ==
    \A r \in Requests :
        Success(r) /\ req[r].query.kind = "export" => req[r].answer.metrics = req[r].answer.windows

(* Whoever waits for another's load gets an answer, whatever becomes of it.  *)
EveryRequestAnswered ==
    \A r \in Requests :
        req[r].pc \notin {"idle", "done", "contract"} ~> req[r].pc \in {"done", "contract"}

(* A value of a complete point counts every hour the point reports as        *)
(* complete: "0" says that there was no usage.                               *)
CompleteIsCounted ==
    \A r \in Requests : Success(r) => req[r].answer.windows \subseteq req[r].answer.metrics

(* The summary of the dashboard answers whenever its reads succeed.          *)
SummaryAnswers == \A r \in Requests : req[r].pc # "contract"
=============================================================================
