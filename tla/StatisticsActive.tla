-------------------------- MODULE StatisticsActive --------------------------
(* The exact number of active users of a range.  Hourly ranges take the whole *)
(* days from the daily facts and only the hours at the two ends from the      *)
(* hourly facts; day, month and year ranges take the daily facts; customers   *)
(* and accounts always take the hourly facts and their own account periods.   *)
(* The daily facts follow every commit of an hour (sources:                   *)
(* model/statistics.go, service/statistics.go).                               *)
EXTENDS Integers, FiniteSets

CONSTANTS Sites,       \* the sites
          Users,       \* the remote users of a site
          DayHours,    \* hours per day
          MaxHour,     \* bound on the hours
          Scopes,      \* the scopes the pages ask for
          Granularities

StatisticsActiveAssumption ==
    DayHours \in Nat \ {0} /\ MaxHour \in Nat \ {0} /\ MaxHour % DayHours = 0

Hours == 0 .. MaxHour - 1
Days == 0 .. (MaxHour \div DayHours) - 1
DayOf(h) == h \div DayHours
HoursOf(d) == {h \in Hours : DayOf(h) = d}

VARIABLES status,   \* the status of a site's hours
          hourly,   \* usage_fact_hourly: the users with facts, per site and hour
          daily,    \* usage_fact_daily: the users with facts, per site and day
          life,     \* per site, the first hour and the hour after the last of its statistics
          account,  \* the user's account: the hour it was created in and the hour it was paused in
          answer    \* the answer to the query

activeVars == <<status, hourly, daily, life, account, answer>>

NoAnswer == [count |-> -1]
Accounts == Sites \X Users

Init ==
    /\ status = [s \in Sites |-> [h \in Hours |-> "pending"]]
    /\ hourly = [s \in Sites |-> [h \in Hours |-> {}]]
    /\ daily = [s \in Sites |-> [d \in Days |-> {}]]
    /\ life \in [Sites -> {[start |-> 0, end |-> MaxHour], [start |-> 1, end |-> MaxHour], [start |-> 0, end |-> MaxHour - 1]}]
    /\ account \in [Accounts -> {[created |-> 0, paused |-> MaxHour], [created |-> 1, paused |-> MaxHour],
                                 [created |-> 0, paused |-> MaxHour - 1]}]
    /\ answer = NoAnswer

-----------------------------------------------------------------------------
Expected(s, h) == life[s].start <= h /\ h < life[s].end

(* The rebuild of a day's facts after a commit: the users of its complete    *)
(* hours.                                                                    *)
RebuildDay(stat, hour, s, d) ==
    UNION {hour[s][h] : h \in {x \in HoursOf(d) : stat[s][x] = "complete" /\ Expected(s, x)}}

(* The commit of an answer replaces the hour's facts, whatever the window    *)
(* was; an answer that contradicts itself makes it missing and leaves its    *)
(* facts where they are.  A failed request leaves a complete window alone.   *)
Commit(s, h, outcome, users) ==
    LET stat == [status EXCEPT ![s][h] = outcome]
        hour == IF outcome = "complete" THEN [hourly EXCEPT ![s][h] = users] ELSE hourly
    IN /\ answer = NoAnswer /\ Expected(s, h)
       /\ status' = stat /\ hourly' = hour
       /\ daily' = [daily EXCEPT ![s][DayOf(h)] = RebuildDay(stat, hour, s, DayOf(h))]
       /\ UNCHANGED <<life, account, answer>>

-----------------------------------------------------------------------------
(* The hours a part of the query reads from the hourly facts.                *)
Counted(s, h) == status[s][h] = "complete" /\ Expected(s, h)
HourlyIdentities(from, to) ==
    {<<s, u>> \in Accounts : \E h \in Hours : from <= h /\ h < to /\ Counted(s, h) /\ u \in hourly[s][h]}
DailyIdentities(from, to) ==
    {<<s, u>> \in Accounts : \E d \in Days : from <= d /\ d < to /\ u \in daily[s][d]}

Least(a, b) == IF a < b THEN a ELSE b
Greatest(a, b) == IF a > b THEN a ELSE b

(* statisticsHourlySummaryActiveQuery: the first midnight at or after the    *)
(* start, the last midnight at or before the end.                            *)
FullStartFloor(start) == DayOf(start)  \* Mutant: the day the range starts in counts as a whole day.
FullStart(start) == IF start % DayHours = 0 THEN DayOf(start) ELSE DayOf(start) + 1
FullEndCeil(end) == DayOf(end) + 1  \* Mutant: the day the range ends in counts as a whole day.
FullEnd(end) == DayOf(end)

HourlySummary(start, end) ==
    LET fs == FullStart(start)
        fe == FullEnd(end)
    IN HourlyIdentities(start, Least(end, fs * DayHours))
       \cup (IF fs < fe THEN DailyIdentities(fs, fe) ELSE {})
       \cup HourlyIdentities(Greatest(start, fe * DayHours), end)

(* The accounts of customers and accounts: created before the end of the     *)
(* hour, not yet paused.                                                     *)
AccountsCounted(from, to) ==
    {<<s, u>> \in Accounts :
        \E h \in Hours : /\ from <= h /\ h < to /\ Counted(s, h) /\ u \in hourly[s][h]
                         /\ account[<<s, u>>].created < h + 1 /\ h < account[<<s, u>>].paused}

(* statisticsActiveSource: which facts a scope and a granularity read.       *)
DailyForCustomers(scope, granularity, start, end) ==  \* Mutant: the day ranges of a customer read the daily facts.
    IF granularity = "hour" THEN IF scope = "customer" THEN AccountsCounted(start, end) ELSE HourlySummary(start, end)
    ELSE DailyIdentities(DayOf(start), DayOf(end))
statisticsActiveQuery(scope, granularity, start, end) ==
    CASE scope = "customer" -> AccountsCounted(start, end)
      [] granularity = "hour" -> HourlySummary(start, end)
      [] OTHER -> DailyIdentities(DayOf(start), DayOf(end))

ActiveUsersAdded(scope, granularity, start, end) ==  \* Mutant: the users of the hours are added up.
    Cardinality({<<a, h>> \in Accounts \X Hours : start <= h /\ h < end /\ Counted(a[1], h) /\ a[2] \in hourly[a[1]][h]})
ActiveUsers(scope, granularity, start, end) == Cardinality(statisticsActiveQuery(scope, granularity, start, end))

Aligned(granularity, t) == granularity = "hour" \/ t % DayHours = 0

Query(scope, granularity, start, end) ==
    /\ answer = NoAnswer /\ start < end
    /\ Aligned(granularity, start) /\ Aligned(granularity, end)
    /\ answer' = [scope |-> scope, start |-> start, end |-> end,
                  count |-> ActiveUsers(scope, granularity, start, end)]
    /\ UNCHANGED <<status, hourly, daily, life, account>>

Next ==
    \/ \E s \in Sites, h \in Hours : \E users \in SUBSET Users : Commit(s, h, "complete", users)
    \/ \E s \in Sites, h \in Hours : Commit(s, h, "missing", {})
    \/ \E scope \in Scopes, granularity \in Granularities : \E start, end \in 0 .. MaxHour :
          Query(scope, granularity, start, end)

Spec == Init /\ [][Next]_activeVars

-----------------------------------------------------------------------------
(* Every variable keeps its type. *)
TypeOK ==
    /\ status \in [Sites -> [Hours -> {"pending", "complete", "missing"}]]
    /\ hourly \in [Sites -> [Hours -> SUBSET Users]]
    /\ daily \in [Sites -> [Days -> SUBSET Users]]
    /\ answer = NoAnswer \/ answer.count \in 0 .. Cardinality(Accounts)

(* What the number means: the users with a fact in a complete hour of the    *)
(* range, for a customer those whose account counts in that hour.            *)
ActiveIn(s, u, h) == status[s][h] = "complete" /\ u \in hourly[s][h]
Reference(scope, start, end) ==
    {<<s, u>> \in Accounts : \E h \in start .. end - 1 :
        /\ ActiveIn(s, u, h)
        /\ scope = "customer" => h >= account[<<s, u>>].created /\ h < account[<<s, u>>].paused}

(* The active users of a range are counted exactly once each, at whatever    *)
(* hours the range starts and ends: no hour is read twice, missed or taken   *)
(* from a day the range only touches.                                        *)
SummaryIsExact ==
    answer # NoAnswer =>
        answer.count = Cardinality(Reference(answer.scope, answer.start, answer.end))
=============================================================================
