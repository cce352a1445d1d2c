---------------------------- MODULE LocalRanking ----------------------------
(* The ranking of models and vendors by their tokens: the natural period and  *)
(* the stretch before it that it is compared with, the rows of the two, the   *)
(* movers and droppers, and how complete the period is (sources:              *)
(* service/local_ranking.go, model/local_ranking.go).  All reads of a query   *)
(* share one read-only snapshot.                                              *)
EXTENDS Integers, FiniteSets, Sequences, SequencesExt, FiniteSetsExt

CONSTANTS Sites,       \* the active sites
          Dimensions,  \* the models or vendors, numbered
          HourTicks,   \* clock ticks per hour
          DayHours,    \* hours per day
          Weekday0,    \* time.Weekday of day 0
          MaxHour,     \* bound on the hours
          MaxTokens,   \* bound on the tokens of a fact
          StatisticsStart  \* the hour a site's statistics start in, per site

LocalRankingAssumption ==
    /\ Dimensions \subseteq Nat /\ HourTicks \in Nat \ {0} /\ DayHours \in Nat \ {0}
    /\ Weekday0 \in 0 .. 6 /\ MaxHour \in Nat /\ MaxTokens \in Nat
    /\ StatisticsStart \in [Sites -> Nat]

Hours == 0 .. MaxHour - 1
Periods == {"today", "week"}

VARIABLES now,     \* the clock, in ticks
          window,  \* the status of a site's hours
          fact,    \* the tokens of a dimension in a site's hour
          answer   \* the answer to the last query

rankingVars == <<now, window, fact, answer>>

NoAnswer == [period |-> "none"]

(* No collection writes "unavailable"; the rows of the table may hold it.    *)
Init ==
    /\ now = 0
    /\ window \in [Sites -> {w \in [Hours -> {"absent", "unavailable"}] : Cardinality({h \in Hours : w[h] # "absent"}) <= 1}]
    /\ fact = [s \in Sites |-> [h \in Hours |-> [d \in Dimensions |-> 0]]]
    /\ answer = NoAnswer

-----------------------------------------------------------------------------
(* The collection of a closed hour of a site, once or again; hours before    *)
(* the start of a site's statistics are never collected.  An answer that     *)
(* contradicts itself makes the hour missing and leaves its facts in place.  *)
Closed(h) == (h + 1) * HourTicks <= now

Collect(s, h) ==
    /\ Closed(h) /\ h >= StatisticsStart[s] /\ answer = NoAnswer
    /\ \/ /\ window' = [window EXCEPT ![s][h] = "complete"]
          /\ \E f \in [Dimensions -> 0 .. MaxTokens] : fact' = [fact EXCEPT ![s][h] = f]
       \/ /\ window' = [window EXCEPT ![s][h] = "missing"]
          /\ UNCHANGED fact
    /\ UNCHANGED <<now, answer>>

TickPastEnd == answer = NoAnswer /\ now' = now + 2 /\ UNCHANGED <<window, fact, answer>>  \* Mutant: the clock jumps.
Tick == now < MaxHour * HourTicks /\ answer = NoAnswer /\ now' = now + 1 /\ UNCHANGED <<window, fact, answer>>

-----------------------------------------------------------------------------
(* rankingWindow: the natural day or week that contains now, and a stretch   *)
(* of the same length before it.                                             *)
DayTicks == DayHours * HourTicks
DayOf(t) == t \div DayTicks
Weekday(day) == (Weekday0 + day) % 7
WeekFromSunday(t, period) ==  \* Mutant: a week starts on Sunday.
    LET day == IF period = "today" THEN DayOf(t) ELSE DayOf(t) - Weekday(DayOf(t))
    IN [start |-> day * DayTicks, end |-> t, prior |-> day * DayTicks - (t - day * DayTicks)]
PriorWholePeriod(t, period) ==  \* Mutant: the stretch before is a whole day or week.
    LET day == IF period = "today" THEN DayOf(t) ELSE DayOf(t) - ((Weekday(DayOf(t)) + 6) % 7)
    IN [start |-> day * DayTicks, end |-> t,
        prior |-> (day - (IF period = "today" THEN 1 ELSE 7)) * DayTicks]
rankingWindow(t, period) ==
    LET day == IF period = "today" THEN DayOf(t) ELSE DayOf(t) - ((Weekday(DayOf(t)) + 6) % 7)
    IN [start |-> day * DayTicks, end |-> t, prior |-> day * DayTicks - (t - day * DayTicks)]

HoursIn(from, to) == {h \in Hours : h * HourTicks >= from /\ h * HourTicks < to}
Current(w) == HoursIn(w.start, w.end)
Previous(w) == HoursIn(w.prior, w.start)

(* Rows: the tokens of a dimension in the two stretches; rows without any    *)
(* are left out, the others come by tokens and then by dimension.            *)
Tokens(d, S, H) == MapThenSumSet(LAMBDA p : fact[p[1]][p[2]][d], S \X H)
Row(d, w) == [id |-> d, tokens |-> Tokens(d, Sites, Current(w)), previous |-> Tokens(d, Sites, Previous(w))]
Rows(w) ==
    SortSeq(SetToSeq({r \in {Row(d, w) : d \in Dimensions} : r.tokens > 0 \/ r.previous > 0}),
            LAMBDA a, b : a.tokens > b.tokens \/ (a.tokens = b.tokens /\ a.id < b.id))

(* The growth is a fraction of the stretch before; there is none without it. *)
movementType(r) ==
    CASE r.tokens > 0 /\ r.previous = 0 -> "new"
      [] r.tokens = 0 /\ r.previous > 0 -> "removed"
      [] r.tokens > r.previous -> "up"
      [] r.tokens < r.previous -> "down"
      [] OTHER -> "stable"

(* a grew more than b: (a.tokens - a.previous) / a.previous is larger.       *)
GrewMore(a, b) == (a.tokens - a.previous) * b.previous > (b.tokens - b.previous) * a.previous

(* compareGrowth: new comes before every growth and removed after it; among  *)
(* the new, and among the removed, the smaller dimension counts as more.     *)
compareGrowth(a, b) ==
    LET ma == movementType(a)  mb == movementType(b)
    IN CASE ma = mb /\ ma \in {"new", "removed"} -> IF a.id < b.id THEN 1 ELSE IF a.id > b.id THEN -1 ELSE 0
         [] ma = "new" \/ mb = "removed" -> 1
         [] mb = "new" \/ ma = "removed" -> -1
         [] OTHER -> IF GrewMore(a, b) THEN 1 ELSE IF GrewMore(b, a) THEN -1 ELSE 0

MoversWithGrowth(rows) ==  \* Mutant: only a row with a growth can move.
    SortSeq(SelectSeq(rows, LAMBDA r : movementType(r) = "up"), LAMBDA a, b : compareGrowth(a, b) > 0)
Movers(rows) ==
    SortSeq(SelectSeq(rows, LAMBDA r : movementType(r) \in {"new", "up"}), LAMBDA a, b : compareGrowth(a, b) > 0)
DroppersAscending(rows) ==  \* Mutant: the droppers are ordered like the movers.
    SortSeq(SelectSeq(rows, LAMBDA r : movementType(r) \in {"removed", "down"}), LAMBDA a, b : compareGrowth(a, b) > 0)
Droppers(rows) ==
    SortSeq(SelectSeq(rows, LAMBDA r : movementType(r) \in {"removed", "down"}), LAMBDA a, b : compareGrowth(a, b) < 0)

(* Completeness and rankingCompletenessStatus: the windows of a site in the  *)
(* period against its closed hours, whenever the site's statistics started.  *)
CountOf(s, w, status) == Cardinality({h \in Current(w) : window[s][h] = status})
ExpectedHours(w) == ((w.end - (w.end % HourTicks)) - w.start) \div HourTicks

PartialNever(s, w) ==  \* Mutant: some complete hours are enough.
    IF ExpectedHours(w) <= 0 THEN "pending"
    ELSE IF CountOf(s, w, "complete") > 0 THEN "complete" ELSE "pending"
rankingCompletenessStatus(s, w) ==
    LET complete == CountOf(s, w, "complete")
    IN CASE ExpectedHours(w) <= 0 -> "pending"
         [] complete >= ExpectedHours(w) -> "complete"
         [] complete > 0 -> "partial"
         [] CountOf(s, w, "unavailable") > 0 -> "unavailable"
         [] CountOf(s, w, "missing") > 0 -> "missing"
         [] OTHER -> "pending"

Overall(status) ==
    LET S == {status[s] : s \in Sites}
    IN IF Sites = {} THEN "pending"
       ELSE IF Cardinality(S) = 1 /\ S # {"partial"} THEN CHOOSE x \in S : TRUE ELSE "partial"

AsOf(w) ==
    LET done == {h \in Current(w) : \E s \in Sites : window[s][h] = "complete"}
    IN IF done = {} THEN 0 ELSE (Max(done) + 1) * HourTicks

Query(period) ==
    /\ answer = NoAnswer
    /\ \E w \in {rankingWindow(now, period)} : \E rows \in {Rows(w)} :
         \E status \in {[s \in Sites |-> rankingCompletenessStatus(s, w)]} :
           answer' = [period |-> period, window |-> w,
                      items |-> SelectSeq(rows, LAMBDA r : r.tokens > 0),
                      movers |-> Movers(rows), droppers |-> Droppers(rows),
                      status |-> Overall(status), asOf |-> AsOf(w)]
    /\ UNCHANGED <<now, window, fact>>

Next ==
    \/ Tick
    \/ \E s \in Sites, h \in Hours : Collect(s, h)
    \/ \E period \in Periods : Query(period)

Spec == Init /\ [][Next]_rankingVars

-----------------------------------------------------------------------------
(* Every variable keeps its type. *)
TypeOK ==
    /\ now \in 0 .. MaxHour * HourTicks
    /\ window \in [Sites -> [Hours -> {"absent", "complete", "missing", "unavailable"}]]
    /\ fact \in [Sites -> [Hours -> [Dimensions -> 0 .. MaxTokens]]]
    /\ answer = NoAnswer \/ answer.period \in Periods

Asked == answer # NoAnswer

(* The closed hours of the period are compared with as many hours before it, *)
(* also when the query comes in the middle of an hour; a week starts on a    *)
(* Monday and no more than six days before the day of the query.             *)
PeriodsComparable ==
    Asked =>
        LET w == answer.window
            closed == {h \in Hours : h * HourTicks >= w.start /\ (h + 1) * HourTicks <= w.end}
            before == {k \in 0 .. 2 * MaxHour : w.start - (k + 1) * HourTicks >= w.prior}
        IN /\ Cardinality(closed) = Cardinality(before)
           /\ answer.period = "week" =>
                 /\ Weekday(w.start \div DayTicks) = 1
                 /\ DayOf(w.end) - (w.start \div DayTicks) \in 0 .. 6

Ids(q) == {r.id : r \in ToSet(q)}
UsedIn(d, H) == \E s \in Sites, h \in H : fact[s][h][d] > 0

(* A dimension used now and not before is a mover, one used before and not   *)
(* now a dropper, and none is both; the items are the dimensions used now.   *)
MoversAreNewOrUp ==
    Asked =>
        LET w == answer.window
        IN \A d \in Dimensions :
              LET cur == UsedIn(d, Current(w))  old == UsedIn(d, Previous(w))
              IN /\ cur /\ ~old => d \in Ids(answer.movers)
                 /\ ~cur /\ old => d \in Ids(answer.droppers)
                 /\ ~(d \in Ids(answer.movers) /\ d \in Ids(answer.droppers))
                 /\ (d \in Ids(answer.items)) = cur

Ordered(q, Before(_, _)) == \A i, j \in 1 .. Len(q) : i < j => ~Before(q[j], q[i])

(* The larger a change, the earlier it is listed: no mover grew less than    *)
(* the one after it, no dropper lost less, whether or not there is a growth  *)
(* to compare.                                                               *)
LargestChangeFirst ==
    Asked =>
        /\ Ordered(answer.movers, LAMBDA a, b : (a.previous = 0 /\ b.previous > 0) \/ GrewMore(a, b))
        /\ Ordered(answer.droppers, LAMBDA a, b : GrewMore(b, a))

(* The ranking is called complete only when every site has collected every   *)
(* closed hour of the period.                                                *)
CompleteMeansCollected ==
    Asked /\ answer.status = "complete" =>
        \A s \in Sites, h \in Hours :
            h * HourTicks >= answer.window.start /\ (h + 1) * HourTicks <= answer.window.end
                => window[s][h] = "complete"

(* The period is complete when every hour a site is expected to report has   *)
(* been collected.                                                           *)
ExpectedHoursSuffice ==
    LET w == answer.window
        due(s) == {h \in Hours : /\ h * HourTicks >= w.start /\ (h + 1) * HourTicks <= w.end
                                 /\ h >= StatisticsStart[s]}
    IN Asked /\ (\A s \in Sites : due(s) # {} /\ \A h \in due(s) : window[s][h] = "complete")
           => answer.status = "complete"
=============================================================================
