----------------------------- MODULE PagedSync -----------------------------
(***************************************************************************)
(* The lists of a site that are read page by page, newest id first, while  *)
(* the upstream goes on changing: users, channels, topups and redemptions. *)
(* A round reads its checkpoint, reads pages, checks a fence and commits.  *)
(* Topups and redemptions have short rounds between the complete ones.     *)
(* Ids of the upstream grow and are never used again.                      *)
(***************************************************************************)
EXTENDS Naturals, FiniteSets, FiniteSetsExt, Functions

CONSTANTS Kinds,        \* the lists read in this run
          MaxId,        \* bound on the ids of the upstream
          PageSize,     \* upstreamPageSize
          Cap,          \* 100000: more than this is refused
          Changes,      \* the statuses an order may change to upstream
          MaxConfig,    \* bound on config_version
          MaxFails      \* bound on requests that fail

PagedAssumption ==
  /\ Kinds \subseteq {"user", "channel", "topup", "redemption"}
  /\ Changes \subseteq {"open", "off", "done"}   \* pending or enabled; disabled; finished for good
  /\ PageSize \in Nat \ {0} /\ {MaxId, Cap, MaxConfig, MaxFails} \subseteq Nat

VARIABLES kind,      \* which of the lists
          up, next,  \* the upstream: id -> status, and the next id
          rows,      \* the rows of the list in the database
          state,     \* the collection state of the list
          config,    \* site.config_version
          round,     \* the round under way
          fails,     \* requests that failed
          proved     \* history: the configuration of the last complete round
vars == <<kind, up, next, rows, state, config, round, fails, proved>>

Ids == 1..MaxId
Total == Cardinality(DOMAIN up)
FirstId == IF up = <<>> THEN 0 ELSE Max(DOMAIN up)

(***************************************************************************)
(* One page: the ids whose rank, newest first, falls on it.  What the      *)
(* validators of users and channels let through is such a page.            *)
(***************************************************************************)
Page(p) == LET Rank(id) == Cardinality({j \in DOMAIN up : j >= id})
           IN  {id \in DOMAIN up : Rank(id) \in ((p - 1) * PageSize + 1)..(p * PageSize)}
listUsersPage(p) == Page(p)
listChannelsPage(p) == Page(p)
listTopupsPage(p) == Page(p)
listRedemptionsPage(p) == Page(p)
List(p) == CASE kind = "user" -> listUsersPage(p)
             [] kind = "channel" -> listChannelsPage(p)
             [] kind = "topup" -> listTopupsPage(p)
             [] kind = "redemption" -> listRedemptionsPage(p)

NoRow == [state |-> "none", status |-> "open"]
NoState == [config |-> 0, total |-> 0, max |-> 0, full |-> FALSE, due |-> FALSE]
Idle == [pc |-> "idle"]
NormalOpen == {id \in Ids : rows[id].state = "normal" /\ rows[id].status = "open"}
OldestPendingTopupID == IF NormalOpen = {} THEN 0 ELSE Min(NormalOpen)
EnabledRedemptionIDs == NormalOpen

Init ==
  /\ kind \in Kinds
  /\ \E ids \in SUBSET {1, 2} : up = [id \in ids |-> "open"]
  /\ next = 3
  /\ rows = [id \in Ids |-> NoRow] /\ state = NoState
  /\ config = 1 /\ round = Idle /\ fails = 0 /\ proved = 0

(***************************************************************************)
(* The upstream and the operator.                                          *)
(***************************************************************************)
Insert == /\ next <= MaxId /\ next' = next + 1
          /\ up' = [id \in DOMAIN up \cup {next} |-> IF id = next THEN "open" ELSE up[id]]
          /\ UNCHANGED <<kind, rows, state, config, round, fails, proved>>
Delete(id) == /\ id \in DOMAIN up /\ kind # "topup"
              /\ up' = Restrict(up, DOMAIN up \ {id})
              /\ UNCHANGED <<kind, next, rows, state, config, round, fails, proved>>
SetStatus(id, s) == /\ id \in DOMAIN up /\ up[id] \notin {s, "done"}
                    /\ \/ kind = "topup" /\ s = "done"
                       \/ kind = "redemption"
                    /\ up' = [up EXCEPT ![id] = s]
                    /\ UNCHANGED <<kind, next, rows, state, config, round, fails, proved>>
Reconfigure == /\ config < MaxConfig /\ config' = config + 1
               /\ UNCHANGED <<kind, up, next, rows, state, round, fails, proved>>
\* 24 hours pass since the last complete round.
DayPasses == /\ state.full /\ ~ state.due /\ state' = [state EXCEPT !.due = TRUE]
             /\ UNCHANGED <<kind, up, next, rows, config, round, fails, proved>>

(***************************************************************************)
(* executePeriodic...: the checkpoint decides between a complete and a     *)
(* short round.                                                            *)
(***************************************************************************)
Short == {"topup", "redemption"}
FullRound == kind \notin Short \/ state.config # config \/ ~ state.full \/ state.due

Begin ==
  /\ round.pc = "idle"
  /\ round' = [pc |-> "first", config |-> config, complete |-> FullRound,
               knownMax |-> state.max, knownTotal |-> state.total,
               oldest |-> IF kind = "topup" THEN OldestPendingTopupID ELSE 0,
               enabled |-> IF kind = "redemption" THEN EnabledRedemptionIDs ELSE {},
               total |-> 0, first |-> 0, items |-> <<>>, head |-> <<>>, page |-> 0,
               began |-> up, fenced |-> {}]
  /\ UNCHANGED <<kind, up, next, rows, state, config, fails, proved>>

(***************************************************************************)
(* MarkFinanceCollectionFailure after any error of the snapshot, and only  *)
(* under the configuration of the round.  It also moves config_version.    *)
(***************************************************************************)
MarkFinanceCollectionFailure ==
  IF kind \in Short /\ config = round.config THEN [state EXCEPT !.config = config] ELSE state
Abort == /\ round' = Idle /\ state' = MarkFinanceCollectionFailure
         /\ UNCHANGED <<kind, up, next, rows, config, proved>>

\* A request fails, or its page is refused (validateTopupPage, validateRedemptionPage), or
\* the worker stops: the round is given up.
RequestFails == /\ round.pc \in {"first", "pages", "details", "fence"} /\ fails < MaxFails
                /\ fails' = fails + 1 /\ Abort
WorkerStops == /\ round.pc # "idle" /\ fails < MaxFails /\ fails' = fails + 1
               /\ round' = Idle /\ UNCHANGED <<kind, up, next, rows, state, config, proved>>

(***************************************************************************)
(* What a round does once a page is in: `r' already holds the page.        *)
(***************************************************************************)
Fetched(r) == DOMAIN r.items
Goto(r, pc) == [r EXCEPT !.pc = pc]
Bad(r) == Goto(r, "bad")
TotalPages(total) == (total + PageSize - 1) \div PageSize

\* collectTopups, collectRedemptions, SnapshotUsers, SnapshotChannels
Complete(r) == IF Cardinality(Fetched(r)) < r.total THEN Goto(r, "pages")
               ELSE IF Cardinality(Fetched(r)) = r.total THEN Goto(r, "fence") ELSE Bad(r)

\* Mutants: the head page is taken to reach the watermark; pending orders are not waited for.
ReachedAtOnce(r) == Fetched(r) # {}
Reached(r) == \E id \in Fetched(r) : id <= r.knownMax
ReachedPendingNever(r) == TRUE
ReachedPending(r) == r.oldest = 0 \/ \E id \in Fetched(r) : id <= r.oldest

SnapshotTopupsIncremental(r) ==
  IF Reached(r) /\ ReachedPending(r) THEN Goto(r, "fence")
  ELSE Complete([r EXCEPT !.complete = Cardinality(Fetched(r)) >= r.total])

\* Few enabled codes are asked for one by one; many are cheaper as the remaining pages.
UnseenEnabledNone(r) == {}
UnseenEnabled(r) == r.enabled \ Fetched(r)
SnapshotRedemptionsIncremental(r) ==
  IF ~ Reached(r) \/ Cardinality(Fetched(r)) = r.total
  THEN Complete([r EXCEPT !.complete = Cardinality(Fetched(r)) >= r.total])
  ELSE IF TotalPages(r.total) <= r.page THEN Bad(r)
  ELSE IF Cardinality(UnseenEnabled(r)) > TotalPages(r.total) - r.page
       THEN Goto([r EXCEPT !.complete = TRUE], "pages")
       ELSE Goto(r, IF UnseenEnabled(r) = {} THEN "fence" ELSE "details")

After(r) == IF r.complete THEN Complete(r)
            ELSE IF kind = "topup" THEN SnapshotTopupsIncremental(r)
            ELSE SnapshotRedemptionsIncremental(r)
Continue(r) == IF r.pc = "bad" THEN Abort /\ UNCHANGED fails
               ELSE round' = r /\ UNCHANGED <<kind, up, next, rows, state, config, fails, proved>>

\* The first page.  A watermark that is lost, or a total that fell, makes the round complete.
ReadFirst ==
  /\ round.pc = "first"
  /\ LET page == Restrict(up, List(1))
         r == [round EXCEPT !.total = Total, !.first = FirstId, !.items = page, !.head = page, !.page = 1,
                            !.complete = @ \/ round.knownMax = 0 \/ round.knownTotal = 0
                                           \/ Total < round.knownTotal]
     IN  Continue(IF Total > Cap \/ (Total = 0 /\ kind = "user") THEN Bad(r)
                  ELSE IF Total = 0 THEN Goto(r, "fence") ELSE After(r))

\* appendUnique: the total stands and ids go on falling.
Accepts(r, ids) == /\ Total = r.total /\ ids # {}
                   /\ Max(ids) < Min(Fetched(r))
                   /\ Cardinality(Fetched(r) \cup ids) <= r.total
ReadPage ==
  /\ round.pc = "pages"
  /\ LET ids == List(round.page + 1)
         r == [round EXCEPT !.page = @ + 1,
                            !.items = [id \in Fetched(round) \cup ids |->
                                         IF id \in ids THEN up[id] ELSE round.items[id]]]
     IN  Continue(IF Accepts(round, ids) THEN After(r) ELSE Bad(r))

\* redemptionByID: an answer that cannot be trusted sends the round back to the pages after its first.
RedemptionByID(id) ==
  /\ round.pc = "details" /\ id \in UnseenEnabled(round)
  /\ LET r == [round EXCEPT !.items = [j \in Fetched(round) \cup {id} |-> IF j = id THEN up[id] ELSE round.items[j]]]
     IN  \/ id \in DOMAIN up /\ Continue(Goto(r, IF UnseenEnabled(r) = {} THEN "fence" ELSE "details"))
         \/ /\ id \notin DOMAIN up \/ fails < MaxFails
            /\ LET back == Complete([round EXCEPT !.complete = TRUE, !.items = round.head, !.page = 1])
               IN  /\ round' = back
                   /\ fails' = IF id \in DOMAIN up THEN fails + 1 ELSE fails
                   /\ UNCHANGED <<kind, up, next, rows, state, config, proved>>

\* The first page once more: same total, same newest id.
FenceHoldsByTotal(r) == Total = r.total
FenceHolds(r) == Total = r.total /\ FirstId = r.first
ReadFence ==
  /\ round.pc = "fence"
  /\ Continue(IF FenceHolds(round) THEN [round EXCEPT !.pc = "commit", !.fenced = DOMAIN up] ELSE Bad(round))

(***************************************************************************)
(* The commit: SyncTopups, SyncRedemptions, SyncChannels, SyncUsers.  Only *)
(* a complete round says what is missing.                                  *)
(***************************************************************************)
ValidatePeriodicCommit == config = round.config
ValidSnapshot(r) == IF r.complete THEN Cardinality(Fetched(r)) = r.total
                    ELSE Fetched(r) # {} /\ Cardinality(Fetched(r)) <= r.total
Observed(id) == [state |-> "normal", status |-> round.items[id]]
\* A row that a complete round did not meet, as for the inventory of channels.
Absent(id) == [rows[id] EXCEPT !.state = "missing"]
SyncRows == [id \in Ids |-> IF id \in Fetched(round) THEN Observed(id)
                            ELSE IF round.complete /\ rows[id].state # "none"
                            THEN Absent(id) ELSE rows[id]]
SyncState == [config |-> config, total |-> round.total, max |-> round.first,
              full |-> state.full \/ round.complete, due |-> state.due /\ ~ round.complete]

Commit ==
  /\ round.pc = "commit" /\ round' = Idle
  /\ IF ValidatePeriodicCommit /\ ValidSnapshot(round)
     THEN /\ rows' = SyncRows /\ state' = SyncState
          /\ proved' = IF round.complete THEN config ELSE proved
     ELSE UNCHANGED <<rows, state, proved>>
  /\ UNCHANGED <<kind, up, next, config, fails>>

RoundStep == ReadFirst \/ ReadPage \/ (\E id \in Ids : RedemptionByID(id)) \/ ReadFence \/ Commit
Next == \/ Begin \/ RoundStep \/ RequestFails \/ WorkerStops
        \/ Insert \/ Reconfigure \/ DayPasses
        \/ \E id \in Ids : Delete(id) \/ \E s \in Changes : SetStatus(id, s)

Spec == Init /\ [][Next]_vars

----------------------------------------------------------------------------
(***************************************************************************)
(* Properties.                                                             *)
(***************************************************************************)

(* What a complete round is about to commit is the list as the upstream    *)
(* had it at the fence, whatever was inserted or deleted between the pages *)
(* (the comparison of total and newest id in collectTopups and the like).  *)
SnapshotIsTruth == round.pc = "commit" /\ round.complete => Fetched(round) = round.fenced

(* A row that is marked missing is gone from the upstream: neither a short *)
(* round nor a torn one takes a living order for deleted (SyncTopups).     *)
MissingIsGone == \A id \in Ids : rows[id].state = "missing" => id \notin DOMAIN up

Committed == Commit /\ ValidatePeriodicCommit /\ ValidSnapshot(round)

(* After a round commits, complete or short, the database has every entry  *)
(* that the upstream held when the round began and still holds.            *)
CommitCoversStep ==
     Committed => \A id \in DOMAIN round.began \cap DOMAIN up : rows'[id].state = "normal"
CommitCovers == [][CommitCoversStep]_vars

(* A round leaves no order open that was finished upstream before it began:*)
(* topups read down to the oldest pending order, redemptions ask for every *)
(* enabled code they did not meet (SnapshotRedemptionsIncremental).        *)
OpenConvergesStep ==
     Committed => \A id \in DOMAIN round.began \cap DOMAIN up :
                     round.began[id] = "done" => rows'[id].status # "open"
OpenConverges == [][OpenConvergesStep]_vars

(* last_full_success_at under the current config_version proves a complete *)
(* round under that configuration.                                         *)
FullProvesConfig == state.full /\ state.config = config => proved = config

(***************************************************************************)
(* Once the upstream, the operator and the failures rest, the database     *)
(* shows the upstream: what short rounds cannot see, the daily one does.   *)
(* The scheduler starts a round per interval, a started round goes on.     *)
(***************************************************************************)
FairSpec == Spec /\ WF_vars(Begin) /\ WF_vars(RoundStep) /\ WF_vars(DayPasses)
Shown == \A id \in Ids :
           IF id \in DOMAIN up THEN rows[id] = [state |-> "normal", status |-> up[id]]
           ELSE rows[id].state # "normal"
Refused == Total > Cap \/ (Total = 0 /\ kind = "user")
Rest == UNCHANGED <<up, config, fails>>
Converges == <>[][Rest]_vars => <>[](Shown \/ Refused)
=============================================================================
