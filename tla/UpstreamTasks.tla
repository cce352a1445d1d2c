--------------------------- MODULE UpstreamTasks ---------------------------
(***************************************************************************)
(* Collection of the asynchronous tasks of one upstream                    *)
(* (upstream_task_sync).  The upstream has no updated-since cursor: a      *)
(* round reads the tasks submitted in an overlap window, page by page,     *)
(* and asks for every task known as unfinished by its id.  A round that    *)
(* lost its lease may commit after its successor.  Time is in hours; a     *)
(* round that the configuration fence stops counts as one that failed.     *)
(***************************************************************************)
EXTENDS Naturals, Sequences, FiniteSets, FiniteSetsExt

CONSTANTS MaxTask,     \* bound on tasks created upstream
          Rounds,
          MaxHour,     \* bound on the clock
          Back,        \* hours behind the last success (1)
          Cap,         \* hours of a window at most (6)
          Retention,   \* task.retention_days, in hours
          StartHour,   \* site.statistics_start_at
          PageSize,
          Late,        \* hours a task may become visible after its submission
          MaxGap,      \* hours without a success at most
          Instant      \* whether a task may finish in the hour of its last update

UpstreamTaskAssumption ==
  /\ {MaxTask, MaxHour, Late, MaxGap} \subseteq Nat
  /\ {Back, Cap, Retention, PageSize, StartHour} \subseteq Nat \ {0}
  /\ Late <= Back /\ MaxGap + Back <= Cap /\ Instant \in BOOLEAN

VARIABLES hour,
          remote,   \* the tasks upstream, by id
          visible,  \* id -> the hour the task became visible (history)
          rows,     \* id -> site_upstream_task
          state,    \* site_upstream_task_collection_state
          round     \* round -> the round under way
vars == <<hour, remote, visible, rows, state, round>>

Nil == 0
Idle == [pc |-> "idle"]
Monus(a, b) == IF a > b THEN a - b ELSE 0
Later(a, b) == IF a > b THEN a ELSE b

Init == /\ hour = StartHour + 1 /\ remote = <<>> /\ visible = <<>> /\ rows = <<>>
        /\ state = [success |-> Nil, backfilled |-> FALSE]
        /\ round = [r \in Rounds |-> Idle]

----------------------------------------------------------------------------
(***************************************************************************)
(* The upstream and the clock.                                             *)
(***************************************************************************)
Create(submit) ==
  /\ Len(remote) < MaxTask
  /\ remote' = Append(remote, [submit |-> submit, updated |-> hour, finish |-> 0, status |-> "open"])
  /\ visible' = Append(visible, hour)
  /\ UNCHANGED <<hour, rows, state, round>>
Finish(id) ==
  /\ remote[id].status = "open" /\ (Instant \/ remote[id].updated < hour)
  /\ remote' = [remote EXCEPT ![id].status = "done", ![id].updated = hour, ![id].finish = hour]
  /\ UNCHANGED <<hour, visible, rows, state, round>>
\* Neither a gap between successes nor a round lasts longer than MaxGap.
Tick == /\ hour < MaxHour /\ (state.backfilled => hour < state.success + MaxGap)
        /\ \A r \in Rounds : round[r] # Idle => hour < round[r].at + MaxGap
        /\ hour' = hour + 1 /\ UNCHANGED <<remote, visible, rows, state, round>>

----------------------------------------------------------------------------
(***************************************************************************)
(* executePeriodicUpstreamTasks.                                           *)
(***************************************************************************)
Unfinished == {id \in DOMAIN rows : rows[id].status # "done"}

\* The start of the window: the retention until a backfill succeeded, then
\* an hour behind the last success and six hours at most.
Overlap ==
  LET start == IF ~state.backfilled THEN Monus(hour, Retention)
               ELSE Later(Monus(hour, Cap), Monus(state.success, Back))
  IN  Later(start, StartHour)

Begin(r) ==
  /\ round[r] = Idle /\ Overlap < hour
  /\ round' = [round EXCEPT ![r] =
       [pc |-> "page", at |-> hour, start |-> Overlap, backfill |-> ~state.backfilled,
        ask |-> Unfinished, page |-> 1, total |-> 0, got |-> <<>>]]
  /\ UNCHANGED <<hour, remote, visible, rows, state>>

Listed(r) == {id \in DOMAIN remote : remote[id].submit \in round[r].start..round[r].at}
PageOf(r, p) == {id \in Listed(r) : Cardinality({k \in Listed(r) : k > id}) \div PageSize = p - 1}
Read(ids) == [id \in ids |-> remote[id]]
Merge(f, g) == [id \in DOMAIN f \cup DOMAIN g |-> IF id \in DOMAIN f THEN f[id] ELSE g[id]]

\* The rows of a page come after those of the page before.
PageFollows(r, page) == round[r].page > 1 => Max(page) < Min(DOMAIN round[r].got)

\* collectTaskQuery: the pages of the window; a total that changes, an empty
\* page and a row out of order end the round.
Page(r) ==
  /\ round[r].pc = "page"
  /\ LET page == PageOf(r, round[r].page)
         total == IF round[r].page = 1 THEN Cardinality(Listed(r)) ELSE round[r].total
         got == Merge(round[r].got, Read(page))
     IN  round' = [round EXCEPT ![r] =
           IF total # Cardinality(Listed(r)) \/ (total > 0 /\ (page = {} \/ ~PageFollows(r, page)))
           THEN Idle
           ELSE [@ EXCEPT !.pc = IF Cardinality(DOMAIN got) >= total THEN "fence" ELSE "page",
                          !.page = @ + 1, !.total = total, !.got = got]]
  /\ UNCHANGED <<hour, remote, visible, rows, state>>

FenceHolds(r) ==
  /\ Cardinality(Listed(r)) = round[r].total
  /\ round[r].total > 0 => Max(PageOf(r, 1)) = Max(DOMAIN round[r].got)
Fence(r) ==
  /\ round[r].pc = "fence"
  /\ round' = [round EXCEPT ![r] = IF FenceHolds(r) THEN [@ EXCEPT !.pc = "ask"] ELSE Idle]
  /\ UNCHANGED <<hour, remote, visible, rows, state>>

\* SnapshotUpstreamTasks: the answer replaces a row of the window it is newer than.
Fresher(r, id) == id \in DOMAIN round[r].got => remote[id].updated > round[r].got[id].updated
Ask(r, id) ==
  /\ round[r].pc = "ask" /\ round[r].ask # {} /\ id = Min(round[r].ask)
  /\ round' = [round EXCEPT ![r].ask = @ \ {id},
                            ![r].got = IF Fresher(r, id) THEN Merge(Read({id}), @) ELSE @]
  /\ UNCHANGED <<hour, remote, visible, rows, state>>

Fail(r) ==
  /\ round[r] # Idle /\ round' = [round EXCEPT ![r] = Idle]
  /\ UNCHANGED <<hour, remote, visible, rows, state>>

\* Mutant: the rows are replaced by what was read.
KeepsNone(old, item) == FALSE
\* SyncUpstreamTasks: an older item and an equal one leave the row alone.
Keeps(old, item) == item.updated < old.updated \/ item = old
SyncUpstreamTasks(got) ==
  [id \in DOMAIN rows \cup DOMAIN got |->
     IF id \notin DOMAIN got THEN rows[id]
     ELSE IF id \in DOMAIN rows /\ Keeps(rows[id], got[id]) THEN rows[id] ELSE got[id]]

\* DeleteTerminalUpstreamTasksBefore.
Expired(row, at) == row.status = "done" /\ row.finish > 0 /\ row.finish < Monus(at, Retention)
Kept(f, at) == [id \in {k \in DOMAIN f : ~Expired(f[k], at)} |-> f[id]]

Commit(r) ==
  /\ round[r].pc = "ask" /\ round[r].ask = {}
  /\ rows' = Kept(SyncUpstreamTasks(round[r].got), round[r].at)
  /\ state' = [success |-> round[r].at, backfilled |-> state.backfilled \/ round[r].backfill]
  /\ round' = [round EXCEPT ![r] = Idle]
  /\ UNCHANGED <<hour, remote, visible>>

Next ==
  \/ \E submit \in Monus(hour, Late)..hour : Create(submit)
  \/ \E id \in DOMAIN remote : Finish(id)
  \/ \E r \in Rounds : \/ Begin(r) \/ Page(r) \/ Fence(r) \/ Fail(r) \/ Commit(r)
                       \/ \E id \in DOMAIN rows : Ask(r, id)
  \/ Tick
Spec == Init /\ [][Next]_vars

\* A period opens a round again and again, and an upstream that is asked for
\* the same again and again answers.
FairSpec ==
  /\ Spec
  /\ \A r \in Rounds :
       /\ WF_vars(Begin(r)) /\ SF_vars(Fence(r)) /\ SF_vars(Commit(r))
       /\ \A n \in 1..MaxTask : SF_vars(Page(r) /\ round[r].page = n) /\ SF_vars(Ask(r, n))

----------------------------------------------------------------------------
Gone(id) == remote[id].status = "done" /\ remote[id].finish < Monus(hour, Retention)

\* Stored tasks and watermarks have their declared shape.
TypeOK ==
  /\ hour \in Nat /\ Len(visible) = Len(remote) /\ DOMAIN rows \subseteq DOMAIN remote
  /\ state.success \in 0..hour /\ state.backfilled \in BOOLEAN

\* Every task that was visible before the last successful round began is
\* known, though tasks show up late, pages shift under the reader, rounds
\* fail and an overtaken round moves the last success back.
Known ==
  state.backfilled =>
    \A id \in DOMAIN remote :
      visible[id] < state.success /\ remote[id].submit >= StartHour
        => id \in DOMAIN rows \/ Gone(id)

NeverOlderStep ==
     \A id \in DOMAIN rows \cap DOMAIN rows' :
       /\ rows'[id].updated >= rows[id].updated
       /\ rows[id].status = "done" => rows'[id].status = "done"
\* A row never goes back to an older state of its task.
NeverOlder == [][NeverOlderStep]_vars

UnfinishedStaysStep ==
     \A id \in DOMAIN rows : remote[id].status = "open" => id \in DOMAIN rows'
\* An unfinished task is never forgotten, however old it is.
UnfinishedStays == [][UnfinishedStaysStep]_vars

\* Every task is known with its final state in the end, also a task whose
\* window passed while it ran and one that changed twice in a second.
Converges ==
  <>[](\A id \in DOMAIN remote :
         remote[id].submit >= StartHour =>
           IF id \in DOMAIN rows THEN rows[id].status = remote[id].status ELSE Gone(id))
=============================================================================
