---------------------------- MODULE SystemTasks ----------------------------
(***************************************************************************)
(* Collection of the system tasks of one upstream (system_task_sync).  The *)
(* upstream lists its newest tasks only; the task of a type that is active *)
(* now is read apart, one request per type, after the list.  The commit    *)
(* says whether the list was whole.                                        *)
(***************************************************************************)
EXTENDS Naturals, Sequences, FiniteSets, FiniteSetsExt

CONSTANTS Types,      \* task types; "other" is one this program does not know
          MaxTask,    \* bound on tasks created upstream
          Limit,      \* rows of the list (100)
          Behind,     \* tasks that may follow one that runs, or is thought to
          MaxTime,
          Retention   \* system_task_terminal_retention_days

SystemTaskAssumption ==
  {MaxTask, Behind, MaxTime} \subseteq Nat /\ {Limit, Retention} \subseteq Nat \ {0}

VARIABLES now,
          remote,   \* the tasks upstream, by id: [type, status, updated]
          rows,     \* id -> site_system_task
          state,    \* [list, current]: data_status of the list and of the current tasks
          whole,    \* the tasks upstream when the last committed list was read (history)
          round
vars == <<now, remote, rows, state, whole, round>>

Supported == Types \ {"other"}
Idle == [pc |-> "idle"]
Active(ty) == {id \in DOMAIN remote : remote[id].type = ty /\ remote[id].status = "running"}

Init == /\ now = 1 /\ remote = <<>> /\ rows = <<>> /\ whole = <<>> /\ round = Idle
        /\ state = [list |-> "none", current |-> "none"]

----------------------------------------------------------------------------
(***************************************************************************)
(* The upstream runs one task of a type at a time; ids may have gaps.      *)
(***************************************************************************)
ThoughtRunning(id) ==
  \/ remote[id].status = "running"
  \/ id \in DOMAIN rows /\ rows[id].status = "running"
  \/ round # Idle /\ id \in DOMAIN round.items /\ round.items[id].status = "running"
Create(ty) ==
  /\ Len(remote) < MaxTask /\ Active(ty) = {}
  /\ \A id \in DOMAIN remote : ThoughtRunning(id) => Len(remote) - id < Behind
  /\ remote' = Append(remote, [type |-> ty, status |-> "running", updated |-> now])
  /\ UNCHANGED <<now, rows, state, whole, round>>
Finish(id) ==
  /\ remote[id].status = "running"
  /\ remote' = [remote EXCEPT ![id].status = "succeeded", ![id].updated = now]
  /\ UNCHANGED <<now, rows, state, whole, round>>
Tick == now < MaxTime /\ now' = now + 1 /\ UNCHANGED <<remote, rows, state, whole, round>>

----------------------------------------------------------------------------
Newest == {id \in DOMAIN remote : id + Limit > Len(remote)}
Readable(ids) == {id \in ids : remote[id].type \in Supported}
Read(ids) == [id \in ids |-> remote[id]]
Merge(f, g) == [id \in DOMAIN f \cup DOMAIN g |-> IF id \in DOMAIN f THEN f[id] ELSE g[id]]

\* Mutant: a full list counts as whole.
PartialFull == Readable(Newest) # Newest
\* Truncated or with a type this program does not know.  (A gap between ids
\* is reported the same way; here the ids have none.)
Partial == Cardinality(Newest) = Limit \/ Readable(Newest) # Newest

\* SnapshotSystemTasks: the list.
List ==
  /\ round = Idle
  /\ round' = [pc |-> "current", items |-> Read(Readable(Newest)), partial |-> Partial,
               failed |-> FALSE, ask |-> Supported, whole |-> remote]
  /\ UNCHANGED <<now, remote, rows, state, whole>>

\* snapshotCurrentSystemTasks: the requests run in parallel; one that fails
\* leaves its type out, one that finds a task of the list adds nothing.
Current(ty, fails) ==
  /\ round.pc = "current" /\ ty \in round.ask
  /\ round' = [round EXCEPT !.ask = @ \ {ty},
                            !.failed = @ \/ fails,
                            !.items = IF fails THEN @ ELSE Merge(@, Read(Active(ty)))]
  /\ UNCHANGED <<now, remote, rows, state, whole>>

\* MarkSystemTaskCollectionFailure: the list could not be read.
Fail ==
  /\ round = Idle /\ state' = [state EXCEPT !.list = "unavailable"]
  /\ UNCHANGED <<now, remote, rows, whole, round>>
\* A crash, or the configuration fence.
Lost == /\ round # Idle /\ round' = Idle /\ UNCHANGED <<now, remote, rows, state, whole>>

Keeps(old, item) == item.updated < old.updated \/ item = old
\* SyncSystemTasks: an item not older than its row replaces it.
SyncSystemTasks(items) ==
  [id \in DOMAIN rows \cup DOMAIN items |->
     IF id \notin DOMAIN items THEN rows[id]
     ELSE IF id \in DOMAIN rows /\ Keeps(rows[id], items[id]) THEN rows[id] ELSE items[id]]

Monus(a, b) == IF a > b THEN a - b ELSE 0
\* DeleteTerminalSystemTasksBefore.
Expired(row) == row.status # "running" /\ row.updated < Monus(now, Retention)

Commit ==
  /\ round.pc = "current" /\ round.ask = {}
  /\ LET synced == SyncSystemTasks(round.items)
     IN  rows' = [id \in {k \in DOMAIN synced : ~Expired(synced[k])} |-> synced[id]]
  /\ state' = [list |-> IF round.partial THEN "partial" ELSE "complete",
               current |-> IF round.failed THEN "unavailable" ELSE "complete"]
  /\ whole' = round.whole /\ round' = Idle
  /\ UNCHANGED <<now, remote>>

Next ==
  \/ \E ty \in Types : Create(ty)
  \/ \E id \in DOMAIN remote : Finish(id)
  \/ List \/ Fail \/ Lost \/ Commit \/ Tick
  \/ \E ty \in Supported, fails \in BOOLEAN : Current(ty, fails)
Spec == Init /\ [][Next]_vars
\* A period opens a round again and again, and not every one is lost.
FairSpec ==
  /\ Spec /\ WF_vars(List) /\ SF_vars(Commit)
  /\ \A n \in 1..Cardinality(Supported) :
       SF_vars(/\ round # Idle /\ Cardinality(round.ask) = n
               /\ \E ty \in Supported, fails \in BOOLEAN : Current(ty, fails))

----------------------------------------------------------------------------
\* Rows and cursors have their declared shape.
TypeOK ==
  /\ now \in 1..MaxTime /\ DOMAIN rows \subseteq DOMAIN remote
  /\ state.list \in {"none", "complete", "partial", "unavailable"}

\* A site reported complete missed no task and no end of a task: every task
\* the upstream had when the list was read is known, as it was then or
\* later, unless the retention removed it.
CompleteIsWhole ==
  state.list = "complete" =>
    \A id \in DOMAIN whole :
      \/ id \in DOMAIN rows /\ rows[id].updated >= whole[id].updated
      \/ whole[id].status # "running" /\ whole[id].updated < Monus(now, Retention)

RunningStaysStep ==
     \A id \in DOMAIN rows : remote[id].status = "running" => id \in DOMAIN rows'
\* A task that still runs is never forgotten, however old and however many
\* tasks came after it.
RunningStays == [][RunningStaysStep]_vars

\* A task shown as running is in the end one that runs, as long as its end
\* is read before the list is filled with newer tasks.
RunningIsRunning ==
  <>[](\A id \in DOMAIN rows : rows[id].status = remote[id].status)
=============================================================================
