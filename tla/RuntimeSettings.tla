--------------------------- MODULE RuntimeSettings ---------------------------
(***************************************************************************)
(* The platform settings: SettingService.Update (service/setting.go), the   *)
(* rows of platform_setting (model/setting.go), the snapshot each process   *)
(* keeps of them (service/runtime_settings.go) and the collector's reading  *)
(* (model/collector_setting.go).                                            *)
(*                                                                          *)
(* An update commits its rows and then publishes a snapshot to its own      *)
(* process; every process refreshes its snapshot from the rows once a       *)
(* second.  A snapshot's version is the sum of the times of its rows.       *)
(***************************************************************************)
EXTENDS Integers, Sequences, FiniteSetsExt

CONSTANTS
    Process,    \* processes on one database
    Keys,       \* the settings
    Kind,       \* by key: "int", "bool", "decimal" or "secret"
    Minimum,    \* by key
    Maximum,    \* by key
    Ordered,    \* pairs of keys whose values must not be the wrong way round
    Governing,  \* keys of the options of the governor
    Switch,     \* notification.dingtalk.enabled; on, it needs every secret
    First,      \* by key: the value it was created with
    Requests,   \* patches that are sent: by key of the patch, an input
    Clocks,     \* what a clock shows when it is read
    MaxCommits, \* bound: commits that change a row
    MaxCrashes, \* bound
    MaxFaults   \* bound: transactions and reads that fail

SettingAssumption ==
    /\ Switch \in Keys /\ Governing \subseteq Keys
    /\ \A k \in Keys : Minimum[k] <= Maximum[k]

VARIABLES
    rows,     \* by key: value, nonce of its encryption, updated_at
    history,  \* the committed states, oldest first
    memory,   \* by process: the snapshot it keeps
    governor, \* by process: the options in force
    update,   \* by process: the update under updateMu
    refresh,  \* by process: the round under refreshMu
    publish,  \* by process: who holds publishMu
    shown,    \* by process: history, the newest version it stored or answered an update with
    crashes, faults

vars == <<rows, history, memory, governor, update, refresh, publish, shown, crashes, faults>>

Idle == [pc |-> "idle"]
Secrets == {k \in Keys : Kind[k] = "secret"}

-----------------------------------------------------------------------------
\* runtimeSettingsVersion
runtimeSettingsVersion(table) == MapThenSumSet(LAMBDA k : table[k].updatedAt, Keys)

\* runtimeSettingsFromValues: what a process keeps of the rows.
SnapshotOf(table) == [values |-> [k \in Keys |-> table[k].value], version |-> runtimeSettingsVersion(table)]
OptionsOf(snapshot) == [k \in Governing |-> snapshot.values[k]]

\* A value of a key; an optional decimal may be empty.
validStoredSettingValue(k, value) ==
    value \in Minimum[k] .. Maximum[k] \/ (Kind[k] = "decimal" /\ value = 0)

\* The outcome of one item of a request: a secret that is sent empty is kept, only secrets
\* and decimals can be cleared, anything else needs a value in range.
Keeps(k, input) == Kind[k] = "secret" /\ input.op = "set" /\ input.value = 0
Refused(k, input) ==
    IF input.op = "clear" THEN Kind[k] \notin {"secret", "decimal"}
    ELSE ~Keeps(k, input) /\ ~validStoredSettingValue(k, input.value)

\* normalizePatches: one refused item refuses the request.
normalizePatches(request) ==
    [valid |-> \A k \in DOMAIN request : ~Refused(k, request[k]),
     patch |-> [k \in {q \in DOMAIN request : ~Keeps(q, request[q])} |->
                   IF request[k].op = "clear" THEN 0 ELSE request[k].value]]

\* The rows after a patch; encrypting a secret gives a new text each time.
FinalValues(patch) ==
    [k \in Keys |-> IF k \in DOMAIN patch
                    THEN [value |-> patch[k], nonce |-> IF k \in Secrets /\ patch[k] # 0 THEN Len(history) + 1 ELSE 0]
                    ELSE [value |-> rows[k].value, nonce |-> rows[k].nonce]]

\* validateFinalValues, over the values as they will be together.
validateFinalValues(final) ==
    /\ \A p \in Ordered : final[p[1]].value <= final[p[2]].value
    /\ final[Switch].value = 1 => \A k \in Secrets : final[k].value # 0

\* validateSettingRows and the checks of runtimeSettingsFromValues: what a reader requires.
validateSettingRows(table) ==
    /\ \A k \in Keys \ Secrets : validStoredSettingValue(k, table[k].value)
    /\ \A k \in Keys : table[k].updatedAt > 0
    /\ \A p \in Ordered : table[p[1]].value <= table[p[2]].value

Newer(version, snapshot) == IF snapshot.version > version THEN snapshot.version ELSE version

\* The time of a row that changes goes up, whatever the clock says.
Stamp(now, old) == IF now <= old THEN old + 1 ELSE now

Changed(final, now) ==
    [k \in Keys |-> IF final[k].value = rows[k].value /\ final[k].nonce = rows[k].nonce THEN rows[k]
                    ELSE [value |-> final[k].value, nonce |-> final[k].nonce, updatedAt |-> Stamp(now, rows[k].updatedAt)]]

-----------------------------------------------------------------------------
Init ==
    /\ rows = [k \in Keys |-> [value |-> First[k], nonce |-> 0, updatedAt |-> 1]]
    /\ history = <<SnapshotOf(rows)>>
    /\ memory = [p \in Process |-> SnapshotOf(rows)]
    /\ governor = [p \in Process |-> OptionsOf(SnapshotOf(rows))]
    /\ update = [p \in Process |-> Idle] /\ refresh = [p \in Process |-> Idle]
    /\ publish = [p \in Process |-> "none"]
    /\ shown = [p \in Process |-> 0]
    /\ crashes = 0 /\ faults = 0

\* Update up to the transaction: updateMu, and the request as it is.
BeginUpdate(p) ==
    /\ update[p] = Idle /\ Len(history) <= MaxCommits
    /\ \E request \in Requests :
         /\ normalizePatches(request).valid
         /\ update' = [update EXCEPT ![p] = [pc |-> "commit", patch |-> normalizePatches(request).patch]]
    /\ UNCHANGED <<rows, history, memory, governor, refresh, publish, shown, crashes, faults>>

\* The transaction of Update: the rows are locked, put together with the patch, checked and
\* written where they change.
CommitUpdate(p) ==
    /\ update[p].pc = "commit" /\ validateSettingRows(rows)
    /\ LET final == FinalValues(update[p].patch)
       IN  \E now \in Clocks :
             \/ /\ ~validateFinalValues(final)
                /\ update' = [update EXCEPT ![p] = Idle]
                /\ UNCHANGED <<rows, history>>
             \/ /\ validateFinalValues(final)
                /\ rows' = Changed(final, now)
                /\ history' = IF rows' = rows THEN history ELSE Append(history, SnapshotOf(rows'))
                /\ update' = [update EXCEPT ![p] = [pc |-> "publish", snapshot |-> SnapshotOf(rows')]]
    /\ UNCHANGED <<memory, governor, refresh, publish, shown, crashes, faults>>

FailUpdate(p) ==
    /\ update[p].pc = "commit" /\ faults < MaxFaults
    /\ update' = [update EXCEPT ![p] = Idle] /\ faults' = faults + 1
    /\ UNCHANGED <<rows, history, memory, governor, refresh, publish, shown, crashes>>

\* Refresh: rows that are not newer than what is published are left.
ReadRefresh(p) ==
    /\ refresh[p] = Idle /\ validateSettingRows(rows)
    /\ SnapshotOf(rows).version > memory[p].version
    /\ refresh' = [refresh EXCEPT ![p] = [pc |-> "publish", snapshot |-> SnapshotOf(rows)]]
    /\ UNCHANGED <<rows, history, memory, governor, update, publish, shown, crashes, faults>>

-----------------------------------------------------------------------------
\* StoreVersioned: publishMu, the comparison, and the governor.
EnterPublish(p, by, call, done) ==
    /\ call[p].pc = "publish" /\ publish[p] = "none"
    /\ done = (call[p].snapshot.version < memory[p].version)
    /\ publish' = [publish EXCEPT ![p] = IF done THEN @ ELSE by]
    /\ governor' = [governor EXCEPT ![p] = IF done THEN @ ELSE OptionsOf(call[p].snapshot)]

PublishUpdate(p) ==
    /\ \E done \in BOOLEAN :
         /\ EnterPublish(p, "update", update, done)
         /\ update' = [update EXCEPT ![p] = IF done THEN Idle ELSE @]
         /\ shown' = [shown EXCEPT ![p] = IF done THEN Newer(@, update[p].snapshot) ELSE @]
    /\ UNCHANGED <<rows, history, memory, refresh, crashes, faults>>

PublishRefresh(p) ==
    /\ \E done \in BOOLEAN :
         /\ EnterPublish(p, "refresh", refresh, done)
         /\ refresh' = [refresh EXCEPT ![p] = IF done THEN Idle ELSE @]
    /\ UNCHANGED <<rows, history, memory, update, shown, crashes, faults>>

\* The snapshot and its version are stored, and publishMu is released.
StoreUpdate(p) ==
    /\ publish[p] = "update"
    /\ memory' = [memory EXCEPT ![p] = update[p].snapshot]
    /\ shown' = [shown EXCEPT ![p] = Newer(@, update[p].snapshot)]
    /\ update' = [update EXCEPT ![p] = Idle] /\ publish' = [publish EXCEPT ![p] = "none"]
    /\ UNCHANGED <<rows, history, governor, refresh, crashes, faults>>

StoreRefresh(p) ==
    /\ publish[p] = "refresh"
    /\ memory' = [memory EXCEPT ![p] = refresh[p].snapshot]
    /\ shown' = [shown EXCEPT ![p] = Newer(@, refresh[p].snapshot)]
    /\ refresh' = [refresh EXCEPT ![p] = Idle] /\ publish' = [publish EXCEPT ![p] = "none"]
    /\ UNCHANGED <<rows, history, governor, update, crashes, faults>>

\* A process ends and starts again: LoadRuntimeSettingsStore.
Restart(p) ==
    /\ crashes < MaxCrashes /\ crashes' = crashes + 1 /\ validateSettingRows(rows)
    /\ memory' = [memory EXCEPT ![p] = SnapshotOf(rows)]
    /\ governor' = [governor EXCEPT ![p] = OptionsOf(SnapshotOf(rows))]
    /\ update' = [update EXCEPT ![p] = Idle] /\ refresh' = [refresh EXCEPT ![p] = Idle]
    /\ publish' = [publish EXCEPT ![p] = "none"] /\ shown' = [shown EXCEPT ![p] = 0]
    /\ UNCHANGED <<rows, history, faults>>

Next ==
    \E p \in Process :
        \/ BeginUpdate(p) \/ CommitUpdate(p) \/ FailUpdate(p) \/ ReadRefresh(p)
        \/ PublishUpdate(p) \/ PublishRefresh(p) \/ StoreUpdate(p) \/ StoreRefresh(p) \/ Restart(p)

\* The refresh runs every second, and nobody keeps publishMu or a request forever.
Fairness ==
    \A p \in Process : /\ WF_vars(CommitUpdate(p)) /\ WF_vars(ReadRefresh(p)) /\ SF_vars(PublishUpdate(p))
                       /\ SF_vars(PublishRefresh(p)) /\ WF_vars(StoreUpdate(p)) /\ WF_vars(StoreRefresh(p))

Spec == Init /\ [][Next]_vars
FairSpec == Spec /\ Fairness

-----------------------------------------------------------------------------
\* Every process works with a state of the settings that was committed as a whole: no
\* snapshot mixes two updates, and its version names it, whatever the clocks show.
SnapshotIsCommitted ==
    /\ \A i, j \in 1 .. Len(history) : i < j => history[i].version < history[j].version
    /\ \A p \in Process : \E i \in 1 .. Len(history) : memory[p] = history[i]

\* The governor has the options of the snapshot unless a publication is under way.
GovernorFollows ==
    \A p \in Process : publish[p] = "none" => governor[p] = OptionsOf(memory[p])

\* A process never returns to older settings, and who was answered that an update is done finds
\* it or a later one: a refresh that read before the update published does not undo it.
SettingsForward == \A p \in Process : memory[p].version >= shown[p]

\* Whatever patches meet, the committed values fit together and every reader accepts them, so
\* no setting that was accepted keeps a process from starting or from refreshing.
CommittedIsAccepted ==
    /\ validateSettingRows(rows)
    /\ \A p \in Ordered : rows[p[1]].value <= rows[p[2]].value
    /\ rows[Switch].value = 1 => \A k \in Secrets : rows[k].value # 0

\* A process that is behind catches up.
CaughtUp(p) == memory[p] = history[Len(history)]
SettingsReachAll == \A p \in Process : []<>CaughtUp(p)
=============================================================================
