--------------------------- MODULE SchemaMigration ---------------------------
(***************************************************************************)
(* The runner of the schema migrations: model/migration.go and              *)
(* model/migration_source.go.  Every process migrates the database before   *)
(* it serves, and so does the command "migrate"; they take turns by a named *)
(* lock of the database.  A statement that changes the schema cannot be     *)
(* rolled back, so its place is marked as dirty before it is executed and   *)
(* as ready after its effect was looked up in the schema; a statement that  *)
(* changes rows commits together with the mark.  A runner ends at any step: *)
(* it crashes, the statement fails, its deadline passes or the connection   *)
(* is lost, and then nobody knows whether the statement under way took      *)
(* effect.                                                                  *)
(*                                                                          *)
(* A migration file is abstracted to its checksum, which determines its     *)
(* statements; a version is its position in the order of names.  Builds of  *)
(* the program may differ in their files.                                   *)
(***************************************************************************)
EXTENDS Integers, Sequences, TLAPS

CONSTANTS
    Runners,      \* the processes that migrate
    Count,        \* the number of versions the newest build has
    Sums,         \* the checksums of the files
    Absent,       \* stands for a row that is not there
    Repository,   \* Repository[r]: the checksums of r's files, in order
    Statements,   \* Statements[s]: "ddl" or "dml" for each statement of file s
    ReleasedAs,     \* pairs <<s, t>>: t is accepted as recorded where the build has s
    MaxAborts     \* bound: interrupted runs

ASSUME MigrationAssumption ==
    /\ Count \in Nat \ {0}
    /\ Absent \notin Sums
    /\ Repository \in [Runners -> Seq(Sums)]
    /\ \A r \in Runners : Len(Repository[r]) \in 1..Count
    /\ Statements \in [Sums -> Seq({"ddl", "dml"})]
    /\ MaxAborts \in Nat

VARIABLES
    foreign,    \* the database holds tables that no migration made
    tables,     \* which of the two tables of the runner exist
    recorded,   \* schema_migration: version -> checksum or Absent
    progress,   \* schema_migration_progress: version -> its row
    effects,    \* <<version, checksum, number>> of the statements in effect
    repeated,   \* those of them that were executed again later
    lock,       \* who holds the named lock
    runner,     \* what each runner does
    fault,      \* a runner met a checkpoint it takes for impossible
    aborts      \* interrupted runs so far

vars == <<foreign, tables, recorded, progress, effects, repeated, lock, runner, fault, aborts>>

Versions == 1..Count

\* A row of schema_migration_progress: index statements are done, and the next one
\* is under way while the state is dirty.
NoRow == [sum |-> Absent, index |-> 0, state |-> "ready"]
Row(s, n, st) == [sum |-> s, index |-> n, state |-> st]

\* A runner: where it is, in which version, how many of its statements are done, and
\* whether the next one was under way when an earlier run ended.
State(pc, v, d, again) == [pc |-> pc, version |-> v, done |-> d, recovering |-> again]
Idle == State("idle", 1, 0, FALSE)

Init ==
    /\ foreign \in BOOLEAN
    /\ tables = {}
    /\ recorded = [v \in Versions |-> Absent]
    /\ progress = [v \in Versions |-> NoRow]
    /\ effects = {} /\ repeated = {}
    /\ lock = {}
    /\ runner = [r \in Runners |-> Idle]
    /\ fault = FALSE
    /\ aborts = 0

-----------------------------------------------------------------------------
isMigrationDDL(s, n) == Statements[s][n] = "ddl"

completedMigrationChecksumMatches(s, t) == s = t \/ <<s, t>> \in ReleasedAs

\* The schema holds a table other than the two of the runner.
NonMetadataTables == foreign \/ \E e \in effects : isMigrationDDL(e[2], e[3])

\* The recorded versions are the first ones of the build.
ValidateMigrationVersionPrefix(r) ==
    \A v \in Versions : recorded[v] # Absent =>
        /\ v <= Len(Repository[r])
        /\ completedMigrationChecksumMatches(Repository[r][v], recorded[v])
        /\ \A u \in 1..(v - 1) : recorded[u] # Absent

\* There is at most one checkpoint; it is of the version that comes next and of the
\* build's own file, and only a statement that changes the schema can be under way.
validateMigrationProgressSource(r) ==
    \A v \in Versions : progress[v].sum # Absent =>
        /\ \A u \in Versions \ {v} : progress[u].sum = Absent
        /\ v <= Len(Repository[r]) /\ progress[v].sum = Repository[r][v]
        /\ recorded[v] = Absent /\ \A u \in 1..(v - 1) : recorded[u] # Absent
        /\ progress[v].index <= Len(Statements[progress[v].sum])
        /\ progress[v].state = "dirty" =>
              /\ progress[v].index < Len(Statements[progress[v].sum])
              /\ isMigrationDDL(progress[v].sum, progress[v].index + 1)

Acceptable(r) ==
    /\ "versions" \in tables \/ (tables = {} /\ ~NonMetadataTables)
    /\ ValidateMigrationVersionPrefix(r)
    /\ validateMigrationProgressSource(r)
    /\ (\A v \in Versions : recorded[v] = Absent /\ progress[v].sum = Absent) => ~NonMetadataTables

-----------------------------------------------------------------------------
Own(r) == Repository[r][runner[r].version]
At(r, pc) == runner[r].pc = pc

\* The run returns, with an error or without: the deferred release of the lock.
Return(r) ==
    /\ runner' = [runner EXCEPT ![r] = Idle]
    /\ lock' = lock \ {r}

\* The statement has its effect in the database.
TakeEffect(v, s, n) ==
    /\ effects' = effects \cup {<<v, s, n>>}
    /\ repeated' = IF <<v, s, n>> \in effects THEN repeated \cup {<<v, s, n>>} ELSE repeated

\* The postcondition registered for statement n of a version, looked up in the schema;
\* it does not know which file the statement came from.
verifyDDLPostcondition(v, n) == \E s \in Sums : <<v, s, n>> \in effects

\* Run: GET_LOCK.
Acquire(r) ==
    /\ At(r, "idle") /\ lock = {}
    /\ lock' = {r}
    /\ runner' = [runner EXCEPT ![r].pc = "locked"]
    /\ UNCHANGED <<foreign, tables, recorded, progress, effects, repeated, fault, aborts>>

\* Run: the tables, the recorded versions and the checkpoint must fit this build.
Validate(r) ==
    /\ At(r, "locked")
    /\ IF Acceptable(r)
       THEN runner' = [runner EXCEPT ![r].pc = "bootstrap"] /\ UNCHANGED lock
       ELSE Return(r)
    /\ UNCHANGED <<foreign, tables, recorded, progress, effects, repeated, fault, aborts>>

\* Run: the two tables are made one after the other.
Bootstrap(r) ==
    /\ At(r, "bootstrap")
    /\ IF "versions" \notin tables
       THEN tables' = tables \cup {"versions"} /\ UNCHANGED runner
       ELSE /\ tables' = tables \cup {"progress"}
            /\ runner' = [runner EXCEPT ![r] = State("apply", 1, 0, FALSE)]
    /\ UNCHANGED <<foreign, recorded, progress, effects, repeated, lock, fault, aborts>>

NextVersion(r) == [runner EXCEPT ![r] = State("apply", runner[r].version + 1, 0, FALSE)]

\* A checkpoint the code calls impossible, stale or changed by somebody else: the
\* run ends with an error that no retry resolves.
Fault(r) == fault' = TRUE /\ Return(r)

\* apply, when the version is recorded: its checksum is compared and a checkpoint that
\* was left behind is deleted.
SkipRecorded(r) ==
    LET v == runner[r].version IN
    /\ At(r, "apply") /\ v <= Len(Repository[r]) /\ recorded[v] # Absent
    /\ IF /\ completedMigrationChecksumMatches(Own(r), recorded[v])
          /\ progress[v].sum \in {Absent, Own(r)}
       THEN /\ progress' = [progress EXCEPT ![v] = NoRow]
            /\ runner' = NextVersion(r)
            /\ UNCHANGED <<lock, fault>>
       ELSE Fault(r) /\ UNCHANGED progress
    /\ UNCHANGED <<foreign, tables, recorded, effects, repeated, aborts>>

\* apply, otherwise: loadOrCreateMigrationProgress and the check of what it returned.
BeginVersion(r) ==
    LET v == runner[r].version
        row == IF progress[v].sum = Absent THEN Row(Own(r), 0, "ready") ELSE progress[v]
    IN
    /\ At(r, "apply") /\ v <= Len(Repository[r]) /\ recorded[v] = Absent
    /\ progress' = [progress EXCEPT ![v] = row]
    /\ IF /\ row.sum = Own(r)
          /\ row.index <= Len(Statements[Own(r)])
          /\ row.state = "dirty" => row.index < Len(Statements[Own(r)])
       THEN /\ runner' = [runner EXCEPT ![r] = State("statement", v, row.index, row.state = "dirty")]
            /\ UNCHANGED <<lock, fault>>
       ELSE Fault(r)
    /\ UNCHANGED <<foreign, tables, recorded, effects, repeated, aborts>>

\* updateMigrationProgress changes the row of this version and this checksum only.
CheckpointHeld(r) == progress[runner[r].version].sum = Own(r)
\* Mutant: the state of the row is not updated.
CheckpointUnmarked(r, n, st) ==
    progress' = [progress EXCEPT ![runner[r].version] = Row(Own(r), n, "ready")]
Checkpoint(r, n, st) == progress' = [progress EXCEPT ![runner[r].version] = Row(Own(r), n, st)]

Pending(r) ==
    /\ At(r, "statement")
    /\ runner[r].done < Len(Statements[Own(r)])

\* applyDDLStatement when it resumes: the statement that was under way did take effect.
RecoverDDL(r) ==
    LET n == runner[r].done + 1 IN
    /\ Pending(r) /\ isMigrationDDL(Own(r), n) /\ runner[r].recovering
    /\ verifyDDLPostcondition(runner[r].version, n)
    /\ IF CheckpointHeld(r)
       THEN /\ Checkpoint(r, n, "ready")
            /\ runner' = [runner EXCEPT ![r] = State("statement", runner[r].version, n, FALSE)]
            /\ UNCHANGED <<lock, fault>>
       ELSE Fault(r) /\ UNCHANGED progress
    /\ UNCHANGED <<foreign, tables, recorded, effects, repeated, aborts>>

\* applyDDLStatement: the place is marked as dirty first.
MarkDirty(r) ==
    LET n == runner[r].done + 1 IN
    /\ Pending(r) /\ isMigrationDDL(Own(r), n)
    /\ runner[r].recovering => ~verifyDDLPostcondition(runner[r].version, n)
    /\ IF CheckpointHeld(r)
       THEN /\ Checkpoint(r, n - 1, "dirty")
            /\ runner' = [runner EXCEPT ![r].pc = "execute"]
            /\ UNCHANGED <<lock, fault>>
       ELSE Fault(r) /\ UNCHANGED progress
    /\ UNCHANGED <<foreign, tables, recorded, effects, repeated, aborts>>

\* applyDDLStatement: the statement itself.
ExecuteDDL(r) ==
    /\ At(r, "execute")
    /\ TakeEffect(runner[r].version, Own(r), runner[r].done + 1)
    /\ runner' = [runner EXCEPT ![r].pc = "verify"]
    /\ UNCHANGED <<foreign, tables, recorded, progress, lock, fault, aborts>>

\* applyDDLStatement: its postcondition, then the mark.
CheckpointDDL(r) ==
    LET n == runner[r].done + 1 IN
    /\ At(r, "verify")
    /\ IF verifyDDLPostcondition(runner[r].version, n) /\ CheckpointHeld(r)
       THEN /\ Checkpoint(r, n, "ready")
            /\ runner' = [runner EXCEPT ![r] = State("statement", runner[r].version, n, FALSE)]
            /\ UNCHANGED <<lock, fault>>
       ELSE Fault(r) /\ UNCHANGED progress
    /\ UNCHANGED <<foreign, tables, recorded, effects, repeated, aborts>>

\* applyTransactionalStatement: the statement and both marks commit together.
ApplyTransactional(r) ==
    LET n == runner[r].done + 1 IN
    /\ Pending(r) /\ ~isMigrationDDL(Own(r), n)
    /\ IF CheckpointHeld(r) /\ ~runner[r].recovering
       THEN /\ TakeEffect(runner[r].version, Own(r), n)
            /\ Checkpoint(r, n, "ready")
            /\ runner' = [runner EXCEPT ![r].done = n]
            /\ UNCHANGED <<lock, fault>>
       ELSE Fault(r) /\ UNCHANGED <<progress, effects, repeated>>
    /\ UNCHANGED <<foreign, tables, recorded, aborts>>

\* recordCompletedMigration: the version is recorded and its checkpoint deleted.
Record(r) ==
    LET v == runner[r].version IN
    /\ At(r, "statement") /\ runner[r].done >= Len(Statements[Own(r)])
    /\ IF CheckpointHeld(r) /\ recorded[v] = Absent
       THEN /\ recorded' = [recorded EXCEPT ![v] = Own(r)]
            /\ progress' = [progress EXCEPT ![v] = NoRow]
            /\ runner' = NextVersion(r)
            /\ UNCHANGED <<lock, fault>>
       ELSE Fault(r) /\ UNCHANGED <<recorded, progress>>
    /\ UNCHANGED <<foreign, tables, effects, repeated, aborts>>

\* Run returns nil.
Finish(r) ==
    /\ At(r, "apply") /\ runner[r].version > Len(Repository[r])
    /\ Return(r)
    /\ UNCHANGED <<foreign, tables, recorded, progress, effects, repeated, fault, aborts>>

\* The run is interrupted.  The statement under way takes effect or not, before the
\* database ends the session and with it the lock.
Abort(r) ==
    /\ ~At(r, "idle") /\ aborts < MaxAborts
    /\ aborts' = aborts + 1
    /\ Return(r)
    /\ \/ UNCHANGED <<effects, repeated>>
       \/ At(r, "execute") /\ TakeEffect(runner[r].version, Own(r), runner[r].done + 1)
    /\ UNCHANGED <<foreign, tables, recorded, progress, fault>>

Run(r) ==
    \/ Acquire(r) \/ Validate(r) \/ Bootstrap(r) \/ SkipRecorded(r) \/ BeginVersion(r)
    \/ RecoverDDL(r) \/ MarkDirty(r) \/ ExecuteDDL(r) \/ CheckpointDDL(r)
    \/ ApplyTransactional(r) \/ Record(r) \/ Finish(r)

Next == \E r \in Runners : Run(r) \/ Abort(r)

Spec == Init /\ [][Next]_vars

-----------------------------------------------------------------------------
(* verify-restore (internal/ops/verify.go) reads the restored database at   *)
(* any time and without the named lock.                                     *)

\* AuthoritativeSchemaContracts: what the statements of the build's files make.
AuthoritativeSchemaContracts(r) ==
    UNION {{<<v, n>> : n \in {m \in 1..Len(Statements[Repository[r][v]]) : isMigrationDDL(Repository[r][v], m)}} :
              v \in 1..Len(Repository[r])}

\* readLiveTableNames, readSchemaTableContract: what is there, whichever file made it.
LiveSchema == {<<e[1], e[3]>> : e \in {x \in effects : isMigrationDDL(x[2], x[3])}}

VerifyAuthoritativeSchema(r) == ~foreign /\ LiveSchema = AuthoritativeSchemaContracts(r)

\* The recorded versions are all of the build's, and no checkpoint is left.
verifyMigrations(r) ==
    /\ ValidateMigrationVersionPrefix(r)
    /\ \A v \in 1..Len(Repository[r]) : recorded[v] # Absent
    /\ \A v \in Versions : progress[v].sum = Absent

-----------------------------------------------------------------------------
Rows == [sum : Sums \cup {Absent}, index : Nat, state : {"ready", "dirty"}]
RunStates == [pc : {"idle", "locked", "bootstrap", "apply", "statement", "execute", "verify"},
         version : Nat, done : Nat, recovering : BOOLEAN]

TypeOK ==
    /\ foreign \in BOOLEAN /\ fault \in BOOLEAN /\ aborts \in Nat
    /\ tables \subseteq {"versions", "progress"}
    /\ recorded \in [Versions -> Sums \cup {Absent}]
    /\ progress \in [Versions -> Rows]
    /\ effects \subseteq Versions \X Sums \X Nat
    /\ repeated \subseteq effects
    /\ lock \subseteq Runners
    /\ runner \in [Runners -> RunStates]

\* No statement is executed again once it took effect: a change of rows is not applied
\* twice and a change of the schema is not refused as a duplicate, wherever the runs
\* before were interrupted.
ExecutedOnce == repeated = {}

\* A recorded version has every statement of the recorded file in effect and no
\* statement of another file that some build has in its place.
RecordedIsWhole ==
    \A v \in Versions : recorded[v] # Absent =>
        {e \in effects : e[1] = v} =
            {<<v, recorded[v], n>> : n \in 1..Len(Statements[recorded[v]])}

\* Statements take effect in the order of the files: after all before them in their own
\* file and after every earlier version was recorded.
InOrder ==
    \A e \in effects :
        /\ \A n \in 1..(e[3] - 1) : <<e[1], e[2], n>> \in effects
        /\ \A u \in 1..(e[1] - 1) : recorded[u] # Absent

\* No run meets a checkpoint it cannot explain.
NoContractError == ~fault

\* An interrupted database can be resumed by every build whose files are those that
\* were recorded and begun, and a database with tables of others is left alone.
Resumable ==
    /\ foreign => tables = {} /\ effects = {}
    /\ \A r \in Runners :
         /\ ~foreign /\ lock = {}
         /\ \A v \in Versions : {recorded[v], progress[v].sum} # {Absent} =>
               /\ v <= Len(Repository[r])
               /\ recorded[v] # Absent =>
                     completedMigrationChecksumMatches(Repository[r][v], recorded[v])
               /\ progress[v].sum # Absent => progress[v].sum = Repository[r][v]
         => Acceptable(r)

\* Where verify-restore accepts the recorded versions, and they are the build's own
\* files, it accepts the schema too: no interrupted or running statement, no statement of
\* another build and no table of others hides behind complete records.
RecordsTellTheSchema ==
    \A r \in Runners :
        verifyMigrations(r) /\ (\A v \in 1..Len(Repository[r]) : recorded[v] = Repository[r][v])
        => VerifyAuthoritativeSchema(r)

\* All of it: the schema is migrated exactly, whoever migrates and wherever a run ends.
MigratedExactly ==
    ExecutedOnce /\ NoContractError /\ RecordedIsWhole /\ InOrder /\ Resumable /\ RecordsTellTheSchema

-----------------------------------------------------------------------------
\* The inductive invariant.  While nothing is under way, rows and effects of a version
\* say the same: all statements of a recorded version are in effect, those before the
\* checkpoint of a begun one, and the next one at most while the checkpoint is dirty.
\* What a runner holds in memory is what its rows say, and where it is in
\* applyDDLStatement tells whether the statement under way took effect.
EffectsUpTo(v, s, n) == \A m \in 1..n : <<v, s, m>> \in effects
Before(v) == \A u \in 1..(v - 1) : recorded[u] # Absent

RecordedFits(v) == recorded[v] # Absent =>
    /\ progress[v].sum = Absent /\ Before(v)
    /\ EffectsUpTo(v, recorded[v], Len(Statements[recorded[v]]))
    /\ \A e \in effects : e[1] = v =>
          e[2] = recorded[v] /\ e[3] \in 1..Len(Statements[recorded[v]])

BegunFits(v) == progress[v].sum # Absent =>
    /\ recorded[v] = Absent /\ Before(v)
    /\ progress[v].index <= Len(Statements[progress[v].sum])
    /\ progress[v].state = "dirty" =>
          /\ progress[v].index < Len(Statements[progress[v].sum])
          /\ isMigrationDDL(progress[v].sum, progress[v].index + 1)
    /\ EffectsUpTo(v, progress[v].sum, progress[v].index)
    /\ \A e \in effects : e[1] = v =>
          /\ e[2] = progress[v].sum /\ e[3] \in 1..(progress[v].index + 1)
          /\ e[3] = progress[v].index + 1 => progress[v].state = "dirty"

FreshFits(v) == recorded[v] = Absent /\ progress[v].sum = Absent => \A e \in effects : e[1] # v

\* What Validate established stays true while the lock is held.
Accepted(r) ==
    /\ ~foreign
    /\ \A v \in Versions :
         /\ recorded[v] # Absent =>
               /\ v <= Len(Repository[r])
               /\ completedMigrationChecksumMatches(Repository[r][v], recorded[v])
         /\ progress[v].sum # Absent =>
               v <= Len(Repository[r]) /\ progress[v].sum = Repository[r][v]

RunnerFits(r) ==
    LET x == runner[r] IN
    /\ x.pc # "idle" <=> lock = {r}
    /\ x.pc \in {"bootstrap", "apply", "statement", "execute", "verify"} => Accepted(r)
    /\ x.pc \in {"apply", "statement", "execute", "verify"} =>
          /\ "versions" \in tables
          /\ x.version \in 1..(Len(Repository[r]) + 1) /\ Before(x.version)
    /\ x.pc \in {"statement", "execute", "verify"} =>
          /\ x.version <= Len(Repository[r])
          /\ recorded[x.version] = Absent
          /\ progress[x.version].sum = Own(r) /\ progress[x.version].index = x.done
    /\ x.pc = "statement" => x.recovering = (progress[x.version].state = "dirty")
    /\ x.pc \in {"execute", "verify"} => progress[x.version].state = "dirty"
    /\ x.pc = "execute" => <<x.version, Own(r), x.done + 1>> \notin effects
    /\ x.pc = "verify" => <<x.version, Own(r), x.done + 1>> \in effects

TablesFit ==
    /\ "progress" \in tables => "versions" \in tables
    /\ foreign => tables = {}
    /\ "versions" \notin tables =>
          \A v \in Versions : recorded[v] = Absent /\ progress[v].sum = Absent

VersionsFit == \A v \in Versions : RecordedFits(v) /\ BegunFits(v) /\ FreshFits(v)
RunnersFit == \A r \in Runners : RunnerFits(r)

IInv == TypeOK /\ TablesFit /\ VersionsFit /\ RunnersFit /\ ExecutedOnce /\ NoContractError

-----------------------------------------------------------------------------
LEMMA InitFits == Init => IInv
<1> SUFFICES ASSUME Init PROVE IInv OBVIOUS
<1>1. TypeOK
  BY MigrationAssumption DEF Init, TypeOK, Rows, RunStates, NoRow, Idle, State, Versions
<1>2. TablesFit /\ VersionsFit /\ ExecutedOnce /\ NoContractError
  BY <1>1, MigrationAssumption DEF Init, TablesFit, VersionsFit, RecordedFits, BegunFits, FreshFits,
     ExecutedOnce, NoContractError, NoRow, Versions
<1>3. RunnersFit
  BY DEF Init, RunnersFit, RunnerFits, Idle, State
<1> QED BY <1>1, <1>2, <1>3 DEF IInv

\* While a runner is busy the others are idle, and what it does leaves them idle.
LEMMA OthersIdle ==
    ASSUME IInv, NEW r \in Runners, runner[r].pc # "idle"
    PROVE  /\ lock = {r}
           /\ \A q \in Runners \ {r} : runner[q].pc = "idle"
BY DEF IInv, RunnersFit, RunnerFits

LEMMA OthersStay ==
    ASSUME IInv, NEW r \in Runners, runner[r].pc # "idle",
           \A q \in Runners \ {r} : runner'[q] = runner[q],
           lock' \in {{r}, {}}
    PROVE  \A q \in Runners \ {r} : RunnerFits(q)'
<1> SUFFICES ASSUME NEW q \in Runners \ {r} PROVE RunnerFits(q)' OBVIOUS
<1>1. runner'[q].pc = "idle" BY OthersIdle
<1>2. lock' # {q} OBVIOUS
<1> QED BY <1>1, <1>2 DEF RunnerFits

\* A run that returns and leaves the database as it is.
LEMMA ReturnFits ==
    ASSUME IInv, NEW r \in Runners, runner[r].pc # "idle", Return(r),
           UNCHANGED <<foreign, tables, recorded, progress, effects, repeated, fault>>,
           aborts' \in Nat
    PROVE  IInv'
<1>1. TypeOK'
  BY DEF IInv, TypeOK, RunStates, Return, Idle, State
<1>2. (TablesFit /\ VersionsFit /\ ExecutedOnce /\ NoContractError)'
  BY DEF IInv, TablesFit, VersionsFit, RecordedFits, BegunFits, FreshFits, EffectsUpTo, Before,
     ExecutedOnce, NoContractError, isMigrationDDL
<1>3. lock' = {} BY OthersIdle DEF Return
<1>4. \A q \in Runners \ {r} : RunnerFits(q)'
  <2>1. \A q \in Runners \ {r} : runner'[q] = runner[q]
    BY DEF IInv, TypeOK, Return
  <2> QED BY <1>3, <2>1, OthersStay
<1>5. RunnerFits(r)'
  <2>1. runner'[r] = Idle BY DEF IInv, TypeOK, Return
  <2> QED BY <1>3, <2>1 DEF RunnerFits, Idle, State
<1> QED BY <1>1, <1>2, <1>4, <1>5 DEF IInv, RunnersFit

\* A step of a busy runner that keeps the lock, put together from its parts.
LEMMA StepFits ==
    ASSUME IInv, NEW r \in Runners, runner[r].pc # "idle", TypeOK', TablesFit', VersionsFit',
           ExecutedOnce', UNCHANGED <<lock, fault>>,
           \A q \in Runners \ {r} : runner'[q] = runner[q],
           RunnerFits(r)'
    PROVE  IInv'
<1>1. lock' \in {{r}, {}} BY OthersIdle
<1>2. \A q \in Runners \ {r} : RunnerFits(q)' BY <1>1, OthersStay
<1>3. RunnersFit' BY <1>2 DEF RunnersFit
<1> QED BY <1>3 DEF IInv, NoContractError

\* A step that touches one version leaves the others as they were.
LEMMA OtherVersions ==
    ASSUME TypeOK, TypeOK', VersionsFit, NEW v \in Versions, NEW u \in Versions \ {v},
           recorded'[u] = recorded[u], progress'[u] = progress[u],
           \A w \in Versions : recorded[w] # Absent => recorded'[w] # Absent,
           \A e \in effects' : e[1] = u => e \in effects,
           \A e \in effects : e \in effects'
    PROVE  (RecordedFits(u) /\ BegunFits(u) /\ FreshFits(u))'
<1>0. \A w \in 1..(u - 1) : w \in Versions BY MigrationAssumption DEF Versions
<1>1. RecordedFits(u) /\ BegunFits(u) /\ FreshFits(u) BY DEF VersionsFit
<1>2. Before(u) => Before(u)' BY <1>0 DEF Before
<1>3. \A t, n : EffectsUpTo(u, t, n) => EffectsUpTo(u, t, n)' BY DEF EffectsUpTo
<1>4. RecordedFits(u)' BY <1>1, <1>2, <1>3 DEF RecordedFits
<1>5. BegunFits(u)'
  <2> SUFFICES ASSUME progress[u].sum # Absent PROVE BegunFits(u)' BY DEF BegunFits
  <2>1. EffectsUpTo(u, progress[u].sum, progress[u].index)' BY <1>1, <1>3 DEF BegunFits
  <2> QED BY <1>1, <1>2, <2>1 DEF BegunFits, isMigrationDDL
<1>6. FreshFits(u)' BY <1>1 DEF FreshFits
<1> QED BY <1>4, <1>5, <1>6

\* The rows and the effects are untouched.
LEMMA SameVersions ==
    ASSUME IInv, UNCHANGED <<recorded, progress, effects>>
    PROVE  VersionsFit'
BY DEF IInv, VersionsFit, RecordedFits, BegunFits, FreshFits, EffectsUpTo, Before, isMigrationDDL

LEMMA AcquireFits == ASSUME IInv, NEW r \in Runners, Acquire(r) PROVE IInv'
<1>1. TypeOK' BY DEF IInv, TypeOK, RunStates, Acquire, At
<1>2. (TablesFit /\ ExecutedOnce /\ NoContractError)'
  BY DEF IInv, Acquire, TablesFit, ExecutedOnce, NoContractError
<1>3. VersionsFit' BY SameVersions DEF Acquire
<1>4. \A q \in Runners \ {r} : runner[q].pc = "idle" /\ runner'[q] = runner[q]
  BY DEF IInv, TypeOK, RunnersFit, RunnerFits, Acquire
<1>5. runner'[r].pc = "locked" /\ lock' = {r} BY DEF IInv, TypeOK, Acquire
<1>6. RunnersFit' BY <1>4, <1>5 DEF RunnersFit, RunnerFits
<1> QED BY <1>1, <1>2, <1>3, <1>6 DEF IInv

LEMMA ValidateFits == ASSUME IInv, NEW r \in Runners, Validate(r) PROVE IInv'
<1>1. runner[r].pc # "idle" BY DEF Validate, At
<1>2. CASE ~Acceptable(r)
  <2>1. aborts' \in Nat BY DEF IInv, TypeOK, Validate
  <2> QED BY <1>1, <1>2, <2>1, ReturnFits DEF Validate
<1>3. CASE Acceptable(r)
  <2>1. TypeOK' BY <1>3 DEF IInv, TypeOK, RunStates, Validate
  <2>2. TablesFit' /\ ExecutedOnce' BY DEF IInv, Validate, TablesFit, ExecutedOnce
  <2>3. VersionsFit' BY SameVersions DEF Validate
  <2>4. /\ \A q \in Runners \ {r} : runner'[q] = runner[q]
        /\ runner'[r].pc = "bootstrap"
        /\ UNCHANGED <<lock, fault>>
    BY <1>3 DEF IInv, TypeOK, RunStates, Validate
  <2>5. ~foreign BY <1>3 DEF IInv, TablesFit, Acceptable, NonMetadataTables
  <2>6. Accepted(r)'
    BY <1>3, <2>5 DEF Acceptable, ValidateMigrationVersionPrefix, validateMigrationProgressSource,
       Accepted, Validate, completedMigrationChecksumMatches
  <2>7. RunnerFits(r)' BY <1>1, <2>4, <2>6, OthersIdle DEF RunnerFits
  <2> QED BY <1>1, <2>1, <2>2, <2>3, <2>4, <2>7, StepFits
<1> QED BY <1>2, <1>3

LEMMA BootstrapFits == ASSUME IInv, NEW r \in Runners, Bootstrap(r) PROVE IInv'
<1>1. runner[r].pc # "idle" BY DEF Bootstrap, At
<1>2. TypeOK'
  <2>1. CASE "versions" \notin tables BY <2>1 DEF IInv, TypeOK, Bootstrap
  <2>2. CASE "versions" \in tables
    <3>1. tables' \subseteq {"versions", "progress"} BY <2>2 DEF IInv, TypeOK, Bootstrap
    <3>2. runner' = [runner EXCEPT ![r] = State("apply", 1, 0, FALSE)] BY <2>2 DEF Bootstrap
    <3> QED BY <3>1, <3>2 DEF IInv, TypeOK, RunStates, Bootstrap, Idle, State
  <2> QED BY <2>1, <2>2
<1>3. Accepted(r) BY DEF IInv, RunnersFit, RunnerFits, Bootstrap, At
<1>4. TablesFit' BY <1>3 DEF IInv, TablesFit, Bootstrap, Accepted
<1>5. ExecutedOnce' BY DEF IInv, Bootstrap, ExecutedOnce
<1>6. VersionsFit' BY SameVersions DEF Bootstrap
<1>7. /\ \A q \in Runners \ {r} : runner'[q] = runner[q]
      /\ UNCHANGED <<lock, fault>>
  BY DEF IInv, TypeOK, Bootstrap
<1>8. Accepted(r)' BY <1>3 DEF Accepted, Bootstrap, completedMigrationChecksumMatches
<1>9. RunnerFits(r)'
  <2>1. CASE "versions" \notin tables
    <3>1. runner'[r] = runner[r] /\ runner[r].pc = "bootstrap" BY <2>1 DEF Bootstrap, At
    <3> QED BY <1>1, <1>7, <1>8, <3>1, OthersIdle DEF RunnerFits
  <2>2. CASE "versions" \in tables
    <3>1. runner'[r].pc = "apply" /\ runner'[r].version = 1
      BY <2>2 DEF IInv, TypeOK, Bootstrap, Idle, State
    <3>2. "versions" \in tables' BY <2>2 DEF Bootstrap
    <3>3. Before(1)' BY DEF Before
    <3>4. 1 \in 1..(Len(Repository[r]) + 1) BY MigrationAssumption
    <3> QED BY <1>1, <1>7, <1>8, <3>1, <3>2, <3>3, <3>4, OthersIdle DEF RunnerFits
  <2> QED BY <2>1, <2>2
<1> QED BY <1>1, <1>2, <1>4, <1>5, <1>6, <1>7, <1>9, StepFits

\* What holds of a runner that is past the validation, in one place.
LEMMA Busy ==
    ASSUME IInv, NEW r \in Runners,
           runner[r].pc \in {"apply", "statement", "execute", "verify"}
    PROVE  /\ Accepted(r) /\ "versions" \in tables
           /\ runner[r].version \in Nat \ {0} /\ Before(runner[r].version)
           /\ runner[r].version <= Len(Repository[r]) =>
                 /\ runner[r].version \in Versions
                 /\ Own(r) \in Sums /\ Own(r) # Absent
                 /\ Len(Statements[Own(r)]) \in Nat
<1> DEFINE v == runner[r].version
<1>1. /\ Accepted(r) /\ "versions" \in tables
      /\ v \in 1..(Len(Repository[r]) + 1) /\ Before(v)
  BY DEF IInv, RunnersFit, RunnerFits
<1>2. Len(Repository[r]) \in 1..Count /\ Repository[r] \in Seq(Sums) BY MigrationAssumption
<1>3. v \in Nat \ {0} BY <1>1, <1>2, MigrationAssumption
<1>4. ASSUME v <= Len(Repository[r])
      PROVE  v \in Versions /\ Own(r) \in Sums /\ Own(r) # Absent /\ Len(Statements[Own(r)]) \in Nat
  <2>1. v \in Versions BY <1>2, <1>3, <1>4, MigrationAssumption DEF Versions
  <2>2. v \in 1..Len(Repository[r]) BY <1>2, <1>3, <1>4, MigrationAssumption
  <2> HIDE DEF v
  <2>3. Repository[r][v] \in Sums BY <1>2, <2>2
  <2>4. Own(r) \in Sums BY <2>3 DEF Own, v
  <2> QED BY <2>1, <2>4, MigrationAssumption
<1> HIDE DEF v
<1>5. v = runner[r].version BY DEF v
<1> QED BY <1>1, <1>3, <1>4, <1>5

LEMMA NextVersionType ==
    ASSUME TypeOK, NEW r \in Runners
    PROVE  NextVersion(r) \in [Runners -> RunStates]
<1>1. runner[r].version + 1 \in Nat BY DEF TypeOK, RunStates
<1>2. State("apply", runner[r].version + 1, 0, FALSE) \in RunStates BY <1>1 DEF State, RunStates
<1> QED BY <1>2 DEF TypeOK, NextVersion

LEMMA NextVersionFits ==
    ASSUME IInv, NEW r \in Runners, runner[r].pc # "idle", runner' = NextVersion(r),
           NEW v \in 1..Len(Repository[r]), v = runner[r].version, UNCHANGED lock,
           Accepted(r)', "versions" \in tables', Before(v)', recorded'[v] # Absent
    PROVE  RunnerFits(r)' /\ \A q \in Runners \ {r} : runner'[q] = runner[q]
<1>1. /\ runner'[r].pc = "apply" /\ runner'[r].version = v + 1
      /\ \A q \in Runners \ {r} : runner'[q] = runner[q]
  BY DEF IInv, TypeOK, NextVersion, Idle, State
<1>2. v + 1 \in 1..(Len(Repository[r]) + 1) BY MigrationAssumption
<1>3. Before(v + 1)' BY MigrationAssumption DEF Before
<1> QED BY <1>1, <1>2, <1>3, OthersIdle DEF RunnerFits

LEMMA SkipRecordedFits == ASSUME IInv, NEW r \in Runners, SkipRecorded(r) PROVE IInv'
<1>0. PICK v : v = runner[r].version OBVIOUS
<1>1. /\ runner[r].pc = "apply" /\ v <= Len(Repository[r]) /\ recorded[v] # Absent
  BY <1>0 DEF SkipRecorded, At
<1>2. v \in Versions /\ v \in 1..Len(Repository[r]) /\ Accepted(r) /\ Before(v) /\ "versions" \in tables
  BY <1>0, <1>1, Busy, MigrationAssumption
<1>3. progress[v].sum = Absent BY <1>1, <1>2 DEF IInv, VersionsFit, RecordedFits
<1>4. completedMigrationChecksumMatches(Own(r), recorded[v])
  BY <1>0, <1>1, <1>2 DEF Accepted, Own
<1>5. /\ progress' = [progress EXCEPT ![v] = NoRow]
      /\ runner' = NextVersion(r)
      /\ UNCHANGED <<foreign, tables, recorded, effects, repeated, lock, fault, aborts>>
  BY <1>0, <1>3, <1>4 DEF SkipRecorded
<1>6. TypeOK'
  <2>1. progress' \in [Versions -> Rows] BY <1>2, <1>5 DEF IInv, TypeOK, Rows, NoRow
  <2>2. runner' \in [Runners -> RunStates] BY <1>5, NextVersionType DEF IInv
  <2> QED BY <1>5, <2>1, <2>2 DEF IInv, TypeOK
<1>7. \A u \in Versions : progress'[u].sum = progress[u].sum
  BY <1>2, <1>3, <1>5 DEF IInv, TypeOK, NoRow
<1>8. TablesFit' /\ ExecutedOnce' BY <1>5, <1>7 DEF IInv, TablesFit, ExecutedOnce
<1>9. VersionsFit'
  <2>1. \A u \in Versions \ {v} : progress'[u] = progress[u] BY <1>5 DEF IInv, TypeOK
  <2>2. \A u \in Versions \ {v} : (RecordedFits(u) /\ BegunFits(u) /\ FreshFits(u))'
    BY <1>2, <1>5, <1>6, <2>1, OtherVersions DEF IInv
  <2>3. (RecordedFits(v) /\ BegunFits(v) /\ FreshFits(v))'
    BY <1>1, <1>2, <1>3, <1>5, <1>7
       DEF IInv, VersionsFit, RecordedFits, BegunFits, FreshFits, EffectsUpTo, Before
  <2> QED BY <2>2, <2>3 DEF VersionsFit
<1>10. Accepted(r)' BY <1>2, <1>5, <1>7 DEF Accepted, completedMigrationChecksumMatches
<1>11. Before(v)' BY <1>2, <1>5 DEF Before
<1>12. RunnerFits(r)' /\ \A q \in Runners \ {r} : runner'[q] = runner[q]
  BY <1>0, <1>1, <1>2, <1>5, <1>10, <1>11, NextVersionFits
<1> QED BY <1>1, <1>5, <1>6, <1>8, <1>9, <1>12, StepFits

LEMMA BeginVersionFits == ASSUME IInv, NEW r \in Runners, BeginVersion(r) PROVE IInv'
<1>0. PICK v : v = runner[r].version OBVIOUS
<1>00. PICK row : row = IF progress[v].sum = Absent THEN Row(Own(r), 0, "ready") ELSE progress[v]
  OBVIOUS
<1>1. runner[r].pc = "apply" /\ v <= Len(Repository[r]) /\ recorded[v] = Absent
  BY <1>0 DEF BeginVersion, At
<1>2. /\ v \in Versions /\ v \in 1..Len(Repository[r]) /\ Accepted(r) /\ Before(v)
      /\ "versions" \in tables /\ Own(r) \in Sums /\ Own(r) # Absent
      /\ Len(Statements[Own(r)]) \in Nat
  BY <1>0, <1>1, Busy, MigrationAssumption
<1>3. progress[v] \in Rows /\ (progress[v].sum # Absent => progress[v].sum = Own(r))
  BY <1>0, <1>2 DEF IInv, TypeOK, Accepted, Own
<1>4. /\ row \in Rows /\ row.sum = Own(r) /\ row.index <= Len(Statements[Own(r)])
      /\ row.state = "dirty" => row.index < Len(Statements[Own(r)])
  BY <1>00, <1>2, <1>3 DEF IInv, VersionsFit, BegunFits, Row, Rows
<1>5. /\ progress' = [progress EXCEPT ![v] = row]
      /\ runner' = [runner EXCEPT ![r] = State("statement", v, row.index, row.state = "dirty")]
      /\ UNCHANGED <<foreign, tables, recorded, effects, repeated, lock, fault, aborts>>
  BY <1>0, <1>00, <1>4 DEF BeginVersion
<1>6. (BegunFits(v) /\ recorded[v] = Absent)' /\ progress'[v] = row
  <2>1. progress'[v] = row BY <1>2, <1>5 DEF IInv, TypeOK
  <2>2. CASE progress[v].sum # Absent
    BY <1>00, <1>1, <1>2, <1>5, <2>1, <2>2 DEF IInv, VersionsFit, BegunFits, EffectsUpTo, Before, isMigrationDDL
  <2>3. CASE progress[v].sum = Absent
    <3>1. \A e \in effects : e[1] # v BY <1>1, <1>2, <2>3 DEF IInv, VersionsFit, FreshFits
    <3>2. row.sum = Own(r) /\ row.index = 0 /\ row.state = "ready" BY <1>00, <2>3 DEF Row
    <3>3. \A t : EffectsUpTo(v, t, 0)' BY DEF EffectsUpTo
    <3> QED BY <1>1, <1>2, <1>5, <2>1, <3>1, <3>2, <3>3 DEF BegunFits, Before
  <2> QED BY <2>1, <2>2, <2>3
<1>7. TypeOK'
  <2>1. row.index \in Nat BY <1>4 DEF Rows
  <2>2. progress' \in [Versions -> Rows] BY <1>2, <1>4, <1>5 DEF IInv, TypeOK
  <2>3. (row.state = "dirty") \in BOOLEAN OBVIOUS
  <2>4. v \in Nat BY <1>2, MigrationAssumption DEF Versions
  <2>5. State("statement", v, row.index, row.state = "dirty") \in RunStates
    BY <2>1, <2>3, <2>4 DEF RunStates, State
  <2>7. runner' \in [Runners -> RunStates] BY <1>5, <2>5 DEF IInv, TypeOK
  <2> QED BY <1>5, <2>2, <2>7 DEF IInv, TypeOK
<1>8. \A u \in Versions \ {v} : progress'[u] = progress[u] BY <1>5 DEF IInv, TypeOK
<1>9. TablesFit' /\ ExecutedOnce' BY <1>2, <1>5 DEF IInv, TablesFit, ExecutedOnce
<1>10. VersionsFit'
  <2>2. \A u \in Versions \ {v} : (RecordedFits(u) /\ BegunFits(u) /\ FreshFits(u))'
    BY <1>2, <1>5, <1>7, <1>8, OtherVersions DEF IInv
  <2>3. (RecordedFits(v) /\ BegunFits(v) /\ FreshFits(v))'
    BY <1>2, <1>4, <1>6 DEF RecordedFits, FreshFits
  <2> QED BY <2>2, <2>3 DEF VersionsFit
<1>11. /\ runner'[r].pc = "statement" /\ runner'[r].version = v /\ runner'[r].done = row.index
       /\ runner'[r].recovering = (row.state = "dirty")
       /\ \A q \in Runners \ {r} : runner'[q] = runner[q]
  BY <1>0, <1>5 DEF IInv, TypeOK, State
<1>12. Accepted(r)'
  BY <1>0, <1>2, <1>4, <1>5, <1>6, <1>8 DEF Accepted, completedMigrationChecksumMatches, Own
<1>13. Before(v)' BY <1>2, <1>5 DEF Before
<1>14. Own(r)' = Own(r) BY <1>0, <1>11 DEF Own
<1>15. RunnerFits(r)'
  <2> QED BY <1>1, <1>2, <1>4, <1>5, <1>6, <1>11, <1>12, <1>13, <1>14, OthersIdle DEF RunnerFits
<1> QED BY <1>1, <1>5, <1>7, <1>9, <1>10, <1>11, <1>15, StepFits

\* Inside a version: v, its file t and the number d of statements done, as the runner
\* and the row of the version have them.
LEMMA Inside ==
    ASSUME IInv, NEW r \in Runners, runner[r].pc \in {"statement", "execute", "verify"}
    PROVE  \E v \in Versions, t \in Sums, d \in Nat :
             /\ v = runner[r].version /\ t = Own(r) /\ d = runner[r].done
             /\ t = Repository[r][v] /\ t # Absent /\ v \in 1..Len(Repository[r])
             /\ Len(Statements[t]) \in Nat /\ d <= Len(Statements[t])
             /\ recorded[v] = Absent /\ Before(v) /\ BegunFits(v)
             /\ progress[v].sum = t /\ progress[v].index = d
             /\ Accepted(r) /\ "versions" \in tables /\ CheckpointHeld(r) /\ lock = {r}
<1> DEFINE v == runner[r].version
           t == Own(r)
           d == runner[r].done
<1>1. /\ v <= Len(Repository[r]) /\ recorded[v] = Absent
      /\ progress[v].sum = t /\ progress[v].index = d
  BY DEF IInv, RunnersFit, RunnerFits
<1>2. /\ v \in Versions /\ t \in Sums /\ t # Absent /\ Len(Statements[t]) \in Nat
      /\ Before(v) /\ Accepted(r) /\ "versions" \in tables
  BY <1>1, Busy
<1>3. d \in Nat /\ BegunFits(v) BY <1>2 DEF IInv, TypeOK, RunStates, VersionsFit
<1>4. d <= Len(Statements[t]) BY <1>1, <1>2, <1>3 DEF BegunFits
<1>5. v \in 1..Len(Repository[r]) BY <1>1, <1>2, MigrationAssumption DEF Versions
<1>6. t = Repository[r][v] /\ CheckpointHeld(r) BY <1>1 DEF Own, CheckpointHeld
<1>7. lock = {r} BY OthersIdle
<1> HIDE DEF v, t, d
<1> QED BY <1>1, <1>2, <1>3, <1>4, <1>5, <1>6, <1>7 DEF v, t, d

\* A step inside version v, whose checkpoint and effects still fit together after it.
LEMMA InsideFits ==
    ASSUME IInv, TypeOK', NEW r \in Runners, NEW v \in Versions, NEW t \in Sums, NEW row,
           v \in 1..Len(Repository[r]), t = Repository[r][v], t # Absent, recorded[v] = Absent,
           "versions" \in tables, Accepted(r),
           row.sum = t, progress' = [progress EXCEPT ![v] = row],
           UNCHANGED <<foreign, tables, recorded>>,
           \A e \in effects' : e[1] # v => e \in effects,
           \A e \in effects : e \in effects',
           BegunFits(v)'
    PROVE  TablesFit' /\ VersionsFit' /\ Accepted(r)'
<1>1. progress'[v] = row /\ \A u \in Versions \ {v} : progress'[u] = progress[u]
  BY DEF IInv, TypeOK
<1>2. TablesFit' BY DEF IInv, TablesFit
<1>6. (RecordedFits(v) /\ FreshFits(v))' BY <1>1 DEF RecordedFits, FreshFits
<1>7. \A u \in Versions \ {v} : (RecordedFits(u) /\ BegunFits(u) /\ FreshFits(u))'
  <2> SUFFICES ASSUME NEW u \in Versions \ {v}
               PROVE  (RecordedFits(u) /\ BegunFits(u) /\ FreshFits(u))'
    OBVIOUS
  <2>1. \A e \in effects' : e[1] = u => e \in effects OBVIOUS
  <2>2. \A e \in effects : e \in effects' OBVIOUS
  <2>3. recorded'[u] = recorded[u] /\ progress'[u] = progress[u] BY <1>1
  <2>4. \A w \in Versions : recorded[w] # Absent => recorded'[w] # Absent OBVIOUS
  <2> QED BY <2>1, <2>2, <2>3, <2>4, OtherVersions DEF IInv
<1>8. VersionsFit' BY <1>6, <1>7 DEF VersionsFit
<1>9. Accepted(r)' BY <1>1 DEF Accepted, completedMigrationChecksumMatches
<1> QED BY <1>2, <1>8, <1>9

\* What a checkpoint after a step must show to fit.
LEMMA BegunAfter ==
    ASSUME NEW v \in Versions, NEW t \in Sums, NEW n \in Nat, NEW st,
           recorded'[v] = Absent, Before(v)',
           progress'[v].sum = t, progress'[v].index = n, progress'[v].state = st,
           n <= Len(Statements[t]),
           st = "dirty" => n < Len(Statements[t]) /\ isMigrationDDL(t, n + 1),
           \A m \in 1..n : <<v, t, m>> \in effects',
           \A e \in effects' : e[1] = v =>
              e[2] = t /\ e[3] \in 1..(n + 1) /\ (e[3] = n + 1 => st = "dirty")
    PROVE  BegunFits(v)'
<1>1. EffectsUpTo(v, progress[v].sum, progress[v].index)' BY DEF EffectsUpTo
<1>2. (progress[v].state = "dirty" =>
          /\ progress[v].index < Len(Statements[progress[v].sum])
          /\ isMigrationDDL(progress[v].sum, progress[v].index + 1))'
  BY DEF isMigrationDDL
<1> QED BY <1>1, <1>2 DEF BegunFits

\* The same for a checkpoint that is dirty after the step.
LEMMA DirtyAfter ==
    ASSUME NEW v \in Versions, NEW t \in Sums, NEW n \in Nat,
           recorded'[v] = Absent, Before(v)',
           progress'[v].sum = t, progress'[v].index = n, progress'[v].state = "dirty",
           n < Len(Statements[t]), isMigrationDDL(t, n + 1), Len(Statements[t]) \in Nat,
           \A m \in 1..n : <<v, t, m>> \in effects',
           \A e \in effects' : e[1] = v => e[2] = t /\ e[3] \in 1..(n + 1)
    PROVE  BegunFits(v)'
<1>1. EffectsUpTo(v, progress[v].sum, progress[v].index)' BY DEF EffectsUpTo
<1>2. isMigrationDDL(progress[v].sum, progress[v].index + 1)' BY DEF isMigrationDDL
<1>3. n <= Len(Statements[t]) OBVIOUS
<1> QED BY <1>1, <1>2, <1>3 DEF BegunFits

\* What a begun version says of the effects.
LEMMA BegunMeans ==
    ASSUME NEW v, NEW t, NEW d \in Nat, BegunFits(v), t # Absent, progress[v].sum = t, progress[v].index = d
    PROVE  /\ \A m \in 1..d : <<v, t, m>> \in effects
           /\ \A e \in effects : e[1] = v => e[2] = t /\ e[3] \in 1..(d + 1)
           /\ progress[v].state = "dirty" => d < Len(Statements[t])
  BY DEF BegunFits, EffectsUpTo

\* The checkpoint moves past a statement that is in effect after the step.
LEMMA DoneFits ==
    ASSUME IInv, NEW r \in Runners, runner[r].pc \in {"statement", "execute", "verify"},
           runner[r].done < Len(Statements[Own(r)]),
           Checkpoint(r, runner[r].done + 1, "ready"),
           runner' = [runner EXCEPT ![r] = State("statement", runner[r].version, runner[r].done + 1, FALSE)],
           effects' = effects \cup {<<runner[r].version, Own(r), runner[r].done + 1>>},
           UNCHANGED <<foreign, tables, recorded, repeated, lock, fault, aborts>>
    PROVE  IInv'
<1>2. PICK v \in Versions, t \in Sums, d \in Nat :
             /\ v = runner[r].version /\ t = Own(r) /\ d = runner[r].done
             /\ t = Repository[r][v] /\ t # Absent /\ v \in 1..Len(Repository[r])
             /\ Len(Statements[t]) \in Nat /\ d <= Len(Statements[t])
             /\ recorded[v] = Absent /\ Before(v) /\ BegunFits(v)
             /\ progress[v].sum = t /\ progress[v].index = d
             /\ Accepted(r) /\ "versions" \in tables /\ CheckpointHeld(r) /\ lock = {r}
  BY Inside
<1>3. /\ progress' = [progress EXCEPT ![v] = Row(t, d + 1, "ready")]
      /\ runner' = [runner EXCEPT ![r] = State("statement", v, d + 1, FALSE)]
      /\ effects' = effects \cup {<<v, t, d + 1>>}
      /\ d < Len(Statements[t])
  BY <1>2 DEF Checkpoint
<1>20. /\ BegunFits(v) /\ t # Absent /\ progress[v].sum = t /\ progress[v].index = d
       /\ Len(Statements[t]) \in Nat
  BY <1>2
<1>30. d < Len(Statements[t]) BY <1>3
<1>5. TypeOK'
  <2>1. Row(t, d + 1, "ready") \in Rows BY DEF Row, Rows
  <2>2. progress' \in [Versions -> Rows] BY <1>3, <2>1 DEF IInv, TypeOK
  <2>3. State("statement", v, d + 1, FALSE) \in RunStates
    BY MigrationAssumption DEF RunStates, State, Versions
  <2>4. runner' \in [Runners -> RunStates] BY <1>3, <2>3 DEF IInv, TypeOK
  <2>5. <<v, t, d + 1>> \in Versions \X Sums \X Nat OBVIOUS
  <2>6. effects' \subseteq Versions \X Sums \X Nat BY <1>3, <2>5 DEF IInv, TypeOK
  <2> QED BY <1>3, <2>2, <2>4, <2>6 DEF IInv, TypeOK
<1>6. PICK row : row = Row(t, d + 1, "ready") OBVIOUS
<1>7. progress'[v] = row /\ row.sum = t /\ row.index = d + 1 /\ row.state = "ready"
  BY <1>3, <1>6 DEF IInv, TypeOK, Row
<1>8. BegunFits(v)'
  <2>0. /\ \A m \in 1..d : <<v, t, m>> \in effects
        /\ \A e \in effects : e[1] = v => e[2] = t /\ e[3] \in 1..(d + 1)
    BY <1>20, BegunMeans
  <2>1. \A m \in 1..(d + 1) : <<v, t, m>> \in effects'
    BY <1>3, <2>0
  <2>2. \A e \in effects' : e[1] = v => e[2] = t /\ e[3] \in 1..(d + 1)
    BY <1>3, <2>0
  <2>3. Before(v)' BY <1>2 DEF Before
  <2>4. \A e \in effects' : e[1] = v =>
          e[2] = t /\ e[3] \in 1..((d + 1) + 1) /\ e[3] # (d + 1) + 1
    BY <2>2
  <2>5. PICK n \in Nat : n = d + 1 BY <1>2
  <2>6. n <= Len(Statements[t]) BY <1>20, <1>30, <2>5
  <2>7. recorded'[v] = Absent BY <1>2
  <2> QED BY <1>7, <2>1, <2>3, <2>4, <2>5, <2>6, <2>7, BegunAfter
<1>9. TablesFit' /\ VersionsFit' /\ Accepted(r)'
  <2>1. /\ \A e \in effects' : e[1] # v => e \in effects
        /\ \A e \in effects : e \in effects'
    BY <1>3
  <2>2. progress' = [progress EXCEPT ![v] = row] BY <1>3, <1>6
  <2>3. UNCHANGED <<foreign, tables, recorded>> OBVIOUS
  <2> QED BY <1>2, <1>5, <1>7, <1>8, <2>1, <2>2, <2>3, InsideFits
<1>10. /\ runner'[r].pc = "statement" /\ runner'[r].version = v /\ runner'[r].done = d + 1
       /\ runner'[r].recovering = FALSE
       /\ \A q \in Runners \ {r} : runner'[q] = runner[q]
  BY <1>3 DEF IInv, TypeOK, State
<1>11. RunnerFits(r)'
  <2>1. v \in 1..(Len(Repository[r]) + 1) /\ v <= Len(Repository[r]) BY <1>2, MigrationAssumption
  <2>2. Own(r)' = t BY <1>2, <1>10 DEF Own
  <2>3. Before(v)' /\ recorded'[v] = Absent BY <1>2 DEF Before
  <2> QED BY <1>2, <1>7, <1>9, <1>10, <2>1, <2>2, <2>3 DEF RunnerFits
<1>12. ExecutedOnce' BY DEF IInv, ExecutedOnce
<1> QED BY <1>5, <1>9, <1>10, <1>11, <1>12, StepFits

\* The postcondition of a begun version's next statement shows that the file's own
\* statement took effect, although it does not name the file.
LEMMA PostconditionShows ==
    ASSUME IInv, NEW r \in Runners, runner[r].pc \in {"statement", "execute", "verify"},
           verifyDDLPostcondition(runner[r].version, runner[r].done + 1)
    PROVE  <<runner[r].version, Own(r), runner[r].done + 1>> \in effects
<1>1. PICK v \in Versions, t \in Sums, d \in Nat :
             /\ v = runner[r].version /\ t = Own(r) /\ d = runner[r].done
             /\ t = Repository[r][v] /\ t # Absent /\ v \in 1..Len(Repository[r])
             /\ Len(Statements[t]) \in Nat /\ d <= Len(Statements[t])
             /\ recorded[v] = Absent /\ Before(v) /\ BegunFits(v)
             /\ progress[v].sum = t /\ progress[v].index = d
             /\ Accepted(r) /\ "versions" \in tables /\ CheckpointHeld(r) /\ lock = {r}
  BY Inside
<1>2. PICK x \in Sums : <<v, x, d + 1>> \in effects BY <1>1 DEF verifyDDLPostcondition
<1>3. x = t BY <1>1, <1>2 DEF BegunFits
<1> QED BY <1>1, <1>2, <1>3

LEMMA RecoverDDLFits == ASSUME IInv, NEW r \in Runners, RecoverDDL(r) PROVE IInv'
<1>1. runner[r].pc \in {"statement", "execute", "verify"} BY DEF RecoverDDL, Pending, At
<1>2. CheckpointHeld(r) BY <1>1, Inside
<1>3. <<runner[r].version, Own(r), runner[r].done + 1>> \in effects
  BY <1>1, PostconditionShows DEF RecoverDDL
<1> QED BY <1>1, <1>2, <1>3, DoneFits DEF RecoverDDL, Pending

LEMMA CheckpointDDLFits == ASSUME IInv, NEW r \in Runners, CheckpointDDL(r) PROVE IInv'
<1>1. runner[r].pc = "verify" BY DEF CheckpointDDL, At
<1>2. PICK v \in Versions, t \in Sums, d \in Nat :
             /\ v = runner[r].version /\ t = Own(r) /\ d = runner[r].done
             /\ t = Repository[r][v] /\ t # Absent /\ v \in 1..Len(Repository[r])
             /\ Len(Statements[t]) \in Nat /\ d <= Len(Statements[t])
             /\ recorded[v] = Absent /\ Before(v) /\ BegunFits(v)
             /\ progress[v].sum = t /\ progress[v].index = d
             /\ Accepted(r) /\ "versions" \in tables /\ CheckpointHeld(r) /\ lock = {r}
  BY <1>1, Inside
<1>3. <<v, t, d + 1>> \in effects /\ progress[v].state = "dirty"
  BY <1>1, <1>2 DEF IInv, RunnersFit, RunnerFits
<1>4. d < Len(Statements[t]) BY <1>2, <1>3 DEF BegunFits
<1>5. verifyDDLPostcondition(v, d + 1) BY <1>3 DEF verifyDDLPostcondition
<1> QED BY <1>1, <1>2, <1>3, <1>4, <1>5, DoneFits DEF CheckpointDDL

LEMMA ApplyTransactionalFits == ASSUME IInv, NEW r \in Runners, ApplyTransactional(r) PROVE IInv'
<1>1. runner[r].pc = "statement" BY DEF ApplyTransactional, Pending, At
<1>2. PICK v \in Versions, t \in Sums, d \in Nat :
             /\ v = runner[r].version /\ t = Own(r) /\ d = runner[r].done
             /\ t = Repository[r][v] /\ t # Absent /\ v \in 1..Len(Repository[r])
             /\ Len(Statements[t]) \in Nat /\ d <= Len(Statements[t])
             /\ recorded[v] = Absent /\ Before(v) /\ BegunFits(v)
             /\ progress[v].sum = t /\ progress[v].index = d
             /\ Accepted(r) /\ "versions" \in tables /\ CheckpointHeld(r) /\ lock = {r}
  BY <1>1, Inside
<1>3. d < Len(Statements[t]) /\ ~isMigrationDDL(t, d + 1)
  BY <1>2 DEF ApplyTransactional, Pending
<1>4. progress[v].state # "dirty" BY <1>2, <1>3 DEF BegunFits
<1>5. ~runner[r].recovering BY <1>1, <1>2, <1>4 DEF IInv, RunnersFit, RunnerFits
<1>6. <<v, t, d + 1>> \notin effects BY <1>2, <1>4 DEF BegunFits
<1>7. /\ TakeEffect(v, t, d + 1) /\ Checkpoint(r, d + 1, "ready")
      /\ runner' = [runner EXCEPT ![r].done = d + 1]
      /\ UNCHANGED <<foreign, tables, recorded, lock, fault, aborts>>
  BY <1>2, <1>5 DEF ApplyTransactional
<1>8. effects' = effects \cup {<<v, t, d + 1>>} /\ repeated' = repeated
  BY <1>6, <1>7 DEF TakeEffect
<1>9. runner' = [runner EXCEPT ![r] = State("statement", v, d + 1, FALSE)]
  <2>0. runner[r] \in RunStates BY DEF IInv, TypeOK
  <2>1. [runner[r] EXCEPT !.done = d + 1] = State("statement", v, d + 1, FALSE)
    <3>2. runner[r].recovering = FALSE BY <1>5, <2>0 DEF RunStates
    <3>3. [runner[r] EXCEPT !.done = d + 1] = State("statement", v, d + 1, runner[r].recovering)
      BY <1>1, <1>2, <2>0 DEF RunStates, State
    <3> QED BY <3>2, <3>3
  <2>2. runner' = [runner EXCEPT ![r] = [runner[r] EXCEPT !.done = d + 1]]
    BY <1>7 DEF IInv, TypeOK
  <2> QED BY <2>1, <2>2
<1> QED BY <1>1, <1>2, <1>3, <1>7, <1>8, <1>9, DoneFits

LEMMA MarkDirtyFits == ASSUME IInv, NEW r \in Runners, MarkDirty(r) PROVE IInv'
<1>1. runner[r].pc = "statement" BY DEF MarkDirty, Pending, At
<1>2. PICK v \in Versions, t \in Sums, d \in Nat :
             /\ v = runner[r].version /\ t = Own(r) /\ d = runner[r].done
             /\ t = Repository[r][v] /\ t # Absent /\ v \in 1..Len(Repository[r])
             /\ Len(Statements[t]) \in Nat /\ d <= Len(Statements[t])
             /\ recorded[v] = Absent /\ Before(v) /\ BegunFits(v)
             /\ progress[v].sum = t /\ progress[v].index = d
             /\ Accepted(r) /\ "versions" \in tables /\ CheckpointHeld(r) /\ lock = {r}
  BY <1>1, Inside
<1>3. /\ progress' = [progress EXCEPT ![v] = Row(t, d, "dirty")]
      /\ runner' = [runner EXCEPT ![r] = State("execute", v, d, runner[r].recovering)]
      /\ UNCHANGED <<foreign, tables, recorded, effects, repeated, lock, fault, aborts>>
      /\ d < Len(Statements[t]) /\ isMigrationDDL(t, d + 1)
      /\ runner[r].recovering => ~verifyDDLPostcondition(v, d + 1)
  <2>1. (d + 1) - 1 = d OBVIOUS
  <2>2. [runner[r] EXCEPT !.pc = "execute"] = State("execute", v, d, runner[r].recovering)
    BY <1>2 DEF IInv, TypeOK, RunStates, State
  <2>3. runner' = [runner EXCEPT ![r] = [runner[r] EXCEPT !.pc = "execute"]]
    BY <1>2 DEF MarkDirty, IInv, TypeOK
  <2> QED BY <1>2, <2>1, <2>2, <2>3 DEF MarkDirty, Checkpoint, Pending
<1>20. /\ BegunFits(v) /\ t # Absent /\ progress[v].sum = t /\ progress[v].index = d
       /\ Len(Statements[t]) \in Nat
  BY <1>2
<1>30. d < Len(Statements[t]) /\ isMigrationDDL(t, d + 1) /\ effects' = effects BY <1>3
<1>4. <<v, t, d + 1>> \notin effects
  <2>1. CASE runner[r].recovering BY <1>3, <2>1 DEF verifyDDLPostcondition
  <2>2. CASE ~runner[r].recovering
    <3>1. progress[v].state # "dirty" BY <1>1, <1>2, <2>2 DEF IInv, RunnersFit, RunnerFits
    <3> QED BY <1>2, <3>1 DEF BegunFits
  <2> QED BY <2>1, <2>2
<1>5. TypeOK'
  <2>1. Row(t, d, "dirty") \in Rows BY DEF Row, Rows
  <2>2. progress' \in [Versions -> Rows] BY <1>3, <2>1 DEF IInv, TypeOK
  <2>3. runner[r].recovering \in BOOLEAN BY DEF IInv, TypeOK, RunStates
  <2>4. State("execute", v, d, runner[r].recovering) \in RunStates
    BY <2>3, MigrationAssumption DEF RunStates, State, Versions
  <2>5. runner' \in [Runners -> RunStates] BY <1>3, <2>4 DEF IInv, TypeOK
  <2> QED BY <1>3, <2>2, <2>5 DEF IInv, TypeOK
<1>6. PICK row : row = Row(t, d, "dirty") OBVIOUS
<1>7. progress'[v] = row /\ row.sum = t /\ row.index = d /\ row.state = "dirty"
  BY <1>3, <1>6 DEF IInv, TypeOK, Row
<1>8. BegunFits(v)'
  <2>1. \A m \in 1..d : <<v, t, m>> \in effects' BY <1>2, <1>3 DEF BegunFits, EffectsUpTo
  <2>2. Before(v)' /\ recorded'[v] = Absent BY <1>2, <1>3 DEF Before
  <2>3. \A e \in effects' : e[1] = v => e[2] = t /\ e[3] \in 1..(d + 1)
    BY <1>20, <1>30, BegunMeans
  <2>4. progress'[v].sum = t /\ progress'[v].index = d /\ progress'[v].state = "dirty" BY <1>7
  <2> QED BY <1>20, <1>30, <2>1, <2>2, <2>3, <2>4, DirtyAfter
<1>9. TablesFit' /\ VersionsFit' /\ Accepted(r)'
  BY <1>2, <1>3, <1>5, <1>6, <1>7, <1>8, InsideFits
<1>10. /\ runner'[r].pc = "execute" /\ runner'[r].version = v /\ runner'[r].done = d
       /\ \A q \in Runners \ {r} : runner'[q] = runner[q]
  <2>1. runner \in [Runners -> RunStates] BY DEF IInv, TypeOK
  <2>2. runner'[r] = State("execute", v, d, runner[r].recovering) BY <1>3, <2>1
  <2>3. \A q \in Runners \ {r} : runner'[q] = runner[q] BY <1>3, <2>1
  <2> QED BY <2>2, <2>3 DEF State
<1>11. RunnerFits(r)'
  <2>1. v \in 1..(Len(Repository[r]) + 1) /\ v <= Len(Repository[r]) BY <1>2, MigrationAssumption
  <2>2. Own(r)' = t BY <1>2, <1>10 DEF Own
  <2>3. Before(v)' /\ recorded'[v] = Absent BY <1>2, <1>3 DEF Before
  <2>4. lock' = {r} /\ Accepted(r)' /\ "versions" \in tables' /\ <<v, t, d + 1>> \notin effects'
    BY <1>2, <1>3, <1>4, <1>9
  <2>5. progress'[v].sum = t /\ progress'[v].index = d /\ progress'[v].state = "dirty" BY <1>7
  <2> QED BY <1>10, <2>1, <2>2, <2>3, <2>4, <2>5 DEF RunnerFits
<1>12. ExecutedOnce' BY <1>3 DEF IInv, ExecutedOnce
<1> QED BY <1>1, <1>3, <1>5, <1>9, <1>10, <1>11, <1>12, StepFits

\* A statement that changes the schema takes effect: after the step its checkpoint is
\* still dirty and nothing else has changed.
LEMMA EffectFits ==
    ASSUME IInv, NEW r \in Runners, runner[r].pc = "execute",
           TakeEffect(runner[r].version, Own(r), runner[r].done + 1),
           UNCHANGED <<foreign, tables, recorded, progress>>,
           runner' \in [Runners -> RunStates], lock' \subseteq Runners, fault' \in BOOLEAN, aborts' \in Nat
    PROVE  TypeOK' /\ TablesFit' /\ VersionsFit' /\ Accepted(r)' /\ ExecutedOnce'
<1>1. runner[r].pc \in {"statement", "execute", "verify"} OBVIOUS
<1>2. PICK v \in Versions, t \in Sums, d \in Nat :
             /\ v = runner[r].version /\ t = Own(r) /\ d = runner[r].done
             /\ t = Repository[r][v] /\ t # Absent /\ v \in 1..Len(Repository[r])
             /\ Len(Statements[t]) \in Nat /\ d <= Len(Statements[t])
             /\ recorded[v] = Absent /\ Before(v) /\ BegunFits(v)
             /\ progress[v].sum = t /\ progress[v].index = d
             /\ Accepted(r) /\ "versions" \in tables /\ CheckpointHeld(r) /\ lock = {r}
  BY <1>1, Inside
<1>3. <<v, t, d + 1>> \notin effects /\ progress[v].state = "dirty"
  BY <1>2 DEF IInv, RunnersFit, RunnerFits
<1>4. effects' = effects \cup {<<v, t, d + 1>>} /\ repeated' = repeated
  BY <1>2, <1>3 DEF TakeEffect
<1>5. TypeOK'
  <2>1. <<v, t, d + 1>> \in Versions \X Sums \X Nat OBVIOUS
  <2>2. effects' \subseteq Versions \X Sums \X Nat BY <1>4, <2>1 DEF IInv, TypeOK
  <2> QED BY <1>4, <2>2 DEF IInv, TypeOK
<1>6. PICK row : row = progress[v] OBVIOUS
<1>7. progress' = [progress EXCEPT ![v] = row] /\ row.sum = t BY <1>2, <1>6 DEF IInv, TypeOK
<1>8. BegunFits(v)'
  <2>1. \A m \in 1..d : <<v, t, m>> \in effects' BY <1>2, <1>4 DEF BegunFits, EffectsUpTo
  <2>2. Before(v)' /\ recorded'[v] = Absent BY <1>2 DEF Before
  <2>3. \A e \in effects' : e[1] = v => e[2] = t /\ e[3] \in 1..(d + 1)
    BY <1>2, <1>4 DEF BegunFits
  <2>4. d < Len(Statements[t]) /\ isMigrationDDL(t, d + 1) BY <1>2, <1>3 DEF BegunFits
  <2>5. progress'[v].sum = t /\ progress'[v].index = d /\ progress'[v].state = "dirty"
    BY <1>2, <1>3
  <2> QED BY <1>2, <2>1, <2>2, <2>3, <2>4, <2>5, DirtyAfter
<1>9. /\ \A e \in effects' : e[1] # v => e \in effects
      /\ \A e \in effects : e \in effects'
  BY <1>4
<1>10. TablesFit' /\ VersionsFit' /\ Accepted(r)'
  BY <1>2, <1>5, <1>7, <1>8, <1>9, InsideFits
<1>11. ExecutedOnce' BY <1>4 DEF IInv, ExecutedOnce
<1> QED BY <1>5, <1>10, <1>11

LEMMA ExecuteDDLFits == ASSUME IInv, NEW r \in Runners, ExecuteDDL(r) PROVE IInv'
<1>0. runner[r].pc = "execute" BY DEF ExecuteDDL, At
<1>1. runner[r].pc \in {"statement", "execute", "verify"} BY <1>0
<1>2. PICK v \in Versions, t \in Sums, d \in Nat :
             /\ v = runner[r].version /\ t = Own(r) /\ d = runner[r].done
             /\ t = Repository[r][v] /\ t # Absent /\ v \in 1..Len(Repository[r])
             /\ Len(Statements[t]) \in Nat /\ d <= Len(Statements[t])
             /\ recorded[v] = Absent /\ Before(v) /\ BegunFits(v)
             /\ progress[v].sum = t /\ progress[v].index = d
             /\ Accepted(r) /\ "versions" \in tables /\ CheckpointHeld(r) /\ lock = {r}
  BY <1>1, Inside
<1>3. /\ runner' = [runner EXCEPT ![r].pc = "verify"]
      /\ UNCHANGED <<foreign, tables, recorded, progress, lock, fault, aborts>>
      /\ TakeEffect(runner[r].version, Own(r), runner[r].done + 1)
  BY DEF ExecuteDDL
<1>4. runner' \in [Runners -> RunStates] BY <1>3 DEF IInv, TypeOK, RunStates
<1>5. TypeOK' /\ TablesFit' /\ VersionsFit' /\ Accepted(r)' /\ ExecutedOnce'
  <2>1. lock' \subseteq Runners /\ fault' \in BOOLEAN /\ aborts' \in Nat BY <1>3 DEF IInv, TypeOK
  <2>2. UNCHANGED <<foreign, tables, recorded, progress>> BY <1>3
  <2> QED BY <1>0, <1>3, <1>4, <2>1, <2>2, EffectFits
<1>6. /\ runner'[r].pc = "verify" /\ runner'[r].version = v /\ runner'[r].done = d
      /\ \A q \in Runners \ {r} : runner'[q] = runner[q]
  BY <1>2, <1>3 DEF IInv, TypeOK, RunStates
<1>7. <<v, t, d + 1>> \in effects' BY <1>2, <1>3 DEF TakeEffect
<1>8. progress[v].state = "dirty" BY <1>0, <1>2 DEF IInv, RunnersFit, RunnerFits
<1>9. RunnerFits(r)'
  <2>1. v \in 1..(Len(Repository[r]) + 1) /\ v <= Len(Repository[r]) BY <1>2, MigrationAssumption
  <2>2. Own(r)' = t BY <1>2, <1>6 DEF Own
  <2>3. Before(v)' /\ recorded'[v] = Absent BY <1>2, <1>3 DEF Before
  <2> QED BY <1>2, <1>3, <1>5, <1>6, <1>7, <1>8, <2>1, <2>2, <2>3 DEF RunnerFits
<1> QED BY <1>0, <1>3, <1>5, <1>6, <1>9, StepFits

LEMMA RecordFits == ASSUME IInv, NEW r \in Runners, Record(r) PROVE IInv'
<1>1. runner[r].pc = "statement" BY DEF Record, At
<1>2. PICK v \in Versions, t \in Sums, d \in Nat :
             /\ v = runner[r].version /\ t = Own(r) /\ d = runner[r].done
             /\ t = Repository[r][v] /\ t # Absent /\ v \in 1..Len(Repository[r])
             /\ Len(Statements[t]) \in Nat /\ d <= Len(Statements[t])
             /\ recorded[v] = Absent /\ Before(v) /\ BegunFits(v)
             /\ progress[v].sum = t /\ progress[v].index = d
             /\ Accepted(r) /\ "versions" \in tables /\ CheckpointHeld(r) /\ lock = {r}
  BY <1>1, Inside
<1>3. /\ d = Len(Statements[t])
      /\ recorded' = [recorded EXCEPT ![v] = t]
      /\ progress' = [progress EXCEPT ![v] = NoRow]
      /\ runner' = NextVersion(r)
      /\ UNCHANGED <<foreign, tables, effects, repeated, lock, fault, aborts>>
  BY <1>2 DEF Record
<1>20. /\ BegunFits(v) /\ t # Absent /\ progress[v].sum = t /\ progress[v].index = d
       /\ Len(Statements[t]) \in Nat
  BY <1>2
<1>4. progress[v].state # "dirty"
  <2>1. d = Len(Statements[t]) BY <1>3
  <2> QED BY <1>20, <2>1, BegunMeans
<1>5. TypeOK'
  <2>1. recorded' \in [Versions -> Sums \cup {Absent}] BY <1>3 DEF IInv, TypeOK
  <2>2. progress' \in [Versions -> Rows] BY <1>3 DEF IInv, TypeOK, Rows, NoRow
  <2>3. runner' \in [Runners -> RunStates] BY <1>3, NextVersionType DEF IInv
  <2> QED BY <1>3, <2>1, <2>2, <2>3 DEF IInv, TypeOK
<1>6. /\ recorded'[v] = t /\ progress'[v].sum = Absent
      /\ \A u \in Versions \ {v} : recorded'[u] = recorded[u] /\ progress'[u] = progress[u]
  BY <1>3 DEF IInv, TypeOK, NoRow
<1>7. TablesFit' /\ ExecutedOnce' BY <1>2, <1>3 DEF IInv, TablesFit, ExecutedOnce
<1>8. Before(v)'
  <2>1. \A u \in 1..(v - 1) : u \in Versions \ {v} BY MigrationAssumption DEF Versions
  <2> QED BY <1>2, <1>6, <2>1 DEF Before
<1>9. VersionsFit'
  <2>1. \A w \in Versions : recorded[w] # Absent => recorded'[w] # Absent BY <1>2, <1>6
  <2>2. \A u \in Versions \ {v} : (RecordedFits(u) /\ BegunFits(u) /\ FreshFits(u))'
    BY <1>3, <1>5, <1>6, <2>1, OtherVersions DEF IInv
  <2>3. EffectsUpTo(v, t, Len(Statements[t]))' BY <1>2, <1>3 DEF BegunFits, EffectsUpTo
  <2>4. \A e \in effects' : e[1] = v => e[2] = t /\ e[3] \in 1..Len(Statements[t])
    <3>1. \A e \in effects : e[1] = v =>
             e[2] = t /\ e[3] \in 1..(d + 1) /\ e[3] # d + 1
      BY <1>2, <1>4 DEF BegunFits
    <3>2. \A n \in 1..(d + 1) : n # d + 1 => n \in 1..d OBVIOUS
    <3>3. \A e \in effects : e[1] = v => e[2] = t /\ e[3] \in 1..d BY <3>1, <3>2
    <3> QED BY <1>3, <3>3
  <2>5. RecordedFits(v)' BY <1>6, <1>8, <2>3, <2>4 DEF RecordedFits
  <2>6. (BegunFits(v) /\ FreshFits(v))' BY <1>2, <1>6 DEF BegunFits, FreshFits
  <2> QED BY <2>2, <2>5, <2>6 DEF VersionsFit
<1>10. Accepted(r)'
  <2>1. v <= Len(Repository[r]) BY <1>2, MigrationAssumption
  <2> QED BY <1>2, <1>3, <1>6, <2>1 DEF Accepted, completedMigrationChecksumMatches
<1>11. RunnerFits(r)' /\ \A q \in Runners \ {r} : runner'[q] = runner[q]
  BY <1>1, <1>2, <1>3, <1>6, <1>8, <1>10, NextVersionFits
<1> QED BY <1>1, <1>3, <1>5, <1>7, <1>9, <1>11, StepFits

LEMMA FinishFits == ASSUME IInv, NEW r \in Runners, Finish(r) PROVE IInv'
<1>1. aborts' \in Nat /\ runner[r].pc # "idle" BY DEF IInv, TypeOK, Finish, At
<1> QED BY <1>1, ReturnFits DEF Finish

LEMMA AbortFits == ASSUME IInv, NEW r \in Runners, Abort(r) PROVE IInv'
<1>1. aborts' \in Nat /\ runner[r].pc # "idle" /\ Return(r) BY DEF IInv, TypeOK, Abort, At
<1>2. CASE UNCHANGED <<effects, repeated>> BY <1>1, <1>2, ReturnFits DEF Abort
<1>3. CASE At(r, "execute") /\ TakeEffect(runner[r].version, Own(r), runner[r].done + 1)
  <2>1. runner' \in [Runners -> RunStates] /\ lock' \subseteq Runners
    BY <1>1 DEF IInv, TypeOK, Return, Idle, State, RunStates
  <2>2. fault' \in BOOLEAN /\ UNCHANGED <<foreign, tables, recorded, progress>>
    BY DEF IInv, TypeOK, Abort
  <2>3. TypeOK' /\ TablesFit' /\ VersionsFit' /\ ExecutedOnce'
    BY <1>1, <1>3, <2>1, <2>2, EffectFits DEF At
  <2>4. NoContractError' BY DEF IInv, NoContractError, Abort
  <2>5. lock' = {} BY <1>1, OthersIdle DEF Return
  <2>6. \A q \in Runners \ {r} : RunnerFits(q)'
    <3>1. \A q \in Runners \ {r} : runner'[q] = runner[q] BY <1>1 DEF IInv, TypeOK, Return
    <3> QED BY <1>1, <2>5, <3>1, OthersStay
  <2>7. RunnerFits(r)'
    <3>1. runner'[r] = Idle BY <1>1 DEF IInv, TypeOK, Return
    <3> QED BY <2>5, <3>1 DEF RunnerFits, Idle, State
  <2> QED BY <2>3, <2>4, <2>6, <2>7 DEF IInv, RunnersFit
<1> QED BY <1>2, <1>3 DEF Abort

LEMMA StepInv == IInv /\ [Next]_vars => IInv'
<1> SUFFICES ASSUME IInv, [Next]_vars PROVE IInv' OBVIOUS
<1>1. CASE UNCHANGED vars
  BY <1>1 DEF vars, IInv, TypeOK, TablesFit, VersionsFit, RecordedFits, BegunFits, FreshFits,
     EffectsUpTo, Before, isMigrationDDL, RunnersFit, RunnerFits, Own, Accepted,
     completedMigrationChecksumMatches, ExecutedOnce, NoContractError
<1>2. CASE Next
  <2>1. PICK r \in Runners : Run(r) \/ Abort(r) BY <1>2 DEF Next
  <2> QED BY <2>1, AcquireFits, ValidateFits, BootstrapFits, SkipRecordedFits, BeginVersionFits,
       RecoverDDLFits, MarkDirtyFits, ExecuteDDLFits, CheckpointDDLFits, ApplyTransactionalFits,
       RecordFits, FinishFits, AbortFits DEF Run
<1> QED BY <1>1, <1>2

\* The invariant holds throughout, for every number of runners and versions, all files
\* and every pattern of interruptions.
THEOREM MigrationInvariance == Spec => []IInv
<1>1. Init => IInv BY InitFits
<1>2. IInv /\ [Next]_vars => IInv' BY StepInv
<1> QED BY <1>1, <1>2, PTL DEF Spec

\* What model/migration.go is for: no statement is executed again once it took effect,
\* and no run stops at a checkpoint it takes for impossible.
THEOREM StatementsRunOnce == Spec => [](ExecutedOnce /\ NoContractError)
<1>1. IInv => ExecutedOnce /\ NoContractError BY DEF IInv
<1> QED BY <1>1, MigrationInvariance, PTL

\* recordCompletedMigration records a version only when all of its file is in effect.
THEOREM RecordsAreWhole == Spec => []RecordedIsWhole
<1>1. IInv => RecordedIsWhole
  <2> SUFFICES ASSUME IInv, NEW v \in Versions, recorded[v] # Absent
               PROVE  {e \in effects : e[1] = v} =
                        {<<v, recorded[v], n>> : n \in 1..Len(Statements[recorded[v]])}
    BY DEF RecordedIsWhole
  <2>1. RecordedFits(v) BY DEF IInv, VersionsFit
  <2>2. ASSUME NEW n \in 1..Len(Statements[recorded[v]])
        PROVE  <<v, recorded[v], n>> \in effects
    BY <2>1 DEF RecordedFits, EffectsUpTo
  <2>3. ASSUME NEW e \in effects, e[1] = v
        PROVE  \E n \in 1..Len(Statements[recorded[v]]) : e = <<v, recorded[v], n>>
    <3>1. e = <<e[1], e[2], e[3]>> BY DEF IInv, TypeOK
    <3> QED BY <2>1, <2>3, <3>1 DEF RecordedFits
  <2> QED BY <2>2, <2>3
<1> QED BY <1>1, MigrationInvariance, PTL

\* Run applies the files in their order and each file from its first statement on.
THEOREM EffectsInOrder == Spec => []InOrder
<1>1. IInv => InOrder
  <2> SUFFICES ASSUME IInv, NEW e \in effects
               PROVE  /\ \A n \in 1..(e[3] - 1) : <<e[1], e[2], n>> \in effects
                      /\ \A u \in 1..(e[1] - 1) : recorded[u] # Absent
    BY DEF InOrder
  <2>1. e[1] \in Versions /\ e[3] \in Nat BY DEF IInv, TypeOK
  <2>2. PICK v \in Versions : v = e[1] BY <2>1
  <2>3. RecordedFits(v) /\ BegunFits(v) /\ FreshFits(v) BY DEF IInv, VersionsFit
  <2>4. CASE recorded[v] # Absent
    <3>1. recorded[v] \in Sums BY <2>4 DEF IInv, TypeOK
    <3>2. Len(Statements[recorded[v]]) \in Nat BY <3>1, MigrationAssumption
    <3>3. e[2] = recorded[v] /\ e[3] \in 1..Len(Statements[recorded[v]])
      BY <2>2, <2>3, <2>4 DEF RecordedFits
    <3> QED BY <2>1, <2>2, <2>3, <2>4, <3>2, <3>3 DEF RecordedFits, EffectsUpTo, Before
  <2>5. CASE recorded[v] = Absent
    <3>1. progress[v].sum # Absent BY <2>2, <2>3, <2>5 DEF FreshFits
    <3>2. progress[v].index \in Nat BY DEF IInv, TypeOK, Rows
    <3>3. e[2] = progress[v].sum /\ e[3] \in 1..(progress[v].index + 1)
      BY <2>2, <2>3, <3>1 DEF BegunFits
    <3> QED BY <2>1, <2>2, <2>3, <3>1, <3>2, <3>3 DEF BegunFits, EffectsUpTo, Before
  <2> QED BY <2>4, <2>5
<1> QED BY <1>1, MigrationInvariance, PTL

\* Run accepts every database that an interrupted run of the same files left behind,
\* and never touches a database with tables of others.
THEOREM AlwaysResumable == Spec => []Resumable
<1>1. IInv => Resumable
  <2> SUFFICES ASSUME IInv PROVE Resumable OBVIOUS
  <2>1. foreign => tables = {} /\ effects = {}
    BY DEF IInv, TypeOK, TablesFit, VersionsFit, FreshFits
  <2>2. ASSUME NEW r \in Runners, ~foreign,
               \A v \in Versions : {recorded[v], progress[v].sum} # {Absent} =>
                  /\ v <= Len(Repository[r])
                  /\ recorded[v] # Absent =>
                        completedMigrationChecksumMatches(Repository[r][v], recorded[v])
                  /\ progress[v].sum # Absent => progress[v].sum = Repository[r][v]
        PROVE  Acceptable(r)
    <3>0. \A v \in Versions :
             /\ recorded[v] # Absent => v <= Len(Repository[r])
                   /\ completedMigrationChecksumMatches(Repository[r][v], recorded[v])
             /\ progress[v].sum # Absent =>
                   v <= Len(Repository[r]) /\ progress[v].sum = Repository[r][v]
      BY <2>2
    <3>1. "versions" \in tables \/ (tables = {} /\ ~NonMetadataTables)
      BY <2>2 DEF IInv, TypeOK, TablesFit, VersionsFit, FreshFits, NonMetadataTables
    <3>2. ValidateMigrationVersionPrefix(r)
      BY <3>0 DEF IInv, VersionsFit, RecordedFits, Before, ValidateMigrationVersionPrefix
    <3>3. \A v, u \in Versions : v # u /\ progress[v].sum # Absent => progress[u].sum = Absent
      <4> SUFFICES ASSUME NEW v \in Versions, NEW u \in Versions, u < v,
                          progress[v].sum # Absent, progress[u].sum # Absent
                   PROVE  FALSE
        BY DEF Versions
      <4>1. recorded[u] # Absent BY DEF IInv, VersionsFit, BegunFits, Before, Versions
      <4> QED BY <4>1 DEF IInv, VersionsFit, BegunFits
    <3>4. validateMigrationProgressSource(r)
      BY <3>0, <3>3 DEF IInv, VersionsFit, BegunFits, Before, validateMigrationProgressSource
    <3>5. (\A v \in Versions : recorded[v] = Absent /\ progress[v].sum = Absent) => ~NonMetadataTables
      BY <2>2 DEF IInv, TypeOK, VersionsFit, FreshFits, NonMetadataTables
    <3> QED BY <3>1, <3>2, <3>4, <3>5 DEF Acceptable
  <2> QED BY <2>1, <2>2 DEF Resumable
<1> QED BY <1>1, MigrationInvariance, PTL

\* What verify-restore concludes from the recorded versions is true of the schema.
THEOREM RecordsVerifySchema == Spec => []RecordsTellTheSchema
<1>1. IInv => RecordsTellTheSchema
  <2> SUFFICES ASSUME IInv, NEW r \in Runners, verifyMigrations(r),
                      \A v \in 1..Len(Repository[r]) : recorded[v] = Repository[r][v]
               PROVE  VerifyAuthoritativeSchema(r)
    BY DEF RecordsTellTheSchema
  <2>1. /\ Len(Repository[r]) \in 1..Count /\ Count \in Nat
        /\ \A v \in 1..Len(Repository[r]) : v \in Versions /\ Repository[r][v] \in Sums
    BY MigrationAssumption DEF Versions
  <2>2. \A s \in Sums : Len(Statements[s]) \in Nat BY MigrationAssumption
  <2>3. \A v \in 1..Len(Repository[r]) : recorded[v] # Absent BY DEF verifyMigrations
  <2>4. ~foreign
    <3>1. 1 \in 1..Len(Repository[r]) BY <2>1
    <3>2. 1 \in Versions /\ recorded[1] # Absent BY <2>1, <2>3, <3>1
    <3> QED BY <3>2 DEF IInv, TablesFit
  <2>5. ASSUME NEW e \in effects
        PROVE  /\ e[1] \in 1..Len(Repository[r]) /\ e[2] = Repository[r][e[1]]
               /\ e[3] \in 1..Len(Statements[Repository[r][e[1]]])
    <3>1. PICK v \in Versions : v = e[1] BY DEF IInv, TypeOK
    <3>2. RecordedFits(v) /\ FreshFits(v) BY DEF IInv, VersionsFit
    <3>3. recorded[v] # Absent BY <3>1, <3>2 DEF FreshFits, verifyMigrations
    <3>4. v <= Len(Repository[r]) BY <3>3 DEF verifyMigrations, ValidateMigrationVersionPrefix
    <3>5. v \in 1..Len(Repository[r]) BY <2>1, <3>4 DEF Versions
    <3>6. recorded[v] = Repository[r][v] BY <3>5
    <3>7. e[2] = recorded[v] /\ e[3] \in 1..Len(Statements[recorded[v]]) BY <3>1, <3>2, <3>3 DEF RecordedFits
    <3> QED BY <3>1, <3>5, <3>6, <3>7
  <2>6. ASSUME NEW v \in 1..Len(Repository[r]), NEW n \in 1..Len(Statements[Repository[r][v]])
        PROVE  <<v, Repository[r][v], n>> \in effects
    <3>1. v \in Versions /\ recorded[v] = Repository[r][v] /\ recorded[v] # Absent BY <2>1, <2>3
    <3>2. RecordedFits(v) BY <3>1 DEF IInv, VersionsFit
    <3> QED BY <3>1, <3>2 DEF RecordedFits, EffectsUpTo
  <2>7. LiveSchema \subseteq AuthoritativeSchemaContracts(r)
    <3> SUFFICES ASSUME NEW e \in effects, isMigrationDDL(e[2], e[3])
                 PROVE  <<e[1], e[3]>> \in AuthoritativeSchemaContracts(r)
      BY DEF LiveSchema
    <3>1. PICK v \in 1..Len(Repository[r]) : v = e[1] BY <2>5
    <3>2. PICK n \in 1..Len(Statements[Repository[r][v]]) : n = e[3] BY <2>5, <3>1
    <3>3. isMigrationDDL(Repository[r][v], n) BY <2>5, <3>1, <3>2
    <3>4. <<v, n>> \in {<<v, k>> : k \in {m \in 1..Len(Statements[Repository[r][v]]) : isMigrationDDL(Repository[r][v], m)}}
      BY <3>2, <3>3
    <3>5. <<v, n>> \in AuthoritativeSchemaContracts(r) BY <3>4 DEF AuthoritativeSchemaContracts
    <3> QED BY <3>1, <3>2, <3>5
  <2>8. AuthoritativeSchemaContracts(r) \subseteq LiveSchema
    <3> SUFFICES ASSUME NEW v \in 1..Len(Repository[r]), NEW n \in 1..Len(Statements[Repository[r][v]]),
                        isMigrationDDL(Repository[r][v], n)
                 PROVE  <<v, n>> \in LiveSchema
      BY DEF AuthoritativeSchemaContracts
    <3>1. PICK e \in effects : e = <<v, Repository[r][v], n>> BY <2>6
    <3>2. e[1] = v /\ e[2] = Repository[r][v] /\ e[3] = n BY <3>1
    <3> QED BY <3>2 DEF LiveSchema
  <2> QED BY <2>4, <2>7, <2>8 DEF VerifyAuthoritativeSchema
<1> QED BY <1>1, MigrationInvariance, PTL

\* model/migration.go migrates exactly, for every number of runners, all files of all
\* builds and every pattern of interruptions.
THEOREM MigrationsAreExact == Spec => []MigratedExactly
<1>1. ExecutedOnce /\ NoContractError /\ RecordedIsWhole /\ InOrder /\ Resumable
         /\ RecordsTellTheSchema => MigratedExactly
  BY DEF MigratedExactly
<1> QED BY <1>1, StatementsRunOnce, RecordsAreWhole, EffectsInOrder, AlwaysResumable, RecordsVerifySchema, PTL
=============================================================================
