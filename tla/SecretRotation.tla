--------------------------- MODULE SecretRotation ---------------------------
(***************************************************************************)
(* secrets reencrypt: the command that moves the site tokens and the       *)
(* secret settings of a database from an old master key to a new one       *)
(* (internal/ops/reencrypt.go, RunReencrypt).                              *)
(*                                                                         *)
(* A run reads the secrets, stages a new ciphertext for each of them in    *)
(* short transactions, and then replaces all of them in one transaction    *)
(* that compares every row with the one it was staged from.  A run that is *)
(* interrupted is taken up by the next one with the same keys.  The        *)
(* rotation is meant for a stopped service; the code does not rely on it,  *)
(* and the model lets the service write at any time, under any key.        *)
(*                                                                         *)
(* A ciphertext is what the comparisons tell apart: its key, its text and  *)
(* the nonce of its encryption.  The source hash is the ciphertext itself, *)
(* and a row stands for the AAD that binds its ciphertexts to it.          *)
(***************************************************************************)
EXTENDS Naturals, FiniteSets, FiniteSetTheorems, TLAPS

CONSTANTS Tokens,     \* sites, for their access tokens
          Settings,   \* the secret settings of the platform
          Keys,       \* master keys
          Texts,      \* what a secret can say
          None,       \* no key, no text
          Commands,   \* invocations of the command, which may overlap
          BatchSize,  \* --batch-size
          MaxNonce,   \* bound: encryptions
          MaxFaults   \* bound: errors of the database and ends of the process

VARIABLES secret,   \* the stored ciphertext of each secret
          text,     \* what was last written to it, which the database does not know
          job,      \* the active row of encryption_reencrypt_job with its items
          lock,     \* GET_LOCK(reencryptLockName): the command that holds it, if any
          run,      \* the local state of each command
          nonce, faults
vars == <<secret, text, job, lock, run, nonce, faults>>

Secrets == Tokens \cup Settings
Encrypt(key, plaintext) == [key |-> key, text |-> plaintext, nonce |-> nonce + 1]
\* Only the key of a ciphertext opens it.
Decrypts(key, ciphertext) == ciphertext.key = key

\* An empty token or setting.
Empty == [key |-> None, text |-> None, nonce |-> 0]
Secret(rows) == {s \in Secrets : rows[s] # Empty}
NoRows == [s \in Secrets |-> Empty]
\* loadSecretRows: a query adds the rows of a table; empty values are not secrets.
loadSecretRows(table, rows) == [s \in Secrets |-> IF s \in table THEN secret[s] ELSE rows[s]]

NoItem == [source |-> Empty, new |-> Empty, update |-> FALSE]
NoItems == [s \in Secrets |-> NoItem]
Staged(items) == {s \in Secrets : items[s].source # Empty}
NoJob == [active |-> FALSE, old |-> None, new |-> None, inventory |-> {}, staged |-> 0, items |-> NoItems]

\* reported: how the last run of the command ended.
NoRun == [pc |-> "idle", old |-> None, new |-> None, rows |-> NoRows, existing |-> NoItems,
          todo |-> {}, view |-> NoRows, reported |-> "none"]

Init ==
  /\ secret \in [Secrets -> [key : Keys, text : Texts, nonce : {0}] \cup {Empty}]
  /\ text = [s \in Secrets |-> secret[s].text]
  /\ job = NoJob /\ lock = {}
  /\ run = [c \in Commands |-> NoRun]
  /\ nonce = 0 /\ faults = 0

----------------------------------------------------------------------------
(***************************************************************************)
(* The service.  It encrypts with the key it was started with.             *)
(***************************************************************************)
Write(s, key, plaintext) ==
  /\ nonce < MaxNonce /\ nonce' = nonce + 1
  /\ secret' = [secret EXCEPT ![s] = Encrypt(key, plaintext)]
  /\ text' = [text EXCEPT ![s] = plaintext]
  /\ UNCHANGED <<job, lock, run, faults>>

\* A site whose address changes loses its token; a setting is emptied.
Clear(s) ==
  /\ secret[s] # Empty
  /\ secret' = [secret EXCEPT ![s] = Empty]
  /\ text' = [text EXCEPT ![s] = None]
  /\ UNCHANGED <<job, lock, run, nonce, faults>>

----------------------------------------------------------------------------
(***************************************************************************)
(* A run.                                                                  *)
(***************************************************************************)
\* The command ends; the connection and with it the lock are given back.
End(c, reported) ==
  /\ run' = [run EXCEPT ![c] = [NoRun EXCEPT !.reported = reported]]
  /\ lock' = {}
\* cleanupReencryptJob: the job goes with its items, or stays when that fails too.
cleanupReencryptJob ==
  \/ job' = NoJob /\ UNCHANGED faults
  \/ faults < MaxFaults /\ faults' = faults + 1 /\ UNCHANGED job

\* RunReencrypt up to the first query: keys that are the same and a lock that is held
\* by another command are refused.
Begin(c, old, new) ==
  /\ run[c].pc = "idle" /\ old # new /\ lock = {}
  /\ lock' = {c}
  /\ run' = [run EXCEPT ![c] = [NoRun EXCEPT !.pc = "tokens", !.old = old, !.new = new,
                                             !.rows = loadSecretRows(Tokens, NoRows)]]
  /\ UNCHANGED <<secret, text, job, nonce, faults>>

\* The second query of loadSecretRows.
LoadSettings(c) ==
  /\ run[c].pc = "tokens"
  /\ run' = [run EXCEPT ![c].pc = "loaded", ![c].rows = loadSecretRows(Settings, @)]
  /\ UNCHANGED <<secret, text, job, lock, nonce, faults>>

\* classifySecret: the keys of the run open the row.
classifySecret(c, s) == \E key \in {run[c].old, run[c].new} : Decrypts(key, run[c].rows[s])
UnderNew(c, s) == Decrypts(run[c].new, run[c].rows[s])

DryRun(c) ==
  /\ run[c].pc = "loaded"
  /\ End(c, IF \A s \in Secret(run[c].rows) : classifySecret(c, s) THEN "dry" ELSE "ciphertext")
  /\ UNCHANGED <<secret, text, job, nonce, faults>>

\* loadOrCreateReencryptJob and loadStagedSecrets.  A job of other keys is left alone,
\* one of other secrets is removed.
loadOrCreateReencryptJob(c) ==
  LET r == run[c] IN
  /\ r.pc = "loaded"
  /\ \/ /\ ~job.active
        /\ job' = [NoJob EXCEPT !.active = TRUE, !.old = r.old, !.new = r.new, !.inventory = Secret(r.rows)]
        /\ run' = [run EXCEPT ![c].pc = "staging", ![c].existing = NoItems, ![c].todo = Secret(r.rows)]
        /\ UNCHANGED <<lock, faults>>
     \/ /\ job.active /\ <<job.old, job.new>> # <<r.old, r.new>>
        /\ End(c, "mismatch")
        /\ UNCHANGED <<job, faults>>
     \/ /\ job.active /\ <<job.old, job.new>> = <<r.old, r.new>> /\ job.inventory # Secret(r.rows)
        /\ End(c, "inventory") /\ cleanupReencryptJob
     \/ /\ job.active /\ <<job.old, job.new>> = <<r.old, r.new>> /\ job.inventory = Secret(r.rows)
        /\ IF Cardinality(Staged(job.items)) # job.staged
           THEN End(c, "staging") /\ cleanupReencryptJob
           ELSE /\ run' = [run EXCEPT ![c].pc = "staging", ![c].existing = job.items,
                                      ![c].todo = Secret(r.rows) \ Staged(job.items)]
                /\ UNCHANGED <<job, lock, faults>>
  /\ UNCHANGED <<secret, text, nonce>>

\* The rows of the run that end it: no key opens them, or the item that was staged for
\* them by an earlier run is of another ciphertext, or says something else.
Unreadable(c) == {s \in Secret(run[c].rows) : ~classifySecret(c, s)}
Changed(c) == {s \in Staged(run[c].existing) : run[c].existing[s].source # run[c].rows[s]}
Spoilt(c) ==
  {s \in Staged(run[c].existing) : \/ ~Decrypts(run[c].new, run[c].existing[s].new)
                                  \/ run[c].existing[s].new.text # run[c].rows[s].text}
Refused(c) == Unreadable(c) \cup Changed(c) \cup Spoilt(c)
Reason(c, s) ==
  IF s \in Unreadable(c) THEN "ciphertext" ELSE IF s \in Changed(c) THEN "changed" ELSE "staging"
RefuseRow(c) ==
  /\ run[c].pc = "staging"
  /\ \E s \in Refused(c) : End(c, Reason(c, s))
  /\ cleanupReencryptJob
  /\ UNCHANGED <<secret, text, nonce>>

Item(c, s) ==
  [source |-> run[c].rows[s], update |-> ~UnderNew(c, s),
   new |-> IF UnderNew(c, s) THEN run[c].rows[s] ELSE Encrypt(run[c].new, run[c].rows[s].text)]

\* stageSecretBatch.  The model leaves the order of the rows open.
stageSecretBatch(c, batch) ==
  /\ run[c].pc = "staging" /\ nonce < MaxNonce
  /\ batch # {} /\ batch \subseteq run[c].todo \ Unreadable(c)
  /\ Cardinality(batch) = BatchSize \/ (Cardinality(batch) < BatchSize /\ batch = run[c].todo)
  /\ job.active
  /\ job' = [job EXCEPT !.items = [s \in Secrets |-> IF s \in batch THEN Item(c, s) ELSE @[s]],
                        !.staged = @ + Cardinality(batch)]
  /\ run' = [run EXCEPT ![c].todo = @ \ batch]
  /\ nonce' = nonce + 1
  /\ UNCHANGED <<secret, text, lock, faults>>

\* applyStagedSecrets up to the updates: the locked row of the job, and the secrets as one
\* snapshot shows them.
Settled(c) == run[c].todo = {} /\ Refused(c) = {}
SameInventory(c) ==
  /\ job.inventory = Secret(run[c].rows) /\ Cardinality(job.inventory) = job.staged
  /\ Secret(secret) = job.inventory /\ Cardinality(Staged(job.items)) = Cardinality(job.inventory)
SameRows == \A s \in Secret(secret) : s \in Staged(job.items) /\ job.items[s].source = secret[s]
applyStagedSecrets(c) ==
  /\ run[c].pc = "staging" /\ Settled(c)
  /\ \/ /\ SameInventory(c) /\ SameRows
        /\ run' = [run EXCEPT ![c].pc = "applying", ![c].view = secret]
        /\ UNCHANGED <<job, lock, faults>>
     \/ ~SameInventory(c) /\ End(c, "inventory") /\ cleanupReencryptJob
     \/ SameInventory(c) /\ ~SameRows /\ End(c, "changed") /\ cleanupReencryptJob
  /\ UNCHANGED <<secret, text, nonce>>

\* The rows to be replaced are still the ones that were staged: each update compares the
\* row as it is now, and locks it until the commit.
CompareAndSwap == \A s \in Staged(job.items) : job.items[s].update => secret[s] = job.items[s].source

\* The updates and the commit, which also completes the job and removes its items.
CommitApply(c) ==
  /\ run[c].pc = "applying" /\ CompareAndSwap
  /\ secret' = [s \in Secrets |-> IF s \in Staged(job.items) /\ job.items[s].update
                                  THEN job.items[s].new ELSE secret[s]]
  /\ job' = NoJob
  /\ End(c, "success")
  /\ UNCHANGED <<text, nonce, faults>>

\* An update meets another row, or fails: everything is rolled back.
RollBack(c) ==
  /\ run[c].pc = "applying" /\ (CompareAndSwap => faults < MaxFaults)
  /\ End(c, "changed") /\ cleanupReencryptJob
  /\ UNCHANGED <<secret, text, nonce>>

\* An error of the database elsewhere, or the end of the process: nothing is cleaned up.
Interrupt(c) ==
  /\ run[c].pc # "idle" /\ faults < MaxFaults /\ faults' = faults + 1
  /\ End(c, "error")
  /\ UNCHANGED <<secret, text, job, nonce>>

Next ==
  \/ \E s \in Secrets : Clear(s) \/ \E key \in Keys, plaintext \in Texts : Write(s, key, plaintext)
  \/ \E c \in Commands :
       \/ \E old, new \in Keys : Begin(c, old, new)
       \/ LoadSettings(c) \/ DryRun(c) \/ loadOrCreateReencryptJob(c) \/ RefuseRow(c)
       \/ \E batch \in SUBSET Secrets : stageSecretBatch(c, batch)
       \/ applyStagedSecrets(c) \/ CommitApply(c) \/ RollBack(c) \/ Interrupt(c)
Spec == Init /\ [][Next]_vars

----------------------------------------------------------------------------
\* verifyEncryptedRows of verify-restore: the key opens every secret of a database.
verifyEncryptedRows(rows, key) == \A s \in DOMAIN rows : rows[s] # Empty => Decrypts(key, rows[s])

\* A rotation never loses a secret: whatever it was interrupted by, whatever was staged by
\* an earlier run and whatever the service wrote meanwhile, a row says what was last
\* written to it.
NoSecretLost ==
  \A s \in Secrets : secret[s].text = text[s]

\* A run that reports success has moved every secret that was not written after the
\* snapshot the run ended on: without such a write verify-restore accepts the database
\* with the new key, with which the service is started next.
SinceView(c) == {s \in Secrets : secret[s] # run[c].view[s]}
RotatedStep ==
  \A c \in Commands :
    run[c].pc = "applying" /\ run'[c].pc = "idle" /\ run'[c].reported = "success" =>
      verifyEncryptedRows([s \in Secrets \ SinceView(c) |-> secret'[s]], run[c].new)
Rotated == [][RotatedStep]_vars

\* What an earlier run left is never found to be invalid: its items are counted, belong to
\* the secrets and keys of the job, and say what their sources say.
ItemFits(item, key) ==
  /\ item.new.key = key /\ item.new.text = item.source.text
  /\ ~item.update => item.source.key = key
StagingHolds ==
  /\ \A c \in Commands : run[c].reported # "staging"
  /\ job.active =>
       /\ job.staged = Cardinality(Staged(job.items))
       /\ Staged(job.items) \subseteq job.inventory
       /\ \A s \in Staged(job.items) : ItemFits(job.items[s], job.new)

----------------------------------------------------------------------------
(***************************************************************************)
(* The inductive invariant, for any secrets, keys, commands and bounds.    *)
(***************************************************************************)
Ciphertext == [key : Keys \cup {None}, text : Texts \cup {None}, nonce : Nat]
ItemSet == [source : Ciphertext, new : Ciphertext, update : BOOLEAN]
Reports == {"none", "dry", "ciphertext", "mismatch", "inventory", "staging", "changed", "success", "error"}

JobSet == [active : BOOLEAN, old : Keys \cup {None}, new : Keys \cup {None},
           inventory : SUBSET Secrets, staged : Nat, items : [Secrets -> ItemSet]]
RunSet == [pc : {"idle", "tokens", "loaded", "staging", "applying"},
           old : Keys \cup {None}, new : Keys \cup {None},
           rows : [Secrets -> Ciphertext], existing : [Secrets -> ItemSet],
           todo : SUBSET Secrets, view : [Secrets -> Ciphertext], reported : Reports]

\* The tables, and what a run has read of them, have their declared shape.
TypeOK ==
  /\ secret \in [Secrets -> Ciphertext] /\ text \in [Secrets -> Texts \cup {None}]
  /\ job \in JobSet /\ run \in [Commands -> RunSet]
  /\ lock \in SUBSET Commands /\ nonce \in Nat /\ faults \in Nat

\* A command that is under way holds the lock, and its job is the active one.
Held == \A c \in Commands : run[c].pc # "idle" => lock = {c}
Owned(c) ==
  /\ job.active /\ job.new = run[c].new /\ job.inventory = Secret(run[c].rows)
  /\ Staged(run[c].existing) \subseteq Secret(run[c].rows)
  /\ \A s \in Staged(run[c].existing) : ItemFits(run[c].existing[s], run[c].new)
  /\ run[c].todo = Secret(run[c].rows) \ Staged(job.items)
JobsOwned == \A c \in Commands : run[c].pc \in {"staging", "applying"} => Owned(c)
\* The snapshot a run ends on is of the rows its items were staged from.
ViewStaged ==
  \A c \in Commands : run[c].pc = "applying" =>
    /\ Secret(run[c].view) = Staged(job.items)
    /\ \A s \in Staged(job.items) : job.items[s].source = run[c].view[s]
RotationInv == TypeOK /\ NoSecretLost /\ StagingHolds /\ Held /\ JobsOwned /\ ViewStaged

LEMMA Emptiness == Empty \in Ciphertext /\ NoItem \in ItemSet /\ NoItems \in [Secrets -> ItemSet]
                   /\ NoRows \in [Secrets -> Ciphertext] /\ Staged(NoItems) = {}
  BY DEF Empty, Ciphertext, NoItem, NoItems, ItemSet, NoRows, Staged
LEMMA NothingUnderWay ==
  /\ NoJob \in JobSet /\ NoRun \in RunSet /\ NoRun.pc = "idle"
  /\ \A r \in Reports : /\ [NoRun EXCEPT !.reported = r] \in RunSet
                         /\ [NoRun EXCEPT !.reported = r].pc = "idle"
                         /\ [NoRun EXCEPT !.reported = r].reported = r
<1>1. NoJob \in JobSet /\ NoRun \in RunSet /\ NoRun.pc = "idle"
  BY Emptiness DEF NoJob, NoRun, JobSet, RunSet, Reports
<1> QED
  BY <1>1 DEF RunSet

\* A database without a rotation satisfies the invariant.
LEMMA InitialRotation == Init => RotationInv
<1> SUFFICES ASSUME Init PROVE RotationInv
  OBVIOUS
<1> USE Emptiness, NothingUnderWay
<1>1. TypeOK
  <2>1. secret \in [Secrets -> Ciphertext]
    BY DEF Init, Ciphertext, Empty
  <2>2. text \in [Secrets -> Texts \cup {None}]
    BY <2>1 DEF Init, Ciphertext
  <2> QED
    BY <2>1, <2>2 DEF Init, TypeOK
<1>2. NoSecretLost /\ StagingHolds /\ Held /\ JobsOwned /\ ViewStaged
  BY DEF Init, NoSecretLost, StagingHolds, Held, JobsOwned, ViewStaged, NoJob, NoRun
<1> QED
  BY <1>1, <1>2 DEF RotationInv

\* The command that holds the lock is the only one under way.
LEMMA OthersIdle ==
  ASSUME RotationInv, NEW c \in Commands, run[c].pc # "idle"
  PROVE  lock = {c} /\ \A d \in Commands \ {c} : run[d].pc = "idle"
  BY DEF RotationInv, Held

\* However a command ends, it leaves nothing under way and the job as a whole.
LEMMA Ended ==
  ASSUME RotationInv, NEW c \in Commands, run[c].pc # "idle",
         NEW r \in Reports \ {"staging"}, End(c, r),
         job' = job \/ job' = NoJob,
         secret' \in [Secrets -> Ciphertext], UNCHANGED text, NoSecretLost', nonce' \in Nat, faults' \in Nat
  PROVE  RotationInv'
<1> USE Emptiness, NothingUnderWay
<1>1. run' = [run EXCEPT ![c] = [NoRun EXCEPT !.reported = r]] /\ lock' = {}
  BY DEF End
<1>2. TypeOK /\ StagingHolds
  BY DEF RotationInv
<1>3. job' \in JobSet
  BY <1>2 DEF TypeOK
<1>4. TypeOK'
  BY <1>1, <1>2, <1>3 DEF TypeOK
<1>5. \A d \in Commands : run'[d].pc = "idle" /\ run'[d].reported # "staging"
  <2>1. run'[c] = [NoRun EXCEPT !.reported = r] /\ \A d \in Commands \ {c} : run'[d] = run[d]
    BY <1>1, <1>2 DEF TypeOK
  <2>2. run'[c].pc = "idle" /\ run'[c].reported # "staging"
    BY <2>1
  <2>3. \A d \in Commands \ {c} : run[d].pc = "idle" /\ run[d].reported # "staging"
    BY <1>2, OthersIdle DEF StagingHolds
  <2> TAKE d \in Commands
  <2>4. CASE d = c
    BY <2>2, <2>4
  <2>5. CASE d # c
    BY <2>1, <2>3, <2>5
  <2> QED
    BY <2>4, <2>5
<1>6. StagingHolds'
  BY <1>2, <1>5 DEF StagingHolds, NoJob
<1>7. Held' /\ JobsOwned' /\ ViewStaged'
  BY <1>5 DEF Held, JobsOwned, ViewStaged
<1> QED
  BY <1>4, <1>6, <1>7 DEF RotationInv

LEMMA Cleaned ==
  ASSUME RotationInv, cleanupReencryptJob
  PROVE  (job' = job \/ job' = NoJob) /\ faults' \in Nat
  BY DEF cleanupReencryptJob, RotationInv, TypeOK

\* An item of a row that is read with the keys of the run says what the row says, under
\* the new key.
LEMMA ItemsFit ==
  ASSUME TypeOK, NEW c \in Commands, NEW s \in Secrets
  PROVE  Item(c, s) \in ItemSet /\ ItemFits(Item(c, s), run[c].new)
         /\ Item(c, s).source = run[c].rows[s]
<1>1. run[c].rows[s] \in Ciphertext /\ run[c].new \in Keys \cup {None}
  BY DEF TypeOK, RunSet
<1>2. Encrypt(run[c].new, run[c].rows[s].text) \in Ciphertext
  BY <1>1 DEF Encrypt, Ciphertext, TypeOK
<1> QED
  BY <1>1, <1>2 DEF Item, ItemSet, ItemFits, UnderNew, Decrypts, Encrypt, Ciphertext

\* What a resumed run finds staged is never spoilt: only a real change ends it.
LEMMA NeverSpoilt ==
  ASSUME RotationInv, NEW c \in Commands, run[c].pc = "staging", NEW s \in Refused(c)
  PROVE  Reason(c, s) \in Reports \ {"staging"}
<1>1. Owned(c)
  BY DEF RotationInv, JobsOwned
<1>2. s \in Spoilt(c) => s \in Changed(c)
  BY <1>1 DEF Owned, Spoilt, Changed, ItemFits, Decrypts
<1> QED
  BY <1>2 DEF Refused, Reason, Reports

\* Staging a batch keeps the items of the job counted, and all of them fitting.
LEMMA StageKeeps ==
  ASSUME IsFiniteSet(Secrets), RotationInv, NEW c \in Commands, NEW batch \in SUBSET Secrets,
         stageSecretBatch(c, batch)
  PROVE  RotationInv'
<1>1. TypeOK /\ StagingHolds /\ Owned(c) /\ job.active
  BY DEF RotationInv, JobsOwned, stageSecretBatch
<1>2. /\ run' = [run EXCEPT ![c].todo = @ \ batch]
      /\ job' = [job EXCEPT !.items = [s \in Secrets |-> IF s \in batch THEN Item(c, s) ELSE @[s]],
                            !.staged = @ + Cardinality(batch)]
      /\ nonce' = nonce + 1 /\ UNCHANGED <<secret, text, lock, faults>>
      /\ batch \subseteq run[c].todo
  BY DEF stageSecretBatch
<1>3. \A s \in batch : Item(c, s) \in ItemSet /\ ItemFits(Item(c, s), job.new)
                       /\ Item(c, s).source = run[c].rows[s] /\ Item(c, s).source # Empty
  BY <1>1, <1>2, ItemsFit DEF Owned, Secret
<1>4. job'.items = [s \in Secrets |-> IF s \in batch THEN Item(c, s) ELSE job.items[s]]
      /\ job'.staged = job.staged + Cardinality(batch)
      /\ job'.active = job.active /\ job'.old = job.old /\ job'.new = job.new
      /\ job'.inventory = job.inventory
  BY <1>1, <1>2 DEF TypeOK, JobSet
<1>5. Staged(job'.items) = Staged(job.items) \cup batch
  BY <1>3, <1>4 DEF Staged
<1>6. batch \cap Staged(job.items) = {} /\ batch \subseteq job.inventory
  BY <1>1, <1>2 DEF Owned
<1>7. Cardinality(batch) \in Nat /\ Cardinality(Staged(job'.items)) = job'.staged
  <2>1. IsFiniteSet(batch) /\ IsFiniteSet(Staged(job.items))
    BY FS_Subset DEF Staged
  <2>2. Cardinality(batch) \in Nat /\ Cardinality(Staged(job.items)) \in Nat
    BY <2>1, FS_CardinalityType
  <2>3. Cardinality(Staged(job.items) \cap batch) = 0
    BY <1>6, FS_EmptySet
  <2>4. Cardinality(Staged(job.items) \cup batch) = Cardinality(Staged(job.items)) + Cardinality(batch)
    <3>1. Cardinality(Staged(job.items) \cup batch)
            = Cardinality(Staged(job.items)) + Cardinality(batch) - Cardinality(Staged(job.items) \cap batch)
      BY <2>1, FS_Union
    <3> QED
      BY <2>2, <2>3, <3>1
  <2> QED
    BY <1>1, <1>4, <1>5, <2>2, <2>4 DEF StagingHolds
<1>8. TypeOK'
  <2> DEFINE items == [s \in Secrets |-> IF s \in batch THEN Item(c, s) ELSE job.items[s]]
  <2>1. items \in [Secrets -> ItemSet] /\ job.staged + Cardinality(batch) \in Nat
    BY <1>1, <1>3, <1>7 DEF TypeOK, JobSet
  <2>2. job' = [job EXCEPT !.items = items, !.staged = job.staged + Cardinality(batch)]
    BY <1>2
  <2>3. job' \in JobSet
    BY <1>1, <2>1, <2>2 DEF TypeOK, JobSet
  <2>4. run' \in [Commands -> RunSet]
    <3>1. run' = [run EXCEPT ![c] = [run[c] EXCEPT !.todo = run[c].todo \ batch]]
      BY <1>2
    <3>2. run[c] \in RunSet
      BY <1>1 DEF TypeOK
    <3>3. [run[c] EXCEPT !.todo = run[c].todo \ batch] \in RunSet
      BY <3>2 DEF RunSet
    <3> QED
      BY <1>1, <3>1, <3>3 DEF TypeOK
  <2> QED
    BY <1>1, <1>2, <2>3, <2>4 DEF TypeOK
<1>9. run'[c].todo = run[c].todo \ batch /\ run'[c].pc = "staging"
      /\ run'[c].rows = run[c].rows /\ run'[c].existing = run[c].existing /\ run'[c].new = run[c].new
      /\ run'[c].reported = run[c].reported
      /\ \A d \in Commands \ {c} : run'[d] = run[d]
  BY <1>1, <1>2 DEF TypeOK, RunSet, stageSecretBatch
<1>10. \A d \in Commands \ {c} : run'[d].pc = "idle"
  BY <1>9, OthersIdle DEF stageSecretBatch
<1>11. StagingHolds'
  <2>1. \A s \in Staged(job'.items) : ItemFits(job'.items[s], job'.new)
    BY <1>1, <1>3, <1>4, <1>5 DEF StagingHolds, Staged
  <2>2. \A d \in Commands : run'[d].reported # "staging"
    BY <1>1, <1>9 DEF StagingHolds
  <2>3. Staged(job'.items) \subseteq job'.inventory
    BY <1>1, <1>4, <1>5, <1>6 DEF StagingHolds
  <2> QED
    BY <1>7, <2>1, <2>2, <2>3 DEF StagingHolds
<1>12. Owned(c)'
  BY <1>1, <1>4, <1>5, <1>6, <1>9 DEF Owned
<1>13. Held' /\ JobsOwned' /\ ViewStaged' /\ NoSecretLost'
  BY <1>2, <1>9, <1>10, <1>12, OthersIdle DEF Held, JobsOwned, ViewStaged, NoSecretLost, RotationInv, stageSecretBatch
<1> QED
  BY <1>8, <1>11, <1>13 DEF RotationInv

\* The steps that end a command, whatever they report.
LEMMA EndKeeps ==
  ASSUME RotationInv, NEW c \in Commands,
         \/ DryRun(c) \/ RefuseRow(c) \/ RollBack(c) \/ Interrupt(c)
  PROVE  RotationInv'
<1>1. TypeOK /\ NoSecretLost
  BY DEF RotationInv
<1>2. CASE DryRun(c)
  <2>1. PICK r \in Reports \ {"staging"} : End(c, r)
    BY <1>2 DEF DryRun, Reports
  <2> QED
    BY <1>1, <1>2, <2>1, Ended DEF DryRun, TypeOK, NoSecretLost
<1>3. CASE RefuseRow(c)
  <2>1. PICK r \in Reports \ {"staging"} : End(c, r)
    BY <1>3, NeverSpoilt DEF RefuseRow
  <2> QED
    BY <1>1, <1>3, <2>1, Ended, Cleaned DEF RefuseRow, TypeOK, NoSecretLost
<1>4. CASE RollBack(c)
  <2>1. End(c, "changed") /\ "changed" \in Reports \ {"staging"}
    BY <1>4 DEF RollBack, Reports
  <2> QED
    BY <1>1, <1>4, <2>1, Ended, Cleaned DEF RollBack, TypeOK, NoSecretLost
<1>5. CASE Interrupt(c)
  <2>1. End(c, "error") /\ "error" \in Reports \ {"staging"}
    BY <1>5 DEF Interrupt, Reports
  <2> QED
    BY <1>1, <1>5, <2>1, Ended DEF Interrupt, TypeOK, NoSecretLost
<1> QED
  BY <1>2, <1>3, <1>4, <1>5

\* A command that is under way has changed in its own state and not in that of others.
LEMMA OneMoves ==
  ASSUME TypeOK, NEW c \in Commands, NEW r \in RunSet, run' = [run EXCEPT ![c] = r]
  PROVE  run' \in [Commands -> RunSet] /\ run'[c] = r /\ \A d \in Commands \ {c} : run'[d] = run[d]
  BY DEF TypeOK

LEMMA BeginKeeps ==
  ASSUME RotationInv, NEW c \in Commands, NEW old \in Keys, NEW new \in Keys, Begin(c, old, new)
  PROVE  RotationInv'
<1> DEFINE r == [NoRun EXCEPT !.pc = "tokens", !.old = old, !.new = new,
                              !.rows = loadSecretRows(Tokens, NoRows)]
<1>1. TypeOK /\ StagingHolds /\ Held
  BY DEF RotationInv
<1>2. loadSecretRows(Tokens, NoRows) \in [Secrets -> Ciphertext]
  BY <1>1, Emptiness DEF TypeOK, loadSecretRows
<1>3. r \in RunSet /\ r.pc = "tokens" /\ r.reported = "none"
  <2>1. NoRun \in RunSet /\ NoRun.reported = "none"
    BY NothingUnderWay DEF NoRun
  <2> QED
    BY <1>2, <2>1 DEF RunSet
<1>4. run' = [run EXCEPT ![c] = r] /\ lock' = {c} /\ lock = {} /\ UNCHANGED <<secret, text, job, nonce, faults>>
  BY DEF Begin
<1> HIDE DEF r
<1>5. run' \in [Commands -> RunSet] /\ run'[c] = r /\ \A d \in Commands \ {c} : run'[d] = run[d]
  BY <1>1, <1>3, <1>4, OneMoves
<1>6. \A d \in Commands \ {c} : run'[d].pc = "idle"
  BY <1>1, <1>4, <1>5 DEF Held
<1>7. TypeOK'
  BY <1>1, <1>4, <1>5 DEF TypeOK
<1>8. StagingHolds' /\ Held' /\ JobsOwned' /\ ViewStaged' /\ NoSecretLost'
  BY <1>1, <1>3, <1>4, <1>5, <1>6
     DEF StagingHolds, Held, JobsOwned, ViewStaged, NoSecretLost, RotationInv
<1> QED
  BY <1>7, <1>8 DEF RotationInv

LEMMA LoadKeeps ==
  ASSUME RotationInv, NEW c \in Commands, LoadSettings(c)
  PROVE  RotationInv'
<1> DEFINE r == [run[c] EXCEPT !.pc = "loaded", !.rows = loadSecretRows(Settings, run[c].rows)]
<1>1. TypeOK /\ StagingHolds /\ run[c] \in RunSet
  BY DEF RotationInv, TypeOK
<1>2. loadSecretRows(Settings, run[c].rows) \in [Secrets -> Ciphertext]
  BY <1>1 DEF TypeOK, RunSet, loadSecretRows
<1>3. r \in RunSet /\ r.pc = "loaded" /\ r.reported = run[c].reported
  BY <1>1, <1>2 DEF RunSet
<1>4. run' = [run EXCEPT ![c] = r] /\ UNCHANGED <<secret, text, job, lock, nonce, faults>>
  BY DEF LoadSettings
<1> HIDE DEF r
<1>5. run' \in [Commands -> RunSet] /\ run'[c] = r /\ \A d \in Commands \ {c} : run'[d] = run[d]
  BY <1>1, <1>3, <1>4, OneMoves
<1>6. lock' = {c} /\ \A d \in Commands \ {c} : run'[d].pc = "idle"
  BY <1>4, <1>5, OthersIdle DEF LoadSettings
<1>7. TypeOK'
  BY <1>1, <1>4, <1>5 DEF TypeOK
<1>8. StagingHolds' /\ Held' /\ JobsOwned' /\ ViewStaged' /\ NoSecretLost'
  BY <1>1, <1>3, <1>4, <1>5, <1>6
     DEF StagingHolds, Held, JobsOwned, ViewStaged, NoSecretLost, RotationInv
<1> QED
  BY <1>7, <1>8 DEF RotationInv

\* A run that opens or takes up a job owns it: what is left to do is what is not staged.
LEMMA OpenKeeps ==
  ASSUME IsFiniteSet(Secrets), RotationInv, NEW c \in Commands, loadOrCreateReencryptJob(c)
  PROVE  RotationInv'
<1>1. TypeOK /\ StagingHolds /\ NoSecretLost /\ run[c] \in RunSet /\ run[c].pc = "loaded"
      /\ UNCHANGED <<secret, text, nonce>>
  BY DEF RotationInv, TypeOK, loadOrCreateReencryptJob
<1>2. lock = {c} /\ \A d \in Commands \ {c} : run[d].pc = "idle"
  BY <1>1, OthersIdle
<1>3. ASSUME NEW j \in JobSet, NEW items \in [Secrets -> ItemSet],
             j.active, j.new = run[c].new, j.inventory = Secret(run[c].rows),
             j.staged = Cardinality(Staged(j.items)), Staged(j.items) \subseteq j.inventory,
             \A s \in Staged(j.items) : ItemFits(j.items[s], j.new),
             items = j.items, job' = j, UNCHANGED <<lock, faults>>,
             run' = [run EXCEPT ![c].pc = "staging", ![c].existing = items,
                                ![c].todo = Secret(run[c].rows) \ Staged(items)]
      PROVE  RotationInv'
  <2> DEFINE r == [run[c] EXCEPT !.pc = "staging", !.existing = items,
                                 !.todo = Secret(run[c].rows) \ Staged(items)]
  <2>1. r \in RunSet /\ r.pc = "staging" /\ r.todo = Secret(run[c].rows) \ Staged(items)
        /\ r.new = run[c].new /\ r.rows = run[c].rows /\ r.existing = items /\ r.reported = run[c].reported
    BY <1>1, <1>3 DEF RunSet, Secret
  <2>2. run' = [run EXCEPT ![c] = r]
    BY <1>3
  <2> HIDE DEF r
  <2>3. run' \in [Commands -> RunSet] /\ run'[c] = r /\ \A d \in Commands \ {c} : run'[d] = run[d]
    BY <1>1, <2>1, <2>2, OneMoves
  <2>4. StagingHolds'
    BY <1>1, <1>3, <2>1, <2>3 DEF StagingHolds
  <2>5. Owned(c)'
    BY <1>3, <2>1, <2>3 DEF Owned
  <2>6. TypeOK' /\ NoSecretLost'
    BY <1>1, <1>3, <2>3 DEF TypeOK, NoSecretLost
  <2>7. Held' /\ JobsOwned' /\ ViewStaged'
    BY <1>2, <1>3, <2>1, <2>3, <2>5 DEF Held, JobsOwned, ViewStaged
  <2> QED
    BY <2>4, <2>6, <2>7 DEF RotationInv
<1>4. CASE /\ ~job.active
           /\ job' = [NoJob EXCEPT !.active = TRUE, !.old = run[c].old, !.new = run[c].new,
                                   !.inventory = Secret(run[c].rows)]
           /\ run' = [run EXCEPT ![c].pc = "staging", ![c].existing = NoItems,
                                 ![c].todo = Secret(run[c].rows)]
           /\ UNCHANGED <<lock, faults>>
  <2>1. Secret(run[c].rows) \in SUBSET Secrets /\ run[c].old \in Keys \cup {None} /\ run[c].new \in Keys \cup {None}
    BY <1>1 DEF Secret, RunSet
  <2>2. NoJob \in JobSet /\ NoJob.items = NoItems /\ NoJob.staged = 0
    BY NothingUnderWay DEF NoJob
  <2>3. job' \in JobSet /\ job'.active /\ job'.new = run[c].new /\ job'.inventory = Secret(run[c].rows)
        /\ job'.items = NoItems /\ job'.staged = 0
    BY <1>4, <2>1, <2>2 DEF JobSet
  <2>4. Staged(NoItems) = {} /\ Cardinality({}) = 0 /\ NoItems \in [Secrets -> ItemSet]
    BY Emptiness, FS_EmptySet
  <2>5. run' = [run EXCEPT ![c].pc = "staging", ![c].existing = NoItems,
                           ![c].todo = Secret(run[c].rows) \ Staged(NoItems)]
    BY <1>4, <2>4
  <2> QED
    BY <1>3, <1>4, <2>3, <2>4, <2>5
<1>5. CASE job.active /\ <<job.old, job.new>> # <<run[c].old, run[c].new>>
           /\ End(c, "mismatch") /\ UNCHANGED <<job, faults>>
  BY <1>1, <1>5, Ended DEF TypeOK, NoSecretLost, Reports
<1>6. CASE End(c, "inventory") /\ cleanupReencryptJob
  BY <1>1, <1>6, Ended, Cleaned DEF TypeOK, NoSecretLost, Reports
<1>7. CASE /\ job.active /\ <<job.old, job.new>> = <<run[c].old, run[c].new>>
           /\ job.inventory = Secret(run[c].rows)
           /\ run' = [run EXCEPT ![c].pc = "staging", ![c].existing = job.items,
                                 ![c].todo = Secret(run[c].rows) \ Staged(job.items)]
           /\ UNCHANGED <<job, lock, faults>>
  <2>1. job \in JobSet /\ job.items \in [Secrets -> ItemSet] /\ job.new = run[c].new
    BY <1>1, <1>7 DEF TypeOK, JobSet
  <2>2. /\ job.staged = Cardinality(Staged(job.items)) /\ Staged(job.items) \subseteq job.inventory
        /\ \A s \in Staged(job.items) : ItemFits(job.items[s], job.new)
    BY <1>1, <1>7 DEF StagingHolds
  <2> QED
    BY <1>3, <1>7, <2>1, <2>2
<1>8. job.active => Cardinality(Staged(job.items)) = job.staged
  BY <1>1 DEF StagingHolds
<1> QED
  BY <1>4, <1>5, <1>6, <1>7, <1>8 DEF loadOrCreateReencryptJob

\* The last snapshot is of the rows that were staged, or the command ends.
LEMMA ApplyKeeps ==
  ASSUME RotationInv, NEW c \in Commands, applyStagedSecrets(c)
  PROVE  RotationInv'
<1>1. TypeOK /\ StagingHolds /\ NoSecretLost /\ run[c] \in RunSet /\ run[c].pc = "staging" /\ Owned(c)
      /\ UNCHANGED <<secret, text, nonce>>
  BY DEF RotationInv, TypeOK, JobsOwned, applyStagedSecrets
<1>2. lock = {c} /\ \A d \in Commands \ {c} : run[d].pc = "idle"
  BY <1>1, OthersIdle
<1>3. CASE SameInventory(c) /\ SameRows /\ UNCHANGED <<job, lock, faults>>
           /\ run' = [run EXCEPT ![c].pc = "applying", ![c].view = secret]
  <2> DEFINE r == [run[c] EXCEPT !.pc = "applying", !.view = secret]
  <2>1. r \in RunSet /\ r.pc = "applying" /\ r.view = secret /\ r.todo = run[c].todo /\ r.new = run[c].new
        /\ r.rows = run[c].rows /\ r.existing = run[c].existing /\ r.reported = run[c].reported
    BY <1>1 DEF RunSet, TypeOK
  <2>2. run' = [run EXCEPT ![c] = r]
    BY <1>3
  <2> HIDE DEF r
  <2>3. run' \in [Commands -> RunSet] /\ run'[c] = r /\ \A d \in Commands \ {c} : run'[d] = run[d]
    BY <1>1, <2>1, <2>2, OneMoves
  <2>4. Secret(secret) = Staged(job.items) /\ \A s \in Staged(job.items) : job.items[s].source = secret[s]
    BY <1>1, <1>3 DEF SameInventory, SameRows, StagingHolds, Owned
  <2>5. StagingHolds' /\ TypeOK' /\ NoSecretLost'
    BY <1>1, <1>3, <2>1, <2>3 DEF StagingHolds, TypeOK, NoSecretLost
  <2>6. Owned(c)'
    BY <1>1, <1>3, <2>1, <2>3 DEF Owned
  <2>7. Held' /\ JobsOwned'
    BY <1>2, <1>3, <2>1, <2>3, <2>6 DEF Held, JobsOwned
  <2>8. ViewStaged'
    BY <1>2, <1>3, <2>1, <2>3, <2>4 DEF ViewStaged
  <2> QED
    BY <2>5, <2>7, <2>8 DEF RotationInv
<1>4. ASSUME NEW r \in Reports \ {"staging"}, End(c, r), cleanupReencryptJob
      PROVE  RotationInv'
  BY <1>1, <1>4, Ended, Cleaned DEF TypeOK, NoSecretLost
<1> QED
  BY <1>3, <1>4 DEF applyStagedSecrets, Reports

\* The commit replaces rows by ciphertexts that say the same.
LEMMA CommitKeeps ==
  ASSUME RotationInv, NEW c \in Commands, CommitApply(c)
  PROVE  RotationInv'
<1>1. TypeOK /\ StagingHolds /\ NoSecretLost /\ Owned(c)
  BY DEF RotationInv, JobsOwned, CommitApply
<1>2. \A s \in Secrets : secret'[s] \in Ciphertext /\ secret'[s].text = secret[s].text
  BY <1>1 DEF CommitApply, CompareAndSwap, StagingHolds, ItemFits, Owned, TypeOK, JobSet, ItemSet, Staged
<1>3. secret' \in [Secrets -> Ciphertext] /\ UNCHANGED text /\ NoSecretLost'
  BY <1>1, <1>2 DEF CommitApply, NoSecretLost
<1> QED
  BY <1>1, <1>3, Ended DEF CommitApply, TypeOK, Reports

\* The service writes a secret and nothing else.
LEMMA ServiceKeeps ==
  ASSUME RotationInv, NEW s \in Secrets,
         Clear(s) \/ \E key \in Keys, plaintext \in Texts : Write(s, key, plaintext)
  PROVE  RotationInv'
<1>1. TypeOK /\ NoSecretLost /\ UNCHANGED <<job, lock, run, faults>>
  BY DEF RotationInv, Clear, Write
<1>2. TypeOK' /\ NoSecretLost'
  <2>1. CASE Clear(s)
    BY <1>1, <2>1, Emptiness DEF Clear, TypeOK, NoSecretLost, Empty
  <2>2. CASE \E key \in Keys, plaintext \in Texts : Write(s, key, plaintext)
    <3>1. PICK key \in Keys, plaintext \in Texts : Write(s, key, plaintext)
      BY <2>2
    <3>2. Encrypt(key, plaintext) \in Ciphertext /\ Encrypt(key, plaintext).text = plaintext
      BY <1>1 DEF Encrypt, Ciphertext, TypeOK
    <3> QED
      BY <1>1, <3>1, <3>2 DEF Write, TypeOK, NoSecretLost
  <2> QED
    BY <2>1, <2>2
<1>3. StagingHolds' /\ Held' /\ JobsOwned' /\ ViewStaged'
  BY <1>1 DEF RotationInv, StagingHolds, Held, JobsOwned, Owned, ViewStaged
<1> QED
  BY <1>2, <1>3 DEF RotationInv

\* For any number of secrets, keys, commands and interruptions.
THEOREM RotationInvariance == ASSUME IsFiniteSet(Secrets) PROVE Spec => []RotationInv
<1>1. Init => RotationInv
  BY InitialRotation
<1>2. RotationInv /\ [Next]_vars => RotationInv'
  <2> SUFFICES ASSUME RotationInv, [Next]_vars PROVE RotationInv'
    OBVIOUS
  <2>1. CASE UNCHANGED vars
    BY <2>1 DEF vars, RotationInv, TypeOK, NoSecretLost, StagingHolds, Held, JobsOwned, Owned, ViewStaged
  <2>2. CASE Next
    BY <2>2, ServiceKeeps, BeginKeeps, LoadKeeps, OpenKeeps, StageKeeps, ApplyKeeps, CommitKeeps, EndKeeps
       DEF Next
  <2> QED
    BY <2>1, <2>2
<1> QED
  BY <1>1, <1>2, PTL DEF Spec

\* No interruption, resumption or concurrent write makes a rotation lose a secret.
THEOREM SecretsAreKept == ASSUME IsFiniteSet(Secrets) PROVE Spec => []NoSecretLost
  BY RotationInvariance, PTL DEF RotationInv

\* What was staged is always valid when a run takes it up.
THEOREM StagingIsValid == ASSUME IsFiniteSet(Secrets) PROVE Spec => []StagingHolds
  BY RotationInvariance, PTL DEF RotationInv

\* A run that reports success has moved every secret.
THEOREM SuccessRotates == ASSUME IsFiniteSet(Secrets) PROVE Spec => Rotated
<1>1. RotationInv /\ [Next]_vars => [RotatedStep]_vars
  <2> SUFFICES ASSUME RotationInv, Next, NEW c \in Commands,
                      run[c].pc = "applying", run'[c].pc = "idle", run'[c].reported = "success"
               PROVE  verifyEncryptedRows([s \in Secrets \ SinceView(c) |-> secret'[s]], run[c].new)
    BY DEF RotatedStep
  <2>1. TypeOK /\ StagingHolds /\ Owned(c) /\ ViewStaged /\ lock = {c}
        /\ \A d \in Commands \ {c} : run[d].pc = "idle"
    BY OthersIdle DEF RotationInv, JobsOwned
  <2>2. ASSUME NEW d \in Commands, NEW r \in Reports, End(d, r), run[d].pc # "idle" PROVE d = c /\ r = "success"
    <3>1. d = c
      BY <2>1, <2>2
    <3>2. run'[c] = [NoRun EXCEPT !.reported = r]
      BY <2>1, <2>2, <3>1 DEF End, TypeOK
    <3> QED
      BY <2>2, <3>1, <3>2, NothingUnderWay
  <2>3. CommitApply(c)
    <3>1. ~\E s \in Secrets : Clear(s) \/ \E key \in Keys, plaintext \in Texts : Write(s, key, plaintext)
      BY DEF Clear, Write
    <3>2. PICK d \in Commands :
            \/ \E old, new \in Keys : Begin(d, old, new)
            \/ LoadSettings(d) \/ DryRun(d) \/ loadOrCreateReencryptJob(d) \/ RefuseRow(d)
            \/ \E batch \in SUBSET Secrets : stageSecretBatch(d, batch)
            \/ applyStagedSecrets(d) \/ CommitApply(d) \/ RollBack(d) \/ Interrupt(d)
      BY <3>1 DEF Next
    <3>3. ~\E old, new \in Keys : Begin(d, old, new)
      BY <2>1 DEF Begin
    <3>4. run[d].pc # "idle" /\ d = c
      BY <2>1, <3>2, <3>3
         DEF LoadSettings, DryRun, loadOrCreateReencryptJob, RefuseRow, stageSecretBatch,
             applyStagedSecrets, CommitApply, RollBack, Interrupt
    <3>5. ~RollBack(c) /\ ~Interrupt(c)
      BY <2>2 DEF RollBack, Interrupt, Reports
    <3> QED
      BY <3>2, <3>3, <3>4, <3>5
         DEF LoadSettings, DryRun, loadOrCreateReencryptJob, RefuseRow, stageSecretBatch, applyStagedSecrets
  <2>4. SUFFICES ASSUME NEW s \in Secrets, secret[s] = run[c].view[s], secret'[s] # Empty
                 PROVE  secret'[s].key = run[c].new
    BY DEF verifyEncryptedRows, SinceView, Decrypts
  <2>5. CASE s \in Staged(job.items)
    BY <2>1, <2>3, <2>4, <2>5 DEF CommitApply, ViewStaged, StagingHolds, ItemFits, Owned
  <2>6. CASE s \notin Staged(job.items)
    BY <2>1, <2>3, <2>4, <2>6 DEF CommitApply, ViewStaged, Secret
  <2> QED
    BY <2>5, <2>6
<1> QED
  BY <1>1, RotationInvariance, PTL DEF Spec, Rotated
=============================================================================
