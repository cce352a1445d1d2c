------------------------------ MODULE ExportJob ------------------------------
(***************************************************************************)
(* Export jobs (model/export.go), the service that creates and serves them  *)
(* (service/export.go) and the runtime that writes them                     *)
(* (worker/export_runtime.go).  The runtime is one loop: it executes a job, *)
(* recovers or cleans up, one at a time.  Requests and crashes interleave   *)
(* with every database call and file operation of the loop.                 *)
(***************************************************************************)
EXTENDS Naturals, FiniteSets

CONSTANTS
    MaxJobs,           \* bound: jobs 1 .. MaxJobs
    Keys,              \* contents of active_key: owner, format, type and filters
    OwnerOf,           \* the user in a key
    MaxActivePerUser,  \* export.max_active_per_user
    MaxActiveGlobal,   \* export.max_active_global
    MaxAttempts,       \* exportMaximumAttempts
    Rates,             \* exchange rates the sites may have
    Downloads,         \* download requests that may be under way at once
    MaxCrashes         \* bound: crashes, fatal database errors and refused removals

ExportBoundAssumption == MaxJobs \in Nat \ {0} /\ MaxAttempts \in Nat \ {0} /\ MaxCrashes \in Nat
ExportLimitAssumption == MaxActivePerUser \in 1 .. MaxActiveGlobal
ExportRatesAssumption == 0 \notin Rates

Jobs == 1 .. MaxJobs
\* File names in the export directory: a temporary name carries the claim's token, here
\* the number of the attempt; the final name only the job.
Temporary(n) == <<"tmp", n>>
Final == <<"final", 0>>
NoPath == <<"null", 0>>
NoRates == 0

VARIABLES
    job,      \* export_job, "none" before its insert
    disk,     \* the directory: the rates each file was written with, per job and name
    rates,    \* current exchange rates
    loop,     \* the runtime's loop
    request,  \* the download requests under way
    crashes,  \* crashes so far
    doubtful, \* history: jobs whose completion was stored though its answer was lost
    refused   \* history: half-written files the system would not remove

vars == <<job, disk, rates, loop, request, crashes, doubtful, refused>>

NoJob == [status |-> "none", key |-> CHOOSE k \in Keys : TRUE, active |-> FALSE, attempts |-> 0, due |-> FALSE,
          path |-> NoPath, rates |-> NoRates, ttl |-> "unset", missing |-> FALSE]
Idle == [pc |-> "idle", job |-> 1, attempt |-> 0, rates |-> NoRates, work |-> {}]
NoRequest == [pc |-> "none", job |-> 1, path |-> NoPath, status |-> "none"]

Init ==
    /\ job = [j \in Jobs |-> NoJob]
    /\ disk = [j \in Jobs |-> [p \in {} |-> NoRates]]
    /\ rates \in Rates
    /\ loop = [Idle EXCEPT !.pc = "down"]
    /\ request = [d \in Downloads |-> NoRequest]
    /\ crashes = 0
    /\ doubtful = {} /\ refused = {}

Active(j) == job[j].status \in {"pending", "running"}
Exists(j, p) == p \in DOMAIN disk[j]
Without(j, p) == [disk EXCEPT ![j] = [q \in DOMAIN disk[j] \ {p} |-> disk[j][q]]]
With(d, j, p, r) == [d EXCEPT ![j] = [q \in DOMAIN d[j] \cup {p} |-> IF q = p THEN r ELSE d[j][q]]]

-----------------------------------------------------------------------------
\* Create: under the lock of the settings.  An active job with the key is answered
\* instead; a full queue or a full disk is an error.


\* CountActive; owned: keys of one user, or none for all.
CountActive(owned) == {j \in Jobs : Active(j) /\ (owned # {} => job[j].key \in owned)}

Create(j, k) ==
    /\ job[j].status = "none" /\ \A i \in Jobs : i < j => job[i].status # "none"
    /\ \A i \in Jobs : job[i].active => job[i].key # k
    /\ Cardinality(CountActive({l \in Keys : OwnerOf[l] = OwnerOf[k]})) < MaxActivePerUser
    /\ Cardinality(CountActive({})) < MaxActiveGlobal
    /\ job' = [job EXCEPT ![j] = [NoJob EXCEPT !.status = "pending", !.key = k, !.active = TRUE, !.due = TRUE]]
    /\ UNCHANGED <<disk, rates, loop, request, crashes, doubtful, refused>>

\* Time: next_attempt_at or expires_at is reached.
RetryDue(j) ==
    /\ job[j].status = "pending" /\ ~job[j].due
    /\ job' = [job EXCEPT ![j].due = TRUE]
    /\ UNCHANGED <<disk, rates, loop, request, crashes, doubtful, refused>>

TimeToLiveEnds(j) ==
    /\ job[j].ttl = "running"
    /\ job' = [job EXCEPT ![j].ttl = "over"]
    /\ UNCHANGED <<disk, rates, loop, request, crashes, doubtful, refused>>

RatesChange ==
    /\ rates' \in Rates \ {rates}
    /\ UNCHANGED <<job, disk, loop, request, crashes, doubtful, refused>>

-----------------------------------------------------------------------------
\* One execution.

\* Claim and RunOnce: the oldest due job, which the model leaves open.
Claim(j) ==
    /\ loop.pc = "idle"
    /\ job[j].status = "pending" /\ job[j].due
    /\ job' = [job EXCEPT ![j].status = "running", ![j].attempts = @ + 1]
    /\ loop' = [Idle EXCEPT !.pc = "claimed", !.job = j, !.attempt = job[j].attempts + 1,
                            !.rates = job[j].rates]
    /\ UNCHANGED <<disk, rates, request, crashes, doubtful, refused>>

\* Mutant: every attempt takes the current rates.
CurrentRates == rates

\* The rates of the first attempt, once they are stored.
RatesOf == IF loop.rates = NoRates THEN rates ELSE loop.rates

\* execute: the rates are read in the snapshot transaction and stored when the job has
\* none (SetRateSnapshot).
SetRateSnapshot ==
    /\ loop.pc = "claimed"
    /\ loop' = [loop EXCEPT !.pc = "rated", !.rates = RatesOf]
    /\ job' = [job EXCEPT ![loop.job].rates = IF @ = NoRates THEN loop'.rates ELSE @]
    /\ UNCHANGED <<disk, rates, request, crashes, doubtful, refused>>


\* SetDataSnapshot and SetTemporaryPath: the name is stored before the file exists.
SetTemporaryPath ==
    /\ loop.pc = "rated"
    /\ loop' = [loop EXCEPT !.pc = "registered"]
    /\ job' = [job EXCEPT ![loop.job].path = Temporary(loop.attempt)]
    /\ UNCHANGED <<disk, rates, request, crashes, doubtful, refused>>

\* GenerateExportFile and its kin: the file grows page by page until it is complete, or
\* until an error that another attempt may or may not overcome.
Generate ==
    /\ loop.pc = "registered"
    /\ disk' = With(disk, loop.job, Temporary(loop.attempt), loop.rates)
    /\ \E result \in {"generated", "retryable", "fatal"} : loop' = [loop EXCEPT !.pc = result]
    /\ UNCHANGED <<job, rates, request, crashes, doubtful, refused>>

\* The filters or the snapshot are rejected before a file exists.
Reject ==
    /\ loop.pc \in {"claimed", "rated"}
    /\ \E result \in {"retryable", "fatal"} : loop' = [loop EXCEPT !.pc = result]
    /\ UNCHANGED <<job, disk, rates, request, crashes, doubtful, refused>>

\* PublishExportArtifact: never over an existing file.
PublishExportArtifact ==
    /\ loop.pc = "generated"
    /\ IF Exists(loop.job, Final)
       THEN /\ loop' = [loop EXCEPT !.pc = "retryable"]
            /\ UNCHANGED disk
       ELSE /\ loop' = [loop EXCEPT !.pc = "published"]
            /\ disk' = With(Without(loop.job, Temporary(loop.attempt)), loop.job, Final, loop.rates)
    /\ UNCHANGED <<job, rates, request, crashes, doubtful, refused>>

Completed(j) == [job[j] EXCEPT !.status = "success", !.active = FALSE, !.path = Final, !.ttl = "running"]


Complete ==
    /\ loop.pc = "published"
    /\ job' = [job EXCEPT ![loop.job] = Completed(loop.job)]
    /\ loop' = Idle
    /\ UNCHANGED <<disk, rates, request, crashes, doubtful, refused>>

\* An error of Complete removes the file and ends the loop; the row may have been stored.
CompleteFails ==
    /\ loop.pc = "published" /\ crashes < MaxCrashes
    /\ \E stored \in BOOLEAN :
        /\ job' = IF stored THEN [job EXCEPT ![loop.job] = Completed(loop.job)] ELSE job
        /\ doubtful' = IF stored THEN doubtful \cup {loop.job} ELSE doubtful
    /\ disk' = Without(loop.job, Final)
    /\ loop' = [Idle EXCEPT !.pc = "down"]
    /\ crashes' = crashes + 1
    /\ UNCHANGED <<rates, request, refused>>

\* finishFailure: the temporary file goes first, then FinishAttempt.
LeftOver == Exists(loop.job, Temporary(loop.attempt)) /\ <<loop.job, loop.attempt>> \notin refused
RemoveTemporary ==
    /\ loop.pc \in {"retryable", "fatal"} /\ LeftOver
    /\ disk' = Without(loop.job, Temporary(loop.attempt))
    /\ UNCHANGED <<job, rates, loop, request, crashes, doubtful, refused>>
\* The error of the removal is ignored.
RemovalRefused ==
    /\ loop.pc \in {"retryable", "fatal"} /\ LeftOver /\ crashes < MaxCrashes
    /\ refused' = refused \cup {<<loop.job, loop.attempt>>} /\ crashes' = crashes + 1
    /\ UNCHANGED <<job, disk, rates, loop, request, doubtful>>


RetryAgain == loop.pc = "retryable" /\ loop.attempt < MaxAttempts

FinishAttempt ==
    /\ loop.pc \in {"retryable", "fatal"} /\ ~LeftOver
    /\ job' = [job EXCEPT ![loop.job] =
                [@ EXCEPT !.path = NoPath, !.due = FALSE,
                          !.status = IF RetryAgain THEN "pending" ELSE "failed",
                          !.active = RetryAgain]]
    /\ loop' = Idle
    /\ UNCHANGED <<disk, rates, request, crashes, doubtful, refused>>

-----------------------------------------------------------------------------
\* Recovery and clean-up: a transaction collects rows with their files, then each file is
\* removed and its path cleared.
Collect(pc, jobs) == [loop EXCEPT !.pc = pc, !.work = {<<j, job[j].path>> : j \in jobs}]


\* RecoverRunning; running rows only when the process starts (the loop executes no job
\* while it recovers, so a lease can only have expired with its process).
RecoverRunning(takeover) ==
    LET running == {j \in Jobs : takeover /\ job[j].status = "running"}
        leftover == {j \in Jobs : job[j].status \in {"pending", "failed"} /\ job[j].path # NoPath}
    IN  /\ job' = [j \in Jobs |->
                    IF j \notin running THEN job[j]
                    ELSE [job[j] EXCEPT
                            !.status = IF job[j].attempts >= MaxAttempts THEN "failed" ELSE "pending",
                            !.active = job[j].attempts < MaxAttempts,
                            !.due = TRUE]]
        /\ loop' = Collect(IF takeover THEN "takeover" ELSE "recover", running \cup leftover)

\* Start
Takeover ==
    /\ loop.pc = "down"
    /\ RecoverRunning(TRUE)
    /\ UNCHANGED <<disk, rates, request, crashes, doubtful, refused>>

RecoverOnce ==
    /\ loop.pc = "idle"
    /\ \E j \in Jobs : job[j].status \in {"pending", "failed"} /\ job[j].path # NoPath
    /\ RecoverRunning(FALSE)
    /\ UNCHANGED <<disk, rates, request, crashes, doubtful, refused>>


Expirable ==
    {j \in Jobs : \/ job[j].status = "success" /\ job[j].ttl = "over"
                  \/ job[j].status = "expired" /\ job[j].path # NoPath}

\* Expire and CleanupOnce
Expire ==
    /\ loop.pc \in {"idle", "takenOver"}
    /\ loop.pc = "idle" => Expirable # {}
    /\ job' = [j \in Jobs |-> IF j \in Expirable THEN [job[j] EXCEPT !.status = "expired"] ELSE job[j]]
    /\ loop' = Collect("cleanup", Expirable)
    /\ UNCHANGED <<disk, rates, request, crashes, doubtful, refused>>

RemoveExportArtifact(w) ==
    /\ loop.pc \in {"takeover", "recover", "cleanup"} /\ w \in loop.work
    /\ Exists(w[1], w[2])
    /\ disk' = Without(w[1], w[2])
    /\ UNCHANGED <<job, rates, loop, request, crashes, doubtful, refused>>

\* ClearArtifactPath: only the path that was removed.
ClearArtifactPath(w) ==
    /\ loop.pc \in {"takeover", "recover", "cleanup"} /\ w \in loop.work
    /\ ~Exists(w[1], w[2])
    /\ job' = [job EXCEPT ![w[1]].path = IF @ = w[2] THEN NoPath ELSE @]
    /\ loop' = [loop EXCEPT !.work = @ \ {w}]
    /\ UNCHANGED <<disk, rates, request, crashes, doubtful, refused>>

Recovered ==
    /\ loop.pc \in {"takeover", "recover", "cleanup"} /\ loop.work = {}
    /\ loop' = [Idle EXCEPT !.pc = IF loop.pc = "takeover" THEN "takenOver" ELSE "idle"]
    /\ UNCHANGED <<job, disk, rates, request, crashes, doubtful, refused>>

\* A crash, or an error of the database or of a removal that ends the loop and with it the
\* process.
Crash ==
    /\ loop.pc # "down" /\ crashes < MaxCrashes
    /\ loop' = [Idle EXCEPT !.pc = "down"]
    /\ request' = [d \in Downloads |-> NoRequest]
    /\ crashes' = crashes + 1
    /\ UNCHANGED <<job, disk, rates, doubtful, refused>>

-----------------------------------------------------------------------------
\* OpenDownload: the row, then the file, then what it finds is stored.
Step(d, next) == request' = [request EXCEPT ![d] = next]
OpenDownload(d, j) ==
    /\ request[d].pc = "none" /\ loop.pc # "down" /\ job[j].status # "none"
    /\ Step(d,
        CASE job[j].status = "expired" \/ job[j].ttl = "over" ->
               [pc |-> "remove", job |-> j, path |-> job[j].path, status |-> job[j].status]
          [] job[j].status = "success" /\ job[j].ttl # "over" /\ job[j].path # NoPath ->
               [pc |-> "open", job |-> j, path |-> job[j].path, status |-> "success"]
          [] OTHER -> NoRequest)
    /\ UNCHANGED <<job, disk, rates, loop, crashes, doubtful, refused>>

\* The file is opened, or markMissing follows.
OpenFile(d) ==
    /\ request[d].pc = "open"
    /\ Step(d, IF Exists(request[d].job, request[d].path) THEN NoRequest
               ELSE [request[d] EXCEPT !.pc = "missing"])
    /\ UNCHANGED <<job, disk, rates, loop, crashes, doubtful, refused>>

MarkFileMissing(d) ==
    /\ request[d].pc = "missing"
    /\ job' = [job EXCEPT ![request[d].job] =
                IF @.status = "success" THEN [@ EXCEPT !.status = "failed", !.path = NoPath, !.missing = TRUE] ELSE @]
    /\ Step(d, NoRequest)
    /\ UNCHANGED <<disk, rates, loop, crashes, doubtful, refused>>

\* A file that cannot be removed keeps its path.
RemoveManagedFile(d) ==
    /\ request[d].pc = "remove"
    /\ \/ /\ disk' = IF request[d].path = NoPath THEN disk ELSE Without(request[d].job, request[d].path)
          /\ Step(d, [request[d] EXCEPT !.pc = "mark"])
          /\ UNCHANGED crashes
       \/ /\ request[d].path # NoPath /\ Exists(request[d].job, request[d].path) /\ crashes < MaxCrashes
          /\ Step(d, [request[d] EXCEPT !.pc = "mark", !.path = NoPath])
          /\ crashes' = crashes + 1 /\ UNCHANGED disk
    /\ UNCHANGED <<job, rates, loop, doubtful, refused>>

\* MarkExpired, then ClearArtifactPath.
MarkExpired(d) ==
    /\ request[d].pc = "mark"
    /\ job' = [job EXCEPT ![request[d].job] =
                [@ EXCEPT !.status = IF request[d].status = "success" /\ @ = "success" THEN "expired" ELSE @,
                          !.path = IF request[d].path # NoPath /\ @ = request[d].path THEN NoPath ELSE @]]
    /\ Step(d, NoRequest)
    /\ UNCHANGED <<disk, rates, loop, crashes, doubtful, refused>>

Execute ==
    \/ SetRateSnapshot \/ SetTemporaryPath \/ Generate \/ Reject \/ PublishExportArtifact \/ Complete
    \/ CompleteFails \/ RemoveTemporary \/ RemovalRefused \/ FinishAttempt

Work == \E j \in Jobs, p \in {Temporary(n) : n \in 1 .. MaxAttempts} \cup {Final, NoPath} :
            RemoveExportArtifact(<<j, p>>) \/ ClearArtifactPath(<<j, p>>)

Download(d) == OpenFile(d) \/ MarkFileMissing(d) \/ RemoveManagedFile(d) \/ MarkExpired(d)

Next ==
    \/ \E j \in Jobs, k \in Keys : Create(j, k)
    \/ \E j \in Jobs : RetryDue(j) \/ TimeToLiveEnds(j) \/ Claim(j) \/ (\E d \in Downloads : OpenDownload(d, j))
    \/ RatesChange \/ Execute \/ Takeover \/ RecoverOnce \/ Expire \/ Work \/ Recovered \/ Crash
    \/ \E d \in Downloads : Download(d)

\* The loop's tickers select fairly between a job, recovery and clean-up; a process that
\* ended is started again; time passes.
Fairness ==
    /\ WF_vars(Execute) /\ WF_vars(Takeover) /\ WF_vars(Work) /\ WF_vars(Recovered)
    /\ SF_vars(RecoverOnce) /\ SF_vars(Expire)
    /\ \A j \in Jobs : WF_vars(RetryDue(j)) /\ WF_vars(TimeToLiveEnds(j)) /\ SF_vars(Claim(j))

Spec == Init /\ [][Next]_vars /\ Fairness

-----------------------------------------------------------------------------
Name == {Temporary(n) : n \in 1 .. MaxAttempts} \cup {Final}

\* Rows keep their shape: no job is attempted more often than exportMaximumAttempts.
ExportTypeOK ==
    \A j \in Jobs :
        /\ job[j].status \in {"none", "pending", "running", "success", "failed", "expired"}
        /\ job[j].attempts \in 0 .. MaxAttempts
        /\ job[j].path \in Name \cup {NoPath}
        /\ DOMAIN disk[j] \subseteq Name
        /\ job[j].active = Active(j)

\* Concurrent requests never exceed the limits of the queue, for a user or in all, and
\* never start the same export twice; retries and recoveries keep their place.
QueueWithinLimits ==
    /\ Cardinality({j \in Jobs : Active(j)}) <= MaxActiveGlobal
    /\ \A k \in Keys : Cardinality({j \in Jobs : Active(j) /\ OwnerOf[job[j].key] = OwnerOf[k]}) <= MaxActivePerUser
    /\ \A i, j \in Jobs : Active(i) /\ Active(j) /\ job[i].key = job[j].key => i = j

\* Wherever an attempt stops, its half-written file is on record: file_path names it,
\* unless the system refused to remove it when the attempt failed.
HalfWrittenIsKnown ==
    \A j \in Jobs, n \in 1 .. MaxAttempts :
        Exists(j, Temporary(n)) => job[j].path = Temporary(n) \/ <<j, n>> \in refused

\* A successful job has its file until it expires, and every attempt of a job writes the
\* rates its row shows: those of the first attempt.
SuccessHasFile ==
    \A j \in Jobs :
        /\ job[j].status = "success" /\ job[j].ttl = "running" /\ j \notin doubtful => Exists(j, Final)
        /\ job[j].status = "success" /\ Exists(j, Final) => disk[j][Final] = job[j].rates

\* A request that finds no file fails a job only if the file is gone for good, not while
\* it is being written or published: its completion was in doubt, or its time to live
\* ended and another download removed it.
MissingIsTrue ==
    \A j \in Jobs : job[j].missing => ~Exists(j, Final) /\ (j \in doubtful \/ job[j].ttl = "over")

\* Every job ends: crashes, failed attempts and recoveries use up its attempts.
EveryJobSettles == \A j \in Jobs : Active(j) ~> ~Active(j)

\* A file that has expired is removed, wherever the clean-up or a request was stopped.
ExpiredIsRemoved == \A j \in Jobs : job[j].status = "expired" ~> ~Exists(j, Final)

\* A file is missing only when something went wrong with its completion.
MissingOnlyInDoubt == \A j \in Jobs : job[j].missing => j \in doubtful

\* As the design says of a crash at any point: no orphan is left.  Once the runtime has
\* recovered, every file belongs to a row that names it.
NoOrphan ==
    loop.pc = "idle" => \A j \in Jobs : \A p \in DOMAIN disk[j] : job[j].path = p
=============================================================================
