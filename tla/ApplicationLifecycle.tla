------------------------ MODULE ApplicationLifecycle ------------------------
(***************************************************************************)
(* The process from its first statement to its exit: the bootstrap of the  *)
(* database and the administrator, the ordered start of the runtime group  *)
(* with its rollback, the HTTP server, the monitor of the runtimes and the *)
(* two-stage shutdown.  A runtime is what RuntimeLifecycle shows of it:    *)
(* Start either fails and leaves nothing, or leaves a loop; Quiesce stops  *)
(* admission; Stop returns when the loop has ended or at its deadline.     *)
(***************************************************************************)
EXTENDS Integers, FiniteSets

CONSTANTS Components,    \* 1..n, in the order in which they are started
          Generated,     \* whether the administrator's password is generated (development and test)
          MaxStarts,     \* processes started one after the other
          MaxRequests    \* HTTP requests in flight

ApplicationAssumption ==
  /\ Components = 1..Cardinality(Components) /\ Components # {}
  /\ Generated \in BOOLEAN /\ {MaxStarts, MaxRequests} \subseteq Nat

VARIABLES pc,         \* where main is
          comp,       \* component -> "off", "up", "dead", "quiesced", "stopped"
          readiness,  \* [initialized, schedulerReady] of common.Readiness
          listener,   \* "none", "open", "closed"
          requests,   \* handlers under way
          drained,    \* the HTTP server finished its Shutdown
          late,       \* the deadlines that passed: "drain", "hard"
          database,   \* "closed", "open"
          noticed,    \* monitorRuntime reported a failure
          admin,      \* "none", "lost", "known": whether somebody knows its password
          starts
vars == <<pc, comp, readiness, listener, requests, drained, late, database, noticed, admin, starts>>

Off == [c \in Components |-> "off"]
NotReady == [initialized |-> FALSE, schedulerReady |-> FALSE]
Init ==
  /\ pc = "boot" /\ comp = Off /\ readiness = NotReady /\ listener = "none" /\ requests = 0
  /\ drained = FALSE /\ late = {} /\ database = "closed" /\ noticed = FALSE /\ admin = "none" /\ starts = 1

Busy == {c \in Components : comp[c] \in {"up", "quiesced"}}
\* Ready of the group: every component.
GroupReadyAny == \E c \in Components : comp[c] = "up"
GroupReady == \A c \in Components : comp[c] = "up"
Exited == pc \in {"exit", "abort"}
Ready == readiness.initialized /\ readiness.schedulerReady
rest == <<comp, readiness, listener, requests, drained, late, noticed, admin, starts>>

----------------------------------------------------------------------------
(***************************************************************************)
(* Start.                                                                  *)
(***************************************************************************)
\* The database is opened, migrated and seeded.
InitializeDatabase ==
  /\ pc = "boot" /\ database' = "open" /\ pc' \in {"admin", "exit"}
  /\ UNCHANGED rest
\* The administrator when there is no user, with a password that is still only in
\* memory, and the services; any of these steps may fail.
Bootstrap ==
  /\ pc = "admin"
  /\ \/ pc' = "start" /\ UNCHANGED admin /\ (admin # "none" \/ ~Generated)
     \/ pc' = "persist" /\ admin = "none" /\ Generated /\ admin' = "lost"
     \/ pc' = "exit" /\ UNCHANGED admin
     \/ pc' = "exit" /\ admin = "none" /\ Generated /\ admin' = "lost"
  /\ UNCHANGED <<comp, readiness, listener, requests, drained, late, database, noticed, starts>>
\* persistGeneratedBootstrapPassword: an exclusive file; a failure ends the process.
Persist ==
  /\ pc = "persist"
  /\ \/ pc' = "start" /\ admin' = "known"
     \/ pc' = "exit" /\ UNCHANGED admin
  /\ UNCHANGED <<comp, readiness, listener, requests, drained, late, database, noticed, starts>>

Started == {c \in Components : comp[c] # "off"}
\* runtimeGroup.Start starts the next component; a failure, or one that is not
\* ready, begins the rollback.  Readiness says initialized and not scheduling.
StartNext ==
  /\ pc = "start" /\ Started # Components
  /\ readiness' = [initialized |-> TRUE, schedulerReady |-> FALSE]
  /\ \E state \in {"up", "dead", "off"} :
       /\ comp' = [comp EXCEPT ![Cardinality(Started) + 1] = state]
       /\ pc' = IF state = "up" THEN "start" ELSE "rollback"
  /\ UNCHANGED <<listener, requests, drained, late, database, noticed, admin, starts>>

Quiesced == [c \in Components |-> IF comp[c] = "up" THEN "quiesced" ELSE comp[c]]
\* rollbackRuntimeComponents: every started component is quiesced, then stopped in
\* turn within ten seconds; then main returns the error.
RollbackQuiesce ==
  /\ pc = "rollback" /\ comp' = Quiesced /\ pc' = "rolling"
  /\ UNCHANGED <<readiness, listener, requests, drained, late, database, noticed, admin, starts>>
RollbackStop ==
  /\ pc = "rolling" /\ (Busy = {} \/ "hard" \in late)
  /\ pc' = "exit" /\ readiness' = NotReady
  /\ UNCHANGED <<comp, listener, requests, drained, late, database, noticed, admin, starts>>

\* application.Start checks the group once more.
StartDone ==
  /\ pc = "start" /\ Started = Components
  /\ IF GroupReady
     THEN pc' = "listen" /\ readiness' = [readiness EXCEPT !.schedulerReady = TRUE]
     ELSE pc' = "unready" /\ readiness' = NotReady
  /\ UNCHANGED <<comp, listener, requests, drained, late, database, noticed, admin, starts>>
\* main returns the error of application.Start: the deferred calls cancel the
\* context of the runtimes and close the database.
ReturnUnready ==
  /\ pc = "unready" /\ pc' = "abort"
  /\ UNCHANGED <<rest, database>>

\* A port that is taken stops the application again, within thirty seconds.
Listen ==
  /\ pc = "listen"
  /\ \/ pc' = "serve" /\ listener' = "open" /\ UNCHANGED <<comp, readiness, drained>>
     \/ pc' = "await" /\ readiness' = NotReady /\ comp' = Quiesced /\ drained' = TRUE /\ UNCHANGED listener
  /\ UNCHANGED <<requests, late, database, noticed, admin, starts>>

----------------------------------------------------------------------------
(***************************************************************************)
(* Serving and shutdown.                                                   *)
(***************************************************************************)
Accept ==
  /\ listener = "open" /\ requests < MaxRequests /\ requests' = requests + 1
  /\ UNCHANGED <<pc, comp, readiness, listener, drained, late, database, noticed, admin, starts>>
Answer ==
  /\ requests > 0 /\ requests' = requests - 1
  /\ UNCHANGED <<pc, comp, readiness, listener, drained, late, database, noticed, admin, starts>>

\* The loop of a component ends: by an error, or because it was quiesced.
Die(c) ==
  /\ comp[c] = "up" /\ comp' = [comp EXCEPT ![c] = "dead"]
  /\ UNCHANGED <<pc, readiness, listener, requests, drained, late, database, noticed, admin, starts>>
LoopEnds(c) ==
  /\ comp[c] = "quiesced" /\ comp' = [comp EXCEPT ![c] = "stopped"]
  /\ UNCHANGED <<pc, readiness, listener, requests, drained, late, database, noticed, admin, starts>>
\* monitorRuntime looks every 250 ms, from the first request on.
MonitorRuntime ==
  /\ pc \notin {"boot", "admin", "persist", "start", "rollback", "rolling", "listen", "unready", "exit", "abort"} /\ ~noticed /\ ~GroupReady
  /\ listener # "none" /\ noticed' = TRUE
  /\ UNCHANGED <<pc, comp, readiness, listener, requests, drained, late, database, admin, starts>>

\* A signal, the error of the server, or the monitor ends serving:
\* shutdownApplication first takes readiness down, then closes the listener, then
\* quiesces the runtimes.
ServeEnds ==
  /\ pc = "serve" /\ pc' = "close" /\ readiness' = NotReady
  /\ UNCHANGED <<comp, listener, requests, drained, late, database, noticed, admin, starts>>
FailureEnds == noticed /\ ServeEnds
\* Mutant: the runtimes are quiesced before the listener is closed.
QuiesceFirst ==
  /\ pc = "close" /\ comp' = Quiesced /\ listener' = listener /\ pc' = "quiesce"
  /\ UNCHANGED <<readiness, requests, drained, late, database, noticed, admin, starts>>
CloseListener ==
  /\ pc = "close" /\ listener' = "closed" /\ pc' = "quiesce"
  /\ UNCHANGED <<comp, readiness, requests, drained, late, database, noticed, admin, starts>>
Quiesce ==
  /\ pc = "quiesce" /\ comp' = Quiesced /\ pc' = "await"
  /\ UNCHANGED <<readiness, listener, requests, drained, late, database, noticed, admin, starts>>

\* server.Shutdown waits for the handlers; at the drain deadline server.Close
\* gives them up.
HttpDrained ==
  /\ pc = "await" /\ ~drained /\ (requests = 0 \/ "drain" \in late) /\ drained' = TRUE
  /\ UNCHANGED <<pc, comp, readiness, listener, requests, late, database, noticed, admin, starts>>
\* Time passes: the drain deadline, five seconds before the hard one.
Deadline ==
  /\ pc \in {"await", "rolling"}
  /\ late' = IF "drain" \in late THEN late \cup {"hard"} ELSE late \cup {"drain"}
  /\ UNCHANGED <<pc, comp, readiness, listener, requests, drained, database, noticed, admin, starts>>
\* Both results, or the hard deadline.
Await ==
  /\ pc = "await" /\ ((drained /\ Busy = {}) \/ "hard" \in late)
  /\ pc' = "exit" /\ UNCHANGED <<rest, database>>

\* The deferred calls: the context of the runtimes is cancelled, the database closed.
CloseDatabase ==
  /\ Exited /\ database = "open" /\ database' = "closed"
  /\ UNCHANGED <<pc, rest>>
\* The supervisor starts the process again.
Restart ==
  /\ Exited /\ database = "closed" /\ starts < MaxStarts
  /\ starts' = starts + 1 /\ pc' = "boot" /\ comp' = Off /\ readiness' = NotReady /\ listener' = "none"
  /\ requests' = 0 /\ drained' = FALSE /\ late' = {} /\ noticed' = FALSE
  /\ UNCHANGED <<database, admin>>

MainStep ==
  \/ InitializeDatabase \/ Bootstrap \/ Persist \/ StartNext \/ RollbackQuiesce \/ RollbackStop \/ StartDone \/ ReturnUnready \/ Listen
  \/ FailureEnds \/ CloseListener \/ Quiesce \/ HttpDrained \/ Deadline \/ Await \/ CloseDatabase
Next ==
  \/ MainStep \/ ServeEnds \/ Accept \/ Answer \/ MonitorRuntime \/ Restart
  \/ \E c \in Components : Die(c) \/ LoopEnds(c)
\* Main, the monitor and the clock go on; handlers and loops need not.
Spec == Init /\ [][Next]_vars /\ WF_vars(MainStep) /\ WF_vars(MonitorRuntime)

----------------------------------------------------------------------------
\* The flags, the components and the process are of their types.
TypeOK ==
  /\ \A c \in Components : comp[c] \in {"off", "up", "dead", "quiesced", "stopped"}
  /\ requests \in 0..MaxRequests /\ late \subseteq {"drain", "hard"} /\ starts \in 1..MaxStarts
  /\ listener \in {"none", "open", "closed"} /\ admin \in {"none", "lost", "known"}
\* The readiness endpoint says ready only while every component was started and
\* none was told to stop.
ReadyIsWhole == Ready => \A c \in Components : comp[c] \in {"up", "dead"}
\* No connection is accepted once a runtime was told to stop.
NoTrafficWhileStopping == listener = "open" => \A c \in Components : comp[c] \in {"up", "dead"}
\* The database closes under a running component only at the hard deadline, and
\* under a request only after the drain deadline; a start whose last readiness
\* check fails is left out.
OrderlyExit ==
  pc = "exit" => (Busy # {} => "hard" \in late) /\ (requests > 0 => "drain" \in late)
\* The same of every way out of the process.
CleanExit == Exited /\ database = "closed" => (Busy # {} => "hard" \in late)
\* A component that died while serving ends the process, so that a supervisor
\* can start it again.
FailureStops == (pc = "serve" /\ \E c \in Components : comp[c] = "dead") ~> pc = "exit"
\* A generated password is in the file before the administrator is used: the
\* process runs with no administrator whose password nobody knows.
PasswordKnown == pc \in {"listen", "serve"} => admin # "lost"
=============================================================================
