-------------------------- MODULE RuntimeLifecycle --------------------------
(***************************************************************************)
(* Start, Quiesce and Stop of one background runtime, called concurrently. *)
(* Five runtimes of the worker package share the shape and differ in the   *)
(* details: "worker" (collection), "export", "alert", "maintenance" and    *)
(* "retention" (of the resource samples), which recovers nothing.          *)
(* Every step between two acquisitions of runtime.mu is a step here.  A    *)
(* generation is what one successful Start creates: its contexts, its done *)
(* channel and its loop.                                                   *)
(***************************************************************************)
EXTENDS Integers, FiniteSets, FiniteSetTheorems, TLAPS

CONSTANTS Kinds,      \* the runtimes explored
          Starters, Quiescers, Stoppers,   \* callers; each calls once
          EarlyStop,  \* whether Quiesce and Stop may be called while a Start is under way
          Deadlines   \* whether the deadline of a Stop may pass

RuntimeAssumption ==
  /\ Kinds \subseteq {"worker", "export", "alert", "maintenance", "retention"}
  /\ {EarlyStop, Deadlines} \subseteq BOOLEAN /\ IsFiniteSet(Starters)
ASSUME RuntimeConstants == RuntimeAssumption

VARIABLES kind,
          running, ready,  \* the fields of the same names
          cancel,          \* generation the stored cancel functions belong to; 0: nil
          done,            \* generation the stored done channel belongs to
          closed,          \* generations whose done channel is closed
          panicked,        \* a done channel was closed twice
          admission,       \* generations whose (admission) context is cancelled
          execution,       \* generations whose execution context is cancelled
          start, quiesce, stop,  \* the callers: [pc, gen], gen being what they captured
          loop,            \* generation -> "none", "idle", "busy", "long", "ok", "bad", "ended"
          down             \* Quiesce or Stop took ready down and no Start was accepted since
vars == <<kind, running, ready, cancel, done, closed, panicked, admission, execution, start, quiesce, stop, loop, down>>
contexts == <<admission, execution>>
callers == <<start, quiesce, stop>>

Gens == 1..Cardinality(Starters)
Call(pc, g) == [pc |-> pc, gen |-> g]
Fresh == Call("idle", 0)
FreshStop == [pc |-> "idle", gen |-> 0, wait |-> 0]

Init ==
  /\ kind \in Kinds /\ running = FALSE /\ ready = FALSE /\ cancel = 0 /\ done = 0
  /\ closed = {} /\ panicked = FALSE /\ admission = {} /\ execution = {}
  /\ start = [s \in Starters |-> Fresh] /\ quiesce = [q \in Quiescers |-> Fresh] /\ stop = [p \in Stoppers |-> FreshStop]
  /\ loop = [g \in Gens |-> "none"] /\ down = FALSE

Starting(s) == start[s].pc \notin {"idle", "returned"}
\* One context serves as both in the alert and the maintenance runtime.
Split == kind \in {"worker", "export"}
\* close(done), which panics on a closed channel.
Close(g) == closed' = closed \cup {g} /\ panicked' = (panicked \/ g \in closed)

----------------------------------------------------------------------------
(***************************************************************************)
(* Start.                                                                  *)
(***************************************************************************)
\* The lifecycle is reserved under the lock; the alert runtime stores its
\* cancel function only after recovery.
StartReserve(s) ==
  /\ start[s].pc = "idle"
  /\ IF running
     THEN start' = [start EXCEPT ![s] = Call("returned", 0)] /\ UNCHANGED <<running, ready, cancel, done, loop, down>>
     ELSE /\ running' = TRUE /\ ready' = (kind = "retention") /\ done' = done + 1 /\ down' = FALSE
          /\ cancel' = IF kind = "alert" THEN cancel ELSE done + 1
          /\ start' = [start EXCEPT ![s] = Call(IF kind = "retention" THEN "returned" ELSE "recover", done + 1)]
          /\ loop' = IF kind = "retention" THEN [loop EXCEPT ![done + 1] = "idle"] ELSE loop
  /\ UNCHANGED <<kind, closed, panicked, contexts, quiesce, stop>>

\* Recovery reads and repairs the durable state; it may fail, also for a
\* cancelled context, and may succeed though the context was cancelled meanwhile.
Recover(s) ==
  /\ start[s].pc = "recover"
  /\ \E pc \in {"recovered", "failed"} : start' = [start EXCEPT ![s].pc = pc]
  /\ UNCHANGED <<kind, running, ready, cancel, done, closed, panicked, contexts, quiesce, stop, loop, down>>

\* The check of the context before publishing: the maintenance and the export runtime.
ChecksContext == {"maintenance", "export"}
CheckRecovered(s) ==
  /\ start[s].pc = "recovered"
  /\ start' = [start EXCEPT ![s].pc = IF kind \in ChecksContext /\ start[s].gen \in admission THEN "failed" ELSE "publish"]
  /\ UNCHANGED <<kind, running, ready, cancel, done, closed, panicked, contexts, quiesce, stop, loop, down>>

\* failStart, or the error branches of the maintenance runtime.
FailStart(s) ==
  LET g == start[s].gen IN
  /\ start[s].pc = "failed"
  /\ IF kind = "maintenance" /\ done # g
     THEN UNCHANGED <<running, ready, cancel, closed, panicked>>
     ELSE /\ running' = FALSE /\ ready' = FALSE /\ Close(g)
          /\ cancel' = IF kind = "maintenance" THEN 0 ELSE cancel
  /\ admission' = admission \cup {g} /\ execution' = execution \cup {g}
  /\ start' = [start EXCEPT ![s].pc = "returned"]
  /\ UNCHANGED <<kind, done, quiesce, stop, loop, down>>

\* The lock that makes the runtime ready, and the goroutines it starts.  The
\* maintenance runtime looks at its context once more and leaves when it is cancelled.
Launch(s) ==
  LET g == start[s].gen IN
  /\ ready' = TRUE /\ loop' = [loop EXCEPT ![g] = "idle"]
  /\ cancel' = IF kind = "alert" THEN g ELSE cancel
  /\ UNCHANGED contexts
GiveUp(s) ==
  /\ admission' = admission \cup {start[s].gen} /\ execution' = execution \cup {start[s].gen}
  /\ UNCHANGED <<ready, cancel, loop>>
Publish(s) ==
  /\ start[s].pc = "publish" /\ kind # "export"
  /\ IF kind = "maintenance" /\ (done # start[s].gen \/ start[s].gen \in admission) THEN GiveUp(s) ELSE Launch(s)
  /\ start' = [start EXCEPT ![s].pc = "returned"]
  /\ UNCHANGED <<kind, running, done, closed, panicked, quiesce, stop, down>>

\* The export runtime starts its loop first and becomes ready only if it still
\* runs; a Start that finds its context cancelled cancels the execution and waits.
SpawnExport(s) ==
  /\ start[s].pc = "publish" /\ kind = "export"
  /\ loop' = [loop EXCEPT ![start[s].gen] = "idle"] /\ start' = [start EXCEPT ![s].pc = "spawned"]
  /\ UNCHANGED <<kind, running, ready, cancel, done, closed, panicked, contexts, quiesce, stop, down>>
PublishExport(s) ==
  LET g == start[s].gen IN
  /\ start[s].pc = "spawned"
  /\ IF running /\ g \notin admission
     THEN ready' = TRUE /\ start' = [start EXCEPT ![s].pc = "returned"] /\ UNCHANGED contexts
     ELSE /\ admission' = admission \cup {g} /\ execution' = execution \cup {g} /\ UNCHANGED ready
          /\ start' = [start EXCEPT ![s].pc = IF running THEN "awaiting" ELSE "returned"]
  /\ UNCHANGED <<kind, running, cancel, done, closed, panicked, quiesce, stop, loop, down>>
AwaitExport(s) ==
  /\ start[s].pc = "awaiting" /\ start[s].gen \in closed
  /\ start' = [start EXCEPT ![s].pc = "returned"]
  /\ UNCHANGED <<kind, running, ready, cancel, done, closed, panicked, contexts, quiesce, stop, loop, down>>

----------------------------------------------------------------------------
(***************************************************************************)
(* The loop of a generation.                                               *)
(***************************************************************************)
\* A tick, a wake or a poll begins a round.  A select may choose the tick
\* although the context is cancelled.  A long round ends only when its
\* execution is cancelled; only the export runtime begins one, with its
\* execution context, after the admission has ended.
BeginRound(g) ==
  /\ loop[g] = "idle"
  /\ \E work \in {"busy", "long"} :
       /\ work = "long" => g \notin execution /\ (g \notin admission \/ kind = "export")
       /\ loop' = [loop EXCEPT ![g] = work]
  /\ UNCHANGED <<kind, running, ready, cancel, done, closed, panicked, contexts, callers, down>>

\* The round ends.  runSafely of the maintenance runtime tells success from
\* failure, a cancelled context being a failure, and publishes it in a step of
\* its own; the retention logs a failure; a failed round ends any other loop.
EndRound(g) ==
  /\ loop[g] = "busy" \/ (loop[g] = "long" /\ g \in execution)
  /\ IF kind = "maintenance"
     THEN \E outcome \in IF g \in admission THEN {"bad"} ELSE {"ok", "bad"} : loop' = [loop EXCEPT ![g] = outcome] /\ UNCHANGED contexts
     ELSE /\ loop' = [loop EXCEPT ![g] = "idle"]
          /\ \/ UNCHANGED contexts
             \/ kind # "retention" /\ admission' = admission \cup {g} /\ execution' = execution \cup {g}
  /\ UNCHANGED <<kind, running, ready, cancel, done, closed, panicked, callers, down>>
RunSafely(g) ==
  /\ loop[g] \in {"ok", "bad"}
  /\ ready' = IF loop[g] = "ok" THEN ready \/ running ELSE FALSE
  /\ loop' = [loop EXCEPT ![g] = "idle"]
  /\ UNCHANGED <<kind, running, cancel, done, closed, panicked, contexts, callers, down>>

\* Mutant: the loop does not clear ready when it ends.
RunEndKeepsReady(g) ==
  /\ loop[g] = "idle" /\ g \in admission
  /\ running' = FALSE /\ Close(g) /\ loop' = [loop EXCEPT ![g] = "ended"]
  /\ execution' = execution \cup {g}
  /\ UNCHANGED <<kind, ready, cancel, done, admission, callers, down>>
RunEnd(g) ==
  /\ loop[g] = "idle" /\ g \in admission
  /\ running' = FALSE /\ ready' = FALSE /\ Close(g) /\ loop' = [loop EXCEPT ![g] = "ended"]
  /\ execution' = execution \cup {g}
  /\ UNCHANGED <<kind, cancel, done, admission, callers, down>>

----------------------------------------------------------------------------
(***************************************************************************)
(* Quiesce and Stop.  The cancel function is called after the unlock.      *)
(***************************************************************************)
MayStop == EarlyStop \/ \A s \in Starters : ~Starting(s)
QuiesceLock(q) ==
  /\ quiesce[q].pc = "idle" /\ MayStop
  /\ IF Split /\ ~running
     THEN quiesce' = [quiesce EXCEPT ![q].pc = "returned"] /\ UNCHANGED <<ready, down>>
     ELSE ready' = FALSE /\ down' = TRUE /\ quiesce' = [quiesce EXCEPT ![q] = Call("cancel", cancel)]
  /\ UNCHANGED <<kind, running, cancel, done, closed, panicked, contexts, start, stop, loop>>
QuiesceCancel(q) ==
  /\ quiesce[q].pc = "cancel"
  /\ admission' = admission \cup ({quiesce[q].gen} \ {0})
  /\ execution' = IF Split THEN execution ELSE execution \cup ({quiesce[q].gen} \ {0})
  /\ quiesce' = [quiesce EXCEPT ![q].pc = "returned"]
  /\ UNCHANGED <<kind, running, ready, cancel, done, closed, panicked, start, stop, loop, down>>

StopLock(p) ==
  /\ stop[p].pc = "idle" /\ MayStop
  /\ IF ~running
     THEN stop' = [stop EXCEPT ![p] = [pc |-> "returned", gen |-> 0, wait |-> 0]] /\ UNCHANGED <<ready, down>>
     ELSE ready' = FALSE /\ down' = TRUE /\ stop' = [stop EXCEPT ![p] = [pc |-> "cancel", gen |-> cancel, wait |-> done]]
  /\ UNCHANGED <<kind, running, cancel, done, closed, panicked, contexts, start, quiesce, loop>>

\* Admission ends at once; awaitRuntimeStop cancels the execution at once, or
\* when the drain time has passed.
StopCancel(p) ==
  /\ stop[p].pc = "cancel"
  /\ admission' = admission \cup ({stop[p].gen} \ {0})
  /\ execution' = IF Split THEN execution ELSE execution \cup ({stop[p].gen} \ {0})
  /\ stop' = [stop EXCEPT ![p].pc = IF Split THEN "drain" ELSE "wait"]
  /\ UNCHANGED <<kind, running, ready, cancel, done, closed, panicked, start, quiesce, loop, down>>
DrainTimeout(p) ==
  /\ stop[p].pc = "drain" /\ stop[p].wait \notin closed
  /\ execution' = execution \cup ({stop[p].gen} \ {0}) /\ stop' = [stop EXCEPT ![p].pc = "wait"]
  /\ UNCHANGED <<kind, running, ready, cancel, done, closed, panicked, admission, start, quiesce, loop, down>>
StopDone(p) ==
  /\ stop[p].pc \in {"drain", "wait"} /\ stop[p].wait \in closed
  /\ stop' = [stop EXCEPT ![p].pc = "returned"]
  /\ UNCHANGED <<kind, running, ready, cancel, done, closed, panicked, contexts, start, quiesce, loop, down>>
StopDeadline(p) ==
  /\ Deadlines /\ stop[p].pc = "wait"
  /\ execution' = execution \cup ({stop[p].gen} \ {0}) /\ stop' = [stop EXCEPT ![p].pc = "timeout"]
  /\ UNCHANGED <<kind, running, ready, cancel, done, closed, panicked, admission, start, quiesce, loop, down>>

StartStep(s) ==
  \/ Recover(s) \/ CheckRecovered(s) \/ FailStart(s) \/ Publish(s) \/ SpawnExport(s) \/ PublishExport(s) \/ AwaitExport(s)
LoopStep(g) == EndRound(g) \/ RunSafely(g) \/ RunEnd(g)
StopStep(p) == StopCancel(p) \/ DrainTimeout(p) \/ StopDone(p)
Next ==
  \/ \E s \in Starters : StartReserve(s) \/ StartStep(s)
  \/ \E g \in Gens : BeginRound(g) \/ LoopStep(g)
  \/ \E q \in Quiescers : QuiesceLock(q) \/ QuiesceCancel(q)
  \/ \E p \in Stoppers : StopLock(p) \/ StopStep(p) \/ StopDeadline(p)
\* Every goroutine that can run does; recovery and rounds end because every
\* database and upstream call has a deadline.  Strong fairness of RunEnd: a
\* select whose Done case stays ready takes it in the end.
Fairness ==
  /\ \A s \in Starters : WF_vars(StartStep(s))
  /\ \A g \in Gens : WF_vars(EndRound(g)) /\ WF_vars(RunSafely(g)) /\ SF_vars(RunEnd(g))
  /\ \A q \in Quiescers : WF_vars(QuiesceCancel(q))
  /\ \A p \in Stoppers : WF_vars(StopStep(p))
Spec == Init /\ [][Next]_vars /\ Fairness

----------------------------------------------------------------------------
Live == {"idle", "busy", "long", "ok", "bad"}
\* The fields of the runtime, its callers and its loops are of their types.
TypeOK ==
  /\ {running, ready, panicked, down} \subseteq BOOLEAN /\ {cancel, done} \subseteq {0} \cup Gens
  /\ closed \cup admission \cup execution \subseteq Gens
  /\ \A g \in Gens : loop[g] \in Live \cup {"none", "ended"}
\* No done channel is closed twice, whatever Start, Quiesce and Stop race: a
\* second close would panic in failStart or at the end of the loop.
NoDoubleClose == ~panicked
\* At most one loop works, also when a Start follows a Stop at once: running is
\* cleared in the same critical section as done is closed.
OneLoop == \A g, h \in Gens : loop[g] \in Live /\ loop[h] \in Live => g = h
\* A ready runtime has recovered and has a loop: ready neither rises before the
\* recovery nor outlives the loop, since the process is stopped by monitorRuntime
\* only when ready falls.
ReadyHasLoop == ready => loop[done] \in Live
\* A Stop that returned without a timeout left nothing of its generation behind.
StopMeansStopped ==
  \A p \in Stoppers : stop[p].pc = "returned" /\ stop[p].wait # 0 =>
    loop[stop[p].wait] \in {"none", "ended"} /\ (ready => done > stop[p].wait)
\* A runtime with no loop and no Start under way can be started again.
Released == running => (\E g \in Gens : loop[g] \in Live) \/ (\E s \in Starters : Starting(s))
\* Once Quiesce or Stop took ready down it stays down until the next Start.
NoReadyRebound == down => ~ready
\* A ready that came back after Quiesce or Stop goes down again by itself.
ReadySettles == (down /\ ready) ~> (~down \/ ~ready)
\* A Stop without a deadline returns: nobody waits for a channel nobody closes.
StopEnds == \A p \in Stoppers : stop[p].pc \in {"cancel", "drain", "wait"} ~> stop[p].pc = "returned"
\* Whatever the order of Start, Quiesce and Stop by several callers: done is closed once, one
\* loop runs at a time, a ready runtime has a loop, and a Stop that returned without a timeout
\* left no loop behind.  A runtime with neither a loop nor a Start under way is free for the
\* next Start; the one exception is a maintenance runtime that was stopped while it started.
RuntimesOrderly ==
  /\ NoDoubleClose /\ OneLoop /\ ReadyHasLoop /\ StopMeansStopped
  /\ (kind = "maintenance" => ~EarlyStop) => Released

----------------------------------------------------------------------------
(***************************************************************************)
(* Proofs.  The argument is about the generation that done names.  A Start  *)
(* that has not launched its loop owns it, and after that the loop does;    *)
(* whoever owns it finds running set and done open, and both are given up   *)
(* in one step.  Older generations have an owner no more, though a Start    *)
(* of the export runtime may still look at one.                             *)
(***************************************************************************)
Preparing == {"recover", "recovered", "failed", "publish"}
Watching == {"spawned", "awaiting"}
StartCall == [pc : Preparing \cup Watching \cup {"idle", "returned"}, gen : Nat]
QuiesceCall == [pc : {"idle", "cancel", "returned"}, gen : Nat]
StopCall == [pc : {"idle", "cancel", "drain", "wait", "timeout", "returned"}, gen : Nat, wait : Nat]

\* The calls, the loops and the generations the fields name.
RuntimeTyped ==
  /\ done \in Nat /\ cancel \in Nat /\ cancel <= done
  /\ start \in [Starters -> StartCall] /\ quiesce \in [Quiescers -> QuiesceCall] /\ stop \in [Stoppers -> StopCall]
  /\ loop \in [Gens -> Live \cup {"none", "ended"}]
\* Every generation is of one Start, which counts them.
Started == {s \in Starters : start[s].gen # 0}
GenerationsCounted ==
  /\ done = Cardinality(Started)
  /\ \A s \in Starters : start[s].gen <= done /\ (start[s].pc = "idle" => start[s].gen = 0)
                         /\ (start[s].pc \in Preparing \cup Watching => start[s].gen # 0)
  /\ \A s, t \in Starters : start[s].gen = start[t].gen /\ start[s].gen # 0 => s = t
\* Nothing is closed, cancelled, started or captured ahead of done.
ContextsKnown == closed \subseteq 1 .. done /\ admission \subseteq 1 .. done /\ execution \subseteq 1 .. done
NoneAhead ==
  /\ \A g \in Gens : g > done => loop[g] = "none"
  /\ \A q \in Quiescers : quiesce[q].gen <= done
  /\ \A p \in Stoppers : stop[p].gen <= done /\ stop[p].wait <= done
\* The owner of the current generation.
StartOwns ==
  \A s \in Starters :
    /\ start[s].pc \in Preparing => start[s].gen = done /\ running /\ loop[done] = "none"
    /\ start[s].pc \in Watching => loop[start[s].gen] # "none"
LoopOwns == \A g \in Gens : loop[g] \in Live => g = done /\ running
OpenWhileRunning == running => done # 0 /\ done \notin closed
ReadyIsOwned == ready => running /\ loop[done] \in Live
EndedIsCancelled == \A g \in Gens : loop[g] = "ended" => g \in admission
StoppedIsClosed == \A p \in Stoppers : stop[p].pc = "returned" => stop[p].wait = 0 \/ stop[p].wait \in closed
\* Without an early Stop nobody cancels a Start that is under way.
Undisturbed ==
  ~EarlyStop => \A s \in Starters : start[s].pc \in Preparing =>
    /\ start[s].gen \notin admission
    /\ \A q \in Quiescers : quiesce[q].pc = "cancel" => quiesce[q].gen # start[s].gen
    /\ \A p \in Stoppers : stop[p].pc = "cancel" => stop[p].gen # start[s].gen
OwnedWhileRunning ==
  (kind = "maintenance" => ~EarlyStop) /\ running =>
    loop[done] \in Live \/ \E s \in Starters : start[s].pc \in Preparing
RuntimeInv ==
  /\ RuntimeTyped /\ GenerationsCounted /\ ContextsKnown /\ NoneAhead /\ StartOwns /\ LoopOwns /\ OpenWhileRunning
  /\ ReadyIsOwned /\ EndedIsCancelled /\ StoppedIsClosed /\ Undisturbed /\ OwnedWhileRunning /\ ~panicked

\* The generations are as many as there are Starts to come.
LEMMA GenerationsBounded ==
  /\ Cardinality(Starters) \in Nat /\ \A g \in Gens : g \in Nat /\ g >= 1
  /\ RuntimeInv => done <= Cardinality(Starters) /\ (done # 0 => done \in Gens)
PROOF
  <1>1. IsFiniteSet(Starters)
    BY RuntimeConstants DEF RuntimeAssumption
  <1>2. Cardinality(Starters) \in Nat
    BY <1>1, FS_CardinalityType
  <1>3. Started \subseteq Starters
    BY DEF Started
  <1>4. Cardinality(Started) <= Cardinality(Starters)
    BY <1>1, <1>3, FS_Subset
  <1> QED
    BY <1>2, <1>4 DEF Gens, RuntimeInv, GenerationsCounted, RuntimeTyped

\* A step that moves a Start along counts the generations as before.
LEMMA StartMoves ==
    ASSUME RuntimeTyped, GenerationsCounted, NEW s \in Starters,
           NEW pc \in Preparing \cup Watching \cup {"returned"}, start[s].gen # 0,
           start' = [start EXCEPT ![s].pc = pc], done' = done
    PROVE  start' \in [Starters -> StartCall] /\ GenerationsCounted'
PROOF
  <1>1. start' \in [Starters -> StartCall]
    BY DEF RuntimeTyped, StartCall
  <1>2. \A t \in Starters : start'[t].gen = start[t].gen /\ (t # s => start'[t].pc = start[t].pc)
    BY DEF RuntimeTyped, StartCall
  <1>3. start'[s].pc = pc /\ pc # "idle"
    BY DEF RuntimeTyped, StartCall, Preparing, Watching
  <1>4. Started' = Started
    BY <1>2 DEF Started
  <1> QED
    BY <1>1, <1>2, <1>3, <1>4 DEF GenerationsCounted

LEMMA RecoverKeeps ==
    ASSUME RuntimeInv, NEW s \in Starters, Recover(s)
    PROVE  RuntimeInv'
PROOF
  <1>1. \E pc \in {"recovered", "failed"} : start' = [start EXCEPT ![s].pc = pc]
    BY DEF Recover
  <1>2. RuntimeTyped'
    BY DEF RuntimeInv, RuntimeTyped, StartCall, Preparing, Recover
  <1>3. GenerationsCounted'
    BY <1>1, StartMoves DEF RuntimeInv, GenerationsCounted, Preparing, Watching, Recover
  <1>4. ContextsKnown'
    BY DEF RuntimeInv, RuntimeTyped, ContextsKnown, contexts, Recover
  <1>5. NoneAhead'
    BY DEF RuntimeInv, RuntimeTyped, NoneAhead, contexts, Recover
  <1>6. StartOwns'
    BY DEF RuntimeInv, RuntimeTyped, StartOwns, Preparing, Watching, contexts, Recover
  <1>7. LoopOwns'
    BY DEF RuntimeInv, RuntimeTyped, LoopOwns, Live, contexts, Recover
  <1>8. OpenWhileRunning'
    BY DEF RuntimeInv, RuntimeTyped, OpenWhileRunning, contexts, Recover
  <1>9. ReadyIsOwned'
    BY DEF RuntimeInv, RuntimeTyped, ReadyIsOwned, Live, contexts, Recover
  <1>10. EndedIsCancelled'
    BY DEF RuntimeInv, RuntimeTyped, EndedIsCancelled, contexts, Recover
  <1>11. StoppedIsClosed'
    BY DEF RuntimeInv, RuntimeTyped, StoppedIsClosed, contexts, Recover
  <1>12. Undisturbed'
    BY DEF RuntimeInv, RuntimeTyped, Undisturbed, Preparing, contexts, Recover
  <1>13. OwnedWhileRunning'
    BY DEF RuntimeInv, RuntimeTyped, OwnedWhileRunning, Preparing, Live, contexts, Recover
  <1>14. ~panicked'
    BY DEF RuntimeInv, RuntimeTyped, contexts, Recover
  <1> QED
    BY <1>2, <1>3, <1>4, <1>5, <1>6, <1>7, <1>8, <1>9, <1>10, <1>11, <1>12, <1>13, <1>14 DEF RuntimeInv

LEMMA CheckRecoveredKeeps ==
    ASSUME RuntimeInv, NEW s \in Starters, CheckRecovered(s)
    PROVE  RuntimeInv'
PROOF
  <1>1. RuntimeTyped'
    BY DEF RuntimeInv, RuntimeTyped, StartCall, Preparing, CheckRecovered
  <1>2. GenerationsCounted'
    BY DEF RuntimeInv, GenerationsCounted, StartOwns, Preparing, Started, CheckRecovered
  <1>3. ContextsKnown'
    BY DEF RuntimeInv, RuntimeTyped, ContextsKnown, contexts, CheckRecovered, ChecksContext
  <1>4. NoneAhead'
    BY DEF RuntimeInv, RuntimeTyped, NoneAhead, contexts, CheckRecovered, ChecksContext
  <1>5. StartOwns'
    BY DEF RuntimeInv, RuntimeTyped, StartOwns, Preparing, Watching, contexts, CheckRecovered, ChecksContext
  <1>6. LoopOwns'
    BY DEF RuntimeInv, RuntimeTyped, LoopOwns, Live, contexts, CheckRecovered, ChecksContext
  <1>7. OpenWhileRunning'
    BY DEF RuntimeInv, RuntimeTyped, OpenWhileRunning, contexts, CheckRecovered, ChecksContext
  <1>8. ReadyIsOwned'
    BY DEF RuntimeInv, RuntimeTyped, ReadyIsOwned, Live, contexts, CheckRecovered, ChecksContext
  <1>9. EndedIsCancelled'
    BY DEF RuntimeInv, RuntimeTyped, EndedIsCancelled, contexts, CheckRecovered, ChecksContext
  <1>10. StoppedIsClosed'
    BY DEF RuntimeInv, RuntimeTyped, StoppedIsClosed, contexts, CheckRecovered, ChecksContext
  <1>11. Undisturbed'
    BY DEF RuntimeInv, RuntimeTyped, Undisturbed, Preparing, contexts, CheckRecovered, ChecksContext
  <1>12. OwnedWhileRunning'
    BY DEF RuntimeInv, RuntimeTyped, OwnedWhileRunning, Preparing, Live, contexts, CheckRecovered, ChecksContext
  <1>13. ~panicked'
    BY DEF RuntimeInv, RuntimeTyped, contexts, CheckRecovered, ChecksContext
  <1> QED
    BY <1>1, <1>2, <1>3, <1>4, <1>5, <1>6, <1>7, <1>8, <1>9, <1>10, <1>11, <1>12, <1>13 DEF RuntimeInv

LEMMA FailStartKeeps ==
    ASSUME RuntimeInv, NEW s \in Starters, FailStart(s)
    PROVE  RuntimeInv'
PROOF
  <1>1. start[s].gen \in 1 .. done
    BY DEF RuntimeInv, RuntimeTyped, GenerationsCounted, StartCall, Preparing, Watching, FailStart
  <1>2. RuntimeTyped'
    BY DEF RuntimeInv, RuntimeTyped, StartCall, QuiesceCall, StopCall, Live, FailStart, Close
  <1>3. GenerationsCounted'
    <2>1. start[s].gen # 0 /\ start' = [start EXCEPT ![s].pc = "returned"] /\ done' = done
      BY <1>1 DEF FailStart
    <2> QED
      BY <2>1, StartMoves DEF RuntimeInv
  <1>4. ContextsKnown'
    BY <1>1 DEF RuntimeInv, ContextsKnown, FailStart, Close
  <1>5. NoneAhead'
    BY DEF RuntimeInv, RuntimeTyped, NoneAhead, FailStart, Close
  <1>6. StartOwns'
    BY DEF RuntimeInv, RuntimeTyped, GenerationsCounted, StartOwns, Preparing, Watching, FailStart
  <1>7. LoopOwns'
    BY DEF RuntimeInv, StartOwns, LoopOwns, Preparing, Live, FailStart
  <1>8. OpenWhileRunning'
    BY DEF RuntimeInv, RuntimeTyped, OpenWhileRunning, FailStart, Close
  <1>9. ReadyIsOwned'
    BY DEF RuntimeInv, RuntimeTyped, ReadyIsOwned, Live, FailStart, Close
  <1>10. EndedIsCancelled'
    BY DEF RuntimeInv, RuntimeTyped, EndedIsCancelled, FailStart, Close
  <1>11. StoppedIsClosed'
    BY DEF RuntimeInv, RuntimeTyped, StoppedIsClosed, FailStart, Close
  <1>12. Undisturbed'
    BY DEF RuntimeInv, RuntimeTyped, GenerationsCounted, Undisturbed, Preparing, FailStart
  <1>13. OwnedWhileRunning'
    BY DEF RuntimeInv, RuntimeTyped, StartOwns, OwnedWhileRunning, FailStart
  <1>14. ~panicked'
    BY DEF RuntimeInv, StartOwns, OpenWhileRunning, Preparing, FailStart, Close
  <1> QED
    BY <1>2, <1>3, <1>4, <1>5, <1>6, <1>7, <1>8, <1>9, <1>10, <1>11, <1>12, <1>13, <1>14 DEF RuntimeInv

LEMMA PublishKeeps ==
    ASSUME RuntimeInv, NEW s \in Starters, Publish(s)
    PROVE  RuntimeInv'
PROOF
  <1>1. start[s].gen \in 1 .. done /\ start[s].gen = done /\ start[s].gen # 0
    BY DEF RuntimeInv, RuntimeTyped, GenerationsCounted, StartOwns, StartCall, Preparing, Watching, Publish
  <1>2. start' = [start EXCEPT ![s].pc = "returned"] /\ done' = done /\ running' = running
    BY DEF Publish
  <1>3. \A t \in Starters : start'[t].gen = start[t].gen /\ (t # s => start'[t] = start[t]) /\ start'[s].pc = "returned"
    BY <1>2 DEF RuntimeInv, RuntimeTyped, StartCall
  <1>4. (loop' = loop \/ loop' = [loop EXCEPT ![done] = "idle"]) /\ (loop' = loop \/ UNCHANGED contexts)
    BY <1>1 DEF Publish, Launch, GiveUp
  <1>5. RuntimeTyped'
    BY DEF RuntimeInv, RuntimeTyped, GenerationsCounted, StartCall, Live, Publish, Launch, GiveUp
  <1>6. GenerationsCounted'
    BY <1>1, <1>2, StartMoves DEF RuntimeInv
  <1>7. ContextsKnown'
    BY <1>1 DEF RuntimeInv, ContextsKnown, Publish, Launch, GiveUp, contexts
  <1>8. NoneAhead'
    BY GenerationsBounded DEF RuntimeInv, RuntimeTyped, GenerationsCounted, NoneAhead, Publish, Launch, GiveUp
  <1>9. StartOwns'
    <2> SUFFICES ASSUME NEW t \in Starters
                 PROVE  /\ start'[t].pc \in Preparing => start'[t].gen = done' /\ running' /\ loop'[done'] = "none"
                        /\ start'[t].pc \in Watching => loop'[start'[t].gen] # "none"
      BY DEF StartOwns
    <2>1. start'[t].pc \notin Preparing
      BY <1>1, <1>3 DEF RuntimeInv, StartOwns, GenerationsCounted, Publish, Preparing
    <2>2. start'[t].pc \in Watching => loop'[start'[t].gen] # "none"
      <3> SUFFICES ASSUME start'[t].pc \in Watching PROVE loop'[start[t].gen] # "none"
        BY <1>3
      <3>1. t # s /\ start[t].pc \in Watching
        BY <1>3 DEF Watching
      <3>2. start[t].gen # 0 /\ start[t].gen <= done /\ start[t].gen \in Nat /\ loop[start[t].gen] # "none"
        BY <3>1 DEF RuntimeInv, RuntimeTyped, GenerationsCounted, StartOwns, StartCall
      <3>3. start[t].gen \in Gens
        BY <3>2, GenerationsBounded DEF RuntimeInv, RuntimeTyped, Gens
      <3> QED
        BY <1>4, <3>2, <3>3 DEF RuntimeInv, RuntimeTyped
    <2> QED
      BY <2>1, <2>2
  <1>10. LoopOwns'
    BY DEF RuntimeInv, RuntimeTyped, StartOwns, LoopOwns, Preparing, Publish, Launch, GiveUp
  <1>11. OpenWhileRunning'
    BY DEF RuntimeInv, RuntimeTyped, OpenWhileRunning, contexts, Publish, Launch, GiveUp
  <1>12. ReadyIsOwned'
    BY GenerationsBounded DEF RuntimeInv, RuntimeTyped, StartOwns, OpenWhileRunning, ReadyIsOwned, Preparing, Live, Publish, Launch, GiveUp
  <1>13. EndedIsCancelled'
    BY DEF RuntimeInv, RuntimeTyped, EndedIsCancelled, contexts, Publish, Launch, GiveUp
  <1>14. StoppedIsClosed'
    BY DEF RuntimeInv, RuntimeTyped, StoppedIsClosed, contexts, Publish, Launch, GiveUp
  <1>15. Undisturbed'
    <2>1. \A t \in Starters : start'[t].pc \in Preparing => t # s /\ start[t].pc \in Preparing
      BY <1>3 DEF Preparing
    <2>2. \A t \in Starters : start[t].pc \in Preparing => start[t].gen = done
      BY DEF RuntimeInv, StartOwns
    <2>3. \A t \in Starters : start[t].gen = start[s].gen /\ start[t].gen # 0 => t = s
      BY DEF RuntimeInv, GenerationsCounted
    <2> QED
      BY <1>1, <2>1, <2>2, <2>3 DEF Undisturbed
  <1>16. OwnedWhileRunning'
    BY GenerationsBounded DEF RuntimeInv, RuntimeTyped, StartOwns, OpenWhileRunning, Undisturbed, OwnedWhileRunning, StartCall, Watching, Live, Publish, Launch
  <1>17. ~panicked'
    BY DEF RuntimeInv, RuntimeTyped, contexts, Publish, Launch, GiveUp
  <1> QED
    BY <1>5, <1>6, <1>7, <1>8, <1>9, <1>10, <1>11, <1>12, <1>13, <1>14, <1>15, <1>16, <1>17 DEF RuntimeInv

LEMMA SpawnExportKeeps ==
    ASSUME RuntimeInv, NEW s \in Starters, SpawnExport(s)
    PROVE  RuntimeInv'
PROOF
  <1>1. RuntimeTyped'
    <2>1. start' \in [Starters -> StartCall]
      BY DEF RuntimeInv, RuntimeTyped, StartCall, Watching, SpawnExport
    <2>2. loop' \in [Gens -> Live \cup {"none", "ended"}]
      BY DEF RuntimeInv, RuntimeTyped, Live, SpawnExport
    <2> QED
      BY <2>1, <2>2 DEF RuntimeInv, RuntimeTyped, SpawnExport
  <1>2. GenerationsCounted'
    <2>1. start[s].gen # 0 /\ start' = [start EXCEPT ![s].pc = "spawned"] /\ done' = done
      BY DEF RuntimeInv, GenerationsCounted, Preparing, SpawnExport
    <2> QED
      BY <2>1, StartMoves DEF RuntimeInv, Watching
  <1>3. ContextsKnown'
    BY DEF RuntimeInv, RuntimeTyped, ContextsKnown, contexts, SpawnExport
  <1>4. NoneAhead'
    BY GenerationsBounded DEF RuntimeInv, GenerationsCounted, NoneAhead, SpawnExport
  <1>5. StartOwns'
    <2>1. /\ start[s].pc \in Preparing /\ start[s].gen = done /\ start[s].gen # 0
          /\ \A t \in Starters : start[t].pc \in Preparing => start[t].gen = done
          /\ \A t \in Starters : start[t].gen = start[s].gen /\ start[t].gen # 0 => t = s
      BY DEF RuntimeInv, GenerationsCounted, StartOwns, Preparing, SpawnExport
    <2>2. \A t \in Starters : start'[t].gen = start[t].gen /\ (t # s => start'[t].pc = start[t].pc) /\ start'[s].pc = "spawned"
      BY DEF RuntimeInv, RuntimeTyped, StartCall, SpawnExport
    <2>3. \A t \in Starters : start'[t].pc \notin Preparing
      BY <2>1, <2>2 DEF Preparing
    <2>4. /\ done \in Gens /\ loop'[done] = "idle"
          /\ \A g \in Gens : g # done => loop'[g] = loop[g]
      BY <2>1, GenerationsBounded DEF RuntimeInv, RuntimeTyped, SpawnExport
    <2>5. ASSUME NEW t \in Starters, start'[t].pc \in Watching PROVE loop'[start'[t].gen] # "none"
      <3>1. CASE start[t].gen = done
        BY <2>2, <2>4, <3>1
      <3>2. CASE start[t].gen # done
        <4>1. start[t].pc \in Watching /\ start[t].gen # 0 /\ start[t].gen <= done /\ loop[start[t].gen] # "none"
          BY <2>1, <2>2, <2>5, <3>2 DEF RuntimeInv, StartOwns, GenerationsCounted
        <4>2. start[t].gen \in Gens
          BY <2>4, <4>1, GenerationsBounded DEF RuntimeInv, RuntimeTyped, StartCall, Gens
        <4> QED
          BY <2>2, <2>4, <3>2, <4>1, <4>2
      <3> QED
        BY <3>1, <3>2
    <2> QED
      BY <2>3, <2>5 DEF StartOwns
  <1>6. LoopOwns'
    BY DEF RuntimeInv, StartOwns, LoopOwns, Preparing, SpawnExport
  <1>7. OpenWhileRunning'
    BY DEF RuntimeInv, RuntimeTyped, OpenWhileRunning, contexts, SpawnExport
  <1>8. ReadyIsOwned'
    BY DEF RuntimeInv, RuntimeTyped, ReadyIsOwned, Live, contexts, SpawnExport
  <1>9. EndedIsCancelled'
    BY DEF RuntimeInv, RuntimeTyped, EndedIsCancelled, contexts, SpawnExport
  <1>10. StoppedIsClosed'
    BY DEF RuntimeInv, RuntimeTyped, StoppedIsClosed, contexts, SpawnExport
  <1>11. Undisturbed'
    BY DEF RuntimeInv, RuntimeTyped, Undisturbed, Preparing, contexts, SpawnExport
  <1>12. OwnedWhileRunning'
    BY GenerationsBounded DEF RuntimeInv, RuntimeTyped, StartOwns, OpenWhileRunning, OwnedWhileRunning, Live, SpawnExport
  <1>13. ~panicked'
    BY DEF RuntimeInv, RuntimeTyped, contexts, SpawnExport
  <1> QED
    BY <1>1, <1>2, <1>3, <1>4, <1>5, <1>6, <1>7, <1>8, <1>9, <1>10, <1>11, <1>12, <1>13 DEF RuntimeInv

LEMMA PublishExportKeeps ==
    ASSUME RuntimeInv, NEW s \in Starters, PublishExport(s)
    PROVE  RuntimeInv'
PROOF
  <1>1. start[s].gen \in 1 .. done /\ start[s].gen # 0 /\ start[s].gen \in Gens /\ loop[start[s].gen] # "none"
    BY GenerationsBounded DEF RuntimeInv, RuntimeTyped, GenerationsCounted, StartOwns, StartCall, Preparing, Watching, PublishExport, Gens
  <1>2. \E pc \in {"returned", "awaiting"} : start' = [start EXCEPT ![s].pc = pc]
    BY DEF PublishExport
  <1>3. RuntimeTyped'
    <2>1. start' \in [Starters -> StartCall]
      BY <1>2 DEF RuntimeInv, RuntimeTyped, StartCall, Watching
    <2> QED
      BY <2>1 DEF RuntimeInv, RuntimeTyped, PublishExport
  <1>4. GenerationsCounted'
    BY <1>1, <1>2, StartMoves DEF RuntimeInv, Watching, PublishExport
  <1>5. ContextsKnown'
    BY <1>1 DEF RuntimeInv, ContextsKnown, PublishExport, contexts
  <1>6. NoneAhead'
    BY DEF RuntimeInv, RuntimeTyped, NoneAhead, contexts, PublishExport
  <1>7. StartOwns'
    <2>1. \A t \in Starters : /\ start'[t].gen = start[t].gen
                              /\ t # s => start'[t].pc = start[t].pc
                              /\ start'[s].pc \in {"returned", "awaiting"}
      BY <1>2 DEF RuntimeInv, RuntimeTyped, StartCall
    <2>2. start[s].pc \in Watching /\ UNCHANGED <<loop, done, running>>
      BY DEF Watching, PublishExport
    <2> QED
      BY <2>1, <2>2 DEF RuntimeInv, StartOwns, Preparing, Watching
  <1>8. LoopOwns'
    BY DEF RuntimeInv, RuntimeTyped, LoopOwns, Live, contexts, PublishExport
  <1>9. OpenWhileRunning'
    BY DEF RuntimeInv, RuntimeTyped, OpenWhileRunning, contexts, PublishExport
  <1>10. ReadyIsOwned'
    <2>1. CASE running /\ start[s].gen \notin admission
      <3>1. loop[start[s].gen] \in Live
        BY <1>1, <2>1 DEF RuntimeInv, RuntimeTyped, EndedIsCancelled, Live
      <3> QED
        BY <1>1, <2>1, <3>1 DEF RuntimeInv, LoopOwns, ReadyIsOwned, PublishExport
    <2>2. CASE ~(running /\ start[s].gen \notin admission)
      BY <2>2 DEF RuntimeInv, ReadyIsOwned, PublishExport
    <2> QED
      BY <2>1, <2>2
  <1>11. EndedIsCancelled'
    BY DEF RuntimeInv, RuntimeTyped, EndedIsCancelled, contexts, PublishExport
  <1>12. StoppedIsClosed'
    BY DEF RuntimeInv, RuntimeTyped, StoppedIsClosed, contexts, PublishExport
  <1>13. Undisturbed'
    <2>1. \A t \in Starters : /\ start'[t].gen = start[t].gen
                              /\ start'[t].pc \in Preparing => t # s /\ start[t].pc \in Preparing
      BY <1>2 DEF RuntimeInv, RuntimeTyped, StartCall, Preparing
    <2>2. \A t \in Starters : start[t].pc \in Preparing => start[t].gen = done /\ loop[done] = "none"
      BY DEF RuntimeInv, StartOwns
    <2>3. admission' \subseteq admission \cup {start[s].gen} /\ UNCHANGED <<quiesce, stop>>
      BY DEF PublishExport, contexts
    <2> QED
      BY <1>1, <2>1, <2>2, <2>3 DEF RuntimeInv, Undisturbed
  <1>14. OwnedWhileRunning'
    BY DEF RuntimeInv, RuntimeTyped, OwnedWhileRunning, Preparing, Live, contexts, PublishExport
  <1>15. ~panicked'
    BY DEF RuntimeInv, RuntimeTyped, contexts, PublishExport
  <1> QED
    BY <1>3, <1>4, <1>5, <1>6, <1>7, <1>8, <1>9, <1>10, <1>11, <1>12, <1>13, <1>14, <1>15 DEF RuntimeInv

LEMMA AwaitExportKeeps ==
    ASSUME RuntimeInv, NEW s \in Starters, AwaitExport(s)
    PROVE  RuntimeInv'
PROOF
  <1>1. RuntimeTyped'
    BY DEF RuntimeInv, RuntimeTyped, StartCall, QuiesceCall, StopCall, Live, contexts, AwaitExport
  <1>2. GenerationsCounted'
    <2>1. start[s].gen # 0 /\ start' = [start EXCEPT ![s].pc = "returned"] /\ done' = done
      BY DEF RuntimeInv, GenerationsCounted, Watching, AwaitExport
    <2> QED
      BY <2>1, StartMoves DEF RuntimeInv
  <1>3. ContextsKnown'
    BY DEF RuntimeInv, RuntimeTyped, ContextsKnown, contexts, AwaitExport
  <1>4. NoneAhead'
    BY DEF RuntimeInv, RuntimeTyped, NoneAhead, contexts, AwaitExport
  <1>5. StartOwns'
    BY DEF RuntimeInv, RuntimeTyped, StartOwns, Preparing, Watching, contexts, AwaitExport
  <1>6. LoopOwns'
    BY DEF RuntimeInv, RuntimeTyped, LoopOwns, Live, contexts, AwaitExport
  <1>7. OpenWhileRunning'
    BY DEF RuntimeInv, RuntimeTyped, OpenWhileRunning, contexts, AwaitExport
  <1>8. ReadyIsOwned'
    BY DEF RuntimeInv, RuntimeTyped, ReadyIsOwned, Live, contexts, AwaitExport
  <1>9. EndedIsCancelled'
    BY DEF RuntimeInv, RuntimeTyped, EndedIsCancelled, contexts, AwaitExport
  <1>10. StoppedIsClosed'
    BY DEF RuntimeInv, RuntimeTyped, StoppedIsClosed, contexts, AwaitExport
  <1>11. Undisturbed'
    BY DEF RuntimeInv, RuntimeTyped, Undisturbed, Preparing, contexts, AwaitExport
  <1>12. OwnedWhileRunning'
    BY DEF RuntimeInv, RuntimeTyped, OwnedWhileRunning, Preparing, Live, contexts, AwaitExport
  <1>13. ~panicked'
    BY DEF RuntimeInv, RuntimeTyped, contexts, AwaitExport
  <1> QED
    BY <1>1, <1>2, <1>3, <1>4, <1>5, <1>6, <1>7, <1>8, <1>9, <1>10, <1>11, <1>12, <1>13 DEF RuntimeInv

LEMMA BeginRoundKeeps ==
    ASSUME RuntimeInv, NEW g \in Gens, BeginRound(g)
    PROVE  RuntimeInv'
PROOF
  <1>1. RuntimeTyped'
    BY DEF RuntimeInv, RuntimeTyped, StartCall, QuiesceCall, StopCall, Live, contexts, callers, BeginRound
  <1>2. GenerationsCounted'
    BY DEF RuntimeInv, RuntimeTyped, GenerationsCounted, Preparing, Watching, Started, contexts, callers, BeginRound
  <1>3. ContextsKnown'
    BY DEF RuntimeInv, RuntimeTyped, ContextsKnown, contexts, callers, BeginRound
  <1>4. NoneAhead'
    BY DEF RuntimeInv, RuntimeTyped, NoneAhead, contexts, callers, BeginRound
  <1>5. StartOwns'
    BY DEF RuntimeInv, RuntimeTyped, StartOwns, Preparing, Watching, contexts, callers, BeginRound
  <1>6. LoopOwns'
    BY DEF RuntimeInv, RuntimeTyped, LoopOwns, Live, contexts, callers, BeginRound
  <1>7. OpenWhileRunning'
    BY DEF RuntimeInv, RuntimeTyped, OpenWhileRunning, contexts, callers, BeginRound
  <1>8. ReadyIsOwned'
    BY DEF RuntimeInv, RuntimeTyped, ReadyIsOwned, Live, contexts, callers, BeginRound
  <1>9. EndedIsCancelled'
    BY DEF RuntimeInv, RuntimeTyped, EndedIsCancelled, contexts, callers, BeginRound
  <1>10. StoppedIsClosed'
    BY DEF RuntimeInv, RuntimeTyped, StoppedIsClosed, contexts, callers, BeginRound
  <1>11. Undisturbed'
    BY DEF RuntimeInv, RuntimeTyped, Undisturbed, Preparing, contexts, callers, BeginRound
  <1>12. OwnedWhileRunning'
    BY DEF RuntimeInv, RuntimeTyped, OwnedWhileRunning, Preparing, Live, contexts, callers, BeginRound
  <1>13. ~panicked'
    BY DEF RuntimeInv, RuntimeTyped, contexts, callers, BeginRound
  <1> QED
    BY <1>1, <1>2, <1>3, <1>4, <1>5, <1>6, <1>7, <1>8, <1>9, <1>10, <1>11, <1>12, <1>13 DEF RuntimeInv

LEMMA EndRoundKeeps ==
    ASSUME RuntimeInv, NEW g \in Gens, EndRound(g)
    PROVE  RuntimeInv'
PROOF
  <1>1. g \in 1 .. done /\ loop[g] \in Live
    BY GenerationsBounded DEF RuntimeInv, RuntimeTyped, LoopOwns, Live, EndRound
  <1>2. \E step \in {"ok", "bad", "idle"} : loop' = [loop EXCEPT ![g] = step]
    BY DEF EndRound
  <1>3. RuntimeTyped'
    BY DEF RuntimeInv, RuntimeTyped, StartCall, QuiesceCall, StopCall, Live, contexts, callers, EndRound
  <1>4. GenerationsCounted'
    BY DEF RuntimeInv, RuntimeTyped, GenerationsCounted, Preparing, Watching, Started, contexts, callers, EndRound
  <1>5. ContextsKnown'
    BY <1>1 DEF RuntimeInv, ContextsKnown, EndRound, contexts
  <1>6. NoneAhead'
    BY DEF RuntimeInv, RuntimeTyped, NoneAhead, contexts, callers, EndRound
  <1>7. StartOwns'
    BY <1>2, <1>1 DEF RuntimeInv, RuntimeTyped, LoopOwns, StartOwns, Live, EndRound, callers
  <1>8. LoopOwns'
    BY DEF RuntimeInv, RuntimeTyped, LoopOwns, Live, contexts, callers, EndRound
  <1>9. OpenWhileRunning'
    BY DEF RuntimeInv, RuntimeTyped, OpenWhileRunning, contexts, callers, EndRound
  <1>10. ReadyIsOwned'
    BY DEF RuntimeInv, RuntimeTyped, LoopOwns, ReadyIsOwned, Live, EndRound
  <1>11. EndedIsCancelled'
    BY DEF RuntimeInv, RuntimeTyped, EndedIsCancelled, contexts, callers, EndRound
  <1>12. StoppedIsClosed'
    BY DEF RuntimeInv, RuntimeTyped, StoppedIsClosed, contexts, callers, EndRound
  <1>13. Undisturbed'
    BY DEF RuntimeInv, RuntimeTyped, StartOwns, LoopOwns, Undisturbed, callers, EndRound
  <1>14. OwnedWhileRunning'
    BY DEF RuntimeInv, RuntimeTyped, LoopOwns, OwnedWhileRunning, Live, EndRound
  <1>15. ~panicked'
    BY DEF RuntimeInv, RuntimeTyped, contexts, callers, EndRound
  <1> QED
    BY <1>3, <1>4, <1>5, <1>6, <1>7, <1>8, <1>9, <1>10, <1>11, <1>12, <1>13, <1>14, <1>15 DEF RuntimeInv

LEMMA RunSafelyKeeps ==
    ASSUME RuntimeInv, NEW g \in Gens, RunSafely(g)
    PROVE  RuntimeInv'
PROOF
  <1>1. RuntimeTyped'
    BY DEF RuntimeInv, RuntimeTyped, StartCall, QuiesceCall, StopCall, Live, contexts, callers, RunSafely
  <1>2. GenerationsCounted'
    BY DEF RuntimeInv, RuntimeTyped, GenerationsCounted, Preparing, Watching, Started, contexts, callers, RunSafely
  <1>3. ContextsKnown'
    BY DEF RuntimeInv, RuntimeTyped, ContextsKnown, contexts, callers, RunSafely
  <1>4. NoneAhead'
    BY DEF RuntimeInv, RuntimeTyped, NoneAhead, contexts, callers, RunSafely
  <1>5. StartOwns'
    BY DEF RuntimeInv, RuntimeTyped, StartOwns, Preparing, Watching, contexts, callers, RunSafely
  <1>6. LoopOwns'
    BY DEF RuntimeInv, RuntimeTyped, LoopOwns, Live, contexts, callers, RunSafely
  <1>7. OpenWhileRunning'
    BY DEF RuntimeInv, RuntimeTyped, OpenWhileRunning, contexts, callers, RunSafely
  <1>8. ReadyIsOwned'
    BY DEF RuntimeInv, LoopOwns, ReadyIsOwned, Live, RunSafely
  <1>9. EndedIsCancelled'
    BY DEF RuntimeInv, RuntimeTyped, EndedIsCancelled, contexts, callers, RunSafely
  <1>10. StoppedIsClosed'
    BY DEF RuntimeInv, RuntimeTyped, StoppedIsClosed, contexts, callers, RunSafely
  <1>11. Undisturbed'
    BY DEF RuntimeInv, RuntimeTyped, Undisturbed, Preparing, contexts, callers, RunSafely
  <1>12. OwnedWhileRunning'
    BY DEF RuntimeInv, RuntimeTyped, OwnedWhileRunning, Preparing, Live, contexts, callers, RunSafely
  <1>13. ~panicked'
    BY DEF RuntimeInv, RuntimeTyped, contexts, callers, RunSafely
  <1> QED
    BY <1>1, <1>2, <1>3, <1>4, <1>5, <1>6, <1>7, <1>8, <1>9, <1>10, <1>11, <1>12, <1>13 DEF RuntimeInv

LEMMA RunEndKeeps ==
    ASSUME RuntimeInv, NEW g \in Gens, RunEnd(g)
    PROVE  RuntimeInv'
PROOF
  <1>1. RuntimeTyped'
    BY DEF RuntimeInv, RuntimeTyped, StartCall, QuiesceCall, StopCall, Live, callers, RunEnd, Close
  <1>2. GenerationsCounted'
    BY DEF RuntimeInv, RuntimeTyped, GenerationsCounted, Preparing, Watching, Started, callers, RunEnd, Close
  <1>3. ContextsKnown'
    BY DEF RuntimeInv, RuntimeTyped, ContextsKnown, callers, RunEnd, Close
  <1>4. NoneAhead'
    BY DEF RuntimeInv, RuntimeTyped, NoneAhead, callers, RunEnd, Close
  <1>5. StartOwns'
    <2>1. g = done /\ loop[g] \in Live /\ loop[g] # "none"
      BY DEF RuntimeInv, LoopOwns, Live, RunEnd
    <2>2. \A t \in Starters : start[t].pc \notin Preparing
      BY <2>1 DEF RuntimeInv, StartOwns
    <2>3. \A h \in Gens : h # g => loop'[h] = loop[h]
      BY DEF RuntimeInv, RuntimeTyped, RunEnd
    <2>4. loop'[g] = "ended" /\ UNCHANGED start
      BY DEF RuntimeInv, RuntimeTyped, RunEnd, callers
    <2>5. ASSUME NEW t \in Starters, start[t].pc \in Watching PROVE start[t].gen \in Gens
      BY <2>1, <2>5, GenerationsBounded DEF RuntimeInv, RuntimeTyped, GenerationsCounted, StartCall, Gens
    <2> QED
      BY <2>2, <2>3, <2>4, <2>5 DEF RuntimeInv, StartOwns
  <1>6. LoopOwns'
    BY DEF RuntimeInv, RuntimeTyped, LoopOwns, Live, callers, RunEnd, Close
  <1>7. OpenWhileRunning'
    BY DEF RuntimeInv, RuntimeTyped, OpenWhileRunning, callers, RunEnd, Close
  <1>8. ReadyIsOwned'
    BY DEF RuntimeInv, RuntimeTyped, ReadyIsOwned, Live, callers, RunEnd, Close
  <1>9. EndedIsCancelled'
    BY DEF RuntimeInv, RuntimeTyped, EndedIsCancelled, callers, RunEnd, Close
  <1>10. StoppedIsClosed'
    BY DEF RuntimeInv, RuntimeTyped, StoppedIsClosed, callers, RunEnd, Close
  <1>11. Undisturbed'
    BY DEF RuntimeInv, RuntimeTyped, Undisturbed, Preparing, callers, RunEnd, Close
  <1>12. OwnedWhileRunning'
    BY DEF RuntimeInv, RuntimeTyped, OwnedWhileRunning, Preparing, Live, callers, RunEnd, Close
  <1>13. ~panicked'
    BY DEF RuntimeInv, RuntimeTyped, LoopOwns, OpenWhileRunning, RunEnd, Close
  <1> QED
    BY <1>1, <1>2, <1>3, <1>4, <1>5, <1>6, <1>7, <1>8, <1>9, <1>10, <1>11, <1>12, <1>13 DEF RuntimeInv

LEMMA QuiesceLockKeeps ==
    ASSUME RuntimeInv, NEW q \in Quiescers, QuiesceLock(q)
    PROVE  RuntimeInv'
PROOF
  <1>1. quiesce' \in [Quiescers -> QuiesceCall] /\ \A r \in Quiescers : quiesce'[r].gen <= done
    <2>1. CASE Split /\ ~running
      <3>1. quiesce' = [quiesce EXCEPT ![q].pc = "returned"]
        BY <2>1 DEF QuiesceLock
      <3>2. quiesce \in [Quiescers -> QuiesceCall] /\ \A r \in Quiescers : quiesce[r].gen <= done
        BY DEF RuntimeInv, RuntimeTyped, NoneAhead
      <3>3. [quiesce[q] EXCEPT !.pc = "returned"] \in QuiesceCall
        BY <3>2 DEF QuiesceCall
      <3>4. \A r \in Quiescers : quiesce'[r].gen = quiesce[r].gen
        BY <3>1, <3>2 DEF QuiesceCall
      <3> QED
        BY <3>1, <3>2, <3>3, <3>4
    <2>2. CASE ~(Split /\ ~running)
      BY <2>2 DEF RuntimeInv, RuntimeTyped, NoneAhead, QuiesceCall, QuiesceLock, Call
    <2> QED
      BY <2>1, <2>2
  <1>2. RuntimeTyped'
    BY <1>1 DEF RuntimeInv, RuntimeTyped, QuiesceLock
  <1>3. GenerationsCounted'
    BY DEF RuntimeInv, RuntimeTyped, GenerationsCounted, Preparing, Watching, Started, contexts, Split, QuiesceLock, MayStop, Starting, Call
  <1>4. ContextsKnown'
    BY DEF RuntimeInv, RuntimeTyped, ContextsKnown, contexts, Split, QuiesceLock, MayStop, Starting, Call
  <1>5. NoneAhead'
    BY <1>1 DEF RuntimeInv, NoneAhead, QuiesceLock, contexts
  <1>6. StartOwns'
    BY DEF RuntimeInv, RuntimeTyped, StartOwns, Preparing, Watching, contexts, Split, QuiesceLock, MayStop, Starting, Call
  <1>7. LoopOwns'
    BY DEF RuntimeInv, RuntimeTyped, LoopOwns, Live, contexts, Split, QuiesceLock, MayStop, Starting, Call
  <1>8. OpenWhileRunning'
    BY DEF RuntimeInv, RuntimeTyped, OpenWhileRunning, contexts, Split, QuiesceLock, MayStop, Starting, Call
  <1>9. ReadyIsOwned'
    BY DEF RuntimeInv, RuntimeTyped, ReadyIsOwned, Live, contexts, Split, QuiesceLock, MayStop, Starting, Call
  <1>10. EndedIsCancelled'
    BY DEF RuntimeInv, RuntimeTyped, EndedIsCancelled, contexts, Split, QuiesceLock, MayStop, Starting, Call
  <1>11. StoppedIsClosed'
    BY DEF RuntimeInv, RuntimeTyped, StoppedIsClosed, contexts, Split, QuiesceLock, MayStop, Starting, Call
  <1>12. Undisturbed'
    BY DEF RuntimeInv, RuntimeTyped, Undisturbed, Preparing, contexts, Split, QuiesceLock, MayStop, Starting, Call
  <1>13. OwnedWhileRunning'
    BY DEF RuntimeInv, RuntimeTyped, OwnedWhileRunning, Preparing, Live, contexts, Split, QuiesceLock, MayStop, Starting, Call
  <1>14. ~panicked'
    BY DEF RuntimeInv, RuntimeTyped, contexts, Split, QuiesceLock, MayStop, Starting, Call
  <1> QED
    BY <1>2, <1>3, <1>4, <1>5, <1>6, <1>7, <1>8, <1>9, <1>10, <1>11, <1>12, <1>13, <1>14 DEF RuntimeInv

LEMMA QuiesceCancelKeeps ==
    ASSUME RuntimeInv, NEW q \in Quiescers, QuiesceCancel(q)
    PROVE  RuntimeInv'
PROOF
  <1>1. quiesce[q].gen \in 0 .. done
    BY DEF RuntimeInv, RuntimeTyped, NoneAhead, QuiesceCall
  <1>2. RuntimeTyped'
    BY DEF RuntimeInv, RuntimeTyped, StartCall, QuiesceCall, StopCall, Live, Split, QuiesceCancel
  <1>3. GenerationsCounted'
    BY DEF RuntimeInv, RuntimeTyped, GenerationsCounted, Preparing, Watching, Started, Split, QuiesceCancel
  <1>4. ContextsKnown'
    BY <1>1 DEF RuntimeInv, RuntimeTyped, ContextsKnown, QuiesceCancel
  <1>5. NoneAhead'
    BY DEF RuntimeInv, RuntimeTyped, NoneAhead, Split, QuiesceCancel
  <1>6. StartOwns'
    BY DEF RuntimeInv, RuntimeTyped, StartOwns, Preparing, Watching, Split, QuiesceCancel
  <1>7. LoopOwns'
    BY DEF RuntimeInv, RuntimeTyped, LoopOwns, Live, Split, QuiesceCancel
  <1>8. OpenWhileRunning'
    BY DEF RuntimeInv, RuntimeTyped, OpenWhileRunning, Split, QuiesceCancel
  <1>9. ReadyIsOwned'
    BY DEF RuntimeInv, RuntimeTyped, ReadyIsOwned, Live, Split, QuiesceCancel
  <1>10. EndedIsCancelled'
    BY DEF RuntimeInv, RuntimeTyped, EndedIsCancelled, Split, QuiesceCancel
  <1>11. StoppedIsClosed'
    BY DEF RuntimeInv, RuntimeTyped, StoppedIsClosed, Split, QuiesceCancel
  <1>12. Undisturbed'
    BY DEF RuntimeInv, RuntimeTyped, Undisturbed, Preparing, Split, QuiesceCancel
  <1>13. OwnedWhileRunning'
    BY DEF RuntimeInv, RuntimeTyped, OwnedWhileRunning, Preparing, Live, Split, QuiesceCancel
  <1>14. ~panicked'
    BY DEF RuntimeInv, RuntimeTyped, Split, QuiesceCancel
  <1> QED
    BY <1>2, <1>3, <1>4, <1>5, <1>6, <1>7, <1>8, <1>9, <1>10, <1>11, <1>12, <1>13, <1>14 DEF RuntimeInv

LEMMA StopLockKeeps ==
    ASSUME RuntimeInv, NEW p \in Stoppers, StopLock(p)
    PROVE  RuntimeInv'
PROOF
  <1>1. stop' \in [Stoppers -> StopCall] /\ \A r \in Stoppers : stop'[r].gen <= done /\ stop'[r].wait <= done /\ (stop'[r].pc = "returned" => stop'[r].wait = 0 \/ stop'[r].wait \in closed)
    <2>1. PICK call \in {[pc |-> "returned", gen |-> 0, wait |-> 0], [pc |-> "cancel", gen |-> cancel, wait |-> done]} :
             stop' = [stop EXCEPT ![p] = call]
      BY DEF StopLock
    <2>2. /\ call \in StopCall /\ call.gen <= done /\ call.wait <= done
          /\ call.pc = "returned" => call.wait = 0
      BY DEF RuntimeInv, RuntimeTyped, StopCall
    <2>3. /\ stop \in [Stoppers -> StopCall]
          /\ \A r \in Stoppers : /\ stop[r].gen <= done /\ stop[r].wait <= done
                                 /\ stop[r].pc = "returned" => stop[r].wait = 0 \/ stop[r].wait \in closed
      BY DEF RuntimeInv, RuntimeTyped, NoneAhead, StoppedIsClosed
    <2> QED
      BY <2>1, <2>2, <2>3
  <1>2. RuntimeTyped'
    BY <1>1 DEF RuntimeInv, RuntimeTyped, StopLock
  <1>3. GenerationsCounted'
    BY DEF RuntimeInv, RuntimeTyped, GenerationsCounted, Preparing, Watching, Started, contexts, StopLock, MayStop, Starting
  <1>4. ContextsKnown'
    BY DEF RuntimeInv, RuntimeTyped, ContextsKnown, contexts, StopLock, MayStop, Starting
  <1>5. NoneAhead'
    BY <1>1 DEF RuntimeInv, NoneAhead, StopLock, contexts
  <1>6. StartOwns'
    BY DEF RuntimeInv, RuntimeTyped, StartOwns, Preparing, Watching, contexts, StopLock, MayStop, Starting
  <1>7. LoopOwns'
    BY DEF RuntimeInv, RuntimeTyped, LoopOwns, Live, contexts, StopLock, MayStop, Starting
  <1>8. OpenWhileRunning'
    BY DEF RuntimeInv, RuntimeTyped, OpenWhileRunning, contexts, StopLock, MayStop, Starting
  <1>9. ReadyIsOwned'
    BY DEF RuntimeInv, RuntimeTyped, ReadyIsOwned, Live, contexts, StopLock, MayStop, Starting
  <1>10. EndedIsCancelled'
    BY DEF RuntimeInv, RuntimeTyped, EndedIsCancelled, contexts, StopLock, MayStop, Starting
  <1>11. StoppedIsClosed'
    BY <1>1 DEF StoppedIsClosed, StopLock
  <1>12. Undisturbed'
    BY DEF RuntimeInv, RuntimeTyped, Undisturbed, Preparing, contexts, StopLock, MayStop, Starting
  <1>13. OwnedWhileRunning'
    BY DEF RuntimeInv, RuntimeTyped, OwnedWhileRunning, Preparing, Live, contexts, StopLock, MayStop, Starting
  <1>14. ~panicked'
    BY DEF RuntimeInv, RuntimeTyped, contexts, StopLock, MayStop, Starting
  <1> QED
    BY <1>2, <1>3, <1>4, <1>5, <1>6, <1>7, <1>8, <1>9, <1>10, <1>11, <1>12, <1>13, <1>14 DEF RuntimeInv

LEMMA StopCancelKeeps ==
    ASSUME RuntimeInv, NEW p \in Stoppers, StopCancel(p)
    PROVE  RuntimeInv'
PROOF
  <1>1. stop[p].gen \in 0 .. done
    BY DEF RuntimeInv, RuntimeTyped, NoneAhead, StopCall
  <1>2. RuntimeTyped'
    BY DEF RuntimeInv, RuntimeTyped, StartCall, QuiesceCall, StopCall, Live, Split, StopCancel
  <1>3. GenerationsCounted'
    BY DEF RuntimeInv, RuntimeTyped, GenerationsCounted, Preparing, Watching, Started, Split, StopCancel
  <1>4. ContextsKnown'
    BY <1>1 DEF RuntimeInv, RuntimeTyped, ContextsKnown, StopCancel
  <1>5. NoneAhead'
    BY DEF RuntimeInv, RuntimeTyped, NoneAhead, Split, StopCancel
  <1>6. StartOwns'
    BY DEF RuntimeInv, RuntimeTyped, StartOwns, Preparing, Watching, Split, StopCancel
  <1>7. LoopOwns'
    BY DEF RuntimeInv, RuntimeTyped, LoopOwns, Live, Split, StopCancel
  <1>8. OpenWhileRunning'
    BY DEF RuntimeInv, RuntimeTyped, OpenWhileRunning, Split, StopCancel
  <1>9. ReadyIsOwned'
    BY DEF RuntimeInv, RuntimeTyped, ReadyIsOwned, Live, Split, StopCancel
  <1>10. EndedIsCancelled'
    BY DEF RuntimeInv, RuntimeTyped, EndedIsCancelled, Split, StopCancel
  <1>11. StoppedIsClosed'
    BY DEF RuntimeInv, RuntimeTyped, StoppedIsClosed, Split, StopCancel
  <1>12. Undisturbed'
    BY DEF RuntimeInv, RuntimeTyped, Undisturbed, Preparing, Split, StopCancel
  <1>13. OwnedWhileRunning'
    BY DEF RuntimeInv, RuntimeTyped, OwnedWhileRunning, Preparing, Live, Split, StopCancel
  <1>14. ~panicked'
    BY DEF RuntimeInv, RuntimeTyped, Split, StopCancel
  <1> QED
    BY <1>2, <1>3, <1>4, <1>5, <1>6, <1>7, <1>8, <1>9, <1>10, <1>11, <1>12, <1>13, <1>14 DEF RuntimeInv

LEMMA DrainTimeoutKeeps ==
    ASSUME RuntimeInv, NEW p \in Stoppers, DrainTimeout(p)
    PROVE  RuntimeInv'
PROOF
  <1>1. stop[p].gen \in 0 .. done
    BY DEF RuntimeInv, RuntimeTyped, NoneAhead, StopCall
  <1>2. RuntimeTyped'
    BY DEF RuntimeInv, RuntimeTyped, StartCall, QuiesceCall, StopCall, Live, DrainTimeout
  <1>3. GenerationsCounted'
    BY DEF RuntimeInv, RuntimeTyped, GenerationsCounted, Preparing, Watching, Started, DrainTimeout
  <1>4. ContextsKnown'
    BY <1>1 DEF RuntimeInv, RuntimeTyped, ContextsKnown, DrainTimeout
  <1>5. NoneAhead'
    BY DEF RuntimeInv, RuntimeTyped, NoneAhead, DrainTimeout
  <1>6. StartOwns'
    BY DEF RuntimeInv, RuntimeTyped, StartOwns, Preparing, Watching, DrainTimeout
  <1>7. LoopOwns'
    BY DEF RuntimeInv, RuntimeTyped, LoopOwns, Live, DrainTimeout
  <1>8. OpenWhileRunning'
    BY DEF RuntimeInv, RuntimeTyped, OpenWhileRunning, DrainTimeout
  <1>9. ReadyIsOwned'
    BY DEF RuntimeInv, RuntimeTyped, ReadyIsOwned, Live, DrainTimeout
  <1>10. EndedIsCancelled'
    BY DEF RuntimeInv, RuntimeTyped, EndedIsCancelled, DrainTimeout
  <1>11. StoppedIsClosed'
    BY DEF RuntimeInv, RuntimeTyped, StoppedIsClosed, DrainTimeout
  <1>12. Undisturbed'
    BY DEF RuntimeInv, RuntimeTyped, Undisturbed, Preparing, DrainTimeout
  <1>13. OwnedWhileRunning'
    BY DEF RuntimeInv, RuntimeTyped, OwnedWhileRunning, Preparing, Live, DrainTimeout
  <1>14. ~panicked'
    BY DEF RuntimeInv, RuntimeTyped, DrainTimeout
  <1> QED
    BY <1>2, <1>3, <1>4, <1>5, <1>6, <1>7, <1>8, <1>9, <1>10, <1>11, <1>12, <1>13, <1>14 DEF RuntimeInv

LEMMA StopDoneKeeps ==
    ASSUME RuntimeInv, NEW p \in Stoppers, StopDone(p)
    PROVE  RuntimeInv'
PROOF
  <1>1. RuntimeTyped'
    BY DEF RuntimeInv, RuntimeTyped, StartCall, QuiesceCall, StopCall, Live, contexts, StopDone
  <1>2. GenerationsCounted'
    BY DEF RuntimeInv, RuntimeTyped, GenerationsCounted, Preparing, Watching, Started, contexts, StopDone
  <1>3. ContextsKnown'
    BY DEF RuntimeInv, RuntimeTyped, ContextsKnown, contexts, StopDone
  <1>4. NoneAhead'
    BY DEF RuntimeInv, RuntimeTyped, NoneAhead, contexts, StopDone
  <1>5. StartOwns'
    BY DEF RuntimeInv, RuntimeTyped, StartOwns, Preparing, Watching, contexts, StopDone
  <1>6. LoopOwns'
    BY DEF RuntimeInv, RuntimeTyped, LoopOwns, Live, contexts, StopDone
  <1>7. OpenWhileRunning'
    BY DEF RuntimeInv, RuntimeTyped, OpenWhileRunning, contexts, StopDone
  <1>8. ReadyIsOwned'
    BY DEF RuntimeInv, RuntimeTyped, ReadyIsOwned, Live, contexts, StopDone
  <1>9. EndedIsCancelled'
    BY DEF RuntimeInv, RuntimeTyped, EndedIsCancelled, contexts, StopDone
  <1>10. StoppedIsClosed'
    BY DEF RuntimeInv, RuntimeTyped, StoppedIsClosed, contexts, StopDone
  <1>11. Undisturbed'
    BY DEF RuntimeInv, RuntimeTyped, Undisturbed, Preparing, contexts, StopDone
  <1>12. OwnedWhileRunning'
    BY DEF RuntimeInv, RuntimeTyped, OwnedWhileRunning, Preparing, Live, contexts, StopDone
  <1>13. ~panicked'
    BY DEF RuntimeInv, RuntimeTyped, contexts, StopDone
  <1> QED
    BY <1>1, <1>2, <1>3, <1>4, <1>5, <1>6, <1>7, <1>8, <1>9, <1>10, <1>11, <1>12, <1>13 DEF RuntimeInv

LEMMA StopDeadlineKeeps ==
    ASSUME RuntimeInv, NEW p \in Stoppers, StopDeadline(p)
    PROVE  RuntimeInv'
PROOF
  <1>1. stop[p].gen \in 0 .. done
    BY DEF RuntimeInv, RuntimeTyped, NoneAhead, StopCall
  <1>2. RuntimeTyped'
    BY DEF RuntimeInv, RuntimeTyped, StartCall, QuiesceCall, StopCall, Live, StopDeadline
  <1>3. GenerationsCounted'
    BY DEF RuntimeInv, RuntimeTyped, GenerationsCounted, Preparing, Watching, Started, StopDeadline
  <1>4. ContextsKnown'
    BY <1>1 DEF RuntimeInv, RuntimeTyped, ContextsKnown, StopDeadline
  <1>5. NoneAhead'
    BY DEF RuntimeInv, RuntimeTyped, NoneAhead, StopDeadline
  <1>6. StartOwns'
    BY DEF RuntimeInv, RuntimeTyped, StartOwns, Preparing, Watching, StopDeadline
  <1>7. LoopOwns'
    BY DEF RuntimeInv, RuntimeTyped, LoopOwns, Live, StopDeadline
  <1>8. OpenWhileRunning'
    BY DEF RuntimeInv, RuntimeTyped, OpenWhileRunning, StopDeadline
  <1>9. ReadyIsOwned'
    BY DEF RuntimeInv, RuntimeTyped, ReadyIsOwned, Live, StopDeadline
  <1>10. EndedIsCancelled'
    BY DEF RuntimeInv, RuntimeTyped, EndedIsCancelled, StopDeadline
  <1>11. StoppedIsClosed'
    BY DEF RuntimeInv, RuntimeTyped, StoppedIsClosed, StopDeadline
  <1>12. Undisturbed'
    BY DEF RuntimeInv, RuntimeTyped, Undisturbed, Preparing, StopDeadline
  <1>13. OwnedWhileRunning'
    BY DEF RuntimeInv, RuntimeTyped, OwnedWhileRunning, Preparing, Live, StopDeadline
  <1>14. ~panicked'
    BY DEF RuntimeInv, RuntimeTyped, StopDeadline
  <1> QED
    BY <1>2, <1>3, <1>4, <1>5, <1>6, <1>7, <1>8, <1>9, <1>10, <1>11, <1>12, <1>13, <1>14 DEF RuntimeInv

\* A Start that finds the runtime free counts one generation more and owns it.
LEMMA StartReserveKeeps ==
    ASSUME RuntimeInv, NEW s \in Starters, StartReserve(s)
    PROVE  RuntimeInv'
PROOF
  <1>1. CASE running
    <2> USE <1>1
    <2>1. start' = [start EXCEPT ![s] = [pc |-> "returned", gen |-> 0]] /\ UNCHANGED <<kind, running, ready, cancel, done, closed, panicked, contexts, quiesce, stop, loop>>
      BY DEF StartReserve, Call
    <2>2. start[s].gen = 0 /\ start[s].pc = "idle"
      BY DEF RuntimeInv, GenerationsCounted, StartReserve
    <2>3. start' \in [Starters -> StartCall] /\ \A t \in Starters : t # s => start'[t] = start[t]
      BY <2>1 DEF RuntimeInv, RuntimeTyped, StartCall
    <2>4. start'[s].pc = "returned" /\ start'[s].gen = 0
      BY <2>1 DEF RuntimeInv, RuntimeTyped
    <2>5. Started' = Started
      BY <2>2, <2>3, <2>4 DEF Started
    <2>6. RuntimeTyped'
      BY <2>1, <2>3 DEF RuntimeInv, RuntimeTyped
    <2>7. GenerationsCounted'
      BY <2>1, <2>2, <2>3, <2>4, <2>5 DEF RuntimeInv, RuntimeTyped, GenerationsCounted, Preparing, Watching
    <2>8. StartOwns' /\ Undisturbed'
      BY <2>1, <2>3, <2>4 DEF RuntimeInv, StartOwns, Undisturbed, Preparing, Watching, contexts
    <2>9. OwnedWhileRunning'
      BY <2>1, <2>2, <2>3, <2>4 DEF RuntimeInv, OwnedWhileRunning, Preparing
    <2> QED
      BY <2>1, <2>6, <2>7, <2>8, <2>9 DEF RuntimeInv, ContextsKnown, NoneAhead, LoopOwns, OpenWhileRunning,
         ReadyIsOwned, EndedIsCancelled, StoppedIsClosed, contexts
  <1>2. CASE ~running
    <2> DEFINE g == done + 1
               next == IF kind = "retention" THEN "returned" ELSE "recover"
    <2>1. /\ start' = [start EXCEPT ![s] = [pc |-> next, gen |-> g]] /\ running' /\ done' = g
          /\ ready' = (kind = "retention") /\ cancel' \in {cancel, g}
          /\ loop' = IF kind = "retention" THEN [loop EXCEPT ![g] = "idle"] ELSE loop
          /\ UNCHANGED <<kind, closed, panicked, contexts, quiesce, stop>>
      BY <1>2 DEF StartReserve, Call
    <2>2. done \in Nat /\ g \in Nat /\ start[s].gen = 0 /\ start[s].pc = "idle"
      BY DEF RuntimeInv, RuntimeTyped, GenerationsCounted, StartReserve
    <2>3. start' \in [Starters -> StartCall] /\ \A t \in Starters : t # s => start'[t] = start[t]
      BY <2>1, <2>2 DEF RuntimeInv, RuntimeTyped, StartCall, Preparing
    <2>4. start'[s].pc = next /\ start'[s].gen = g
      BY <2>1 DEF RuntimeInv, RuntimeTyped
    <2>5. Started' = Started \cup {s} /\ s \notin Started /\ Started' \subseteq Starters
      BY <2>2, <2>3, <2>4 DEF Started
    <2>6. Cardinality(Started') = g /\ g <= Cardinality(Starters) /\ g \in Gens
      <3>1. IsFiniteSet(Starters)
        BY RuntimeConstants DEF RuntimeAssumption
      <3>2. IsFiniteSet(Started) /\ Started \subseteq Starters
        BY <3>1, FS_Subset DEF Started
      <3>3. Cardinality(Started \cup {s}) = Cardinality(Started) + 1
        BY <2>5, <3>2, FS_AddElement
      <3>4. Cardinality(Started') <= Cardinality(Starters)
        BY <2>5, <3>1, FS_Subset
      <3> QED
        BY <2>2, <2>5, <3>3, <3>4, GenerationsBounded DEF RuntimeInv, GenerationsCounted, Gens
    <2>7. \A t \in Starters : start[t].pc \notin Preparing
      BY <1>2 DEF RuntimeInv, StartOwns
    <2>8. \A h \in Gens : h \in Nat /\ loop[h] \notin Live /\ (h # g => loop'[h] = loop[h]) /\ loop[g] = "none"
      BY <1>2, <2>1, <2>2, <2>6, GenerationsBounded DEF RuntimeInv, RuntimeTyped, LoopOwns, NoneAhead
    <2>9. loop'[g] = IF kind = "retention" THEN "idle" ELSE "none"
      BY <2>1, <2>6, <2>8 DEF RuntimeInv, RuntimeTyped
    <2>10. RuntimeTyped'
      <3>1. loop' \in [Gens -> Live \cup {"none", "ended"}]
        BY <2>1 DEF RuntimeInv, RuntimeTyped, Live
      <3>2. cancel' \in Nat /\ cancel' <= done'
        BY <2>1, <2>2 DEF RuntimeInv, RuntimeTyped
      <3> QED
        BY <2>1, <2>2, <2>3, <3>1, <3>2 DEF RuntimeInv, RuntimeTyped
    <2>11. GenerationsCounted'
      <3>1. \A t \in Starters : start[t].gen \in Nat /\ start[t].gen <= done
        BY DEF RuntimeInv, RuntimeTyped, GenerationsCounted, StartCall
      <3>2. done' = Cardinality(Started')
        BY <2>1, <2>6
      <3>3. \A t \in Starters : start'[t].gen <= done' /\ (start'[t].pc = "idle" => start'[t].gen = 0)
                                /\ (start'[t].pc \in Preparing \cup Watching => start'[t].gen # 0)
        BY <2>1, <2>2, <2>3, <2>4, <3>1 DEF RuntimeInv, GenerationsCounted
      <3>4. \A t, u \in Starters : start'[t].gen = start'[u].gen /\ start'[t].gen # 0 => t = u
        BY <2>2, <2>3, <2>4, <3>1 DEF RuntimeInv, GenerationsCounted
      <3> QED
        BY <3>2, <3>3, <3>4 DEF GenerationsCounted
    <2>12. ContextsKnown'
      BY <2>1, <2>2 DEF RuntimeInv, ContextsKnown, contexts
    <2>13. NoneAhead'
      <3>1. \A h \in Gens : h > done' => loop'[h] = "none"
        BY <2>1, <2>2, <2>8 DEF RuntimeInv, NoneAhead
      <3>2. \A q \in Quiescers : quiesce[q].gen \in Nat /\ quiesce[q].gen <= done
        BY DEF RuntimeInv, RuntimeTyped, NoneAhead, QuiesceCall
      <3>3. \A p \in Stoppers : stop[p].gen \in Nat /\ stop[p].wait \in Nat /\ stop[p].gen <= done /\ stop[p].wait <= done
        BY DEF RuntimeInv, RuntimeTyped, NoneAhead, StopCall
      <3> QED
        BY <2>1, <2>2, <3>1, <3>2, <3>3 DEF NoneAhead
    <2>14. StartOwns'
      <3>1. \A t \in Starters : start[t].pc \in Watching => start[t].gen # g /\ start[t].gen \in Gens
        BY <2>2, <2>6, GenerationsBounded DEF RuntimeInv, RuntimeTyped, GenerationsCounted, StartCall, Gens
      <3> QED
        BY <2>1, <2>3, <2>4, <2>7, <2>8, <2>9, <3>1 DEF RuntimeInv, StartOwns, Preparing, Watching
    <2>15. LoopOwns' /\ ReadyIsOwned' /\ OwnedWhileRunning'
      BY <2>1, <2>4, <2>8, <2>9 DEF LoopOwns, ReadyIsOwned, OwnedWhileRunning, Live, Preparing
    <2>16. OpenWhileRunning'
      BY <2>1, <2>2 DEF RuntimeInv, ContextsKnown, OpenWhileRunning
    <2>17. EndedIsCancelled' /\ StoppedIsClosed'
      BY <2>1, <2>8, <2>9 DEF RuntimeInv, EndedIsCancelled, StoppedIsClosed, contexts
    <2>18. Undisturbed'
      <3>1. \A q \in Quiescers : quiesce[q].gen # g
        BY <2>2 DEF RuntimeInv, RuntimeTyped, NoneAhead, QuiesceCall
      <3>2. \A p \in Stoppers : stop[p].gen # g
        BY <2>2 DEF RuntimeInv, RuntimeTyped, NoneAhead, StopCall
      <3>3. g \notin admission
        BY <2>2 DEF RuntimeInv, ContextsKnown
      <3> QED
        BY <2>1, <2>3, <2>4, <2>7, <3>1, <3>2, <3>3 DEF Undisturbed, contexts
    <2> QED
      BY <2>1, <2>10, <2>11, <2>12, <2>13, <2>14, <2>15, <2>16, <2>17, <2>18 DEF RuntimeInv
  <1> QED
    BY <1>1, <1>2

\* The ownership of the current generation is kept by every step.
THEOREM RuntimeInvariance == Spec => []RuntimeInv
PROOF
  <1>1. Init => RuntimeInv
    <2> SUFFICES ASSUME Init PROVE RuntimeInv
      OBVIOUS
    <2>1. RuntimeTyped
      BY DEF Init, RuntimeTyped, Fresh, FreshStop, Call, StartCall, QuiesceCall, StopCall
    <2>2. GenerationsCounted
      <3>1. Started = {}
        BY DEF Init, Started, Fresh, Call
      <3> QED
        BY <3>1, FS_EmptySet DEF Init, GenerationsCounted, Fresh, Call, Preparing, Watching
    <2> QED
      BY <2>1, <2>2 DEF Init, RuntimeInv, ContextsKnown, NoneAhead, StartOwns, LoopOwns, OpenWhileRunning, ReadyIsOwned,
         EndedIsCancelled, StoppedIsClosed, Undisturbed, OwnedWhileRunning, Fresh, FreshStop, Call, Preparing, Watching, Live
  <1>2. RuntimeInv /\ [Next]_vars => RuntimeInv'
    <2> SUFFICES ASSUME RuntimeInv, [Next]_vars PROVE RuntimeInv'
      OBVIOUS
    <2>1. ASSUME NEW s \in Starters, StartReserve(s) \/ StartStep(s) PROVE RuntimeInv'
      BY <2>1, StartReserveKeeps, RecoverKeeps, CheckRecoveredKeeps, FailStartKeeps, PublishKeeps,
         SpawnExportKeeps, PublishExportKeeps, AwaitExportKeeps DEF StartStep
    <2>2. ASSUME NEW g \in Gens, BeginRound(g) \/ LoopStep(g) PROVE RuntimeInv'
      BY <2>2, BeginRoundKeeps, EndRoundKeeps, RunSafelyKeeps, RunEndKeeps DEF LoopStep
    <2>3. ASSUME NEW q \in Quiescers, QuiesceLock(q) \/ QuiesceCancel(q) PROVE RuntimeInv'
      BY <2>3, QuiesceLockKeeps, QuiesceCancelKeeps
    <2>4. ASSUME NEW p \in Stoppers, StopLock(p) \/ StopStep(p) \/ StopDeadline(p) PROVE RuntimeInv'
      BY <2>4, StopLockKeeps, StopCancelKeeps, DrainTimeoutKeeps, StopDoneKeeps, StopDeadlineKeeps DEF StopStep
    <2>5. CASE UNCHANGED vars
      BY <2>5 DEF vars, RuntimeInv, RuntimeTyped, GenerationsCounted, ContextsKnown, NoneAhead, StartOwns, LoopOwns,
         OpenWhileRunning, ReadyIsOwned, EndedIsCancelled, StoppedIsClosed, Undisturbed, OwnedWhileRunning, Started
    <2> QED
      BY <2>1, <2>2, <2>3, <2>4, <2>5 DEF Next
  <1> QED
    BY <1>1, <1>2, PTL DEF Spec

\* The runtimes of the worker package start and stop in order, with any number of concurrent
\* calls of Start, Quiesce and Stop, early or late, with or without a deadline.
THEOREM RuntimesAreOrderly == Spec => []RuntimesOrderly
PROOF
  <1>1. RuntimeInv => RuntimesOrderly
    <2> SUFFICES ASSUME RuntimeInv PROVE RuntimesOrderly
      OBVIOUS
    <2>1. NoDoubleClose
      BY DEF RuntimeInv, NoDoubleClose
    <2>2. OneLoop
      BY DEF RuntimeInv, LoopOwns, OneLoop
    <2>3. ReadyHasLoop
      BY DEF RuntimeInv, ReadyIsOwned, ReadyHasLoop
    <2>4. StopMeansStopped
      <3> SUFFICES ASSUME NEW p \in Stoppers, stop[p].pc = "returned", stop[p].wait # 0
                   PROVE  loop[stop[p].wait] \in {"none", "ended"} /\ (ready => done > stop[p].wait)
        BY DEF StopMeansStopped
      <3>1. stop[p].wait \in closed /\ stop[p].wait <= done /\ stop[p].wait \in Nat /\ done \in Nat
        BY DEF RuntimeInv, RuntimeTyped, StoppedIsClosed, NoneAhead, StopCall
      <3>2. stop[p].wait \in Gens
        BY <3>1, GenerationsBounded DEF Gens
      <3>3. loop[stop[p].wait] \notin Live
        BY <3>1, <3>2 DEF RuntimeInv, LoopOwns, OpenWhileRunning
      <3>4. ready => done # stop[p].wait
        BY <3>1 DEF RuntimeInv, ReadyIsOwned, OpenWhileRunning
      <3> QED
        BY <3>1, <3>2, <3>3, <3>4 DEF RuntimeInv, RuntimeTyped
    <2>5. (kind = "maintenance" => ~EarlyStop) => Released
      <3> SUFFICES ASSUME kind = "maintenance" => ~EarlyStop, running
                   PROVE  (\E g \in Gens : loop[g] \in Live) \/ (\E s \in Starters : Starting(s))
        BY DEF Released
      <3>1. done \in Gens
        BY GenerationsBounded DEF RuntimeInv, OpenWhileRunning
      <3> QED
        BY <3>1 DEF RuntimeInv, OwnedWhileRunning, Starting, Preparing
    <2> QED
      BY <2>1, <2>2, <2>3, <2>4, <2>5 DEF RuntimesOrderly
  <1> QED
    BY <1>1, RuntimeInvariance, PTL
=============================================================================
