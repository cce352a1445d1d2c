----------------------------- MODULE FastTasks -----------------------------
(***************************************************************************)
(* The fast tasks: probe, realtime statistics and resource snapshot of     *)
(* every site, planned by the scheduler once per slot and run by a         *)
(* dispatcher that lives in memory.  The dispatcher keeps its queue in     *)
(* four maps; one task per site and a number of tasks per type run at a    *)
(* time.  A stop does not wait for workers longer than its timeout: the    *)
(* workers of an earlier dispatcher may run beside those of the next.      *)
(***************************************************************************)
EXTENDS Naturals, Sequences, FiniteSets, SequencesExt

CONSTANTS Sites, Types,
          Jitter,      \* site -> seconds after the slot's start
          Limits,      \* the concurrency settings of a type
          Capacity,    \* fastTaskQueueCapacity (256)
          Interval,    \* seconds of a slot
          MaxTime,     \* bound on the clock
          MaxConfig,   \* bound on config_version
          MaxStarts    \* bound on starts of the scheduler

FastTaskAssumption ==
  /\ {Capacity, MaxTime, MaxConfig, MaxStarts} \subseteq Nat /\ Interval \in Nat \ {0}
  /\ Limits \subseteq Nat \ {0} /\ Jitter \in [Sites -> Nat]

VARIABLES now,
          site,        \* site -> [config, online]
          limit,       \* type -> concurrency setting
          starts,      \* starts of the scheduler so far
          last,        \* lastFastState: <<type, site>> -> slot
          dispatcher,  \* [live, pending, queued, running, sites, active, limits]
          workers,     \* the goroutines: [type, site, config, slot, of, pc, before]
          diagnostics, \* requests recorded as failed runs: <<type, site, slot>>
          accepted     \* <<type, site, slot>> -> times it was queued in this start (history)
vars == <<now, site, limit, starts, last, dispatcher, workers, diagnostics, accepted>>

Keys == Types \X Sites
Key(task) == <<task.type, task.site>>
Fresh == [live |-> TRUE, pending |-> <<>>, queued |-> {}, running |-> {}, sites |-> {},
          active |-> [ty \in Types |-> 0], limits |-> [ty \in Types |-> 0]]
Stopped == [Fresh EXCEPT !.live = FALSE]

Init ==
  /\ now = Interval
  /\ site = [s \in Sites |-> [config |-> 1, online |-> TRUE]]
  /\ limit \in [Types -> Limits]
  /\ starts = 0 /\ last = [k \in Keys |-> 0]
  /\ dispatcher = Stopped /\ workers = {} /\ diagnostics = {} /\ accepted = <<>>

----------------------------------------------------------------------------
(***************************************************************************)
(* The dispatcher.                                                         *)
(***************************************************************************)
Startable(d, i) == /\ d.pending[i].site \notin d.sites
                   /\ d.active[d.pending[i].type] < d.limits[d.pending[i].type]
FirstReady(d) == CHOOSE i \in DOMAIN d.pending :
                   Startable(d, i) /\ \A j \in 1..(i - 1) : ~Startable(d, j)
StartTask(d, task, i) ==
  [d EXCEPT !.pending = RemoveAt(@, i), !.queued = @ \ {Key(task)}, !.running = @ \cup {Key(task)},
            !.sites = @ \cup {task.site}, !.active[task.type] = @ + 1]
\* startReadyLocked: the first task that may start does, until none may.
RECURSIVE StartReady(_, _)
StartReady(d, begun) ==
  IF d.live /\ \E i \in DOMAIN d.pending : Startable(d, i)
  THEN LET i == FirstReady(d)
           task == d.pending[i]
       IN  StartReady(StartTask(d, task, i), begun \cup {task})
  ELSE [dispatcher |-> d, begun |-> begun]

Rejects(d, task) ==
  \/ ~d.live \/ Key(task) \in d.queued \/ Key(task) \in d.running
  \/ Len(d.pending) >= Capacity
\* Enqueue: the limit of the type is taken over in any case.
Enqueue(d, task) ==
  LET limited == IF d.live THEN [d EXCEPT !.limits[task.type] = limit[task.type]] ELSE d
      queued == [limited EXCEPT !.pending = Append(@, task), !.queued = @ \cup {Key(task)}]
  IN  IF Rejects(d, task) THEN [dispatcher |-> limited, begun |-> {}, queued |-> {}]
      ELSE LET started == StartReady(queued, {})
           IN  [dispatcher |-> started.dispatcher, begun |-> started.begun, queued |-> {task}]

Worker(task) == [type |-> task.type, site |-> task.site, config |-> task.config,
                 slot |-> task.slot, of |-> starts, pc |-> "begin", before |-> TRUE]
Workers(tasks) == {Worker(t) : t \in tasks}

----------------------------------------------------------------------------
(***************************************************************************)
(* The scheduler's plan of the fast tasks.                                 *)
(***************************************************************************)
Slot == now \div Interval
Least(a, b) == IF a < b THEN a ELSE b
\* Offline sites are probed only.
Eligible(s, ty) == ty = "probe" \/ site[s].online
Due(k) ==
  /\ Eligible(k[2], k[1])
  /\ last[k] # Slot
  /\ now >= Slot * Interval + Least(Jitter[k[2]], Interval - 1)
\* runOnce: every due task is offered; one that is not accepted is offered
\* again at the next tick.
RECURSIVE Offer(_, _)
Offer(keys, acc) ==
  IF keys = <<>> THEN acc
  ELSE LET k == Head(keys)
           task == [type |-> k[1], site |-> k[2], config |-> site[k[2]].config, slot |-> Slot]
           r == Enqueue(acc.dispatcher, task)
       IN  Offer(Tail(keys), [dispatcher |-> r.dispatcher, begun |-> acc.begun \cup r.begun,
                              queued |-> acc.queued \cup r.queued])
Order == SetToSeq(Keys)
Plan(d, force) ==
  LET due == SelectSeq(Order, LAMBDA k : Due(k) \/ (force /\ Eligible(k[2], k[1])))
      r == Offer(due, [dispatcher |-> d, begun |-> {}, queued |-> {}])
      names == {<<t.type, t.site, t.slot>> : t \in r.queued}
  IN  /\ dispatcher' = r.dispatcher
      /\ workers' = workers \cup {[w EXCEPT !.of = starts'] : w \in Workers(r.begun)}
      /\ last' = [k \in Keys |-> IF \E t \in r.queued : Key(t) = k THEN Slot ELSE last[k]]
      /\ accepted' = [n \in DOMAIN accepted \cup names |->
                        (IF n \in DOMAIN accepted THEN accepted[n] ELSE 0) + (IF n \in names THEN 1 ELSE 0)]

runOnce ==
  /\ dispatcher.live /\ starts' = starts /\ Plan(dispatcher, FALSE)
  /\ UNCHANGED <<now, site, limit, diagnostics>>
\* Startup: startFastTaskLifecycle, then a plan that ignores slots and jitter.
Startup ==
  /\ ~dispatcher.live /\ starts < MaxStarts /\ starts' = starts + 1
  /\ Plan(Fresh, TRUE)
  /\ UNCHANGED <<now, site, limit, diagnostics>>
\* shutdownFastTasks: the queue is dropped, the workers' context is canceled
\* and those that do not end within the timeout are left behind.
Shutdown ==
  /\ dispatcher.live /\ dispatcher' = Stopped
  /\ \E left \in SUBSET workers : workers' = {[w EXCEPT !.pc = IF @ = "begin" THEN "canceled" ELSE @] : w \in left}
  /\ accepted' = <<>>
  /\ UNCHANGED <<now, site, limit, starts, last, diagnostics>>

----------------------------------------------------------------------------
(***************************************************************************)
(* executeFastTask and complete.                                           *)
(***************************************************************************)
\* The site is read again: a change of configuration ends the task.
BeginTask(w) ==
  /\ w \in workers /\ w.pc = "begin"
  /\ workers' = (workers \ {w}) \cup
       {[w EXCEPT !.pc = IF site[w.site].config = w.config /\ Eligible(w.site, w.type) THEN "run" ELSE "done",
                  !.before = site[w.site].online]}
  /\ UNCHANGED <<now, site, limit, starts, last, dispatcher, diagnostics, accepted>>
\* ExecutePeriodicSiteTask: a probe finds the site online or offline; the
\* commit looks at the configuration again.
RunTask(w, online) ==
  /\ w \in workers /\ w.pc = "run"
  /\ w.type # "probe" => online = site[w.site].online
  /\ site' = IF site[w.site].config = w.config THEN [site EXCEPT ![w.site].online = online] ELSE site
  /\ diagnostics' = IF w.type = "probe" /\ w.before /\ ~site'[w.site].online /\ w.of = starts /\ dispatcher.live
                    THEN diagnostics \cup {<<w.type, w.site, w.slot>>} ELSE diagnostics
  /\ workers' = (workers \ {w}) \cup {[w EXCEPT !.pc = "done"]}
  /\ UNCHANGED <<now, limit, starts, last, dispatcher, accepted>>
\* Mutant: a worker of a stopped dispatcher completes in the next one.
OwnDispatcherAny(w) == dispatcher.live
\* A worker completes in the dispatcher that started it.
OwnDispatcher(w) == dispatcher.live /\ w.of = starts
Released(w) ==
  [dispatcher EXCEPT !.running = @ \ {Key(w)}, !.sites = @ \ {w.site},
                     !.active[w.type] = IF @ > 0 THEN @ - 1 ELSE 0]
complete(w) ==
  /\ w \in workers /\ w.pc \in {"done", "canceled"}
  /\ LET r == StartReady(Released(w), {})
     IN  IF OwnDispatcher(w)
         THEN dispatcher' = r.dispatcher /\ workers' = (workers \ {w}) \cup Workers(r.begun)
         ELSE dispatcher' = dispatcher /\ workers' = workers \ {w}
  /\ UNCHANGED <<now, site, limit, starts, last, diagnostics, accepted>>

----------------------------------------------------------------------------
Tick == /\ now < MaxTime /\ now' = now + 1
        /\ UNCHANGED <<site, limit, starts, last, dispatcher, workers, diagnostics, accepted>>
Fence(s) == /\ site[s].config < MaxConfig /\ site' = [site EXCEPT ![s].config = @ + 1]
            /\ UNCHANGED <<now, limit, starts, last, dispatcher, workers, diagnostics, accepted>>
SetLimit(ty, n) == /\ n # limit[ty] /\ limit' = [limit EXCEPT ![ty] = n]
                   /\ UNCHANGED <<now, site, starts, last, dispatcher, workers, diagnostics, accepted>>
Next ==
  \/ Startup \/ runOnce \/ Shutdown \/ Tick
  \/ \E s \in Sites : Fence(s)
  \/ \E ty \in Types, n \in Limits : SetLimit(ty, n)
  \/ \E w \in workers : BeginTask(w) \/ (\E online \in BOOLEAN : RunTask(w, online)) \/ complete(w)
Spec == Init /\ [][Next]_vars
\* A worker goes on: its requests have timeouts.
WorkerStep(k, n) ==
  \E w \in workers : /\ Key(w) = k /\ w.of = n
                     /\ BeginTask(w) \/ (\E online \in BOOLEAN : RunTask(w, online)) \/ complete(w)
FairSpec == Spec /\ \A k \in Keys, n \in 1..MaxStarts : WF_vars(WorkerStep(k, n))

----------------------------------------------------------------------------
Own == {w \in workers : dispatcher.live /\ w.of = starts}
Pending == {dispatcher.pending[i] : i \in DOMAIN dispatcher.pending}

\* The maps, the queue and the workers of the dispatcher have their declared shape.
TypeOK ==
  /\ Len(dispatcher.pending) <= Capacity
  /\ dispatcher.active \in [Types -> Nat] /\ dispatcher.sites \subseteq Sites
  /\ last \in [Keys -> 0..MaxTime]

\* The four maps of the dispatcher agree with its queue and its workers,
\* however completions, plans, stops and starts interleave: no key is left
\* queued, no site left busy and no slot of a type is lost.
Bookkeeping ==
  /\ dispatcher.queued = {Key(t) : t \in Pending}
  /\ dispatcher.running = {Key(w) : w \in Own}
  /\ dispatcher.sites = {w.site : w \in Own}
  /\ \A ty \in Types : dispatcher.active[ty] = Cardinality({w \in Own : w.type = ty})
  /\ dispatcher.queued \cap dispatcher.running = {}

\* Two tasks of one dispatcher never work on the same site at a time.
OnePerSite == \A v, w \in Own : v.site = w.site => v = w

\* A queued task waits for its site or for a free slot of its type, and for
\* nothing else.
NoIdle ==
  \A i \in DOMAIN dispatcher.pending :
    \/ dispatcher.pending[i].site \in dispatcher.sites
    \/ dispatcher.active[dispatcher.pending[i].type] >= dispatcher.limits[dispatcher.pending[i].type]

\* A task is queued once in a slot, though the scheduler looks several times
\* in it; a start queues it once more.
OncePerSlot == \A n \in DOMAIN accepted : accepted[n] <= 1

\* A queued task leaves the queue, though the limit of its type is raised or
\* lowered by a plan that queues nothing and starts nothing.
QueueMoves == \A k \in Keys : k \in dispatcher.queued ~> k \notin dispatcher.queued
=============================================================================
