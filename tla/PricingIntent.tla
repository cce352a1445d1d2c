--------------------------- MODULE PricingIntent ---------------------------
(***************************************************************************)
(* The durable intent of an authorization to synchronise the prices.  The  *)
(* transaction that authorizes a site inserts an intent for the site's     *)
(* configuration version and wakes the maintenance runtime, which turns a  *)
(* due intent into a pricing run in one transaction or keeps it for a      *)
(* retry.  The wake is a hint only: the tick finds what a lost one missed. *)
(***************************************************************************)
EXTENDS Integers, FiniteSets

CONSTANTS MaxVersion,  \* configuration versions
          MaxTime,     \* minutes
          MaxFaults,   \* failed transactions
          Concurrent   \* whether a second round may run, as from another process
IntentAssumption == {MaxVersion, MaxTime, MaxFaults} \subseteq Nat /\ Concurrent \in BOOLEAN

VARIABLES now,
          site,     \* [version, priced]: config_version; active, authorized and capable
          intent,   \* version -> [status, next, run]
          wanted,   \* versions authorized while the site could be priced (history)
          runs,     \* the pricing runs: <<version, number>>
          open,     \* the active ones
          wake,     \* the channel of capacity one
          picked,   \* worker -> candidate version read outside the transaction; 0: none
          up, faults
vars == <<now, site, intent, wanted, runs, open, wake, picked, up, faults>>

Versions == 1..MaxVersion
Workers == IF Concurrent THEN {1, 2} ELSE {1}
NoIntent == [status |-> "none", next |-> 0, run |-> 0]

Init ==
  /\ now = 1 /\ site = [version |-> 1, priced |-> FALSE] /\ intent = [v \in Versions |-> NoIntent]
  /\ wanted = {} /\ runs = {} /\ open = {} /\ wake = FALSE /\ picked = [w \in Workers |-> 0] /\ up = TRUE /\ faults = 0

----------------------------------------------------------------------------
\* EnsureAuthorizationPricingIntent: on conflict do nothing.
Ensured(v) ==
  IF intent[v].status = "none" THEN [intent EXCEPT ![v] = [status |-> "pending", next |-> now, run |-> 0]] ELSE intent

\* The fence of a new version cancels the runs of the old one.
Fenced(v) == IF v = site.version THEN open ELSE {}
\* The transaction of an authorization, with a fence or without, and the wake.  A
\* change of what makes the site priced has a fence.
Authorize ==
  \E version \in {site.version, site.version + 1} \cap Versions, priced \in BOOLEAN :
    /\ priced # site.priced => version # site.version
    /\ site' = [version |-> version, priced |-> priced] /\ open' = Fenced(version)
    /\ intent' = (IF priced THEN Ensured(version) ELSE intent)
    /\ wanted' = (IF priced THEN wanted \cup {version} ELSE wanted)
    /\ wake' = TRUE
    /\ UNCHANGED <<now, runs, picked, up, faults>>
\* A disable, an edit of the configuration, an expired token or a failed probe.
Fence ==
  /\ site.version < MaxVersion
  /\ site' = [version |-> site.version + 1, priced |-> FALSE] /\ open' = {}
  /\ UNCHANGED <<now, intent, wanted, runs, wake, picked, up, faults>>

----------------------------------------------------------------------------
Due(v) == intent[v].status \in {"pending", "failed"} /\ intent[v].next <= now
\* The oldest due intent, read before the transaction.
First(v) == Due(v) /\ \A u \in Versions : Due(u) => intent[v].next < intent[u].next \/ (intent[v].next = intent[u].next /\ v <= u)
Pick(w) ==
  /\ up /\ picked[w] = 0 /\ \E v \in Versions : First(v) /\ picked' = [picked EXCEPT ![w] = v]
  /\ wake' = FALSE
  /\ UNCHANGED <<now, site, intent, wanted, runs, open, up, faults>>

Complete(v, run) == [intent EXCEPT ![v] = [status |-> "complete", next |-> 0, run |-> run]]
Fail(v) == [intent EXCEPT ![v] = [status |-> "failed", next |-> now + 1, run |-> 0]]
\* CreateOrGetRun: the active run of the site, which is of this version, or a new one.
Created(v) == IF open # {} THEN CHOOSE r \in open : TRUE ELSE <<v, Cardinality(runs) + 1>>
StillDue(v) == Due(v)
\* Mutant: an intent of an older version is carried out.
CurrentOrOlder(v) == v <= site.version /\ site.priced
\* The version is unchanged and the site eligible; its online status is ignored.
Current(v) == v = site.version /\ site.priced
\* The run cannot be stored: the intent is kept for a retry a minute later.
EnqueueFails(v) == intent' = Fail(v) /\ UNCHANGED <<runs, open>>
Enqueue(v) == intent' = Complete(v, Created(v)[2]) /\ runs' = runs \cup {Created(v)} /\ open' = open \cup {Created(v)}
Process(w) ==
  LET v == picked[w] IN
  /\ up /\ v # 0 /\ picked' = [picked EXCEPT ![w] = 0]
  /\ \/ ~StillDue(v) /\ UNCHANGED <<intent, runs, open, faults>>
     \/ StillDue(v) /\ ~Current(v) /\ intent' = Complete(v, 0) /\ UNCHANGED <<runs, open, faults>>
     \/ StillDue(v) /\ Current(v) /\ Enqueue(v) /\ UNCHANGED faults
     \/ StillDue(v) /\ Current(v) /\ faults < MaxFaults /\ faults' = faults + 1 /\ EnqueueFails(v)
  /\ UNCHANGED <<now, site, wanted, wake, up>>
\* The transaction fails and leaves everything as it was; the round ends.
ProcessFault(w) ==
  /\ up /\ picked[w] # 0 /\ faults < MaxFaults /\ faults' = faults + 1
  /\ picked' = [picked EXCEPT ![w] = 0]
  /\ UNCHANGED <<now, site, intent, wanted, runs, open, wake, up>>

\* The worker finishes a run; 
FinishRun(r) ==
  /\ open' = open \ {r}
  /\ UNCHANGED <<now, site, intent, wanted, runs, wake, picked, up, faults>>
Crash ==
  /\ up /\ faults < MaxFaults /\ faults' = faults + 1
  /\ up' = FALSE /\ wake' = FALSE /\ picked' = [w \in Workers |-> 0]
  /\ UNCHANGED <<now, site, intent, wanted, runs, open>>
\* Startup recovers before it is ready; the tick of every minute does the same.
Boot == ~up /\ up' = TRUE /\ UNCHANGED <<now, site, intent, wanted, runs, open, wake, picked, faults>>
Tick == now < MaxTime /\ now' = now + 1 /\ UNCHANGED <<site, intent, wanted, runs, open, wake, picked, up, faults>>

Next ==
  \/ Authorize \/ Fence \/ Crash \/ Boot \/ Tick
  \/ \E w \in Workers : Pick(w) \/ Process(w) \/ ProcessFault(w)
  \/ \E r \in open : FinishRun(r)
\* The runtime ticks and recovers, its calls have deadlines; the clock runs.
Spec == Init /\ [][Next]_vars /\ WF_vars(Tick) /\ WF_vars(Boot) /\ \A w \in Workers : WF_vars(Pick(w)) /\ WF_vars(Process(w))

----------------------------------------------------------------------------
\* The intents, the runs and the candidates are of their types.
TypeOK ==
  /\ \A v \in Versions : intent[v].status \in {"none", "pending", "failed", "complete"} /\ intent[v].next \in 0..(MaxTime + 1)
  /\ open \subseteq runs /\ \A r \in runs : r[1] \in Versions
  /\ \A w \in Workers : picked[w] \in 0..MaxVersion
\* An intent makes at most one run: an authorization repeated, or two rounds that
\* picked the same intent, create no second one.
OneRunPerIntent == \A r, q \in runs : r[1] = q[1] => r = q
RunOfCurrentVersionStep == \A r \in runs' \ runs : r[1] = site.version /\ site.priced
\* A run is created for the current version of an eligible site only.
RunOfCurrentVersion == [][RunOfCurrentVersionStep]_vars
\* An intent is complete without a run only once its version is past: while the
\* site is still as it was authorized, its prices are asked for.
CompleteIsSettled == \A v \in wanted : intent[v].status = "complete" => intent[v].run # 0 \/ site.version # v
\* A due intent is attempted, whatever happens to wakes and processes.
IntentAttempted == \A v \in Versions : Due(v) ~> ~Due(v)
=============================================================================
