---------------------------- MODULE AlertDelivery ----------------------------
(***************************************************************************)
(* The DingTalk outbox: rows of alert_delivery (model/alert_delivery.go)    *)
(* written by the transaction that changes an alert event, and sent by      *)
(* DingTalkService (service/dingtalk.go).  Two actors claim rows: the loop  *)
(* Run of the alert runtime, and a request to Test the channel.  Every read  *)
(* of the settings, claim, HTTP call and completion is a step of its own.   *)
(* A crash loses the actors and keeps the rows; a restart runs Recover.     *)
(***************************************************************************)
EXTENDS Naturals, FiniteSets

CONSTANTS
    Event,        \* alert events (level warning or critical)
    TestIds,      \* rows a Test request may create
    MaxAttempts,  \* AlertDeliveryMaxAttempts
    MaxToggles,   \* bound: changes of the notification settings
    MaxCrashes    \* bound: crashes

ASSUME MaxAttemptsAssumption == MaxAttempts \in Nat \ {0}
ASSUME DeliveryBoundAssumption == MaxToggles \in Nat /\ MaxCrashes \in Nat

\* A row is identified by the unique key (alert_event_id, event_type, channel); a test
\* row has no event.
Delivery == (Event \X {"firing", "resolved"}) \cup (TestIds \X {"test"})
Actor == {"run", "test"}
Setting == {"ok", "disabled", "broken"}

VARIABLES
    row,       \* alert_delivery, "none" before its insert
    phase,     \* status of the alert event: pending, firing, resolved
    setting,   \* notification.dingtalk.*: usable, disabled, enabled but unusable
    actor,     \* per actor: its program counter and its claim
    up,        \* the process runs
    bounds,    \* toggles and crashes so far
    accepted,  \* history: the messages the remote end has received
    sure       \* history: receipts reported as a success to the holder of the claim

vars == <<row, phase, setting, actor, up, bounds, accepted, sure>>

\* A claim token is fresh for every claim; since an actor holds one claim at a time and a
\* crash ends both actors, the name of the actor tells the live tokens apart.
NoRow == [status |-> "none", attempts |-> 0, token |-> "null", fresh |-> FALSE, due |-> FALSE]
Idle == [pc |-> "idle", preflight |-> "ok", d |-> CHOOSE d \in Delivery : TRUE,
         attempt |-> 0, result |-> "none"]

Init ==
    /\ row = [d \in Delivery |-> NoRow]
    /\ phase = [e \in Event |-> "pending"]
    /\ setting \in Setting
    /\ actor = [a \in Actor |-> Idle]
    /\ up = TRUE
    /\ bounds = [toggles |-> 0, crashes |-> 0]
    /\ accepted = {}
    /\ sure = [d \in Delivery |-> 0]

Pending(d) == row[d].status = "pending"

\* Enqueue: due at once, and nothing when the row exists.
Enqueue(rows, d) ==
    IF rows[d].status = "none"
    THEN [rows EXCEPT ![d] = [NoRow EXCEPT !.status = "pending", !.due = TRUE]]
    ELSE rows

\* enqueueAlertTransition inside the transaction of Evaluate: LockDingTalkEnabled reads
\* the switch only, not whether the channel is usable.
enqueueAlertTransition(e, to) ==
    /\ \/ phase[e] = "pending" /\ to = "firing"
       \/ phase[e] = "firing" /\ to = "resolved"
    /\ phase' = [phase EXCEPT ![e] = to]
    /\ row' = IF setting = "disabled" THEN row ELSE Enqueue(row, <<e, to>>)
    /\ UNCHANGED <<setting, actor, up, bounds, accepted, sure>>

ChangeSetting(s) ==
    /\ bounds.toggles < MaxToggles
    /\ s # setting
    /\ setting' = s
    /\ bounds' = [bounds EXCEPT !.toggles = @ + 1]
    /\ UNCHANGED <<row, phase, actor, up, accepted, sure>>

\* Time: next_retry_at is reached; lease_expires_at passes (a suspended process).
RetryDue(d) ==
    /\ Pending(d) /\ row[d].token = "null" /\ ~row[d].due
    /\ row' = [row EXCEPT ![d].due = TRUE]
    /\ UNCHANGED <<phase, setting, actor, up, bounds, accepted, sure>>

LeaseExpires(d) ==
    /\ Pending(d) /\ row[d].token # "null" /\ row[d].fresh
    /\ row' = [row EXCEPT ![d].fresh = FALSE]
    /\ UNCHANGED <<phase, setting, actor, up, bounds, accepted, sure>>

\* prepare: the preflight result, from one read of the settings.
prepare(a) ==
    /\ up /\ actor[a].pc = "idle"
    /\ a = "run" \/ \E d \in TestIds \X {"test"} : row[d].status = "none"
    /\ actor' = [actor EXCEPT ![a] = [Idle EXCEPT !.pc = "prepared", !.preflight = setting]]
    /\ UNCHANGED <<row, phase, setting, up, bounds, accepted, sure>>

Failed(d) == [NoRow EXCEPT !.status = "failed", !.attempts = row[d].attempts]


\* DisablePending: every pending row, claimed ones too.
DisablePending == [d \in Delivery |-> IF Pending(d) THEN Failed(d) ELSE row[d]]

\* FailExhaustedLeases: unclaimed, due and without attempts left.
FailExhaustedLeases(rows) ==
    [d \in Delivery |->
        IF Pending(d) /\ row[d].token = "null" /\ row[d].due /\ row[d].attempts >= MaxAttempts
        THEN Failed(d) ELSE rows[d]]

\* ProcessNext up to the claim: a disabled channel fails the queue and ends the round.
SweepQueue ==
    /\ up /\ actor["run"].pc = "prepared"
    /\ IF actor["run"].preflight = "disabled"
       THEN /\ row' = DisablePending
            /\ actor' = [actor EXCEPT !["run"] = Idle]
       ELSE /\ row' = FailExhaustedLeases(row)
            /\ actor' = [actor EXCEPT !["run"].pc = "swept"]
    /\ UNCHANGED <<phase, setting, up, bounds, accepted, sure>>

\* Mutant: a resolved row does not wait for its firing row.
ClaimableAnyOrder(d, expired) ==
    /\ Pending(d)
    /\ \/ row[d].token = "null" /\ row[d].attempts < MaxAttempts /\ row[d].due
       \/ row[d].token # "null" /\ row[d].attempts \in 1 .. MaxAttempts /\ expired

\* Mutant: a claimed row is taken before its lease has expired.
ClaimableWithFreshLease(d, expired) ==
    /\ Pending(d)
    /\ row[d].attempts <= MaxAttempts
    /\ row[d].token # "null" \/ row[d].due
    /\ d[2] = "resolved" => ~Pending(<<d[1], "firing">>)

\* The WHERE of claim; expired: the lease ended before the now of the query.
Claimable(d, expired) ==
    /\ Pending(d)
    /\ \/ row[d].token = "null" /\ row[d].attempts < MaxAttempts /\ row[d].due
       \/ row[d].token # "null" /\ row[d].attempts \in 1 .. MaxAttempts /\ expired
    /\ d[2] = "resolved" => ~Pending(<<d[1], "firing">>)


AttemptOf(d) == IF row[d].token = "null" THEN row[d].attempts + 1 ELSE row[d].attempts

\* claim: a new token and lease; the attempt counts unless an expired lease is taken over.
claim(a, d) ==
    LET attempt == AttemptOf(d)
    IN  /\ row' = [row EXCEPT ![d] = [status |-> "pending", attempts |-> attempt,
                                      token |-> a, fresh |-> TRUE, due |-> FALSE]]
        /\ actor' = [actor EXCEPT ![a] = [@ EXCEPT !.pc = "claimed", !.d = d, !.attempt = attempt]]
        /\ sure' = IF row[d].token # "null" /\ ~row[d].fresh THEN [sure EXCEPT ![d] = 0] ELSE sure

\* ClaimNext; the oldest row first, which the model leaves open.
ClaimNext ==
    /\ up /\ actor["run"].pc = "swept"
    /\ \/ \E d \in Delivery : Claimable(d, ~row[d].fresh) /\ claim("run", d)
       \/ /\ \A d \in Delivery : ~Claimable(d, ~row[d].fresh)
          /\ actor' = [actor EXCEPT !["run"] = Idle]
          /\ UNCHANGED <<row, sure>>
    /\ UNCHANGED <<phase, setting, up, bounds, accepted>>

\* Test: a preflight failure is answered at once, otherwise its row is enqueued.
TestEnqueue ==
    /\ up /\ actor["test"].pc = "prepared"
    /\ \/ /\ actor["test"].preflight # "ok"
          /\ actor' = [actor EXCEPT !["test"] = Idle]
          /\ UNCHANGED row
       \/ /\ actor["test"].preflight = "ok"
          /\ \E d \in TestIds \X {"test"} :
                /\ row[d].status = "none"
                /\ row' = Enqueue(row, d)
                /\ actor' = [actor EXCEPT !["test"].pc = "enqueued", !["test"].d = d]
    /\ UNCHANGED <<phase, setting, up, bounds, accepted, sure>>

\* Test claims its own row with the time of its insert: no lease can have expired by
\* then, so it never takes over; the loop may have been faster.
ClaimByID ==
    /\ up /\ actor["test"].pc = "enqueued"
    /\ LET d == actor["test"].d
       IN  \/ Claimable(d, FALSE) /\ claim("test", d)
           \/ /\ ~Claimable(d, FALSE)
              /\ actor' = [actor EXCEPT !["test"] = Idle]
              /\ UNCHANGED <<row, sure>>
    /\ UNCHANGED <<phase, setting, up, bounds, accepted>>

\* send: a network error may hide that the message arrived, and so may an answer that cannot
\* be read, which counts as a rejection.  An unusable channel is a result too, without a call.
send(a) ==
    /\ up /\ actor[a].pc = "claimed"
    /\ LET d == actor[a].d
       IN  \E result \in {"success", "retryable", "rejected"}, arrived \in BOOLEAN :
            /\ actor[a].preflight # "ok" => result = "rejected" /\ ~arrived
            /\ result = "success" => arrived
            /\ accepted' = IF arrived THEN accepted \cup {d} ELSE accepted
            /\ sure' = IF result = "success" /\ row[d].token = a THEN [sure EXCEPT ![d] = @ + 1] ELSE sure
            /\ actor' = [actor EXCEPT ![a].pc = "sent", ![a].result = result]
    /\ UNCHANGED <<row, phase, setting, up, bounds>>

\* Mutant: the completion compares neither the status nor the token.
HoldsByAttempt(a) == row[actor[a].d].attempts = actor[a].attempt

\* The WHERE of Complete.
HoldsClaim(a) ==
    LET d == actor[a].d
    IN  /\ Pending(d)
        /\ row[d].attempts = actor[a].attempt
        /\ row[d].token = a

\* completeAttempt: the attempts are compared with the limit before a retry is planned.
Retries(a) == actor[a].result = "retryable" /\ actor[a].attempt < MaxAttempts

\* Complete: a lost lease changes nothing; it is an error to the caller.
Complete(a) ==
    /\ up /\ actor[a].pc = "sent"
    /\ LET d == actor[a].d
           attempts == actor[a].attempt
       IN  row' = IF ~HoldsClaim(a) THEN row
                  ELSE [row EXCEPT ![d] =
                     CASE actor[a].result = "success" -> [NoRow EXCEPT !.status = "success", !.attempts = attempts]
                       [] Retries(a) -> [NoRow EXCEPT !.status = "pending", !.attempts = attempts]
                       [] OTHER -> [NoRow EXCEPT !.status = "failed", !.attempts = attempts]]
    /\ actor' = [actor EXCEPT ![a] = Idle]
    /\ UNCHANGED <<phase, setting, up, bounds, accepted, sure>>

Crash ==
    /\ up /\ bounds.crashes < MaxCrashes
    /\ up' = FALSE
    /\ bounds' = [bounds EXCEPT !.crashes = @ + 1]
    /\ actor' = [a \in Actor |-> Idle]
    /\ UNCHANGED <<row, phase, setting, accepted, sure>>

\* Recover, before the runtime reports ready; it sends nothing.
Recover ==
    /\ ~up
    /\ up' = TRUE
    /\ row' = IF setting = "disabled" THEN DisablePending ELSE FailExhaustedLeases(row)
    /\ UNCHANGED <<phase, setting, actor, bounds, accepted, sure>>

Next ==
    \/ \E e \in Event, to \in {"firing", "resolved"} : enqueueAlertTransition(e, to)
    \/ \E s \in Setting : ChangeSetting(s)
    \/ \E d \in Delivery : RetryDue(d) \/ LeaseExpires(d)
    \/ \E a \in Actor : prepare(a) \/ send(a) \/ Complete(a)
    \/ SweepQueue \/ ClaimNext \/ TestEnqueue \/ ClaimByID
    \/ Crash \/ Recover

ClaimOf(d) == ClaimNext /\ actor'["run"].pc = "claimed" /\ actor'["run"].d = d

\* The loop goes on while the process runs, a crashed process is started again, an HTTP
\* call ends by its timeout, and time passes.
Fairness ==
    /\ \A a \in Actor : WF_vars(send(a)) /\ WF_vars(Complete(a))
    /\ WF_vars(prepare("run")) /\ WF_vars(SweepQueue) /\ WF_vars(ClaimNext)
    /\ WF_vars(TestEnqueue) /\ WF_vars(ClaimByID) /\ WF_vars(Recover)
    /\ \A d \in Delivery : WF_vars(RetryDue(d)) /\ WF_vars(LeaseExpires(d))
    \* ClaimNext takes the oldest row first, so none waits for ever.
    /\ \A d \in Delivery : SF_vars(ClaimOf(d))

Spec == Init /\ [][Next]_vars /\ Fairness

-----------------------------------------------------------------------------
RowState == [status : {"none", "pending", "success", "failed"}, attempts : 0 .. MaxAttempts,
             token : Actor \cup {"null"}, fresh : BOOLEAN, due : BOOLEAN]

\* Rows and claims keep their shape; an attempt never exceeds AlertDeliveryMaxAttempts.
DeliveryTypeOK ==
    /\ row \in [Delivery -> RowState]
    /\ phase \in [Event -> {"pending", "firing", "resolved"}]
    /\ setting \in Setting
    /\ \A a \in Actor : actor[a].pc \in {"idle", "prepared", "swept", "enqueued", "claimed", "sent"}
    /\ accepted \subseteq Delivery

\* The loop never loses a claim of its own while its process runs, however the settings,
\* a Test request and time interleave: ErrAlertDeliveryLeaseLost, which ends Run and the
\* whole alert runtime, can only answer a Test request.
RunnerKeepsItsClaim ==
    actor["run"].pc \in {"claimed", "sent"} => HoldsClaim("run")

\* The recovery of an event is announced only when nothing of its firing is under way or
\* will be sent again: the receiver never sees "firing" after "resolved".
ResolvedIsLast ==
    \A e \in Event :
        <<e, "resolved">> \in accepted =>
            /\ ~Pending(<<e, "firing">>)
            /\ \A a \in Actor : actor[a].pc = "claimed" => actor[a].d # <<e, "firing">>

\* At-least-once, and no more: a message is received again only after an attempt whose
\* success nobody saw (a network error) or whose claim expired (a crash, a suspension): the
\* holder of a claim never sends what an unexpired claim has sent.
DuplicatesAreExplained ==
    \A d \in Delivery : sure[d] <= 1

\* Both: the receiver sees messages in their order, and no more often than a failure explains.
MessagesInOrder == ResolvedIsLast /\ DuplicatesAreExplained

\* A settled row is final: no late completion, takeover or sweep changes it.
SettledFrozenStep == \A d \in Delivery : row[d].status \in {"success", "failed"} => row'[d] = row[d]

\* The same of every step.
SettledFrozen == [][SettledFrozenStep]_vars

\* Every row is settled in the end, through retries, crashes and takeovers.
EveryDeliverySettles ==
    \A d \in Delivery : Pending(d) ~> row[d].status \in {"success", "failed"}
=============================================================================
