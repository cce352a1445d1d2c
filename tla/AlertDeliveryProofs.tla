------------------------- MODULE AlertDeliveryProofs -------------------------
(***************************************************************************)
(* Theorems about the outbox of alert messages, for any number of events,   *)
(* test requests, attempts, changes of the settings and crashes.            *)
(***************************************************************************)
EXTENDS AlertDelivery, TLAPS

\* What an actor keeps: the row of its claim, the attempt it claimed, the result it saw.
ActorState == [pc : {"idle", "prepared", "swept", "enqueued", "claimed", "sent"}, preflight : Setting,
               d : Delivery \cup {Idle.d}, attempt : 0 .. MaxAttempts,
               result : {"none", "success", "retryable", "rejected"}]

\* The shape of all variables.
Types ==
    /\ row \in [Delivery -> RowState]
    /\ phase \in [Event -> {"pending", "firing", "resolved"}]
    /\ setting \in Setting
    /\ actor \in [Actor -> ActorState]
    /\ up \in BOOLEAN
    /\ accepted \subseteq Delivery
    /\ sure \in [Delivery -> Nat]

\* The rows of an event are rows, and no test's.
LEMMA EventRows ==
    ASSUME NEW e \in Event, NEW to \in {"firing", "resolved"}
    PROVE  /\ <<e, to>> \in Delivery /\ <<e, to>> \notin TestIds \X {"test"}
           /\ <<e, to>>[1] = e /\ <<e, to>>[2] = to
  BY DEF Delivery

\* A row as it is inserted or left by a completion, and an actor at rest, have their shape.
LEMMA Shapes ==
    /\ NoRow \in RowState
    /\ \A status \in {"none", "pending", "success", "failed"}, n \in 0 .. MaxAttempts :
         [NoRow EXCEPT !.status = status, !.attempts = n] \in RowState
    /\ [NoRow EXCEPT !.status = "pending", !.due = TRUE] \in RowState
    /\ Idle \in ActorState
PROOF
  <1>1. 0 \in 0 .. MaxAttempts
    BY MaxAttemptsAssumption
  <1>2. QED
    BY <1>1 DEF NoRow, RowState, Idle, ActorState, Setting, Actor

\* Everything starts in shape.
LEMMA TypesInit == Init => Types
PROOF
  <1> SUFFICES ASSUME Init PROVE Types
    OBVIOUS
  <1>1. row \in [Delivery -> RowState] /\ actor \in [Actor -> ActorState]
    BY Shapes DEF Init
  <1>2. phase \in [Event -> {"pending", "firing", "resolved"}] /\ setting \in Setting /\ up \in BOOLEAN
    BY DEF Init
  <1>3. accepted \subseteq Delivery /\ sure \in [Delivery -> Nat]
    BY DEF Init
  <1>4. QED
    BY <1>1, <1>2, <1>3 DEF Types

-----------------------------------------------------------------------------
(* What each step does to a row and to the actors.                          *)

\* A row nobody has settled yet is inserted.
Inserted(d) ==
    /\ row[d].status = "none" /\ row'[d].status = "pending" /\ row'[d].token = "null"
    /\ row'[d] \in RowState

\* A row is the same but for the time it waits for.
Waits(d) ==
    /\ row'[d].status = row[d].status /\ row'[d].token = row[d].token /\ row'[d].attempts = row[d].attempts
    /\ row'[d] \in RowState

\* A pending row is settled.
Settled(d) ==
    /\ Pending(d) /\ row'[d].status \in {"success", "failed"} /\ row'[d].token = "null"
    /\ row'[d] \in RowState

\* A claim ends without a result, and the row waits for its next attempt.
Released(d) ==
    /\ Pending(d) /\ Pending(d)' /\ row'[d].token = "null" /\ sure[d] = 0
    /\ row'[d] \in RowState

\* Enqueue inserts one row, if there is none.
LEMMA EnqueueRow ==
    ASSUME Types, NEW d \in Delivery, row' = Enqueue(row, d)
    PROVE  /\ row' \in [Delivery -> RowState]
           /\ \A c \in Delivery : row'[c] = row[c] \/ (c = d /\ Inserted(c))
PROOF
  <1>1. row \in [Delivery -> RowState]
    BY DEF Types
  <1> DEFINE new == [NoRow EXCEPT !.status = "pending", !.due = TRUE]
  <1>2. new \in RowState /\ new.status = "pending" /\ new.token = "null"
    BY Shapes DEF NoRow
  <1>3. row' = IF row[d].status = "none" THEN [row EXCEPT ![d] = new] ELSE row
    BY DEF Enqueue
  <1> HIDE DEF new
  <1>4. QED
    BY <1>1, <1>2, <1>3 DEF Inserted

\* A failed row keeps its attempts.
LEMMA FailedRow ==
    ASSUME Types, NEW d \in Delivery
    PROVE  Failed(d) \in RowState /\ Failed(d).status = "failed" /\ Failed(d).token = "null"
PROOF
  <1>1. row[d].attempts \in 0 .. MaxAttempts
    BY DEF Types, RowState
  <1>2. QED
    BY <1>1, Shapes DEF Failed, NoRow

\* A sweep settles pending rows, and the runner's loop only ones without a claim.
LEMMA SweepRows ==
    ASSUME Types, row' = DisablePending \/ row' = FailExhaustedLeases(row)
    PROVE  /\ row' \in [Delivery -> RowState]
           /\ \A d \in Delivery : row'[d] = row[d] \/ Settled(d)
PROOF
  <1>1. row \in [Delivery -> RowState]
    BY DEF Types
  <1>2. \A d \in Delivery : Failed(d) \in RowState /\ Failed(d).status = "failed" /\ Failed(d).token = "null"
    BY FailedRow
  <1>3. \A d \in Delivery : row'[d] = row[d] \/ (Pending(d) /\ row'[d] = Failed(d))
    BY DEF DisablePending, FailExhaustedLeases
  <1>4. row' = [d \in Delivery |-> row'[d]]
    BY DEF DisablePending, FailExhaustedLeases
  <1>5. QED
    BY <1>1, <1>2, <1>3, <1>4 DEF Settled

\* A row is claimed by a.
ClaimedBy(a, d) ==
    /\ Pending(d) /\ row'[d] \in RowState /\ Pending(d)' /\ row'[d].token = a
    /\ actor'[a] \in ActorState /\ actor'[a].pc = "claimed" /\ actor'[a].d = d
    /\ actor'[a].attempt = row'[d].attempts
    /\ \A c \in Delivery \ {d} : row'[c] = row[c] /\ sure'[c] = sure[c]
    /\ \A b \in Actor \ {a} : actor'[b] = actor[b]
    /\ sure'[d] = 0 \/ (row[d].token = "null" /\ sure'[d] = sure[d])

\* claim on a row its WHERE admits.  A lease is taken over only when it has expired.
LEMMA ClaimRow ==
    ASSUME Types, NEW a \in Actor, NEW d \in Delivery, NEW expired, Claimable(d, expired), expired => ~row[d].fresh,
           claim(a, d)
    PROVE  /\ ClaimedBy(a, d)
           /\ row' \in [Delivery -> RowState] /\ actor' \in [Actor -> ActorState] /\ sure' \in [Delivery -> Nat]
           /\ row[d].token # "null" => expired
           /\ d[2] = "resolved" => ~Pending(<<d[1], "firing">>)
PROOF
  <1> DEFINE new == [status |-> "pending", attempts |-> AttemptOf(d), token |-> a, fresh |-> TRUE, due |-> FALSE]
             busy == [actor[a] EXCEPT !.pc = "claimed", !.d = d, !.attempt = AttemptOf(d)]
  <1>1. /\ row \in [Delivery -> RowState] /\ row[d] \in RowState /\ actor \in [Actor -> ActorState]
        /\ actor[a] \in ActorState /\ sure \in [Delivery -> Nat]
    BY DEF Types
  <1>2. AttemptOf(d) \in 0 .. MaxAttempts
    BY <1>1, MaxAttemptsAssumption DEF AttemptOf, Claimable, RowState
  <1>3. /\ row' = [row EXCEPT ![d] = new] /\ actor' = [actor EXCEPT ![a] = busy]
        /\ sure' = IF row[d].token # "null" /\ ~row[d].fresh THEN [sure EXCEPT ![d] = 0] ELSE sure
    BY DEF claim
  <1>4. new \in RowState /\ new.status = "pending" /\ new.token = a /\ new.attempts = AttemptOf(d)
    BY <1>2 DEF RowState
  <1>5. busy \in ActorState /\ busy.pc = "claimed" /\ busy.d = d /\ busy.attempt = AttemptOf(d)
    BY <1>1, <1>2 DEF ActorState
  <1>6. row[d].token # "null" => expired /\ ~row[d].fresh
    BY DEF Claimable
  <1>7. Pending(d) /\ (d[2] = "resolved" => ~Pending(<<d[1], "firing">>))
    BY DEF Claimable
  <1> HIDE DEF new, busy
  <1>8. row'[d] = new /\ actor'[a] = busy
    BY <1>1, <1>3
  <1>9. sure' \in [Delivery -> Nat] /\ (sure'[d] = 0 \/ (row[d].token = "null" /\ sure'[d] = sure[d]))
        /\ \A c \in Delivery \ {d} : sure'[c] = sure[c]
    BY <1>1, <1>3, <1>6
  <1>10. ClaimedBy(a, d)
    BY <1>1, <1>3, <1>4, <1>5, <1>7, <1>8, <1>9 DEF ClaimedBy, Pending
  <1>11. QED
    BY <1>1, <1>3, <1>4, <1>5, <1>6, <1>7, <1>9, <1>10

-----------------------------------------------------------------------------
(* The inductive invariant.                                                 *)

\* A crash leaves no actor behind, a claim is one of a row, and a Test request claims only
\* the row it has inserted.
ActorsFit ==
    /\ ~up => \A a \in Actor : actor[a].pc = "idle"
    /\ actor["run"].pc # "enqueued"
    /\ actor["run"].pc \in {"claimed", "sent"} => actor["run"].d \in Delivery
    /\ actor["test"].pc \in {"enqueued", "claimed", "sent"} => actor["test"].d \in TestIds \X {"test"}

\* A message of an event is inserted by its transition, before it can be received.
RowsFit ==
    /\ \A e \in Event : /\ row[<<e, "firing">>].status # "none" => phase[e] # "pending"
                        /\ row[<<e, "resolved">>].status # "none" => phase[e] = "resolved"
    /\ \A e \in Event : <<e, "resolved">> \in accepted => row[<<e, "resolved">>].status # "none"
    /\ \A d \in Delivery : row[d].status = "none" => row[d].token = "null"

\* The recovery is claimed, and so received, only after the firing is settled.
RecoveryWaits ==
    \A e \in Event :
        (\/ <<e, "resolved">> \in accepted
         \/ actor["run"].pc \in {"claimed", "sent"} /\ actor["run"].d = <<e, "resolved">>)
        => ~Pending(<<e, "firing">>)

\* A message that was reported as received is not sent under the same claim again, and
\* not under a claim that follows without a lease having expired.
SentOnce ==
    \A d \in Delivery :
        /\ sure[d] \in {0, 1}
        /\ row[d].status = "none" \/ (Pending(d) /\ row[d].token = "null") => sure[d] = 0
        /\ \A a \in Actor : (/\ actor[a].d = d /\ row[d].token = a
                             /\ \/ actor[a].pc = "claimed"
                                \/ actor[a].pc = "sent" /\ actor[a].result # "success") => sure[d] = 0

\* The inductive invariant.
Inv == Types /\ ActorsFit /\ RowsFit /\ RunnerKeepsItsClaim /\ RecoveryWaits /\ SentOnce

\* Nothing is claimed or received at the start.
LEMMA InvInit == Init => Inv
PROOF
  <1> SUFFICES ASSUME Init PROVE Inv
    OBVIOUS
  <1>1. Types
    BY TypesInit
  <1>2. /\ \A d \in Delivery : row[d].status = "none" /\ row[d].token = "null" /\ sure[d] = 0
        /\ \A a \in Actor : actor[a].pc = "idle"
        /\ accepted = {} /\ up
    BY DEF Init, NoRow, Idle
  <1>3. \A e \in Event : <<e, "firing">> \in Delivery /\ <<e, "resolved">> \in Delivery
    BY EventRows
  <1>4. QED
    BY <1>1, <1>2, <1>3 DEF Inv, ActorsFit, RowsFit, RunnerKeepsItsClaim, RecoveryWaits, SentOnce, Pending, Actor

-----------------------------------------------------------------------------
(* Steps.                                                                   *)

\* Time passes for a row, or nothing changes that the invariant is about.
LEMMA WaitStep ==
    ASSUME Inv, UNCHANGED <<phase, actor, up, accepted, sure>>, setting' \in Setting,
           row' \in [Delivery -> RowState],
           \A d \in Delivery : row'[d] = row[d] \/ Waits(d)
    PROVE  Inv'
PROOF
  <1>1. \A d \in Delivery : /\ row'[d].status = row[d].status /\ row'[d].token = row[d].token
                            /\ row'[d].attempts = row[d].attempts
    BY DEF Waits
  <1>2. Types' /\ ActorsFit'
    BY DEF Inv, Types, ActorsFit
  <1>3. \A e \in Event : <<e, "firing">> \in Delivery /\ <<e, "resolved">> \in Delivery
    BY EventRows
  <1>4. accepted \subseteq Delivery
    BY DEF Inv, Types
  <1>5. RowsFit'
    BY <1>1, <1>3, <1>4 DEF Inv, RowsFit
  <1>6. RunnerKeepsItsClaim' /\ RecoveryWaits'
    BY <1>1, <1>3 DEF Inv, ActorsFit, RunnerKeepsItsClaim, HoldsClaim, RecoveryWaits, Pending
  <1>7. SentOnce'
    BY <1>1 DEF Inv, SentOnce, Pending
  <1>8. QED
    BY <1>2, <1>5, <1>6, <1>7 DEF Inv

\* A transition of an event inserts its message, if there is none and the channel is on.
LEMMA TransitionStep ==
    ASSUME Inv, NEW e \in Event, NEW to \in {"firing", "resolved"}, enqueueAlertTransition(e, to)
    PROVE  Inv'
PROOF
  <1>1. /\ \A c \in Event : <<c, "firing">> \in Delivery /\ <<c, "resolved">> \in Delivery
        /\ \A c \in Event : <<c, "firing">> # <<e, "resolved">> /\ <<c, "resolved">> # <<e, "firing">>
        /\ \A c \in Event \ {e} : <<c, "firing">> # <<e, to>> /\ <<c, "resolved">> # <<e, to>>
        /\ <<e, to>> \in Delivery
    BY EventRows
  <1>2. /\ phase' = [phase EXCEPT ![e] = to] /\ UNCHANGED <<setting, actor, up, accepted, sure>>
        /\ (phase[e] = "pending" /\ to = "firing") \/ (phase[e] = "firing" /\ to = "resolved")
        /\ row' = row \/ row' = Enqueue(row, <<e, to>>)
    BY DEF enqueueAlertTransition
  <1>3. /\ row' \in [Delivery -> RowState]
        /\ \A d \in Delivery : row'[d] = row[d] \/ (d = <<e, to>> /\ Inserted(d))
    BY <1>1, <1>2, EnqueueRow DEF Inv, Types
  <1>4. /\ phase \in [Event -> {"pending", "firing", "resolved"}] /\ phase'[e] = to
        /\ \A c \in Event \ {e} : phase'[c] = phase[c]
        /\ phase' \in [Event -> {"pending", "firing", "resolved"}]
    BY <1>2 DEF Inv, Types
  <1>5. Types' /\ ActorsFit'
    BY <1>2, <1>3, <1>4 DEF Inv, Types, ActorsFit
  <1>6. RowsFit'
    <2>1. ASSUME NEW c \in Event
          PROVE  /\ row'[<<c, "firing">>].status # "none" => phase'[c] # "pending"
                 /\ row'[<<c, "resolved">>].status # "none" => phase'[c] = "resolved"
      <3>1. CASE c = e
        BY <1>1, <1>2, <1>3, <1>4, <3>1 DEF Inv, RowsFit
      <3>2. CASE c # e
        BY <1>1, <1>3, <1>4, <3>2 DEF Inv, RowsFit
      <3>3. QED
        BY <3>1, <3>2
    <2>2. \A c \in Event : <<c, "resolved">> \in accepted' => row'[<<c, "resolved">>].status # "none"
      BY <1>1, <1>2, <1>3 DEF Inv, RowsFit, Inserted
    <2>3. \A d \in Delivery : row'[d].status = "none" => row'[d].token = "null"
      BY <1>3 DEF Inv, RowsFit, Inserted
    <2>4. QED
      BY <2>1, <2>2, <2>3 DEF RowsFit
  <1>7. RunnerKeepsItsClaim'
    BY <1>2, <1>3 DEF Inv, ActorsFit, RunnerKeepsItsClaim, HoldsClaim, Pending, Inserted
  <1>8. RecoveryWaits'
    <2>1. ASSUME NEW c \in Event,
                 \/ <<c, "resolved">> \in accepted
                 \/ actor["run"].pc \in {"claimed", "sent"} /\ actor["run"].d = <<c, "resolved">>
          PROVE  ~Pending(<<c, "firing">>)'
      <3>1. ~Pending(<<c, "firing">>)
        BY <2>1 DEF Inv, RecoveryWaits
      <3>2. row[<<c, "resolved">>].status # "none"
        BY <2>1 DEF Inv, RowsFit, RunnerKeepsItsClaim, HoldsClaim, Pending
      <3>3. phase[c] = "resolved"
        BY <3>2 DEF Inv, RowsFit
      <3>4. <<c, "firing">> # <<e, to>>
        BY <1>1, <1>2, <3>3
      <3>5. QED
        BY <1>1, <1>3, <3>1, <3>4 DEF Pending
    <2>2. QED
      BY <1>2, <2>1 DEF RecoveryWaits
  <1>9. SentOnce'
    BY <1>2, <1>3 DEF Inv, SentOnce, Pending, Inserted, Actor, RowsFit
  <1>10. QED
    BY <1>5, <1>6, <1>7, <1>8, <1>9 DEF Inv

\* Rows are inserted, settled or released, none of them the runner's, and actors move on
\* without a claim.
LEMMA QuietStep ==
    ASSUME Inv, UNCHANGED <<phase, setting, accepted, sure>>, up' \in BOOLEAN,
           row' \in [Delivery -> RowState], actor' \in [Actor -> ActorState], ActorsFit',
           \A d \in Delivery : \/ row'[d] = row[d] \/ Settled(d) \/ Released(d)
                               \/ d \in TestIds \X {"test"} /\ Inserted(d),
           \A a \in Actor : actor'[a] = actor[a] \/ actor'[a].pc \notin {"claimed", "sent"},
           actor'["run"].pc \in {"claimed", "sent"} => row'[actor["run"].d] = row[actor["run"].d]
    PROVE  Inv'
PROOF
  <1>1. Types'
    BY DEF Inv, Types
  <1>2. /\ \A e \in Event : <<e, "firing">> \in Delivery /\ <<e, "resolved">> \in Delivery
        /\ \A e \in Event : <<e, "firing">> \notin TestIds \X {"test"} /\ <<e, "resolved">> \notin TestIds \X {"test"}
        /\ "run" \in Actor /\ accepted \subseteq Delivery
    BY EventRows DEF Actor, Inv, Types
  <1>3. \A d \in Delivery : /\ row[d].status # "none" => row'[d].status # "none"
                            /\ row'[d].status = "none" => row'[d] = row[d]
    BY DEF Settled, Inserted, Released, Pending
  <1>4. \A e \in Event : /\ row'[<<e, "firing">>].status # "none" => row[<<e, "firing">>].status # "none"
                         /\ row'[<<e, "resolved">>].status # "none" => row[<<e, "resolved">>].status # "none"
                         /\ Pending(<<e, "firing">>)' => Pending(<<e, "firing">>)
    BY <1>2 DEF Settled, Released, Pending
  <1>5. RowsFit'
    BY <1>2, <1>3, <1>4 DEF Inv, RowsFit
  <1>6. RunnerKeepsItsClaim'
    <2>1. SUFFICES ASSUME actor'["run"].pc \in {"claimed", "sent"} PROVE HoldsClaim("run")'
      BY DEF RunnerKeepsItsClaim
    <2>2. actor'["run"] = actor["run"] /\ HoldsClaim("run") /\ actor["run"].d \in Delivery
      BY <1>2, <2>1 DEF Inv, RunnerKeepsItsClaim, ActorsFit
    <2>3. row'[actor["run"].d] = row[actor["run"].d]
      BY <2>1
    <2>4. QED
      BY <2>2, <2>3 DEF HoldsClaim, Pending
  <1>7. RecoveryWaits'
    BY <1>2, <1>4 DEF Inv, RecoveryWaits
  <1>8. SentOnce'
    <2>1. ASSUME NEW d \in Delivery
          PROVE  /\ sure[d] \in {0, 1}
                 /\ row'[d].status = "none" \/ (Pending(d)' /\ row'[d].token = "null") => sure[d] = 0
      BY DEF Inv, SentOnce, Settled, Inserted, Released, Pending
    <2>2. ASSUME NEW d \in Delivery, NEW a \in Actor, actor'[a].d = d, row'[d].token = a,
                 actor'[a].pc = "claimed" \/ (actor'[a].pc = "sent" /\ actor'[a].result # "success")
          PROVE  sure[d] = 0
      <3>1. actor'[a] = actor[a] /\ row'[d] = row[d]
        BY <2>2 DEF Settled, Inserted, Released, Actor
      <3>2. QED
        BY <2>2, <3>1 DEF Inv, SentOnce
    <2>3. QED
      BY <2>1, <2>2 DEF SentOnce
  <1>9. QED
    BY <1>1, <1>5, <1>6, <1>7, <1>8 DEF Inv

\* An actor that moves on, on its way to a claim or back to rest.
LEMMA ActorMoves ==
    ASSUME Inv, NEW a \in Actor, NEW x \in ActorState, actor' = [actor EXCEPT ![a] = x]
    PROVE  /\ actor' \in [Actor -> ActorState] /\ actor'[a] = x
           /\ \A b \in Actor \ {a} : actor'[b] = actor[b]
  BY DEF Inv, Types

\* A round begins, or a Test request comes in.
LEMMA PrepareStep == ASSUME Inv, NEW a \in Actor, prepare(a) PROVE Inv'
PROOF
  <1> DEFINE x == [Idle EXCEPT !.pc = "prepared", !.preflight = setting]
  <1>1. x \in ActorState /\ x.pc = "prepared"
    BY Shapes DEF ActorState, Inv, Types
  <1>2. actor' = [actor EXCEPT ![a] = x] /\ UNCHANGED <<row, phase, setting, up, accepted, sure>> /\ up
    BY DEF prepare
  <1> HIDE DEF x
  <1>3. /\ actor' \in [Actor -> ActorState] /\ actor'[a] = x
        /\ \A b \in Actor \ {a} : actor'[b] = actor[b]
    BY <1>1, <1>2, ActorMoves
  <1>4. ActorsFit'
    BY <1>1, <1>2, <1>3 DEF Inv, ActorsFit, Actor
  <1>5. row' \in [Delivery -> RowState] /\ up' \in BOOLEAN /\ row' = row
    BY <1>2 DEF Inv, Types
  <1>6. \A b \in Actor : actor'[b] = actor[b] \/ actor'[b].pc \notin {"claimed", "sent"}
    BY <1>1, <1>3
  <1>7. QED
    BY <1>2, <1>3, <1>4, <1>5, <1>6, QuietStep

\* The start of a round of the loop: it holds no claim then.
LEMMA SweepStep == ASSUME Inv, SweepQueue PROVE Inv'
PROOF
  <1>1. /\ "run" \in Actor /\ actor["run"] \in ActorState /\ up /\ actor["run"].pc = "prepared"
        /\ UNCHANGED <<phase, setting, up, accepted, sure>>
    BY DEF SweepQueue, Inv, Types, Actor
  <1>2. row' \in [Delivery -> RowState] /\ \A d \in Delivery : row'[d] = row[d] \/ Settled(d)
    BY SweepRows DEF SweepQueue, Inv
  <1>3. \E x \in ActorState : x.pc \in {"idle", "swept"} /\ actor' = [actor EXCEPT !["run"] = x]
    <2>1. CASE actor' = [actor EXCEPT !["run"] = Idle]
      BY <2>1, Shapes DEF Idle
    <2>2. CASE actor' = [actor EXCEPT !["run"].pc = "swept"]
      <3>1. actor' = [actor EXCEPT !["run"] = [actor["run"] EXCEPT !.pc = "swept"]]
        BY <1>1, <2>2 DEF Inv, Types
      <3>2. [actor["run"] EXCEPT !.pc = "swept"] \in ActorState /\ [actor["run"] EXCEPT !.pc = "swept"].pc = "swept"
        BY <1>1 DEF ActorState
      <3>3. QED
        BY <3>1, <3>2
    <2>3. QED
      BY <2>1, <2>2 DEF SweepQueue
  <1>4. PICK x \in ActorState : x.pc \in {"idle", "swept"} /\ actor' = [actor EXCEPT !["run"] = x]
    BY <1>3
  <1>5. /\ actor' \in [Actor -> ActorState] /\ actor'["run"] = x
        /\ \A b \in Actor \ {"run"} : actor'[b] = actor[b]
    BY <1>1, <1>4, ActorMoves
  <1>6. ActorsFit'
    BY <1>1, <1>4, <1>5 DEF Inv, ActorsFit, Actor
  <1>7. QED
    BY <1>1, <1>2, <1>4, <1>5, <1>6, QuietStep DEF Inv, Types

\* An actor that gives up or has nothing to do is at rest again.
LEMMA RestStep ==
    ASSUME Inv, NEW a \in Actor, actor' = [actor EXCEPT ![a] = Idle],
           UNCHANGED <<row, phase, setting, up, accepted, sure>>
    PROVE  Inv'
PROOF
  <1>1. Idle \in ActorState /\ Idle.pc = "idle"
    BY Shapes DEF Idle
  <1>2. /\ actor' \in [Actor -> ActorState] /\ actor'[a] = Idle
        /\ \A b \in Actor \ {a} : actor'[b] = actor[b]
    BY <1>1, ActorMoves
  <1>3. ActorsFit'
    BY <1>1, <1>2 DEF Inv, ActorsFit, Actor
  <1>4. row' \in [Delivery -> RowState] /\ up' \in BOOLEAN /\ row' = row
    BY DEF Inv, Types
  <1>5. \A b \in Actor : actor'[b] = actor[b] \/ actor'[b].pc \notin {"claimed", "sent"}
    BY <1>1, <1>2
  <1>6. QED
    BY <1>2, <1>3, <1>4, <1>5, QuietStep

\* A Test request inserts its row, or is refused by the preflight.
LEMMA TestEnqueueStep == ASSUME Inv, TestEnqueue PROVE Inv'
PROOF
  <1>1. "test" \in Actor /\ "run" \in Actor /\ UNCHANGED <<phase, setting, up, accepted, sure>> /\ up
    BY DEF TestEnqueue, Actor
  <1>2. CASE actor' = [actor EXCEPT !["test"] = Idle] /\ UNCHANGED row
    BY <1>1, <1>2, RestStep
  <1>3. CASE \E d \in TestIds \X {"test"} :
                /\ row[d].status = "none"
                /\ row' = Enqueue(row, d)
                /\ actor' = [actor EXCEPT !["test"].pc = "enqueued", !["test"].d = d]
    <2>1. PICK d \in TestIds \X {"test"} :
                /\ row[d].status = "none"
                /\ row' = Enqueue(row, d)
                /\ actor' = [actor EXCEPT !["test"].pc = "enqueued", !["test"].d = d]
      BY <1>3
    <2>2. d \in Delivery
      BY DEF Delivery
    <2>3. Types /\ actor["test"] \in ActorState /\ actor \in [Actor -> ActorState]
      BY <1>1 DEF Inv, Types
    <2>4. /\ row' \in [Delivery -> RowState]
          /\ \A c \in Delivery : row'[c] = row[c] \/ (c = d /\ Inserted(c))
      BY <2>1, <2>2, <2>3, EnqueueRow
    <2> DEFINE x == [actor["test"] EXCEPT !.pc = "enqueued", !.d = d]
    <2>5. x \in ActorState /\ x.pc = "enqueued" /\ x.d = d
      BY <2>2, <2>3 DEF ActorState
    <2>6. actor' = [actor EXCEPT !["test"] = x]
      BY <1>1, <2>1, <2>3
    <2> HIDE DEF x
    <2>7. /\ actor' \in [Actor -> ActorState] /\ actor'["test"] = x
          /\ \A b \in Actor \ {"test"} : actor'[b] = actor[b]
      BY <1>1, <2>5, <2>6, ActorMoves
    <2>8. ActorsFit'
      BY <1>1, <2>5, <2>7 DEF Inv, ActorsFit, Actor
    <2>9. actor'["run"].pc \in {"claimed", "sent"} => row'[actor["run"].d] = row[actor["run"].d]
      BY <1>1, <2>1, <2>4, <2>7 DEF Inv, ActorsFit, RunnerKeepsItsClaim, HoldsClaim, Pending
    <2>10. \A b \in Actor : actor'[b] = actor[b] \/ actor'[b].pc \notin {"claimed", "sent"}
      BY <2>5, <2>7
    <2>11. /\ \A c \in Delivery : row'[c] = row[c] \/ (c \in TestIds \X {"test"} /\ Inserted(c))
           /\ up' \in BOOLEAN
      BY <1>1, <2>4 DEF Inv, Types
    <2>12. QED
      BY <1>1, <2>4, <2>7, <2>8, <2>9, <2>10, <2>11, QuietStep
  <1>4. QED
    BY <1>2, <1>3 DEF TestEnqueue

\* A crash leaves the rows as they are.
LEMMA CrashStep == ASSUME Inv, Crash PROVE Inv'
PROOF
  <1>1. /\ actor' = [a \in Actor |-> Idle] /\ up' = FALSE
        /\ UNCHANGED <<row, phase, setting, accepted, sure>>
    BY DEF Crash
  <1>2. Idle \in ActorState /\ Idle.pc = "idle"
    BY Shapes DEF Idle
  <1>3. actor' \in [Actor -> ActorState] /\ \A a \in Actor : actor'[a].pc = "idle"
    BY <1>1, <1>2
  <1>4. ActorsFit'
    BY <1>3 DEF ActorsFit, Actor
  <1>5. row' \in [Delivery -> RowState] /\ up' \in BOOLEAN /\ row' = row
    BY <1>1 DEF Inv, Types
  <1>6. QED
    BY <1>1, <1>3, <1>4, <1>5, QuietStep DEF Actor

\* A restart sweeps the rows, when no actor has a claim.
LEMMA RecoverStep == ASSUME Inv, Recover PROVE Inv'
PROOF
  <1>1. /\ ~up /\ up' = TRUE /\ UNCHANGED <<phase, setting, actor, accepted, sure>>
    BY DEF Recover
  <1>2. row' \in [Delivery -> RowState] /\ \A d \in Delivery : row'[d] = row[d] \/ Settled(d)
    BY SweepRows DEF Recover, Inv
  <1>3. ActorsFit' /\ actor' \in [Actor -> ActorState] /\ actor'["run"].pc = "idle"
    BY <1>1 DEF Inv, Types, ActorsFit, Actor
  <1>4. QED
    BY <1>1, <1>2, <1>3, QuietStep

\* The settings change, or time passes.
LEMMA TimeStep ==
    ASSUME Inv, (\E s \in Setting : ChangeSetting(s)) \/ (\E d \in Delivery : RetryDue(d) \/ LeaseExpires(d))
    PROVE  Inv'
PROOF
  <1>1. row \in [Delivery -> RowState] /\ setting \in Setting
    BY DEF Inv, Types
  <1>2. CASE \E s \in Setting : ChangeSetting(s)
    BY <1>1, <1>2, WaitStep DEF ChangeSetting
  <1>3. ASSUME NEW d \in Delivery, RetryDue(d) \/ LeaseExpires(d) PROVE Inv'
    <2>1. row[d] \in RowState /\ UNCHANGED <<phase, setting, actor, up, accepted, sure>>
      BY <1>1, <1>3 DEF RetryDue, LeaseExpires
    <2>2. \/ row' = [row EXCEPT ![d] = [row[d] EXCEPT !.due = TRUE]]
          \/ row' = [row EXCEPT ![d] = [row[d] EXCEPT !.fresh = FALSE]]
      BY <1>1, <1>3 DEF RetryDue, LeaseExpires
    <2>3. PICK x \in RowState : /\ row' = [row EXCEPT ![d] = x] /\ x.status = row[d].status
                                /\ x.token = row[d].token /\ x.attempts = row[d].attempts
      <3>1. /\ [row[d] EXCEPT !.due = TRUE] \in RowState
            /\ [row[d] EXCEPT !.fresh = FALSE] \in RowState
        BY <2>1 DEF RowState
      <3>2. QED
        BY <2>1, <2>2, <3>1 DEF RowState
    <2>4. row' \in [Delivery -> RowState] /\ \A c \in Delivery : row'[c] = row[c] \/ Waits(c)
      BY <1>1, <2>3 DEF Waits
    <2>5. QED
      BY <1>1, <2>1, <2>4, WaitStep
  <1>4. QED
    BY <1>2, <1>3

\* A row is claimed: by the loop, or by the Test request that inserted it.
LEMMA ClaimStep ==
    ASSUME Inv, NEW a \in Actor, NEW d \in Delivery, ClaimedBy(a, d),
           UNCHANGED <<phase, setting, up, accepted>>, up,
           row' \in [Delivery -> RowState], actor' \in [Actor -> ActorState], sure' \in [Delivery -> Nat],
           a = "test" => d \in TestIds \X {"test"} /\ row[d].token = "null",
           d[2] = "resolved" => ~Pending(<<d[1], "firing">>)
    PROVE  Inv'
PROOF
  <1>1. /\ \A e \in Event : <<e, "firing">> \in Delivery /\ <<e, "resolved">> \in Delivery
        /\ \A e \in Event : <<e, "resolved">>[1] = e /\ <<e, "resolved">>[2] = "resolved"
        /\ "run" \in Actor /\ "test" \in Actor /\ "null" \notin Actor /\ a \in {"run", "test"}
    BY EventRows DEF Actor
  <1>2. Types' /\ ActorsFit'
    BY <1>1 DEF Inv, Types, ActorsFit, ClaimedBy
  <1>3. \A c \in Delivery : (Pending(c)' <=> Pending(c)) /\ (row'[c].status = "none" <=> row[c].status = "none")
    BY DEF ClaimedBy, Pending
  <1>4. RowsFit'
    <2>1. \A c \in Delivery : row'[c].status = "none" => row'[c].token = "null"
      BY DEF Inv, RowsFit, ClaimedBy, Pending
    <2>2. QED
      BY <1>1, <1>3, <2>1 DEF Inv, RowsFit
  <1>5. RunnerKeepsItsClaim'
    <2>1. CASE a = "run"
      BY <2>1 DEF ClaimedBy, RunnerKeepsItsClaim, HoldsClaim, Pending
    <2>2. CASE a = "test"
      <3>1. actor'["run"] = actor["run"]
        BY <1>1, <2>2 DEF ClaimedBy
      <3>2. SUFFICES ASSUME actor["run"].pc \in {"claimed", "sent"} PROVE HoldsClaim("run")'
        BY <3>1 DEF RunnerKeepsItsClaim
      <3>3. HoldsClaim("run") /\ actor["run"].d \in Delivery \ {d}
        BY <2>2, <3>2 DEF Inv, RunnerKeepsItsClaim, ActorsFit, HoldsClaim
      <3>4. row'[actor["run"].d] = row[actor["run"].d]
        BY <3>3 DEF ClaimedBy
      <3>5. QED
        BY <3>1, <3>3, <3>4 DEF HoldsClaim, Pending
    <2>3. QED
      BY <1>1, <2>1, <2>2
  <1>6. RecoveryWaits'
    <2>1. ASSUME NEW e \in Event, actor'["run"].pc \in {"claimed", "sent"}, actor'["run"].d = <<e, "resolved">>
          PROVE  ~Pending(<<e, "firing">>)
      <3>1. CASE a = "run"
        BY <1>1, <2>1, <3>1 DEF ClaimedBy
      <3>2. CASE a = "test"
        BY <1>1, <2>1, <3>2 DEF ClaimedBy, Inv, RecoveryWaits
      <3>3. QED
        BY <1>1, <3>1, <3>2
    <2>2. QED
      BY <1>1, <1>3, <2>1 DEF Inv, RecoveryWaits
  <1>7. SentOnce'
    <2>1. sure'[d] = 0
      BY DEF ClaimedBy, Inv, SentOnce
    <2>2. ASSUME NEW c \in Delivery \ {d}
          PROVE  /\ sure'[c] \in {0, 1}
                 /\ row'[c].status = "none" \/ (Pending(c)' /\ row'[c].token = "null") => sure'[c] = 0
      BY DEF ClaimedBy, Inv, SentOnce, Pending
    <2>3. ASSUME NEW c \in Delivery \ {d}, NEW b \in Actor, actor'[b].d = c, row'[c].token = b,
                 actor'[b].pc = "claimed" \/ (actor'[b].pc = "sent" /\ actor'[b].result # "success")
          PROVE  sure'[c] = 0
      <3>1. b # a
        BY <2>3 DEF ClaimedBy
      <3>2. actor'[b] = actor[b] /\ row'[c] = row[c] /\ sure'[c] = sure[c]
        BY <3>1 DEF ClaimedBy
      <3>3. QED
        BY <2>3, <3>2 DEF Inv, SentOnce
    <2>4. QED
      BY <2>1, <2>2, <2>3 DEF SentOnce
  <1>8. QED
    BY <1>2, <1>4, <1>5, <1>6, <1>7 DEF Inv

\* The loop claims a row, or finds none.
LEMMA ClaimNextStep == ASSUME Inv, ClaimNext PROVE Inv'
PROOF
  <1>1. "run" \in Actor /\ up /\ UNCHANGED <<phase, setting, up, accepted>> /\ Types
    BY DEF ClaimNext, Actor, Inv
  <1>2. CASE actor' = [actor EXCEPT !["run"] = Idle] /\ UNCHANGED <<row, sure>>
    BY <1>1, <1>2, RestStep
  <1>3. ASSUME NEW d \in Delivery, Claimable(d, ~row[d].fresh), claim("run", d) PROVE Inv'
    <2>1. /\ ClaimedBy("run", d)
          /\ row' \in [Delivery -> RowState] /\ actor' \in [Actor -> ActorState] /\ sure' \in [Delivery -> Nat]
          /\ d[2] = "resolved" => ~Pending(<<d[1], "firing">>)
      BY <1>1, <1>3, ClaimRow
    <2>2. QED
      BY <1>1, <2>1, ClaimStep
  <1>4. QED
    BY <1>2, <1>3 DEF ClaimNext

\* A Test request claims its row, or finds it gone.
LEMMA ClaimByIDStep == ASSUME Inv, ClaimByID PROVE Inv'
PROOF
  <1> DEFINE d == actor["test"].d
  <1>1. "test" \in Actor /\ up /\ UNCHANGED <<phase, setting, up, accepted>> /\ Types
    BY DEF ClaimByID, Actor, Inv
  <1>2. d \in TestIds \X {"test"} /\ d \in Delivery
    BY DEF ClaimByID, Inv, ActorsFit, Delivery
  <1>3. CASE actor' = [actor EXCEPT !["test"] = Idle] /\ UNCHANGED <<row, sure>>
    BY <1>1, <1>3, RestStep
  <1>4. CASE Claimable(d, FALSE) /\ claim("test", d)
    <2> HIDE DEF d
    <2>1. /\ ClaimedBy("test", d)
          /\ row' \in [Delivery -> RowState] /\ actor' \in [Actor -> ActorState] /\ sure' \in [Delivery -> Nat]
          /\ row[d].token # "null" => FALSE
          /\ d[2] = "resolved" => ~Pending(<<d[1], "firing">>)
      BY <1>1, <1>2, <1>4, ClaimRow
    <2>2. QED
      BY <1>1, <1>2, <2>1, ClaimStep
  <1>5. QED
    BY <1>3, <1>4 DEF ClaimByID

\* The call is made, and its answer seen.
LEMMA SendStep == ASSUME Inv, NEW a \in Actor, send(a) PROVE Inv'
PROOF
  <1> DEFINE d == actor[a].d
  <1>1. /\ \A e \in Event : <<e, "firing">> \in Delivery /\ <<e, "resolved">> \in Delivery
        /\ \A e \in Event : <<e, "resolved">> \notin TestIds \X {"test"}
        /\ "run" \in Actor /\ "test" \in Actor /\ "null" \notin Actor /\ a \in {"run", "test"}
    BY EventRows DEF Actor
  <1>2. /\ actor[a].pc = "claimed" /\ up /\ UNCHANGED <<row, phase, setting, up>>
        /\ actor[a] \in ActorState /\ actor \in [Actor -> ActorState]
    BY DEF send, Inv, Types
  <1>3. d \in Delivery /\ (a = "test" => d \in TestIds \X {"test"})
    BY <1>1, <1>2 DEF Inv, ActorsFit, Delivery
  <1>4. PICK result \in {"success", "retryable", "rejected"} :
          /\ accepted' = accepted \/ accepted' = accepted \cup {d}
          /\ sure' = IF result = "success" /\ row[d].token = a THEN [sure EXCEPT ![d] = @ + 1] ELSE sure
          /\ actor' = [actor EXCEPT ![a].pc = "sent", ![a].result = result]
    BY DEF send
  <1> DEFINE x == [actor[a] EXCEPT !.pc = "sent", !.result = result]
  <1>5. x \in ActorState /\ x.pc = "sent" /\ x.d = d /\ x.attempt = actor[a].attempt /\ x.result = result
    BY <1>2 DEF ActorState
  <1>6. actor' = [actor EXCEPT ![a] = x]
    BY <1>2, <1>4
  <1> HIDE DEF x
  <1>7. /\ actor' \in [Actor -> ActorState] /\ actor'[a] = x
        /\ \A b \in Actor \ {a} : actor'[b] = actor[b]
    BY <1>5, <1>6, ActorMoves
  <1>8. \A b \in Actor : actor'[b].d = actor[b].d /\ actor'[b].attempt = actor[b].attempt
    BY <1>5, <1>7
  <1> HIDE DEF d
  <1>9. /\ sure \in [Delivery -> Nat] /\ (row[d].token = a => sure[d] = 0)
        /\ sure' \in [Delivery -> Nat]
        /\ \A c \in Delivery : sure'[c] = sure[c] \/ (c = d /\ row[d].token = a /\ result = "success" /\ sure'[c] = 1)
    <2>1. sure \in [Delivery -> Nat] /\ (row[d].token = a => sure[d] = 0)
      BY <1>2, <1>3 DEF Inv, Types, SentOnce, d
    <2>2. QED
      BY <1>3, <1>4, <2>1
  <1>10. Types'
    BY <1>2, <1>3, <1>4, <1>7, <1>9 DEF Inv, Types
  <1>11. ActorsFit'
    BY <1>1, <1>2, <1>3, <1>5, <1>7, <1>8 DEF Inv, ActorsFit, d
  <1>12. a = "run" => Pending(d)
    BY <1>2 DEF Inv, RunnerKeepsItsClaim, HoldsClaim, d
  <1>13. RowsFit'
    BY <1>1, <1>2, <1>3, <1>4, <1>12 DEF Inv, RowsFit, Pending
  <1>14. RunnerKeepsItsClaim'
    <2>1. actor'["run"].pc \in {"claimed", "sent"} => actor["run"].pc \in {"claimed", "sent"}
      BY <1>1, <1>2, <1>7
    <2>2. QED
      BY <1>1, <1>2, <1>8, <2>1 DEF Inv, RunnerKeepsItsClaim, HoldsClaim, Pending
  <1>15. RecoveryWaits'
    <2>1. actor'["run"].pc \in {"claimed", "sent"} => actor["run"].pc \in {"claimed", "sent"}
      BY <1>1, <1>2, <1>7
    <2>2. ASSUME NEW e \in Event, d = <<e, "resolved">> PROVE ~Pending(<<e, "firing">>)
      <3>1. a = "run"
        BY <1>1, <1>3, <2>2
      <3>2. QED
        BY <1>2, <2>2, <3>1 DEF Inv, RecoveryWaits, d
    <2>3. QED
      BY <1>1, <1>2, <1>4, <1>8, <2>1, <2>2 DEF Inv, RecoveryWaits, Pending
  <1>16. SentOnce'
    <2>1. ASSUME NEW c \in Delivery
          PROVE  /\ sure'[c] \in {0, 1}
                 /\ row'[c].status = "none" \/ (Pending(c)' /\ row'[c].token = "null") => sure'[c] = 0
      BY <1>1, <1>2, <1>9 DEF Inv, SentOnce, RowsFit, Pending
    <2>2. ASSUME NEW c \in Delivery, NEW b \in Actor, actor'[b].d = c, row'[c].token = b,
                 actor'[b].pc = "claimed" \/ (actor'[b].pc = "sent" /\ actor'[b].result # "success")
          PROVE  sure'[c] = 0
      <3>1. CASE b = a
        <4>1. c = d /\ result # "success"
          BY <1>5, <1>7, <2>2, <3>1
        <4>2. QED
          BY <1>2, <1>9, <2>2, <3>1, <4>1
      <3>2. CASE b # a
        <4>1. actor'[b] = actor[b]
          BY <1>7, <3>2
        <4>2. sure'[c] = sure[c]
          BY <1>2, <1>9, <2>2, <3>2
        <4>3. QED
          BY <1>2, <2>2, <4>1, <4>2 DEF Inv, SentOnce
      <3>3. QED
        BY <3>1, <3>2
    <2>3. QED
      BY <2>1, <2>2 DEF SentOnce
  <1>17. QED
    BY <1>10, <1>11, <1>13, <1>14, <1>15, <1>16 DEF Inv

\* The result is written by the holder of the claim, and by nobody else.
LEMMA CompleteStep == ASSUME Inv, NEW a \in Actor, Complete(a) PROVE Inv'
PROOF
  <1> DEFINE d == actor[a].d
  <1>1. /\ actor[a].pc = "sent" /\ up /\ UNCHANGED <<phase, setting, up, accepted, sure>>
        /\ actor[a] \in ActorState /\ actor' = [actor EXCEPT ![a] = Idle]
    BY DEF Complete, Inv, Types
  <1>2. a \in {"run", "test"} /\ "run" \in Actor
    BY DEF Actor
  <1>3. d \in Delivery /\ row \in [Delivery -> RowState]
    BY <1>1, <1>2 DEF Inv, Types, ActorsFit, Delivery
  <1>4. CASE ~HoldsClaim(a)
    <2>1. row' = row
      BY <1>4 DEF Complete
    <2>2. QED
      BY <1>1, <2>1, RestStep
  <1>5. CASE HoldsClaim(a)
    <2>1. Pending(d) /\ row[d].token = a /\ actor[a].attempt \in 0 .. MaxAttempts
      BY <1>1, <1>5 DEF HoldsClaim, ActorState
    <2>2. PICK status \in {"success", "pending", "failed"} :
            /\ row' = [row EXCEPT ![d] = [NoRow EXCEPT !.status = status, !.attempts = actor[a].attempt]]
            /\ status = "pending" => actor[a].result = "retryable"
      <3> DEFINE result(status) == [row EXCEPT ![d] = [NoRow EXCEPT !.status = status, !.attempts = actor[a].attempt]]
      <3>1. row' = [row EXCEPT ![d] =
                     CASE actor[a].result = "success" -> [NoRow EXCEPT !.status = "success", !.attempts = actor[a].attempt]
                       [] Retries(a) -> [NoRow EXCEPT !.status = "pending", !.attempts = actor[a].attempt]
                       [] OTHER -> [NoRow EXCEPT !.status = "failed", !.attempts = actor[a].attempt]]
        BY <1>5 DEF Complete
      <3>2. CASE actor[a].result = "success"
        <4>1. row' = result("success")
          BY <3>1, <3>2 DEF Retries
        <4>2. QED
          BY <3>2, <4>1
      <3>3. CASE actor[a].result # "success" /\ Retries(a)
        <4>1. row' = result("pending")
          BY <3>1, <3>3
        <4>2. QED
          BY <3>3, <4>1 DEF Retries
      <3>4. CASE actor[a].result # "success" /\ ~Retries(a)
        <4>1. row' = result("failed")
          BY <3>1, <3>4
        <4>2. QED
          BY <4>1
      <3>5. QED
        BY <3>2, <3>3, <3>4
    <2> DEFINE new == [NoRow EXCEPT !.status = status, !.attempts = actor[a].attempt]
    <2>3. new \in RowState /\ new.status = status /\ new.token = "null"
      BY <2>1, Shapes DEF NoRow
    <2>4. status = "pending" => sure[d] = 0
      BY <1>1, <1>3, <2>1, <2>2 DEF Inv, SentOnce
    <2>5. row' = [row EXCEPT ![d] = new]
      BY <2>2
    <2> HIDE DEF new, d
    <2>6. row' \in [Delivery -> RowState] /\ \A c \in Delivery : row'[c] = row[c] \/ Settled(c) \/ Released(c)
      BY <1>3, <2>1, <2>3, <2>4, <2>5 DEF Settled, Released, Pending
    <2>7. Idle \in ActorState /\ Idle.pc = "idle"
      BY Shapes DEF Idle
    <2>8. /\ actor' \in [Actor -> ActorState] /\ actor'[a] = Idle
          /\ \A b \in Actor \ {a} : actor'[b] = actor[b]
      BY <1>1, <2>7, ActorMoves
    <2>9. ActorsFit'
      BY <1>1, <2>7, <2>8 DEF Inv, ActorsFit, Actor
    <2>10. \A b \in Actor : actor'[b] = actor[b] \/ actor'[b].pc \notin {"claimed", "sent"}
      BY <2>7, <2>8
    <2>11. actor'["run"].pc \in {"claimed", "sent"} => row'[actor["run"].d] = row[actor["run"].d]
      <3>1. SUFFICES ASSUME actor'["run"].pc \in {"claimed", "sent"} PROVE row'[actor["run"].d] = row[actor["run"].d]
        OBVIOUS
      <3>2. a = "test" /\ actor'["run"] = actor["run"]
        BY <1>2, <2>7, <2>8, <3>1
      <3>3. actor["run"].d \in Delivery /\ row[actor["run"].d].token = "run"
        BY <3>1, <3>2 DEF Inv, RunnerKeepsItsClaim, ActorsFit, HoldsClaim
      <3>4. QED
        BY <1>3, <2>1, <2>5, <3>2, <3>3
    <2>12. up' \in BOOLEAN
      BY <1>1
    <2>13. QED
      BY <1>1, <2>6, <2>8, <2>9, <2>10, <2>11, <2>12, QuietStep
  <1>6. QED
    BY <1>4, <1>5

\* Every step keeps the invariant.
LEMMA InvStep == Inv /\ [Next]_vars => Inv'
PROOF
  <1> SUFFICES ASSUME Inv, [Next]_vars PROVE Inv'
    OBVIOUS
  <1>1. CASE UNCHANGED vars
    <2>1. /\ UNCHANGED <<phase, actor, up, accepted, sure>> /\ setting' \in Setting
          /\ row' \in [Delivery -> RowState] /\ row' = row
      BY <1>1 DEF vars, Inv, Types
    <2>2. QED
      BY <2>1, WaitStep
  <1>2. CASE \E e \in Event, to \in {"firing", "resolved"} : enqueueAlertTransition(e, to)
    BY <1>2, TransitionStep
  <1>3. CASE (\E s \in Setting : ChangeSetting(s)) \/ (\E d \in Delivery : RetryDue(d) \/ LeaseExpires(d))
    BY <1>3, TimeStep
  <1>4. CASE \E a \in Actor : prepare(a) \/ send(a) \/ Complete(a)
    BY <1>4, PrepareStep, SendStep, CompleteStep
  <1>5. CASE SweepQueue \/ ClaimNext \/ TestEnqueue \/ ClaimByID
    BY <1>5, SweepStep, ClaimNextStep, TestEnqueueStep, ClaimByIDStep
  <1>6. CASE Crash \/ Recover
    BY <1>6, CrashStep, RecoverStep
  <1>7. QED
    BY <1>1, <1>2, <1>3, <1>4, <1>5, <1>6 DEF Next

-----------------------------------------------------------------------------
(* The theorems.                                                            *)

\* The outbox keeps its invariant, however requests, settings, time and crashes interleave.
THEOREM OutboxInvariance == Spec => []Inv
PROOF
  <1>1. QED
    BY InvInit, InvStep, PTL DEF Spec

\* Rows and claims keep their shape, and no row is attempted more than MaxAttempts times.
THEOREM OutboxTypes == Spec => []DeliveryTypeOK
PROOF
  <1>1. Inv => DeliveryTypeOK
    BY DEF Inv, Types, ActorState, DeliveryTypeOK
  <1>2. QED
    BY <1>1, OutboxInvariance, PTL

\* The loop of DingTalkService never loses its claim: Complete of dingtalk.go finds its
\* token unless the process has crashed in between.
THEOREM RunnerKeeps == Spec => []RunnerKeepsItsClaim
PROOF
  <1>1. Inv => RunnerKeepsItsClaim
    BY DEF Inv
  <1>2. QED
    BY <1>1, OutboxInvariance, PTL

\* The receiver never sees a firing after its recovery, and a message twice only when its
\* success was not seen or its claim had expired.
THEOREM MessagesStayInOrder == Spec => []MessagesInOrder
PROOF
  <1>1. Inv => MessagesInOrder
    <2> SUFFICES ASSUME Inv PROVE MessagesInOrder
      OBVIOUS
    <2>1. DuplicatesAreExplained
      BY DEF Inv, SentOnce, DuplicatesAreExplained
    <2>2. ASSUME NEW e \in Event, <<e, "resolved">> \in accepted
          PROVE  ~Pending(<<e, "firing">>) /\ \A a \in Actor : actor[a].pc = "claimed" => actor[a].d # <<e, "firing">>
      <3>1. ~Pending(<<e, "firing">>)
        BY <2>2 DEF Inv, RecoveryWaits
      <3>2. actor["run"].pc = "claimed" => actor["run"].d # <<e, "firing">>
        BY <3>1 DEF Inv, RunnerKeepsItsClaim, HoldsClaim
      <3>3. actor["test"].pc = "claimed" => actor["test"].d # <<e, "firing">>
        BY EventRows DEF Inv, ActorsFit
      <3>4. QED
        BY <3>1, <3>2, <3>3 DEF Actor
    <2>3. QED
      BY <2>1, <2>2 DEF MessagesInOrder, ResolvedIsLast
  <1>2. QED
    BY <1>1, OutboxInvariance, PTL

\* A step changes only rows that are not settled.
LEMMA SettledStep == Inv /\ [Next]_vars => [SettledFrozenStep]_vars
PROOF
  <1> SUFFICES ASSUME Inv, Next, NEW d \in Delivery, row[d].status \in {"success", "failed"}
               PROVE  row'[d] = row[d]
    BY DEF SettledFrozenStep
  <1>1. Types /\ row \in [Delivery -> RowState] /\ ~Pending(d) /\ row[d].status # "none"
    BY DEF Inv, Types, Pending
  <1>2. ASSUME NEW e \in Event, NEW to \in {"firing", "resolved"}, enqueueAlertTransition(e, to)
        PROVE  row'[d] = row[d]
    BY <1>1, <1>2 DEF enqueueAlertTransition, Enqueue
  <1>3. ASSUME NEW c \in Delivery, RetryDue(c) \/ LeaseExpires(c) PROVE row'[d] = row[d]
    <2>1. c # d
      BY <1>1, <1>3 DEF RetryDue, LeaseExpires
    <2>2. QED
      BY <1>1, <1>3, <2>1 DEF RetryDue, LeaseExpires
  <1>4. ASSUME NEW a \in Actor, Complete(a) PROVE row'[d] = row[d]
    <2>1. HoldsClaim(a) => actor[a].d # d
      BY <1>1 DEF HoldsClaim
    <2>2. QED
      BY <1>1, <1>4, <2>1 DEF Complete
  <1>5. CASE SweepQueue \/ Recover
    BY <1>1, <1>5, SweepRows DEF SweepQueue, Recover, Settled
  <1>6. ASSUME NEW a \in Actor, NEW c \in Delivery, Pending(c), claim(a, c) PROVE row'[d] = row[d]
    BY <1>1, <1>6 DEF claim
  <1>7. CASE ClaimNext
    BY <1>6, <1>7 DEF ClaimNext, Claimable, Actor
  <1>8. CASE ClaimByID
    <2>1. actor["test"].d \in Delivery
      BY <1>8 DEF ClaimByID, Inv, ActorsFit, Delivery
    <2>2. QED
      BY <1>6, <1>8, <2>1 DEF ClaimByID, Claimable, Actor
  <1>9. CASE TestEnqueue
    BY <1>1, <1>9 DEF TestEnqueue, Enqueue
  <1>10. CASE (\E s \in Setting : ChangeSetting(s)) \/ (\E a \in Actor : prepare(a) \/ send(a)) \/ Crash
    BY <1>10 DEF ChangeSetting, prepare, send, Crash
  <1>11. QED
    BY <1>2, <1>3, <1>4, <1>5, <1>7, <1>8, <1>9, <1>10 DEF Next

\* A settled row never changes: no late completion, takeover or sweep reopens it.
THEOREM SettledStaysFrozen == Spec => SettledFrozen
PROOF
  <1>1. QED
    BY OutboxInvariance, SettledStep, PTL DEF Spec, SettledFrozen
=============================================================================
