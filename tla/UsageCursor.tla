----------------------------- MODULE UsageCursor -----------------------------
(***************************************************************************)
(* The usage cursor of one site: collection_cursor.last_complete_hour,      *)
(* which model/usage_cursor.go derives from the statuses of the hours       *)
(* (collection_window) whenever model/usage_fact.go changes one of them, and *)
(* from which a periodic probe takes the first hour it recovers.            *)
(*                                                                          *)
(* The transaction that commits a window reads its run first, which fixes   *)
(* its snapshot (MySQL, REPEATABLE READ), and then waits for the row lock of *)
(* the site.  The cursor is computed from that snapshot and the             *)
(* transaction's own write.  Several tasks of a site, and the windows of an  *)
(* initial backfill, commit concurrently.  A probe locks the site first.    *)
(***************************************************************************)
EXTENDS Naturals, FiniteSets, FiniteSetTheorems, WellFoundedInduction, TLAPS

CONSTANTS
    MaxHour,     \* hours 1 .. MaxHour since statistics_start_at
    Concurrency, \* window commits of a site that may be in flight at once
    MaxCommits   \* bound: window commits

ASSUME CursorHourAssumption == MaxHour \in Nat
ASSUME CursorBoundAssumption == Concurrency \in Nat \ {0} /\ MaxCommits \in Nat

Hour == 1 .. MaxHour
WindowStatus == {"absent", "complete", "missing"}

VARIABLES
    status,    \* collection_window.status by hour
    cursor,    \* last_complete_hour, 0 for null
    inflight,  \* hours whose commit transaction is open
    view,      \* the statuses such a transaction sees
    commits,   \* number of commits begun
    collected  \* history: the hours that were complete at some time

vars == <<status, cursor, inflight, view, commits, collected>>

Nothing == [h \in Hour |-> "absent"]

Init ==
    /\ status = Nothing
    /\ cursor = 0
    /\ inflight = {}
    /\ view = [h \in Hour |-> Nothing]
    /\ commits = 0
    /\ collected = {}

\* Mutant: an hour that is missing does not end the loop.
PrefixAcrossGaps(sts) ==
    CHOOSE n \in 0 .. MaxHour :
        /\ n > 0 => sts[n] = "complete"
        /\ \A h \in n + 1 .. MaxHour : sts[h] # "complete"

\* The end of the unbroken complete prefix: the loop of ReconcileUsageCursor.
Prefix(sts) ==
    CHOOSE n \in 0 .. MaxHour :
        /\ \A h \in 1 .. n : sts[h] = "complete"
        /\ n + 1 \in Hour => sts[n + 1] # "complete"


\* The new last_complete_hour: left alone when the first hour is not complete.
ReconcileUsageCursor(sts) == IF Prefix(sts) = 0 THEN cursor ELSE Prefix(sts)

BeginCommit(h) ==
    /\ commits < MaxCommits
    /\ h \notin inflight
    /\ Cardinality(inflight) < Concurrency
    /\ inflight' = inflight \cup {h}
    /\ view' = [view EXCEPT ![h] = status]
    /\ commits' = commits + 1
    /\ UNCHANGED <<status, cursor, collected>>

EndCommit(h) ==
    /\ h \in inflight
    /\ inflight' = inflight \ {h}
    /\ view' = [view EXCEPT ![h] = Nothing]
    /\ UNCHANGED commits

SetStatus(h, st) ==
    /\ status' = [status EXCEPT ![h] = st]
    /\ cursor' = ReconcileUsageCursor([view[h] EXCEPT ![h] = st])

\* NewCompleteUsageWindowMutation
CompleteWindow(h) ==
    /\ EndCommit(h)
    /\ SetStatus(h, "complete")
    /\ collected' = collected \cup {h}

\* NewFailedUsageWindowMutation: a mismatch, or an hour that was not complete, becomes
\* missing; any other failure leaves a complete hour and the cursor alone.
FailWindow(h, mismatch) ==
    /\ EndCommit(h)
    /\ IF ~mismatch /\ status[h] = "complete"
       THEN UNCHANGED <<status, cursor>>
       ELSE SetStatus(h, "missing")
    /\ UNCHANGED collected

\* Mutant: a probe never takes the cursor back.
ProbeForwardOnly ==
    /\ cursor' = IF Prefix(status) > cursor THEN Prefix(status) ELSE cursor
    /\ UNCHANGED <<status, inflight, view, commits, collected>>

\* enqueuePeriodicRecoveryBackfill, up to the range it recovers.
ProbeReconcile ==
    /\ cursor' = ReconcileUsageCursor(status)
    /\ UNCHANGED <<status, inflight, view, commits, collected>>

Next ==
    \/ \E h \in Hour : BeginCommit(h) \/ CompleteWindow(h)
    \/ \E h \in Hour, mismatch \in BOOLEAN : FailWindow(h, mismatch)
    \/ ProbeReconcile

\* Successful periodic probes go on for ever; nothing is assumed of the commits.
Fairness == WF_vars(ProbeReconcile)

Spec == Init /\ [][Next]_vars /\ Fairness

\* verify-restore: the cursor is the last hour of the complete prefix, and null when the
\* first hour is not complete.
verifyCollectionCursors ==
    /\ \A h \in 1 .. cursor : status[h] = "complete"
    /\ cursor + 1 \in Hour => status[cursor + 1] # "complete"

-----------------------------------------------------------------------------
\* Statuses, cursor and transactions have their declared shape.
TypeOK ==
    /\ status \in [Hour -> WindowStatus]
    /\ cursor \in 0 .. MaxHour
    /\ inflight \subseteq Hour
    /\ view \in [Hour -> [Hour -> WindowStatus]]
    /\ commits \in 0 .. MaxCommits
    /\ collected \subseteq Hour

\* The cursor never steps over an hour that was never collected, however the commits of
\* different hours interleave: recovery, which starts after the cursor, loses none of them.
NeverSkipsUncollected == 1 .. cursor \subseteq collected

AtPrefix == Prefix(status) > 0 => cursor = Prefix(status)
\* A cursor that a commit computed from an old snapshot does not last: once commits stop,
\* probes bring it to the complete prefix, provided the first hour is complete.
CursorConverges == <>[]AtPrefix

\* last_complete_hour points at the end of an unbroken run of complete hours from
\* statistics_start_at, and is taken back in the same operation that makes one of them missing.
CursorBehindMissing == \A h \in 1 .. cursor : status[h] = "complete"

\* The same while the first hour is complete, so that the cursor is written by every commit.
CursorBehindLaterMissing == Prefix(status) > 0 => CursorBehindMissing

-----------------------------------------------------------------------------
(***************************************************************************)
(* Theorems, for any number of hours and of concurrent commits.             *)
(***************************************************************************)
\* A set of numbers that is not empty has a least element.
LEMMA Least ==
    ASSUME NEW T \in SUBSET Nat, T # {}
    PROVE  \E n \in T : \A m \in T : n <= m
PROOF
  <1> DEFINE R == OpToRel(<, Nat)
  <1>1. IsWellFoundedOn(R, Nat)
    BY NatLessThanWellFounded
  <1>2. \A x, y \in Nat : x < y => <<x, y>> \in R
    BY DEF OpToRel
  <1> HIDE DEF R
  <1>3. PICK n \in T : \A m \in T : ~(<<m, n>> \in R)
    BY <1>1, WFMin
  <1>4. \A m \in T : ~(m < n)
    BY <1>2, <1>3, Zenon
  <1>5. QED
    BY <1>4

\* The loop of ReconcileUsageCursor ends at an hour, and every hour up to it is complete.
LEMMA PrefixComplete ==
    ASSUME NEW sts \in [Hour -> WindowStatus]
    PROVE  /\ Prefix(sts) \in 0 .. MaxHour
           /\ \A h \in 1 .. Prefix(sts) : h \in Hour /\ sts[h] = "complete"
           /\ Prefix(sts) + 1 \in Hour => sts[Prefix(sts) + 1] # "complete"
PROOF
  <1> DEFINE Ends(n) == n + 1 \in Hour => sts[n + 1] # "complete"
             T == {n \in 0 .. MaxHour : Ends(n)}
  <1>1. MaxHour \in T
    BY CursorHourAssumption DEF Hour
  <1>2. T \in SUBSET Nat
    BY CursorHourAssumption
  <1>3. PICK n \in T : \A m \in T : n <= m
    BY <1>1, <1>2, Least
  <1>4. ASSUME NEW h \in 1 .. n PROVE sts[h] = "complete"
    <2>1. h - 1 \in 0 .. MaxHour /\ h - 1 < n /\ (h - 1) + 1 = h
      BY <1>3, CursorHourAssumption
    <2>2. h - 1 \notin T
      BY <1>2, <1>3, <2>1
    <2>3. QED
      BY <2>1, <2>2
  <1>5. \E m \in 0 .. MaxHour : /\ \A h \in 1 .. m : sts[h] = "complete"
                                /\ m + 1 \in Hour => sts[m + 1] # "complete"
    BY <1>3, <1>4
  <1>6. /\ Prefix(sts) \in 0 .. MaxHour /\ \A h \in 1 .. Prefix(sts) : sts[h] = "complete"
        /\ Prefix(sts) + 1 \in Hour => sts[Prefix(sts) + 1] # "complete"
    BY <1>5 DEF Prefix
  <1>7. QED
    BY <1>6, CursorHourAssumption DEF Hour

\* What a transaction sees complete was collected, in its snapshot too.
CompleteIsCollected ==
    /\ \A h \in Hour : status[h] = "complete" => h \in collected
    /\ \A g, h \in Hour : view[g][h] = "complete" => h \in collected

IInv == TypeOK /\ CompleteIsCollected /\ NeverSkipsUncollected

\* A cursor computed from statuses of collected hours passes collected hours only.
LEMMA ReconcileSafe ==
    ASSUME TypeOK, NEW sts \in [Hour -> WindowStatus], NEW C, 1 .. cursor \subseteq C,
           \A h \in Hour : sts[h] = "complete" => h \in C
    PROVE  /\ ReconcileUsageCursor(sts) \in 0 .. MaxHour
           /\ 1 .. ReconcileUsageCursor(sts) \subseteq C
PROOF
  <1>1. Prefix(sts) \in 0 .. MaxHour /\ 1 .. Prefix(sts) \subseteq C
    BY PrefixComplete
  <1>2. QED
    BY <1>1 DEF ReconcileUsageCursor, TypeOK

\* The end of a commit that sets the status of its hour.
LEMMA SetStatusSafe ==
    ASSUME IInv, NEW h \in Hour, NEW st \in WindowStatus, EndCommit(h), SetStatus(h, st),
           collected' \in SUBSET Hour, collected \subseteq collected',
           st = "complete" => h \in collected'
    PROVE  IInv'
PROOF
  <1> DEFINE sts == [view[h] EXCEPT ![h] = st]
  <1>1. /\ status \in [Hour -> WindowStatus] /\ view \in [Hour -> [Hour -> WindowStatus]]
        /\ inflight \subseteq Hour /\ commits \in 0 .. MaxCommits /\ 1 .. cursor \subseteq collected'
    BY DEF IInv, TypeOK, NeverSkipsUncollected
  <1>2. sts \in [Hour -> WindowStatus] /\ \A g \in Hour : sts[g] = "complete" => g \in collected'
    BY <1>1 DEF IInv, CompleteIsCollected
  <1>3. cursor' = ReconcileUsageCursor(sts) /\ status' = [status EXCEPT ![h] = st]
    BY DEF SetStatus
  <1>4. inflight' = inflight \ {h} /\ view' = [view EXCEPT ![h] = Nothing] /\ commits' = commits
    BY DEF EndCommit
  <1> HIDE DEF sts
  <1>5. cursor' \in 0 .. MaxHour /\ 1 .. cursor' \subseteq collected'
    BY <1>1, <1>2, <1>3, ReconcileSafe DEF IInv
  <1>6. Nothing \in [Hour -> WindowStatus] /\ \A g \in Hour : Nothing[g] # "complete"
    BY DEF Nothing, WindowStatus
  <1>7. TypeOK'
    BY <1>1, <1>3, <1>4, <1>5, <1>6 DEF TypeOK
  <1>8. CompleteIsCollected'
    BY <1>1, <1>3, <1>4, <1>6 DEF IInv, CompleteIsCollected
  <1>9. QED
    BY <1>5, <1>7, <1>8 DEF IInv, NeverSkipsUncollected

\* Every commit, in whatever order, and every probe keeps the invariant.
THEOREM CursorInvariance == Spec => []IInv
PROOF
  <1>1. Init => IInv
    <2> SUFFICES ASSUME Init PROVE IInv
      OBVIOUS
    <2>1. TypeOK
      BY CursorHourAssumption, CursorBoundAssumption DEF Init, TypeOK, Nothing, WindowStatus
    <2>2. CompleteIsCollected
      BY DEF Init, CompleteIsCollected, Nothing
    <2>3. 1 .. cursor \subseteq collected
      BY DEF Init
    <2>4. QED
      BY <2>1, <2>2, <2>3 DEF IInv, NeverSkipsUncollected
  <1>2. IInv /\ [Next]_vars => IInv'
    <2> SUFFICES ASSUME IInv, [Next]_vars PROVE IInv'
      OBVIOUS
    <2>1. ASSUME NEW h \in Hour, BeginCommit(h) PROVE IInv'
      <3>1. TypeOK'
        BY <2>1, CursorBoundAssumption DEF IInv, TypeOK, BeginCommit
      <3>2. CompleteIsCollected'
        BY <2>1 DEF IInv, TypeOK, CompleteIsCollected, BeginCommit
      <3>3. QED
        BY <2>1, <3>1, <3>2 DEF IInv, NeverSkipsUncollected, BeginCommit
    <2>2. ASSUME NEW h \in Hour, CompleteWindow(h) PROVE IInv'
      <3>1. collected' \in SUBSET Hour /\ collected \subseteq collected' /\ h \in collected'
        BY <2>2 DEF IInv, TypeOK, CompleteWindow
      <3>2. QED
        BY <2>2, <3>1, SetStatusSafe DEF CompleteWindow, WindowStatus
    <2>3. ASSUME NEW h \in Hour, NEW mismatch \in BOOLEAN, FailWindow(h, mismatch) PROVE IInv'
      <3>1. EndCommit(h) /\ collected' = collected /\ collected \in SUBSET Hour
        BY <2>3 DEF FailWindow, IInv, TypeOK
      <3>2. CASE SetStatus(h, "missing")
        BY <3>1, <3>2, SetStatusSafe DEF WindowStatus
      <3>3. CASE UNCHANGED <<status, cursor>>
        <4>1. Nothing \in [Hour -> WindowStatus] /\ \A g \in Hour : Nothing[g] # "complete"
          BY DEF Nothing, WindowStatus
        <4>2. TypeOK'
          BY <3>1, <3>3, <4>1 DEF IInv, TypeOK, EndCommit
        <4>3. CompleteIsCollected'
          BY <3>1, <3>3, <4>1 DEF IInv, TypeOK, CompleteIsCollected, EndCommit
        <4>4. QED
          BY <3>1, <3>3, <4>2, <4>3 DEF IInv, NeverSkipsUncollected
      <3>4. QED
        BY <2>3, <3>2, <3>3 DEF FailWindow
    <2>4. CASE ProbeReconcile
      <3>1. status \in [Hour -> WindowStatus] /\ 1 .. cursor \subseteq collected
            /\ \A h \in Hour : status[h] = "complete" => h \in collected
        BY DEF IInv, TypeOK, CompleteIsCollected, NeverSkipsUncollected
      <3>2. cursor' \in 0 .. MaxHour /\ 1 .. cursor' \subseteq collected
        BY <2>4, <3>1, ReconcileSafe DEF IInv, ProbeReconcile
      <3>3. QED
        BY <2>4, <3>2 DEF IInv, TypeOK, CompleteIsCollected, NeverSkipsUncollected, ProbeReconcile
    <2>5. CASE UNCHANGED vars
      BY <2>5 DEF vars, IInv, TypeOK, CompleteIsCollected, NeverSkipsUncollected
    <2>6. QED
      BY <2>1, <2>2, <2>3, <2>4, <2>5 DEF Next
  <1>3. QED
    BY <1>1, <1>2, PTL DEF Spec

\* However stale the snapshots of its writers, the cursor never passes an hour that was
\* never collected, so the recovery that starts after it misses none of them.
THEOREM CursorSafe == Spec => []NeverSkipsUncollected
PROOF
  <1>1. IInv => NeverSkipsUncollected
    BY DEF IInv
  <1>2. QED
    BY <1>1, CursorInvariance, PTL

\* The cursor a probe writes is the one verify-restore asks for, when the first hour is
\* complete: what concurrent commits left behind is repaired in one step.
ProbeRepairs == [][ProbeReconcile /\ Prefix(status) > 0 => verifyCollectionCursors']_vars

LEMMA PrefixVerifies ==
    ASSUME TypeOK, Prefix(status) > 0, cursor = Prefix(status)
    PROVE  verifyCollectionCursors
PROOF
  <1>1. status \in [Hour -> WindowStatus]
    BY DEF TypeOK
  <1>2. QED
    BY <1>1, PrefixComplete DEF verifyCollectionCursors

\* enqueuePeriodicRecoveryBackfill locks the site first, so its snapshot is not stale.
THEOREM ProbesRepair == Spec => ProbeRepairs
PROOF
  <1>1. IInv /\ IInv' /\ ProbeReconcile /\ Prefix(status) > 0 => verifyCollectionCursors'
    <2> SUFFICES ASSUME IInv, IInv', ProbeReconcile, Prefix(status) > 0 PROVE verifyCollectionCursors'
      OBVIOUS
    <2>1. status' = status /\ cursor' = Prefix(status)
      BY DEF ProbeReconcile, ReconcileUsageCursor
    <2>2. status \in [Hour -> WindowStatus]
      BY DEF IInv, TypeOK
    <2>3. QED
      BY <2>1, <2>2, PrefixComplete DEF verifyCollectionCursors
  <1>2. QED
    BY <1>1, CursorInvariance, PTL DEF ProbeRepairs

\* Commits one at a time: the open transaction sees the present statuses.
SerialInv ==
    /\ \A g, h \in inflight : g = h
    /\ \A h \in inflight : view[h] = status
    /\ AtPrefix

\* The first hour is complete and the cursor is not at the end of the complete prefix only
\* when commits of the site overlap: one at a time they keep it where verify-restore asks.
THEOREM SerialCommitsVerify ==
    ASSUME Concurrency = 1
    PROVE  Spec => [](Prefix(status) > 0 => verifyCollectionCursors)
PROOF
  <1>1. Init => SerialInv
    <2> SUFFICES ASSUME Init PROVE SerialInv
      OBVIOUS
    <2>1. Nothing \in [Hour -> WindowStatus] /\ \A h \in Hour : Nothing[h] # "complete"
      BY DEF Nothing, WindowStatus
    <2>2. ~(Prefix(status) > 0)
      <3> SUFFICES ASSUME Prefix(status) > 0 PROVE FALSE
        OBVIOUS
      <3>1. Prefix(status) \in 0 .. MaxHour /\ status = Nothing
        BY <2>1, PrefixComplete DEF Init
      <3>2. 1 \in 1 .. Prefix(status)
        BY <3>1, CursorHourAssumption
      <3>3. QED
        BY <2>1, <3>1, <3>2, PrefixComplete
    <2>3. QED
      BY <2>2 DEF Init, SerialInv, AtPrefix
  <1>2. IInv /\ SerialInv /\ [Next]_vars => SerialInv'
    <2> SUFFICES ASSUME IInv, SerialInv, [Next]_vars PROVE SerialInv'
      OBVIOUS
    <2>0. /\ status \in [Hour -> WindowStatus] /\ view \in [Hour -> [Hour -> WindowStatus]]
          /\ inflight \subseteq Hour
      BY DEF IInv, TypeOK
    <2>1. ASSUME NEW h \in Hour, BeginCommit(h) PROVE SerialInv'
      <3>1. IsFiniteSet(inflight)
        <4>1. 1 \in Int /\ MaxHour \in Int
          BY CursorHourAssumption
        <4>2. IsFiniteSet(Hour)
          BY <4>1, FS_Interval, Zenon DEF Hour
        <4>3. QED
          BY <2>0, <4>2, FS_Subset, Zenon
      <3>2. Cardinality(inflight) \in Nat /\ Cardinality(inflight) < 1
        BY <2>1, <3>1, FS_CardinalityType DEF BeginCommit
      <3>3. inflight = {}
        BY <3>1, <3>2, FS_EmptySet
      <3>4. inflight' = {h} /\ view'[h] = status /\ UNCHANGED <<status, cursor>>
        BY <2>0, <2>1, <3>3 DEF BeginCommit
      <3>5. QED
        BY <3>4 DEF SerialInv, AtPrefix
    <2>2. ASSUME NEW h \in Hour, NEW st \in WindowStatus, EndCommit(h), SetStatus(h, st) PROVE SerialInv'
      <3>1. h \in inflight /\ inflight' = {}
        BY <2>2 DEF EndCommit, SerialInv
      <3>2. [view[h] EXCEPT ![h] = st] = status'
        BY <2>2, <3>1 DEF SetStatus, SerialInv
      <3>3. cursor' = ReconcileUsageCursor(status')
        BY <2>2, <3>2 DEF SetStatus
      <3>4. AtPrefix'
        BY <3>3 DEF AtPrefix, ReconcileUsageCursor
      <3>5. QED
        BY <3>1, <3>4 DEF SerialInv
    <2>3. ASSUME NEW h \in Hour, CompleteWindow(h) PROVE SerialInv'
      BY <2>2, <2>3 DEF CompleteWindow, WindowStatus
    <2>4. ASSUME NEW h \in Hour, NEW mismatch \in BOOLEAN, FailWindow(h, mismatch) PROVE SerialInv'
      <3>1. CASE SetStatus(h, "missing")
        BY <2>2, <2>4, <3>1 DEF FailWindow, WindowStatus
      <3>2. CASE UNCHANGED <<status, cursor>>
        <4>1. inflight' = {}
          BY <2>4 DEF FailWindow, EndCommit, SerialInv
        <4>2. QED
          BY <3>2, <4>1 DEF SerialInv, AtPrefix
      <3>3. QED
        BY <2>4, <3>1, <3>2 DEF FailWindow
    <2>5. CASE ProbeReconcile
      BY <2>5 DEF ProbeReconcile, ReconcileUsageCursor, SerialInv, AtPrefix
    <2>6. CASE UNCHANGED vars
      BY <2>6 DEF vars, SerialInv, AtPrefix
    <2>7. QED
      BY <2>1, <2>3, <2>4, <2>5, <2>6 DEF Next
  <1>3. IInv /\ SerialInv => (Prefix(status) > 0 => verifyCollectionCursors)
    BY PrefixVerifies DEF IInv, SerialInv, AtPrefix
  <1>4. QED
    BY <1>1, <1>2, <1>3, CursorInvariance, PTL DEF Spec
=============================================================================
