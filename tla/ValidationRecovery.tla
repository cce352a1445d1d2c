------------------------- MODULE ValidationRecovery -------------------------
(***************************************************************************)
(* The recovery of historical hours of one site.  Every minute the         *)
(* scheduler ranks the hours whose day is over, looks at the first Limit   *)
(* of them and enqueues validations of those that need one; it enqueues    *)
(* nothing while a validation of the site is active.                       *)
(***************************************************************************)
EXTENDS Naturals, FiniteSets

CONSTANTS Hours,      \* 1..n, the newest last
          Limit,      \* pendingValidationRecoveryLimitPerSite (6)
          Permanent,  \* hours whose upstream answers never agree
          MaxFails,   \* bound on failing requests
          MaxLosses   \* bound on hours that lose facts

ValidationAssumption ==
  /\ Hours \subseteq Nat \ {0} /\ IsFiniteSet(Hours) /\ Permanent \subseteq Hours
  /\ Limit \in Nat \ {0} /\ {MaxFails, MaxLosses} \subseteq Nat

VARIABLES due,        \* the hours whose day ended two hours ago or earlier
          window,     \* hour -> [status, mismatch, verified, proof]: proof is fact_rows = COUNT
          upstream,   \* hour -> whether the two upstream interfaces agree
          active,     \* the hours of pending or running validation runs
          fails, losses
vars == <<due, window, upstream, active, fails, losses>>

Init ==
  /\ due = {}
  /\ window = [h \in Hours |-> [status |-> "complete", mismatch |-> FALSE, verified |-> FALSE, proof |-> TRUE]]
  /\ upstream \in [Hours -> BOOLEAN] /\ \A h \in Permanent : ~upstream[h]
  /\ active = {} /\ fails = 0 /\ losses = 0

\* The rank of ListPendingValidationHours: mismatches, then hours not
\* verified since their day ended, then the others; the newest first.
Class(h) == IF window[h].mismatch THEN 0 ELSE IF ~window[h].verified THEN 1 ELSE 2
Before(g, h) == Class(g) < Class(h) \/ (Class(g) = Class(h) /\ g > h)
Candidates ==
  {h \in due : active = {} /\ (window[h].status = "complete"
                               \/ (window[h].status = "missing" /\ window[h].mismatch))}
Bounded == {h \in Candidates : Cardinality({g \in Candidates : Before(g, h)}) < Limit}
Needs(h) == window[h].mismatch \/ ~window[h].verified \/ ~window[h].proof
ListPendingValidationHours == {h \in Bounded : Needs(h)}

\* enqueueHistoricalValidationRecovery: one run per range of hours.
Recover ==
  /\ ListPendingValidationHours # {} /\ active' = ListPendingValidationHours
  /\ UNCHANGED <<due, window, upstream, fails, losses>>

Agreed == [status |-> "complete", mismatch |-> FALSE, verified |-> TRUE, proof |-> TRUE]
\* A validation of an hour ends: a consistent answer replaces the facts when
\* their proof does not hold, a mismatch makes the hour missing.
Validate(h) ==
  /\ h \in active /\ active' = active \ {h}
  /\ window' = [window EXCEPT ![h] = IF upstream[h] THEN Agreed
                                     ELSE [@ EXCEPT !.status = "missing", !.mismatch = TRUE]]
  /\ UNCHANGED <<due, upstream, fails, losses>>
\* The request fails until the run gives up: the hour stays as it is.
ValidateFails(h) ==
  /\ h \in active /\ fails < MaxFails /\ fails' = fails + 1
  /\ active' = active \ {h} /\ UNCHANGED <<due, window, upstream, losses>>

DayEnds(h) == /\ h \in Hours \ due /\ \A g \in Hours : g < h => g \in due
              /\ due' = due \cup {h} /\ UNCHANGED <<window, upstream, active, fails, losses>>
Heal(h) == /\ h \in Hours \ Permanent /\ ~upstream[h] /\ upstream' = [upstream EXCEPT ![h] = TRUE]
           /\ UNCHANGED <<due, window, active, fails, losses>>
LoseFacts(h) ==
  /\ losses < MaxLosses /\ losses' = losses + 1 /\ window[h].proof
  /\ window' = [window EXCEPT ![h].proof = FALSE]
  /\ UNCHANGED <<due, upstream, active, fails>>

Next ==
  \/ Recover
  \/ \E h \in Hours : Validate(h) \/ ValidateFails(h) \/ DayEnds(h) \/ Heal(h) \/ LoseFacts(h)
\* The scheduler ticks every minute, a run ends, days end, and an upstream
\* that may agree does in the end.
Spec ==
  /\ Init /\ [][Next]_vars
  /\ WF_vars(Recover)
  /\ \A h \in Hours : WF_vars(Validate(h)) /\ WF_vars(DayEnds(h)) /\ WF_vars(Heal(h))

----------------------------------------------------------------------------
\* Only closed hours are selected and verified.
TypeOK ==
  /\ active \subseteq due /\ due \subseteq Hours
  /\ \A h \in Hours : window[h].status \in {"complete", "missing"}

\* The backlog converges: every hour whose upstream answers agree in the end
\* is complete and verified, though batches fail and new days arrive.
BacklogConverges == \A h \in Hours \ Permanent : <>[](window[h].status = "complete" /\ window[h].verified)

\* The newest hours get lost facts back: those that the permanently
\* contradictory hours leave room for.
FactsRepaired ==
  \A h \in Hours \ Permanent :
    Cardinality({g \in Hours : g > h} \cup Permanent) < Limit => <>[](window[h].proof)
=============================================================================
