---------------------------- MODULE FencedLeases ----------------------------
(***************************************************************************)
(* What the task engine promises to whoever reads the usage of a site.      *)
(* Holders take leases on hours of a site.  A lease on an hour excludes     *)
(* every other one; it is given and used only while the site is open, and   *)
(* changing the site takes all of its leases away.  An hour is stored only  *)
(* under a lease on it and with the configuration the site has then.  A     *)
(* lease ends kept only when every one of its hours is stored, and what has *)
(* ended stays as it is.                                                    *)
(*                                                                          *)
(* Claims, windows, attempts, materialization, heartbeats and the worker    *)
(* process are the engine's own business and do not appear here.            *)
(***************************************************************************)
EXTENDS Naturals, TLAPS

CONSTANTS Site, Holder, Hour

VARIABLES
    epoch,   \* by site: the number of its configuration
    open,    \* by site: whether it may be collected from
    lease,   \* by holder
    stored   \* by site and hour: 0, or the configuration that collected it

vars == <<epoch, open, lease, stored>>

Lease == [state : {"free", "held", "kept", "lost"}, site : Site, hours : SUBSET Hour]

Held(r) == lease[r].state = "held"

TypeOK ==
    /\ epoch \in [Site -> Nat] /\ open \in [Site -> BOOLEAN]
    /\ lease \in [Holder -> Lease]
    /\ stored \in [Site -> [Hour -> Nat]]

Init ==
    /\ epoch = [s \in Site |-> 1]
    /\ open \in [Site -> BOOLEAN]
    /\ lease \in [Holder -> {l \in Lease : l.state = "free"}]
    /\ stored \in [Site -> [Hour -> {0, 1}]]

\* r takes a lease on hours nobody else holds; one on no hours is kept at once.
Take(r, s) ==
    /\ lease[r].state = "free" /\ lease'[r].site = s
    /\ \/ lease'[r].state = "held" /\ open'[s]
       \/ lease'[r].state = "kept" /\ lease'[r].hours = {}
    /\ \A q \in Holder \ {r} : (Held(q)' /\ lease'[q].site = s) => lease'[q].hours \cap lease'[r].hours = {}

\* Any number of new leases on one site.
Grant(s) ==
    /\ UNCHANGED <<epoch, open, stored>>
    /\ lease' \in [Holder -> Lease]
    /\ \A r \in Holder : lease'[r] = lease[r] \/ Take(r, s)

\* The site changes: its leases are lost, and new ones may be given at once.
Fence(s) ==
    /\ epoch' = [epoch EXCEPT ![s] = @ + 1]
    /\ \E now \in BOOLEAN : open' = [open EXCEPT ![s] = now]
    /\ stored' = stored
    /\ lease' \in [Holder -> Lease]
    /\ \A r \in Holder : IF Held(r) /\ lease[r].site = s
                         THEN lease'[r] = [lease[r] EXCEPT !.state = "lost"]
                         ELSE lease'[r] = lease[r] \/ Take(r, s)

\* An hour under r's lease is stored, or found wrong and given up, or left as it is.
Store(r) ==
    \/ stored' = stored
    \/ \E h \in lease[r].hours, v \in {0, epoch[lease[r].site]} :
         stored' = [stored EXCEPT ![lease[r].site][h] = v]

\* The lease ends.
End(r) ==
    \/ lease' = [lease EXCEPT ![r].state = "lost"]
    \/ /\ lease' = [lease EXCEPT ![r].state = "kept"]
       /\ \A h \in lease[r].hours : stored'[lease[r].site][h] > 0

\* One step of a holder's work, which may be its last.
Work(r) ==
    /\ Held(r) /\ open[lease[r].site]
    /\ UNCHANGED <<epoch, open>>
    /\ Store(r)
    /\ lease' = lease \/ End(r)

Next ==
    \/ \E s \in Site : Grant(s) \/ Fence(s)
    \/ \E r \in Holder : Work(r)

Spec == Init /\ [][Next]_vars

-----------------------------------------------------------------------------
\* No hour of a site is under two leases, and no lease outlives the time its site is open.
Exclusive ==
    /\ \A q, r \in Holder : (q # r /\ Held(q) /\ Held(r) /\ lease[q].site = lease[r].site)
         => lease[q].hours \cap lease[r].hours = {}
    /\ \A r \in Holder : Held(r) => open[lease[r].site]

\* Leases exclude each other and live only at open sites, for any number of holders, sites
\* and hours: the promise is worth having.
THEOREM LeasesExclude == Spec => [](TypeOK /\ Exclusive)
PROOF
  <1>1. Init => TypeOK /\ Exclusive
    BY DEF Init, TypeOK, Exclusive, Held
  <1>2. ASSUME TypeOK, Exclusive, [Next]_vars PROVE TypeOK' /\ Exclusive'
    <2>1. ASSUME NEW s \in Site, Grant(s) PROVE TypeOK' /\ Exclusive'
      <3>1. TypeOK'
        BY <1>2, <2>1 DEF Grant, TypeOK
      <3>2. Exclusive'
        BY <1>2, <2>1 DEF Grant, Take, Exclusive, Held
      <3>3. QED
        BY <3>1, <3>2
    <2>2. ASSUME NEW s \in Site, Fence(s) PROVE TypeOK' /\ Exclusive'
      <3>1. TypeOK'
        BY <1>2, <2>2 DEF Fence, TypeOK
      <3>2. \A r \in Holder : Held(r)' => \/ Take(r, s)
                                          \/ lease'[r] = lease[r] /\ lease[r].site # s /\ Held(r)
        BY <1>2, <2>2 DEF Fence, Held, TypeOK, Lease
      <3>3. \A t \in Site \ {s} : open'[t] = open[t]
        BY <1>2, <2>2 DEF Fence, TypeOK
      <3>4. \A r \in Holder : Held(r)' => open'[lease'[r].site]
        BY <1>2, <3>2, <3>3 DEF Take, Exclusive, Held, TypeOK, Lease
      <3>5. \A q, r \in Holder : (q # r /\ Held(q)' /\ Held(r)' /\ lease'[q].site = lease'[r].site)
              => lease'[q].hours \cap lease'[r].hours = {}
        BY <1>2, <3>2 DEF Take, Exclusive
      <3>6. QED
        BY <3>1, <3>4, <3>5 DEF Exclusive
    <2>3. ASSUME NEW r \in Holder, Work(r) PROVE TypeOK' /\ Exclusive'
      <3>1. /\ stored \in [Site -> [Hour -> Nat]] /\ lease \in [Holder -> Lease]
            /\ lease[r].site \in Site /\ lease[r].hours \in SUBSET Hour /\ epoch[lease[r].site] \in Nat
        BY <1>2 DEF TypeOK, Lease
      <3>2. stored' \in [Site -> [Hour -> Nat]]
        <4>1. ASSUME NEW s \in Site, NEW h \in Hour, NEW v \in Nat
              PROVE  [stored EXCEPT ![s][h] = v] \in [Site -> [Hour -> Nat]]
          BY <3>1, <4>1
        <4>2. CASE stored' = stored
          BY <3>1, <4>2
        <4>3. ASSUME NEW h \in lease[r].hours, NEW v \in {0, epoch[lease[r].site]},
                     stored' = [stored EXCEPT ![lease[r].site][h] = v]
              PROVE  stored' \in [Site -> [Hour -> Nat]]
          <5>1. h \in Hour /\ v \in Nat
            BY <3>1, <4>3
          <5>2. QED
            BY <3>1, <4>1, <4>3, <5>1
        <4>4. QED
          BY <2>3, <4>2, <4>3 DEF Work, Store
      <3>3. CASE lease' = lease
        BY <1>2, <2>3, <3>2, <3>3 DEF Work, TypeOK, Exclusive, Held
      <3>4. ASSUME NEW st \in {"kept", "lost"}, lease' = [lease EXCEPT ![r].state = st]
            PROVE  /\ lease' \in [Holder -> Lease]
                   /\ \A q \in Holder : Held(q)' => Held(q) /\ lease'[q] = lease[q]
        <4>1. lease[r] \in Lease /\ [lease[r] EXCEPT !.state = st] \in Lease
              /\ [lease[r] EXCEPT !.state = st].state = st
          BY <3>1 DEF Lease
        <4>2. lease' = [lease EXCEPT ![r] = [lease[r] EXCEPT !.state = st]]
          BY <3>1, <3>4
        <4>3. QED
          BY <3>1, <4>1, <4>2 DEF Held
      <3>5. CASE End(r)
        <4>1. /\ lease' \in [Holder -> Lease]
              /\ \A q \in Holder : Held(q)' => Held(q) /\ lease'[q] = lease[q]
          BY <3>4, <3>5 DEF End
        <4>2. QED
          BY <1>2, <2>3, <3>2, <4>1 DEF Work, TypeOK, Exclusive
      <3>6. QED
        BY <2>3, <3>3, <3>5 DEF Work
    <2>4. CASE UNCHANGED vars
      BY <1>2, <2>4 DEF vars, TypeOK, Exclusive, Held
    <2>5. QED
      BY <1>2, <2>1, <2>2, <2>3, <2>4 DEF Next
  <1>3. QED
    BY <1>1, <1>2, PTL DEF Spec

=============================================================================
