--------------------------- MODULE MCCollection ----------------------------
(***************************************************************************)
(* The collection system for TLC.  A behaviour is one of a single part,     *)
(* which Within keeps to the bounds that its question needs: all parts have *)
(* the constants of the configuration.                                      *)
(***************************************************************************)
EXTENDS CollectionSystem, TLC

VARIABLE part

mcVars == <<part, vars>>

Symmetry == Permutations(Run)

TwoAttempts == [t \in TaskTypes |-> 2]

Started == {r \in Run : run[r].status # "absent"}

\* fence: two runs of one hour with crashes and changes of the site.  claims: two claims of
\* one backfill of two hours with changes of the site.  pair: two runs of two hours, each
\* claimed once.  plain: two runs without windows.  ranges: requests of three hours, split
\* around the runs that are there.
Within ==
    CASE part = "fence" -> /\ \A r \in Run : Windowed(r) \/ run[r].epoch = 0
                           /\ \A r \in Run : run[r].hours \subseteq {1}
                           /\ \A s \in Site : fact[s][2] = 0 /\ fact[s][3] = 0
      [] part = "claims" -> /\ crashes = 0
                            /\ Cardinality(Started) <= 1
                            /\ \A r \in Started : run[r].task = "usage_backfill"
                            /\ \A r \in Run : run[r].hours \subseteq {1, 2}
                            /\ \A s \in Site : fact[s][3] = 0
      [] part = "pair" -> /\ crashes = 0
                          /\ \A s \in Site : site[s].version = 1 /\ fact[s][3] = 0
                          /\ \A r \in Started : Windowed(r)
                          /\ \A r \in Run : run[r].hours \subseteq {1, 2} /\ run[r].epoch <= 1
      [] part = "plain" -> /\ \A r \in Run : run[r].hours = {}
                           /\ \A s \in Site, h \in Hour : fact[s][h] = 0
      [] part = "ranges" -> /\ crashes = 0
                            /\ \A s \in Site : site[s].version = 1
                            /\ \A r \in Run : run[r].epoch = 0
                            /\ \A r \in Started : Windowed(r)

MCInit == part \in {"fence", "claims", "pair", "plain", "ranges"} /\ Init /\ Within

MCNext == Next /\ UNCHANGED part /\ Within'

MCSpec == MCInit /\ [][MCNext]_mcVars
=============================================================================
