---------------------------- MODULE AlertTargets ----------------------------
(***************************************************************************)
(* The samples the alert scan derives from the rows of a site, an instance,  *)
(* an account and a channel inventory (service/alert_scanner.go), checked    *)
(* over every combination of a site row and one row of the others; other     *)
(* components change the rows in any order.  A sample is "inactive",         *)
(* "unknown", "breach" or "healthy".                                         *)
(***************************************************************************)

VARIABLES site, row
vars == <<site, row>>

\* probed, failing: a probe result exists and reaches the threshold; fresh: the last resource
\* sample is recent; empty: it counted no instance.
Site == [managed : BOOLEAN, auth : {"authorized", "unauthorized", "expired"}, ended : BOOLEAN,
         export : BOOLEAN, probed : BOOLEAN, failing : BOOLEAN, fresh : BOOLEAN, empty : BOOLEAN]
\* quiet: it was seen last as long ago as the threshold of instance_stale.
Instance == [kind : {"instance"}, retired : BOOLEAN, fresh : BOOLEAN, seen : BOOLEAN, quiet : BOOLEAN,
             online : BOOLEAN, metric : BOOLEAN, high : BOOLEAN]
Account == [kind : {"account"}, archived : BOOLEAN, customer : {"enabled", "disabled"}, synced : BOOLEAN,
            state : {"normal", "missing", "identity_mismatch", "unchecked"}, enabled : BOOLEAN, empty : BOOLEAN]
\* current: complete, of the site's configuration and younger than the limit.
Channel == [kind : {"channel"}, current : BOOLEAN, low : BOOLEAN]

Init ==
    /\ site \in {s \in Site : s.managed /\ s.auth = "unauthorized" /\ ~s.ended /\ ~s.probed /\ ~s.fresh}
    /\ row \in {r \in Instance \cup Account \cup Channel :
                    CASE r.kind = "instance" -> ~r.retired
                      [] r.kind = "account" -> ~r.synced /\ ~r.archived
                      [] r.kind = "channel" -> ~r.current}

siteMonitoringApplicable == site.managed /\ ~site.ended
siteAuthorizedMonitoringApplicable == siteMonitoringApplicable /\ site.auth = "authorized"

Sample(applicable, known, breach) ==
    CASE ~applicable -> "inactive"
      [] applicable /\ ~known -> "unknown"
      [] OTHER -> IF breach THEN "breach" ELSE "healthy"


\* siteAlertEvaluations; a probe count that has reached the threshold breaches.
siteAlertEvaluations ==
    [site_offline |-> Sample(siteMonitoringApplicable, site.probed, site.failing),
     site_auth_expired |-> Sample(siteMonitoringApplicable, TRUE, site.auth = "expired"),
     site_export_disabled |-> Sample(siteAuthorizedMonitoringApplicable, TRUE, ~site.export),
     site_no_instance |-> Sample(siteAuthorizedMonitoringApplicable,
                                 site.fresh, site.empty)]

\* instanceAlertEvaluations: a retired instance is out of scope before its site is asked,
\* and everything is unknown while the sample is stale.
instanceAlertEvaluations ==
    LET applicable == ~row.retired /\ siteAuthorizedMonitoringApplicable
    IN  [instance_stale |-> Sample(applicable, row.fresh /\ row.seen, row.quiet),
         instance_offline |-> Sample(applicable, row.fresh, ~row.online),
         cpu_high |-> Sample(applicable, row.fresh /\ row.metric, row.high)]

\* An account is judged while it, its customer and its site take part in the statistics.
AccountInScope ==
    /\ ~row.archived /\ row.customer = "enabled"
    /\ siteMonitoringApplicable



\* accountAlertEvaluations: an account that is missing or somebody else's has no status or
\* quota to judge; an unauthorized site leaves its accounts unknown.
accountAlertEvaluations ==
    LET synced == site.auth = "authorized" /\ row.synced
        known == synced /\ row.state # "unchecked"
        judged == AccountInScope /\ (synced => row.state \in {"normal", "unchecked"})
    IN  [account_missing |-> Sample(AccountInScope, known, row.state = "missing"),
         account_identity_mismatch |-> Sample(AccountInScope, known, row.state = "identity_mismatch"),
         account_disabled |-> Sample(judged, known, ~row.enabled),
         account_quota_empty |-> Sample(judged, known, row.empty)]

\* channelAlertEvaluations
channelAlertEvaluations ==
    [channel_balance_low |-> Sample(siteAuthorizedMonitoringApplicable, row.current, row.low)]

\* Other components write the rows one field at a time, which reaches every combination.
Flip(record) ==
    {[record EXCEPT ![f] = ~@] : f \in DOMAIN record \ {"kind", "auth", "customer", "state"}}

SiteCommitted ==
    /\ site' \in Flip(site) \cup {[site EXCEPT !.auth = a] : a \in {"authorized", "unauthorized", "expired"}}
    /\ UNCHANGED row
RowCommitted ==
    /\ \/ row' \in Flip(row)
       \/ /\ row.kind = "account"
          /\ row' \in {[row EXCEPT !.customer = c] : c \in {"enabled", "disabled"}}
                    \cup {[row EXCEPT !.state = t] : t \in {"normal", "missing", "identity_mismatch", "unchecked"}}
    /\ UNCHANGED site

Next == SiteCommitted \/ RowCommitted

Spec == Init /\ [][Next]_vars

-----------------------------------------------------------------------------
RowEvaluations ==
    CASE row.kind = "instance" -> instanceAlertEvaluations
      [] row.kind = "account" -> accountAlertEvaluations
      [] row.kind = "channel" -> channelAlertEvaluations

\* A site whose statistics are disabled or ended raises nothing and retires what it raised,
\* in every rule, whatever its rows still say.
DisabledIsSilent ==
    ~siteMonitoringApplicable =>
        /\ \A r \in DOMAIN siteAlertEvaluations : siteAlertEvaluations[r] = "inactive"
        /\ \A r \in DOMAIN RowEvaluations : RowEvaluations[r] = "inactive"

\* An account has one diagnosis: a missing or mistaken account is not also disabled, empty
\* or the other of the two.
OneDiagnosis ==
    row.kind = "account" =>
        LET a == accountAlertEvaluations
        IN  "breach" \in {a.account_missing, a.account_identity_mismatch} =>
                /\ a.account_missing # a.account_identity_mismatch
                /\ a.account_disabled = "inactive" /\ a.account_quota_empty = "inactive"

AuthorizationLossSettlesNothingStep ==
       (row.kind = "account" /\ SiteCommitted /\ AccountInScope /\ AccountInScope'
          /\ site'.auth # "authorized") =>
        \A r \in DOMAIN accountAlertEvaluations :
            accountAlertEvaluations[r] = "breach" => accountAlertEvaluations'[r] = "unknown"
\* Losing the authorization of the site settles no alert of an account: "unknown" neither
\* closes nor counts, so what was firing fires on.
AuthorizationLossSettlesNothing == [][AuthorizationLossSettlesNothingStep]_vars
=============================================================================
