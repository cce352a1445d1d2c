---------------------------- MODULE PlatformUsers ----------------------------
(***************************************************************************)
(* The users of the platform, their sessions and the limit on logins:       *)
(* service/auth.go, service/login_limiter.go, service/platform_user.go over *)
(* model/platform_user.go, with the checks of middleware/auth.go and the    *)
(* cookie of common/session.go.                                             *)
(*                                                                          *)
(* A login reads its user without a lock and writes afterwards.  Any other  *)
(* request is authorized by the row as it is then, and its handler changes  *)
(* rows later, in a transaction that locks them: requests of several        *)
(* clients interleave at each of these steps.  A user's name is its id; the *)
(* key of the limiter is the name, for clients behind one address.          *)
(* The limiter counts in the memory of one process that lives throughout:   *)
(* the map of failures is not cleared by the starts.                        *)
(***************************************************************************)
EXTENDS Integers, FiniteSets, FiniteSetTheorems, TLAPS

CONSTANTS
    User,
    Bootstrap,    \* the user "admin" that a first start creates
    Process,      \* starts of the program on one database
    Client,
    Password,
    Limit,        \* loginFailureLimit
    Window,       \* loginFailureWindow
    Block,        \* loginBlockDuration
    MaxAge,       \* SessionMaxAge
    MaxTime,      \* bound: the clock
    MaxRequests   \* bound: requests that are let through

ASSUME UserAssumption == Bootstrap \in User /\ Password # {} /\ IsFiniteSet(Client)
ASSUME LimiterAssumption == Limit \in Nat \ {0} /\ {Window, Block, MaxAge} \subseteq Nat
ASSUME UserBoundAssumption == MaxTime \in Nat /\ MaxRequests \in Nat

VARIABLES
    now,
    row,        \* platform_user
    attempts,   \* by user: loginAttempt; no entry of the map is one without failures
    client,     \* by client: the request under way
    left,       \* bound: requests that may be let through
    cookie,     \* by client: the session it was given, of version 0 without one
    process,    \* by process: its EnsureBootstrapAdmin
    era,        \* history, by user: how often password, role or status were changed
    tries       \* history, by user: wrong passwords since the last login, by key their time

vars == <<now, row, attempts, client, left, cookie, process, era, tries>>

Role == {"admin", "viewer"}
Row == [status : {"none", "enabled", "disabled"}, role : Role, must : BOOLEAN, version : Nat,
        password : Password, updatedAt : Nat]
Session == [user : User, version : Nat, expires : Nat, era : Nat]
Kind == {"login", "password", "create", "update", "enable", "disable", "reset"}
\* word: the password given; fresh: the one asked for; seen: the row as it was read;
\* stamp: the updated_at that a login computed; id: what tells the attempts of a client apart.
Request == [pc : {"idle", "checked", "wrong", "proved", "recorded", "listed", "authorized"}, kind : Kind,
            actor : User, user : User, word : Password, fresh : Password, role : Role,
            seen : Row, era : Nat, stamp : Nat, id : Nat]

SomePassword == CHOOSE p \in Password : TRUE
NoUser == [status |-> "none", role |-> "viewer", must |-> FALSE, version |-> 0,
           password |-> SomePassword, updatedAt |-> 0]
NoSession == [user |-> Bootstrap, version |-> 0, expires |-> 0, era |-> 0]
Idle == [pc |-> "idle", kind |-> "login", actor |-> Bootstrap, user |-> Bootstrap, word |-> SomePassword,
         fresh |-> SomePassword, role |-> "viewer", seen |-> NoUser, era |-> 0, stamp |-> 0,
         id |-> 0]

\* The list of a user's failures: their times, by the key of the attempt.
Key(c) == <<c, client[c].id>>
NoTimes == [k \in {} |-> 0]
Noted(times, k) == [j \in DOMAIN times \cup {k} |-> IF j = k THEN now ELSE times[j]]

Exists(u) == row[u].status # "none"
Credentials(r) == <<r.password, r.role, r.status>>
EraOf(u, r) == IF Credentials(r) = Credentials(row[u]) THEN era[u] ELSE era[u] + 1

\* A table that nobody has used, or one with an enabled administrator, some of whose users
\* are logged in.
Init ==
    /\ now = 1
    /\ row \in [User -> {NoUser} \cup
                        [status : {"enabled", "disabled"}, role : Role, must : {FALSE}, version : {1},
                         password : {SomePassword}, updatedAt : {1}]]
    /\ \/ \A u \in User : row[u] = NoUser
       \/ row[Bootstrap].status = "enabled" /\ row[Bootstrap].role = "admin"
    /\ attempts = [u \in User |-> [failures |-> NoTimes, blockedUntil |-> 0]]
    /\ client = [c \in Client |-> Idle] /\ left = MaxRequests
    /\ cookie \in [Client -> {NoSession} \cup
                             [user : {u \in User : Exists(u)}, version : {1}, expires : {1 + MaxAge}, era : {0}]]
    /\ process = [p \in Process |-> IF Exists(Bootstrap) THEN "up" ELSE "starting"]
    /\ era = [u \in User |-> 0] /\ tries = [u \in User |-> NoTimes]

-----------------------------------------------------------------------------
(* Start.                                                                   *)

\* EnsureBootstrapAdmin: the count, which locks nothing, and the insertion, in which a
\* duplicate name means that another process was faster.
CountUsers(p) ==
    /\ process[p] = "starting"
    /\ process' = [process EXCEPT ![p] = IF \E u \in User : Exists(u) THEN "up" ELSE "counted"]
    /\ UNCHANGED <<now, row, attempts, client, left, cookie, tries>>
CreateAdmin(p) ==
    /\ process[p] = "counted"
    /\ process' = [process EXCEPT ![p] = "up"]
    /\ row' = IF Exists(Bootstrap) THEN row
              ELSE [row EXCEPT ![Bootstrap] =
                      [status |-> "enabled", role |-> "admin", must |-> TRUE, version |-> 1,
                       password |-> SomePassword, updatedAt |-> now]]
    /\ UNCHANGED <<now, attempts, client, left, cookie, tries>>
Serving == \E p \in Process : process[p] = "up"

-----------------------------------------------------------------------------
(* Login.                                                                   *)

RecentOf(times) == {k \in DOMAIN times : times[k] >= now - Window}
recentFailures(failures) == [k \in RecentOf(failures) |-> failures[k]]

\* LoginLimiter.Check, at the start of a login.
Blocked(u) == attempts[u].blockedUntil > now
\* Mutant: one failure too many.
ExceededLate(u) == Cardinality(RecentOf(attempts[u].failures)) > Limit
Exceeded(u) == Cardinality(RecentOf(attempts[u].failures)) >= Limit
Check(c, u, word) ==
    /\ Serving /\ client[c].pc = "idle" /\ left > 0
    /\ \/ Blocked(u) /\ UNCHANGED <<attempts, client, left>>
       \/ /\ ~Blocked(u) /\ Exceeded(u)
          /\ attempts' = [attempts EXCEPT ![u] = [failures |-> recentFailures(@.failures),
                                                  blockedUntil |-> now + Block]]
          /\ UNCHANGED <<client, left>>
       \/ /\ ~Blocked(u) /\ ~Exceeded(u)
          /\ attempts' = [attempts EXCEPT ![u] = [failures |-> recentFailures(@.failures), blockedUntil |-> 0]]
          /\ client' = [client EXCEPT ![c] = [Idle EXCEPT !.pc = "checked", !.user = u, !.word = word, !.id = left]]
          /\ left' = left - 1
    /\ UNCHANGED <<now, row, cookie, process, tries>>

nextPlatformUserUpdatedAt(at, previous) == IF at <= previous THEN previous + 1 ELSE at

\* FindByUsername and CheckPassword: a user that does not exist fails like a wrong password,
\* and only the right password tells that a user is disabled.
FindByUsername(c) ==
    LET q == client[c]  r == row[q.user]
        right == r.status # "none" /\ r.password = q.word
    IN  /\ q.pc = "checked"
        /\ \/ /\ ~right
              /\ client' = [client EXCEPT ![c].pc = "wrong"]
              /\ tries' = [tries EXCEPT ![q.user] = Noted(@, Key(c))]
           \/ /\ right /\ r.status # "enabled"
              /\ client' = [client EXCEPT ![c] = Idle] /\ UNCHANGED tries
           \/ /\ right /\ r.status = "enabled"
              /\ client' = [client EXCEPT ![c] = [q EXCEPT !.pc = "proved", !.seen = r, !.era = era[q.user],
                                                           !.stamp = nextPlatformUserUpdatedAt(now, r.updatedAt)]]
              /\ UNCHANGED tries
        /\ UNCHANGED <<now, row, attempts, left, cookie, process>>
RecordFailure(c) ==
    LET u == client[c].user
    IN  /\ client[c].pc = "wrong"
        /\ attempts' = [attempts EXCEPT ![u].failures = Noted(recentFailures(@), Key(c))]
        /\ client' = [client EXCEPT ![c] = Idle]
        /\ UNCHANGED <<now, row, left, cookie, process, tries>>
\* The update names the id only: it writes what the login computed from the row it read.
UpdateLastLogin(c) ==
    LET q == client[c]
    IN  /\ q.pc = "proved"
        /\ row' = [row EXCEPT ![q.user].updatedAt = q.stamp]
        /\ client' = [client EXCEPT ![c].pc = "recorded"]
        /\ UNCHANGED <<now, attempts, left, cookie, process, tries>>
\* IdentityFromUser and SessionStore.Write: the cookie is of the row as it was read.
SessionOf(u, version, e) == [user |-> u, version |-> version, expires |-> now + MaxAge, era |-> e]
Login(c) ==
    LET q == client[c]
    IN  /\ q.pc = "recorded"
        /\ attempts' = [attempts EXCEPT ![q.user] = [failures |-> NoTimes, blockedUntil |-> 0]]
        /\ tries' = [tries EXCEPT ![q.user] = NoTimes]
        /\ cookie' = [cookie EXCEPT ![c] = SessionOf(q.user, q.seen.version, q.era)]
        /\ client' = [client EXCEPT ![c] = Idle]
        /\ UNCHANGED <<now, row, left, process>>
Logout(c) ==
    /\ client[c].pc = "idle" /\ cookie[c].version > 0
    /\ cookie' = [cookie EXCEPT ![c] = NoSession]
    /\ UNCHANGED <<now, row, attempts, client, left, process, tries>>

-----------------------------------------------------------------------------
(* Requests with a session.                                                 *)

\* SessionStore.Read, LoadIdentity and, over both of them, ResolveIdentity.
ReadSession(s) == s.version > 0 /\ s.expires > now
LoadIdentity(u) == row[u].status = "enabled"
Accepted(s) == ReadSession(s) /\ LoadIdentity(s.user) /\ row[s.user].version = s.version
AdminAuth(u) == row[u].role = "admin"
ForcePasswordChange(u, kind) == row[u].must => kind = "password"
\* UserAuth and the two that follow it on the routes of an administrator.
Authorized(s, kind) ==
    /\ Accepted(s) /\ ForcePasswordChange(s.user, kind)
    /\ kind # "password" => AdminAuth(s.user)

\* A client that will edit a user has listed it before.
List(c, u) ==
    /\ Serving /\ client[c].pc = "idle" /\ left > 0 /\ Authorized(cookie[c], "update")
    /\ client' = [client EXCEPT ![c] = [Idle EXCEPT !.pc = "listed", !.user = u, !.seen = row[u]]]
    /\ UNCHANGED <<now, row, attempts, left, cookie, process, tries>>
\* The middleware lets a request through or refuses it; an edit carries the row as listed.
Authorize(c, kind, u, word, fresh, role) ==
    /\ Serving /\ left > 0
    /\ IF kind = "update" THEN client[c].pc = "listed" /\ client[c].user = u ELSE client[c].pc = "idle"
    /\ left' = left - 1
    /\ client' = [client EXCEPT ![c] =
         IF Authorized(cookie[c], kind)
         THEN [Idle EXCEPT !.pc = "authorized", !.kind = kind, !.actor = cookie[c].user, !.user = u,
                           !.word = word, !.fresh = fresh, !.role = role, !.seen = client[c].seen]
         ELSE Idle]
    /\ UNCHANGED <<now, row, attempts, cookie, process, tries>>

\* LockEnabledAdmins: the locked rows; len(admins) <= 1 with the user among them.
EnabledAdmins == {u \in User : row[u].status = "enabled" /\ row[u].role = "admin"}
\* Mutant: a disabled administrator counts as well.
LastOfAll(u) == u \in EnabledAdmins /\ {w \in User : Exists(w) /\ row[w].role = "admin"} \subseteq {u}
LastAdmin(u) == u \in EnabledAdmins /\ EnabledAdmins \subseteq {u}

Saved(r) == [r EXCEPT !.updatedAt = nextPlatformUserUpdatedAt(now, @)]
\* Mutant: sessions outlive the change.
SameVersion(r) == r
NewVersion(r) == [r EXCEPT !.version = @ + 1]
\* A handler ends its request; a refusal leaves the table alone.
Handle(c, kinds) ==
    /\ client[c].pc = "authorized" /\ client[c].kind \in kinds
    /\ client' = [client EXCEPT ![c] = Idle]
    /\ UNCHANGED <<now, attempts, left, process, tries>>

ChangePassword(c) ==
    LET q == client[c]  r == row[q.actor]
        saved == Saved(NewVersion([r EXCEPT !.password = q.fresh, !.must = FALSE]))
    IN  /\ Handle(c, {"password"})
        /\ \/ (~Exists(q.actor) \/ r.password # q.word) /\ UNCHANGED <<row, cookie>>
           \/ /\ Exists(q.actor) /\ r.password = q.word
              /\ row' = [row EXCEPT ![q.actor] = saved]
              /\ cookie' = [cookie EXCEPT ![c] = SessionOf(q.actor, saved.version, EraOf(q.actor, saved))]
Create(c) ==
    LET q == client[c]
    IN  /\ Handle(c, {"create"}) /\ UNCHANGED cookie
        /\ row' = IF Exists(q.user) THEN row
                  ELSE [row EXCEPT ![q.user] =
                          [status |-> "enabled", role |-> q.role, must |-> TRUE, version |-> 1,
                           password |-> q.fresh, updatedAt |-> now]]
Update(c) ==
    LET q == client[c]  r == row[q.user]
        changed == [r EXCEPT !.role = q.role]
    IN  /\ Handle(c, {"update"}) /\ UNCHANGED cookie
        /\ \/ /\ \/ ~Exists(q.user) \/ r.updatedAt # q.seen.updatedAt
                 \/ q.role # "admin" /\ LastAdmin(q.user)
              /\ UNCHANGED row
           \/ /\ Exists(q.user) /\ r.updatedAt = q.seen.updatedAt
              /\ ~(q.role # "admin" /\ LastAdmin(q.user))
              /\ row' = [row EXCEPT ![q.user] =
                           Saved(IF r.role # q.role THEN NewVersion(changed) ELSE changed)]
SetStatus(c) ==
    LET q == client[c]  r == row[q.user]
        status == IF q.kind = "enable" THEN "enabled" ELSE "disabled"
        refused == status = "disabled" /\ (q.actor = q.user \/ LastAdmin(q.user))
    IN  /\ Handle(c, {"enable", "disable"}) /\ UNCHANGED cookie
        /\ \/ (~Exists(q.user) \/ r.status = status \/ refused) /\ UNCHANGED row
           \/ /\ Exists(q.user) /\ r.status # status /\ ~refused
              /\ row' = [row EXCEPT ![q.user] = Saved(NewVersion([r EXCEPT !.status = status]))]
ResetPassword(c) ==
    LET q == client[c]  r == row[q.user]
    IN  /\ Handle(c, {"reset"}) /\ UNCHANGED cookie
        /\ \/ (q.actor = q.user \/ ~Exists(q.user)) /\ UNCHANGED row
           \/ /\ q.actor # q.user /\ Exists(q.user)
              /\ row' = [row EXCEPT ![q.user] =
                           Saved(NewVersion([r EXCEPT !.password = q.fresh, !.must = TRUE]))]

Tick ==
    /\ now < MaxTime /\ now' = now + 1
    /\ UNCHANGED <<row, attempts, client, left, cookie, process, tries>>

LoginStep(c) ==
    \/ \E u \in User, word \in Password : Check(c, u, word)
    \/ FindByUsername(c) \/ RecordFailure(c) \/ UpdateLastLogin(c) \/ Login(c) \/ Logout(c)
HandlerStep(c) ==
    \/ ChangePassword(c) \/ Create(c) \/ Update(c) \/ SetStatus(c) \/ ResetPassword(c)
RequestStep(c) ==
    \/ HandlerStep(c)
    \/ \E word, fresh \in Password : Authorize(c, "password", Bootstrap, word, fresh, "viewer")
    \/ \E u \in User :
          \/ List(c, u)
          \/ \E fresh \in Password, role \in Role : Authorize(c, "create", u, fresh, fresh, role)
          \/ \E fresh \in Password : Authorize(c, "reset", u, fresh, fresh, "viewer")
          \/ \E role \in Role : Authorize(c, "update", u, SomePassword, SomePassword, role)
          \/ \E kind \in {"enable", "disable"} : Authorize(c, kind, u, SomePassword, SomePassword, "viewer")
Step ==
    \/ \E p \in Process : CountUsers(p) \/ CreateAdmin(p)
    \/ \E c \in Client : LoginStep(c) \/ RequestStep(c)
    \/ Tick
\* The history counts what has changed.
Next ==
    /\ Step
    /\ era' = [u \in User |-> EraOf(u, row'[u])]
Spec == Init /\ [][Next]_vars

-----------------------------------------------------------------------------
\* Once there is a user there is an enabled administrator, though administrators demote and
\* disable each other at the same time, each request authorized before the other's change.
AdminRemains == (\E u \in User : Exists(u)) => EnabledAdmins # {}

\* A session is accepted only while password, role and status of its user are as they were
\* when its login read them: a login that was overtaken by a reset or a demotion gets a cookie
\* nobody accepts, and a session from before a disable does not come back with an enable.
SessionsCurrent ==
    \A c \in Client : Accepted(cookie[c]) => cookie[c].era = era[cookie[c].user]

\* Within a window a client tries a name as often as the limit says, and all clients together
\* one time more for each of them that had passed the check before the last failure counted.
By(keys, c) == {k \in keys : k[1] = c}
TriesBounded ==
    \A u \in User :
        /\ Cardinality(RecentOf(tries[u])) <= Limit - 1 + Cardinality(Client)
        /\ \A c \in Client : Cardinality(By(RecentOf(tries[u]), c)) <= Limit

\* 05C: every write of a user moves updated_at forward, the token of concurrent edits.
TokenAdvances == [][\A u \in User : row'[u] # row[u] => row'[u].updatedAt > row[u].updatedAt]_vars

-----------------------------------------------------------------------------
(* Proofs.  A version and the history it was read with fit the table: the   *)
(* version is not ahead of the row, and where it is the row's the history is *)
(* the row's too.  Sessions and logins under way fit; so whatever the middle-*)
(* ware accepts is current.                                                 *)

Fits(u, version, e) ==
    /\ Exists(u) /\ version > 0 /\ version <= row[u].version
    /\ version = row[u].version => e = era[u]
SessionsFit == \A c \in Client : cookie[c].version > 0 => Fits(cookie[c].user, cookie[c].version, cookie[c].era)
LoginsFit ==
    \A c \in Client : client[c].pc \in {"proved", "recorded"} =>
        Fits(client[c].user, client[c].seen.version, client[c].era)
RequestsFit == \A c \in Client : client[c].pc = "authorized" => Exists(client[c].actor)
RowsFit == \A u \in User : Exists(u) <=> row[u].version > 0

\* The variables the argument is about keep their declared shape.
UsersTyped ==
    /\ now \in Nat /\ left \in Nat /\ row \in [User -> Row] /\ client \in [Client -> Request]
    /\ cookie \in [Client -> Session] /\ era \in [User -> Nat]
UsersInv == UsersTyped /\ RowsFit /\ SessionsFit /\ LoginsFit /\ RequestsFit /\ AdminRemains

LEMMA UsersConstants ==
    /\ Bootstrap \in User /\ SomePassword \in Password
    /\ Limit \in Nat /\ Window \in Nat /\ Block \in Nat /\ MaxAge \in Nat /\ MaxTime \in Nat
    /\ MaxRequests \in Nat /\ Limit > 0 /\ IsFiniteSet(Client)
    /\ NoUser \in Row /\ NoSession \in Session /\ Idle \in Request
<1>1. SomePassword \in Password
  BY UserAssumption DEF UserAssumption, SomePassword
<1>2. NoUser \in Row
  BY <1>1 DEF NoUser, Row, Role
<1>3. NoSession \in Session
  BY UserAssumption DEF UserAssumption, NoSession, Session
<1>4. Idle \in Request
  BY <1>1, <1>2, UserAssumption DEF UserAssumption, Idle, Request, Kind, Role
<1> QED
  BY <1>1, <1>2, <1>3, <1>4, UserAssumption, LimiterAssumption, UserBoundAssumption
     DEF UserAssumption, LimiterAssumption, UserBoundAssumption

LEMMA UsersStart == Init => UsersInv
<1> SUFFICES ASSUME Init PROVE UsersInv
  OBVIOUS
<1>1. now \in Nat /\ left \in Nat /\ era \in [User -> Nat] /\ client \in [Client -> Request]
  BY UsersConstants DEF Init
<1>2. /\ row \in [User -> Row]
      /\ \A u \in User : row[u].version = IF Exists(u) THEN 1 ELSE 0
  <2>1. \A u \in User : row[u] = NoUser \/
           row[u] \in [status : {"enabled", "disabled"}, role : Role, must : {FALSE}, version : {1},
                       password : {SomePassword}, updatedAt : {1}]
    BY DEF Init
  <2>2. [status : {"enabled", "disabled"}, role : Role, must : {FALSE}, version : {1},
         password : {SomePassword}, updatedAt : {1}] \subseteq Row
    <3>1. /\ {"enabled", "disabled"} \subseteq {"none", "enabled", "disabled"} /\ {FALSE} \subseteq BOOLEAN
          /\ {1} \subseteq Nat /\ {SomePassword} \subseteq Password
      BY UsersConstants
    <3>2. ASSUME NEW A, NEW B, A \subseteq B, NEW C, NEW D, C \subseteq D, NEW E, NEW F, E \subseteq F,
                 NEW G, NEW H, G \subseteq H
          PROVE  [status : A, role : Role, must : C, version : E, password : G, updatedAt : E]
                   \subseteq [status : B, role : Role, must : D, version : F, password : H, updatedAt : F]
      BY <3>2
    <3> QED
      BY <3>1, <3>2 DEF Row
  <2>3. \A u \in User : row[u] \in Row
    BY <2>1, <2>2, UsersConstants
  <2>4. NoUser.status = "none" /\ NoUser.version = 0
    BY DEF NoUser
  <2>5. \A u \in User : row[u].version = IF Exists(u) THEN 1 ELSE 0
    BY <2>1, <2>4 DEF Exists
  <2> QED
    BY <2>3, <2>5 DEF Init
<1>3. \A c \in Client : cookie[c] = NoSession \/
         (/\ cookie[c] \in [user : {u \in User : Exists(u)}, version : {1}, expires : {1 + MaxAge}, era : {0}]
          /\ cookie[c].user \in User /\ Exists(cookie[c].user) /\ cookie[c].version = 1 /\ cookie[c].era = 0)
  BY DEF Init
<1>4. cookie \in [Client -> Session]
  <2>1. \A c \in Client : cookie[c] \in Session
    BY <1>3, UsersConstants DEF Session
  <2> QED
    BY <2>1 DEF Init
<1>5. SessionsFit
  BY <1>2, <1>3 DEF SessionsFit, Fits, Init, NoSession
<1>6. LoginsFit /\ RequestsFit
  BY DEF LoginsFit, RequestsFit, Init, Idle
<1>7. AdminRemains
  <2>1. CASE \A u \in User : row[u] = NoUser
    BY <2>1 DEF AdminRemains, Exists, NoUser
  <2>2. CASE row[Bootstrap].status = "enabled" /\ row[Bootstrap].role = "admin"
    BY <2>2, UsersConstants DEF AdminRemains, EnabledAdmins
  <2> QED
    BY <2>1, <2>2 DEF Init
<1> QED
  BY <1>1, <1>2, <1>4, <1>5, <1>6, <1>7 DEF UsersInv, UsersTyped, RowsFit

\* What every step does to the rows: a change of password, role or status has a new version,
\* no row goes away, and an enabled administrator remains.
Moved(u) ==
    \/ Credentials(row'[u]) = Credentials(row[u]) /\ row'[u].version >= row[u].version
    \/ row'[u].status # "none" /\ row'[u].version > row[u].version
Keeps ==
    /\ row' \in [User -> Row]
    /\ \A u \in User : Moved(u)
    /\ \A u \in User : row'[u].status # "none" \/ row'[u] = row[u]
    /\ AdminRemains'

LEMMA KeepsUnchanged ==
    ASSUME UsersInv, UNCHANGED row PROVE Keeps
<1>1. row' \in [User -> Row] /\ \A u \in User : row[u].version \in Nat
  BY DEF UsersInv, UsersTyped, Row
<1> QED
  BY <1>1 DEF UsersInv, Keeps, Moved, AdminRemains, EnabledAdmins, Exists, Credentials

\* One row is replaced: the step keeps what it should if the new row does.
LEMMA KeepsReplaced ==
    ASSUME UsersInv, NEW u \in User, NEW r \in Row, row' = [row EXCEPT ![u] = r],
           \/ Credentials(r) = Credentials(row[u]) /\ r.version >= row[u].version
           \/ r.status # "none" /\ r.version > row[u].version,
           r.status # "none",
           \/ r.status = "enabled" /\ r.role = "admin"
           \/ ~LastAdmin(u) /\ \E w \in User : Exists(w)
    PROVE  Keeps
<1>1. row \in [User -> Row] /\ \A w \in User : row[w].version \in Nat
  BY DEF UsersInv, UsersTyped, Row
<1>2. row' \in [User -> Row] /\ row'[u] = r /\ \A w \in User : w # u => row'[w] = row[w]
  BY <1>1
<1>3. \A w \in User : Moved(w)
  BY <1>1, <1>2 DEF Moved, Credentials
<1>4. \A w \in User : row'[w].status # "none" \/ row'[w] = row[w]
  BY <1>2
<1>5. EnabledAdmins' # {}
  <2>1. CASE r.status = "enabled" /\ r.role = "admin"
    BY <2>1, <1>2 DEF EnabledAdmins
  <2>2. CASE ~LastAdmin(u) /\ \E w \in User : Exists(w)
    <3>1. PICK a \in EnabledAdmins : a # u
      BY <2>2 DEF LastAdmin, UsersInv, AdminRemains
    <3> QED
      BY <3>1, <1>2 DEF EnabledAdmins
  <2> QED
    BY <2>1, <2>2
<1> QED
  BY <1>2, <1>3, <1>4, <1>5 DEF Keeps, AdminRemains

\* The rows handlers write.
LEMMA SavedRow ==
    ASSUME NEW r \in Row, now \in Nat
    PROVE  /\ Saved(r) \in Row /\ Saved(NewVersion(r)) \in Row
           /\ Credentials(Saved(r)) = Credentials(r) /\ Saved(r).version = r.version
           /\ Credentials(Saved(NewVersion(r))) = Credentials(r)
           /\ Saved(NewVersion(r)).version = r.version + 1
<1>1. r.version \in Nat /\ r.updatedAt \in Nat
  BY DEF Row
<1>2. nextPlatformUserUpdatedAt(now, r.updatedAt) \in Nat
  BY <1>1 DEF nextPlatformUserUpdatedAt
<1>3. ASSUME NEW q \in Row, NEW t \in Nat
      PROVE  [q EXCEPT !.updatedAt = t] \in Row /\ [q EXCEPT !.version = t] \in Row
  BY <1>3 DEF Row
<1>4. Saved(r) = [r EXCEPT !.updatedAt = nextPlatformUserUpdatedAt(now, r.updatedAt)]
  BY DEF Saved, Row
<1>5. NewVersion(r) = [r EXCEPT !.version = r.version + 1]
  BY DEF NewVersion, Row
<1>6. NewVersion(r) \in Row /\ NewVersion(r).updatedAt = r.updatedAt
  BY <1>1, <1>3, <1>5 DEF Row
<1>7. Saved(NewVersion(r)) = [NewVersion(r) EXCEPT !.updatedAt = nextPlatformUserUpdatedAt(now, r.updatedAt)]
  BY <1>6 DEF Saved, Row
<1>8. Saved(r) \in Row /\ Saved(NewVersion(r)) \in Row
  BY <1>2, <1>3, <1>4, <1>6, <1>7
<1> QED
  BY <1>4, <1>5, <1>6, <1>7, <1>8 DEF Credentials, Row

LEMMA StepKeeps ==
    ASSUME UsersInv, Step PROVE Keeps
<1>1. row \in [User -> Row] /\ client \in [Client -> Request] /\ now \in Nat
  BY DEF UsersInv, UsersTyped
<1>2. \A c \in Client : /\ client[c].user \in User /\ client[c].actor \in User /\ client[c].role \in Role
                        /\ client[c].fresh \in Password /\ client[c].stamp \in Nat
  BY <1>1 DEF Request
<1>3. ASSUME NEW p \in Process, CountUsers(p) \/ CreateAdmin(p) PROVE Keeps
  <2>1. CASE UNCHANGED row
    BY <2>1, KeepsUnchanged
  <2>2. CASE CreateAdmin(p) /\ ~Exists(Bootstrap)
    <3> DEFINE r == [status |-> "enabled", role |-> "admin", must |-> TRUE, version |-> 1,
                     password |-> SomePassword, updatedAt |-> now]
    <3>1. r \in Row /\ r.status = "enabled" /\ r.role = "admin" /\ r.version = 1
      BY <1>1, UsersConstants DEF Row, Role
    <3>2. row' = [row EXCEPT ![Bootstrap] = r]
      BY <2>2 DEF CreateAdmin
    <3>3. r.version > row[Bootstrap].version
      <4>1. row[Bootstrap].version \in Nat /\ ~(row[Bootstrap].version > 0)
        BY <1>1, <2>2, UsersConstants DEF UsersInv, RowsFit, Row
      <4> QED
        BY <4>1, <3>1
    <3> HIDE DEF r
    <3> QED
      BY <3>1, <3>2, <3>3, KeepsReplaced, UsersConstants
  <2> QED
    BY <1>3, <2>1, <2>2 DEF CountUsers, CreateAdmin
<1>4. ASSUME NEW c \in Client, UpdateLastLogin(c) PROVE Keeps
  <2> DEFINE u == client[c].user
             r == [row[u] EXCEPT !.updatedAt = client[c].stamp]
  <2>1. row' = [row EXCEPT ![u] = r]
    BY <1>4 DEF UpdateLastLogin
  <2>2. /\ r \in Row /\ Credentials(r) = Credentials(row[u]) /\ r.version = row[u].version
        /\ r.status = row[u].status /\ r.role = row[u].role /\ r.version \in Nat
    BY <1>1, <1>2 DEF Row, Credentials
  <2>3. Exists(u)
    BY <1>4 DEF UpdateLastLogin, UsersInv, LoginsFit, Fits
  <2>4. r.status # "none" /\ (~LastAdmin(u) \/ (r.status = "enabled" /\ r.role = "admin"))
    BY <2>2, <2>3 DEF Exists, EnabledAdmins, LastAdmin
  <2>5. r.version >= row[u].version
    BY <2>2
  <2> HIDE DEF r
  <2> QED
    BY <1>2, <2>1, <2>2, <2>3, <2>4, <2>5, KeepsReplaced
<1>5. ASSUME NEW c \in Client, ChangePassword(c) PROVE Keeps
  <2> DEFINE u == client[c].actor
             q == [row[u] EXCEPT !.password = client[c].fresh, !.must = FALSE]
             r == Saved(NewVersion(q))
  <2>1. CASE UNCHANGED row
    BY <2>1, KeepsUnchanged
  <2>2. CASE Exists(u) /\ row' = [row EXCEPT ![u] = r]
    <3>1. q \in Row /\ q.status = row[u].status /\ q.role = row[u].role /\ q.version = row[u].version
      <4>1. row[u] \in Row /\ client[c].fresh \in Password
        BY <1>1, <1>2
      <4> HIDE DEF u
      <4> QED
        BY <4>1 DEF Row
    <3>2. r \in Row /\ r.version = row[u].version + 1 /\ Credentials(r) = Credentials(q)
      BY <1>1, <3>1, SavedRow
    <3>3. r.status = row[u].status /\ r.role = row[u].role /\ row[u].version \in Nat
      BY <1>1, <1>2, <3>1, <3>2 DEF Credentials, Row
    <3>4. r.status # "none" /\ (~LastAdmin(u) \/ (r.status = "enabled" /\ r.role = "admin"))
      BY <2>2, <3>3 DEF Exists, EnabledAdmins, LastAdmin
    <3>5. r.version > row[u].version
      BY <3>2, <3>3
    <3> HIDE DEF r
    <3> QED
      BY <1>2, <2>2, <3>2, <3>4, <3>5, KeepsReplaced
  <2> QED
    BY <1>5, <2>1, <2>2 DEF ChangePassword
<1>6. ASSUME NEW c \in Client, ResetPassword(c) PROVE Keeps
  <2> DEFINE u == client[c].user
             q == [row[u] EXCEPT !.password = client[c].fresh, !.must = TRUE]
             r == Saved(NewVersion(q))
  <2>1. CASE UNCHANGED row
    BY <2>1, KeepsUnchanged
  <2>2. CASE Exists(u) /\ row' = [row EXCEPT ![u] = r]
    <3>1. q \in Row /\ q.status = row[u].status /\ q.role = row[u].role /\ q.version = row[u].version
      <4>1. row[u] \in Row /\ client[c].fresh \in Password
        BY <1>1, <1>2
      <4> HIDE DEF u
      <4> QED
        BY <4>1 DEF Row
    <3>2. r \in Row /\ r.version = row[u].version + 1 /\ Credentials(r) = Credentials(q)
      BY <1>1, <3>1, SavedRow
    <3>3. r.status = row[u].status /\ r.role = row[u].role /\ row[u].version \in Nat
      BY <1>1, <1>2, <3>1, <3>2 DEF Credentials, Row
    <3>4. r.status # "none" /\ (~LastAdmin(u) \/ (r.status = "enabled" /\ r.role = "admin"))
      BY <2>2, <3>3 DEF Exists, EnabledAdmins, LastAdmin
    <3>5. r.version > row[u].version
      BY <3>2, <3>3
    <3> HIDE DEF r
    <3> QED
      BY <1>2, <2>2, <3>2, <3>4, <3>5, KeepsReplaced
  <2> QED
    BY <1>6, <2>1, <2>2 DEF ResetPassword
<1>7. ASSUME NEW c \in Client, Create(c) PROVE Keeps
  <2> DEFINE u == client[c].user
             r == [status |-> "enabled", role |-> client[c].role, must |-> TRUE, version |-> 1,
                   password |-> client[c].fresh, updatedAt |-> now]
  <2>1. CASE UNCHANGED row
    BY <2>1, KeepsUnchanged
  <2>2. CASE ~Exists(u) /\ row' = [row EXCEPT ![u] = r]
    <3>1. r \in Row /\ r.status # "none" /\ r.version = 1
      BY <1>1, <1>2 DEF Row
    <3>2. row[u].version \in Nat /\ ~(row[u].version > 0)
      BY <1>1, <1>2, <2>2 DEF UsersInv, RowsFit, Row
    <3>3. r.version > row[u].version
      BY <3>1, <3>2
    <3> HIDE DEF r
    <3>4. (\E w \in User : Exists(w)) /\ ~LastAdmin(u)
      <4>1. Exists(client[c].actor)
        BY <1>7 DEF Create, Handle, UsersInv, RequestsFit
      <4>2. u \notin EnabledAdmins
        BY <2>2 DEF EnabledAdmins, Exists
      <4> QED
        BY <1>2, <4>1, <4>2 DEF LastAdmin
    <3> QED
      BY <1>2, <2>2, <3>1, <3>3, <3>4, KeepsReplaced
  <2> QED
    BY <1>7, <2>1, <2>2 DEF Create
<1>8. ASSUME NEW c \in Client, Update(c) PROVE Keeps
  <2> DEFINE u == client[c].user
             q == [row[u] EXCEPT !.role = client[c].role]
             r == Saved(IF row[u].role # client[c].role THEN NewVersion(q) ELSE q)
  <2>1. CASE UNCHANGED row
    BY <2>1, KeepsUnchanged
  <2>2. CASE /\ Exists(u) /\ row' = [row EXCEPT ![u] = r]
             /\ ~(client[c].role # "admin" /\ LastAdmin(u))
    <3>1. /\ q \in Row /\ q.status = row[u].status /\ q.role = client[c].role /\ q.version = row[u].version
          /\ q.password = row[u].password /\ row[u].version \in Nat
      BY <1>1, <1>2 DEF Row
    <3>2. /\ r \in Row /\ Credentials(r) = Credentials(q)
          /\ r.version = IF row[u].role # client[c].role THEN row[u].version + 1 ELSE row[u].version
      BY <1>1, <3>1, SavedRow
    <3>3. r.status = row[u].status /\ r.role = client[c].role
      BY <3>1, <3>2 DEF Credentials
    <3>4. r.status # "none" /\ (~LastAdmin(u) \/ (r.status = "enabled" /\ r.role = "admin"))
      BY <2>2, <3>3 DEF Exists, EnabledAdmins, LastAdmin
    <3>5. \/ Credentials(r) = Credentials(row[u]) /\ r.version >= row[u].version
          \/ r.status # "none" /\ r.version > row[u].version
      BY <3>1, <3>2, <3>4 DEF Credentials
    <3> HIDE DEF r
    <3> QED
      BY <1>2, <2>2, <3>2, <3>4, <3>5, KeepsReplaced
  <2> QED
    BY <1>8, <2>1, <2>2 DEF Update
<1>9. ASSUME NEW c \in Client, SetStatus(c) PROVE Keeps
  <2> DEFINE u == client[c].user
             status == IF client[c].kind = "enable" THEN "enabled" ELSE "disabled"
             q == [row[u] EXCEPT !.status = status]
             r == Saved(NewVersion(q))
  <2>1. CASE UNCHANGED row
    BY <2>1, KeepsUnchanged
  <2>2. CASE /\ Exists(u) /\ row' = [row EXCEPT ![u] = r] /\ row[u].status # status
             /\ ~(status = "disabled" /\ LastAdmin(u))
    <3>a. status \in {"enabled", "disabled"}
      OBVIOUS
    <3>b. ~LastAdmin(u)
      BY <2>2 DEF LastAdmin, EnabledAdmins
    <3> HIDE DEF status
    <3>1. /\ q \in Row /\ q.status = status /\ q.role = row[u].role /\ q.version = row[u].version
          /\ row[u].version \in Nat
      BY <1>1, <1>2, <3>a DEF Row
    <3>2. r \in Row /\ r.version = row[u].version + 1 /\ Credentials(r) = Credentials(q)
      BY <1>1, <3>1, SavedRow
    <3>3. r.status = status /\ r.status # "none" /\ r.version > row[u].version
      BY <3>1, <3>2, <3>a DEF Credentials
    <3> HIDE DEF r
    <3> QED
      BY <1>2, <2>2, <3>2, <3>3, <3>b, KeepsReplaced
  <2> QED
    BY <1>9, <2>1, <2>2 DEF SetStatus
<1>10. ASSUME UNCHANGED row PROVE Keeps
  BY <1>10, KeepsUnchanged
<1>11. ASSUME NEW c \in Client, LoginStep(c) PROVE Keeps
  BY <1>11, <1>4, <1>10 DEF LoginStep, Check, FindByUsername, RecordFailure, Login, Logout
<1>12. ASSUME NEW c \in Client, RequestStep(c) PROVE Keeps
  BY <1>12, <1>5, <1>6, <1>7, <1>8, <1>9, <1>10 DEF RequestStep, HandlerStep, List, Authorize
<1> QED
  BY <1>3, <1>10, <1>11, <1>12 DEF Step, Tick

\* What fitted before a step fits after it: a new version leaves it behind, and without one the
\* history is the same.
LEMMA StillFits ==
    ASSUME UsersInv, Keeps, era' = [w \in User |-> EraOf(w, row'[w])],
           NEW u \in User, NEW version \in Nat, NEW e, Fits(u, version, e)
    PROVE  Fits(u, version, e)'
<1>1. row[u].version \in Nat /\ row'[u].version \in Nat /\ Moved(u)
  BY DEF UsersInv, UsersTyped, Keeps, Row
<1>2. row'[u].status # "none"
  BY DEF Keeps, Fits, Exists
<1>3. CASE row'[u].version > row[u].version
  BY <1>1, <1>2, <1>3 DEF Fits, Exists
<1>4. CASE Credentials(row'[u]) = Credentials(row[u]) /\ row'[u].version = row[u].version
  <2>1. era'[u] = era[u]
    BY <1>4 DEF EraOf
  <2> QED
    BY <1>2, <1>4, <2>1 DEF Fits, Exists
<1> QED
  BY <1>1, <1>3, <1>4 DEF Moved

LEMMA UsersNext ==
    ASSUME UsersInv, Next PROVE UsersInv'
<1>1. Keeps /\ era' = [w \in User |-> EraOf(w, row'[w])]
  BY StepKeeps DEF Next
<1>2. /\ now \in Nat /\ left \in Nat /\ row \in [User -> Row] /\ client \in [Client -> Request]
      /\ cookie \in [Client -> Session] /\ era \in [User -> Nat]
  BY DEF UsersInv, UsersTyped
<1>3. row' \in [User -> Row] /\ AdminRemains'
  BY <1>1 DEF Keeps
<1>4. era' \in [User -> Nat]
  BY <1>1, <1>2 DEF EraOf
<1>5. RowsFit'
  <2>1. ASSUME NEW u \in User PROVE row'[u].status # "none" <=> row'[u].version > 0
    <3>1. row[u].version \in Nat /\ row'[u].version \in Nat
      BY <1>2, <1>3 DEF Row
    <3>2. row[u].status # "none" <=> row[u].version > 0
      BY DEF UsersInv, RowsFit, Exists
    <3> QED
      BY <1>1, <3>1, <3>2 DEF Keeps, Moved, Credentials
  <2> QED
    BY <2>1 DEF RowsFit, Exists
<1>6. \A u \in User, version \in Nat, e \in Nat : Fits(u, version, e) => Fits(u, version, e)'
  BY <1>1, StillFits
<1>7. \A u \in User : Exists(u) => Exists(u)'
  BY <1>1 DEF Keeps, Exists
<1> DEFINE CookieOk(d) == /\ cookie'[d] \in Session
                          /\ cookie'[d].version > 0 => Fits(cookie[d].user, cookie[d].version, cookie[d].era)'
           ClientOk(d) == /\ client'[d] \in Request
                          /\ client'[d].pc \in {"proved", "recorded"}
                               => Fits(client[d].user, client[d].seen.version, client[d].era)'
                          /\ client'[d].pc = "authorized" => Exists(client[d].actor)'
           Ok == /\ cookie' = [d \in Client |-> cookie'[d]] /\ client' = [d \in Client |-> client'[d]]
                 /\ \A d \in Client : CookieOk(d) /\ ClientOk(d)
<1>8. ASSUME NEW d \in Client, cookie'[d] = cookie[d] PROVE CookieOk(d)
  <2>1. cookie[d].user \in User /\ cookie[d].version \in Nat /\ cookie[d].era \in Nat
    BY <1>2 DEF Session
  <2> QED
    BY <1>2, <1>6, <1>8, <2>1 DEF UsersInv, SessionsFit
<1>9. ASSUME NEW d \in Client, client'[d] = client[d] PROVE ClientOk(d)
  <2>1. /\ client[d].user \in User /\ client[d].seen.version \in Nat /\ client[d].era \in Nat
        /\ client[d].actor \in User
    BY <1>2 DEF Request, Row
  <2> QED
    BY <1>2, <1>6, <1>7, <1>9, <2>1 DEF UsersInv, LoginsFit, RequestsFit
<1>10. ASSUME NEW d \in Client, client'[d] = Idle PROVE ClientOk(d)
  BY <1>10, UsersConstants DEF Idle
<1>11. ASSUME UNCHANGED <<client, cookie>> PROVE Ok
  BY <1>2, <1>8, <1>9, <1>11
<1>12. ASSUME NEW c \in Client, NEW q, client' = [client EXCEPT ![c] = q], UNCHANGED cookie,
              client'[c] = q => ClientOk(c)
       PROVE  Ok
  <2>1. client' = [d \in Client |-> client'[d]] /\ client'[c] = q /\ \A d \in Client : d # c => client'[d] = client[d]
    BY <1>2, <1>12
  <2>2. cookie' = [d \in Client |-> cookie'[d]] /\ \A d \in Client : cookie'[d] = cookie[d]
    BY <1>2, <1>12
  <2> HIDE DEF ClientOk, CookieOk
  <2> QED
    BY <2>1, <2>2, <1>8, <1>9, <1>12
<1>13. ASSUME NEW c \in Client, NEW s, client' = [client EXCEPT ![c] = Idle] \/ client' = client,
              cookie' = [cookie EXCEPT ![c] = s], cookie'[c] = s => CookieOk(c)
       PROVE  Ok
  <2>1. client' = [d \in Client |-> client'[d]] /\ \A d \in Client : client'[d] \in {Idle, client[d]}
    BY <1>2, <1>13
  <2>2. cookie' = [d \in Client |-> cookie'[d]] /\ cookie'[c] = s /\ \A d \in Client : d # c => cookie'[d] = cookie[d]
    BY <1>2, <1>13
  <2> HIDE DEF ClientOk, CookieOk
  <2> QED
    BY <2>1, <2>2, <1>8, <1>9, <1>10, <1>13
<1>14. ASSUME NEW c \in Client, NEW u \in User, NEW word \in Password, Check(c, u, word) PROVE Ok
  <2>1. [Idle EXCEPT !.pc = "checked", !.user = u, !.word = word, !.id = left] \in Request
    BY <1>2, UsersConstants DEF Request
  <2>2. [Idle EXCEPT !.pc = "checked", !.user = u, !.word = word, !.id = left].pc = "checked"
    BY DEF Idle
  <2>3. CASE UNCHANGED client
    BY <1>11, <1>14, <2>3 DEF Check
  <2>4. CASE client' = [client EXCEPT ![c] = [Idle EXCEPT !.pc = "checked", !.user = u, !.word = word, !.id = left]]
    BY <1>12, <1>14, <2>1, <2>2, <2>4 DEF Check
  <2> HIDE DEF Ok
  <2> QED
    BY <1>14, <2>3, <2>4 DEF Check
<1>15. ASSUME NEW c \in Client, FindByUsername(c) PROVE Ok
  <2>1. client[c] \in Request /\ client[c].user \in User
    BY <1>2 DEF Request
  <2>2. UNCHANGED cookie
    BY <1>15 DEF FindByUsername
  <2>3. CASE client' = [client EXCEPT ![c].pc = "wrong"]
    <3> DEFINE q == [client[c] EXCEPT !.pc = "wrong"]
    <3>1. client' = [client EXCEPT ![c] = q]
      BY <2>3
    <3>2. q \in Request /\ q.pc = "wrong"
      BY <2>1 DEF Request
    <3> HIDE DEF q, Ok
    <3> QED
      BY <1>12, <2>2, <3>1, <3>2
  <2>4. CASE client' = [client EXCEPT ![c] = Idle]
    BY <1>10, <1>12, <2>2, <2>4
  <2>5. CASE /\ row[client[c].user].status = "enabled"
             /\ client' = [client EXCEPT ![c] =
                  [client[c] EXCEPT !.pc = "proved", !.seen = row[client[c].user], !.era = era[client[c].user],
                     !.stamp = nextPlatformUserUpdatedAt(now, row[client[c].user].updatedAt)]]
    <3> DEFINE u == client[c].user
               q == [client[c] EXCEPT !.pc = "proved", !.seen = row[u], !.era = era[u],
                       !.stamp = nextPlatformUserUpdatedAt(now, row[u].updatedAt)]
    <3>1. row[u] \in Row /\ era[u] \in Nat /\ row[u].version \in Nat /\ row[u].updatedAt \in Nat
      BY <1>2, <2>1 DEF Row
    <3>2. nextPlatformUserUpdatedAt(now, row[u].updatedAt) \in Nat
      BY <1>2, <3>1 DEF nextPlatformUserUpdatedAt
    <3>3. q \in Request /\ q.user = u /\ q.pc = "proved" /\ q.seen = row[u] /\ q.era = era[u]
      BY <2>1, <3>1, <3>2 DEF Request
    <3>4. Fits(u, row[u].version, era[u])
      BY <2>1, <2>5, <3>1 DEF UsersInv, RowsFit, Fits, Exists
    <3>5. PICK w \in User, v \in Nat, e \in Nat : w = u /\ v = row[u].version /\ e = era[u]
      BY <2>1, <3>1
    <3>6. Fits(w, v, e)'
      BY <1>6, <3>4, <3>5
    <3>7. ASSUME client'[c] = q PROVE ClientOk(c)
      <4>1. client'[c].user = w /\ client'[c].seen.version = v /\ client'[c].era = e
        BY <3>3, <3>5, <3>7
      <4>2. Fits(client[c].user, client[c].seen.version, client[c].era)'
        BY <3>6, <4>1 DEF Fits, Exists
      <4> QED
        BY <3>3, <3>7, <4>2
    <3>8. client' = [client EXCEPT ![c] = q]
      BY <2>5
    <3> HIDE DEF q, Ok, ClientOk
    <3> QED
      BY <1>12, <2>2, <3>7, <3>8
  <2> HIDE DEF Ok
  <2> QED
    BY <1>15, <2>3, <2>4, <2>5 DEF FindByUsername
<1>16. ASSUME NEW c \in Client, RecordFailure(c) PROVE Ok
  BY <1>10, <1>12, <1>16 DEF RecordFailure
<1>17. ASSUME NEW c \in Client, UpdateLastLogin(c) PROVE Ok
  <2> DEFINE q == [client[c] EXCEPT !.pc = "recorded"]
  <2>1. client' = [client EXCEPT ![c] = q] /\ UNCHANGED cookie
    BY <1>17 DEF UpdateLastLogin
  <2>2. /\ q \in Request /\ q.pc = "recorded" /\ q.user = client[c].user /\ q.seen = client[c].seen
        /\ q.era = client[c].era
    BY <1>2 DEF Request
  <2>3. PICK w \in User, v \in Nat, e \in Nat :
           w = client[c].user /\ v = client[c].seen.version /\ e = client[c].era
    BY <1>2 DEF Request, Row
  <2>4. Fits(w, v, e)
    BY <1>17, <2>3 DEF UpdateLastLogin, UsersInv, LoginsFit
  <2>5. Fits(w, v, e)'
    BY <1>6, <2>4
  <2>6. ASSUME client'[c] = q PROVE ClientOk(c)
    <3>1. client'[c].user = w /\ client'[c].seen.version = v /\ client'[c].era = e
      BY <2>2, <2>3, <2>6
    <3>2. Fits(client[c].user, client[c].seen.version, client[c].era)'
      BY <2>5, <3>1 DEF Fits, Exists
    <3> QED
      BY <2>2, <2>6, <3>2
  <2> HIDE DEF q, Ok, ClientOk
  <2> QED
    BY <1>12, <2>1, <2>6
<1>18. ASSUME NEW c \in Client, Login(c) PROVE Ok
  <2> DEFINE s == SessionOf(client[c].user, client[c].seen.version, client[c].era)
  <2>1. client' = [client EXCEPT ![c] = Idle] /\ cookie' = [cookie EXCEPT ![c] = s]
    BY <1>18 DEF Login
  <2>2. PICK w \in User, v \in Nat, e \in Nat :
           w = client[c].user /\ v = client[c].seen.version /\ e = client[c].era
    BY <1>2 DEF Request, Row
  <2>3. s \in Session /\ s.user = w /\ s.version = v /\ s.era = e
    BY <1>2, <2>2, UsersConstants DEF SessionOf, Session
  <2>4. Fits(w, v, e)
    BY <1>18, <2>2 DEF Login, UsersInv, LoginsFit
  <2>5. Fits(w, v, e)'
    BY <1>6, <2>4
  <2>6. ASSUME cookie'[c] = s PROVE CookieOk(c)
    <3>1. Fits(cookie[c].user, cookie[c].version, cookie[c].era)'
      BY <2>3, <2>5, <2>6 DEF Fits, Exists
    <3> QED
      BY <2>3, <2>6, <3>1
  <2> HIDE DEF s, Ok, CookieOk
  <2> QED
    BY <1>13, <2>1, <2>6
<1>19. ASSUME NEW c \in Client, Logout(c) PROVE Ok
  <2>1. NoSession.version = 0
    BY DEF NoSession
  <2>2. ASSUME cookie'[c] = NoSession PROVE CookieOk(c)
    BY <2>1, <2>2, UsersConstants
  <2> HIDE DEF Ok, CookieOk
  <2> QED
    BY <1>13, <1>19, <2>2 DEF Logout
<1>20. ASSUME NEW c \in Client, Create(c) \/ Update(c) \/ SetStatus(c) \/ ResetPassword(c) PROVE Ok
  <2>1. client' = [client EXCEPT ![c] = Idle] /\ UNCHANGED cookie
    BY <1>20 DEF Create, Update, SetStatus, ResetPassword, Handle
  <2> HIDE DEF Ok, ClientOk
  <2> QED
    BY <1>10, <1>12, <2>1
<1>21. ASSUME NEW c \in Client, ChangePassword(c) PROVE Ok
  <2> DEFINE u == client[c].actor
             r == Saved(NewVersion([row[u] EXCEPT !.password = client[c].fresh, !.must = FALSE]))
             s == SessionOf(u, r.version, EraOf(u, r))
  <2>1. client' = [client EXCEPT ![c] = Idle]
    BY <1>21 DEF ChangePassword, Handle
  <2>2. CASE UNCHANGED cookie
    <3> HIDE DEF Ok, ClientOk
    <3> QED
      BY <1>10, <1>12, <2>1, <2>2
  <2>3. CASE row' = [row EXCEPT ![u] = r] /\ cookie' = [cookie EXCEPT ![c] = s] /\ Exists(u)
    <3>1. u \in User /\ row'[u] = r /\ era'[u] = EraOf(u, r)
      <4>1. u \in User
        BY <1>2 DEF Request
      <4> QED
        BY <1>1, <1>2, <2>3, <4>1
    <3>2. r \in Row /\ r.version \in Nat /\ EraOf(u, r) \in Nat
      BY <1>3, <1>4, <3>1 DEF Row
    <3> HIDE DEF r, u
    <3>3. PICK w \in User, v \in Nat, e \in Nat : w = u /\ v = r.version /\ e = EraOf(u, r)
      BY <3>1, <3>2
    <3>4. s \in Session /\ s.user = w /\ s.version = v /\ s.era = e
      BY <1>2, <3>3, UsersConstants DEF SessionOf, Session
    <3>5. row'[w].version = v /\ era'[w] = e /\ row'[w].status # "none"
      BY <1>1, <2>3, <3>1, <3>3 DEF Keeps, Exists
    <3>6. v > 0
      BY <1>5, <3>3, <3>5 DEF RowsFit, Exists
    <3>7. Fits(w, v, e)'
      BY <3>3, <3>5, <3>6 DEF Fits, Exists
    <3>8. ASSUME cookie'[c] = s PROVE CookieOk(c)
      <4>1. Fits(cookie[c].user, cookie[c].version, cookie[c].era)'
        BY <3>4, <3>7, <3>8 DEF Fits, Exists
      <4> QED
        BY <3>4, <3>8, <4>1
    <3> HIDE DEF s, Ok, CookieOk
    <3> QED
      BY <1>13, <2>1, <2>3, <3>8
  <2> HIDE DEF Ok
  <2> QED
    BY <1>21, <2>2, <2>3 DEF ChangePassword
<1>22. ASSUME NEW c \in Client, NEW u \in User, List(c, u) PROVE Ok
  <2> DEFINE q == [Idle EXCEPT !.pc = "listed", !.user = u, !.seen = row[u]]
  <2>1. client' = [client EXCEPT ![c] = q] /\ UNCHANGED cookie
    BY <1>22 DEF List
  <2>2. q \in Request /\ q.pc = "listed"
    BY <1>2, UsersConstants DEF Request
  <2>3. ASSUME client'[c] = q PROVE ClientOk(c)
    BY <2>2, <2>3
  <2> HIDE DEF q, Ok, ClientOk
  <2> QED
    BY <1>12, <2>1, <2>3
<1>23. ASSUME NEW c \in Client, NEW kind \in Kind, NEW u \in User, NEW word \in Password,
              NEW fresh \in Password, NEW role \in Role, Authorize(c, kind, u, word, fresh, role)
       PROVE  Ok
  <2> DEFINE q == [Idle EXCEPT !.pc = "authorized", !.kind = kind, !.actor = cookie[c].user, !.user = u,
                               !.word = word, !.fresh = fresh, !.role = role, !.seen = client[c].seen]
  <2>1. UNCHANGED cookie
    BY <1>23 DEF Authorize
  <2>2. CASE client' = [client EXCEPT ![c] = Idle]
    <3> HIDE DEF Ok, ClientOk
    <3> QED
      BY <1>10, <1>12, <2>1, <2>2
  <2>3. CASE Authorized(cookie[c], kind) /\ client' = [client EXCEPT ![c] = q]
    <3>1. cookie[c].user \in User /\ client[c].seen \in Row
      BY <1>2 DEF Session, Request
    <3>2. q \in Request /\ q.pc = "authorized" /\ q.actor = cookie[c].user
      BY <3>1, UsersConstants DEF Request
    <3>3. PICK w \in User : w = cookie[c].user
      BY <3>1
    <3>4. Exists(w)
      BY <2>3, <3>3 DEF Authorized, Accepted, LoadIdentity, Exists
    <3>5. Exists(w)'
      BY <1>7, <3>4
    <3>6. ASSUME client'[c] = q PROVE ClientOk(c)
      <4>1. Exists(client[c].actor)'
        BY <3>2, <3>3, <3>5, <3>6 DEF Exists
      <4> QED
        BY <3>2, <3>6, <4>1
    <3>7. client' = [client EXCEPT ![c] = q]
      BY <2>3
    <3> HIDE DEF q, Ok, ClientOk
    <3> QED
      BY <1>12, <2>1, <3>6, <3>7
  <2> HIDE DEF Ok
  <2> QED
    BY <1>23, <2>2, <2>3 DEF Authorize
<1>24. now' \in Nat /\ left' \in Nat
  <2>1. ASSUME NEW c \in Client, LoginStep(c) PROVE now' = now /\ (left' = left \/ (left > 0 /\ left' = left - 1))
    BY <2>1 DEF LoginStep, Check, FindByUsername, RecordFailure, UpdateLastLogin, Login, Logout
  <2>2. ASSUME NEW c \in Client, HandlerStep(c) PROVE now' = now /\ left' = left
    BY <2>2 DEF HandlerStep, Handle, ChangePassword, Create, Update, SetStatus, ResetPassword
  <2>3. ASSUME NEW c \in Client, RequestStep(c) PROVE now' = now /\ (left' = left \/ (left > 0 /\ left' = left - 1))
    BY <2>2, <2>3 DEF RequestStep, List, Authorize
  <2>4. (now' = now \/ now' = now + 1) /\ (left' = left \/ (left > 0 /\ left' = left - 1))
    BY <2>1, <2>3 DEF Next, Step, CountUsers, CreateAdmin, Tick
  <2> QED
    BY <1>2, <2>4
<1> HIDE DEF Ok
<1>25. ASSUME NEW c \in Client, LoginStep(c) PROVE Ok
  BY <1>14, <1>15, <1>16, <1>17, <1>18, <1>19, <1>25 DEF LoginStep
<1>26. ASSUME NEW c \in Client, RequestStep(c) PROVE Ok
  <2>1. Bootstrap \in User /\ SomePassword \in Password
    BY UsersConstants
  <2> QED
    BY <1>20, <1>21, <1>22, <1>23, <1>26, <2>1 DEF RequestStep, HandlerStep, Kind, Role
<1>27. Ok
  BY <1>11, <1>25, <1>26 DEF Next, Step, CountUsers, CreateAdmin, Tick
<1> USE DEF Ok
<1>28. cookie' \in [Client -> Session] /\ client' \in [Client -> Request]
  BY <1>27
<1>29. SessionsFit' /\ LoginsFit' /\ RequestsFit'
  BY <1>27 DEF SessionsFit, LoginsFit, RequestsFit
<1> QED
  BY <1>3, <1>4, <1>5, <1>24, <1>28, <1>29 DEF UsersInv, UsersTyped

\* What the proof rests on holds in every state.
THEOREM UsersInvariance == Spec => []UsersInv
<1>1. ASSUME UsersInv, UNCHANGED vars PROVE UsersInv'
  BY <1>1 DEF vars, UsersInv, UsersTyped, RowsFit, SessionsFit, LoginsFit, RequestsFit, AdminRemains, Fits, Exists,
              EnabledAdmins
<1> QED
  BY UsersStart, UsersNext, <1>1, PTL DEF Spec

\* Once there is a user there is an enabled administrator, for any number of users, of starts
\* and of clients that demote and disable each other: the guard of Update and SetStatus is
\* evaluated on the rows their transaction locks.
THEOREM AdministratorRemains == Spec => []AdminRemains
<1>1. UsersInv => AdminRemains
  BY DEF UsersInv
<1> QED
  BY UsersInvariance, <1>1, PTL

\* A session that is accepted was given for the password, role and status its user has now: the
\* version of the row counts every change of them, and a login that was overtaken carries the
\* version it read.
THEOREM SessionsAreCurrent == Spec => []SessionsCurrent
<1>1. UsersInv => SessionsCurrent
  BY DEF UsersInv, SessionsFit, Fits, SessionsCurrent, Accepted, ReadSession
<1> QED
  BY UsersInvariance, <1>1, PTL

-----------------------------------------------------------------------------
(* The limit on logins.  An attempt that was let through is pending for its *)
(* user until its failure has left the window: first as the request of its  *)
(* client, then as an entry of the limiter.  Only a check adds to what is   *)
(* pending, and it does so when fewer than Limit entries are recent.        *)

Flying(u) == {c \in Client : client[c].pc \in {"checked", "wrong"} /\ client[c].user = u}
Pending(u) == RecentOf(attempts[u].failures) \cup {Key(c) : c \in Flying(u)}
IsTimes(f) ==
    /\ f = [k \in DOMAIN f |-> f[k]] /\ IsFiniteSet(DOMAIN f) /\ DOMAIN f \subseteq Client \X Nat
    /\ \A k \in DOMAIN f : f[k] \in Nat
LimiterTyped ==
    /\ attempts = [u \in User |-> attempts[u]] /\ tries = [u \in User |-> tries[u]]
    /\ \A u \in User :
          /\ attempts[u] = [failures |-> attempts[u].failures, blockedUntil |-> attempts[u].blockedUntil]
          /\ IsTimes(attempts[u].failures) /\ IsTimes(tries[u])
\* A wrong password is old, or in the list with a time not before its own, or about to be.
Counted ==
    \A u \in User : \A k \in DOMAIN tries[u] :
        /\ tries[u][k] <= now
        /\ \/ tries[u][k] < now - Window
           \/ k \in DOMAIN attempts[u].failures /\ tries[u][k] <= attempts[u].failures[k]
           \/ \E c \in Flying(u) : client[c].pc = "wrong" /\ k = Key(c)
PendingBounded ==
    \A u \in User :
        /\ Cardinality(Pending(u)) <= Limit - 1 + Cardinality(Client)
        /\ \A c \in Client : Cardinality(By(Pending(u), c)) <= Limit
LimiterInv == LimiterTyped /\ Counted /\ PendingBounded

LEMMA SmallerIsFewer ==
    ASSUME NEW S, NEW T, IsFiniteSet(S), T \subseteq S
    PROVE  /\ IsFiniteSet(T) /\ Cardinality(T) \in Nat /\ Cardinality(S) \in Nat
           /\ Cardinality(T) <= Cardinality(S)
  BY FS_Subset, FS_CardinalityType

LEMMA OneMore ==
    ASSUME NEW S, NEW x, IsFiniteSet(S)
    PROVE  IsFiniteSet(S \cup {x}) /\ Cardinality(S \cup {x}) <= Cardinality(S) + 1
<1>1. Cardinality(S) \in Nat
  BY FS_CardinalityType
<1>2. IsFiniteSet(S \cup {x}) /\ Cardinality(S \cup {x}) = IF x \in S THEN Cardinality(S) ELSE Cardinality(S) + 1
  BY FS_AddElement
<1> QED
  BY <1>1, <1>2

\* Clients that are under way have a key each.
LEMMA KeysFew ==
    ASSUME NEW q, NEW S \in SUBSET Client
    PROVE  LET T == {<<c, q[c].id>> : c \in S}
           IN  IsFiniteSet(T) /\ Cardinality(T) \in Nat /\ Cardinality(T) <= Cardinality(Client)
<1> DEFINE T == {<<c, q[c].id>> : c \in S}
           f == [c \in S |-> <<c, q[c].id>>]
<1>1. IsFiniteSet(S) /\ Cardinality(S) <= Cardinality(Client) /\ Cardinality(Client) \in Nat
      /\ Cardinality(S) \in Nat
  BY SmallerIsFewer, UsersConstants
<1>2. f \in Surjection(S, T)
  BY DEF Surjection
<1> HIDE DEF f, T
<1>3. IsFiniteSet(T) /\ Cardinality(T) <= Cardinality(S)
  BY <1>1, <1>2, FS_Surjection
<1>4. Cardinality(T) \in Nat
  BY <1>3, FS_CardinalityType
<1> QED
  BY <1>1, <1>3, <1>4 DEF T

\* A list of failures that is pruned, or gets one more, is a list of failures.
LEMMA ListsOfTimes ==
    ASSUME now \in Nat, NEW f, IsTimes(f), NEW k \in Client \X Nat
    PROVE  /\ IsTimes(NoTimes) /\ IsTimes(recentFailures(f)) /\ IsTimes(Noted(f, k))
           /\ DOMAIN recentFailures(f) = RecentOf(f) /\ \A j \in RecentOf(f) : recentFailures(f)[j] = f[j]
           /\ RecentOf(recentFailures(f)) = RecentOf(f)
           /\ IsFiniteSet(RecentOf(f)) /\ RecentOf(f) \subseteq Client \X Nat
<1>1. IsFiniteSet(RecentOf(f))
  BY SmallerIsFewer DEF IsTimes, RecentOf
<1>2. IsTimes(NoTimes)
  BY FS_EmptySet DEF IsTimes, NoTimes
<1>3. /\ IsTimes(recentFailures(f)) /\ DOMAIN recentFailures(f) = RecentOf(f)
      /\ \A j \in RecentOf(f) : recentFailures(f)[j] = f[j]
  BY <1>1 DEF IsTimes, recentFailures, RecentOf
<1>4. RecentOf(recentFailures(f)) = RecentOf(f)
  BY <1>3 DEF RecentOf
<1>5. IsTimes(Noted(f, k))
  <2>1. IsFiniteSet(DOMAIN f \cup {k})
    BY FS_AddElement DEF IsTimes
  <2> QED
    BY <2>1 DEF IsTimes, Noted
<1> QED
  BY <1>1, <1>2, <1>3, <1>4, <1>5 DEF IsTimes, RecentOf

LEMMA PendingFinite ==
    ASSUME UsersTyped, LimiterTyped, NEW u \in User
    PROVE  /\ IsFiniteSet(Pending(u)) /\ Cardinality(Pending(u)) \in Nat
           /\ \A c \in Client : IsFiniteSet(By(Pending(u), c)) /\ Cardinality(By(Pending(u), c)) \in Nat
<1>1. IsFiniteSet(RecentOf(attempts[u].failures))
  <2>1. IsFiniteSet(DOMAIN attempts[u].failures)
    BY DEF LimiterTyped, IsTimes
  <2> QED
    BY <2>1, SmallerIsFewer DEF RecentOf
<1>2. IsFiniteSet({Key(c) : c \in Flying(u)})
  BY KeysFew DEF Key, Flying
<1>3. IsFiniteSet(Pending(u)) /\ Cardinality(Pending(u)) \in Nat
  BY <1>1, <1>2, FS_Union, FS_CardinalityType DEF Pending
<1>4. ASSUME NEW c \in Client PROVE IsFiniteSet(By(Pending(u), c)) /\ Cardinality(By(Pending(u), c)) \in Nat
  BY <1>3, SmallerIsFewer DEF By
<1> QED
  BY <1>3, <1>4

\* What is not more than before is within the limits.
LEMMA StillBounded ==
    ASSUME UsersTyped, LimiterTyped, PendingBounded, NEW u \in User, Pending(u)' \subseteq Pending(u)
    PROVE  /\ Cardinality(Pending(u)') <= Limit - 1 + Cardinality(Client)
           /\ \A c \in Client : Cardinality(By(Pending(u), c)') <= Limit
<1>1. /\ Cardinality(Pending(u)') <= Cardinality(Pending(u)) /\ Cardinality(Pending(u)') \in Nat
      /\ Cardinality(Pending(u)) \in Nat /\ Cardinality(Client) \in Nat
  BY PendingFinite, SmallerIsFewer, UsersConstants, FS_CardinalityType
<1>2. ASSUME NEW c \in Client PROVE Cardinality(By(Pending(u), c)') <= Limit
  <2>1. By(Pending(u), c)' \subseteq By(Pending(u), c)
    BY DEF By
  <2>2. /\ Cardinality(By(Pending(u), c)') <= Cardinality(By(Pending(u), c))
        /\ Cardinality(By(Pending(u), c)') \in Nat /\ Cardinality(By(Pending(u), c)) \in Nat
    BY <2>1, PendingFinite, SmallerIsFewer
  <2> QED
    BY <2>2, UsersConstants DEF PendingBounded
<1>3. Cardinality(Pending(u)) <= Limit - 1 + Cardinality(Client)
  BY DEF PendingBounded
<1> QED
  BY <1>1, <1>2, <1>3, UsersConstants

\* A step that leaves limiter and history alone and lets no attempt through.
Quiet ==
    /\ UNCHANGED <<attempts, tries>> /\ now' >= now
    /\ \A c \in Client :
          /\ client'[c].pc \in {"checked", "wrong"} => client'[c] = client[c]
          /\ client[c].pc = "wrong" => client'[c] = client[c]
LEMMA QuietKeeps ==
    ASSUME UsersTyped, UsersTyped', LimiterInv, Quiet
    PROVE  LimiterInv'
<1>1. now \in Nat /\ now' \in Nat /\ now' >= now /\ attempts' = attempts /\ tries' = tries /\ Window \in Nat
  BY UsersConstants DEF UsersTyped, Quiet
<1>2. LimiterTyped'
  BY <1>1 DEF LimiterInv, LimiterTyped, IsTimes
<1>3. ASSUME NEW u \in User
      PROVE  /\ Flying(u)' \subseteq Flying(u) /\ \A c \in Flying(u)' : Key(c)' = Key(c)
             /\ \A c \in Flying(u) : client[c].pc = "wrong" => c \in Flying(u)' /\ client'[c] = client[c]
  BY DEF Quiet, Flying, Key
<1>4. Counted'
  <2> SUFFICES ASSUME NEW u \in User, NEW k \in DOMAIN tries[u]
               PROVE  /\ tries[u][k] <= now'
                      /\ \/ tries[u][k] < now' - Window
                         \/ k \in DOMAIN attempts[u].failures /\ tries[u][k] <= attempts[u].failures[k]
                         \/ \E c \in Flying(u)' : client'[c].pc = "wrong" /\ k = Key(c)'
    BY <1>1 DEF Counted
  <2>1. tries[u][k] \in Nat
    BY DEF LimiterInv, LimiterTyped, IsTimes
  <2>2. tries[u][k] <= now
    BY DEF LimiterInv, Counted
  <2>3. CASE tries[u][k] < now - Window
    BY <1>1, <2>1, <2>2, <2>3
  <2>4. CASE k \in DOMAIN attempts[u].failures /\ tries[u][k] <= attempts[u].failures[k]
    BY <1>1, <2>1, <2>2, <2>4
  <2>5. CASE \E c \in Flying(u) : client[c].pc = "wrong" /\ k = Key(c)
    BY <1>1, <1>3, <2>1, <2>2, <2>5 DEF Key
  <2> QED
    BY <2>3, <2>4, <2>5 DEF LimiterInv, Counted
<1>5. ASSUME NEW u \in User PROVE Pending(u)' \subseteq Pending(u)
  <2>1. RecentOf(attempts[u].failures)' \subseteq RecentOf(attempts[u].failures)
    <3>1. \A k \in DOMAIN attempts[u].failures : attempts[u].failures[k] \in Nat
      BY DEF LimiterInv, LimiterTyped, IsTimes
    <3> QED
      BY <1>1, <3>1 DEF RecentOf
  <2>2. {Key(c) : c \in Flying(u)}' \subseteq {Key(c) : c \in Flying(u)}
    BY <1>3
  <2> QED
    BY <2>1, <2>2 DEF Pending
<1>6. PendingBounded'
  BY <1>5, StillBounded DEF LimiterInv, PendingBounded
<1> QED
  BY <1>2, <1>4, <1>6 DEF LimiterInv

\* The limiter answers a login: a pruned list, and an attempt only below the limit.
LEMMA CheckKeeps ==
    ASSUME UsersTyped, UsersTyped', LimiterInv, NEW c \in Client, NEW u \in User, NEW word \in Password,
           Check(c, u, word)
    PROVE  LimiterInv'
<1> DEFINE old == attempts[u].failures
           let == client' = [client EXCEPT ![c] = [Idle EXCEPT !.pc = "checked", !.user = u, !.word = word, !.id = left]]
<1>1. /\ now \in Nat /\ left \in Nat /\ now' = now /\ tries' = tries /\ Window \in Nat /\ client[c].pc = "idle"
      /\ client = [d \in Client |-> client[d]] /\ Limit \in Nat /\ Limit > 0 /\ Cardinality(Client) \in Nat
  BY UsersConstants, FS_CardinalityType DEF UsersTyped, Check
<1>2. CASE Blocked(u) /\ UNCHANGED <<attempts, client>>
  <2>1. Quiet
    BY <1>1, <1>2 DEF Quiet
  <2> QED
    BY <2>1, QuietKeeps
<1>3. CASE /\ \E b : attempts' = [attempts EXCEPT ![u] = [failures |-> recentFailures(@.failures), blockedUntil |-> b]]
           /\ UNCHANGED client \/ (~Exceeded(u) /\ let)
  <2>1. /\ attempts'[u].failures = recentFailures(old) /\ attempts' = [w \in User |-> attempts'[w]]
        /\ attempts'[u] = [failures |-> attempts'[u].failures, blockedUntil |-> attempts'[u].blockedUntil]
        /\ \A w \in User \ {u} : attempts'[w] = attempts[w]
    BY <1>3 DEF LimiterInv, LimiterTyped
  <2>2. /\ IsTimes(old) /\ IsTimes(recentFailures(old)) /\ DOMAIN recentFailures(old) = RecentOf(old)
        /\ \A j \in RecentOf(old) : recentFailures(old)[j] = old[j]
        /\ RecentOf(recentFailures(old)) = RecentOf(old) /\ IsFiniteSet(RecentOf(old))
    <3>1. IsTimes(old) /\ <<c, left>> \in Client \X Nat
      BY <1>1 DEF LimiterInv, LimiterTyped
    <3> QED
      BY <1>1, <3>1, ListsOfTimes
  <2>3. LimiterTyped'
    <3>1. \A w \in User : IsTimes(attempts'[w].failures) /\ IsTimes(tries'[w])
      BY <1>1, <2>1, <2>2 DEF LimiterInv, LimiterTyped
    <3>2. tries' = [w \in User |-> tries'[w]]
      BY <1>1 DEF LimiterInv, LimiterTyped
    <3>3. \A w \in User : attempts'[w] = [failures |-> attempts'[w].failures, blockedUntil |-> attempts'[w].blockedUntil]
      BY <2>1 DEF LimiterInv, LimiterTyped
    <3> QED
      BY <2>1, <3>1, <3>2, <3>3 DEF LimiterTyped, IsTimes
  <2>4. \A d \in Client \ {c} : client'[d] = client[d]
    BY <1>1, <1>3
  <2>5. Counted'
    <3> SUFFICES ASSUME NEW w \in User, NEW k \in DOMAIN tries[w]
                 PROVE  /\ tries[w][k] <= now
                        /\ \/ tries[w][k] < now - Window
                           \/ k \in DOMAIN attempts'[w].failures /\ tries[w][k] <= attempts'[w].failures[k]
                           \/ \E d \in Flying(w)' : client'[d].pc = "wrong" /\ k = Key(d)'
      BY <1>1 DEF Counted
    <3>1. tries[w][k] \in Nat /\ tries[w][k] <= now
      BY DEF LimiterInv, LimiterTyped, IsTimes, Counted
    <3>2. CASE tries[w][k] < now - Window
      BY <3>1, <3>2
    <3>3. CASE k \in DOMAIN attempts[w].failures /\ tries[w][k] <= attempts[w].failures[k]
      <4>1. CASE w # u
        BY <2>1, <3>1, <3>3, <4>1
      <4>2. CASE w = u /\ k \in RecentOf(old)
        BY <2>1, <2>2, <3>1, <3>3, <4>2
      <4>3. CASE w = u /\ k \notin RecentOf(old)
        BY <1>1, <2>2, <3>1, <3>3, <4>3 DEF RecentOf, IsTimes
      <4> QED
        BY <4>1, <4>2, <4>3
    <3>4. CASE \E d \in Flying(w) : client[d].pc = "wrong" /\ k = Key(d)
      BY <1>1, <2>4, <3>1, <3>4 DEF Flying, Key
    <3> QED
      BY <3>2, <3>3, <3>4 DEF LimiterInv, Counted
  <2>6. ASSUME NEW w \in User, RecentOf(attempts[w].failures)' = RecentOf(attempts[w].failures),
               w # u \/ UNCHANGED client
        PROVE  Pending(w)' \subseteq Pending(w)
    <3>1. UNCHANGED client \/ client'[c].user = u
      <4>1. [Idle EXCEPT !.pc = "checked", !.user = u, !.word = word, !.id = left].user = u
        BY DEF Idle
      <4>2. let => client'[c] = [Idle EXCEPT !.pc = "checked", !.user = u, !.word = word, !.id = left]
        BY <1>1
      <4> QED
        BY <1>3, <4>1, <4>2
    <3>2. Flying(w)' \subseteq Flying(w) /\ \A d \in Flying(w)' : Key(d)' = Key(d)
      <4>1. CASE UNCHANGED client
        BY <4>1 DEF Flying, Key
      <4>2. CASE w # u /\ client'[c].user = u
        BY <2>4, <4>2 DEF Flying, Key
      <4> QED
        BY <2>6, <3>1, <4>1, <4>2
    <3> QED
      BY <2>6, <3>2 DEF Pending
  <2>7. \A w \in User : RecentOf(attempts[w].failures)' = RecentOf(attempts[w].failures)
    BY <1>1, <2>1, <2>2 DEF RecentOf
  <2>8. CASE UNCHANGED client
    <3>1. PendingBounded'
      BY <2>6, <2>7, <2>8, StillBounded DEF LimiterInv, PendingBounded
    <3> QED
      BY <2>3, <2>5, <3>1 DEF LimiterInv
  <2>9. CASE ~Exceeded(u) /\ let
    <3>1. Cardinality(RecentOf(old)) \in Nat /\ Cardinality(RecentOf(old)) <= Limit - 1
      BY <1>1, <2>2, <2>9, FS_CardinalityType DEF Exceeded
    <3>2. client'[c].id = left /\ client'[c].user = u /\ client'[c].pc = "checked" /\ Key(c)' = <<c, left>>
      BY <1>1, <2>9 DEF Key, Idle
    <3>3. Cardinality(Pending(u)') <= Limit - 1 + Cardinality(Client)
      <4> DEFINE keys == {Key(d) : d \in Flying(u)}'
      <4>1. IsFiniteSet(keys) /\ Cardinality(keys) \in Nat /\ Cardinality(keys) <= Cardinality(Client)
        <5>1. Flying(u)' \in SUBSET Client
          BY DEF Flying
        <5> QED
          BY <5>1, KeysFew DEF Key
      <4>2. Pending(u)' = RecentOf(old) \cup keys
        BY <2>7 DEF Pending
      <4> HIDE DEF keys, old
      <4>3. Cardinality(RecentOf(old) \cap keys) \in Nat
        BY <2>2, FS_Subset, FS_CardinalityType, RecentOf(old) \cap keys \subseteq RecentOf(old)
      <4> QED
        BY <1>1, <2>2, <3>1, <4>1, <4>2, <4>3, FS_Union
    <3>4. ASSUME NEW d \in Client PROVE Cardinality(By(Pending(u), d)') <= Limit
      <4>1. CASE d = c
        <5>1. By(Pending(u), c)' \subseteq RecentOf(old) \cup {<<c, left>>}
          BY <2>7, <3>2 DEF By, Pending, Key
        <5> HIDE DEF old
        <5>2. /\ IsFiniteSet(RecentOf(old) \cup {<<c, left>>})
              /\ Cardinality(RecentOf(old) \cup {<<c, left>>}) <= Cardinality(RecentOf(old)) + 1
          BY <2>2, OneMore
        <5>3. /\ Cardinality(By(Pending(u), c)') \in Nat /\ Cardinality(RecentOf(old) \cup {<<c, left>>}) \in Nat
              /\ Cardinality(By(Pending(u), c)') <= Cardinality(RecentOf(old) \cup {<<c, left>>})
          BY <5>1, <5>2, SmallerIsFewer
        <5> QED
          BY <1>1, <3>1, <4>1, <5>2, <5>3
      <4>2. CASE d # c
        <5>1. By(Pending(u), d)' \subseteq By(Pending(u), d)
          <6>1. \A e \in Flying(u)' : e # c => e \in Flying(u) /\ Key(e)' = Key(e)
            BY <2>4 DEF Flying, Key
          <6>2. \A e \in Client : Key(e)'[1] = e
            BY DEF Key
          <6> QED
            BY <2>7, <4>2, <6>1, <6>2 DEF By, Pending, Flying
        <5>2. IsFiniteSet(By(Pending(u), d)) /\ Cardinality(By(Pending(u), d)) <= Limit
          BY PendingFinite DEF LimiterInv, PendingBounded
        <5>3. /\ Cardinality(By(Pending(u), d)') \in Nat /\ Cardinality(By(Pending(u), d)) \in Nat
              /\ Cardinality(By(Pending(u), d)') <= Cardinality(By(Pending(u), d))
          BY <5>1, <5>2, SmallerIsFewer
        <5> QED
          BY <1>1, <5>2, <5>3
      <4> QED
        BY <4>1, <4>2
    <3>5. ASSUME NEW w \in User, w # u
          PROVE  /\ Cardinality(Pending(w)') <= Limit - 1 + Cardinality(Client)
                 /\ \A d \in Client : Cardinality(By(Pending(w), d)') <= Limit
      BY <2>6, <2>7, <3>5, StillBounded DEF LimiterInv
    <3>6. PendingBounded'
      BY <3>3, <3>4, <3>5 DEF PendingBounded
    <3> QED
      BY <2>3, <2>5, <3>6 DEF LimiterInv
  <2> QED
    BY <1>3, <2>8, <2>9
<1> HIDE DEF let
<1>4. \/ Blocked(u) /\ UNCHANGED <<attempts, client>>
      \/ /\ \E b : attempts' = [attempts EXCEPT ![u] = [failures |-> recentFailures(@.failures), blockedUntil |-> b]]
         /\ UNCHANGED client \/ (~Exceeded(u) /\ let)
  BY DEF Check, let
<1> QED
  BY <1>2, <1>3, <1>4

\* A wrong password is noted in the history; its client is about to record it.
LEMMA WrongKeeps ==
    ASSUME UsersTyped, UsersTyped', LimiterInv, NEW c \in Client, client[c].pc = "checked",
           client' = [client EXCEPT ![c].pc = "wrong"],
           tries' = [tries EXCEPT ![client[c].user] = Noted(@, Key(c))], UNCHANGED <<now, attempts>>
    PROVE  LimiterInv'
<1> DEFINE u == client[c].user
<1>1. /\ now \in Nat /\ u \in User /\ client[c].id \in Nat /\ client[c] \in Request
      /\ client = [d \in Client |-> client[d]]
  BY DEF UsersTyped, Request
<1>2. /\ client'[c].pc = "wrong" /\ client'[c].user = u /\ client'[c].id = client[c].id
      /\ \A d \in Client \ {c} : client'[d] = client[d]
  BY <1>1 DEF Request
<1>3. Key(c) \in Client \X Nat /\ \A d \in Client : Key(d)' = Key(d)
  BY <1>1, <1>2 DEF Key
<1>4. /\ tries' = [w \in User |-> tries'[w]] /\ tries'[u] = Noted(tries[u], Key(c))
      /\ \A w \in User \ {u} : tries'[w] = tries[w]
  BY <1>1 DEF LimiterInv, LimiterTyped
<1> HIDE DEF u
<1>5. LimiterTyped'
  <2>1. IsTimes(tries[u])
    BY <1>1 DEF LimiterInv, LimiterTyped
  <2>2. IsTimes(tries'[u])
    BY <1>1, <1>3, <1>4, <2>1, ListsOfTimes
  <2>3. \A w \in User : IsTimes(attempts[w].failures) /\ IsTimes(tries'[w])
    BY <1>4, <2>2 DEF LimiterInv, LimiterTyped
  <2>4. /\ attempts = [w \in User |-> attempts[w]]
        /\ \A w \in User : attempts[w] = [failures |-> attempts[w].failures, blockedUntil |-> attempts[w].blockedUntil]
    BY DEF LimiterInv, LimiterTyped
  <2> QED
    BY <1>4, <2>3, <2>4 DEF LimiterTyped, IsTimes
<1>6. \A w \in User : Flying(w)' = Flying(w)
  BY <1>1, <1>2 DEF Flying, u
<1>7. Counted'
  <2> SUFFICES ASSUME NEW w \in User, NEW k \in DOMAIN tries'[w]
               PROVE  /\ tries'[w][k] <= now
                      /\ \/ tries'[w][k] < now - Window
                         \/ k \in DOMAIN attempts[w].failures /\ tries'[w][k] <= attempts[w].failures[k]
                         \/ \E d \in Flying(w) : client'[d].pc = "wrong" /\ k = Key(d)
    BY <1>3, <1>6 DEF Counted, Flying
  <2>1. CASE w = u /\ k = Key(c)
    <3>1. tries'[w][k] = now
      BY <1>4, <2>1 DEF Noted
    <3>2. c \in Flying(w)
      BY <2>1 DEF Flying, u
    <3> QED
      BY <1>1, <1>2, <2>1, <3>1, <3>2
  <2>2. CASE ~(w = u /\ k = Key(c))
    <3>1. k \in DOMAIN tries[w] /\ tries'[w][k] = tries[w][k]
      BY <1>4, <2>2 DEF Noted
    <3>2. \A d \in Flying(w) : client[d].pc = "wrong" => client'[d].pc = "wrong"
      BY <1>2 DEF Flying
    <3> QED
      BY <3>1, <3>2 DEF LimiterInv, Counted
  <2> QED
    BY <2>1, <2>2
<1>8. ASSUME NEW w \in User PROVE Pending(w)' \subseteq Pending(w)
  BY <1>3, <1>6 DEF Pending, RecentOf, Flying
<1>9. PendingBounded'
  BY <1>8, StillBounded DEF LimiterInv, PendingBounded
<1> QED
  BY <1>5, <1>7, <1>9 DEF LimiterInv

\* A recorded failure takes the place of the request that it ends.
LEMMA RecordFailureKeeps ==
    ASSUME UsersTyped, UsersTyped', LimiterInv, NEW c \in Client, RecordFailure(c)
    PROVE  LimiterInv'
<1> DEFINE u == client[c].user
           old == attempts[u].failures
<1>1. /\ now \in Nat /\ u \in User /\ client[c].id \in Nat /\ client = [d \in Client |-> client[d]]
      /\ Window \in Nat
  BY UsersConstants DEF UsersTyped, Request
<1>2. /\ client[c].pc = "wrong" /\ client'[c].pc = "idle" /\ now' = now /\ tries' = tries
      /\ \A d \in Client \ {c} : client'[d] = client[d]
  BY <1>1 DEF RecordFailure, Idle
<1>3. Key(c) \in Client \X Nat /\ c \in Flying(u)
  BY <1>1, <1>2 DEF Key, Flying
<1>4. /\ attempts' = [w \in User |-> attempts'[w]] /\ attempts'[u].failures = Noted(recentFailures(old), Key(c))
      /\ attempts'[u] = [failures |-> attempts'[u].failures, blockedUntil |-> attempts'[u].blockedUntil]
      /\ \A w \in User \ {u} : attempts'[w] = attempts[w]
  BY <1>1 DEF LimiterInv, LimiterTyped, RecordFailure
<1>5. /\ IsTimes(old) /\ IsTimes(recentFailures(old)) /\ DOMAIN recentFailures(old) = RecentOf(old)
      /\ \A j \in RecentOf(old) : recentFailures(old)[j] = old[j]
  <2>1. IsTimes(old)
    BY <1>1 DEF LimiterInv, LimiterTyped
  <2> QED
    BY <1>1, <1>3, <2>1, ListsOfTimes
<1> HIDE DEF u, old
<1>6. IsTimes(attempts'[u].failures)
  BY <1>1, <1>3, <1>4, <1>5, ListsOfTimes
<1>7. LimiterTyped'
  <2>1. \A w \in User : IsTimes(attempts'[w].failures) /\ IsTimes(tries'[w])
    BY <1>2, <1>4, <1>6 DEF LimiterInv, LimiterTyped
  <2>2. tries' = [w \in User |-> tries'[w]]
    BY <1>2 DEF LimiterInv, LimiterTyped
  <2>3. \A w \in User : attempts'[w] = [failures |-> attempts'[w].failures, blockedUntil |-> attempts'[w].blockedUntil]
    BY <1>4 DEF LimiterInv, LimiterTyped
  <2> QED
    BY <1>4, <2>1, <2>2, <2>3 DEF LimiterTyped, IsTimes
<1>8. /\ DOMAIN attempts'[u].failures = RecentOf(old) \cup {Key(c)} /\ attempts'[u].failures[Key(c)] = now
      /\ \A j \in RecentOf(old) : attempts'[u].failures[j] \in {old[j], now}
  BY <1>4, <1>5 DEF Noted
<1>9. \A j \in RecentOf(old) : old[j] \in Nat
  BY <1>5 DEF IsTimes, RecentOf
<1>10. Counted'
  <2> SUFFICES ASSUME NEW w \in User, NEW k \in DOMAIN tries[w]
               PROVE  /\ tries[w][k] <= now
                      /\ \/ tries[w][k] < now - Window
                         \/ k \in DOMAIN attempts'[w].failures /\ tries[w][k] <= attempts'[w].failures[k]
                         \/ \E d \in Flying(w)' : client'[d].pc = "wrong" /\ k = Key(d)'
    BY <1>2 DEF Counted
  <2>1. tries[w][k] \in Nat /\ tries[w][k] <= now
    BY DEF LimiterInv, LimiterTyped, IsTimes, Counted
  <2>2. CASE tries[w][k] < now - Window
    BY <2>1, <2>2
  <2>3. CASE k \in DOMAIN attempts[w].failures /\ tries[w][k] <= attempts[w].failures[k]
    <3>1. CASE w # u
      BY <1>4, <2>1, <2>3, <3>1
    <3>2. CASE w = u /\ k \in RecentOf(old)
      BY <1>8, <1>9, <2>1, <2>3, <3>2 DEF old
    <3>3. CASE w = u /\ k \notin RecentOf(old)
      BY <1>1, <1>5, <2>1, <2>3, <3>3 DEF RecentOf, IsTimes, old
    <3> QED
      BY <3>1, <3>2, <3>3
  <2>4. CASE \E d \in Flying(w) : client[d].pc = "wrong" /\ k = Key(d)
    <3>1. PICK d \in Flying(w) : client[d].pc = "wrong" /\ k = Key(d)
      BY <2>4
    <3>2. CASE d = c
      <4>1. w = u
        BY <3>1, <3>2 DEF Flying, u
      <4> QED
        BY <1>8, <2>1, <3>1, <3>2, <4>1
    <3>3. CASE d # c
      BY <1>2, <2>1, <3>1, <3>3 DEF Flying, Key
    <3> QED
      BY <3>2, <3>3
  <2> QED
    BY <2>2, <2>3, <2>4 DEF LimiterInv, Counted
<1>11. ASSUME NEW w \in User PROVE Pending(w)' \subseteq Pending(w)
  <2>1. Flying(w)' \subseteq Flying(w) /\ \A d \in Flying(w)' : Key(d)' = Key(d)
    BY <1>2 DEF Flying, Key
  <2>2. CASE w # u
    BY <1>2, <1>4, <2>1, <2>2 DEF Pending, RecentOf
  <2>3. CASE w = u
    <3>1. RecentOf(attempts[w].failures)' \subseteq RecentOf(old) \cup {Key(c)}
      BY <1>8, <2>3 DEF RecentOf
    <3> QED
      BY <1>3, <2>1, <2>3, <3>1 DEF Pending, old
  <2> QED
    BY <2>2, <2>3
<1>12. PendingBounded'
  BY <1>11, StillBounded DEF LimiterInv, PendingBounded
<1> QED
  BY <1>7, <1>10, <1>12 DEF LimiterInv

\* A login forgets the failures of its user.
LEMMA LoginKeeps ==
    ASSUME UsersTyped, UsersTyped', LimiterInv, NEW c \in Client, Login(c)
    PROVE  LimiterInv'
<1> DEFINE u == client[c].user
<1>1. now \in Nat /\ u \in User /\ client = [d \in Client |-> client[d]]
  BY DEF UsersTyped, Request
<1>2. /\ client[c].pc = "recorded" /\ client'[c].pc = "idle" /\ now' = now
      /\ \A d \in Client \ {c} : client'[d] = client[d]
  BY <1>1 DEF Login, Idle
<1>3. /\ attempts' = [w \in User |-> attempts'[w]] /\ attempts'[u] = [failures |-> NoTimes, blockedUntil |-> 0]
      /\ tries' = [w \in User |-> tries'[w]] /\ tries'[u] = NoTimes
      /\ \A w \in User \ {u} : attempts'[w] = attempts[w] /\ tries'[w] = tries[w]
  BY <1>1 DEF LimiterInv, LimiterTyped, Login
<1> HIDE DEF u
<1>4. IsTimes(NoTimes)
  BY FS_EmptySet DEF IsTimes, NoTimes
<1>5. LimiterTyped'
  <2>1. \A w \in User : IsTimes(attempts'[w].failures) /\ IsTimes(tries'[w])
    BY <1>3, <1>4 DEF LimiterInv, LimiterTyped
  <2>2. \A w \in User : attempts'[w] = [failures |-> attempts'[w].failures, blockedUntil |-> attempts'[w].blockedUntil]
    BY <1>3 DEF LimiterInv, LimiterTyped
  <2> QED
    BY <1>3, <2>1, <2>2 DEF LimiterTyped, IsTimes
<1>6. \A w \in User : Flying(w)' = Flying(w) /\ \A d \in Flying(w) : client'[d] = client[d] /\ Key(d)' = Key(d)
  BY <1>2 DEF Flying, Key
<1>7. Counted'
  <2> SUFFICES ASSUME NEW w \in User, NEW k \in DOMAIN tries'[w]
               PROVE  /\ tries'[w][k] <= now
                      /\ \/ tries'[w][k] < now - Window
                         \/ k \in DOMAIN attempts'[w].failures /\ tries'[w][k] <= attempts'[w].failures[k]
                         \/ \E d \in Flying(w) : client[d].pc = "wrong" /\ k = Key(d)
    BY <1>2, <1>6 DEF Counted
  <2>1. w # u
    BY <1>3 DEF NoTimes
  <2> QED
    BY <1>3, <2>1 DEF LimiterInv, Counted
<1>8. ASSUME NEW w \in User PROVE Pending(w)' \subseteq Pending(w)
  BY <1>2, <1>3, <1>6 DEF Pending, RecentOf, NoTimes
<1>9. PendingBounded'
  BY <1>8, StillBounded DEF LimiterInv, PendingBounded
<1> QED
  BY <1>5, <1>7, <1>9 DEF LimiterInv

LEMMA LimiterStart == Init => LimiterInv
<1> SUFFICES ASSUME Init PROVE LimiterInv
  OBVIOUS
<1>1. /\ \A c \in Client : client[c].pc = "idle"
      /\ attempts = [u \in User |-> [failures |-> NoTimes, blockedUntil |-> 0]] /\ tries = [u \in User |-> NoTimes]
  BY DEF Init, Idle
<1>2. IsTimes(NoTimes) /\ DOMAIN NoTimes = {}
  BY FS_EmptySet DEF IsTimes, NoTimes
<1>3. LimiterTyped
  BY <1>1, <1>2 DEF LimiterTyped
<1>4. Counted
  BY <1>1, <1>2 DEF Counted
<1>5. ASSUME NEW u \in User PROVE Pending(u) = {}
  BY <1>1, <1>2, <1>5 DEF Pending, RecentOf, Flying
<1>6. Cardinality({}) = 0 /\ Cardinality(Client) \in Nat /\ Limit \in Nat /\ Limit > 0
  BY FS_EmptySet, FS_CardinalityType, UsersConstants
<1>7. ASSUME NEW u \in User, NEW c \in Client PROVE By(Pending(u), c) = {}
  BY <1>5, <1>7 DEF By
<1>8. PendingBounded
  <2>1. ASSUME NEW u \in User PROVE Cardinality(Pending(u)) <= Limit - 1 + Cardinality(Client)
    BY <1>5, <1>6
  <2>2. ASSUME NEW u \in User, NEW c \in Client PROVE Cardinality(By(Pending(u), c)) <= Limit
    BY <1>6, <1>7
  <2> QED
    BY <2>1, <2>2 DEF PendingBounded
<1> QED
  BY <1>3, <1>4, <1>8 DEF LimiterInv

LEMMA LimiterNext == UsersInv /\ UsersInv' /\ LimiterInv /\ [Next]_vars => LimiterInv'
<1> SUFFICES ASSUME UsersInv, UsersInv', LimiterInv, [Next]_vars PROVE LimiterInv'
  OBVIOUS
<1>1. UsersTyped /\ UsersTyped' /\ now \in Nat /\ client = [d \in Client |-> client[d]]
  BY DEF UsersInv, UsersTyped
<1>2. ASSUME Quiet PROVE LimiterInv'
  BY <1>1, <1>2, QuietKeeps
<1>3. ASSUME NEW c \in Client, LoginStep(c) PROVE LimiterInv'
  <2>1. ASSUME NEW u \in User, NEW word \in Password, Check(c, u, word) PROVE LimiterInv'
    BY <1>1, <2>1, CheckKeeps
  <2>2. ASSUME FindByUsername(c) PROVE LimiterInv'
    <3>1. CASE /\ client' = [client EXCEPT ![c].pc = "wrong"]
               /\ tries' = [tries EXCEPT ![client[c].user] = Noted(@, Key(c))]
      BY <1>1, <2>2, <3>1, WrongKeeps DEF FindByUsername
    <3>2. CASE \E q : /\ client' = [client EXCEPT ![c] = q] /\ q.pc \in {"idle", "proved"} /\ UNCHANGED tries
      <4>1. client[c].pc = "checked" /\ UNCHANGED <<now, attempts, tries>>
        BY <2>2, <3>2 DEF FindByUsername
      <4>2. client'[c].pc \in {"idle", "proved"} /\ \A d \in Client \ {c} : client'[d] = client[d]
        BY <1>1, <3>2
      <4>3. Quiet
        BY <1>1, <4>1, <4>2 DEF Quiet
      <4> QED
        BY <1>2, <4>3
    <3>3. Idle.pc = "idle"
      BY DEF Idle
    <3>4. ASSUME NEW r, NEW e, NEW t
          PROVE  [client[c] EXCEPT !.pc = "proved", !.seen = r, !.era = e, !.stamp = t].pc = "proved"
      BY <1>1 DEF UsersTyped, Request
    <3>5. CASE client' = [client EXCEPT ![c] = Idle] /\ UNCHANGED tries
      BY <3>2, <3>3, <3>5
    <3>6. CASE /\ client' = [client EXCEPT ![c] =
                    [client[c] EXCEPT !.pc = "proved", !.seen = row[client[c].user], !.era = era[client[c].user],
                       !.stamp = nextPlatformUserUpdatedAt(now, row[client[c].user].updatedAt)]]
               /\ UNCHANGED tries
      <4>1. PICK q : q = [client[c] EXCEPT !.pc = "proved", !.seen = row[client[c].user], !.era = era[client[c].user],
                            !.stamp = nextPlatformUserUpdatedAt(now, row[client[c].user].updatedAt)]
        OBVIOUS
      <4>2. q.pc = "proved"
        BY <3>4, <4>1
      <4>3. client' = [client EXCEPT ![c] = q] /\ UNCHANGED tries
        BY <3>6, <4>1
      <4> QED
        BY <3>2, <4>2, <4>3
    <3> QED
      BY <2>2, <3>1, <3>5, <3>6 DEF FindByUsername
  <2>3. ASSUME UpdateLastLogin(c) PROVE LimiterInv'
    <3>1. /\ client[c].pc = "proved" /\ client'[c].pc = "recorded" /\ UNCHANGED <<now, attempts, tries>>
          /\ \A d \in Client \ {c} : client'[d] = client[d]
      BY <1>1, <2>3 DEF UpdateLastLogin, UsersTyped, Request
    <3>2. Quiet
      BY <1>1, <3>1 DEF Quiet
    <3> QED
      BY <1>2, <3>2
  <2>4. ASSUME Logout(c) PROVE LimiterInv'
    <3>1. Quiet
      BY <1>1, <2>4 DEF Quiet, Logout
    <3> QED
      BY <1>2, <3>1
  <2> QED
    BY <1>1, <1>3, <2>1, <2>2, <2>3, <2>4, RecordFailureKeeps, LoginKeeps DEF LoginStep
<1>4. ASSUME NEW c \in Client, NEW q, client' = [client EXCEPT ![c] = q], q.pc \in {"idle", "listed", "authorized"},
             client[c].pc # "wrong", UNCHANGED <<now, attempts, tries>>
      PROVE  LimiterInv'
  <2>1. client'[c].pc \in {"idle", "listed", "authorized"} /\ \A d \in Client \ {c} : client'[d] = client[d]
    BY <1>1, <1>4
  <2>2. Quiet
    BY <1>1, <1>4, <2>1 DEF Quiet
  <2> QED
    BY <1>2, <2>2
<1>5. Idle.pc = "idle"
  BY DEF Idle
<1>6. ASSUME NEW c \in Client, HandlerStep(c) PROVE LimiterInv'
  <2>1. /\ client[c].pc = "authorized" /\ client' = [client EXCEPT ![c] = Idle]
        /\ UNCHANGED <<now, attempts, tries>>
    BY <1>6 DEF HandlerStep, Handle, ChangePassword, Create, Update, SetStatus, ResetPassword
  <2> QED
    BY <1>4, <1>5, <2>1
<1>7. ASSUME NEW c \in Client, NEW u \in User, List(c, u) PROVE LimiterInv'
  <2> DEFINE q == [Idle EXCEPT !.pc = "listed", !.user = u, !.seen = row[u]]
  <2>1. q.pc = "listed" /\ client' = [client EXCEPT ![c] = q] /\ client[c].pc = "idle" /\ UNCHANGED <<now, attempts, tries>>
    BY <1>7 DEF List, Idle
  <2> HIDE DEF q
  <2> QED
    BY <1>4, <2>1
<1>8. ASSUME NEW c \in Client, NEW kind, NEW u, NEW word, NEW fresh, NEW role,
             Authorize(c, kind, u, word, fresh, role)
      PROVE  LimiterInv'
  <2> DEFINE q == [Idle EXCEPT !.pc = "authorized", !.kind = kind, !.actor = cookie[c].user, !.user = u,
                               !.word = word, !.fresh = fresh, !.role = role, !.seen = client[c].seen]
  <2>1. q.pc = "authorized"
    BY DEF Idle
  <2>2. /\ client' = [client EXCEPT ![c] = q] \/ client' = [client EXCEPT ![c] = Idle]
        /\ client[c].pc \in {"idle", "listed"} /\ UNCHANGED <<now, attempts, tries>>
    BY <1>8 DEF Authorize
  <2> HIDE DEF q
  <2> QED
    BY <1>4, <1>5, <2>1, <2>2
<1>9. ASSUME NEW c \in Client, RequestStep(c) PROVE LimiterInv'
  BY <1>6, <1>7, <1>8, <1>9 DEF RequestStep
<1>10. CASE UNCHANGED vars \/ Tick \/ \E p \in Process : CountUsers(p) \/ CreateAdmin(p)
  <2>1. Quiet
    BY <1>1, <1>10 DEF Quiet, vars, Tick, CountUsers, CreateAdmin
  <2> QED
    BY <1>2, <2>1
<1> QED
  BY <1>3, <1>9, <1>10 DEF Next, Step

\* A wrong password that is recent is pending.
LEMMA CountedArePending ==
    ASSUME UsersTyped, LimiterTyped, Counted, NEW u \in User
    PROVE  RecentOf(tries[u]) \subseteq Pending(u)
<1> SUFFICES ASSUME NEW k \in RecentOf(tries[u]) PROVE k \in Pending(u)
  OBVIOUS
<1>1. k \in DOMAIN tries[u] /\ tries[u][k] \in Nat /\ tries[u][k] >= now - Window /\ now \in Nat /\ Window \in Nat
  BY UsersConstants DEF UsersTyped, LimiterTyped, IsTimes, RecentOf
<1>2. CASE k \in DOMAIN attempts[u].failures /\ tries[u][k] <= attempts[u].failures[k]
  <2>1. attempts[u].failures[k] \in Nat
    BY <1>2 DEF LimiterTyped, IsTimes
  <2> QED
    BY <1>1, <1>2, <2>1 DEF Pending, RecentOf
<1>3. CASE \E c \in Flying(u) : client[c].pc = "wrong" /\ k = Key(c)
  BY <1>3 DEF Pending
<1> QED
  BY <1>1, <1>2, <1>3 DEF Counted

\* Within a window a client tries a name at most Limit times and all clients together at most
\* Limit - 1 times and once more each, for any number of clients and requests, however their
\* checks, failures and logins interleave: LoginLimiter.Check counts only what is recorded.
THEOREM TriesAreBounded == Spec => []TriesBounded
<1>1. UsersInv /\ LimiterInv => TriesBounded
  <2> SUFFICES ASSUME UsersInv, LimiterInv, NEW u \in User
               PROVE  /\ Cardinality(RecentOf(tries[u])) <= Limit - 1 + Cardinality(Client)
                      /\ \A c \in Client : Cardinality(By(RecentOf(tries[u]), c)) <= Limit
    BY DEF TriesBounded
  <2>1. UsersTyped /\ LimiterTyped /\ Counted
    BY DEF UsersInv, LimiterInv
  <2>2. RecentOf(tries[u]) \subseteq Pending(u) /\ \A c \in Client : By(RecentOf(tries[u]), c) \subseteq By(Pending(u), c)
    BY <2>1, CountedArePending DEF By
  <2>3. /\ IsFiniteSet(Pending(u)) /\ \A c \in Client : IsFiniteSet(By(Pending(u), c))
        /\ Cardinality(Pending(u)) <= Limit - 1 + Cardinality(Client)
        /\ \A c \in Client : Cardinality(By(Pending(u), c)) <= Limit
    BY <2>1, PendingFinite DEF LimiterInv, PendingBounded
  <2>4. Cardinality(Client) \in Nat /\ Limit \in Nat
    BY UsersConstants, FS_CardinalityType
  <2>5. /\ Cardinality(RecentOf(tries[u])) \in Nat /\ Cardinality(Pending(u)) \in Nat
        /\ Cardinality(RecentOf(tries[u])) <= Cardinality(Pending(u))
    BY <2>2, <2>3, SmallerIsFewer
  <2>6. ASSUME NEW c \in Client PROVE Cardinality(By(RecentOf(tries[u]), c)) <= Limit
    <3>1. /\ Cardinality(By(RecentOf(tries[u]), c)) \in Nat /\ Cardinality(By(Pending(u), c)) \in Nat
          /\ Cardinality(By(RecentOf(tries[u]), c)) <= Cardinality(By(Pending(u), c))
      BY <2>2, <2>3, SmallerIsFewer
    <3> QED
      BY <2>3, <2>4, <3>1
  <2> QED
    BY <2>3, <2>4, <2>5, <2>6
<1> QED
  BY UsersInvariance, LimiterStart, LimiterNext, <1>1, PTL DEF Spec
=============================================================================
