--------------------------- MODULE UpstreamClient ---------------------------
(***************************************************************************)
(* Requests of NewAPIClient to one origin (service/new_api_client.go) and   *)
(* the governor that admits them (service/upstream_governor.go).            *)
(*                                                                          *)
(* The governor of an origin is a goroutine that takes one event from its   *)
(* channels at a time and then dispatches, which grants at most one request.*)
(* A read of a small catalogue goes through a cache: one lock for each key  *)
(* lets one request read while the others wait for its answer.  The GET that*)
(* rotates a site's token must not be repeated, and must not be reported as *)
(* failed once it may have taken effect.                                    *)
(***************************************************************************)
EXTENDS Naturals, Integers, Sequences, FiniteSets

CONSTANTS
    Req,         \* requests, each made once
    Bulk,        \* the ones of class UpstreamRequestBulk
    Rotation,    \* the ones that rotate the token
    LoginOf,     \* by rotation: the login before it
    KeyOf,       \* by request: its key in the read cache, or "none"
    Configs,     \* governor options: interval, window, maxInFlight
    TTL,         \* upstreamCacheTTL
    MaxEntries,  \* upstreamReadCacheMaxEntries
    Hour,        \* longest pause after a rate limit
    RetryAfters, \* values of the header Retry-After
    MaxTime,     \* bound: the clock
    MaxReloads   \* bound: calls of Reconfigure

ClientAssumption ==
    /\ Bulk \subseteq Req /\ Rotation \subseteq Req
    /\ \A r \in Rotation : KeyOf[r] = "none" /\ LoginOf[r] \in Req \ Rotation
    /\ \A c \in Configs : c.interval > 0 /\ c.window > 0 /\ c.maxInFlight > 0
    /\ MaxEntries > 0 /\ TTL > 0 /\ Hour > 0

Keys == {KeyOf[r] : r \in Req} \ {"none"}
Nobody == "nobody"
Never == 0   \* the zero time; the clock starts at 1

VARIABLES
    now,
    config,    \* the options, replaced at once
    reload,    \* Reconfigure waits for the governor to see them
    reloads,   \* bound
    gov,       \* the state of run
    pc,        \* by request
    until,     \* by request: the pause it was told of, Never before
    lockOf,    \* by key: the lock in the map, named after the request that made it
    users,     \* by lock
    held,      \* by lock: who has its mutex
    mine,      \* by request: the lock it waits for or holds
    entries,   \* by key: when its entry expires, Never without one
    answer,    \* by request: what its caller got
    rotated    \* history: how often the token was rotated by a request

vars == <<now, config, reload, reloads, gov, pc, until, lockOf, users, held, mine, entries, answer, rotated>>
clientVars == <<pc, until, lockOf, users, held, mine, entries, answer, rotated>>

Init ==
    /\ now = 1 /\ config \in Configs /\ reload = FALSE /\ reloads = 0
    /\ gov = [routine |-> <<>>, bulk |-> <<>>, granted |-> {}, inFlight |-> 0, nextAllowed |-> Never,
              lastGrantedAt |-> Never, cooldownUntil |-> Never, fairnessIndex |-> 0, timer |-> Never]
    /\ pc = [r \in Req |-> "new"] /\ until = [r \in Req |-> Never]
    /\ lockOf = [k \in Keys |-> Nobody] /\ users = [r \in Req |-> 0]
    /\ held = [r \in Req |-> Nobody] /\ mine = [r \in Req |-> Nobody]
    /\ entries = [k \in Keys |-> Never]
    /\ answer = [r \in Req |-> "none"] /\ rotated = [r \in Req |-> 0]

-----------------------------------------------------------------------------
Waiting(g) == g.routine # <<>> \/ g.bulk # <<>>

\* pick: in turn three routine requests and a bulk one while there are both.
pick(g) ==
    LET both == g.routine # <<>> /\ g.bulk # <<>>
        useBulk == IF both THEN g.fairnessIndex = 3 ELSE g.routine = <<>>
        r == IF useBulk THEN Head(g.bulk) ELSE Head(g.routine)
    IN  [g EXCEPT !.routine = IF useBulk THEN @ ELSE Tail(@),
                  !.bulk = IF useBulk THEN Tail(@) ELSE @,
                  !.fairnessIndex = IF both THEN (@ + 1) % 4 ELSE @,
                  !.inFlight = @ + 1, !.granted = @ \cup {r},
                  !.lastGrantedAt = now, !.nextAllowed = now + config.interval]

\* dispatch, after every event.
dispatch(g) ==
    LET readyAt == IF g.cooldownUntil > g.nextAllowed THEN g.cooldownUntil ELSE g.nextAllowed
        next == pick(g)
    IN  IF g.inFlight >= config.maxInFlight \/ ~Waiting(g) THEN [g EXCEPT !.timer = Never]
        ELSE IF readyAt > now THEN [g EXCEPT !.timer = readyAt]
        ELSE [next EXCEPT !.timer = IF next.inFlight < config.maxInFlight /\ Waiting(next)
                                    THEN now + config.interval ELSE Never]

Without(queue, r) == SelectSeq(queue, LAMBDA q : q # r)

\* The release or the cancellation of a granted request.
free(g, r) ==
    IF r \in g.granted THEN [g EXCEPT !.granted = @ \ {r}, !.inFlight = @ - 1] ELSE g

\* The timer of run.
TimerFires ==
    /\ gov.timer # Never /\ gov.timer <= now
    /\ gov' = dispatch(gov)
    /\ UNCHANGED <<now, config, reload, reloads, clientVars>>

\* Reconfigure: new options are seen by the next dispatch, and the call returns when the
\* governor has been woken.
Reconfigure(c) ==
    /\ ~reload /\ reloads < MaxReloads /\ c # config
    /\ config' = c /\ reload' = TRUE /\ reloads' = reloads + 1
    /\ UNCHANGED <<now, gov, clientVars>>

Reload ==
    /\ reload /\ reload' = FALSE
    /\ LET candidate == gov.lastGrantedAt + config.interval
       IN  gov' = dispatch(IF gov.lastGrantedAt # Never /\ candidate > gov.nextAllowed
                           THEN [gov EXCEPT !.nextAllowed = candidate] ELSE gov)
    /\ UNCHANGED <<now, config, reloads, clientVars>>

Tick ==
    /\ now < MaxTime /\ now' = now + 1
    /\ UNCHANGED <<config, reload, reloads, gov, clientVars>>

-----------------------------------------------------------------------------
\* LoginAndGenerateAccessToken: the rotation follows a login that was understood.
Ready(r) == r \in Rotation => answer[LoginOf[r]] = "ok" /\ pc[LoginOf[r]] = "done"

\* A request that do refuses at once, and a rotation whose login failed.
Refuse(r) ==
    /\ pc[r] = "new" /\ (r \in Rotation => pc[LoginOf[r]] = "done")
    /\ pc' = [pc EXCEPT ![r] = "done"] /\ answer' = [answer EXCEPT ![r] = "failed"]
    /\ UNCHANGED <<now, config, reload, reloads, gov, until, lockOf, users, held, mine, entries, rotated>>

\* do, up to the cache: without a key the request goes to the governor.
Begin(r) ==
    /\ pc[r] = "new" /\ KeyOf[r] = "none" /\ Ready(r)
    /\ pc' = [pc EXCEPT ![r] = "asking"]
    /\ UNCHANGED <<now, config, reload, reloads, gov, until, lockOf, users, held, mine, entries, answer, rotated>>

\* acquireUpstreamCacheLock up to the mutex: expired entries go, the lock of the key is
\* found or made, and counted.
EnterLock(r) ==
    /\ pc[r] = "new" /\ KeyOf[r] # "none"
    /\ LET k == KeyOf[r]
           lock == IF lockOf[k] = Nobody THEN r ELSE lockOf[k]
       IN  /\ entries' = [c \in Keys |-> IF entries[c] <= now THEN Never ELSE entries[c]]
           /\ lockOf' = [lockOf EXCEPT ![k] = lock]
           /\ users' = [users EXCEPT ![lock] = @ + 1]
           /\ mine' = [mine EXCEPT ![r] = lock]
    /\ pc' = [pc EXCEPT ![r] = "locking"]
    /\ UNCHANGED <<now, config, reload, reloads, gov, until, held, answer, rotated>>

\* The mutex is taken and the entry looked up.
Lookup(r) ==
    /\ pc[r] = "locking" /\ held[mine[r]] = Nobody
    /\ held' = [held EXCEPT ![mine[r]] = r]
    /\ \/ /\ entries[KeyOf[r]] > now
          /\ pc' = [pc EXCEPT ![r] = "unlocking"] /\ answer' = [answer EXCEPT ![r] = "cached"]
       \/ /\ entries[KeyOf[r]] <= now
          /\ pc' = [pc EXCEPT ![r] = "asking"] /\ answer' = answer
    /\ UNCHANGED <<now, config, reload, reloads, gov, until, lockOf, users, mine, entries, rotated>>

Leave(r) == IF KeyOf[r] = "none" THEN "done" ELSE "unlocking"

\* Acquire: the governor takes the request from the channel.
Enqueue(r) ==
    /\ pc[r] = "asking"
    /\ gov' = dispatch(IF r \in Bulk THEN [gov EXCEPT !.bulk = Append(@, r)]
                       ELSE [gov EXCEPT !.routine = Append(@, r)])
    /\ pc' = [pc EXCEPT ![r] = "waiting"]
    /\ UNCHANGED <<now, config, reload, reloads, until, lockOf, users, held, mine, entries, answer, rotated>>

\* The context ends, before the request was taken or while it waits.
GiveUp(r) ==
    /\ \/ pc[r] = "asking" /\ pc' = [pc EXCEPT ![r] = Leave(r)] /\ answer' = [answer EXCEPT ![r] = "unavailable"]
       \/ pc[r] = "waiting" /\ pc' = [pc EXCEPT ![r] = "cancelling"] /\ answer' = answer
    /\ UNCHANGED <<now, config, reload, reloads, gov, until, lockOf, users, held, mine, entries, rotated>>

\* The cancellation is handled; the request may have been granted meanwhile.
Cancel(r) ==
    /\ pc[r] = "cancelling"
    /\ gov' = dispatch(free([gov EXCEPT !.routine = Without(@, r), !.bulk = Without(@, r)], r))
    /\ pc' = [pc EXCEPT ![r] = Leave(r)] /\ answer' = [answer EXCEPT ![r] = "unavailable"]
    /\ UNCHANGED <<now, config, reload, reloads, until, lockOf, users, held, mine, entries, rotated>>

\* Acquire returns.
Granted(r) ==
    /\ pc[r] = "waiting" /\ r \in gov.granted
    /\ pc' = [pc EXCEPT ![r] = "calling"]
    /\ UNCHANGED <<now, config, reload, reloads, gov, until, lockOf, users, held, mine, entries, answer, rotated>>

\* How a call ends: not sent; sent, and no answer; a redirect that is not followed, which is any of a
\* rotation and for a read one that leaves the origin or is one too many; 429; another error status;
\* an answer that is too large, cut off or not understood; a good answer.
Ends == {"unsent", "lost", "redirect", "limited", "status", "invalid", "good"}

\* What the caller is told.  A rotation that may have happened is never called a failure.
resultOf(r, end) ==
    CASE end = "good" -> "ok"
      [] end \in {"limited", "status"} -> "refused"
      [] end = "unsent" -> "unavailable"
      [] OTHER -> IF r \in Rotation THEN "unknown" ELSE "failed"

\* httpClient.Do and the reading of the answer.  A rotation is sent once; a status of 400 or
\* more says that it did not happen.
Call(r) ==
    /\ pc[r] = "calling"
    /\ \E end \in Ends :
         /\ answer' = [answer EXCEPT ![r] = resultOf(r, end)]
         /\ \E effect \in {0, 1} :
              /\ effect = 1 => r \in Rotation /\ end \in {"lost", "redirect", "invalid", "good"}
              /\ (end = "good" /\ r \in Rotation) => effect = 1
              /\ rotated' = [rotated EXCEPT ![r] = @ + effect]
         /\ pc' = [pc EXCEPT ![r] = CASE end = "limited" -> "limited"
                                      [] end = "good" /\ KeyOf[r] # "none" -> "storing"
                                      [] OTHER -> "releasing"]
    /\ UNCHANGED <<now, config, reload, reloads, gov, until, lockOf, users, held, mine, entries>>

\* parseRetryAfter: no header, a negative number and a time in the past all give no pause.
parseRetryAfter(header) ==
    IF header.kind = "none" \/ header.value < 0 THEN 0
    ELSE IF header.value > Hour THEN Hour ELSE header.value

Pause(header) ==
    LET parsed == parseRetryAfter(header)
        delay == IF parsed > 0 THEN parsed ELSE config.window
    IN  IF delay > Hour THEN Hour ELSE delay

\* ObserveRateLimit: the end of the pause is fixed before the governor is told of it.
Observe(r) ==
    /\ pc[r] = "limited" /\ until[r] = Never
    /\ \E header \in RetryAfters : until' = [until EXCEPT ![r] = now + Pause(header)]
    /\ UNCHANGED <<now, config, reload, reloads, gov, pc, lockOf, users, held, mine, entries, answer, rotated>>

Cooldown(r) ==
    /\ pc[r] = "limited" /\ until[r] # Never
    /\ gov' = dispatch([gov EXCEPT !.cooldownUntil = IF until[r] > @ THEN until[r] ELSE @])
    /\ pc' = [pc EXCEPT ![r] = "releasing"]
    /\ UNCHANGED <<now, config, reload, reloads, until, lockOf, users, held, mine, entries, answer, rotated>>

\* storeUpstreamReadCache: a full cache gives up the entry that expires first, even when
\* the key has one already.
Store(r) ==
    /\ pc[r] = "storing"
    /\ LET full == Cardinality({k \in Keys : entries[k] # Never}) >= MaxEntries
           oldest == {k \in Keys : entries[k] # Never
                        /\ \A c \in Keys : entries[c] # Never => entries[k] <= entries[c]}
       IN  \E out \in IF full THEN {{k} : k \in oldest} ELSE {{}} :
             entries' = [k \in Keys |-> IF k = KeyOf[r] THEN now + TTL
                                        ELSE IF k \in out THEN Never ELSE entries[k]]
    /\ pc' = [pc EXCEPT ![r] = "releasing"]
    /\ UNCHANGED <<now, config, reload, reloads, gov, until, lockOf, users, held, mine, answer, rotated>>

\* The deferred release, before the lock of the key.
Release(r) ==
    /\ pc[r] = "releasing"
    /\ gov' = dispatch(free(gov, r))
    /\ pc' = [pc EXCEPT ![r] = Leave(r)]
    /\ UNCHANGED <<now, config, reload, reloads, until, lockOf, users, held, mine, entries, answer, rotated>>

Unlock(r) ==
    /\ pc[r] = "unlocking"
    /\ held' = [held EXCEPT ![mine[r]] = Nobody]
    /\ pc' = [pc EXCEPT ![r] = "leaving"]
    /\ UNCHANGED <<now, config, reload, reloads, gov, until, lockOf, users, mine, entries, answer, rotated>>

\* The last user of a lock removes it.
DropLock(r) ==
    /\ pc[r] = "leaving"
    /\ users' = [users EXCEPT ![mine[r]] = @ - 1]
    /\ lockOf' = [lockOf EXCEPT ![KeyOf[r]] = IF users'[mine[r]] = 0 /\ @ = mine[r] THEN Nobody ELSE @]
    /\ mine' = [mine EXCEPT ![r] = Nobody]
    /\ pc' = [pc EXCEPT ![r] = "done"]
    /\ UNCHANGED <<now, config, reload, reloads, gov, until, held, entries, answer, rotated>>

Next ==
    \/ TimerFires \/ Reload \/ Tick
    \/ \E c \in Configs : Reconfigure(c)
    \/ \E r \in Req : \/ Refuse(r) \/ Begin(r) \/ EnterLock(r) \/ Lookup(r) \/ Enqueue(r) \/ GiveUp(r) \/ Cancel(r)
                      \/ Granted(r) \/ Call(r) \/ Observe(r) \/ Cooldown(r) \/ Store(r) \/ Release(r)
                      \/ Unlock(r) \/ DropLock(r)

Spec == Init /\ [][Next]_vars

-----------------------------------------------------------------------------
InQueue(r) == \E i \in 1 .. Len(gov.routine \o gov.bulk) : (gov.routine \o gov.bulk)[i] = r
Calls(r) == pc[r] \in {"calling", "limited", "storing", "releasing"}

\* No slot is lost or given twice, however cancellations race grants: what counts as in
\* flight is what holds a slot or is about to learn of it, and who waits is queued or granted.
SlotsKept ==
    /\ gov.inFlight = Cardinality(gov.granted)
    /\ \A r \in Req : /\ Calls(r) => r \in gov.granted
                      /\ r \in gov.granted => Calls(r) \/ pc[r] \in {"waiting", "cancelling"}
                      /\ pc[r] \in {"waiting", "cancelling"} => (InQueue(r) <=> r \notin gov.granted)

\* The governor does not sleep on a request it could admit later: while one waits and a
\* slot is free a timer is set, not later than the request is ready.
NoLostWakeup ==
    (Waiting(gov) /\ gov.inFlight < config.maxInFlight /\ ~reload) =>
        /\ gov.timer # Never
        /\ gov.timer <= gov.nextAllowed \/ gov.timer <= gov.cooldownUntil

\* Once Reconfigure has returned, the new interval counts from the last admission.
PaceIsCurrent ==
    (~reload /\ gov.lastGrantedAt # Never) => gov.nextAllowed >= gov.lastGrantedAt + config.interval

\* One request of a key reads at a time, though locks are made and dropped around it.
OneReadPerKey ==
    \A q, r \in Req : (q # r /\ KeyOf[q] = KeyOf[r] /\ KeyOf[r] # "none")
        => ~(pc[q] \in {"asking", "waiting", "calling", "storing"} /\ pc[r] \in {"asking", "waiting", "calling", "storing"})

\* A token that was rotated is either in the caller's hands or reported as unknown, and it
\* was rotated once.
RotationIsReported ==
    \A r \in Rotation : rotated[r] <= 1 /\ (rotated[r] = 1 => answer[r] \in {"ok", "unknown"})

\* No request is admitted beyond the limit in force, or before the end of a pause that a
\* request before it was told of and returned with.
AdmissionsWaitStep ==
    gov'.granted \ gov.granted # {} =>
        /\ gov'.inFlight <= config.maxInFlight
        /\ \A q \in Req : (until[q] # Never /\ pc[q] # "limited") => now >= until[q]
=============================================================================
