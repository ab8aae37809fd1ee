----------------------------- MODULE RateLimiter -----------------------------
(***************************************************************************)
(* middleware.RateLimiter: a cache of the limits, and per user a window of *)
(* the requests it admitted.  checkLimits looks the limit up, reads the    *)
(* clock, fetches the window from the map, and only then locks it; the     *)
(* cleanup goroutine, administrators and other requests run in between.    *)
(*                                                                         *)
(* A window is named after the request that allocated it and holds, for    *)
(* minute and daily, the requests appended.  Nothing in src/ calls         *)
(* RecordTokenUsage, so the token list of a window is empty and            *)
(* tokens_per_minute refuses nothing.  The quota is checked before all     *)
(* this and is not part of this module.  Retry-After is left out.          *)
(***************************************************************************)
EXTENDS Integers, FiniteSets

CONSTANTS
    Requests,   \* the requests that arrive, each once (bound)
    Users,
    UserOf,     \* the user each request is made for
    Limits,     \* rows an administrator stores (bound): records [rpm, rpd]
    Default,    \* the limit of a user without a row
    NoRow,      \* FindByUserID returns nil
    NoWindow,   \* the map has no window
    Minute,     \* 60 s, in ticks
    Day,        \* 86400 s
    TTL,        \* how long a cached limit is used (5 min)
    MaxTime     \* the clock stops here (bound)

Limit == Limits \cup {Default}

ASSUME RateAssumption ==
    /\ IsFiniteSet(Requests)
    /\ UserOf \in [Requests -> Users]
    /\ \A l \in Limit : l.rpm \in Nat /\ l.rpd \in Nat
    /\ NoRow \notin Limit
    /\ NoWindow \notin Requests
    /\ {Minute, Day, TTL, MaxTime} \subseteq Nat
    /\ Minute <= Day

VARIABLES
    now,       \* the clock
    stored,    \* stored[u]: the row of rate_limits
    cache,     \* cache[u]: RateLimiter.cache, an entry with its expiry
    current,   \* current[u]: RateLimiter.window
    minute,    \* minute[w]: the minute list of window w
    daily,     \* daily[w]: its daily list
    pc,        \* pc[r]: where request r is
    limit,     \* limit[r]: what getLimit returned
    at,        \* at[r]: the clock checkLimits read, and appends
    win        \* win[r]: the window it got

vars == <<now, stored, cache, current, minute, daily, pc, limit, at, win>>

PC == {"new", "load", "fill", "clock", "window", "check", "admitted", "refused"}

Cached == [limit : Limit, expiry : Nat]

NotCached == [limit |-> Default, expiry |-> 0]

TypeOK ==
    /\ now \in 0 .. MaxTime
    /\ stored \in [Users -> Limit \cup {NoRow}]
    /\ cache \in [Users -> Cached]
    /\ current \in [Users -> Requests \cup {NoWindow}]
    /\ minute \in [Requests -> SUBSET Requests]
    /\ daily \in [Requests -> SUBSET Requests]
    /\ pc \in [Requests -> PC]
    /\ limit \in [Requests -> Limit]
    /\ at \in [Requests -> 0 .. MaxTime]
    /\ win \in [Requests -> Requests]

\* An absent cache entry is one that has expired: both are looked up again.
Init ==
    /\ now = 0
    /\ stored \in [Users -> Limits \cup {NoRow}]
    /\ cache = [u \in Users |-> NotCached]
    /\ current = [u \in Users |-> NoWindow]
    /\ minute = [w \in Requests |-> {}]
    /\ daily = [w \in Requests |-> {}]
    /\ pc = [r \in Requests |-> "new"]
    /\ limit = [r \in Requests |-> Default]
    /\ at = [r \in Requests |-> 0]
    /\ win = [r \in Requests |-> r]

Goto(r, label) == pc' = [pc EXCEPT ![r] = label]

-----------------------------------------------------------------------------
(* getLimit.                                                               *)

CacheHit(r) ==
    /\ pc[r] = "new"
    /\ now < cache[UserOf[r]].expiry
    /\ limit' = [limit EXCEPT ![r] = cache[UserOf[r]].limit]
    /\ Goto(r, "clock")
    /\ UNCHANGED <<now, stored, cache, current, minute, daily, at, win>>

CacheMiss(r) ==
    /\ pc[r] = "new"
    /\ ~(now < cache[UserOf[r]].expiry)
    /\ Goto(r, "load")
    /\ UNCHANGED <<now, stored, cache, current, minute, daily, limit, at, win>>

\* Mutant: the nil row is not looked at.
FoundAnyway(row) == TRUE

Found(row) == row # NoRow

\* FindByUserID.  The defaults stand in for a missing row, and are not cached.
LoadRow(r) ==
    /\ pc[r] = "load"
    /\ Found(stored[UserOf[r]])
    /\ limit' = [limit EXCEPT ![r] = stored[UserOf[r]]]
    /\ Goto(r, "fill")
    /\ UNCHANGED <<now, stored, cache, current, minute, daily, at, win>>

\* No row, or an error.
LoadDefault(r) ==
    /\ pc[r] = "load"
    /\ limit' = [limit EXCEPT ![r] = Default]
    /\ Goto(r, "clock")
    /\ UNCHANGED <<now, stored, cache, current, minute, daily, at, win>>

FillCache(r) ==
    /\ pc[r] = "fill"
    /\ cache' = [cache EXCEPT ![UserOf[r]] = [limit |-> limit[r], expiry |-> now + TTL]]
    /\ Goto(r, "clock")
    /\ UNCHANGED <<now, stored, current, minute, daily, limit, at, win>>

-----------------------------------------------------------------------------
(* The rest of checkLimits.                                                *)

ReadClock(r) ==
    /\ pc[r] = "clock"
    /\ at' = [at EXCEPT ![r] = now]
    /\ Goto(r, "window")
    /\ UNCHANGED <<now, stored, cache, current, minute, daily, limit, win>>

\* getWindow, its second look under the write lock included.
GetWindow(r) ==
    /\ pc[r] = "window"
    /\ current[UserOf[r]] # NoWindow
    /\ win' = [win EXCEPT ![r] = current[UserOf[r]]]
    /\ Goto(r, "check")
    /\ UNCHANGED <<now, stored, cache, current, minute, daily, limit, at>>

NewWindow(r) ==
    /\ pc[r] = "window"
    /\ current[UserOf[r]] = NoWindow
    /\ current' = [current EXCEPT ![UserOf[r]] = r]
    /\ win' = [win EXCEPT ![r] = r]
    /\ Goto(r, "check")
    /\ UNCHANGED <<now, stored, cache, minute, daily, limit, at>>

\* filterTimestamps, and countInWindow: the cutoff itself is still inside.
Since(list, cutoff) == {q \in list : at[q] >= cutoff}

\* Mutant: one more than the limit.
FullOffByOne(list, max) == max > 0 /\ Cardinality(list) > max

\* 0 is no limit.
Full(list, max) == max > 0 /\ Cardinality(list) >= max

\* Mutant: the list is counted as it is.
MinuteListUncleaned(r) == minute[win[r]]

\* The lists as r sees them: each is cleaned only when its limit is set.
MinuteList(r) ==
    IF limit[r].rpm > 0 THEN Since(minute[win[r]], at[r] - Minute) ELSE minute[win[r]]

DailyList(r) ==
    IF limit[r].rpd > 0 THEN Since(daily[win[r]], at[r] - Day) ELSE daily[win[r]]

RefuseMinute(r) ==
    /\ pc[r] = "check"
    /\ Full(MinuteList(r), limit[r].rpm)
    /\ minute' = [minute EXCEPT ![win[r]] = MinuteList(r)]
    /\ Goto(r, "refused")
    /\ UNCHANGED <<now, stored, cache, current, daily, limit, at, win>>

RefuseDay(r) ==
    /\ pc[r] = "check"
    /\ ~Full(MinuteList(r), limit[r].rpm)
    /\ Full(DailyList(r), limit[r].rpd)
    /\ minute' = [minute EXCEPT ![win[r]] = MinuteList(r)]
    /\ daily' = [daily EXCEPT ![win[r]] = DailyList(r)]
    /\ Goto(r, "refused")
    /\ UNCHANGED <<now, stored, cache, current, limit, at, win>>

Admit(r) ==
    /\ pc[r] = "check"
    /\ ~Full(MinuteList(r), limit[r].rpm)
    /\ ~Full(DailyList(r), limit[r].rpd)
    /\ minute' = [minute EXCEPT ![win[r]] = MinuteList(r) \cup {r}]
    /\ daily' = [daily EXCEPT ![win[r]] = DailyList(r) \cup {r}]
    /\ Goto(r, "admitted")
    /\ UNCHANGED <<now, stored, cache, current, limit, at, win>>

-----------------------------------------------------------------------------
(* cleanupLoop, administrators, time.                                      *)

\* Expired entries leave the cache.
DropExpired(u) ==
    /\ now > cache[u].expiry
    /\ cache' = [cache EXCEPT ![u] = NotCached]
    /\ UNCHANGED <<now, stored, current, minute, daily, pc, limit, at, win>>

\* Mutant: one cutoff, a minute back, for both lists.
CleanupHorizonMinute == Minute

CleanupHorizon == Day

\* Mutant: only the minute list is looked at.
EmptyMinute(m, d) == m = {}

Empty(m, d) == m = {} /\ d = {}

\* Both lists are cleaned to a day, and a window left empty leaves the map.
\* The loop holds the map's lock throughout and this window's lock here; the
\* windows of other users share nothing with it.
CleanWindow(u) ==
    /\ current[u] # NoWindow
    /\ LET w == current[u]
           m == Since(minute[w], now - Day)
           d == Since(daily[w], now - CleanupHorizon)
       IN  /\ minute' = [minute EXCEPT ![w] = m]
           /\ daily' = [daily EXCEPT ![w] = d]
           /\ current' = IF Empty(m, d) THEN [current EXCEPT ![u] = NoWindow] ELSE current
    /\ UNCHANGED <<now, stored, cache, pc, limit, at, win>>

\* RateLimitHandler.Create and Update; nothing reaches the cache.
PutLimit(u) ==
    /\ \E l \in Limits : stored' = [stored EXCEPT ![u] = l]
    /\ UNCHANGED <<now, cache, current, minute, daily, pc, limit, at, win>>

DeleteLimit(u) ==
    /\ stored' = [stored EXCEPT ![u] = NoRow]
    /\ UNCHANGED <<now, cache, current, minute, daily, pc, limit, at, win>>

Tick ==
    /\ now < MaxTime
    /\ now' = now + 1
    /\ UNCHANGED <<stored, cache, current, minute, daily, pc, limit, at, win>>

-----------------------------------------------------------------------------
GetLimit(r) == CacheHit(r) \/ CacheMiss(r) \/ LoadRow(r) \/ LoadDefault(r) \/ FillCache(r)

FetchWindow(r) == ReadClock(r) \/ GetWindow(r) \/ NewWindow(r)

Check(r) == RefuseMinute(r) \/ RefuseDay(r) \/ Admit(r)

Next ==
    \/ \E r \in Requests : GetLimit(r) \/ FetchWindow(r) \/ Check(r)
    \/ \E u \in Users : DropExpired(u) \/ CleanWindow(u) \/ PutLimit(u) \/ DeleteLimit(u)
    \/ Tick

Spec == Init /\ [][Next]_vars

-----------------------------------------------------------------------------
(* Properties.                                                             *)

\* What was admitted for user u within the span, by the time recorded.
Recent(u, span) ==
    {r \in Requests : pc[r] = "admitted" /\ UserOf[r] = u /\ at[r] >= now - span}

\* The most any limit in use allows; all of them set one.
RPMBound(n) == \A l \in Limit : l.rpm \in 1 .. n

RPDBound(n) == \A l \in Limit : l.rpd \in 1 .. n

\* No window ever holds more requests of the last minute, or of the last day,
\* than the most generous limit allows: stale clocks, cached limits and
\* limits changed between look-up and check cannot add up to more.
WindowsWithinLimit ==
    \A w \in Requests, n \in 1 .. Cardinality(Requests) :
        /\ RPMBound(n) => Cardinality(Since(minute[w], now - Minute)) <= n
        /\ RPDBound(n) => Cardinality(Since(daily[w], now - Day)) <= n

\* Whatever was admitted stays on the lists of the window it was checked
\* against for as long as it counts, whoever cleans them with whatever clock.
AdmissionsRemembered ==
    \A r \in Requests : pc[r] = "admitted" =>
        /\ at[r] >= now - Minute => r \in minute[win[r]]
        /\ at[r] >= now - Day    => r \in daily[win[r]]

\* The cleanup drops a window only when no request in it counts any more.
LiveWindowKept ==
    [][\A u \in Users, r \in Requests :
          pc[r] = "admitted" /\ win[r] = current[u] /\ current'[u] # current[u]
              => at[r] < now - Day]_vars

\* More requests of a minute, or of a day, than the limit are admitted only
\* when one of them is in a window that is not, or no longer, the one in the map.
OverLimitNeedsOrphan ==
    \A u \in Users, n \in 1 .. Cardinality(Requests) :
        /\ RPMBound(n) /\ Cardinality(Recent(u, Minute)) > n
               => \E r \in Recent(u, Minute) : win[r] # current[u]
        /\ RPDBound(n) /\ Cardinality(Recent(u, Day)) > n
               => \E r \in Recent(u, Day) : win[r] # current[u]

\* How far a request is, for one who sees no lists.
stageOf ==
    [r \in Requests |->
        CASE pc[r] \in {"new", "load", "fill", "clock"} -> "asked"
          [] pc[r] = "window"                          -> "timed"
          [] pc[r] = "check"                           -> "joined"
          [] OTHER                                     -> pc[r]]

Log == INSTANCE AdmissionLog WITH stage <- stageOf

\* The cleaned lists, read with whatever clock, judge every request as the
\* whole log of its window would.
LogIsKept == Log!Spec

\* middleware/ratelimit_test.go expects of a limit of 2 a minute that "3rd
\* request - should be blocked".
LimitHolds ==
    \A u \in Users, n \in 1 .. Cardinality(Requests) :
        RPMBound(n) => Cardinality(Recent(u, Minute)) <= n
=============================================================================
