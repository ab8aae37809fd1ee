-------------------------- MODULE RateLimiterProofs --------------------------
(***************************************************************************)
(* Proofs for RateLimiter: for any users, requests, limits, window lengths *)
(* and interleaving.                                                       *)
(***************************************************************************)
EXTENDS RateLimiter, FiniteSetTheorems, TLAPS

\* Nobody's clock runs ahead, however late he comes to use it.
ClocksBehind == \A r \in Requests : at[r] <= now

\* Windows list what was admitted against them, and nothing else.
ListsAdmitted ==
    \A w \in Requests, q \in Requests :
        q \in minute[w] \/ q \in daily[w] => pc[q] = "admitted" /\ win[q] = w

IInv == TypeOK /\ ClocksBehind /\ ListsAdmitted /\ WindowsWithinLimit /\ AdmissionsRemembered

-----------------------------------------------------------------------------
(* Lists.                                                                  *)

LEMMA Numbers ==
    /\ Minute \in Nat /\ Day \in Nat /\ TTL \in Nat /\ MaxTime \in Nat /\ Minute <= Day
    /\ \A l \in Limit : l.rpm \in Nat /\ l.rpd \in Nat
    /\ Limits \subseteq Limit /\ Default \in Limit
BY RateAssumption DEF Limit

\* Part of a list counts at most as much as the list.
LEMMA SmallerList ==
    ASSUME NEW S, NEW T, S \subseteq T, T \subseteq Requests
    PROVE  /\ Cardinality(S) \in Nat /\ Cardinality(T) \in Nat
           /\ Cardinality(S) <= Cardinality(T)
<1>1. IsFiniteSet(T)  BY FS_Subset, RateAssumption
<1>2. IsFiniteSet(S) /\ Cardinality(S) <= Cardinality(T)  BY <1>1, FS_Subset
<1> QED  BY <1>1, <1>2, FS_CardinalityType

\* A list below its limit is at most at the limit after one append.
LEMMA OneMore ==
    ASSUME NEW T, T \subseteq Requests, NEW r \in Requests, NEW max \in Nat, max > 0,
           ~Full(T, max)
    PROVE  Cardinality(T \cup {r}) <= max
<1>1. IsFiniteSet(T)  BY FS_Subset, RateAssumption
<1>2. Cardinality(T) \in Nat  BY <1>1, FS_CardinalityType
<1>3. Cardinality(T \cup {r}) = IF r \in T THEN Cardinality(T) ELSE Cardinality(T) + 1
    BY <1>1, FS_AddElement
<1>4. Cardinality(T) < max  BY <1>2 DEF Full
<1> QED  BY <1>2, <1>3, <1>4

\* What counts in window w.
MinuteCount(w) == Since(minute[w], now - Minute)

DayCount(w) == Since(daily[w], now - Day)

\* A step after which no more counts than before keeps the limits.
LEMMA ShrinkingKeepsLimits ==
    ASSUME IInv,
           \A w \in Requests : /\ MinuteCount(w)' \subseteq MinuteCount(w)
                               /\ DayCount(w)' \subseteq DayCount(w)
    PROVE  WindowsWithinLimit'
<1> SUFFICES ASSUME NEW w \in Requests, NEW n \in 1 .. Cardinality(Requests)
             PROVE  /\ RPMBound(n) => Cardinality(MinuteCount(w)') <= n
                    /\ RPDBound(n) => Cardinality(DayCount(w)') <= n
    BY DEF WindowsWithinLimit, MinuteCount, DayCount, RPMBound, RPDBound
<1>1. MinuteCount(w) \subseteq Requests /\ DayCount(w) \subseteq Requests
    BY DEF IInv, TypeOK, MinuteCount, DayCount, Since
<1>2. n \in Nat  OBVIOUS
<1>3. /\ RPMBound(n) => Cardinality(MinuteCount(w)) <= n
      /\ RPDBound(n) => Cardinality(DayCount(w)) <= n
    BY DEF IInv, WindowsWithinLimit, MinuteCount, DayCount
<1>4. /\ Cardinality(MinuteCount(w)') \in Nat /\ Cardinality(MinuteCount(w)) \in Nat
      /\ Cardinality(MinuteCount(w)') <= Cardinality(MinuteCount(w))
    BY <1>1, SmallerList
<1>5. /\ Cardinality(DayCount(w)') \in Nat /\ Cardinality(DayCount(w)) \in Nat
      /\ Cardinality(DayCount(w)') <= Cardinality(DayCount(w))
    BY <1>1, SmallerList
<1> QED  BY <1>2, <1>3, <1>4, <1>5

Lists == ListsAdmitted /\ WindowsWithinLimit /\ AdmissionsRemembered

\* Steps that touch no list, and move no admitted request, keep all that is
\* said of the lists.
LEMMA ListsKept ==
    ASSUME IInv, UNCHANGED <<minute, daily, now>>,
           \A q \in Requests : /\ pc[q] = "admitted" <=> pc'[q] = "admitted"
                               /\ pc[q] = "admitted" => at'[q] = at[q] /\ win'[q] = win[q]
    PROVE  Lists'
<1>u. minute' = minute /\ daily' = daily /\ now' = now  OBVIOUS
<1>a. ListsAdmitted /\ AdmissionsRemembered  BY DEF IInv
<1>1. ListsAdmitted'  BY <1>u, <1>a DEF ListsAdmitted
<1>2. ASSUME NEW w \in Requests
      PROVE  MinuteCount(w)' \subseteq MinuteCount(w) /\ DayCount(w)' \subseteq DayCount(w)
    <2>1. minute[w] \subseteq Requests /\ daily[w] \subseteq Requests  BY DEF IInv, TypeOK
    <2>2. \A q \in minute[w] \cup daily[w] : at'[q] = at[q]
        BY <1>a, <2>1 DEF ListsAdmitted
    <2> QED  BY <1>u, <2>2 DEF MinuteCount, DayCount, Since
<1>3. WindowsWithinLimit'  BY <1>2, ShrinkingKeepsLimits
<1>4. AdmissionsRemembered'  BY <1>u, <1>a DEF AdmissionsRemembered
<1> QED  BY <1>1, <1>3, <1>4 DEF Lists

\* The clock may have moved on since r read it.
LEMMA StaleClock ==
    ASSUME IInv, NEW r \in Requests
    PROVE  /\ now \in Int /\ at[r] \in Int /\ at[r] <= now
           /\ now - Minute \in Int /\ now - Day \in Int
           /\ at[r] - Minute <= now - Minute /\ at[r] - Day <= now - Day
           /\ win[r] \in Requests
           /\ limit[r] \in Limit /\ limit[r].rpm \in Nat /\ limit[r].rpd \in Nat
BY Numbers DEF IInv, TypeOK, ClocksBehind

\* Cleaning a list under a clock that is not ahead removes nothing that counts.
LEMMA CleanedLists ==
    ASSUME IInv, NEW r \in Requests
    PROVE  /\ MinuteList(r) \subseteq minute[win[r]] /\ DailyList(r) \subseteq daily[win[r]]
           /\ minute[win[r]] \subseteq Requests /\ daily[win[r]] \subseteq Requests
           /\ MinuteCount(win[r]) \subseteq MinuteList(r)
           /\ DayCount(win[r]) \subseteq DailyList(r)
<1>1. minute[win[r]] \subseteq Requests /\ daily[win[r]] \subseteq Requests
    BY StaleClock DEF IInv, TypeOK
<1>2. \A q \in Requests : at[q] \in Int  BY StaleClock
<1>3. /\ \A q \in Requests : at[q] >= now - Minute => at[q] >= at[r] - Minute
      /\ \A q \in Requests : at[q] >= now - Day => at[q] >= at[r] - Day
    BY <1>2, StaleClock, Numbers
<1>4. MinuteList(r) \subseteq minute[win[r]] /\ DailyList(r) \subseteq daily[win[r]]
    BY DEF MinuteList, DailyList, Since
<1>5. MinuteCount(win[r]) \subseteq MinuteList(r)
    BY <1>1, <1>3 DEF MinuteCount, MinuteList, Since
<1>6. DayCount(win[r]) \subseteq DailyList(r)
    BY <1>1, <1>3 DEF DayCount, DailyList, Since
<1> QED  BY <1>1, <1>4, <1>5, <1>6

\* The same of a refusal: it may clean either list, and admits nobody.
LEMMA RefusalKeepsLists ==
    ASSUME IInv, NEW r \in Requests, pc[r] = "check", UNCHANGED <<at, win, now>>,
           Goto(r, "refused"),
           minute' = [minute EXCEPT ![win[r]] = MinuteList(r)],
           \/ UNCHANGED daily
           \/ daily' = [daily EXCEPT ![win[r]] = DailyList(r)]
    PROVE  Lists'
<1>t. /\ minute \in [Requests -> SUBSET Requests] /\ daily \in [Requests -> SUBSET Requests]
      /\ \A q \in Requests : at[q] \in Int /\ win[q] \in Requests
    BY StaleClock DEF IInv, TypeOK
<1>1. \A w \in Requests : minute'[w] \subseteq minute[w] /\ daily'[w] \subseteq daily[w]
    BY <1>t, CleanedLists
<1>2. \A q \in Requests : pc'[q] = "admitted" <=> pc[q] = "admitted"
    BY DEF Goto, IInv, TypeOK
<1>3. ListsAdmitted'  BY <1>1, <1>2 DEF IInv, ListsAdmitted
<1>4. \A w \in Requests : /\ MinuteCount(w)' \subseteq MinuteCount(w)
                          /\ DayCount(w)' \subseteq DayCount(w)
    BY <1>1 DEF MinuteCount, DayCount, Since
<1>5. WindowsWithinLimit'  BY <1>4, ShrinkingKeepsLimits
<1>6. \A w \in Requests : MinuteCount(w) \subseteq minute'[w] /\ DayCount(w) \subseteq daily'[w]
    BY <1>t, CleanedLists DEF MinuteCount, DayCount, Since
<1>7. AdmissionsRemembered'
    BY <1>t, <1>2, <1>6 DEF IInv, AdmissionsRemembered, MinuteCount, DayCount, Since
<1> QED  BY <1>3, <1>5, <1>7 DEF Lists

LEMMA AdmissionKeepsLists ==
    ASSUME IInv, NEW r \in Requests, Admit(r)
    PROVE  Lists'
<1> DEFINE v == win[r]
<1>t. /\ minute \in [Requests -> SUBSET Requests] /\ daily \in [Requests -> SUBSET Requests]
      /\ \A q \in Requests : at[q] \in Int /\ win[q] \in Requests
    BY StaleClock DEF IInv, TypeOK
<1>u. UNCHANGED <<at, win, now>>  BY DEF Admit
<1>1. /\ \A w \in Requests : w # v => minute'[w] = minute[w] /\ daily'[w] = daily[w]
      /\ minute'[v] = MinuteList(r) \cup {r} /\ daily'[v] = DailyList(r) \cup {r}
    BY <1>t DEF Admit
<1>2. \A q \in Requests : pc'[q] = "admitted" <=> pc[q] = "admitted" \/ q = r
    BY DEF Admit, Goto, IInv, TypeOK
<1>3. ListsAdmitted'
    <2>1. \A w \in Requests, q \in Requests :
              q \in minute'[w] \/ q \in daily'[w] =>
                  q \in minute[w] \/ q \in daily[w] \/ (q = r /\ w = v)
        BY <1>t, <1>1, CleanedLists
    <2> QED  BY <1>u, <1>2, <2>1 DEF IInv, ListsAdmitted
<1>4. AdmissionsRemembered'
    <2>1. \A w \in Requests : MinuteCount(w) \subseteq minute'[w] /\ DayCount(w) \subseteq daily'[w]
        BY <1>t, <1>1, CleanedLists DEF MinuteCount, DayCount, Since
    <2> QED
        BY <1>t, <1>u, <1>1, <1>2, <2>1
           DEF IInv, AdmissionsRemembered, MinuteCount, DayCount, Since
<1>5. WindowsWithinLimit'
    <2> SUFFICES ASSUME NEW w \in Requests, NEW n \in 1 .. Cardinality(Requests)
                 PROVE  /\ RPMBound(n) => Cardinality(MinuteCount(w)') <= n
                        /\ RPDBound(n) => Cardinality(DayCount(w)') <= n
        BY DEF WindowsWithinLimit, MinuteCount, DayCount, RPMBound, RPDBound
    <2>1. CASE w # v
        <3>1. MinuteCount(w)' = MinuteCount(w) /\ DayCount(w)' = DayCount(w)
            BY <1>u, <1>1, <2>1 DEF MinuteCount, DayCount, Since
        <3> QED  BY <3>1 DEF IInv, WindowsWithinLimit, MinuteCount, DayCount
    <2>2. CASE w = v
        <3>1. MinuteCount(w)' \subseteq MinuteList(r) \cup {r}
              /\ DayCount(w)' \subseteq DailyList(r) \cup {r}
            BY <1>1, <2>2 DEF MinuteCount, DayCount, Since
        <3>2. MinuteList(r) \subseteq Requests /\ DailyList(r) \subseteq Requests
            BY CleanedLists
        <3>3. ~Full(MinuteList(r), limit[r].rpm) /\ ~Full(DailyList(r), limit[r].rpd)
            BY DEF Admit
        <3>4. ASSUME RPMBound(n) PROVE Cardinality(MinuteCount(w)') <= n
            <4>1. limit[r].rpm \in Nat /\ limit[r].rpm > 0 /\ limit[r].rpm <= n
                BY <3>4, StaleClock DEF RPMBound
            <4>2. Cardinality(MinuteList(r) \cup {r}) <= limit[r].rpm
                BY <3>2, <3>3, <4>1, OneMore
            <4>3. MinuteList(r) \cup {r} \subseteq Requests  BY <3>2
            <4>4. /\ Cardinality(MinuteCount(w)') \in Nat
                  /\ Cardinality(MinuteList(r) \cup {r}) \in Nat
                  /\ Cardinality(MinuteCount(w)') <= Cardinality(MinuteList(r) \cup {r})
                BY <3>1, <4>3, SmallerList
            <4> QED  BY <4>1, <4>2, <4>4
        <3>5. ASSUME RPDBound(n) PROVE Cardinality(DayCount(w)') <= n
            <4>1. limit[r].rpd \in Nat /\ limit[r].rpd > 0 /\ limit[r].rpd <= n
                BY <3>5, StaleClock DEF RPDBound
            <4>2. Cardinality(DailyList(r) \cup {r}) <= limit[r].rpd
                BY <3>2, <3>3, <4>1, OneMore
            <4>3. DailyList(r) \cup {r} \subseteq Requests  BY <3>2
            <4>4. /\ Cardinality(DayCount(w)') \in Nat
                  /\ Cardinality(DailyList(r) \cup {r}) \in Nat
                  /\ Cardinality(DayCount(w)') <= Cardinality(DailyList(r) \cup {r})
                BY <3>1, <4>3, SmallerList
            <4> QED  BY <4>1, <4>2, <4>4
        <3> QED  BY <3>4, <3>5
    <2> QED  BY <2>1, <2>2
<1> QED  BY <1>3, <1>4, <1>5 DEF Lists

LEMMA CleanupKeepsLists ==
    ASSUME IInv, NEW u \in Users, CleanWindow(u)
    PROVE  Lists'
<1> DEFINE v == current[u]
<1>t. /\ minute \in [Requests -> SUBSET Requests] /\ daily \in [Requests -> SUBSET Requests]
      /\ \A q \in Requests : at[q] \in Int /\ win[q] \in Requests
      /\ now - Minute \in Int /\ now - Day \in Int /\ now - Day <= now - Minute
    BY StaleClock, Numbers DEF IInv, TypeOK
<1>u. UNCHANGED <<at, win, now, pc>>  BY DEF CleanWindow
<1>v. v \in Requests  BY DEF CleanWindow, IInv, TypeOK
<1>1. /\ \A w \in Requests : w # v => minute'[w] = minute[w] /\ daily'[w] = daily[w]
      /\ minute'[v] = Since(minute[v], now - Day) /\ daily'[v] = Since(daily[v], now - Day)
    BY <1>t, <1>v DEF CleanWindow, CleanupHorizon
<1>2. \A w \in Requests : minute'[w] \subseteq minute[w] /\ daily'[w] \subseteq daily[w]
    BY <1>1 DEF Since
<1>3. ListsAdmitted'  BY <1>u, <1>2 DEF IInv, ListsAdmitted
<1>4. \A w \in Requests : /\ MinuteCount(w)' \subseteq MinuteCount(w)
                          /\ DayCount(w)' \subseteq DayCount(w)
    BY <1>u, <1>2 DEF MinuteCount, DayCount, Since
<1>5. WindowsWithinLimit'  BY <1>4, ShrinkingKeepsLimits
<1>6. \A w \in Requests : MinuteCount(w) \subseteq minute'[w] /\ DayCount(w) \subseteq daily'[w]
    <2>1. \A q \in Requests : at[q] >= now - Minute => at[q] >= now - Day  BY <1>t
    <2>2. MinuteCount(v) \subseteq minute'[v]
        BY <1>t, <1>v, <1>1, <2>1 DEF MinuteCount, Since
    <2>3. DayCount(v) \subseteq daily'[v]
        BY <1>1 DEF DayCount, Since
    <2> QED  BY <1>1, <2>2, <2>3 DEF MinuteCount, DayCount, Since
<1>7. AdmissionsRemembered'
    BY <1>t, <1>u, <1>6 DEF IInv, AdmissionsRemembered, MinuteCount, DayCount, Since
<1> QED  BY <1>3, <1>5, <1>7 DEF Lists

LEMMA TickKeepsLists ==
    ASSUME IInv, Tick
    PROVE  Lists'
<1>t. /\ minute \in [Requests -> SUBSET Requests] /\ daily \in [Requests -> SUBSET Requests]
      /\ \A q \in Requests : at[q] \in Int /\ win[q] \in Requests
      /\ now \in Int
    BY StaleClock DEF IInv, TypeOK
<1>u. UNCHANGED <<minute, daily, at, win, pc>> /\ now' = now + 1  BY DEF Tick
<1>1. ListsAdmitted'  BY <1>u DEF IInv, ListsAdmitted
<1>2. /\ \A q \in Requests : at[q] >= now' - Minute => at[q] >= now - Minute
      /\ \A q \in Requests : at[q] >= now' - Day => at[q] >= now - Day
    BY <1>t, <1>u, Numbers
<1>3. \A w \in Requests : /\ MinuteCount(w)' \subseteq MinuteCount(w)
                          /\ DayCount(w)' \subseteq DayCount(w)
    BY <1>t, <1>u, <1>2 DEF MinuteCount, DayCount, Since
<1>4. WindowsWithinLimit'  BY <1>3, ShrinkingKeepsLimits
<1>5. AdmissionsRemembered'  BY <1>u, <1>2 DEF IInv, AdmissionsRemembered
<1> QED  BY <1>1, <1>4, <1>5 DEF Lists

-----------------------------------------------------------------------------
(* The inductive step.                                                     *)

LEMMA InitInv == Init => IInv
<1> SUFFICES ASSUME Init PROVE IInv
    OBVIOUS
<1>1. TypeOK
    BY Numbers DEF Init, TypeOK, PC, Cached, NotCached, Limit
<1>2. ClocksBehind /\ ListsAdmitted /\ AdmissionsRemembered
    BY DEF Init, ClocksBehind, ListsAdmitted, AdmissionsRemembered
<1>3. WindowsWithinLimit
    <2>1. \A w \in Requests, c \in Int : Since(minute[w], c) = {} /\ Since(daily[w], c) = {}
        BY DEF Init, Since
    <2>2. Cardinality({}) = 0  BY FS_EmptySet
    <2>3. now - Minute \in Int /\ now - Day \in Int  BY Numbers DEF Init
    <2>4. ASSUME NEW w \in Requests, NEW n \in 1 .. Cardinality(Requests)
          PROVE  /\ Cardinality(Since(minute[w], now - Minute)) <= n
                 /\ Cardinality(Since(daily[w], now - Day)) <= n
        <3>1. Cardinality(Requests) \in Nat  BY RateAssumption, FS_CardinalityType
        <3>2. 0 <= n  BY <3>1
        <3>3. /\ Since(minute[w], now - Minute) = {}
              /\ Since(daily[w], now - Day) = {}
            BY <2>1, <2>3
        <3> QED  BY <2>2, <3>2, <3>3
    <2> QED  BY <2>4 DEF WindowsWithinLimit
<1> QED  BY <1>1, <1>2, <1>3 DEF IInv

LEMMA TypeStep == IInv /\ [Next]_vars => TypeOK'
<1> SUFFICES ASSUME IInv, [Next]_vars PROVE TypeOK'
    OBVIOUS
<1> USE Numbers DEF IInv, TypeOK, PC, Goto
<1>1. ASSUME NEW r \in Requests, GetLimit(r) PROVE TypeOK'
    <2>1. CASE CacheHit(r)  BY <2>1, RateAssumption DEF CacheHit, Cached
    <2>2. CASE CacheMiss(r)  BY <2>2 DEF CacheMiss
    <2>3. CASE LoadRow(r)  BY <2>3, RateAssumption DEF LoadRow, Found
    <2>4. CASE LoadDefault(r)  BY <2>4 DEF LoadDefault
    <2>5. CASE FillCache(r)
        <3>1. now + TTL \in Nat /\ limit[r] \in Limit  OBVIOUS
        <3>2. [limit |-> limit[r], expiry |-> now + TTL] \in Cached  BY <3>1 DEF Cached
        <3>3. cache' \in [Users -> Cached]  BY <2>5, <3>2 DEF FillCache
        <3> QED  BY <2>5, <3>3 DEF FillCache
    <2> QED  BY <1>1, <2>1, <2>2, <2>3, <2>4, <2>5 DEF GetLimit
<1>2. ASSUME NEW r \in Requests, FetchWindow(r) PROVE TypeOK'
    <2>1. CASE ReadClock(r)  BY <2>1 DEF ReadClock
    <2>2. CASE GetWindow(r)  BY <2>2, RateAssumption DEF GetWindow
    <2>3. CASE NewWindow(r)  BY <2>3, RateAssumption DEF NewWindow
    <2> QED  BY <1>2, <2>1, <2>2, <2>3 DEF FetchWindow
<1>3. ASSUME NEW r \in Requests, Check(r) PROVE TypeOK'
    <2>0. /\ MinuteList(r) \in SUBSET Requests /\ DailyList(r) \in SUBSET Requests
          /\ MinuteList(r) \cup {r} \in SUBSET Requests
          /\ DailyList(r) \cup {r} \in SUBSET Requests
        BY CleanedLists
    <2>1. CASE RefuseMinute(r)  BY <2>0, <2>1 DEF RefuseMinute
    <2>2. CASE RefuseDay(r)  BY <2>0, <2>2 DEF RefuseDay
    <2>3. CASE Admit(r)  BY <2>0, <2>3 DEF Admit
    <2> QED  BY <1>3, <2>1, <2>2, <2>3 DEF Check
<1>4. ASSUME NEW u \in Users, DropExpired(u) \/ PutLimit(u) \/ DeleteLimit(u) PROVE TypeOK'
    <2>1. NotCached \in Cached  BY DEF NotCached, Cached, Limit
    <2>2. CASE DropExpired(u)  BY <2>1, <2>2 DEF DropExpired
    <2>3. CASE PutLimit(u)
        <3>1. Limits \subseteq Limit  BY DEF Limit
        <3>2. PICK l \in Limits : stored' = [stored EXCEPT ![u] = l]  BY <2>3 DEF PutLimit
        <3> QED  BY <2>3, <3>1, <3>2 DEF PutLimit
    <2>4. CASE DeleteLimit(u)  BY <2>4 DEF DeleteLimit
    <2> QED  BY <1>4, <2>2, <2>3, <2>4
<1>5. ASSUME NEW u \in Users, CleanWindow(u) PROVE TypeOK'
    BY <1>5 DEF CleanWindow, Since
<1>6. CASE Tick  BY <1>6 DEF Tick
<1>7. CASE UNCHANGED vars  BY <1>7 DEF vars
<1> QED  BY <1>1, <1>2, <1>3, <1>4, <1>5, <1>6, <1>7 DEF Next

LEMMA ClockStep == IInv /\ [Next]_vars => ClocksBehind'
<1> SUFFICES ASSUME IInv, [Next]_vars PROVE ClocksBehind'
    OBVIOUS
<1> USE DEF IInv, TypeOK, ClocksBehind
<1>1. ASSUME NEW r \in Requests, ReadClock(r) PROVE ClocksBehind'
    BY <1>1, Numbers DEF ReadClock
<1>2. CASE Tick  BY <1>2, Numbers DEF Tick
<1>3. CASE UNCHANGED <<at, now>>  BY <1>3
<1> QED
    BY <1>1, <1>2, <1>3
       DEF Next, vars, GetLimit, FetchWindow, Check, CacheHit, CacheMiss, LoadRow, LoadDefault,
           FillCache, GetWindow, NewWindow, RefuseMinute, RefuseDay, Admit, DropExpired,
           CleanWindow, PutLimit, DeleteLimit

LEMMA ListStep == IInv /\ [Next]_vars => Lists'
<1> SUFFICES ASSUME IInv, [Next]_vars PROVE Lists'
    OBVIOUS
<1>t. pc \in [Requests -> PC] /\ at \in [Requests -> 0 .. MaxTime] /\ win \in [Requests -> Requests]
    BY DEF IInv, TypeOK
<1>1. ASSUME NEW r \in Requests, GetLimit(r) \/ FetchWindow(r) PROVE Lists'
    <2>1. UNCHANGED <<minute, daily, now>>
        BY <1>1 DEF GetLimit, FetchWindow, CacheHit, CacheMiss, LoadRow, LoadDefault,
                    FillCache, ReadClock, GetWindow, NewWindow
    <2>2. pc[r] # "admitted" /\ pc'[r] # "admitted"
          /\ \A q \in Requests : q # r => pc'[q] = pc[q] /\ at'[q] = at[q] /\ win'[q] = win[q]
        BY <1>t, <1>1 DEF GetLimit, FetchWindow, CacheHit, CacheMiss, LoadRow, LoadDefault,
                    FillCache, ReadClock, GetWindow, NewWindow, Goto
    <2> QED  BY <2>1, <2>2, ListsKept
<1>2. ASSUME NEW r \in Requests, RefuseMinute(r) \/ RefuseDay(r) PROVE Lists'
    BY <1>2, RefusalKeepsLists DEF RefuseMinute, RefuseDay
<1>3. ASSUME NEW r \in Requests, Admit(r) PROVE Lists'
    BY <1>3, AdmissionKeepsLists
<1>4. ASSUME NEW u \in Users, DropExpired(u) \/ PutLimit(u) \/ DeleteLimit(u) PROVE Lists'
    BY <1>4, ListsKept DEF DropExpired, PutLimit, DeleteLimit
<1>5. CASE UNCHANGED vars  BY <1>5, ListsKept DEF vars
<1> QED
    BY <1>1, <1>2, <1>3, <1>4, <1>5, CleanupKeepsLists, TickKeepsLists DEF Next, Check

LEMMA StepInv == IInv /\ [Next]_vars => IInv'
BY TypeStep, ClockStep, ListStep DEF IInv, Lists

-----------------------------------------------------------------------------
(* The theorems.                                                           *)

\* Types.
THEOREM TypeCorrect == Spec => []TypeOK
<1>1. IInv => TypeOK  BY DEF IInv
<1> QED  BY InitInv, StepInv, <1>1, PTL DEF Spec

\* No window ever holds more of a minute or a day than the limits allow.
THEOREM WindowsCorrect == Spec => []WindowsWithinLimit
<1>1. IInv => WindowsWithinLimit  BY DEF IInv
<1> QED  BY InitInv, StepInv, <1>1, PTL DEF Spec

\* An admission stays on the lists of its window for as long as it counts.
THEOREM NothingForgotten == Spec => []AdmissionsRemembered
<1>1. IInv => AdmissionsRemembered  BY DEF IInv
<1> QED  BY InitInv, StepInv, <1>1, PTL DEF Spec

\* If every recent admission of u is in the window of the map, the limits hold.
LEMMA OneWindowHolds == IInv => OverLimitNeedsOrphan
<1> SUFFICES ASSUME IInv, NEW u \in Users, NEW n \in 1 .. Cardinality(Requests)
             PROVE  /\ RPMBound(n) /\ Cardinality(Recent(u, Minute)) > n
                           => \E r \in Recent(u, Minute) : win[r] # current[u]
                    /\ RPDBound(n) /\ Cardinality(Recent(u, Day)) > n
                           => \E r \in Recent(u, Day) : win[r] # current[u]
    BY DEF OverLimitNeedsOrphan
<1> DEFINE v == current[u]
<1>1. ASSUME NEW span \in {Minute, Day}, Recent(u, span) = {}
      PROVE  ~(Cardinality(Recent(u, span)) > n)
    <2>1. Cardinality(Recent(u, span)) = 0  BY <1>1, FS_EmptySet
    <2> QED  BY <2>1
<1>2. ASSUME NEW span \in {Minute, Day}, NEW r \in Recent(u, span), win[r] = v
      PROVE  v \in Requests
    BY <1>2 DEF Recent, IInv, TypeOK
<1>3. ASSUME RPMBound(n), Recent(u, Minute) # {}, \A r \in Recent(u, Minute) : win[r] = v
      PROVE  ~(Cardinality(Recent(u, Minute)) > n)
    <2>1. v \in Requests  BY <1>2, <1>3
    <2>2. Recent(u, Minute) \subseteq MinuteCount(v)
        BY <1>3 DEF Recent, MinuteCount, Since, IInv, AdmissionsRemembered
    <2>3. MinuteCount(v) \subseteq Requests  BY <2>1 DEF MinuteCount, Since, IInv, TypeOK
    <2>4. Cardinality(MinuteCount(v)) <= n
        BY <1>3, <2>1 DEF MinuteCount, IInv, WindowsWithinLimit
    <2>5. /\ Cardinality(Recent(u, Minute)) \in Nat /\ Cardinality(MinuteCount(v)) \in Nat
          /\ Cardinality(Recent(u, Minute)) <= Cardinality(MinuteCount(v))
        BY <2>2, <2>3, SmallerList
    <2> QED  BY <2>4, <2>5
<1>4. ASSUME RPDBound(n), Recent(u, Day) # {}, \A r \in Recent(u, Day) : win[r] = v
      PROVE  ~(Cardinality(Recent(u, Day)) > n)
    <2>1. v \in Requests  BY <1>2, <1>4
    <2>2. Recent(u, Day) \subseteq DayCount(v)
        BY <1>4 DEF Recent, DayCount, Since, IInv, AdmissionsRemembered
    <2>3. DayCount(v) \subseteq Requests  BY <2>1 DEF DayCount, Since, IInv, TypeOK
    <2>4. Cardinality(DayCount(v)) <= n
        BY <1>4, <2>1 DEF DayCount, IInv, WindowsWithinLimit
    <2>5. /\ Cardinality(Recent(u, Day)) \in Nat /\ Cardinality(DayCount(v)) \in Nat
          /\ Cardinality(Recent(u, Day)) <= Cardinality(DayCount(v))
        BY <2>2, <2>3, SmallerList
    <2> QED  BY <2>4, <2>5
<1> QED  BY <1>1, <1>3, <1>4

\* The only way past the limit of a minute or of a day is a request checked against a window that is no
\* longer the user's.
THEOREM OnlyOrphansOvershoot == Spec => []OverLimitNeedsOrphan
BY InitInv, StepInv, OneWindowHolds, PTL DEF Spec

\* Only the cleanup takes a window out of the map, and it has counted the last day.
LEMMA WindowLeaves ==
    ASSUME IInv, Next, NEW u \in Users, NEW r \in Requests,
           pc[r] = "admitted", win[r] = current[u], current'[u] # current[u]
    PROVE  at[r] < now - Day
<1>t. /\ current \in [Users -> Requests \cup {NoWindow}]
      /\ \A q \in Requests : at[q] \in Int /\ win[q] \in Requests
      /\ now - Day \in Int /\ NoWindow \notin Requests
    BY StaleClock, RateAssumption DEF IInv, TypeOK
<1>1. ASSUME NEW q \in Requests, NewWindow(q) PROVE FALSE
    BY <1>t, <1>1 DEF NewWindow
<1>2. ASSUME NEW v \in Users, CleanWindow(v) PROVE at[r] < now - Day
    <2> DEFINE w == current[v]
               d == Since(daily[w], now - CleanupHorizon)
    <2>1. v = u /\ d = {}  BY <1>t, <1>2 DEF CleanWindow, Empty
    <2>2. at[r] >= now - Day => r \in daily[w]  BY <2>1 DEF IInv, AdmissionsRemembered
    <2>3. r \notin daily[w] \/ ~(at[r] >= now - Day)
        BY <2>1 DEF Since, CleanupHorizon
    <2> QED  BY <1>t, <2>2, <2>3
<1>3. ASSUME UNCHANGED current PROVE FALSE  BY <1>3
<1>4. ASSUME NEW q \in Requests,
             GetLimit(q) \/ ReadClock(q) \/ GetWindow(q) \/ Check(q)
      PROVE  UNCHANGED current
    BY <1>4 DEF GetLimit, CacheHit, CacheMiss, LoadRow, LoadDefault, FillCache, ReadClock,
                GetWindow, Check, RefuseMinute, RefuseDay, Admit
<1>5. ASSUME NEW v \in Users, DropExpired(v) \/ PutLimit(v) \/ DeleteLimit(v)
      PROVE  UNCHANGED current
    BY <1>5 DEF DropExpired, PutLimit, DeleteLimit
<1>6. Tick => UNCHANGED current  BY DEF Tick
<1> QED  BY <1>1, <1>2, <1>3, <1>4, <1>5, <1>6 DEF Next, FetchWindow

\* The cleanup never drops a window that a request admitted in the last day still
\* counts in, however many look the window up meanwhile.
THEOREM LiveWindowsStay == Spec => LiveWindowKept
<1>1. IInv /\ [Next]_vars =>
          [\A u \in Users, r \in Requests :
               pc[r] = "admitted" /\ win[r] = current[u] /\ current'[u] # current[u]
                   => at[r] < now - Day]_vars
    BY WindowLeaves
<1> QED  BY InitInv, StepInv, <1>1, PTL DEF Spec, LiveWindowKept

-----------------------------------------------------------------------------
(* RateLimiter implements AdmissionLog.                                    *)

\* The request has its window.
Joined(q) == pc[q] \in {"check", "admitted", "refused"}

\* Every window in use was allocated by the request it is named after.
WindowsOpened ==
    /\ \A u \in Users : current[u] # NoWindow => Joined(current[u])
    /\ \A q \in Requests : Joined(q) => Joined(win[q])

LEMMA OpenedInit == Init => WindowsOpened
BY DEF Init, WindowsOpened, Joined

LEMMA OpenedStep == IInv /\ WindowsOpened /\ [Next]_vars => WindowsOpened'
<1> SUFFICES ASSUME IInv, WindowsOpened, [Next]_vars PROVE WindowsOpened'
    OBVIOUS
<1>t. /\ pc \in [Requests -> PC] /\ win \in [Requests -> Requests]
      /\ current \in [Users -> Requests \cup {NoWindow}]
      /\ UserOf \in [Requests -> Users]
      /\ NoWindow \notin Requests
    BY RateAssumption DEF IInv, TypeOK
<1>1. ASSUME UNCHANGED win, \A q \in Requests : Joined(q)' <=> Joined(q),
             \A u \in Users : current'[u] # current[u] => current'[u] = NoWindow
      PROVE  WindowsOpened'
    BY <1>t, <1>1 DEF WindowsOpened
<1>2. ASSUME NEW r \in Requests, GetLimit(r) \/ ReadClock(r) \/ Check(r)
      PROVE  WindowsOpened'
    <2>1. /\ UNCHANGED <<win, current>>
          /\ \A q \in Requests : Joined(q)' <=> Joined(q)
        BY <1>t, <1>2 DEF GetLimit, CacheHit, CacheMiss, LoadRow, LoadDefault, FillCache,
               ReadClock, Check, RefuseMinute, RefuseDay, Admit, Goto, Joined
    <2> QED  BY <1>1, <2>1
<1>3. ASSUME NEW r \in Requests, GetWindow(r) \/ NewWindow(r)
      PROVE  WindowsOpened'
    <2>1. \A q \in Requests : Joined(q)' <=> Joined(q) \/ q = r
        BY <1>t, <1>3 DEF GetWindow, NewWindow, Goto, Joined
    <2>2. CASE GetWindow(r)
        BY <1>t, <2>1, <2>2 DEF GetWindow, WindowsOpened
    <2>3. CASE NewWindow(r)
        BY <1>t, <2>1, <2>3 DEF NewWindow, WindowsOpened
    <2> QED  BY <1>3, <2>2, <2>3
<1>4. ASSUME NEW u \in Users, DropExpired(u) \/ CleanWindow(u) \/ PutLimit(u) \/ DeleteLimit(u)
      PROVE  WindowsOpened'
    <2>1. /\ UNCHANGED <<win, pc>>
          /\ \A v \in Users : current'[v] # current[v] => current'[v] = NoWindow
        BY <1>t, <1>4 DEF DropExpired, CleanWindow, PutLimit, DeleteLimit
    <2> QED  BY <1>1, <2>1 DEF Joined
<1>5. CASE Tick \/ UNCHANGED vars
    BY <1>5 DEF Tick, vars, WindowsOpened, Joined
<1> QED  BY <1>2, <1>3, <1>4, <1>5 DEF Next, FetchWindow

LEMMA StageOf ==
    ASSUME TypeOK, NEW q \in Requests
    PROVE  /\ stageOf[q] = "asked" <=> pc[q] \in {"new", "load", "fill", "clock"}
           /\ stageOf[q] = "timed" <=> pc[q] = "window"
           /\ stageOf[q] = "joined" <=> pc[q] = "check"
           /\ stageOf[q] = "admitted" <=> pc[q] = "admitted"
           /\ stageOf[q] = "refused" <=> pc[q] = "refused"
BY DEF TypeOK, PC, stageOf

\* A step of r alone changes the stage of r alone.
LEMMA StageMoves ==
    ASSUME TypeOK, NEW r \in Requests, NEW label \in PC, Goto(r, label)
    PROVE  stageOf' = [stageOf EXCEPT ![r] =
               CASE label \in {"new", "load", "fill", "clock"} -> "asked"
                 [] label = "window"                          -> "timed"
                 [] label = "check"                           -> "joined"
                 [] OTHER                                     -> label]
BY DEF TypeOK, Goto, stageOf

\* AdmissionLog counts with a copy of the library's Cardinality.
LEMMA SameCount == \A S : Log!Cardinality(S) = Cardinality(S)
BY DEF Log!Cardinality, Cardinality

\* The lists r cleaned lie between what counts now and what counted by its clock.
LEMMA ListsJudge ==
    ASSUME IInv, NEW r \in Requests
    PROVE  /\ Log!Reached(Log!Logged(win[r], now - Minute), limit[r].rpm)
                  => Full(MinuteList(r), limit[r].rpm)
           /\ Log!Reached(Log!Logged(win[r], now - Day), limit[r].rpd)
                  => Full(DailyList(r), limit[r].rpd)
           /\ Full(MinuteList(r), limit[r].rpm)
                  => Log!Reached(Log!Logged(win[r], at[r] - Minute), limit[r].rpm)
           /\ Full(DailyList(r), limit[r].rpd)
                  => Log!Reached(Log!Logged(win[r], at[r] - Day), limit[r].rpd)
<1> DEFINE w == win[r]
<1>t. /\ TypeOK /\ w \in Requests /\ limit[r].rpm \in Nat /\ limit[r].rpd \in Nat
      /\ MinuteList(r) \subseteq Requests /\ DailyList(r) \subseteq Requests
    BY StaleClock, CleanedLists DEF IInv
<1>1. \A q \in Requests, c \in Int :
          q \in Log!Logged(w, c) <=> pc[q] = "admitted" /\ win[q] = w /\ at[q] >= c
    BY <1>t, StageOf DEF Log!Logged
<1>2. now - Minute \in Int /\ now - Day \in Int /\ at[r] - Minute \in Int /\ at[r] - Day \in Int
    BY StaleClock, Numbers
<1>3. /\ Log!Logged(w, now - Minute) \subseteq MinuteCount(w)
      /\ Log!Logged(w, now - Day) \subseteq DayCount(w)
    <2>1. \A c : Log!Logged(w, c) \subseteq Requests  BY DEF Log!Logged
    <2> QED
        BY <1>1, <1>2, <2>1 DEF IInv, AdmissionsRemembered, MinuteCount, DayCount, Since
<1>4. \A q \in minute[w] \cup daily[w] : pc[q] = "admitted" /\ win[q] = w /\ q \in Requests
    BY <1>t, CleanedLists DEF IInv, ListsAdmitted
<1>5. limit[r].rpm > 0 => MinuteList(r) \subseteq Log!Logged(w, at[r] - Minute)
    BY <1>1, <1>2, <1>4 DEF MinuteList, Since
<1>6. limit[r].rpd > 0 => DailyList(r) \subseteq Log!Logged(w, at[r] - Day)
    BY <1>1, <1>2, <1>4 DEF DailyList, Since
<1>7. \A c : Log!Logged(w, c) \subseteq Requests  BY DEF Log!Logged
<1>8. ASSUME NEW S, NEW T, S \subseteq T, T \subseteq Requests, NEW max \in Nat
      PROVE  max > 0 /\ Cardinality(S) >= max => Cardinality(T) >= max
    <2>1. Cardinality(S) \in Nat /\ Cardinality(T) \in Nat /\ Cardinality(S) <= Cardinality(T)
        BY <1>8, SmallerList
    <2> QED  BY <2>1
<1>9. Log!Logged(w, now - Minute) \subseteq MinuteList(r)
      /\ Log!Logged(w, now - Day) \subseteq DailyList(r)
    BY <1>3, CleanedLists
<1>10. /\ Log!Reached(Log!Logged(w, now - Minute), limit[r].rpm)
              => Full(MinuteList(r), limit[r].rpm)
       /\ Log!Reached(Log!Logged(w, now - Day), limit[r].rpd)
              => Full(DailyList(r), limit[r].rpd)
    <2>1. ASSUME Log!Reached(Log!Logged(w, now - Minute), limit[r].rpm)
          PROVE  Full(MinuteList(r), limit[r].rpm)
        BY <1>t, <1>8, <1>9, <2>1, SameCount DEF Log!Reached, Full
    <2>2. ASSUME Log!Reached(Log!Logged(w, now - Day), limit[r].rpd)
          PROVE  Full(DailyList(r), limit[r].rpd)
        BY <1>t, <1>8, <1>9, <2>2, SameCount DEF Log!Reached, Full
    <2> QED  BY <2>1, <2>2
<1>11. ASSUME Full(MinuteList(r), limit[r].rpm)
       PROVE  Log!Reached(Log!Logged(w, at[r] - Minute), limit[r].rpm)
    <2>1. limit[r].rpm > 0 /\ Cardinality(MinuteList(r)) >= limit[r].rpm  BY <1>11 DEF Full
    <2>2. Cardinality(Log!Logged(w, at[r] - Minute)) >= limit[r].rpm
        BY <1>t, <1>5, <1>7, <1>8, <2>1
    <2> QED  BY <2>1, <2>2, SameCount DEF Log!Reached
<1>12. ASSUME Full(DailyList(r), limit[r].rpd)
       PROVE  Log!Reached(Log!Logged(w, at[r] - Day), limit[r].rpd)
    <2>1. limit[r].rpd > 0 /\ Cardinality(DailyList(r)) >= limit[r].rpd  BY <1>12 DEF Full
    <2>2. Cardinality(Log!Logged(w, at[r] - Day)) >= limit[r].rpd
        BY <1>t, <1>6, <1>7, <1>8, <2>1
    <2> QED  BY <2>1, <2>2, SameCount DEF Log!Reached
<1> QED  BY <1>10, <1>11, <1>12

LEMMA LogStep == IInv /\ WindowsOpened /\ [Next]_vars => [Log!Next]_(Log!vars)
<1> SUFFICES ASSUME IInv, WindowsOpened, [Next]_vars PROVE [Log!Next]_(Log!vars)
    OBVIOUS
<1>t. /\ TypeOK
      /\ pc \in [Requests -> PC] /\ limit \in [Requests -> Limit]
      /\ current \in [Users -> Requests \cup {NoWindow}]
      /\ UserOf \in [Requests -> Users]
      /\ NoWindow \notin Requests
    BY RateAssumption DEF IInv, TypeOK
<1>s. ASSUME UNCHANGED <<now, current, pc, limit, at, win>> PROVE UNCHANGED Log!vars
    BY <1>s DEF Log!vars, stageOf
<1>1. ASSUME NEW r \in Requests, GetLimit(r) PROVE Log!LookUp(r) \/ UNCHANGED Log!vars
    <2>1. UNCHANGED stageOf /\ UNCHANGED <<now, current, at, win>>
        <3>1. PICK label \in {"load", "fill", "clock"} : Goto(r, label)
            BY <1>1 DEF GetLimit, CacheHit, CacheMiss, LoadRow, LoadDefault, FillCache
        <3>2. pc[r] \in {"new", "load", "fill"}
            BY <1>1 DEF GetLimit, CacheHit, CacheMiss, LoadRow, LoadDefault, FillCache
        <3>3. UNCHANGED stageOf
            BY <1>t, <3>1, <3>2 DEF Goto, stageOf
        <3> QED
            BY <1>1, <3>3
               DEF GetLimit, CacheHit, CacheMiss, LoadRow, LoadDefault, FillCache
    <2>2. stageOf[r] = "asked"
        BY <1>1, <1>t, StageOf
           DEF GetLimit, CacheHit, CacheMiss, LoadRow, LoadDefault, FillCache
    <2>3. UNCHANGED limit \/ \E l \in Limit : limit' = [limit EXCEPT ![r] = l]
        <3>1. /\ CacheMiss(r) \/ FillCache(r) => UNCHANGED limit
              /\ LoadDefault(r) => limit' = [limit EXCEPT ![r] = Default] /\ Default \in Limit
            BY Numbers DEF CacheMiss, LoadDefault, FillCache
        <3>2. CASE CacheHit(r)
            <4>1. cache[UserOf[r]].limit \in Limit  BY <1>t DEF IInv, TypeOK, Cached
            <4> QED  BY <3>2, <4>1 DEF CacheHit
        <3>3. CASE LoadRow(r)
            <4>1. stored[UserOf[r]] \in Limit
                BY <1>t, <3>3 DEF LoadRow, Found, IInv, TypeOK
            <4> QED  BY <3>3, <4>1 DEF LoadRow
        <3> QED  BY <1>1, <3>1, <3>2, <3>3 DEF GetLimit
    <2>4. CASE UNCHANGED limit  BY <2>1, <2>4 DEF Log!vars
    <2>5. CASE \E l \in Limit : limit' = [limit EXCEPT ![r] = l]
        BY <2>1, <2>2, <2>5 DEF Log!LookUp
    <2> QED  BY <2>3, <2>4, <2>5
<1>2. ASSUME NEW r \in Requests, ReadClock(r) PROVE Log!ReadClock(r)
    <2>1. stageOf[r] = "asked" /\ stageOf' = [stageOf EXCEPT ![r] = "timed"]
        BY <1>t, <1>2, StageOf, StageMoves DEF ReadClock, PC
    <2> QED  BY <1>2, <2>1 DEF ReadClock, Log!ReadClock, Log!Move
<1>3. ASSUME NEW r \in Requests, GetWindow(r) PROVE Log!Join(r)
    <2>1. stageOf[r] = "timed" /\ stageOf' = [stageOf EXCEPT ![r] = "joined"]
        BY <1>t, <1>3, StageOf, StageMoves DEF GetWindow, PC
    <2> QED  BY <1>3, <2>1 DEF GetWindow, Log!Join, Log!Move
<1>4. ASSUME NEW r \in Requests, NewWindow(r) PROVE Log!Open(r)
    <2>1. stageOf[r] = "timed" /\ stageOf' = [stageOf EXCEPT ![r] = "joined"]
        BY <1>t, <1>4, StageOf, StageMoves DEF NewWindow, PC
    <2>2. \A q \in Requests : stageOf[q] = "admitted" => win[q] # r
        BY <1>t, <1>4, StageOf DEF NewWindow, WindowsOpened, Joined
    <2> QED  BY <1>4, <2>1, <2>2 DEF NewWindow, Log!Open, Log!Move
<1>5. ASSUME NEW r \in Requests, Check(r) PROVE Log!Refuse(r) \/ Log!Admit(r)
    <2>1. CASE Admit(r)
        <3>1. stageOf[r] = "joined" /\ stageOf' = [stageOf EXCEPT ![r] = "admitted"]
            BY <1>t, <2>1, StageOf, StageMoves DEF Admit, PC
        <3>2. /\ ~Log!Reached(Log!Logged(win[r], now - Minute), limit[r].rpm)
              /\ ~Log!Reached(Log!Logged(win[r], now - Day), limit[r].rpd)
            BY <2>1, ListsJudge DEF Admit
        <3> QED  BY <2>1, <3>1, <3>2 DEF Admit, Log!Admit, Log!Move
    <2>2. CASE RefuseMinute(r) \/ RefuseDay(r)
        <3>1. stageOf[r] = "joined" /\ stageOf' = [stageOf EXCEPT ![r] = "refused"]
            BY <1>t, <2>2, StageOf, StageMoves DEF RefuseMinute, RefuseDay, PC
        <3>2. \/ Log!Reached(Log!Logged(win[r], at[r] - Minute), limit[r].rpm)
              \/ Log!Reached(Log!Logged(win[r], at[r] - Day), limit[r].rpd)
            BY <2>2, ListsJudge DEF RefuseMinute, RefuseDay
        <3>3. UNCHANGED <<now, current, limit, at, win>>
            BY <2>2 DEF RefuseMinute, RefuseDay
        <3> QED  BY <3>1, <3>2, <3>3 DEF Log!Refuse, Log!Move
    <2> QED  BY <1>5, <2>1, <2>2 DEF Check
<1>6. ASSUME NEW u \in Users, CleanWindow(u) PROVE Log!Close(u) \/ UNCHANGED Log!vars
    <2>1. UNCHANGED <<now, pc, limit, at, win>>  BY <1>6 DEF CleanWindow
    <2>2. CASE UNCHANGED current  BY <2>1, <2>2, <1>s
    <2>3. CASE ~ UNCHANGED current
        <3>1. /\ current[u] \in Requests /\ current' = [current EXCEPT ![u] = NoWindow]
              /\ current[u] # NoWindow
            BY <1>t, <1>6, <2>3 DEF CleanWindow
        <3>2. current'[u] # current[u]  BY <1>t, <3>1
        <3>3. \A q \in Requests : pc[q] = "admitted" /\ win[q] = current[u] => at[q] < now - Day
            BY <1>6, <3>2, WindowLeaves DEF Next
        <3>4. \A q \in Requests : at[q] \in Int /\ now - Day \in Int  BY StaleClock
        <3>5. Log!Logged(current[u], now - Day) = {}
            BY <1>t, <3>3, <3>4, StageOf DEF Log!Logged
        <3>6. UNCHANGED stageOf  BY <2>1 DEF stageOf
        <3> QED  BY <2>1, <3>1, <3>5, <3>6 DEF Log!Close
    <2> QED  BY <2>2, <2>3
<1>7. ASSUME NEW u \in Users, DropExpired(u) \/ PutLimit(u) \/ DeleteLimit(u)
      PROVE  UNCHANGED Log!vars
    BY <1>7, <1>s DEF DropExpired, PutLimit, DeleteLimit
<1>8. Tick => Log!Tick
    BY DEF Tick, Log!Tick, stageOf
<1>9. UNCHANGED vars => UNCHANGED Log!vars
    BY <1>s DEF vars
<1> QED
    BY <1>1, <1>2, <1>3, <1>4, <1>5, <1>6, <1>7, <1>8, <1>9
       DEF Next, FetchWindow, Log!Next, Log!Judge

\* The lists a window keeps, cleaned by requests with stale clocks and by the
\* cleanup, judge every request as the whole log of that window would: none is
\* admitted above its limit, and none is refused while there is room.
THEOREM KeepsLog == Spec => LogIsKept
<1>1. Init => Log!Init
    BY DEF Init, Log!Init, stageOf
<1> QED
    BY InitInv, StepInv, OpenedInit, OpenedStep, <1>1, LogStep, PTL DEF Spec, LogIsKept, Log!Spec
=============================================================================
