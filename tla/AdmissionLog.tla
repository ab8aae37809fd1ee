----------------------------- MODULE AdmissionLog -----------------------------
(***************************************************************************)
(* What the rate limiter promises, without the lists it keeps: every       *)
(* request is judged once, against everything that was ever admitted on    *)
(* the log it joined.  Nothing is admitted that the limit has no room for  *)
(* at that moment; nothing is refused for which there was room by the      *)
(* clock the request read; and a user's log is closed only when nothing    *)
(* on it counts any more.  RateLimiter implements it.                      *)
(***************************************************************************)
EXTENDS Integers, FiniteSets

CONSTANTS Requests, Users, UserOf, Limit, Default, NoWindow, Minute, Day

VARIABLES
    now,       \* the clock
    current,   \* current[u]: the log new requests of u join, named after its first
    stage,     \* stage[r]: how far request r is
    limit,     \* limit[r]: the limit it is judged by
    at,        \* at[r]: the clock it read
    win        \* win[r]: the log it joined

vars == <<now, current, stage, limit, at, win>>

Init ==
    /\ now = 0
    /\ current = [u \in Users |-> NoWindow]
    /\ stage = [r \in Requests |-> "asked"]
    /\ limit = [r \in Requests |-> Default]
    /\ at = [r \in Requests |-> 0]
    /\ win = [r \in Requests |-> r]

Move(r, from, to) == stage[r] = from /\ stage' = [stage EXCEPT ![r] = to]

\* What log w holds from the cutoff on.
Logged(w, cutoff) ==
    {q \in Requests : stage[q] = "admitted" /\ win[q] = w /\ at[q] >= cutoff}

\* 0 is no limit.
Reached(log, max) == max > 0 /\ Cardinality(log) >= max

LookUp(r) ==
    /\ stage[r] = "asked"
    /\ \E l \in Limit : limit' = [limit EXCEPT ![r] = l]
    /\ UNCHANGED <<now, current, stage, at, win>>

ReadClock(r) ==
    /\ Move(r, "asked", "timed")
    /\ at' = [at EXCEPT ![r] = now]
    /\ UNCHANGED <<now, current, limit, win>>

Join(r) ==
    /\ Move(r, "timed", "joined")
    /\ current[UserOf[r]] # NoWindow
    /\ win' = [win EXCEPT ![r] = current[UserOf[r]]]
    /\ UNCHANGED <<now, current, limit, at>>

\* A new log is empty.
Open(r) ==
    /\ Move(r, "timed", "joined")
    /\ current[UserOf[r]] = NoWindow
    /\ \A q \in Requests : stage[q] = "admitted" => win[q] # r
    /\ current' = [current EXCEPT ![UserOf[r]] = r]
    /\ win' = [win EXCEPT ![r] = r]
    /\ UNCHANGED <<now, limit, at>>

\* The clock r read may be long past: what counts is what counts now.
Admit(r) ==
    /\ Move(r, "joined", "admitted")
    /\ ~Reached(Logged(win[r], now - Minute), limit[r].rpm)
    /\ ~Reached(Logged(win[r], now - Day), limit[r].rpd)
    /\ UNCHANGED <<now, current, limit, at, win>>

Refuse(r) ==
    /\ Move(r, "joined", "refused")
    /\ \/ Reached(Logged(win[r], at[r] - Minute), limit[r].rpm)
       \/ Reached(Logged(win[r], at[r] - Day), limit[r].rpd)
    /\ UNCHANGED <<now, current, limit, at, win>>

Close(u) ==
    /\ current[u] # NoWindow
    /\ Logged(current[u], now - Day) = {}
    /\ current' = [current EXCEPT ![u] = NoWindow]
    /\ UNCHANGED <<now, stage, limit, at, win>>

Tick == now' = now + 1 /\ UNCHANGED <<current, stage, limit, at, win>>

Judge(r) == LookUp(r) \/ ReadClock(r) \/ Join(r) \/ Open(r) \/ Admit(r) \/ Refuse(r)

Next == (\E r \in Requests : Judge(r)) \/ (\E u \in Users : Close(u)) \/ Tick

Spec == Init /\ [][Next]_vars
=============================================================================
