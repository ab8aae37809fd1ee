--------------------------- MODULE ProviderHealth ---------------------------
(***************************************************************************)
(* The life of provider rows under everything that writes them while the   *)
(* server runs: chat requests (through a combo, then directly), the health *)
(* monitor's checks, and the administrator.  Each of them reads a row,     *)
(* works on its copy, and writes later; the steps interleave freely.       *)
(*                                                                         *)
(* One request of handlers/v1/chat.go goes                                 *)
(*   item -> itemCall -> ... -> select -> try -> calling -> update -> mark *)
(* where item/itemCall is combo.Execute over the combo's items and         *)
(* the rest is executeDirectRequest over at most MaxAttempts candidates.   *)
(***************************************************************************)
EXTENDS ProviderStore, Sequences

CONSTANTS
    Providers,        \* provider connections
    Requests,         \* request slots: chat requests in flight at a time (bound)
    ComboItems,       \* the provider of each item of the combo, in order
    Serving,          \* providers that have the requested model enabled
    HasURL,           \* providers the monitor can probe: a base URL is known
    Edited,           \* providers an administrator edits (bound)
    Target,           \* the provider of the first model that matches
    DirectTicks,      \* cooldown set by a direct request (60 s)
    ComboTicks,       \* cooldown per backoff level set by a combo (30 s)
    ComboTicksCap,    \* the most a combo sets (10 min)
    HealthTicks,      \* cooldown per backoff level set by the monitor (1 min)
    HealthThreshold,  \* level at which the monitor sets a cooldown (3)
    MaxAttempts,      \* candidates a direct request tries (3)
    StoreMayFail,     \* a statement may fail; the code ignores its error
    StatementsEnd     \* a request's statement returns (see Fairness)

ASSUME HealthAssumption ==
    /\ ComboItems \in Seq(Providers)
    /\ Serving \subseteq Providers
    /\ HasURL \subseteq Providers
    /\ Edited \subseteq Providers
    /\ Target \in Serving
    /\ {DirectTicks, ComboTicks, ComboTicksCap, HealthTicks} \subseteq Nat
    /\ {HealthThreshold, MaxAttempts} \subseteq Nat \ {0}
    /\ {StoreMayFail, StatementsEnd} \subseteq BOOLEAN

VARIABLES
    conn,      \* conn[p]: the row of provider p
    chat,      \* chat[r]: the goroutine that serves request r
    check,     \* check[p]: the goroutine of checkProvider for p
    edit       \* edit[p]: an administrator's Update of p in flight

vars == <<conn, chat, check, edit>>

ChatPC == {"idle", "item", "itemCall", "select", "try", "calling", "update", "mark"}

\* What an upstream call can end in, as the callers tell it apart: a 2xx
\* answer, one that cannot be parsed, a 4xx other than 429, an unavailable
\* upstream (429, 5xx, network error, timeout), a cancelled request context.
Outcome == {"ok", "garbled", "reject", "fail", "abort"}

Chat == [pc    : ChatPC,
         gone  : BOOLEAN,            \* the client left: the context is cancelled
         item  : Nat \ {0},          \* the combo item being tried
         todo  : SUBSET Providers,   \* direct candidates not tried yet
         tries : 0 .. MaxAttempts,   \* direct candidates tried
         p     : Providers,          \* provider of the current call
         snap  : Row,                \* the copy of its row
         res   : Outcome]            \* how the call ended

IdleChat == [pc |-> "idle", gone |-> FALSE, item |-> 1, todo |-> {}, tries |-> 0,
             p |-> Target, snap |-> FreshRow, res |-> "ok"]

IdleCheck == [pc |-> "idle", snap |-> FreshRow, ok |-> TRUE]

IdleEdit == [busy |-> FALSE, snap |-> FreshRow]

TypeOK ==
    /\ conn \in [Providers -> Row]
    /\ chat \in [Requests -> Chat]
    /\ check \in [Providers -> [pc : {"idle", "probe", "record"}, snap : Row, ok : BOOLEAN]]
    /\ edit \in [Providers -> [busy : BOOLEAN, snap : Row]]

Init ==
    /\ conn = [p \in Providers |-> FreshRow]
    /\ chat = [r \in Requests |-> IdleChat]
    /\ check = [p \in Providers |-> IdleCheck]
    /\ edit = [p \in Providers |-> IdleEdit]

-----------------------------------------------------------------------------
\* A statement on the row of p.  Its error, if any, is dropped by every caller.
Store(p, row) ==
    conn' \in {[conn EXCEPT ![p] = row]} \cup IF StoreMayFail THEN {conn} ELSE {}

\* The same under the request's context: a cancelled one runs nothing.
StoreFor(r, p, row) ==
    IF chat[r].gone THEN UNCHANGED conn ELSE Store(p, row)

\* The call of request r can only be aborted when its client has left.
Outcomes(r) == IF chat[r].gone THEN Outcome ELSE Outcome \ {"abort"}

\* Mutant: fall back and mark on every 4xx too.
UnavailableWithRejects(o) == o \in {"fail", "abort", "reject"}

Unavailable(o) == o \in {"fail", "abort"}

\* A step that leaves an item or a candidate drops the copy of its row.
Forget(c) == [c EXCEPT !.p = Target, !.snap = FreshRow, !.res = "ok"]

\* The call of an item ended in o, or none was made; the next item is tried.
NextItem(r, o) ==
    chat' = [chat EXCEPT ![r] = [Forget(chat[r]) EXCEPT !.pc = "item", !.res = o,
                                                        !.item = chat[r].item + 1]]

\* tryComboExecution returned without success: executeDirectRequest is next.
ToDirect(r) ==
    chat' = [chat EXCEPT ![r] = [Forget(chat[r]) EXCEPT !.pc = "select", !.item = 1]]

-----------------------------------------------------------------------------
(* Chat requests: the combo part.                                          *)

\* The model names a combo: combo.Execute starts with its first item.
StartCombo(r) ==
    /\ chat[r].pc = "idle"
    /\ chat' = [chat EXCEPT ![r] = [IdleChat EXCEPT !.pc = "item"]]
    /\ UNCHANGED <<conn, check, edit>>

\* The model names no combo.
StartDirect(r) ==
    /\ chat[r].pc = "idle"
    /\ chat' = [chat EXCEPT ![r] = [IdleChat EXCEPT !.pc = "select"]]
    /\ UNCHANGED <<conn, check, edit>>

\* executeItem reads the row and calls the provider, whatever its status is,
\* unless it is in a cooldown that has not expired.
CallItem(r) ==
    /\ chat[r].pc = "item"
    /\ chat[r].item <= Len(ComboItems)
    /\ ~chat[r].gone
    /\ LET p == ComboItems[chat[r].item]
       IN  /\ ~CoolingDown(conn[p])
           /\ chat' = [chat EXCEPT ![r] = [@ EXCEPT !.pc = "itemCall", !.p = p,
                                                                !.snap = conn[p],
                                                                !.res = "ok"]]
    /\ UNCHANGED <<conn, check, edit>>

\* No call for this item: the row cannot be read or is cooling down, or there
\* is no adapter, no readable secret, no request to send.  All are eligible
\* for fallback.
SkipItem(r) ==
    /\ chat[r].pc = "item"
    /\ chat[r].item <= Len(ComboItems)
    /\ NextItem(r, "ok")
    /\ UNCHANGED <<conn, check, edit>>

\* Mutant: the level is counted from 0, and a first failure comes out negative.
ComboCooldownFromZero(snap) ==
    LET wanted == ComboTicks * (snap.backoff - 1)
    IN  IF wanted > ComboTicksCap THEN ComboTicksCap ELSE wanted

\* ComboManager.markCooldown computes the duration from the copy it read
\* before the call.
ComboCooldown(snap) ==
    LET wanted == ComboTicks * (IF snap.backoff > 0 THEN snap.backoff ELSE 1)
    IN  IF wanted > ComboTicksCap THEN ComboTicksCap ELSE wanted

\* The call fails: the provider is marked under a context of its own, so also
\* when it is the client that left, and the next item is tried.
ItemUnavailable(r) ==
    /\ chat[r].pc = "itemCall"
    /\ \E o \in Outcomes(r) : Unavailable(o) /\ NextItem(r, o)
    /\ Store(chat[r].p, MarkCooldown(conn[chat[r].p], ComboCooldown(chat[r].snap)))
    /\ UNCHANGED <<check, edit>>

\* The answer does not parse: fallback, and nothing held against the provider.
ItemGarbled(r) ==
    /\ chat[r].pc = "itemCall"
    /\ NextItem(r, "garbled")
    /\ UNCHANGED <<conn, check, edit>>

\* The provider answers 4xx: combo.Execute stops, without a mark.  The handler
\* goes on with executeDirectRequest: a model may bear the combo's name.
ItemRejected(r) ==
    /\ chat[r].pc = "itemCall"
    /\ ToDirect(r)
    /\ UNCHANGED <<conn, check, edit>>

\* The provider answers: ClearCooldown under the request's context, and the
\* request is over.
ItemOk(r) ==
    /\ chat[r].pc = "itemCall"
    /\ StoreFor(r, chat[r].p, ClearCooldown(conn[chat[r].p]))
    /\ chat' = [chat EXCEPT ![r] = IdleChat]
    /\ UNCHANGED <<check, edit>>

\* Every item failed (or the combo has none): the direct path is next.
ComboExhausted(r) ==
    /\ chat[r].pc = "item"
    /\ chat[r].item > Len(ComboItems)
    /\ ToDirect(r)
    /\ UNCHANGED <<conn, check, edit>>

-----------------------------------------------------------------------------
(* Chat requests: the direct part.  The strategy's order of the candidates *)
(* is left open: any candidate not tried yet may be the next.              *)

Candidates == {p \in Serving : Selectable(conn[p])}

\* SelectProvidersForModel, or FindByID of the model's own provider when it
\* returns none or an error: that row's status is not looked at.
SelectCandidates(r) ==
    /\ chat[r].pc = "select"
    /\ ~chat[r].gone
    /\ \E todo \in {Candidates, {Target}} :
          /\ todo = Candidates \/ Candidates = {} \/ StoreMayFail
          /\ todo # {}
          /\ chat' = [chat EXCEPT ![r] = [@ EXCEPT !.pc = "try", !.todo = todo]]
    /\ UNCHANGED <<conn, check, edit>>

\* 400 or 503 before any call: no such model, models or provider not readable.
RefuseDirect(r) ==
    /\ chat[r].pc = "select"
    /\ chat' = [chat EXCEPT ![r] = IdleChat]
    /\ UNCHANGED <<conn, check, edit>>

\* Mutant: the same candidate is retried, the attempt is not counted.
NextCandidateRetries(r, p) ==
    chat' = [chat EXCEPT ![r] = [Forget(chat[r]) EXCEPT !.pc = "try"]]

\* Candidate p is done with and the loop goes on.
NextCandidate(r, p) ==
    chat' = [chat EXCEPT ![r] = [Forget(chat[r]) EXCEPT !.pc = "try",
                                                        !.todo = chat[r].todo \ {p},
                                                        !.tries = chat[r].tries + 1]]

TriesLeft(r) == chat[r].pc = "try" /\ chat[r].tries < MaxAttempts

\* No adapter, no valid token, no request to send.  GetValidToken only decrypts:
\* the SQL stores have no column for a refresh token.
SkipCandidate(r) ==
    /\ TriesLeft(r)
    /\ \E p \in chat[r].todo : NextCandidate(r, p)
    /\ UNCHANGED <<conn, check, edit>>

CallCandidate(r) ==
    /\ TriesLeft(r)
    /\ \E p \in chat[r].todo :
          chat' = [chat EXCEPT ![r] = [@ EXCEPT !.pc = "calling", !.p = p]]
    /\ UNCHANGED <<conn, check, edit>>

\* The call ends; updateProviderLatency (under a context of its own) reads the
\* row to write it back with the new latency.  The direct path passes the body
\* on unparsed, so no answer is garbled.
CallEnds(r) ==
    /\ chat[r].pc = "calling"
    /\ \E o \in Outcomes(r) \ {"garbled"} :
          chat' = [chat EXCEPT ![r] = [@ EXCEPT !.pc = "update", !.res = o,
                                                !.snap = conn[chat[r].p]]]
    /\ UNCHANGED <<conn, check, edit>>

\* The second half of updateProviderLatency: every column is written, the
\* status, deadline and level as they were read.  A failed call is marked
\* next, any other outcome is returned to the client.
WriteLatency(r) ==
    /\ chat[r].pc = "update"
    /\ Store(chat[r].p, chat[r].snap)
    /\ chat' = IF Unavailable(chat[r].res)
               THEN [chat EXCEPT ![r] = [@ EXCEPT !.pc = "mark", !.snap = FreshRow]]
               ELSE [chat EXCEPT ![r] = IdleChat]
    /\ UNCHANGED <<check, edit>>

\* markProviderCooldown, under the request's context.
MarkCandidate(r) ==
    /\ chat[r].pc = "mark"
    /\ StoreFor(r, chat[r].p, MarkCooldown(conn[chat[r].p], DirectTicks))
    /\ NextCandidate(r, chat[r].p)
    /\ UNCHANGED <<check, edit>>

\* No candidate or attempt left: 502.
GiveUp(r) ==
    /\ chat[r].pc = "try"
    /\ chat[r].todo = {} \/ chat[r].tries = MaxAttempts
    /\ chat' = [chat EXCEPT ![r] = IdleChat]
    /\ UNCHANGED <<conn, check, edit>>

\* net/http cancels the request's context when the client disconnects.
ClientLeaves(r) ==
    /\ chat[r].pc # "idle"
    /\ ~chat[r].gone
    /\ chat' = [chat EXCEPT ![r].gone = TRUE]
    /\ UNCHANGED <<conn, check, edit>>

-----------------------------------------------------------------------------
(* The health monitor.                                                     *)

\* checkAllProviders: one goroutine per provider listed as active; it returns
\* at once when it knows no base URL.  A round starts every 30 s and a check
\* takes at most 15 s (10 s for the probe, 5 s to record), so the last round's
\* goroutines are over.
CheckAll ==
    /\ \A p \in Providers : check[p].pc = "idle"
    /\ check' = [p \in Providers |->
                    IF p \in HasURL /\ conn[p].status = "active"
                    THEN [IdleCheck EXCEPT !.pc = "probe"]
                    ELSE IdleCheck]
    /\ UNCHANGED <<conn, chat, edit>>

\* The probe of p is answered; recordSuccess or recordFailure reads the row
\* again.  Everything but a 2xx is a failure of the provider: no answer, a 401,
\* a secret that cannot be read.
Probe(p) ==
    /\ check[p].pc = "probe"
    /\ \E ok \in BOOLEAN :
          check' = [check EXCEPT ![p] = [pc |-> "record", snap |-> conn[p], ok |-> ok]]
    /\ UNCHANGED <<conn, chat, edit>>

\* Nothing is recorded: the row cannot be read back.
ProbeNothing(p) ==
    /\ check[p].pc = "probe"
    /\ check' = [check EXCEPT ![p] = IdleCheck]
    /\ UNCHANGED <<conn, chat, edit>>

\* Mutant of Succeeded: the deadline is not compared with the clock.
SucceededEarly(row) == IF row.status = "cooldown" THEN FreshRow ELSE row

\* Mutant of Succeeded: whatever is not active is lifted.
SucceededAnyStatus(row) ==
    IF row.status # "active" /\ row.left <= 0 THEN FreshRow ELSE row

\* recordSuccess: a cooldown found expired is lifted.
Succeeded(row) ==
    IF row.status = "cooldown" /\ row.left = 0
    THEN [status |-> "active", left |-> NoDeadline, backoff |-> 0]
    ELSE row

\* recordFailure: the third failure in a row starts a cooldown.
Failed(row) ==
    LET level == Bump(row.backoff)
    IN  IF level >= HealthThreshold
        THEN [status |-> "cooldown", left |-> HealthTicks * level, backoff |-> level]
        ELSE [row EXCEPT !.backoff = level]

\* The whole row is written back.
Record(p) ==
    /\ check[p].pc = "record"
    /\ Store(p, IF check[p].ok THEN Succeeded(check[p].snap) ELSE Failed(check[p].snap))
    /\ check' = [check EXCEPT ![p] = IdleCheck]
    /\ UNCHANGED <<chat, edit>>

-----------------------------------------------------------------------------
(* The administrator, and time.                                            *)

Enable(p) ==
    /\ Store(p, UpdateStatus(conn[p], "active"))
    /\ UNCHANGED <<chat, check, edit>>

Disable(p) ==
    /\ Store(p, UpdateStatus(conn[p], "disabled"))
    /\ UNCHANGED <<chat, check, edit>>

\* ProviderHandler.Update reads the row ...
BeginEdit(p) ==
    /\ p \in Edited
    /\ ~edit[p].busy
    /\ edit' = [edit EXCEPT ![p] = [busy |-> TRUE, snap |-> conn[p]]]
    /\ UNCHANGED <<conn, chat, check>>

\* ... and writes every column back, its name, URL, priority, weight and tier
\* changed; or a body or URL that does not parse ends it.
EndEdit(p) ==
    /\ edit[p].busy
    /\ Store(p, edit[p].snap) \/ UNCHANGED conn
    /\ edit' = [edit EXCEPT ![p] = IdleEdit]
    /\ UNCHANGED <<chat, check>>

Tick ==
    /\ conn'  = [p \in Providers |-> Age(conn[p])]
    /\ chat'  = [r \in Requests |-> [chat[r] EXCEPT !.snap = Age(@)]]
    /\ check' = [p \in Providers |-> [check[p] EXCEPT !.snap = Age(@)]]
    /\ edit'  = [p \in Providers |-> [edit[p] EXCEPT !.snap = Age(@)]]

-----------------------------------------------------------------------------
ComboStep(r) == CallItem(r) \/ SkipItem(r) \/ ItemUnavailable(r) \/ ItemGarbled(r)
                \/ ItemRejected(r) \/ ItemOk(r) \/ ComboExhausted(r)

DirectStep(r) == SelectCandidates(r) \/ RefuseDirect(r) \/ SkipCandidate(r)
                 \/ CallCandidate(r) \/ CallEnds(r) \/ WriteLatency(r)
                 \/ MarkCandidate(r) \/ GiveUp(r)

Serve(r) == ComboStep(r) \/ DirectStep(r)

Monitor == CheckAll \/ \E p \in Providers : Probe(p) \/ ProbeNothing(p) \/ Record(p)

Admin == \E p \in Providers : Enable(p) \/ Disable(p) \/ BeginEdit(p) \/ EndEdit(p)

Next ==
    \/ \E r \in Requests : StartCombo(r) \/ StartDirect(r) \/ Serve(r) \/ ClientLeaves(r)
    \/ Monitor
    \/ Admin
    \/ Tick

Spec == Init /\ [][Next]_vars

\* Goroutines run, calls time out, the monitor's ticker fires and time passes.
\* Nothing makes clients or administrators act.  A request's own statements
\* wait without a deadline: on the JSON store for a mutex that is always
\* released, on PostgreSQL for a connection that every query gives back.  On
\* SQLite a list of combos may keep the only connection until its client
\* leaves (see Catalog): StatementsEnd is not given there, and nothing is
\* assumed of the requests.
Fairness ==
    /\ StatementsEnd => \A r \in Requests : WF_vars(Serve(r))
    /\ WF_vars(CheckAll)
    /\ \A p \in Providers : WF_vars(Probe(p) \/ ProbeNothing(p)) /\ WF_vars(Record(p))
    /\ WF_vars(Tick)

FairSpec == Spec /\ Fairness

\* The same with clients that never stop sending direct requests, of which
\* some reach a provider.
BusySpec ==
    /\ FairSpec
    /\ \A r \in Requests : /\ SF_vars(StartDirect(r))
                           /\ SF_vars(SelectCandidates(r))
                           /\ SF_vars(CallCandidate(r))

-----------------------------------------------------------------------------
(* Properties.                                                             *)

\* A row in cooldown says until when.  The columns are written by statements
\* of four kinds and by whole-row writes of copies read earlier, so the two
\* could part company; executeItem and recordSuccess both treat a cooldown
\* without a deadline as something else than a cooldown.
CooldownHasDeadline ==
    \A p \in Providers : conn[p].status = "cooldown" => conn[p].left # NoDeadline

\* Who may take p out of rotation: a combo whose call to it failed, or was cut
\* off by its client; a direct request whose call to it failed, its client still
\* there; the monitor, at the threshold.
ComboFailed(p) ==
    \E r \in Requests : /\ chat[r].pc = "itemCall" /\ chat[r].p = p
                        /\ chat'[r].pc = "item" /\ chat'[r].res \in {"fail", "abort"}

DirectFailed(p) ==
    \E r \in Requests : /\ chat[r].pc = "mark" /\ chat[r].p = p
                        /\ chat[r].res = "fail" /\ ~chat[r].gone

ProbesFailed(p) ==
    check[p].pc = "record" /\ ~check[p].ok /\ Bump(check[p].snap.backoff) >= HealthThreshold

CopyInCooldown(p) ==
    \/ \E r \in Requests : /\ chat[r].pc = "update" /\ chat[r].p = p
                           /\ chat[r].snap.status = "cooldown"
    \/ check[p].pc = "record" /\ check[p].snap.status = "cooldown"
    \/ edit[p].busy /\ edit[p].snap.status = "cooldown"

\* A provider is cooled down by them only, or by somebody who writes back a copy
\* of the row read while it was cooling.  A 4xx or an answer that does not parse
\* never cools it for a request, nor does the client that leaves a direct one
\* (markProviderCooldown runs under the request's context, markCooldown of a
\* combo does not).
CooldownEnteredOnlyBy ==
    [][\A p \in Providers :
          conn[p].status # "cooldown" /\ conn'[p].status = "cooldown"
              => \/ ComboFailed(p) \/ DirectFailed(p)
                 \/ ProbesFailed(p) \/ CopyInCooldown(p)]_vars

\* Who may end the cooldown of p before its deadline.
SuccessOf(p) == \E r \in Requests : chat[r].pc = "itemCall" /\ chat[r].p = p

EnabledByAdmin(p) == conn'[p] = UpdateStatus(conn[p], "active")

StaleCopy(p) ==
    \/ \E r \in Requests : /\ chat[r].pc = "update" /\ chat[r].p = p
                           /\ ~CoolingDown(chat[r].snap)
    \/ check[p].pc = "record" /\ ~CoolingDown(check[p].snap)
    \/ edit[p].busy /\ ~CoolingDown(edit[p].snap)

\* An unexpired cooldown ends early only by a successful combo call, by the
\* administrator, or because somebody writes back a copy of the row read
\* before the cooldown began.  In particular recordSuccess, working on a
\* current copy, never lifts one.
CooldownLiftedOnlyBy ==
    [][\A p \in Providers :
          CoolingDown(conn[p]) /\ conn'[p].status = "active"
              => SuccessOf(p) \/ EnabledByAdmin(p) \/ StaleCopy(p)]_vars

\* Every chat request is answered, on a store whose statements return: the
\* fallback over combo items and over direct candidates ends whatever the
\* providers answer.
RequestsFinish ==
    StatementsEnd => \A r \in Requests : chat[r].pc # "idle" ~> chat[r].pc = "idle"

\* The most steps serving a request can still take: two for each combo item,
\* four for each direct candidate, and the turns between them.
StepsLeft(c) ==
    LET items  == 2 * (Len(ComboItems) + 1 - c.item)
        direct == 4 * (MaxAttempts - c.tries)
        all    == 4 * MaxAttempts
    IN  CASE c.pc = "item"     -> items + all + 3
          [] c.pc = "itemCall" -> items + all + 2
          [] c.pc = "select"   -> all + 2
          [] c.pc = "try"      -> direct + 1
          [] c.pc = "calling"  -> direct
          [] c.pc = "update"   -> direct - 1
          [] c.pc = "mark"     -> direct - 2
          [] OTHER             -> 0

\* Every step on behalf of a request brings its answer closer, and nothing
\* anybody else does puts it off: not a candidate that becomes available
\* again, not a store that fails, not the client that leaves.
GetsCloser ==
    [][\A r \in Requests : chat[r].pc # "idle" =>
          /\ StepsLeft(chat'[r]) \in 0 .. StepsLeft(chat[r])
          /\ Serve(r) => StepsLeft(chat'[r]) < StepsLeft(chat[r])]_vars

\* A disabled provider is back in service only by the administrator, by a
\* successful combo call (ClearCooldown does not look at the status), through
\* a cooldown (MarkCooldown and recordFailure do not look at it either), or
\* because somebody writes back a copy read before it was disabled.
CopyNotDisabled(p) ==
    \/ \E r \in Requests : /\ chat[r].pc = "update" /\ chat[r].p = p
                           /\ chat[r].snap.status # "disabled"
    \/ check[p].pc = "record" /\ check[p].snap.status # "disabled"
    \/ edit[p].busy /\ edit[p].snap.status # "disabled"

DisabledLeftOnlyBy ==
    [][\A p \in Providers :
          conn[p].status = "disabled" /\ conn'[p].status = "active"
              => SuccessOf(p) \/ EnabledByAdmin(p) \/ CopyNotDisabled(p)]_vars

\* wiki/components/routing.md gives the filter of account selection as active
\* and "CooldownUntil == nil OR CooldownUntil < now", and says that a success
\* clears the cooldown: when nothing fails any more and requests keep coming,
\* providers whose deadline has passed serve again.
NothingFails ==
    /\ \A r \in Requests : ~chat[r].gone /\ ~Unavailable(chat[r].res)
    /\ \A p \in Providers : check[p].ok

CooldownEnds ==
    <>[]NothingFails => \A p \in Providers : []<>(conn[p].status # "cooldown")

\* What the same page says of MarkCooldown and ClearCooldown: once marked, a
\* provider stays in cooldown until its deadline, a success or an Enable.
CooldownIsKept ==
    [][\A p \in Providers :
          CoolingDown(conn[p]) /\ conn'[p].status = "active"
              => SuccessOf(p) \/ EnabledByAdmin(p)]_vars
=============================================================================
