------------------------------ MODULE Metering ------------------------------
(***************************************************************************)
(* A user's calls of /v1/chat/completions, /v1/responses and /v1/messages, *)
(* from the check of the monthly quota to the end of the answer, with the  *)
(* usage they leave behind, beside the administrators' handlers of the     *)
(* user's quota and the month that ends.                                   *)
(*                                                                         *)
(* The quota is checked before the call and charged after it, each in a    *)
(* statement of its own; calls, edits and renewals interleave between any  *)
(* two.  Tokens stand for tokens and costs alike: the two caps are checked *)
(* and charged together.  The rate limits are in RateLimiter, the choice   *)
(* of the provider and its cooldown in ProviderHealth: here a call is      *)
(* answered, or not, by what is upstream, or by a combo.                   *)
(*                                                                         *)
(* MetricsMiddleware is around every handler, and its statusWriter has no  *)
(* Flush: wherever a handler asks its writer for an http.Flusher, it gets  *)
(* none.                                                                   *)
(***************************************************************************)
EXTENDS Integers, FiniteSets

CONSTANTS
    Requests,   \* calls in flight at a time (bound)
    Caps,       \* values of monthly_token_cap; 0 stands for no cap
    MaxTokens,  \* most tokens one answer uses (bound)
    MaxUsed,    \* no call arrives, and no edit begins, at or above it (bound)
    NoQuota,    \* the user has no row in quotas
    NoEdit      \* no administrator is editing it

MaxCap == CHOOSE c \in Caps : \A d \in Caps : d <= c

ASSUME MeteringAssumption ==
    /\ IsFiniteSet(Requests)
    /\ Caps \subseteq Nat /\ MaxCap \in Caps /\ MaxCap > 0
    /\ MaxTokens \in Nat /\ MaxUsed \in Nat
    /\ \A c \in Caps : \A d \in Caps : c <= MaxCap

VARIABLES
    store,    \* the database, chosen at the start: an SQL one, the JSON store, or
              \* the JSON store with a map of quotas in its file
    quota,    \* the user's row of quotas, if there is one
    edit,     \* what QuotaHandler.Update holds of the row
    req,      \* req[r]: where the call is, and what became of it
    lapsed,   \* history: since the usage was last cleared, a call was let through
              \* without comparing it, or an edit brought old usage back
    charged,  \* history: tokens charged since then, while not raced
    raced     \* history: since then usage was overwritten by an edit, or one of two
              \* writers of the live row of the JSON store undid the other

vars == <<store, quota, edit, req, lapsed, charged, raced>>

Plain == {"chat", "responses", "messages"}
Streams == {"chat_stream", "responses_stream", "messages_stream"}

Quota == [cap : Caps, used : Nat, over : BOOLEAN]

Copy == [used : Nat, over : BOOLEAN]

Stores == {"sql", "json", "file"}

\* answer: none; open, the headers of a stream were sent; complete; masked, the
\* upstream was cut and the answer is shown as if it were whole; failed, an error was
\* sent; refused, 429.
\* status: what the usage event says.  recorded: whether it was written, or tried to be.
Request ==
    [pc : {"idle", "check", "reset", "renew", "compare", "call", "stream", "event", "count",
           "end"},
     kind : Plain \cup Streams,
     answer : {"none", "open", "complete", "masked", "failed", "refused"},
     status : {"ok", "error"},
     usage : 0..MaxTokens,
     recorded : BOOLEAN,
     gone : BOOLEAN]

TypeOK ==
    /\ store \in Stores
    /\ quota \in Quota \cup {NoQuota}
    /\ edit \in Copy \cup {NoEdit}
    /\ req \in [Requests -> Request]
    /\ lapsed \in BOOLEAN /\ raced \in BOOLEAN
    /\ charged \in Nat

Idle == [pc |-> "idle", kind |-> "chat", answer |-> "none", status |-> "ok", usage |-> 0,
         recorded |-> FALSE, gone |-> FALSE]

Init ==
    /\ store \in Stores
    /\ quota = NoQuota
    /\ edit = NoEdit
    /\ req = [r \in Requests |-> Idle]
    /\ lapsed = FALSE /\ raced = FALSE /\ charged = 0

HasQuota == quota # NoQuota

At(r, pc) == req[r].pc = pc

Is(r, kind) == req[r].kind = kind

Goto(r, pc) == req' = [req EXCEPT ![r].pc = pc]

\* The client is given answer a, and the usage event, if any, will say s.
Answer(r, a, s, pc) ==
    req' = [req EXCEPT ![r].answer = a, ![r].status = s, ![r].pc = pc]

history == <<lapsed, charged, raced>>

\* The calls that may still charge the quota.
InFlight == {r \in Requests : req[r].pc \in {"call", "stream", "event", "count"}}

\* The SQL stores hand out copies of a row and add to it in one statement.  The JSON
\* store hands out the row itself: whoever holds it reads and writes it unlocked.
Live == store = "file"

\* The usage of the row is cleared; over is what becomes of its month.
Cleared(over) ==
    /\ quota' = IF HasQuota THEN [quota EXCEPT !.used = 0, !.over = over] ELSE NoQuota
    /\ lapsed' = FALSE /\ raced' = FALSE /\ charged' = 0

\* A call that had read the usage before it was cleared adds to what it read.
ClearingLost(over) ==
    /\ Live /\ HasQuota /\ \E r \in Requests : At(r, "count")
    /\ quota' = [quota EXCEPT !.over = over]
    /\ raced' = TRUE /\ charged' = 0
    /\ UNCHANGED lapsed
-----------------------------------------------------------------------------
(* The calls.                                                              *)

\* A request that parses reaches the rate limiter.
Arrive(r, kind) ==
    /\ At(r, "idle")
    /\ HasQuota => quota.used + MaxTokens * Cardinality(InFlight) < MaxUsed
    /\ req' = [req EXCEPT ![r] = [Idle EXCEPT !.pc = "check", !.kind = kind]]
    /\ UNCHANGED <<store, quota, edit, history>>

Admit(r) == Goto(r, "call")

(* Mutant: the cap itself is let through.                                     *)
MoreThanCap(row) == row.cap > 0 /\ row.used > row.cap

Exhausted(row) == row.cap > 0 /\ row.used >= row.cap

\* The usage of the row is compared with its cap: at once, or once the row was renewed.
Compares(r) == HasQuota /\ (At(r, "compare") \/ (At(r, "check") /\ ~quota.over))

\* checkQuota without a row, with a row that cannot be read, or with one under its cap.
CheckQuota(r) ==
    /\ Admit(r)
    /\ \/ /\ At(r, "check") \/ At(r, "compare")
          /\ ~HasQuota
          /\ UNCHANGED lapsed
       \/ /\ At(r, "check") /\ HasQuota /\ store = "sql"
          /\ lapsed' = TRUE
       \/ /\ Compares(r) /\ ~Exhausted(quota)
          /\ lapsed' = (lapsed \/ quota.cap = 0)
    /\ UNCHANGED <<store, quota, edit, charged, raced>>

RefuseQuota(r) ==
    /\ Compares(r) /\ Exhausted(quota)
    /\ Answer(r, "refused", "error", "end")
    /\ UNCHANGED <<store, quota, edit, history>>

\* The month is over in the row that was read.
FindOver(r) ==
    /\ At(r, "check")
    /\ HasQuota /\ quota.over
    /\ Goto(r, "reset")
    /\ UNCHANGED <<store, quota, edit, history>>

\* ResetMonthly of the JSON store: the month of the row ends now, and the file is saved.
ClearLiveRow(r) ==
    /\ At(r, "reset") /\ Live
    /\ Goto(r, "renew")
    /\ Cleared(TRUE) \/ ClearingLost(TRUE)
    /\ UNCHANGED <<store, edit>>

(* Mutant: the month goes on with the usage of the last one.                  *)
RenewKeepingUsage(r) ==
    /\ At(r, "reset") /\ ~Live
    /\ Admit(r)
    /\ quota' = IF HasQuota THEN [quota EXCEPT !.over = FALSE] ELSE NoQuota
    /\ lapsed' = FALSE
    /\ charged' = 0
    /\ raced' = FALSE
    /\ UNCHANGED <<store, edit>>

\* ResetMonthly of an SQL store clears the row of the user as it is by now, whoever
\* renewed it since; the copy checked next has no usage and passes.  On the JSON store
\* the fields set afterwards are those of the row.
RenewPeriod(r) ==
    /\ \/ At(r, "reset") /\ ~Live /\ Admit(r) /\ Cleared(FALSE)
       \/ At(r, "renew") /\ Goto(r, "compare") /\ (Cleared(FALSE) \/ ClearingLost(FALSE))
    /\ UNCHANGED <<store, edit>>

\* ResetMonthly fails, the JSON store's after it has changed the row: the call goes on.
RenewFails(r) ==
    /\ At(r, IF Live THEN "renew" ELSE "reset")
    /\ Admit(r)
    /\ lapsed' = (lapsed \/ HasQuota)
    /\ UNCHANGED <<store, quota, edit, charged, raced>>

(* Mutant: the last candidate fails and nothing is written.                   *)
FailsSilently(r) ==
    /\ At(r, "call") /\ ~Is(r, "responses_stream")
    /\ Goto(r, "event")
    /\ UNCHANGED <<store, quota, edit, history>>

(* Mutant: the call is recorded with the 200 it began with.                   *)
FailsAsOk(r) ==
    /\ At(r, "call") /\ ~Is(r, "responses_stream")
    /\ Answer(r, "failed", "ok", "event")
    /\ UNCHANGED <<store, quota, edit, history>>

\* No such model, provider, adapter or key, or upstream refuses: an error body, or an
\* error event in a stream.
CallFails(r) ==
    /\ At(r, "call") /\ ~Is(r, "responses_stream")
    /\ Answer(r, "failed", "error", "event")
    /\ UNCHANGED <<store, quota, edit, history>>

\* A whole answer.  Only the chat handler passes its usage on to the quota.
CallAnswers(r) ==
    /\ At(r, "call") /\ req[r].kind \in Plain
    /\ \E u \in 0..MaxTokens :
          /\ Is(r, "chat") \/ u = 0
          /\ req' = [req EXCEPT ![r].answer = "complete", ![r].usage = u, ![r].pc = "event"]
    /\ UNCHANGED <<store, quota, edit, history>>

(* Mutant: responses, too, passes on what it has.                             *)
CutLooksWhole(r) ==
    /\ At(r, "call")
    /\ \/ Is(r, "chat") /\ Answer(r, "masked", "ok", "event")
       \/ Is(r, "responses") /\ Answer(r, "masked", "ok", "event")
       \/ Is(r, "messages") /\ Answer(r, "failed", "ok", "event")
    /\ UNCHANGED <<store, quota, edit, history>>

\* The body is cut off, by upstream or by the timeout of the client: chat passes on what
\* it has, messages sends an error under status 200.
CallCut(r) ==
    /\ At(r, "call")
    /\ \/ Is(r, "chat") /\ Answer(r, "masked", "ok", "event")
       \/ Is(r, "responses") /\ Answer(r, "failed", "error", "event")
       \/ Is(r, "messages") /\ Answer(r, "failed", "ok", "event")
    /\ UNCHANGED <<store, quota, edit, history>>
-----------------------------------------------------------------------------
(* The streams.                                                            *)

\* A combo answers a chat stream: its whole answer is written as one chunk and [DONE],
\* without a Flusher.  No combo answers on an SQL store: PostgreSQL reads combos without
\* their items, SQLite's list waits for itself (see Catalog).
ComboStreams(r) ==
    /\ At(r, "call") /\ Is(r, "chat_stream") /\ store # "sql"
    /\ \E u \in 0..MaxTokens :
          req' = [req EXCEPT ![r].answer = "complete", ![r].usage = u, ![r].pc = "event"]
    /\ UNCHANGED <<store, quota, edit, history>>

\* Upstream has answered, the headers and the 200 are sent, and StreamResponse finds no
\* Flusher: the stream is an error event.
ChatStreamFails(r) ==
    /\ At(r, "call") /\ Is(r, "chat_stream")
    /\ Answer(r, "failed", "ok", "event")
    /\ UNCHANGED <<store, quota, edit, history>>

\* ResponsesHandler.handleStreaming sends the headers and the 200, finds no Flusher, and
\* returns behind an error body, before it calls upstream or records anything.
ResponsesStreamFails(r) ==
    /\ At(r, "call") /\ Is(r, "responses_stream")
    /\ Answer(r, "failed", "error", "end")
    /\ UNCHANGED <<store, quota, edit, history>>

\* Upstream has answered executeStreamingRequest with a body, and handleStreaming takes
\* a missing Flusher: the message begins.
StreamOpens(r) ==
    /\ At(r, "call") /\ Is(r, "messages_stream")
    /\ Answer(r, "open", "ok", "stream")
    /\ UNCHANGED <<store, quota, edit, history>>

(* Mutant: [DONE] returns, as in the responses handler.                       *)
DoneReturns(r) ==
    /\ At(r, "stream")
    /\ Answer(r, "complete", "ok", "end")
    /\ UNCHANGED <<store, quota, edit, history>>

\* [DONE].  The client may be gone: the break leaves the select only.
StreamDone(r) ==
    /\ At(r, "stream")
    /\ Answer(r, "complete", "ok", "event")
    /\ UNCHANGED <<store, quota, edit, history>>

\* Upstream ends the body without [DONE], reading it fails, the client has gone, or the
\* timeout of the HTTP client, which runs until the body is read, cuts it: the loop is
\* left all the same, and the message is finished.
StreamCut(r) ==
    /\ At(r, "stream")
    /\ Answer(r, "masked", "ok", "event")
    /\ UNCHANGED <<store, quota, edit, history>>
-----------------------------------------------------------------------------
(* Afterwards.                                                             *)

\* A statement of the SQL stores fails on the context of a client that has gone; it can
\* fail otherwise, too.  The JSON store has no context and changes its memory first.
StatementHolds(r) == store # "sql" \/ ~req[r].gone
StatementFails == store = "sql"

\* recordUsage, up to UsageEvents().Create, whose error is not looked at.
RecordEvent(r) ==
    /\ At(r, "event")
    /\ req' = [req EXCEPT
         ![r].recorded = TRUE,
         ![r].pc = IF req[r].usage > 0 /\ req[r].status = "ok" THEN "count" ELSE "end"]
    /\ UNCHANGED <<store, quota, edit, history>>

(* Mutant: usage is taken off the row.                                       *)
ChargeBack(r) ==
    /\ At(r, "count") /\ StatementHolds(r)
    /\ Goto(r, "end")
    /\ quota' = IF HasQuota THEN [quota EXCEPT !.used = @ - req[r].usage] ELSE NoQuota
    /\ UNCHANGED <<store, edit, history>>

\* IncrementUsage.
CountUsage(r) ==
    /\ At(r, "count") /\ StatementHolds(r)
    /\ Goto(r, "end")
    /\ IF HasQuota
       THEN /\ quota' = [quota EXCEPT !.used = @ + req[r].usage]
            /\ charged' = IF raced THEN charged ELSE charged + req[r].usage
       ELSE UNCHANGED <<quota, charged>>
    /\ UNCHANGED <<store, edit, lapsed, raced>>

\* Two calls read the usage of the live row before either writes it: one is lost.
CountLost(r) ==
    /\ At(r, "count") /\ Live /\ HasQuota
    /\ \E q \in Requests \ {r} : At(q, "count")
    /\ Goto(r, "end")
    /\ raced' = TRUE /\ charged' = 0
    /\ UNCHANGED <<store, quota, edit, lapsed>>

CountFails(r) ==
    /\ At(r, "count") /\ StatementFails
    /\ Goto(r, "end")
    /\ UNCHANGED <<store, quota, edit, history>>

\* ServeHTTP returns; what the recoverer of a panic adds comes after the headers.
Finish(r) ==
    /\ At(r, "end")
    /\ req' = [req EXCEPT ![r] = Idle]
    /\ UNCHANGED <<store, quota, edit, history>>

\* The client closes the connection: the context of the request is cancelled.  The
\* quota is checked on a context of its own, so the call is the first to notice.
Leave(r) ==
    /\ req[r].pc \in {"call", "stream", "event", "count"} /\ ~req[r].gone
    /\ req' = [req EXCEPT ![r].gone = TRUE]
    /\ UNCHANGED <<store, quota, edit, history>>
-----------------------------------------------------------------------------
(* The administrators, and the calendar.                                   *)

PeriodEnds ==
    /\ HasQuota /\ ~quota.over
    /\ quota' = [quota EXCEPT !.over = TRUE]
    /\ UNCHANGED <<store, edit, req, history>>

\* Bound, for the JSON store: one row for the user, and nobody holds one that was deleted.
OneRow ==
    /\ ~HasQuota
    /\ Live =>
         edit = NoEdit /\ \A r \in Requests : req[r].pc \notin {"reset", "renew", "compare"}

\* QuotaHandler.Create: user_id is unique.  The JSON store makes a missing map in a copy
\* of the store: Create writes to a nil map and panics, unless the file had the map.
CreateQuota(cap) ==
    /\ store # "json"
    /\ OneRow
    /\ quota' = [cap |-> cap, used |-> 0, over |-> FALSE]
    /\ lapsed' = FALSE /\ raced' = FALSE /\ charged' = 0
    /\ UNCHANGED <<store, edit, req>>

Copied == [used |-> quota.used, over |-> quota.over]

\* QuotaHandler.Update reads the row ...
BeginEdit ==
    /\ HasQuota /\ edit = NoEdit
    /\ quota.used < MaxUsed
    /\ edit' = Copied
    /\ UNCHANGED <<store, quota, req, history>>

\* ... and writes a copy back, usage and end of the month included, or sets the cap of
\* the live row, ...
EndEdit(cap) ==
    /\ HasQuota /\ edit # NoEdit
    /\ LET row == IF Live THEN Copied ELSE edit
       IN  /\ quota' = [cap |-> cap, used |-> row.used, over |-> row.over]
           /\ lapsed' = (lapsed \/ row.used > quota.used)
           /\ raced' = (raced \/ row.used # quota.used)
           /\ charged' = IF raced' THEN 0 ELSE charged
    /\ edit' = NoEdit
    /\ UNCHANGED <<store, req>>

\* ... which it puts back into the map if it was deleted meanwhile.
EndEditDeleted(cap) ==
    /\ ~HasQuota /\ edit # NoEdit
    /\ quota' = [cap |-> cap, used |-> edit.used, over |-> edit.over]
    /\ lapsed' = TRUE /\ raced' = TRUE /\ charged' = 0
    /\ edit' = NoEdit
    /\ UNCHANGED <<store, req>>

\* An edit under way will find no row under its id on an SQL store.
DeleteQuota ==
    /\ HasQuota
    /\ quota' = NoQuota
    /\ edit' = IF Live /\ edit # NoEdit THEN Copied ELSE NoEdit
    /\ lapsed' = FALSE /\ raced' = FALSE /\ charged' = 0
    /\ UNCHANGED <<store, req>>

\* QuotaHandler.ResetUsage passes the id of the quota where ResetMonthly takes the id
\* of a user: no row matches.  It then clears what it read, a copy, or the live row.
ResetUsage ==
    /\ HasQuota
    /\ \/ ~Live /\ UNCHANGED <<quota, history>>
       \/ Live /\ Cleared(FALSE)
       \/ ClearingLost(FALSE)
    /\ UNCHANGED <<store, edit, req>>
-----------------------------------------------------------------------------
\* What the server does for a call.
Serve(r) ==
    \/ CheckQuota(r) \/ RefuseQuota(r) \/ FindOver(r)
    \/ ClearLiveRow(r) \/ RenewPeriod(r) \/ RenewFails(r)
    \/ CallFails(r) \/ CallAnswers(r) \/ CallCut(r)
    \/ ComboStreams(r) \/ ChatStreamFails(r) \/ ResponsesStreamFails(r)
    \/ StreamOpens(r) \/ StreamDone(r) \/ StreamCut(r)
    \/ RecordEvent(r) \/ CountUsage(r) \/ CountLost(r) \/ CountFails(r) \/ Finish(r)

Administer ==
    \/ \E cap \in Caps : CreateQuota(cap) \/ EndEdit(cap) \/ EndEditDeleted(cap)
    \/ BeginEdit \/ DeleteQuota \/ ResetUsage

Next ==
    \/ \E r \in Requests :
          Serve(r) \/ Leave(r) \/ \E kind \in Plain \cup Streams : Arrive(r, kind)
    \/ Administer
    \/ PeriodEnds

Spec == Init /\ [][Next]_vars
-----------------------------------------------------------------------------
\* Under a cap that is enforced the usage passes it by what the calls in flight may
\* still charge, and by no more (checkQuota, recordUsage: the check is before the call,
\* the charge after it).
BoundedOvershoot ==
    HasQuota /\ ~lapsed =>
        quota.used + MaxTokens * Cardinality(InFlight)
            <= MaxCap - 1 + MaxTokens * Cardinality(Requests)

\* Every token charged since the usage was last cleared is in the row, and nothing else,
\* unless an edit wrote old usage back or two writers of a live row met (IncrementUsage,
\* ResetMonthly, QuotaHandler.Update and ResetUsage).
LedgerExact == HasQuota /\ ~raced => quota.used = charged

\* A client that is shown a whole answer was sent all of it, but for a chat body or a
\* message stream that upstream cut (ReadAll's error, the scanner's error).
CutIsTold ==
    \A r \in Requests : req[r].answer = "masked" => req[r].kind \in {"chat", "messages_stream"}

\* A call that ends was recorded, or recording it was tried: all but the refused ones,
\* and the streams of the responses endpoint, which end before upstream is called
\* (handleStreaming returns where its writer is no Flusher).
EndedIsRecorded ==
    \A r \in Requests :
        At(r, "end") /\ ~req[r].recorded =>
            \/ req[r].answer = "refused"
            \/ Is(r, "responses_stream") /\ req[r].answer = "failed"

\* The calls a usage event calls good though their clients got no whole answer: a chat
\* body cut off, a message that could not be parsed, the error event every chat stream
\* ends in, a message stream cut off.
CalledGood ==
    {<<"chat", "masked">>, <<"messages", "failed">>, <<"chat_stream", "failed">>,
     <<"messages_stream", "masked">>}

\* A usage event that says error belongs to a client that was told of one; one that says
\* ok to a client that got its whole answer, but for CalledGood (statusCode in the three
\* recordUsage calls).
EventsMatchAnswers ==
    \A r \in Requests : req[r].recorded =>
        IF req[r].status = "error"
        THEN req[r].answer = "failed"
        ELSE req[r].answer = "complete" \/ <<req[r].kind, req[r].answer>> \in CalledGood

\* What the client of a call has seen.
Seen(call) ==
    CASE call.pc = "idle" -> "none"
      [] call.pc # "idle" /\ call.gone -> "left"
      [] OTHER -> CASE call.answer = "none" -> "pending"
                    [] call.answer = "open" -> "open"
                    [] OTHER -> "told"

seenBy == [r \in Requests |-> Seen(req[r])]

Promised == INSTANCE Answers WITH view <- seenBy

\* Every call is told its result, once, and nothing follows it.
AnswersKept == Promised!Spec
=============================================================================
