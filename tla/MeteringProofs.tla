--------------------------- MODULE MeteringProofs ---------------------------
(***************************************************************************)
(* Proofs for Metering: for any number of calls in flight, any caps and    *)
(* any use of tokens.                                                      *)
(***************************************************************************)
EXTENDS Metering, FiniteSetTheorems, TLAPS

Outcomes == {"complete", "masked", "failed", "refused"}

\* The places of a call before it is let through.
Early == {"idle", "check", "reset", "renew", "compare"}

\* What holds of a call whose outcome is settled.
Settled(call) ==
    /\ call.answer \in Outcomes
    /\ call.answer = "masked" => call.kind \in {"chat", "messages_stream"}
    /\ call.recorded \/ call.pc = "event" =>
         IF call.status = "error"
         THEN call.answer = "failed"
         ELSE call.answer = "complete" \/ <<call.kind, call.answer>> \in CalledGood

\* What holds of a call, by how far it has come.
Sound(call) ==
    /\ call.pc \in Early => call.answer = "none" /\ ~call.gone
    /\ call.pc \in Early \cup {"call", "stream", "event"} => ~call.recorded
    /\ call.pc \in Early \cup {"call"} => call.status = "ok" /\ call.usage = 0
    /\ call.pc = "call" => call.answer = "none"
    /\ call.pc = "stream" =>
         call.kind = "messages_stream" /\ call.answer = "open" /\ call.status = "ok"
    /\ call.pc \in {"event", "count", "end"} => Settled(call)
    /\ call.pc = "count" => call.recorded
    /\ call.pc = "end" /\ ~call.recorded =>
         \/ call.answer = "refused"
         \/ call.kind = "responses_stream" /\ call.answer = "failed"

CallsSound == \A r \in Requests : Sound(req[r])

\* The changes of view that Answers allows, and none.
Moves(a, b) ==
    \/ a = b
    \/ a = "none" /\ b = "pending"
    \/ a = "pending" /\ b = "open"
    \/ a \in {"pending", "open"} /\ b = "told"
    \/ a \in {"pending", "open", "told"} /\ b = "left"
    \/ a \in {"told", "left"} /\ b = "none"

\* The steps of the call r.
Step(r) == Serve(r) \/ Leave(r) \/ \E kind \in Plain \cup Streams : Arrive(r, kind)

\* A step of r leaves the other calls alone, keeps its own one sound, and shows its
\* client nothing it should not see.
StepKeeps(r) ==
    /\ req' \in [Requests -> Request]
    /\ \A q \in Requests : q # r => req'[q] = req[q]
    /\ Sound(req'[r])
    /\ Moves(Seen(req[r]), Seen(req'[r]))

-----------------------------------------------------------------------------
(* The calls.                                                              *)

\* It is enough to look at the record of r.
LEMMA NewRecord ==
    ASSUME NEW r \in Requests, req \in [Requests -> Request], NEW call \in Request,
           req' = [req EXCEPT ![r] = call], Sound(call), Moves(Seen(req[r]), Seen(call))
    PROVE  StepKeeps(r)
BY DEF StepKeeps

\* Before the upstream is called.
LEMMA ChecksKeep ==
    ASSUME NEW r \in Requests, req \in [Requests -> Request], Sound(req[r]),
           \/ \E kind \in Plain \cup Streams : Arrive(r, kind)
           \/ CheckQuota(r) \/ RefuseQuota(r) \/ FindOver(r)
           \/ ClearLiveRow(r) \/ RenewPeriod(r) \/ RenewFails(r)
    PROVE  StepKeeps(r)
<1>0. req[r] \in Request /\ 0 \in 0..MaxTokens  BY MeteringAssumption
<1>1. ASSUME NEW kind \in Plain \cup Streams, Arrive(r, kind)  PROVE StepKeeps(r)
    <2> DEFINE call == [Idle EXCEPT !.pc = "check", !.kind = kind]
    <2>1. call \in Request /\ Sound(call)  BY <1>0 DEF Idle, Request, Sound, Settled, Early
    <2>2. Moves(Seen(req[r]), Seen(call))  BY <1>1 DEF Arrive, At, Seen, Moves, Idle
    <2>3. req' = [req EXCEPT ![r] = call]  BY <1>1 DEF Arrive
    <2> QED  BY <2>1, <2>2, <2>3, NewRecord
<1>2. ASSUME NEW pc \in Early \cup {"call"}, pc # "idle", Goto(r, pc),
             req[r].pc \in Early \ {"idle"}
      PROVE  StepKeeps(r)
    <2> DEFINE call == [req[r] EXCEPT !.pc = pc]
    <2>1. call \in Request /\ Sound(call)  BY <1>0, <1>2 DEF Request, Sound, Settled, Early
    <2>2. Moves(Seen(req[r]), Seen(call))  BY <1>0, <1>2 DEF Request, Sound, Seen, Moves, Early
    <2>3. req' = [req EXCEPT ![r] = call]  BY <1>2 DEF Goto
    <2> QED  BY <2>1, <2>2, <2>3, NewRecord
<1>3. CASE RefuseQuota(r)
    <2> DEFINE call == [req[r] EXCEPT !.answer = "refused", !.status = "error", !.pc = "end"]
    <2>0. req[r].pc \in {"check", "compare"}  BY <1>3 DEF RefuseQuota, Compares, At
    <2>1. call \in Request /\ Sound(call)
        BY <1>0, <2>0 DEF Request, Sound, Settled, Outcomes, Early
    <2>2. Moves(Seen(req[r]), Seen(call))  BY <1>0, <2>0 DEF Request, Sound, Seen, Moves, Early
    <2>3. req' = [req EXCEPT ![r] = call]  BY <1>3 DEF RefuseQuota, Answer
    <2> QED  BY <2>1, <2>2, <2>3, NewRecord
<1>4. CASE FindOver(r) \/ ClearLiveRow(r)
    BY <1>2, <1>4 DEF FindOver, ClearLiveRow, At, Early
<1>5. CASE CheckQuota(r)
    BY <1>2, <1>5 DEF CheckQuota, Compares, Admit, At, Early
<1>6. CASE RenewPeriod(r) \/ RenewFails(r)
    BY <1>2, <1>6 DEF RenewPeriod, RenewFails, Admit, At, Early
<1> QED  BY <1>1, <1>3, <1>4, <1>5, <1>6

\* An answer given by a call, or at the end of a stream, keeps the call sound.
LEMMA AnswerKeeps ==
    ASSUME NEW r \in Requests, req \in [Requests -> Request], Sound(req[r]),
           NEW a \in Outcomes \ {"refused"}, NEW s \in {"ok", "error"},
           NEW pc \in {"event", "end"},
           req[r].pc \in {"call", "stream"}, Answer(r, a, s, pc),
           a = "masked" => req[r].kind \in {"chat", "messages_stream"},
           pc = "end" => req[r].kind = "responses_stream" /\ a = "failed",
           pc = "event" => IF s = "error"
                           THEN a = "failed"
                           ELSE a = "complete" \/ <<req[r].kind, a>> \in CalledGood
    PROVE  StepKeeps(r)
<1> DEFINE call == [req[r] EXCEPT !.answer = a, !.status = s, !.pc = pc]
<1>0. req[r] \in Request  OBVIOUS
<1>1. call \in Request  BY <1>0 DEF Request, Outcomes
<1>2. Sound(call)  BY <1>0 DEF Request, Sound, Settled, Outcomes, Early
<1>3. Moves(Seen(req[r]), Seen(call))  BY <1>0 DEF Request, Sound, Seen, Moves, Outcomes
<1>4. req' = [req EXCEPT ![r] = call]  BY DEF Answer
<1> QED  BY <1>1, <1>2, <1>3, <1>4, NewRecord

\* The call and its stream.
LEMMA UpstreamKeeps ==
    ASSUME NEW r \in Requests, req \in [Requests -> Request], Sound(req[r]),
           \/ CallFails(r) \/ CallAnswers(r) \/ CallCut(r)
           \/ ComboStreams(r) \/ ChatStreamFails(r) \/ ResponsesStreamFails(r)
           \/ StreamOpens(r) \/ StreamDone(r) \/ StreamCut(r)
    PROVE  StepKeeps(r)
<1>0. req[r] \in Request  OBVIOUS
<1>1. CASE CallFails(r)
    BY <1>0, <1>1, AnswerKeeps DEF CallFails, At, Outcomes
<1>2. CASE CallAnswers(r) \/ ComboStreams(r)
    <2>1. PICK u \in 0..MaxTokens :
            req' = [req EXCEPT ![r].answer = "complete", ![r].usage = u, ![r].pc = "event"]
        BY <1>2 DEF CallAnswers, ComboStreams
    <2> DEFINE call == [req[r] EXCEPT !.answer = "complete", !.usage = u, !.pc = "event"]
    <2>2. req[r].pc = "call"  BY <1>2 DEF CallAnswers, ComboStreams, At
    <2>3. call \in Request  BY <1>0 DEF Request
    <2>4. Sound(call)  BY <1>0, <2>2 DEF Request, Sound, Settled, Outcomes, Early
    <2>5. Moves(Seen(req[r]), Seen(call))  BY <1>0, <2>2 DEF Request, Sound, Seen, Moves
    <2>6. req' = [req EXCEPT ![r] = call]  BY <2>1
    <2> QED  BY <2>3, <2>4, <2>5, <2>6, NewRecord
<1>3. CASE CallCut(r)
    BY <1>0, <1>3, AnswerKeeps DEF CallCut, At, Is, Outcomes, CalledGood
<1>4. CASE ChatStreamFails(r)
    BY <1>0, <1>4, AnswerKeeps DEF ChatStreamFails, At, Is, Outcomes, CalledGood
<1>5. CASE ResponsesStreamFails(r)
    BY <1>0, <1>5, AnswerKeeps DEF ResponsesStreamFails, At, Is, Outcomes
<1>6. CASE StreamOpens(r)
    <2> DEFINE call == [req[r] EXCEPT !.answer = "open", !.status = "ok", !.pc = "stream"]
    <2>1. req[r].pc = "call" /\ req[r].kind = "messages_stream"
        BY <1>6 DEF StreamOpens, At, Is
    <2>2. call \in Request /\ Sound(call)  BY <1>0, <2>1 DEF Request, Sound, Early
    <2>3. Moves(Seen(req[r]), Seen(call))  BY <1>0, <2>1 DEF Request, Sound, Seen, Moves
    <2>4. req' = [req EXCEPT ![r] = call]  BY <1>6 DEF StreamOpens, Answer
    <2> QED  BY <2>2, <2>3, <2>4, NewRecord
<1>7. CASE StreamDone(r)
    BY <1>0, <1>7, AnswerKeeps DEF StreamDone, At, Outcomes
<1>8. CASE StreamCut(r)
    BY <1>0, <1>8, AnswerKeeps DEF StreamCut, At, Outcomes, Sound, CalledGood
<1> QED  BY <1>1, <1>2, <1>3, <1>4, <1>5, <1>6, <1>7, <1>8

\* What comes after the answer.
LEMMA EndKeeps ==
    ASSUME NEW r \in Requests, req \in [Requests -> Request], Sound(req[r]),
           \/ RecordEvent(r) \/ CountUsage(r) \/ CountLost(r) \/ CountFails(r)
           \/ Finish(r) \/ Leave(r)
    PROVE  StepKeeps(r)
<1>0. req[r] \in Request /\ 0 \in 0..MaxTokens  BY MeteringAssumption
<1>1. CASE RecordEvent(r)
    <2> DEFINE call ==
                   [req[r] EXCEPT !.recorded = TRUE,
                                  !.pc = IF req[r].usage > 0 /\ req[r].status = "ok"
                                         THEN "count" ELSE "end"]
    <2>1. req[r].pc = "event"  BY <1>1 DEF RecordEvent, At
    <2>2. call \in Request /\ Sound(call)  BY <1>0, <2>1 DEF Request, Sound, Settled, Early
    <2>3. Moves(Seen(req[r]), Seen(call))  BY <1>0, <2>1 DEF Request, Seen, Moves
    <2>4. req' = [req EXCEPT ![r] = call]  BY <1>1 DEF RecordEvent
    <2> QED  BY <2>2, <2>3, <2>4, NewRecord
<1>2. ASSUME req[r].pc = "count", Goto(r, "end")  PROVE StepKeeps(r)
    <2> DEFINE call == [req[r] EXCEPT !.pc = "end"]
    <2>1. call \in Request /\ Sound(call)  BY <1>0, <1>2 DEF Request, Sound, Settled, Early
    <2>2. Moves(Seen(req[r]), Seen(call))  BY <1>0, <1>2 DEF Request, Seen, Moves
    <2>3. req' = [req EXCEPT ![r] = call]  BY <1>2 DEF Goto
    <2> QED  BY <2>1, <2>2, <2>3, NewRecord
<1>3. CASE Finish(r)
    <2>1. req[r].pc = "end" /\ req' = [req EXCEPT ![r] = Idle]  BY <1>3 DEF Finish, At
    <2>2. Idle \in Request /\ Sound(Idle)
        BY <1>0 DEF Idle, Request, Plain, Sound, Settled, Early
    <2>3. Moves(Seen(req[r]), Seen(Idle))
        BY <1>0, <2>1 DEF Request, Sound, Settled, Outcomes, Seen, Moves, Idle
    <2> QED  BY <2>1, <2>2, <2>3, NewRecord
<1>4. CASE Leave(r)
    <2> DEFINE call == [req[r] EXCEPT !.gone = TRUE]
    <2>1. req[r].pc \in {"call", "stream", "event", "count"} /\ req' = [req EXCEPT ![r] = call]
        BY <1>4 DEF Leave
    <2>2. call \in Request /\ Sound(call)  BY <1>0, <2>1 DEF Request, Sound, Settled, Early
    <2>3. Moves(Seen(req[r]), Seen(call))  BY <1>0, <2>1 DEF Request, Seen, Moves
    <2> QED  BY <2>1, <2>2, <2>3, NewRecord
<1> QED  BY <1>1, <1>2, <1>3, <1>4 DEF CountUsage, CountLost, CountFails, At

LEMMA CallStep ==
    ASSUME req \in [Requests -> Request], CallsSound, NEW r \in Requests, Step(r)
    PROVE  StepKeeps(r)
BY ChecksKeep, UpstreamKeeps, EndKeeps DEF CallsSound, Step, Serve

\* The other steps do not touch the calls.
LEMMA OthersKeepCalls ==
    ASSUME Administer \/ PeriodEnds \/ UNCHANGED vars
    PROVE  req' = req
BY DEF Administer, PeriodEnds, CreateQuota, BeginEdit, EndEdit, EndEditDeleted, DeleteQuota,
   ResetUsage, vars

-----------------------------------------------------------------------------
(* Types, and what is said of the calls.                                   *)

LEMMA InitOk == Init => TypeOK /\ CallsSound
<1> SUFFICES ASSUME Init PROVE TypeOK /\ CallsSound  OBVIOUS
<1>1. Idle \in Request /\ Sound(Idle)
    BY MeteringAssumption DEF Idle, Request, Plain, Sound, Settled, Early
<1> QED  BY <1>1 DEF Init, TypeOK, CallsSound

LEMMA CapsAreNumbers ==
    /\ MaxCap \in Nat /\ MaxCap > 0 /\ MaxTokens \in Nat
    /\ \A c \in Caps : c \in Nat /\ c <= MaxCap
BY MeteringAssumption

LEMMA CallsSoundStep ==
    TypeOK /\ CallsSound /\ [Next]_vars => req' \in [Requests -> Request] /\ CallsSound'
<1> SUFFICES ASSUME TypeOK, CallsSound, [Next]_vars
             PROVE  req' \in [Requests -> Request] /\ CallsSound'
    OBVIOUS
<1>1. CASE \E r \in Requests : Step(r)
    <2>1. PICK r \in Requests : Step(r)  BY <1>1
    <2>2. StepKeeps(r)  BY <2>1, CallStep DEF TypeOK
    <2> QED  BY <2>2 DEF StepKeeps, CallsSound
<1>2. CASE Administer \/ PeriodEnds \/ UNCHANGED vars
    BY <1>2, OthersKeepCalls DEF TypeOK, CallsSound
<1> QED  BY <1>1, <1>2 DEF Next, Step

\* What clearing the usage does, where it is not undone.
LEMMA Clearing ==
    ASSUME TypeOK, NEW r \in Requests, ClearLiveRow(r) \/ RenewPeriod(r) \/ ResetUsage
    PROVE  /\ UNCHANGED <<store, edit>>
           /\ \/ UNCHANGED <<quota, lapsed, charged, raced>>
              \/ \E over \in BOOLEAN : Cleared(over) \/ ClearingLost(over)
BY DEF ClearLiveRow, RenewPeriod, ResetUsage, history

RowTyped ==
    /\ store \in Stores /\ quota \in Quota \cup {NoQuota} /\ edit \in Copy \cup {NoEdit}
    /\ lapsed \in BOOLEAN /\ raced \in BOOLEAN /\ charged \in Nat

\* The steps, by what they do to the row.
LEMMA StepKinds ==
    ASSUME [Next]_vars
    PROVE  \/ \E r \in Requests :
                  UNCHANGED <<store, quota, edit, lapsed, charged, raced>> /\ Step(r)
           \/ \E r \in Requests : CheckQuota(r) \/ RenewFails(r)
           \/ \E r \in Requests : ClearLiveRow(r) \/ RenewPeriod(r)
           \/ \E r \in Requests : CountUsage(r) \/ CountLost(r)
           \/ \E cap \in Caps : CreateQuota(cap) \/ EndEdit(cap) \/ EndEditDeleted(cap)
           \/ BeginEdit \/ DeleteQuota \/ ResetUsage \/ PeriodEnds
           \/ UNCHANGED vars
BY DEF Next, Administer, Step, Serve, Arrive, RefuseQuota, FindOver, CallFails, CallAnswers,
   CallCut, ComboStreams, ChatStreamFails, ResponsesStreamFails, StreamOpens, StreamDone,
   StreamCut, RecordEvent, CountFails, Finish, Leave, history

\* The row, its copy and the histories.
LEMMA RowTypes == TypeOK /\ [Next]_vars => RowTyped'
<1> SUFFICES ASSUME TypeOK, [Next]_vars  PROVE RowTyped'
    OBVIOUS
<1>0. /\ RowTyped
      /\ HasQuota => quota \in Quota
      /\ edit # NoEdit => edit \in Copy
      /\ \A r \in Requests : req[r].usage \in Nat
    BY CapsAreNumbers DEF TypeOK, RowTyped, HasQuota, Request
<1>1. ASSUME NEW r \in Requests, CheckQuota(r) \/ RenewFails(r)  PROVE RowTyped'
    <2>1. CASE CheckQuota(r)  BY <1>0, <2>1 DEF CheckQuota, RowTyped
    <2>2. CASE RenewFails(r)  BY <1>0, <2>2 DEF RenewFails, RowTyped, HasQuota
    <2> QED  BY <1>1, <2>1, <2>2
<1>2. ASSUME UNCHANGED <<store, edit>>, NEW over \in BOOLEAN,
             Cleared(over) \/ ClearingLost(over)
      PROVE  RowTyped'
    <2>1. CASE Cleared(over)  BY <1>0, <1>2, <2>1 DEF Cleared, RowTyped, Quota
    <2>2. CASE ClearingLost(over)  BY <1>0, <1>2, <2>2 DEF ClearingLost, RowTyped, Quota
    <2> QED  BY <1>2, <2>1, <2>2
<1>3. CASE \E r \in Requests : ClearLiveRow(r) \/ RenewPeriod(r)
    <2>1. PICK r \in Requests : ClearLiveRow(r) \/ RenewPeriod(r)  BY <1>3
    <2> QED  BY <1>0, <1>2, <2>1, Clearing DEF RowTyped
<1>4. ASSUME NEW r \in Requests, CountUsage(r) \/ CountLost(r)  PROVE RowTyped'
    <2>1. CASE CountUsage(r)  BY <1>0, <2>1 DEF CountUsage, RowTyped, Quota
    <2>2. CASE CountLost(r)  BY <1>0, <2>2 DEF CountLost, RowTyped
    <2> QED  BY <1>4, <2>1, <2>2
<1>5. ASSUME NEW cap \in Caps, CreateQuota(cap)  PROVE RowTyped'
    BY <1>0, <1>5 DEF CreateQuota, RowTyped, Quota
<1>6. ASSUME NEW cap \in Caps, EndEdit(cap)  PROVE RowTyped'
    <2> DEFINE row == IF Live THEN Copied ELSE edit
    <2>1. row.used \in Nat /\ row.over \in BOOLEAN
        BY <1>0, <1>6 DEF EndEdit, Copied, Copy, Quota
    <2>2. /\ quota' = [cap |-> cap, used |-> row.used, over |-> row.over]
          /\ lapsed' = (lapsed \/ row.used > quota.used)
          /\ raced' = (raced \/ row.used # quota.used)
          /\ charged' = IF raced' THEN 0 ELSE charged
          /\ edit' = NoEdit /\ store' = store
        BY <1>6 DEF EndEdit
    <2>3. quota' \in Quota  BY <2>1, <2>2 DEF Quota
    <2> HIDE DEF row
    <2> QED  BY <1>0, <2>2, <2>3 DEF RowTyped
<1>7. ASSUME NEW cap \in Caps, EndEditDeleted(cap)  PROVE RowTyped'
    <2>1. quota' \in Quota  BY <1>0, <1>7 DEF EndEditDeleted, Quota, Copy
    <2> QED  BY <1>0, <1>7, <2>1 DEF EndEditDeleted, RowTyped
<1>8. CASE BeginEdit  BY <1>0, <1>8 DEF BeginEdit, Copied, RowTyped, Quota, Copy, history
<1>9. CASE DeleteQuota  BY <1>0, <1>9 DEF DeleteQuota, Copied, RowTyped, Quota, Copy
<1>10. CASE ResetUsage
    <2>1. \/ ~Live /\ UNCHANGED <<quota, history>>
          \/ Cleared(FALSE) \/ ClearingLost(FALSE)
        BY <1>10 DEF ResetUsage
    <2>2. UNCHANGED <<store, edit>>  BY <1>10 DEF ResetUsage
    <2> QED  BY <1>0, <1>2, <2>1, <2>2 DEF RowTyped, history
<1>11. CASE PeriodEnds  BY <1>0, <1>11 DEF PeriodEnds, RowTyped, Quota, history
<1>12. CASE UNCHANGED <<store, quota, edit, lapsed, charged, raced>>
    BY <1>0, <1>12 DEF RowTyped
<1> QED
    BY <1>1, <1>3, <1>4, <1>5, <1>6, <1>7, <1>8, <1>9, <1>10, <1>11, <1>12, StepKinds DEF vars

\* Types are kept, and every call is as sound as far as it has come.
THEOREM CallsAreSound == Spec => [](TypeOK /\ CallsSound)
<1>1. TypeOK /\ CallsSound /\ [Next]_vars => (TypeOK /\ CallsSound)'
    BY CallsSoundStep, RowTypes DEF TypeOK, RowTyped
<1> QED  BY <1>1, InitOk, PTL DEF Spec

\* The row of the quota, the edit and the calls have their types.
THEOREM TypeCorrect == Spec => []TypeOK
BY CallsAreSound, PTL

\* A cut answer looks whole in chat bodies and message streams only.
THEOREM CutsAreTold == Spec => []CutIsTold
<1>1. TypeOK /\ CallsSound => CutIsTold
    BY DEF TypeOK, Request, CallsSound, Sound, Settled, Early, CutIsTold
<1> QED  BY <1>1, CallsAreSound, PTL

\* Only refused calls and the streams of the responses endpoint end without a usage event.
THEOREM EndsAreRecorded == Spec => []EndedIsRecorded
<1>1. TypeOK /\ CallsSound => EndedIsRecorded
    BY DEF TypeOK, Request, CallsSound, Sound, EndedIsRecorded, At, Is
<1> QED  BY <1>1, CallsAreSound, PTL

\* Usage events say what the client was told, with the exceptions named.
THEOREM EventsAreTrue == Spec => []EventsMatchAnswers
<1>1. TypeOK /\ CallsSound => EventsMatchAnswers
    BY DEF TypeOK, Request, CallsSound, Sound, Settled, Early, EventsMatchAnswers
<1> QED  BY <1>1, CallsAreSound, PTL

-----------------------------------------------------------------------------
(* Metering implements Answers.                                            *)

LEMMA ViewStep == TypeOK /\ CallsSound /\ [Next]_vars => [Promised!Next]_seenBy
<1> SUFFICES ASSUME TypeOK, CallsSound, [Next]_vars  PROVE [Promised!Next]_seenBy
    OBVIOUS
<1>1. CASE \E r \in Requests : Step(r)
    <2>1. PICK r \in Requests : Step(r)  BY <1>1
    <2>2. StepKeeps(r)  BY <2>1, CallStep DEF TypeOK
    <2>3. seenBy' = [seenBy EXCEPT ![r] = Seen(req'[r])]  BY <2>2 DEF StepKeeps, seenBy
    <2>4. seenBy[r] = Seen(req[r])  BY DEF seenBy
    <2>5. CASE Seen(req[r]) = Seen(req'[r])
        BY <2>3, <2>4, <2>5 DEF seenBy
    <2>6. CASE Seen(req[r]) # Seen(req'[r])
        <3>1. \/ Promised!Ask(r) \/ Promised!Open(r) \/ Promised!Tell(r)
              \/ Promised!Leave(r) \/ Promised!Close(r)
            BY <2>2, <2>3, <2>4, <2>6
               DEF StepKeeps, Moves, Promised!Ask, Promised!Open, Promised!Tell,
                   Promised!Leave, Promised!Close, Promised!Move
        <3> QED  BY <3>1 DEF Promised!Next
    <2> QED  BY <2>5, <2>6
<1>2. CASE Administer \/ PeriodEnds \/ UNCHANGED vars
    BY <1>2, OthersKeepCalls DEF seenBy
<1> QED  BY <1>1, <1>2 DEF Next, Step

\* Every call is told its result, once, and nothing follows it.
THEOREM KeepsAnswers == Spec => AnswersKept
<1>1. Init => Promised!Init
    BY DEF Init, Promised!Init, seenBy, Seen, Idle
<1> QED  BY <1>1, ViewStep, CallsAreSound, PTL DEF Spec, AnswersKept, Promised!Spec

-----------------------------------------------------------------------------
(* The quota.                                                              *)

LEMMA LedgerStep == TypeOK /\ LedgerExact /\ [Next]_vars => LedgerExact'
<1> SUFFICES ASSUME TypeOK, LedgerExact, [Next]_vars  PROVE LedgerExact'
    OBVIOUS
<1>1. ASSUME NEW r \in Requests, CheckQuota(r) \/ RenewFails(r)  PROVE LedgerExact'
    BY <1>1 DEF CheckQuota, RenewFails, LedgerExact, HasQuota
<1>2. ASSUME NEW over \in BOOLEAN, Cleared(over) \/ ClearingLost(over)  PROVE LedgerExact'
    BY <1>2 DEF Cleared, ClearingLost, LedgerExact, HasQuota, TypeOK, Quota
<1>3. ASSUME NEW r \in Requests, CountUsage(r) \/ CountLost(r)  PROVE LedgerExact'
    BY <1>3 DEF CountUsage, CountLost, LedgerExact, HasQuota, TypeOK, Quota
<1>4. ASSUME NEW cap \in Caps, CreateQuota(cap)  PROVE LedgerExact'
    BY <1>4 DEF CreateQuota, LedgerExact, HasQuota
<1>5. ASSUME NEW cap \in Caps, EndEdit(cap)  PROVE LedgerExact'
    BY <1>5 DEF EndEdit, LedgerExact, HasQuota
<1>6. ASSUME NEW cap \in Caps, EndEditDeleted(cap)  PROVE LedgerExact'
    BY <1>6 DEF EndEditDeleted, LedgerExact
<1>7. CASE BeginEdit  BY <1>7 DEF BeginEdit, history, LedgerExact, HasQuota
<1>8. CASE DeleteQuota  BY <1>8 DEF DeleteQuota, LedgerExact, HasQuota
<1>9. CASE PeriodEnds  BY <1>9 DEF PeriodEnds, history, LedgerExact, HasQuota, TypeOK, Quota
<1>10. CASE UNCHANGED <<quota, charged, raced>>  BY <1>10 DEF LedgerExact, HasQuota
<1>11. CASE \E r \in Requests : ClearLiveRow(r) \/ RenewPeriod(r)
    <2>1. PICK r \in Requests : ClearLiveRow(r) \/ RenewPeriod(r)  BY <1>11
    <2> QED  BY <1>2, <1>10, <2>1, Clearing
<1>12. CASE ResetUsage
    BY <1>2, <1>10, <1>12 DEF ResetUsage, history
<1> QED
    BY <1>1, <1>3, <1>4, <1>5, <1>6, <1>7, <1>8, <1>9, <1>10, <1>11, <1>12, StepKinds DEF vars

\* Usage is what was charged, but for edits and writers of a live row that meet.
THEOREM LedgerIsExact == Spec => []LedgerExact
<1>1. Init => LedgerExact  BY DEF Init, LedgerExact, HasQuota
<1> QED  BY <1>1, LedgerStep, TypeCorrect, PTL DEF Spec

-----------------------------------------------------------------------------
(* How far usage can pass the cap.                                         *)

LEMMA Product == ASSUME NEW k \in Nat, NEW m \in Nat, NEW n \in Nat, m <= n
                 PROVE  k * m \in Nat /\ k * n \in Nat /\ k * m <= k * n
<1>1. k * (n - m) >= 0  OBVIOUS
<1>2. k * (n - m) = k * n - k * m  OBVIOUS
<1> QED  BY <1>1, <1>2

LEMMA ProductStep == ASSUME NEW k \in Nat, NEW n \in Nat  PROVE k * (n + 1) = k * n + k
OBVIOUS

\* Usage u and the calls S in flight stay within the bound.
Fits(u, S) ==
    u + MaxTokens * Cardinality(S) <= MaxCap - 1 + MaxTokens * Cardinality(Requests)

LEMMA Sizes ==
    ASSUME NEW S, NEW T, S \subseteq T, T \subseteq Requests
    PROVE  /\ Cardinality(S) \in Nat /\ Cardinality(T) \in Nat
           /\ Cardinality(S) <= Cardinality(T)
           /\ MaxTokens * Cardinality(S) \in Nat /\ MaxTokens * Cardinality(T) \in Nat
           /\ MaxTokens * Cardinality(S) <= MaxTokens * Cardinality(T)
<1>1. IsFiniteSet(T)  BY FS_Subset, MeteringAssumption
<1>2. IsFiniteSet(S) /\ Cardinality(S) <= Cardinality(T)  BY <1>1, FS_Subset
<1>3. Cardinality(S) \in Nat /\ Cardinality(T) \in Nat  BY <1>1, <1>2, FS_CardinalityType
<1> QED  BY <1>2, <1>3, Product, MeteringAssumption

\* With usage below a cap, any calls may be in flight.
LEMMA BelowCapFits ==
    ASSUME NEW u \in Nat, u < MaxCap, NEW S, S \subseteq Requests
    PROVE  Fits(u, S)
<1>1. /\ MaxTokens * Cardinality(S) \in Nat /\ MaxTokens * Cardinality(Requests) \in Nat
      /\ MaxTokens * Cardinality(S) <= MaxTokens * Cardinality(Requests)
    BY Sizes
<1> QED  BY <1>1, MeteringAssumption, CapsAreNumbers DEF Fits

\* Less usage, or fewer calls, fit too.
LEMMA LessFits ==
    ASSUME NEW u \in Nat, NEW v \in Nat, v <= u,
           NEW S, NEW T, S \subseteq T, T \subseteq Requests, Fits(u, T)
    PROVE  Fits(v, S)
<1> DEFINE a == MaxTokens * Cardinality(S)
           b == MaxTokens * Cardinality(T)
           c == MaxTokens * Cardinality(Requests)
<1>1. a \in Nat /\ b \in Nat /\ a <= b  BY Sizes
<1>2. c \in Nat  BY Sizes
<1>3. u + b <= MaxCap - 1 + c  BY DEF Fits
<1>4. v + a <= MaxCap - 1 + c
    <2> HIDE DEF a, b, c
    <2> QED  BY <1>1, <1>2, <1>3, CapsAreNumbers
<1> QED  BY <1>4 DEF Fits

\* A call that is charged for is one less that may be.
LEMMA ChargeFits ==
    ASSUME NEW u \in Nat, NEW t \in 0..MaxTokens, NEW T, T \subseteq Requests, NEW r \in T,
           Fits(u, T)
    PROVE  Fits(u + t, T \ {r})
<1> DEFINE n == Cardinality(T \ {r})
           c == MaxTokens * Cardinality(Requests)
<1>1. IsFiniteSet(T)  BY FS_Subset, MeteringAssumption
<1>2. Cardinality(T \ {r}) = Cardinality(T) - 1  BY <1>1, FS_RemoveElement
<1>3. n \in Nat /\ Cardinality(T) \in Nat  BY Sizes
<1>4. Cardinality(T) = n + 1  BY <1>2, <1>3
<1>5. MaxTokens * Cardinality(T) = MaxTokens * n + MaxTokens
    BY <1>3, <1>4, ProductStep, MeteringAssumption
<1>6. c \in Nat /\ MaxTokens * n \in Nat  BY Sizes
<1>7. u + (MaxTokens * n + MaxTokens) <= MaxCap - 1 + c  BY <1>5 DEF Fits
<1>8. u + t + MaxTokens * n <= MaxCap - 1 + c
    <2> DEFINE d == MaxTokens * n
    <2>1. d \in Nat  BY <1>6
    <2>2. u + (d + MaxTokens) <= MaxCap - 1 + c  BY <1>7
    <2>3. u + t + d <= MaxCap - 1 + c
        <3> HIDE DEF d, c
        <3> QED  BY <1>6, <2>1, <2>2, CapsAreNumbers
    <2> QED  BY <2>3
<1> QED  BY <1>8 DEF Fits

\* Only an admission adds a call to those in flight.
LEMMA InFlightStep ==
    ASSUME TypeOK, CallsSound, NEW r \in Requests, Step(r), ~CheckQuota(r), ~RenewFails(r),
           Live \/ ~RenewPeriod(r)
    PROVE  InFlight' \subseteq InFlight
<1>1. StepKeeps(r)  BY CallStep DEF TypeOK
<1>2. req'[r].pc \in {"call", "stream", "event", "count"}
        => req[r].pc \in {"call", "stream", "event", "count"}
    <2>0. req \in [Requests -> Request]  BY DEF TypeOK
    <2>1. CASE \E kind \in Plain \cup Streams : Arrive(r, kind)
        BY <2>0, <2>1 DEF Arrive, Idle
    <2>2. CASE RefuseQuota(r)  BY <2>0, <2>2 DEF RefuseQuota, Answer, Request
    <2>3. CASE FindOver(r)  BY <2>0, <2>3 DEF FindOver, Goto, Request
    <2>4. CASE ClearLiveRow(r)  BY <2>0, <2>4 DEF ClearLiveRow, Goto, Request
    <2>5. CASE RenewPeriod(r)  BY <2>0, <2>5 DEF RenewPeriod, Goto, Request
    <2>6. CASE Finish(r)  BY <2>0, <2>6 DEF Finish, Idle
    <2>7. CASE \/ CallFails(r) \/ CallAnswers(r) \/ CallCut(r)
               \/ ComboStreams(r) \/ ChatStreamFails(r) \/ ResponsesStreamFails(r)
               \/ StreamOpens(r) \/ StreamDone(r) \/ StreamCut(r)
               \/ RecordEvent(r) \/ CountUsage(r) \/ CountLost(r) \/ CountFails(r) \/ Leave(r)
        BY <2>7 DEF CallFails, CallAnswers, CallCut, ComboStreams, ChatStreamFails,
           ResponsesStreamFails, StreamOpens, StreamDone, StreamCut, RecordEvent, CountUsage,
           CountLost, CountFails, Leave, At
    <2> QED  BY <2>1, <2>2, <2>3, <2>4, <2>5, <2>6, <2>7 DEF Step, Serve
<1> QED  BY <1>1, <1>2 DEF StepKeeps, InFlight

Overshoot == HasQuota /\ ~lapsed => Fits(quota.used, InFlight)

LEMMA OvershootStep == TypeOK /\ CallsSound /\ Overshoot /\ [Next]_vars => Overshoot'
<1> SUFFICES ASSUME TypeOK, CallsSound, Overshoot, [Next]_vars, HasQuota', ~lapsed'
             PROVE  Fits(quota'.used, InFlight')
    BY DEF Overshoot, Fits
<1>0. /\ InFlight \subseteq Requests /\ InFlight' \subseteq Requests
      /\ HasQuota => quota \in Quota /\ quota.used \in Nat
      /\ 0 < MaxCap /\ 0 \in Nat
    BY CapsAreNumbers DEF InFlight, TypeOK, HasQuota, Quota
<1>1. ASSUME quota'.used = 0  PROVE Fits(quota'.used, InFlight')
    BY <1>0, <1>1, BelowCapFits
<1>2. ASSUME HasQuota, ~lapsed, quota'.used \in Nat, quota'.used <= quota.used,
             InFlight' \subseteq InFlight
      PROVE  Fits(quota'.used, InFlight')
    BY <1>0, <1>2, LessFits DEF Overshoot
<1>3. ASSUME NEW over \in BOOLEAN,
             Cleared(over) \/ (ClearingLost(over) /\ InFlight' \subseteq InFlight)
      PROVE  Fits(quota'.used, InFlight')
    <2>1. CASE Cleared(over)
        <3>1. quota'.used = 0  BY <1>0, <2>1 DEF Cleared, HasQuota, Quota
        <3> QED  BY <1>1, <3>1
    <2>2. CASE ClearingLost(over) /\ InFlight' \subseteq InFlight
        <3>1. HasQuota /\ ~lapsed /\ quota'.used = quota.used
            BY <1>0, <2>2 DEF ClearingLost, Quota
        <3> QED  BY <1>0, <1>2, <2>2, <3>1
    <2> QED  BY <1>3, <2>1, <2>2
<1>4. ASSUME NEW r \in Requests, CheckQuota(r)  PROVE Fits(quota'.used, InFlight')
    <2>1. HasQuota /\ quota' = quota  BY <1>4 DEF CheckQuota, HasQuota
    <2>2. quota.cap # 0 /\ ~Exhausted(quota)  BY <1>4, <2>1 DEF CheckQuota
    <2>3. quota.used < MaxCap
        BY <1>0, <2>1, <2>2, CapsAreNumbers DEF Exhausted, Quota
    <2> QED  BY <1>0, <2>1, <2>3, BelowCapFits
<1>5. ASSUME NEW r \in Requests, RenewFails(r)  PROVE FALSE
    BY <1>5 DEF RenewFails, HasQuota
<1>6. ASSUME NEW r \in Requests, ClearLiveRow(r) \/ RenewPeriod(r)
      PROVE  Fits(quota'.used, InFlight')
    <2>1. CASE \E over \in BOOLEAN : Cleared(over)  BY <1>3, <2>1
    <2>2. CASE ~\E over \in BOOLEAN : Cleared(over)
        <3>1. PICK over \in BOOLEAN : ClearingLost(over)
            BY <1>6, <2>2 DEF ClearLiveRow, RenewPeriod
        <3>2. Goto(r, "renew") \/ Goto(r, "compare")
            BY <1>6, <2>2 DEF ClearLiveRow, RenewPeriod
        <3>3. InFlight' \subseteq InFlight  BY <3>2 DEF Goto, InFlight, TypeOK, Request
        <3> QED  BY <1>3, <3>1, <3>3
    <2> QED  BY <2>1, <2>2
<1>7. ASSUME NEW r \in Requests, CountUsage(r)  PROVE Fits(quota'.used, InFlight')
    <2>1. HasQuota /\ ~lapsed /\ quota'.used = quota.used + req[r].usage
        BY <1>0, <1>7 DEF CountUsage, HasQuota, Quota
    <2>2. r \in InFlight /\ req[r].usage \in 0..MaxTokens
        BY <1>7 DEF CountUsage, At, InFlight, TypeOK, Request
    <2>3. InFlight' = InFlight \ {r}
        BY <1>7 DEF CountUsage, Goto, InFlight, TypeOK
    <2> QED  BY <1>0, <2>1, <2>2, <2>3, ChargeFits DEF Overshoot
<1>8. ASSUME NEW r \in Requests, CountLost(r)  PROVE Fits(quota'.used, InFlight')
    <2>1. HasQuota /\ ~lapsed /\ quota' = quota  BY <1>8 DEF CountLost
    <2>2. InFlight' \subseteq InFlight  BY <1>8 DEF CountLost, Goto, InFlight, TypeOK
    <2> QED  BY <1>0, <1>2, <2>1, <2>2
<1>9. ASSUME NEW r \in Requests, Step(r),
             UNCHANGED <<store, quota, edit, lapsed, charged, raced>>
      PROVE  Fits(quota'.used, InFlight')
    <2>1. HasQuota /\ ~lapsed  BY <1>9 DEF HasQuota
    <2>2. CASE CheckQuota(r) \/ RenewPeriod(r) \/ RenewFails(r)  BY <1>4, <1>5, <1>6, <2>2
    <2>3. CASE ~(CheckQuota(r) \/ RenewPeriod(r) \/ RenewFails(r))
        <3>1. InFlight' \subseteq InFlight  BY <1>9, <2>3, InFlightStep
        <3> QED  BY <1>0, <1>2, <1>9, <2>1, <3>1
    <2> QED  BY <2>2, <2>3
<1>10. ASSUME req' = req  PROVE InFlight' = InFlight
    BY <1>10 DEF InFlight
<1>11. ASSUME NEW cap \in Caps, CreateQuota(cap)  PROVE Fits(quota'.used, InFlight')
    BY <1>1, <1>11 DEF CreateQuota
<1>12. ASSUME NEW cap \in Caps, EndEdit(cap)  PROVE Fits(quota'.used, InFlight')
    <2> DEFINE row == IF Live THEN Copied ELSE edit
    <2>1. HasQuota /\ row.used \in Nat
        BY <1>0, <1>12 DEF EndEdit, TypeOK, Copied, Copy
    <2>2. req' = req /\ ~lapsed /\ quota'.used = row.used /\ ~(row.used > quota.used)
        BY <1>12 DEF EndEdit
    <2> HIDE DEF row
    <2> QED  BY <1>0, <1>2, <1>10, <2>1, <2>2
<1>13. ASSUME NEW cap \in Caps, EndEditDeleted(cap)  PROVE FALSE
    BY <1>13 DEF EndEditDeleted
<1>14. CASE BeginEdit \/ PeriodEnds \/ UNCHANGED vars
    <2>1. req' = req /\ HasQuota /\ ~lapsed
        BY <1>14 DEF BeginEdit, PeriodEnds, vars, history, HasQuota
    <2>2. quota'.used = quota.used  BY <1>0, <1>14, <2>1 DEF BeginEdit, PeriodEnds, vars, Quota
    <2> QED  BY <1>0, <1>2, <1>10, <2>1, <2>2
<1>15. CASE DeleteQuota  BY <1>15 DEF DeleteQuota, HasQuota
<1>16. CASE ResetUsage
    <2>1. req' = req /\ HasQuota  BY <1>16 DEF ResetUsage
    <2>2. CASE UNCHANGED <<quota, history>>
        <3>1. ~lapsed /\ quota' = quota  BY <2>2 DEF history
        <3> QED  BY <1>0, <1>2, <1>10, <2>1, <3>1
    <2>3. CASE Cleared(FALSE) \/ ClearingLost(FALSE)
        BY <1>3, <1>10, <2>1, <2>3
    <2> QED  BY <1>16, <2>2, <2>3 DEF ResetUsage
<1> QED
    BY <1>4, <1>5, <1>6, <1>7, <1>8, <1>9, <1>11, <1>12, <1>13, <1>14, <1>15, <1>16, StepKinds

\* Under an enforced cap, the calls in flight are all that usage can pass it by.
THEOREM OvershootIsBounded == Spec => []BoundedOvershoot
<1>1. Init => Overshoot  BY DEF Init, Overshoot, HasQuota
<1>2. Overshoot => BoundedOvershoot  BY DEF Overshoot, Fits, BoundedOvershoot
<1> QED  BY <1>1, <1>2, OvershootStep, CallsAreSound, PTL DEF Spec
=============================================================================
