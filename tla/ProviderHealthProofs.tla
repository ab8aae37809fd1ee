------------------------ MODULE ProviderHealthProofs ------------------------
(***************************************************************************)
(* Invariance proofs for ProviderHealth, for any set of providers and      *)
(* requests, any combo, any durations and thresholds.                      *)
(***************************************************************************)
EXTENDS ProviderHealth, TLAPS

-----------------------------------------------------------------------------
(* The inductive invariant.                                                *)

\* A cooldown has a deadline.
Supported(row) == row.status = "cooldown" => row.left # NoDeadline

ConnSupported == \A p \in Providers : Supported(conn[p])

\* The same of every copy that may be written back.
CheckSupported == \A p \in Providers : check[p].pc = "record" => Supported(check[p].snap)

EditSupported == \A p \in Providers : edit[p].busy => Supported(edit[p].snap)

\* A request marks a candidate only for a call that found it unavailable, and
\* its call is aborted only when its client has left.
ChatGood(c) ==
    /\ c.pc \in {"calling", "update", "mark"} => c.tries < MaxAttempts
    /\ c.pc = "update" => Supported(c.snap)
    /\ c.pc = "mark" => Unavailable(c.res)
    /\ c.pc \in {"update", "mark"} /\ c.res = "abort" => c.gone

ChatSupported == \A r \in Requests : ChatGood(chat[r])

IInv == TypeOK /\ ConnSupported /\ CheckSupported /\ EditSupported /\ ChatSupported

-----------------------------------------------------------------------------
(* Lemmas on the operators the steps are built from.                       *)

\* Every row operation returns a row.
LEMMA RowOperations ==
    ASSUME NEW row \in Row, NEW ticks \in Nat
    PROVE  /\ MarkCooldown(row, ticks) \in Row
           /\ ClearCooldown(row) \in Row
           /\ UpdateStatus(row, "active") \in Row
           /\ UpdateStatus(row, "disabled") \in Row
           /\ Age(row) \in Row
           /\ Succeeded(row) \in Row
           /\ Failed(row) \in Row
           /\ ComboCooldown(row) \in Nat
           /\ FreshRow \in Row
<1> USE StoreAssumption, HealthAssumption DEF Row, Status, NoDeadline, Bump
<1>1. Bump(row.backoff) \in 0 .. MaxBackoff  OBVIOUS
<1>2. MarkCooldown(row, ticks) \in Row  BY <1>1 DEF MarkCooldown
<1>3. ClearCooldown(row) \in Row  BY DEF ClearCooldown
<1>4. UpdateStatus(row, "active") \in Row /\ UpdateStatus(row, "disabled") \in Row
    BY DEF UpdateStatus
<1>5. Age(row) \in Row
    <2>1. (IF row.left > 0 THEN row.left - 1 ELSE row.left) \in {-1} \cup Nat  OBVIOUS
    <2> QED  BY <2>1 DEF Age
<1>6. Succeeded(row) \in Row  BY DEF Succeeded
<1>7. Failed(row) \in Row
    <2>1. \A level \in 0 .. MaxBackoff : HealthTicks * level \in Nat  OBVIOUS
    <2> QED  BY <1>1, <2>1 DEF Failed
<1>8. ComboCooldown(row) \in Nat
    <2>1. \A n \in Nat : ComboTicks * n \in Nat  OBVIOUS
    <2> QED  BY <2>1 DEF ComboCooldown
<1>9. FreshRow \in Row  BY DEF FreshRow
<1> QED  BY <1>2, <1>3, <1>4, <1>5, <1>6, <1>7, <1>8, <1>9

\* A statement changes at most the row it names, to the row it is given.
LEMMA StoreChangesOneRow ==
    ASSUME NEW p \in Providers, NEW row \in Row, conn \in [Providers -> Row], Store(p, row)
    PROVE  /\ conn' \in [Providers -> Row]
           /\ \A q \in Providers : conn'[q] = conn[q] \/ (q = p /\ conn'[q] = row)
<1>1. conn' = conn \/ conn' = [conn EXCEPT ![p] = row]  BY DEF Store
<1> QED  BY <1>1

LEMMA StoreForChangesOneRow ==
    ASSUME NEW r, NEW p \in Providers, NEW row \in Row,
           conn \in [Providers -> Row], StoreFor(r, p, row)
    PROVE  /\ conn' \in [Providers -> Row]
           /\ \A q \in Providers : conn'[q] = conn[q] \/ (q = p /\ conn'[q] = row)
BY StoreChangesOneRow DEF StoreFor

-----------------------------------------------------------------------------
(* Types.                                                                  *)

LEMMA ForgetType == ASSUME NEW c \in Chat PROVE Forget(c) \in Chat
BY RowOperations, HealthAssumption, StoreAssumption
   DEF Forget, Chat, Outcome, FreshRow, Row, Status, NoDeadline

LEMMA ChatAtItem ==
    ASSUME NEW c \in Chat, NEW pc \in ChatPC, NEW i \in Nat \ {0}, NEW o \in Outcome
    PROVE  /\ [c EXCEPT !.pc = pc, !.item = i] \in Chat
           /\ [c EXCEPT !.pc = pc, !.res = o, !.item = i] \in Chat
BY DEF Chat

LEMMA ChatWithSnap ==
    ASSUME NEW c \in Chat, NEW row \in Row
    PROVE  [c EXCEPT !.snap = row] \in Chat
BY DEF Chat

LEMMA IdleChatType == IdleChat \in Chat
BY HealthAssumption, StoreAssumption
   DEF IdleChat, Chat, ChatPC, Outcome, FreshRow, Row, Status, NoDeadline

LEMMA FreshRowType == FreshRow \in Row
BY StoreAssumption DEF FreshRow, Row, Status, NoDeadline

LEMMA InitType == Init => TypeOK
BY IdleChatType, FreshRowType DEF Init, TypeOK, IdleCheck, IdleEdit

LEMMA ComboStepType ==
    ASSUME TypeOK, NEW r \in Requests, ComboStep(r)
    PROVE  TypeOK'
<1> USE HealthAssumption, ForgetType, IdleChatType, FreshRowType DEF TypeOK
<1>n. ASSUME NEW o \in Outcome, NextItem(r, o) PROVE chat' \in [Requests -> Chat]
    <2>1. chat[r] \in Chat /\ Forget(chat[r]) \in Chat  OBVIOUS
    <2>2. chat[r].item + 1 \in Nat \ {0}  BY <2>1 DEF Chat
    <2>4. [Forget(chat[r]) EXCEPT !.pc = "item", !.res = o,
                                  !.item = chat[r].item + 1] \in Chat
        BY <2>1, <2>2, ChatAtItem DEF ChatPC
    <2> QED  BY <1>n, <2>4 DEF NextItem
<1>d. ASSUME ToDirect(r) PROVE chat' \in [Requests -> Chat]
    <2>1. chat[r] \in Chat /\ Forget(chat[r]) \in Chat  OBVIOUS
    <2>2. "select" \in ChatPC /\ 1 \in Nat \ {0} /\ "ok" \in Outcome
        BY DEF ChatPC, Outcome
    <2>3. [Forget(chat[r]) EXCEPT !.pc = "select", !.item = 1] \in Chat
        BY <2>1, <2>2, ChatAtItem
    <2> QED  BY <1>d, <2>3 DEF ToDirect
<1>1. CASE CallItem(r)
    <2>1. ComboItems[chat[r].item] \in Providers
        BY <1>1 DEF CallItem, Chat
    <2>2. chat[r] \in Chat /\ conn[ComboItems[chat[r].item]] \in Row  BY <2>1
    <2>3. "itemCall" \in ChatPC /\ "ok" \in Outcome  BY DEF ChatPC, Outcome
    <2>4. [chat[r] EXCEPT !.pc = "itemCall", !.p = ComboItems[chat[r].item],
                          !.snap = conn[ComboItems[chat[r].item]], !.res = "ok"] \in Chat
        BY <2>1, <2>2, <2>3 DEF Chat
    <2> QED  BY <1>1, <2>4 DEF CallItem
<1>2. CASE SkipItem(r)  BY <1>2, <1>n DEF SkipItem, Outcome
<1>3. CASE ItemUnavailable(r)
    <2> DEFINE p == chat[r].p
               new == MarkCooldown(conn[p], ComboCooldown(chat[r].snap))
    <2>1. p \in Providers /\ chat[r].snap \in Row  BY DEF Chat
    <2>2. conn[p] \in Row  BY <2>1
    <2>3. new \in Row  BY <2>1, <2>2, RowOperations
    <2>4. Store(p, new)  BY <1>3 DEF ItemUnavailable
    <2>5. conn' \in [Providers -> Row]  BY <2>1, <2>3, <2>4, StoreChangesOneRow
    <2>6. PICK o \in Outcomes(r) : NextItem(r, o)  BY <1>3 DEF ItemUnavailable
    <2>7. o \in Outcome  BY <2>6 DEF Outcomes, Outcome
    <2> QED  BY <1>3, <1>n, <2>5, <2>6, <2>7 DEF ItemUnavailable
<1>4. CASE ItemGarbled(r)  BY <1>4, <1>n DEF ItemGarbled, Outcome
<1>5. CASE ItemRejected(r)  BY <1>5, <1>d DEF ItemRejected
<1>6. CASE ItemOk(r)
    <2>1. chat[r].p \in Providers  BY DEF Chat
    <2>2. ClearCooldown(conn[chat[r].p]) \in Row  BY <2>1, RowOperations
    <2>3. StoreFor(r, chat[r].p, ClearCooldown(conn[chat[r].p]))  BY <1>6 DEF ItemOk
    <2>4. conn' \in [Providers -> Row]
        BY <2>1, <2>2, <2>3, StoreForChangesOneRow
    <2> QED  BY <1>6, <2>4 DEF ItemOk
<1>7. CASE ComboExhausted(r)  BY <1>7, <1>d DEF ComboExhausted
<1> QED  BY <1>1, <1>2, <1>3, <1>4, <1>5, <1>6, <1>7 DEF ComboStep

LEMMA DirectStepType ==
    ASSUME TypeOK, ChatSupported, NEW r \in Requests, DirectStep(r)
    PROVE  TypeOK'
<1> USE HealthAssumption, ForgetType, IdleChatType, FreshRowType DEF TypeOK
<1>n. ASSUME NEW p \in Providers, NextCandidate(r, p), chat[r].tries < MaxAttempts
      PROVE  chat' \in [Requests -> Chat]
    <2>1. chat[r] \in Chat /\ Forget(chat[r]) \in Chat  OBVIOUS
    <2>2. chat[r].tries + 1 \in 0 .. MaxAttempts  BY <1>n, <2>1 DEF Chat
    <2>3. [Forget(chat[r]) EXCEPT !.pc = "try", !.todo = chat[r].todo \ {p},
                                  !.tries = chat[r].tries + 1] \in Chat
        BY <2>1, <2>2 DEF Chat, ChatPC
    <2> QED  BY <1>n, <2>3 DEF NextCandidate
<1>1. CASE SelectCandidates(r)
    <2>1. PICK todo \in {Candidates, {Target}} :
              chat' = [chat EXCEPT ![r] = [@ EXCEPT !.pc = "try", !.todo = todo]]
        BY <1>1 DEF SelectCandidates
    <2>2. todo \subseteq Providers  BY DEF Candidates
    <2>3. [chat[r] EXCEPT !.pc = "try", !.todo = todo] \in Chat  BY <2>2 DEF Chat, ChatPC
    <2> QED  BY <1>1, <2>1, <2>3 DEF SelectCandidates
<1>2. CASE RefuseDirect(r)  BY <1>2 DEF RefuseDirect
<1>3. CASE SkipCandidate(r)
    <2>1. PICK p \in chat[r].todo : NextCandidate(r, p)  BY <1>3 DEF SkipCandidate
    <2>2. p \in Providers  BY <2>1 DEF Chat
    <2> QED  BY <1>3, <2>1, <2>2, <1>n DEF SkipCandidate, TriesLeft
<1>4. CASE CallCandidate(r)
    <2>1. PICK p \in chat[r].todo : 
             chat' = [chat EXCEPT ![r] = [@ EXCEPT !.pc = "calling", !.p = p]]
        BY <1>4 DEF CallCandidate
    <2> QED  BY <1>4, <2>1 DEF CallCandidate, Chat, ChatPC
<1>5. CASE CallEnds(r)
    <2>1. PICK o \in Outcomes(r) \ {"garbled"} :
             chat' = [chat EXCEPT ![r] = [@ EXCEPT !.pc = "update", !.res = o,
                                                   !.snap = conn[chat[r].p]]]
        BY <1>5 DEF CallEnds
    <2>2. o \in Outcome  BY <2>1 DEF Outcomes, Outcome
    <2>3. chat[r].p \in Providers  BY DEF Chat
    <2>4. chat' \in [Requests -> Chat]  BY <2>1, <2>2, <2>3 DEF Chat, ChatPC
    <2> QED  BY <1>5, <2>4 DEF CallEnds
<1>6. CASE WriteLatency(r)
    <2>1. chat[r].p \in Providers /\ chat[r].snap \in Row  BY DEF Chat
    <2>2. conn' \in [Providers -> Row]
        BY <1>6, <2>1, StoreChangesOneRow DEF WriteLatency
    <2>3. chat' \in [Requests -> Chat]  BY <1>6 DEF WriteLatency, Chat, ChatPC
    <2> QED  BY <1>6, <2>2, <2>3 DEF WriteLatency
<1>7. CASE MarkCandidate(r)
    <2> DEFINE p == chat[r].p
    <2>1. p \in Providers  BY DEF Chat
    <2>2. MarkCooldown(conn[p], DirectTicks) \in Row  BY <2>1, RowOperations
    <2>3. conn' \in [Providers -> Row]
        BY <1>7, <2>1, <2>2, StoreForChangesOneRow DEF MarkCandidate
    <2>4. chat[r].tries < MaxAttempts  BY <1>7 DEF MarkCandidate, ChatSupported, ChatGood
    <2>5. chat' \in [Requests -> Chat]  BY <1>7, <2>1, <2>4, <1>n DEF MarkCandidate
    <2> QED  BY <1>7, <2>3, <2>5 DEF MarkCandidate
<1>8. CASE GiveUp(r)  BY <1>8 DEF GiveUp
<1> QED
    BY <1>1, <1>2, <1>3, <1>4, <1>5, <1>6, <1>7, <1>8 DEF DirectStep

LEMMA MonitorType ==
    ASSUME TypeOK, Monitor
    PROVE  TypeOK'
<1> USE FreshRowType DEF TypeOK, IdleCheck
<1>1. CASE CheckAll  BY <1>1 DEF CheckAll
<1>2. ASSUME NEW p \in Providers, Probe(p) PROVE TypeOK'
    <2>2. PICK ok \in BOOLEAN :
             check' = [check EXCEPT ![p] = [pc |-> "record", snap |-> conn[p], ok |-> ok]]
        BY <1>2 DEF Probe
    <2>3. check' \in [Providers ->
                           [pc : {"idle", "probe", "record"}, snap : Row, ok : BOOLEAN]]
        BY <2>2
    <2> QED  BY <1>2, <2>3 DEF Probe
<1>3. ASSUME NEW p \in Providers, ProbeNothing(p) PROVE TypeOK'
    BY <1>3 DEF ProbeNothing
<1>4. ASSUME NEW p \in Providers, Record(p) PROVE TypeOK'
    <2> DEFINE new == IF check[p].ok THEN Succeeded(check[p].snap) ELSE Failed(check[p].snap)
    <2>1. new \in Row  BY RowOperations
    <2>2. Store(p, new)  BY <1>4 DEF Record
    <2>3. conn' \in [Providers -> Row]  BY <2>1, <2>2, StoreChangesOneRow
    <2> QED  BY <1>4, <2>3 DEF Record
<1> QED  BY <1>1, <1>2, <1>3, <1>4 DEF Monitor

LEMMA AdminType ==
    ASSUME TypeOK, Admin
    PROVE  TypeOK'
<1> USE FreshRowType DEF TypeOK, IdleEdit
<1>1. ASSUME NEW p \in Providers, Enable(p) \/ Disable(p) PROVE TypeOK'
    <2>1. PICK s \in {"active", "disabled"} : Store(p, UpdateStatus(conn[p], s))
        BY <1>1 DEF Enable, Disable
    <2>2. UpdateStatus(conn[p], s) \in Row  BY RowOperations
    <2>3. conn' \in [Providers -> Row]  BY <2>1, <2>2, StoreChangesOneRow
    <2> QED  BY <1>1, <2>3 DEF Enable, Disable
<1>2. ASSUME NEW p \in Providers, BeginEdit(p) PROVE TypeOK'
    BY <1>2 DEF BeginEdit
<1>3. ASSUME NEW p \in Providers, EndEdit(p) PROVE TypeOK'
    <2>1. edit[p].snap \in Row  OBVIOUS
    <2>2. Store(p, edit[p].snap) \/ UNCHANGED conn  BY <1>3 DEF EndEdit
    <2>3. conn' \in [Providers -> Row]  BY <2>1, <2>2, StoreChangesOneRow
    <2> QED  BY <1>3, <2>3 DEF EndEdit
<1> QED  BY <1>1, <1>2, <1>3 DEF Admin

LEMMA TickType == TypeOK /\ Tick => TypeOK'
<1> SUFFICES ASSUME TypeOK, Tick PROVE TypeOK'
    OBVIOUS
<1>1. \A row \in Row : Age(row) \in Row  BY RowOperations, HealthAssumption
<1>2. conn' \in [Providers -> Row]  BY <1>1 DEF TypeOK, Tick
<1>3. chat' \in [Requests -> Chat]
    <2>1. \A r \in Requests : chat[r] \in Chat /\ chat[r].snap \in Row  BY DEF TypeOK, Chat
    <2>2. \A r \in Requests : [chat[r] EXCEPT !.snap = Age(chat[r].snap)] \in Chat
        BY <1>1, <2>1, ChatWithSnap
    <2> QED  BY <2>2 DEF Tick
<1>4. check' \in [Providers -> [pc : {"idle", "probe", "record"}, snap : Row, ok : BOOLEAN]]
    BY <1>1 DEF TypeOK, Tick
<1>5. edit' \in [Providers -> [busy : BOOLEAN, snap : Row]]
    BY <1>1 DEF TypeOK, Tick
<1> QED  BY <1>2, <1>3, <1>4, <1>5 DEF TypeOK, Tick

LEMMA NextType ==
    ASSUME TypeOK, ChatSupported, [Next]_vars
    PROVE  TypeOK'
<1>1. ASSUME NEW r \in Requests, StartCombo(r) \/ StartDirect(r) PROVE TypeOK'
    <2>1. IdleChat \in Chat /\ "item" \in ChatPC /\ "select" \in ChatPC
        BY IdleChatType DEF ChatPC
    <2>2. \A pc \in ChatPC : [IdleChat EXCEPT !.pc = pc] \in Chat  BY <2>1 DEF Chat
    <2>3. chat' \in [Requests -> Chat]
        BY <1>1, <2>1, <2>2 DEF TypeOK, StartCombo, StartDirect
    <2> QED  BY <1>1, <2>3 DEF TypeOK, StartCombo, StartDirect
<1>2. ASSUME NEW r \in Requests, Serve(r) PROVE TypeOK'
    BY <1>2, ComboStepType, DirectStepType DEF Serve
<1>3. ASSUME NEW r \in Requests, ClientLeaves(r) PROVE TypeOK'
    <2>1. chat[r] \in Chat  BY DEF TypeOK
    <2>2. [chat[r] EXCEPT !.gone = TRUE] \in Chat  BY <2>1 DEF Chat
    <2>3. chat' \in [Requests -> Chat]  BY <1>3, <2>2 DEF TypeOK, ClientLeaves
    <2> QED  BY <1>3, <2>3 DEF TypeOK, ClientLeaves
<1>4. CASE UNCHANGED vars  BY <1>4 DEF TypeOK, vars
<1> QED  BY <1>1, <1>2, <1>3, <1>4, MonitorType, AdminType, TickType DEF Next

-----------------------------------------------------------------------------
(* Support.                                                                *)

LEMMA SupportedOperations ==
    ASSUME NEW row \in Row, NEW ticks \in Nat
    PROVE  /\ Supported(MarkCooldown(row, ticks))
           /\ Supported(ClearCooldown(row))
           /\ Supported(FreshRow)
           /\ Supported(row) => /\ Supported(UpdateStatus(row, "active"))
                                /\ Supported(UpdateStatus(row, "disabled"))
                                /\ Supported(Age(row))
                                /\ Supported(Succeeded(row))
                                /\ Supported(Failed(row))
<1> USE DEF Supported, NoDeadline, Row, Status
<1>1. Supported(MarkCooldown(row, ticks))  BY DEF MarkCooldown
<1>2. Supported(row) => Supported(Failed(row))
    <2>1. Bump(row.backoff) \in Nat  BY StoreAssumption DEF Bump
    <2>2. HealthTicks * Bump(row.backoff) \in Nat  BY <2>1, HealthAssumption
    <2> QED  BY <2>2 DEF Failed
<1>3. Supported(ClearCooldown(row))  BY DEF ClearCooldown
<1>4. Supported(FreshRow)  BY DEF FreshRow
<1>5. Supported(row) => Supported(UpdateStatus(row, "active"))
                        /\ Supported(UpdateStatus(row, "disabled"))
    BY DEF UpdateStatus
<1>6. Supported(row) => Supported(Age(row))
    <2>1. /\ Age(row).status = row.status
          /\ row.left # -1 => Age(row).left # -1
        BY DEF Age
    <2> QED  BY <2>1
<1>7. Supported(row) => Supported(Succeeded(row))  BY DEF Succeeded
<1> QED  BY <1>1, <1>2, <1>3, <1>4, <1>5, <1>6, <1>7

LEMMA MarkSupported ==
    ASSUME NEW row \in Row, NEW ticks \in Nat
    PROVE  MarkCooldown(row, ticks) \in Row /\ Supported(MarkCooldown(row, ticks))
BY RowOperations, SupportedOperations

LEMMA ConnStored ==
    ASSUME IInv, NEW p \in Providers, NEW row, Supported(row),
           \A q \in Providers : conn'[q] = conn[q] \/ (q = p /\ conn'[q] = row)
    PROVE  ConnSupported'
<1> SUFFICES ASSUME NEW q \in Providers PROVE Supported(conn'[q])
    BY DEF ConnSupported
<1>1. Supported(conn[q])  BY DEF IInv, ConnSupported
<1>2. conn'[q] \in {conn[q], row}  OBVIOUS
<1> QED  BY <1>1, <1>2

LEMMA ConnKept == IInv /\ UNCHANGED conn => ConnSupported'
BY DEF IInv, ConnSupported

LEMMA CheckKept == IInv /\ UNCHANGED check => CheckSupported'
BY DEF IInv, CheckSupported

LEMMA EditKept == IInv /\ UNCHANGED edit => EditSupported'
BY DEF IInv, EditSupported

LEMMA ChatKept == IInv /\ UNCHANGED chat => ChatSupported'
BY DEF IInv, ChatSupported

LEMMA ChatMoves ==
    ASSUME IInv, NEW r \in Requests, NEW c, chat' = [chat EXCEPT ![r] = c], ChatGood(c)
    PROVE  ChatSupported'
<1>1. \A s \in Requests : chat'[s] = IF s = r THEN c ELSE chat[s]
    BY DEF IInv, TypeOK
<1>2. \A s \in Requests : ChatGood(chat[s])
    BY DEF IInv, ChatSupported
<1>3. ASSUME NEW s \in Requests PROVE ChatGood(chat'[s])
    <2>1. chat'[s] \in {c, chat[s]}  BY <1>1
    <2> QED  BY <1>2, <2>1
<1> QED  BY <1>3 DEF ChatSupported

Support == ConnSupported /\ CheckSupported /\ EditSupported /\ ChatSupported

\* A request that is at none of the places ChatGood speaks of is good.
LEMMA ChatElsewhere ==
    ASSUME NEW c, c.pc \notin {"calling", "update", "mark"}
    PROVE  ChatGood(c)
BY DEF ChatGood

LEMMA Moves ==
    ASSUME IInv, NEW r \in Requests
    PROVE  /\ \A o : NextItem(r, o) => ChatSupported'
           /\ ToDirect(r) => ChatSupported'
           /\ \A p : NextCandidate(r, p) => ChatSupported'
           /\ chat' = [chat EXCEPT ![r] = IdleChat] => ChatSupported'
<1> USE DEF IInv
<1>0. chat[r] \in Chat  BY DEF TypeOK
<1>1. ASSUME NEW o, NextItem(r, o) PROVE ChatSupported'
    <2> DEFINE c == [Forget(chat[r]) EXCEPT !.pc = "item", !.res = o,
                                            !.item = chat[r].item + 1]
    <2>1. c.pc = "item"  BY <1>0 DEF Forget, Chat
    <2>2. ChatGood(c)  BY <2>1, ChatElsewhere
    <2> QED  BY <1>1, <2>2, ChatMoves DEF NextItem
<1>2. ToDirect(r) => ChatSupported'
    <2> DEFINE c == [Forget(chat[r]) EXCEPT !.pc = "select", !.item = 1]
    <2>1. c.pc = "select"  BY <1>0 DEF Forget, Chat
    <2>2. ChatGood(c)  BY <2>1, ChatElsewhere
    <2> QED  BY <2>2, ChatMoves DEF ToDirect
<1>3. ASSUME NEW p, NextCandidate(r, p) PROVE ChatSupported'
    <2> DEFINE c == [Forget(chat[r]) EXCEPT !.pc = "try", !.todo = chat[r].todo \ {p},
                                            !.tries = chat[r].tries + 1]
    <2>1. c.pc = "try"  BY <1>0 DEF Forget, Chat
    <2>2. ChatGood(c)  BY <2>1, ChatElsewhere
    <2> QED  BY <1>3, <2>2, ChatMoves DEF NextCandidate
<1>4. chat' = [chat EXCEPT ![r] = IdleChat] => ChatSupported'
    <2>1. IdleChat.pc = "idle"  BY DEF IdleChat
    <2>2. ChatGood(IdleChat)  BY <2>1, ChatElsewhere
    <2> QED  BY <2>2, ChatMoves
<1> QED  BY <1>1, <1>2, <1>3, <1>4

LEMMA ComboStepSupport ==
    ASSUME IInv, NEW r \in Requests, ComboStep(r)
    PROVE  Support'
<1> USE DEF Support
<1>c. chat[r] \in Chat /\ chat[r].p \in Providers  BY DEF IInv, TypeOK, Chat
<1>1. CASE CallItem(r)
    <2> DEFINE p == ComboItems[chat[r].item]
               c == [chat[r] EXCEPT !.pc = "itemCall", !.p = p, !.snap = conn[p], !.res = "ok"]
    <2>1. c.pc = "itemCall"  BY <1>c DEF Chat
    <2>2. ChatGood(c)  BY <2>1, ChatElsewhere
    <2>3. UNCHANGED <<conn, check, edit>> /\ chat' = [chat EXCEPT ![r] = c]
        BY <1>1 DEF CallItem
    <2>4. ChatSupported'  BY <2>2, <2>3, ChatMoves
    <2> QED  BY <2>3, <2>4, ConnKept, CheckKept, EditKept
<1>2. CASE SkipItem(r) \/ ItemGarbled(r)
    <2>1. UNCHANGED <<conn, check, edit>> /\ \E o : NextItem(r, o)
        BY <1>2 DEF SkipItem, ItemGarbled
    <2> QED  BY <2>1, Moves, ConnKept, CheckKept, EditKept
<1>3. CASE ItemUnavailable(r)
    <2> DEFINE p == chat[r].p
               new == MarkCooldown(conn[p], ComboCooldown(chat[r].snap))
    <2>1. conn[p] \in Row /\ chat[r].snap \in Row /\ conn \in [Providers -> Row]
        BY <1>c DEF IInv, TypeOK, Chat
    <2>2. ComboCooldown(chat[r].snap) \in Nat  BY <2>1, RowOperations, HealthAssumption
    <2>3. new \in Row /\ Supported(new)  BY <2>1, <2>2, MarkSupported
    <2>4. Store(p, new)  BY <1>3 DEF ItemUnavailable
    <2>5. \A q \in Providers : conn'[q] = conn[q] \/ (q = p /\ conn'[q] = new)
        BY <1>c, <2>1, <2>3, <2>4, StoreChangesOneRow
    <2>6. ConnSupported'  BY <1>c, <2>3, <2>5, ConnStored
    <2>7. (\E o : NextItem(r, o)) /\ UNCHANGED <<check, edit>>
        BY <1>3 DEF ItemUnavailable
    <2> QED  BY <2>6, <2>7, Moves, CheckKept, EditKept
<1>4. CASE ItemRejected(r) \/ ComboExhausted(r)
    <2>1. UNCHANGED <<conn, check, edit>> /\ ToDirect(r)
        BY <1>4 DEF ItemRejected, ComboExhausted
    <2> QED  BY <2>1, Moves, ConnKept, CheckKept, EditKept
<1>5. CASE ItemOk(r)
    <2> DEFINE p == chat[r].p
               new == ClearCooldown(conn[p])
    <2>1. conn[p] \in Row /\ conn \in [Providers -> Row]  BY <1>c DEF IInv, TypeOK
    <2>2. 0 \in Nat  OBVIOUS
    <2>3. new \in Row /\ Supported(new)
        BY <2>1, <2>2, RowOperations, SupportedOperations
    <2>4. StoreFor(r, p, new)  BY <1>5 DEF ItemOk
    <2>5. \A q \in Providers : conn'[q] = conn[q] \/ (q = p /\ conn'[q] = new)
        BY <1>c, <2>1, <2>3, <2>4, StoreForChangesOneRow
    <2>6. UNCHANGED <<check, edit>> /\ chat' = [chat EXCEPT ![r] = IdleChat]
        BY <1>5 DEF ItemOk
    <2>7. ConnSupported'  BY <1>c, <2>3, <2>5, <2>6, ConnStored
    <2> QED  BY <2>6, <2>7, Moves, CheckKept, EditKept
<1> QED  BY <1>1, <1>2, <1>3, <1>4, <1>5 DEF ComboStep

LEMMA DirectStepSupport ==
    ASSUME IInv, NEW r \in Requests, DirectStep(r)
    PROVE  Support'
<1> USE DEF Support
<1>c. chat[r] \in Chat /\ chat[r].p \in Providers  BY DEF IInv, TypeOK, Chat
<1>s. chat[r].snap \in Row /\ ChatGood(chat[r])
    BY <1>c DEF IInv, ChatSupported, Chat
<1>t. conn \in [Providers -> Row] /\ conn[chat[r].p] \in Row  BY <1>c DEF IInv, TypeOK
<1>1. CASE SelectCandidates(r)
    <2>0. PICK todo : chat' = [chat EXCEPT ![r] = [@ EXCEPT !.pc = "try", !.todo = todo]]
        BY <1>1 DEF SelectCandidates
    <2> DEFINE c == [chat[r] EXCEPT !.pc = "try", !.todo = todo]
    <2>1. c.pc = "try"  BY <1>c DEF Chat
    <2>2. ChatGood(c)  BY <2>1, ChatElsewhere
    <2>3. UNCHANGED <<conn, check, edit>> /\ chat' = [chat EXCEPT ![r] = c]
        BY <1>1, <2>0 DEF SelectCandidates
    <2>4. ChatSupported'  BY <2>2, <2>3, ChatMoves
    <2> QED  BY <2>3, <2>4, ConnKept, CheckKept, EditKept
<1>2. CASE RefuseDirect(r) \/ GiveUp(r)
    <2>1. UNCHANGED <<conn, check, edit>> /\ chat' = [chat EXCEPT ![r] = IdleChat]
        BY <1>2 DEF RefuseDirect, GiveUp
    <2> QED  BY <2>1, Moves, ConnKept, CheckKept, EditKept
<1>3. CASE SkipCandidate(r)
    <2>1. UNCHANGED <<conn, check, edit>>
        BY <1>3 DEF SkipCandidate
    <2>2. PICK p \in chat[r].todo : NextCandidate(r, p)  BY <1>3 DEF SkipCandidate
    <2> QED  BY <2>1, <2>2, Moves, ConnKept, CheckKept, EditKept
<1>4. CASE CallCandidate(r)
    <2>1. PICK p \in chat[r].todo :
             chat' = [chat EXCEPT ![r] = [@ EXCEPT !.pc = "calling", !.p = p]]
        BY <1>4 DEF CallCandidate
    <2> DEFINE c == [chat[r] EXCEPT !.pc = "calling", !.p = p]
    <2>2. c.pc = "calling" /\ c.tries < MaxAttempts
        BY <1>c, <1>4 DEF CallCandidate, TriesLeft, Chat
    <2>3. ChatGood(c)  BY <2>2 DEF ChatGood
    <2>4. UNCHANGED <<conn, check, edit>>  BY <1>4 DEF CallCandidate
    <2>5. chat' = [chat EXCEPT ![r] = c]  BY <2>1
    <2>6. ChatSupported'  BY <2>3, <2>4, <2>5, ChatMoves
    <2> QED  BY <2>4, <2>6, ConnKept, CheckKept, EditKept
<1>5. CASE CallEnds(r)
    <2> DEFINE p == chat[r].p
    <2>1. PICK o \in Outcomes(r) \ {"garbled"} :
             chat' = [chat EXCEPT ![r] = [@ EXCEPT !.pc = "update", !.res = o,
                                                   !.snap = conn[chat[r].p]]]
        BY <1>5 DEF CallEnds
    <2> DEFINE c == [chat[r] EXCEPT !.pc = "update", !.res = o, !.snap = conn[p]]
    <2>2. o = "abort" => chat[r].gone  BY <2>1 DEF Outcomes
    <2>3. Supported(conn[p])  BY <1>c DEF IInv, ConnSupported
    <2>4. /\ c.pc = "update" /\ c.res = o /\ c.snap = conn[p]
          /\ c.tries = chat[r].tries /\ c.gone = chat[r].gone
        BY <1>c DEF Chat
    <2>5. chat[r].tries < MaxAttempts  BY <1>5, <1>s DEF CallEnds, ChatGood
    <2>6. ChatGood(c)  BY <2>2, <2>3, <2>4, <2>5 DEF ChatGood
    <2>7. chat' = [chat EXCEPT ![r] = c]  BY <2>1
    <2>8. ChatSupported'  BY <2>6, <2>7, ChatMoves
    <2>9. UNCHANGED <<conn, check, edit>>  BY <1>5 DEF CallEnds
    <2> QED  BY <2>8, <2>9, ConnKept, CheckKept, EditKept
<1>6. CASE WriteLatency(r)
    <2> DEFINE p == chat[r].p
    <2>1. UNCHANGED <<check, edit>>  BY <1>6 DEF WriteLatency
    <2>2. chat[r].pc = "update" /\ Store(p, chat[r].snap)  BY <1>6 DEF WriteLatency
    <2>3. Supported(chat[r].snap)  BY <1>s, <2>2 DEF ChatGood
    <2>4. \A q \in Providers : conn'[q] = conn[q] \/ (q = p /\ conn'[q] = chat[r].snap)
        BY <1>c, <1>s, <1>t, <2>2, StoreChangesOneRow
    <2>5. ConnSupported'  BY <1>c, <2>1, <2>3, <2>4, ConnStored
    <2>6. CASE Unavailable(chat[r].res)
        <3> DEFINE c == [chat[r] EXCEPT !.pc = "mark", !.snap = FreshRow]
        <3>1. /\ c.pc = "mark" /\ c.res = chat[r].res
              /\ c.tries = chat[r].tries /\ c.gone = chat[r].gone
            BY <1>c DEF Chat
        <3>2. chat[r].tries < MaxAttempts /\ (chat[r].res = "abort" => chat[r].gone)
            BY <1>s, <2>2 DEF ChatGood
        <3>3. ChatGood(c)  BY <2>6, <3>1, <3>2 DEF ChatGood
        <3>4. chat' = [chat EXCEPT ![r] = c]  BY <1>6, <2>6 DEF WriteLatency
        <3>5. ChatSupported'  BY <2>1, <3>3, <3>4, ChatMoves
        <3> QED  BY <2>1, <2>5, <3>5, CheckKept, EditKept
    <2>7. CASE ~Unavailable(chat[r].res)
        <3>1. chat' = [chat EXCEPT ![r] = IdleChat]  BY <1>6, <2>7 DEF WriteLatency
        <3> QED  BY <2>1, <2>5, <3>1, Moves, CheckKept, EditKept
    <2> QED  BY <2>6, <2>7
<1>7. CASE MarkCandidate(r)
    <2> DEFINE p == chat[r].p
               new == MarkCooldown(conn[p], DirectTicks)
    <2>1. UNCHANGED <<check, edit>>  BY <1>7 DEF MarkCandidate
    <2>3. DirectTicks \in Nat  BY HealthAssumption
    <2>4. new \in Row /\ Supported(new)  BY <1>t, <2>3, MarkSupported
    <2>5. StoreFor(r, p, new) /\ NextCandidate(r, p)  BY <1>7 DEF MarkCandidate
    <2>6. \A q \in Providers : conn'[q] = conn[q] \/ (q = p /\ conn'[q] = new)
        BY <1>c, <1>t, <2>4, <2>5, StoreForChangesOneRow
    <2>7. ConnSupported'  BY <1>c, <2>1, <2>4, <2>6, ConnStored
    <2> QED  BY <2>1, <2>5, <2>7, Moves, CheckKept, EditKept
<1> QED
    BY <1>1, <1>2, <1>3, <1>4, <1>5, <1>6, <1>7 DEF DirectStep

LEMMA MonitorSupport ==
    ASSUME IInv, Monitor
    PROVE  Support'
<1> USE DEF Support
<1>t. /\ conn \in [Providers -> Row]
      /\ check \in [Providers -> [pc : {"idle", "probe", "record"}, snap : Row, ok : BOOLEAN]]
    BY DEF IInv, TypeOK
<1>1. CASE CheckAll
    <2>1. \A q \in Providers : check'[q].pc # "record"
        BY <1>1 DEF CheckAll, IdleCheck
    <2>2. CheckSupported'  BY <2>1 DEF CheckSupported
    <2>3. UNCHANGED <<conn, chat, edit>>  BY <1>1 DEF CheckAll
    <2> QED  BY <2>2, <2>3, ConnKept, ChatKept, EditKept
<1>2. ASSUME NEW p \in Providers, Probe(p) PROVE Support'
    <2>1. PICK ok \in BOOLEAN :
             check' = [check EXCEPT ![p] = [pc |-> "record", snap |-> conn[p], ok |-> ok]]
        BY <1>2 DEF Probe
    <2>2. \A q \in Providers :
              check'[q] = IF q = p THEN [pc |-> "record", snap |-> conn[p], ok |-> ok]
                          ELSE check[q]
        BY <1>t, <2>1
    <2>3. CheckSupported'
        BY <2>2 DEF IInv, CheckSupported, ConnSupported
    <2>4. UNCHANGED <<conn, chat, edit>>  BY <1>2 DEF Probe
    <2> QED  BY <2>3, <2>4, ConnKept, ChatKept, EditKept
<1>3. ASSUME NEW p \in Providers, check' = [check EXCEPT ![p] = IdleCheck]
      PROVE  CheckSupported'
    <2>1. \A q \in Providers : check'[q].pc = "record" => check'[q] = check[q]
        BY <1>t, <1>3 DEF IdleCheck
    <2> QED  BY <1>3, <2>1 DEF IInv, CheckSupported
<1>4. ASSUME NEW p \in Providers, ProbeNothing(p) PROVE Support'
    BY <1>4, <1>3, ConnKept, ChatKept, EditKept DEF ProbeNothing
<1>5. ASSUME NEW p \in Providers, Record(p) PROVE Support'
    <2> DEFINE new == IF check[p].ok THEN Succeeded(check[p].snap) ELSE Failed(check[p].snap)
    <2>1. check[p].snap \in Row /\ 0 \in Nat  BY <1>t
    <2>2. /\ UNCHANGED <<chat, edit>> /\ check[p].pc = "record" /\ Store(p, new)
          /\ check' = [check EXCEPT ![p] = IdleCheck]
        BY <1>5 DEF Record
    <2>3. Supported(check[p].snap)  BY <2>2 DEF IInv, CheckSupported
    <2>4. Supported(new)  BY <2>1, <2>3, SupportedOperations
    <2>5. new \in Row  BY <2>1, RowOperations
    <2>6. \A q \in Providers : conn'[q] = conn[q] \/ (q = p /\ conn'[q] = new)
        BY <1>t, <2>2, <2>5, StoreChangesOneRow
    <2>7. ConnSupported'  BY <2>4, <2>6, ConnStored
    <2> QED  BY <1>3, <2>2, <2>7, ChatKept, EditKept
<1> QED  BY <1>1, <1>2, <1>4, <1>5 DEF Monitor

LEMMA AdminSupport ==
    ASSUME IInv, Admin
    PROVE  Support'
<1> USE DEF Support
<1>t. conn \in [Providers -> Row] /\ edit \in [Providers -> [busy : BOOLEAN, snap : Row]]
    BY DEF IInv, TypeOK
<1>1. ASSUME NEW p \in Providers, Enable(p) \/ Disable(p) PROVE Support'
    <2>1. PICK s \in {"active", "disabled"} : Store(p, UpdateStatus(conn[p], s))
        BY <1>1 DEF Enable, Disable
    <2>2. UNCHANGED <<chat, check, edit>>
        BY <1>1 DEF Enable, Disable
    <2>3. conn[p] \in Row /\ 0 \in Nat  BY <1>t
    <2>4. UpdateStatus(conn[p], s) \in Row  BY <2>3, RowOperations
    <2>5. Supported(conn[p])  BY DEF IInv, ConnSupported
    <2>6. Supported(UpdateStatus(conn[p], s))
        BY <2>2, <2>3, <2>5, SupportedOperations
    <2>7. \A q \in Providers :
              conn'[q] = conn[q] \/ (q = p /\ conn'[q] = UpdateStatus(conn[p], s))
        BY <1>t, <2>1, <2>4, StoreChangesOneRow
    <2>8. ConnSupported'  BY <2>2, <2>6, <2>7, ConnStored
    <2> QED  BY <2>2, <2>8, ChatKept, CheckKept, EditKept
<1>2. ASSUME NEW p \in Providers, BeginEdit(p) PROVE Support'
    <2>1. UNCHANGED <<conn, chat, check>>  BY <1>2 DEF BeginEdit
    <2>2. \A q \in Providers :
              edit'[q] = IF q = p THEN [busy |-> TRUE, snap |-> conn[p]] ELSE edit[q]
        BY <1>2, <1>t DEF BeginEdit
    <2>3. EditSupported'
        BY <2>1, <2>2 DEF IInv, EditSupported, ConnSupported
    <2> QED  BY <2>1, <2>3, ConnKept, ChatKept, CheckKept
<1>3. ASSUME NEW p \in Providers, EndEdit(p) PROVE Support'
    <2>1. UNCHANGED <<chat, check>> /\ edit[p].busy
        BY <1>3 DEF EndEdit
    <2>2. \A q \in Providers : edit'[q] = IF q = p THEN IdleEdit ELSE edit[q]
        BY <1>3, <1>t DEF EndEdit
    <2>3. EditSupported'
        BY <2>1, <2>2 DEF IInv, EditSupported, IdleEdit
    <2>4. edit[p].snap \in Row /\ Supported(edit[p].snap)
        BY <1>t, <2>1 DEF IInv, EditSupported
    <2>5. \A q \in Providers : conn'[q] = conn[q] \/ (q = p /\ conn'[q] = edit[p].snap)
        BY <1>3, <1>t, <2>4, StoreChangesOneRow DEF EndEdit
    <2>6. ConnSupported'  BY <2>1, <2>4, <2>5, ConnStored
    <2> QED  BY <2>1, <2>3, <2>6, ChatKept, CheckKept
<1> QED  BY <1>1, <1>2, <1>3 DEF Admin

LEMMA TickSupport ==
    ASSUME IInv, Tick
    PROVE  Support'
<1>1. \A row \in Row : Supported(row) => Supported(Age(row))
    <2>1. 0 \in Nat  OBVIOUS
    <2> QED  BY <2>1, SupportedOperations
<1>2. ConnSupported'
    BY <1>1 DEF IInv, TypeOK, ConnSupported, Tick
<1>3. CheckSupported'
    <2>1. \A p \in Providers : /\ check'[p].pc = check[p].pc
                               /\ check'[p].snap = Age(check[p].snap) /\ check[p].snap \in Row
        BY DEF IInv, TypeOK, Tick
    <2> QED  BY <1>1, <2>1 DEF IInv, CheckSupported, Tick
<1>4. EditSupported'
    <2>1. \A p \in Providers : /\ edit'[p].busy = edit[p].busy
                               /\ edit'[p].snap = Age(edit[p].snap) /\ edit[p].snap \in Row
        BY DEF IInv, TypeOK, Tick
    <2> QED  BY <1>1, <2>1 DEF IInv, EditSupported, Tick
<1>5. ChatSupported'
    <2> SUFFICES ASSUME NEW r \in Requests PROVE ChatGood(chat'[r])
        BY DEF ChatSupported
    <2>1. chat[r] \in Chat /\ chat'[r] = [chat[r] EXCEPT !.snap = Age(chat[r].snap)]
        BY DEF IInv, TypeOK, Tick
    <2>2. /\ chat'[r].pc = chat[r].pc /\ chat'[r].tries = chat[r].tries
          /\ chat'[r].res = chat[r].res /\ chat'[r].gone = chat[r].gone
          /\ chat'[r].snap = Age(chat[r].snap) /\ chat[r].snap \in Row
        BY <2>1 DEF Chat
    <2>3. ChatGood(chat[r])  BY DEF IInv, ChatSupported
    <2> QED  BY <1>1, <2>2, <2>3 DEF ChatGood
<1> QED  BY <1>2, <1>3, <1>4, <1>5 DEF Support

-----------------------------------------------------------------------------
(* The theorems.                                                           *)

LEMMA InitInv == Init => IInv
<1> SUFFICES ASSUME Init PROVE IInv
    OBVIOUS
<1>1. TypeOK  BY InitType
<1>2. ConnSupported  BY DEF Init, ConnSupported, Supported, FreshRow
<1>3. CheckSupported /\ EditSupported
    BY DEF Init, CheckSupported, EditSupported, IdleCheck, IdleEdit
<1>4. ChatSupported  BY DEF Init, ChatSupported, ChatGood, IdleChat
<1> QED  BY <1>1, <1>2, <1>3, <1>4 DEF IInv

LEMMA StepSupport ==
    ASSUME IInv, [Next]_vars
    PROVE  Support'
<1>2. ASSUME NEW r \in Requests, StartCombo(r) \/ StartDirect(r) PROVE Support'
    <2>1. PICK pc \in {"item", "select"} :
              chat' = [chat EXCEPT ![r] = [IdleChat EXCEPT !.pc = pc]]
        BY <1>2 DEF StartCombo, StartDirect
    <2>2. ChatGood([IdleChat EXCEPT !.pc = pc])  BY DEF ChatGood, IdleChat
    <2>3. UNCHANGED <<conn, check, edit>>
        BY <1>2 DEF StartCombo, StartDirect
    <2>4. ChatSupported'  BY <2>1, <2>2, <2>3, ChatMoves
    <2> QED  BY <2>3, <2>4, ConnKept, CheckKept, EditKept DEF Support
<1>3. ASSUME NEW r \in Requests, ClientLeaves(r) PROVE Support'
    <2> DEFINE c == [chat[r] EXCEPT !.gone = TRUE]
    <2>1. UNCHANGED <<conn, check, edit>> /\ chat' = [chat EXCEPT ![r] = c]
        BY <1>3 DEF ClientLeaves
    <2>2. chat[r] \in Chat  BY DEF IInv, TypeOK
    <2>3. /\ c.pc = chat[r].pc /\ c.tries = chat[r].tries /\ c.snap = chat[r].snap
          /\ c.res = chat[r].res /\ c.gone
        BY <2>2 DEF Chat
    <2>4. ChatGood(chat[r])  BY DEF IInv, ChatSupported
    <2>5. ChatGood(c)  BY <2>3, <2>4 DEF ChatGood
    <2>6. ChatSupported'  BY <2>1, <2>5, ChatMoves
    <2> QED  BY <2>1, <2>6, ConnKept, CheckKept, EditKept DEF Support
<1>4. CASE UNCHANGED vars
    <2>1. UNCHANGED <<conn, chat, check, edit>>  BY <1>4 DEF vars
    <2> QED  BY <2>1, ConnKept, CheckKept, EditKept, ChatKept DEF Support
<1>5. ASSUME NEW r \in Requests, Serve(r) PROVE Support'
    BY <1>5, ComboStepSupport, DirectStepSupport DEF Serve
<1>6. CASE Monitor  BY <1>6, MonitorSupport
<1>7. CASE Admin  BY <1>7, AdminSupport
<1>8. CASE Tick  BY <1>8, TickSupport
<1> QED  BY <1>2, <1>3, <1>4, <1>5, <1>6, <1>7, <1>8 DEF Next

LEMMA StepInv == IInv /\ [Next]_vars => IInv'
<1> SUFFICES ASSUME IInv, [Next]_vars PROVE IInv'
    OBVIOUS
<1>1. TypeOK'  BY NextType DEF IInv
<1>2. Support'  BY StepSupport
<1> QED  BY <1>1, <1>2 DEF IInv, Support

\* Types, for any providers, requests, combo, durations and thresholds.
THEOREM TypeCorrect == Spec => []TypeOK
<1>1. IInv => TypeOK  BY DEF IInv
<1> QED  BY InitInv, StepInv, <1>1, PTL DEF Spec

\* However reads and whole-row writes interleave, no row is ever in cooldown
\* without a deadline.
THEOREM DeadlineAlwaysSet == Spec => []CooldownHasDeadline
<1>1. IInv => CooldownHasDeadline
    BY DEF IInv, ConnSupported, Supported, CooldownHasDeadline
<1> QED  BY InitInv, StepInv, <1>1, PTL DEF Spec

-----------------------------------------------------------------------------
(* Who makes a row active again.                                           *)

\* A statement that left row q active was about q, and made it so.
LEMMA StoredActive ==
    ASSUME IInv, NEW p \in Providers, NEW row \in Row, Store(p, row),
           NEW q \in Providers, conn[q].status # "active", conn'[q].status = "active"
    PROVE  p = q /\ conn'[q] = row /\ row.status = "active"
<1>1. \A o \in Providers : conn'[o] = conn[o] \/ (o = p /\ conn'[o] = row)
    BY StoreChangesOneRow DEF IInv, TypeOK
<1> QED  BY <1>1

\* A row that was not active is made so by a success, by the administrator, or by a copy
\* that was active, or in a cooldown that has passed.
LEMMA ActiveAgain ==
    ASSUME IInv, Next,
           NEW q \in Providers, conn[q].status # "active", conn'[q].status = "active"
    PROVE  SuccessOf(q) \/ EnabledByAdmin(q) \/ (StaleCopy(q) /\ CopyNotDisabled(q))
<1>t. /\ \A p \in Providers : conn[p] \in Row /\ check[p].snap \in Row /\ edit[p].snap \in Row
      /\ \A r \in Requests : chat[r].p \in Providers /\ chat[r].snap \in Row
    BY DEF IInv, TypeOK, Chat
<1>c. conn'[q] # conn[q]  OBVIOUS
<1>m. ASSUME NEW row \in Row, NEW ticks \in Nat
      PROVE  MarkCooldown(row, ticks) \in Row /\ MarkCooldown(row, ticks).status = "cooldown"
    BY RowOperations DEF MarkCooldown
<1>1. ASSUME NEW r \in Requests, ItemUnavailable(r) PROVE FALSE
    <2>1. ComboCooldown(chat[r].snap) \in Nat  BY <1>t, RowOperations
    <2>2. Store(chat[r].p, MarkCooldown(conn[chat[r].p], ComboCooldown(chat[r].snap)))
        BY <1>1 DEF ItemUnavailable
    <2> QED  BY <1>t, <1>m, <2>1, <2>2, StoredActive
<1>2. ASSUME NEW r \in Requests, ItemOk(r) PROVE SuccessOf(q)
    <2>1. Store(chat[r].p, ClearCooldown(conn[chat[r].p]))
        BY <1>2, <1>c DEF ItemOk, StoreFor
    <2>2. ClearCooldown(conn[chat[r].p]) \in Row
        BY <1>t, RowOperations, HealthAssumption
    <2>3. chat[r].p = q  BY <1>t, <2>1, <2>2, StoredActive
    <2> QED  BY <1>2, <2>3 DEF ItemOk, SuccessOf
<1>3. ASSUME NEW r \in Requests, WriteLatency(r) PROVE StaleCopy(q) /\ CopyNotDisabled(q)
    <2>1. Store(chat[r].p, chat[r].snap) /\ chat[r].pc = "update"
        BY <1>3 DEF WriteLatency
    <2>2. chat[r].p = q /\ chat[r].snap.status = "active"
        BY <1>t, <2>1, StoredActive
    <2> QED  BY <2>1, <2>2 DEF StaleCopy, CopyNotDisabled, CoolingDown
<1>4. ASSUME NEW r \in Requests, MarkCandidate(r) PROVE FALSE
    <2>1. Store(chat[r].p, MarkCooldown(conn[chat[r].p], DirectTicks))
        BY <1>4, <1>c DEF MarkCandidate, StoreFor
    <2>2. DirectTicks \in Nat  BY HealthAssumption
    <2> QED  BY <1>t, <1>m, <2>1, <2>2, StoredActive
<1>5. ASSUME NEW p \in Providers, Record(p) PROVE StaleCopy(q) /\ CopyNotDisabled(q)
    <2> DEFINE snap == check[p].snap
               row == IF check[p].ok THEN Succeeded(snap) ELSE Failed(snap)
    <2>1. Store(p, row) /\ check[p].pc = "record"  BY <1>5 DEF Record
    <2>2. snap \in Row /\ row \in Row  BY <1>t, RowOperations, HealthAssumption
    <2>3. row.status = "active" =>
              snap.status = "active" \/ (snap.status = "cooldown" /\ snap.left = 0)
        BY <2>2 DEF Succeeded, Failed, Row
    <2> HIDE DEF row
    <2>4. p = q /\ row.status = "active"  BY <2>1, <2>2, StoredActive
    <2>5. ~CoolingDown(snap) /\ snap.status # "disabled"
        BY <2>3, <2>4 DEF CoolingDown
    <2> QED  BY <2>1, <2>4, <2>5 DEF StaleCopy, CopyNotDisabled
<1>6. ASSUME NEW p \in Providers, Enable(p) \/ Disable(p) PROVE EnabledByAdmin(q)
    <2>1. PICK s \in {"active", "disabled"} : Store(p, UpdateStatus(conn[p], s))
        BY <1>6 DEF Enable, Disable
    <2>2. UpdateStatus(conn[p], s) \in Row  BY <1>t, RowOperations, HealthAssumption
    <2>3. /\ p = q /\ conn'[q] = UpdateStatus(conn[p], s)
          /\ UpdateStatus(conn[p], s).status = "active"
        BY <2>1, <2>2, StoredActive
    <2>4. s = "active"  BY <1>t, <2>3 DEF UpdateStatus, Row
    <2> QED  BY <2>3, <2>4 DEF EnabledByAdmin
<1>7. ASSUME NEW p \in Providers, EndEdit(p) PROVE StaleCopy(q) /\ CopyNotDisabled(q)
    <2>1. edit[p].busy /\ Store(p, edit[p].snap)  BY <1>7, <1>c DEF EndEdit
    <2>2. p = q /\ edit[p].snap.status = "active"  BY <1>t, <2>1, StoredActive
    <2> QED  BY <2>1, <2>2 DEF StaleCopy, CopyNotDisabled, CoolingDown
<1>8. ASSUME Tick PROVE FALSE
    <2>1. conn'[q] = Age(conn[q])  BY <1>8 DEF Tick
    <2> QED  BY <1>t, <2>1 DEF Age, Row
<1>9. ASSUME NEW r \in Requests,
             \/ StartCombo(r) \/ StartDirect(r) \/ ClientLeaves(r)
             \/ CallItem(r) \/ SkipItem(r) \/ ItemGarbled(r) \/ ItemRejected(r)
             \/ ComboExhausted(r) \/ SelectCandidates(r) \/ RefuseDirect(r)
             \/ SkipCandidate(r) \/ CallCandidate(r) \/ CallEnds(r) \/ GiveUp(r)
      PROVE  FALSE
    BY <1>9, <1>c
       DEF StartCombo, StartDirect, ClientLeaves, CallItem, SkipItem, ItemGarbled,
           ItemRejected, ComboExhausted, SelectCandidates, RefuseDirect, SkipCandidate,
           CallCandidate, CallEnds, GiveUp
<1>10. ASSUME NEW p \in Providers,
              CheckAll \/ Probe(p) \/ ProbeNothing(p) \/ BeginEdit(p)
       PROVE  FALSE
    BY <1>10, <1>c DEF CheckAll, Probe, ProbeNothing, BeginEdit
<1>11. ~CheckAll  BY <1>c DEF CheckAll
<1> QED
    BY <1>1, <1>2, <1>3, <1>4, <1>5, <1>6, <1>7, <1>8, <1>9, <1>10, <1>11
       DEF Next, Serve, ComboStep, DirectStep, Monitor, Admin

\* An unexpired cooldown ends early only by a success, the administrator, or a copy of
\* the row from before it, whatever reads and writes interleave.
THEOREM CooldownsLiftedByTheNamed == Spec => CooldownLiftedOnlyBy
<1>1. IInv /\ [Next]_vars =>
          [\A p \in Providers : CoolingDown(conn[p]) /\ conn'[p].status = "active"
               => SuccessOf(p) \/ EnabledByAdmin(p) \/ StaleCopy(p)]_vars
    BY ActiveAgain DEF CoolingDown
<1> QED  BY InitInv, StepInv, <1>1, PTL DEF Spec, CooldownLiftedOnlyBy

\* A disabled provider serves again only by the administrator, by a success that does
\* not look at the status, or by a copy of the row from before it was disabled.
THEOREM DisabledLeftByTheNamed == Spec => DisabledLeftOnlyBy
<1>1. IInv /\ [Next]_vars =>
          [\A p \in Providers : conn[p].status = "disabled" /\ conn'[p].status = "active"
               => SuccessOf(p) \/ EnabledByAdmin(p) \/ CopyNotDisabled(p)]_vars
    BY ActiveAgain
<1> QED  BY InitInv, StepInv, <1>1, PTL DEF Spec, DisabledLeftOnlyBy

-----------------------------------------------------------------------------
(* Who takes a provider out of rotation.                                   *)

\* A statement that left row q in cooldown was about q, and put it there.
LEMMA PutInCooldown ==
    ASSUME IInv, NEW p \in Providers, NEW row \in Row, Store(p, row),
           NEW q \in Providers, conn[q].status # "cooldown", conn'[q].status = "cooldown"
    PROVE  p = q /\ row.status = "cooldown"
<1>1. \A o \in Providers : conn'[o] = conn[o] \/ (o = p /\ conn'[o] = row)
    BY StoreChangesOneRow DEF IInv, TypeOK
<1> QED  BY <1>1

LEMMA CooledBy ==
    ASSUME IInv, Next,
           NEW q \in Providers, conn[q].status # "cooldown", conn'[q].status = "cooldown"
    PROVE  ComboFailed(q) \/ DirectFailed(q) \/ ProbesFailed(q) \/ CopyInCooldown(q)
<1>t. /\ \A p \in Providers : conn[p] \in Row /\ check[p].snap \in Row /\ edit[p].snap \in Row
      /\ \A r \in Requests :
             chat[r] \in Chat /\ chat[r].p \in Providers /\ chat[r].snap \in Row
    BY DEF IInv, TypeOK, Chat
<1>c. conn'[q] # conn[q]  OBVIOUS
<1>1. ASSUME NEW r \in Requests, ItemUnavailable(r) PROVE ComboFailed(q)
    <2> DEFINE row == MarkCooldown(conn[chat[r].p], ComboCooldown(chat[r].snap))
    <2>1. row \in Row  BY <1>t, RowOperations
    <2>2. chat[r].pc = "itemCall" /\ Store(chat[r].p, row)  BY <1>1 DEF ItemUnavailable
    <2>3. chat[r].p = q  BY <1>t, <2>1, <2>2, PutInCooldown
    <2>4. PICK o \in Outcomes(r) : Unavailable(o) /\ NextItem(r, o)
        BY <1>1 DEF ItemUnavailable
    <2>5. o \in Outcome  BY <2>4 DEF Outcomes, Outcome
    <2>6. Forget(chat[r]) \in Chat  BY <1>t, ForgetType
    <2>7. chat'[r] = [Forget(chat[r]) EXCEPT !.pc = "item", !.res = o,
                                             !.item = chat[r].item + 1]
        BY <2>4 DEF NextItem, IInv, TypeOK
    <2>8. chat'[r].pc = "item" /\ chat'[r].res = o  BY <2>6, <2>7 DEF Chat
    <2> QED  BY <2>2, <2>3, <2>4, <2>8 DEF ComboFailed, Unavailable
<1>2. ASSUME NEW r \in Requests, ItemOk(r) PROVE FALSE
    <2> DEFINE row == ClearCooldown(conn[chat[r].p])
    <2>1. row \in Row /\ row.status = "active"
        BY <1>t, RowOperations, HealthAssumption DEF ClearCooldown
    <2>2. Store(chat[r].p, row)  BY <1>2, <1>c DEF ItemOk, StoreFor
    <2> QED  BY <1>t, <2>1, <2>2, PutInCooldown
<1>3. ASSUME NEW r \in Requests, WriteLatency(r) PROVE CopyInCooldown(q)
    <2>1. Store(chat[r].p, chat[r].snap) /\ chat[r].pc = "update"
        BY <1>3 DEF WriteLatency
    <2>2. chat[r].p = q /\ chat[r].snap.status = "cooldown"
        BY <1>t, <2>1, PutInCooldown
    <2> QED  BY <2>1, <2>2 DEF CopyInCooldown
<1>4. ASSUME NEW r \in Requests, MarkCandidate(r) PROVE DirectFailed(q)
    <2>1. /\ chat[r].pc = "mark" /\ ~chat[r].gone
          /\ Store(chat[r].p, MarkCooldown(conn[chat[r].p], DirectTicks))
        BY <1>4, <1>c DEF MarkCandidate, StoreFor
    <2>2. MarkCooldown(conn[chat[r].p], DirectTicks) \in Row
        BY <1>t, RowOperations, HealthAssumption
    <2>3. chat[r].p = q  BY <1>t, <2>1, <2>2, PutInCooldown
    <2>4. chat[r].res = "fail"
        BY <2>1 DEF IInv, ChatSupported, ChatGood, Unavailable
    <2> QED  BY <2>1, <2>3, <2>4 DEF DirectFailed
<1>5. ASSUME NEW p \in Providers, Record(p) PROVE ProbesFailed(q) \/ CopyInCooldown(q)
    <2> DEFINE snap == check[p].snap
               row == IF check[p].ok THEN Succeeded(snap) ELSE Failed(snap)
    <2>1. Store(p, row) /\ check[p].pc = "record"  BY <1>5 DEF Record
    <2>2. snap \in Row /\ row \in Row  BY <1>t, RowOperations, HealthAssumption
    <2>3. row.status = "cooldown" =>
              \/ snap.status = "cooldown"
              \/ ~check[p].ok /\ Bump(snap.backoff) >= HealthThreshold
        BY <2>2 DEF Succeeded, Failed, Row
    <2> HIDE DEF row
    <2>4. p = q /\ row.status = "cooldown"  BY <2>1, <2>2, PutInCooldown
    <2> QED  BY <2>1, <2>3, <2>4 DEF ProbesFailed, CopyInCooldown
<1>6. ASSUME NEW p \in Providers, Enable(p) \/ Disable(p) PROVE FALSE
    <2>1. PICK s \in {"active", "disabled"} : Store(p, UpdateStatus(conn[p], s))
        BY <1>6 DEF Enable, Disable
    <2>2. UpdateStatus(conn[p], s) \in Row  BY <1>t, RowOperations, HealthAssumption
    <2>3. UpdateStatus(conn[p], s).status = s  BY <1>t DEF UpdateStatus, Row
    <2> QED  BY <2>1, <2>2, <2>3, PutInCooldown
<1>7. ASSUME NEW p \in Providers, EndEdit(p) PROVE CopyInCooldown(q)
    <2>1. edit[p].busy /\ Store(p, edit[p].snap)  BY <1>7, <1>c DEF EndEdit
    <2>2. p = q /\ edit[p].snap.status = "cooldown"  BY <1>t, <2>1, PutInCooldown
    <2> QED  BY <2>1, <2>2 DEF CopyInCooldown
<1>8. ASSUME Tick PROVE FALSE
    <2>1. conn'[q] = Age(conn[q])  BY <1>8 DEF Tick
    <2> QED  BY <1>t, <2>1 DEF Age, Row
<1>9. ASSUME NEW r \in Requests,
             \/ StartCombo(r) \/ StartDirect(r) \/ ClientLeaves(r)
             \/ CallItem(r) \/ SkipItem(r) \/ ItemGarbled(r) \/ ItemRejected(r)
             \/ ComboExhausted(r) \/ SelectCandidates(r) \/ RefuseDirect(r)
             \/ SkipCandidate(r) \/ CallCandidate(r) \/ CallEnds(r) \/ GiveUp(r)
      PROVE  FALSE
    BY <1>9, <1>c
       DEF StartCombo, StartDirect, ClientLeaves, CallItem, SkipItem, ItemGarbled,
           ItemRejected, ComboExhausted, SelectCandidates, RefuseDirect, SkipCandidate,
           CallCandidate, CallEnds, GiveUp
<1>10. ASSUME NEW p \in Providers, Probe(p) \/ ProbeNothing(p) \/ BeginEdit(p)
       PROVE  FALSE
    BY <1>10, <1>c DEF Probe, ProbeNothing, BeginEdit
<1>11. ~CheckAll  BY <1>c DEF CheckAll
<1> QED
    BY <1>1, <1>2, <1>3, <1>4, <1>5, <1>6, <1>7, <1>8, <1>9, <1>10, <1>11
       DEF Next, Serve, ComboStep, DirectStep, Monitor, Admin

\* A provider is taken out of rotation only by a combo's failed or abandoned call, by a
\* direct request's failed call whose client is still there, by the monitor at its
\* threshold, or by a copy of the row from an earlier cooldown.
THEOREM CooldownsEnteredByTheNamed == Spec => CooldownEnteredOnlyBy
<1>1. IInv /\ [Next]_vars =>
          [\A p \in Providers : conn[p].status # "cooldown" /\ conn'[p].status = "cooldown"
               => \/ ComboFailed(p) \/ DirectFailed(p)
                  \/ ProbesFailed(p) \/ CopyInCooldown(p)]_vars
    BY CooledBy
<1> QED  BY InitInv, StepInv, <1>1, PTL DEF Spec, CooldownEnteredOnlyBy

-----------------------------------------------------------------------------
(* Every request comes closer to its answer.                               *)

\* Where a request is, it has an item or an attempt to be there for.
Placed(c) ==
    /\ c.pc = "item" => c.item <= Len(ComboItems) + 1
    /\ c.pc = "itemCall" => c.item <= Len(ComboItems)
    /\ c.pc \in {"calling", "update", "mark"} => c.tries < MaxAttempts

AllPlaced == \A r \in Requests : Placed(chat[r])

\* What one step of serving does to the request's place.
Turn(c, d) ==
    \/ c.pc = "item" /\ c.item <= Len(ComboItems) /\ d.pc = "itemCall" /\ d.item = c.item
    \/ /\ c.pc \in {"item", "itemCall"} /\ c.item <= Len(ComboItems)
       /\ d.pc = "item" /\ d.item = c.item + 1
    \/ c.pc \in {"item", "itemCall"} /\ d.pc = "select"
    \/ c.pc = "select" /\ d.pc = "try"
    \/ /\ c.pc \in {"try", "mark"} /\ c.tries < MaxAttempts
       /\ d.pc = "try" /\ d.tries = c.tries + 1
    \/ c.pc = "try" /\ c.tries < MaxAttempts /\ d.pc = "calling" /\ d.tries = c.tries
    \/ c.pc = "calling" /\ d.pc = "update" /\ d.tries = c.tries
    \/ c.pc = "update" /\ d.pc = "mark" /\ d.tries = c.tries
    \/ c.pc # "idle" /\ d.pc = "idle"

LEMMA Sizes == Len(ComboItems) \in Nat /\ MaxAttempts \in Nat \ {0}
<1>1. ComboItems \in Seq(Providers)  BY HealthAssumption
<1>2. MaxAttempts \in Nat \ {0}  BY HealthAssumption
<1> QED  BY <1>1, <1>2

\* The arithmetic of StepsLeft, apart from the steps.
LEMMA StepsCounted ==
    ASSUME NEW c \in Chat, Placed(c)
    PROVE  StepsLeft(c) \in Nat
<1> DEFINE L == Len(ComboItems)
           M == MaxAttempts
<1>s. L \in Nat /\ M \in Nat  BY Sizes
<1>c. c.item \in Nat /\ c.tries \in Nat /\ c.tries <= M /\ c.pc \in ChatPC
    BY <1>s DEF Chat
<1>1. /\ c.pc = "item" => c.item <= L + 1
      /\ c.pc = "itemCall" => c.item <= L
      /\ c.pc \in {"calling", "update", "mark"} => c.tries < M
    BY DEF Placed
<1> HIDE DEF L, M
<1>2. CASE c.pc \in {"item", "itemCall"}
    <2>1. 2 * (L + 1 - c.item) \in Nat  BY <1>s, <1>c, <1>1, <1>2
    <2>2. 4 * M \in Nat  BY <1>s
    <2> QED  BY <1>2, <2>1, <2>2 DEF StepsLeft, L, M
<1>3. CASE c.pc \in {"select", "try"}
    <2>1. 4 * M + 2 \in Nat /\ 4 * (M - c.tries) + 1 \in Nat  BY <1>s, <1>c
    <2> QED  BY <1>3, <2>1 DEF StepsLeft, M
<1>5. CASE c.pc \in {"calling", "update", "mark"}
    <2>1. /\ 4 * (M - c.tries) \in Nat
          /\ 4 * (M - c.tries) - 1 \in Nat
          /\ 4 * (M - c.tries) - 2 \in Nat
        BY <1>s, <1>c, <1>1, <1>5
    <2> QED  BY <1>5, <2>1 DEF StepsLeft, M
<1>4. CASE c.pc = "idle"
    BY <1>4 DEF StepsLeft
<1> QED  BY <1>c, <1>2, <1>3, <1>4, <1>5 DEF ChatPC

LEMMA TurnShortens ==
    ASSUME NEW c \in Chat, NEW d \in Chat, Placed(c), Turn(c, d)
    PROVE  /\ Placed(d)
           /\ StepsLeft(d) \in 0 .. StepsLeft(c)
           /\ StepsLeft(d) < StepsLeft(c)
<1> DEFINE L == Len(ComboItems)
           M == MaxAttempts
<1>s. L \in Nat /\ M \in Nat /\ M > 0  BY Sizes
<1>c. /\ c.item \in Nat /\ c.item > 0 /\ c.tries \in Nat /\ c.tries <= M
      /\ d.item \in Nat /\ d.item > 0 /\ d.tries \in Nat /\ d.tries <= M
      /\ c.pc \in ChatPC /\ d.pc \in ChatPC
    BY <1>s DEF Chat
<1> HIDE DEF L, M
<1>1. Placed(d)
    BY <1>s, <1>c DEF Placed, Turn, ChatPC, L, M
<1>2. \A e \in {c, d} :
          StepsLeft(e) = CASE e.pc = "item"     -> 2 * (L + 1 - e.item) + 4 * M + 3
                           [] e.pc = "itemCall" -> 2 * (L + 1 - e.item) + 4 * M + 2
                           [] e.pc = "select"   -> 4 * M + 2
                           [] e.pc = "try"      -> 4 * (M - e.tries) + 1
                           [] e.pc = "calling"  -> 4 * (M - e.tries)
                           [] e.pc = "update"   -> 4 * (M - e.tries) - 1
                           [] e.pc = "mark"     -> 4 * (M - e.tries) - 2
                           [] OTHER             -> 0
    BY DEF StepsLeft, L, M
<1>3. StepsLeft(c) \in Nat /\ StepsLeft(d) \in Nat
    BY <1>1, StepsCounted
<1>4. StepsLeft(d) < StepsLeft(c)
    <2>1. CASE c.pc \in {"item", "itemCall"}
        <3>1. c.item <= L + 1  BY <1>s, <1>c, <2>1 DEF Placed, L
        <3>2. 2 * (L + 1 - c.item) >= 0  BY <1>s, <1>c, <3>1
        <3>3. CASE d.pc = "idle"
            <4>1. StepsLeft(d) = 0  BY <3>3 DEF StepsLeft
            <4>2. StepsLeft(c) # 0  BY <1>s, <1>c, <1>2, <2>1, <3>2
            <4> QED  BY <1>3, <4>1, <4>2
        <3>4. CASE d.pc = "select"
            <4>1. StepsLeft(d) = 4 * M + 2  BY <3>4 DEF StepsLeft, M
            <4>2. \/ StepsLeft(c) = 2 * (L + 1 - c.item) + 4 * M + 3
                  \/ c.pc = "itemCall" /\ StepsLeft(c) = 2 * (L + 1 - c.item) + 4 * M + 2
                BY <2>1 DEF StepsLeft, L, M
            <4>3. c.pc = "itemCall" => c.item <= L  BY DEF Placed, L
            <4> QED  BY <1>s, <1>c, <3>2, <4>1, <4>2, <4>3
        <3>5. CASE d.pc \in {"item", "itemCall"}
            <4>1. \/ c.pc = "item" /\ d.pc = "itemCall" /\ d.item = c.item
                  \/ d.pc = "item" /\ d.item = c.item + 1
                BY <2>1, <3>5 DEF Turn
            <4> QED  BY <1>s, <1>c, <1>2, <2>1, <4>1
        <3> QED  BY <2>1, <3>3, <3>4, <3>5 DEF Turn
    <2>3. CASE c.pc = "select"
        BY <1>s, <1>c, <1>2, <2>3 DEF Turn, L, M
    <2>4. CASE c.pc = "try"
        BY <1>s, <1>c, <1>2, <2>4 DEF Turn, L, M
    <2>5. CASE c.pc \in {"calling", "update", "mark"}
        <3>1. c.tries < M  BY <2>5 DEF Placed, M
        <3> QED  BY <1>s, <1>c, <1>2, <2>5, <3>1 DEF Turn, L, M
    <2>6. CASE c.pc = "idle"
        BY <2>6 DEF Turn
    <2> QED  BY <1>c, <2>1, <2>3, <2>4, <2>5, <2>6 DEF ChatPC
<1> QED  BY <1>1, <1>3, <1>4

\* Serving r takes a turn of r and of nobody else.
LEMMA ServeTurns ==
    ASSUME IInv, AllPlaced, NEW r \in Requests, Serve(r)
    PROVE  /\ Turn(chat[r], chat'[r])
           /\ \A s \in Requests : s # r => chat'[s] = chat[s]
<1>t. chat \in [Requests -> Chat] /\ chat[r] \in Chat  BY DEF IInv, TypeOK
<1>p. Placed(chat[r])  BY DEF AllPlaced
<1>f. /\ Forget(chat[r]).pc = chat[r].pc /\ Forget(chat[r]).item = chat[r].item
      /\ Forget(chat[r]).tries = chat[r].tries /\ Forget(chat[r]) \in Chat
    BY <1>t, ForgetType DEF Forget, Chat
<1>n. ASSUME NEW o, NextItem(r, o), chat[r].pc \in {"item", "itemCall"},
             chat[r].item <= Len(ComboItems)
      PROVE  Turn(chat[r], chat'[r]) /\ \A s \in Requests : s # r => chat'[s] = chat[s]
    BY <1>t, <1>f, <1>n DEF NextItem, Turn, Chat
<1>d. ASSUME ToDirect(r), chat[r].pc \in {"item", "itemCall"}
      PROVE  Turn(chat[r], chat'[r]) /\ \A s \in Requests : s # r => chat'[s] = chat[s]
    BY <1>t, <1>f, <1>d DEF ToDirect, Turn, Chat
<1>c. ASSUME NEW p, NextCandidate(r, p), chat[r].pc \in {"try", "mark"},
             chat[r].tries < MaxAttempts
      PROVE  Turn(chat[r], chat'[r]) /\ \A s \in Requests : s # r => chat'[s] = chat[s]
    BY <1>t, <1>f, <1>c DEF NextCandidate, Turn, Chat
<1>e. ASSUME chat' = [chat EXCEPT ![r] = IdleChat], chat[r].pc # "idle"
      PROVE  Turn(chat[r], chat'[r]) /\ \A s \in Requests : s # r => chat'[s] = chat[s]
    BY <1>t, <1>e DEF IdleChat, Turn
<1>1. CASE CallItem(r)
    BY <1>t, <1>1 DEF CallItem, Turn, Chat
<1>2. CASE SkipItem(r)  BY <1>2, <1>n DEF SkipItem
<1>3. CASE ItemUnavailable(r) \/ ItemGarbled(r)
    BY <1>p, <1>3, <1>n DEF ItemUnavailable, ItemGarbled, Placed
<1>4. CASE ItemRejected(r) \/ ComboExhausted(r)
    BY <1>4, <1>d DEF ItemRejected, ComboExhausted
<1>5. CASE ItemOk(r)  BY <1>5, <1>e DEF ItemOk
<1>6. CASE SelectCandidates(r)
    BY <1>t, <1>6 DEF SelectCandidates, Turn, Chat
<1>7. CASE RefuseDirect(r) \/ GiveUp(r)
    BY <1>7, <1>e DEF RefuseDirect, GiveUp
<1>8. CASE SkipCandidate(r)
    BY <1>8, <1>c DEF SkipCandidate, TriesLeft
<1>9. CASE CallCandidate(r)
    BY <1>t, <1>9 DEF CallCandidate, TriesLeft, Turn, Chat
<1>10. CASE CallEnds(r)
    BY <1>t, <1>10 DEF CallEnds, Turn, Chat
<1>11. CASE WriteLatency(r)
    <2>1. CASE Unavailable(chat[r].res)
        BY <1>t, <1>11, <2>1 DEF WriteLatency, Turn, Chat
    <2>2. CASE ~Unavailable(chat[r].res)
        BY <1>11, <1>e, <2>2 DEF WriteLatency
    <2> QED  BY <2>1, <2>2
<1>12. CASE MarkCandidate(r)
    BY <1>p, <1>12, <1>c DEF MarkCandidate, Placed
<1> QED
    BY <1>1, <1>2, <1>3, <1>4, <1>5, <1>6, <1>7, <1>8, <1>9, <1>10, <1>11, <1>12
       DEF Serve, ComboStep, DirectStep

\* Nobody else moves a request that is being served.
LEMMA OthersKeepPlaces ==
    ASSUME IInv, NEW r \in Requests,
           \/ \E s \in Requests : StartCombo(s) \/ StartDirect(s) \/ ClientLeaves(s)
           \/ Monitor \/ Admin \/ Tick \/ UNCHANGED vars
    PROVE  \/ /\ chat'[r].pc = chat[r].pc /\ chat'[r].item = chat[r].item
              /\ chat'[r].tries = chat[r].tries
           \/ /\ chat[r].pc = "idle" /\ chat'[r].pc \in {"item", "select"}
              /\ chat'[r].item = 1
<1>t. chat \in [Requests -> Chat] /\ chat[r] \in Chat  BY DEF IInv, TypeOK
<1>1. ASSUME NEW s \in Requests, StartCombo(s) \/ StartDirect(s) \/ ClientLeaves(s)
      PROVE  \/ /\ chat'[r].pc = chat[r].pc /\ chat'[r].item = chat[r].item
                /\ chat'[r].tries = chat[r].tries
             \/ /\ chat[r].pc = "idle" /\ chat'[r].pc \in {"item", "select"}
                /\ chat'[r].item = 1
    BY <1>t, <1>1 DEF StartCombo, StartDirect, ClientLeaves, IdleChat, Chat
<1>2. Monitor \/ Admin \/ UNCHANGED vars => UNCHANGED chat
    BY DEF Monitor, CheckAll, Probe, ProbeNothing, Record, Admin, Enable, Disable, BeginEdit,
           EndEdit, vars
<1>3. CASE Tick  BY <1>t, <1>3 DEF Tick, Chat
<1> QED  BY <1>1, <1>2, <1>3

LEMMA PlacedInit == Init => AllPlaced
BY Sizes DEF Init, AllPlaced, Placed, IdleChat

LEMMA PlacesStep ==
    ASSUME IInv, AllPlaced, [Next]_vars, NEW r \in Requests
    PROVE  /\ Placed(chat'[r])
           /\ chat[r].pc # "idle" =>
                  /\ StepsLeft(chat'[r]) \in 0 .. StepsLeft(chat[r])
                  /\ Serve(r) => StepsLeft(chat'[r]) < StepsLeft(chat[r])
<1>t. chat[r] \in Chat /\ chat'[r] \in Chat /\ Placed(chat[r])
    BY StepInv DEF IInv, TypeOK, AllPlaced
<1>n. StepsLeft(chat[r]) \in Nat
    BY <1>t, StepsCounted
<1>1. CASE Serve(r)
    BY <1>t, <1>1, ServeTurns, TurnShortens
<1>2. ASSUME ~Serve(r), chat'[r].pc = chat[r].pc, chat'[r].item = chat[r].item,
             chat'[r].tries = chat[r].tries
      PROVE  Placed(chat'[r]) /\ StepsLeft(chat'[r]) \in 0 .. StepsLeft(chat[r])
    <2>1. StepsLeft(chat'[r]) = StepsLeft(chat[r])  BY <1>2 DEF StepsLeft
    <2>2. Placed(chat'[r])  BY <1>t, <1>2 DEF Placed
    <2> QED  BY <1>n, <2>1, <2>2
<1>3. CASE ~Serve(r) /\ \E s \in Requests : Serve(s)
    <2>1. chat'[r] = chat[r]  BY <1>3, ServeTurns
    <2> QED  BY <1>2, <1>3, <2>1
<1>4. CASE ~Serve(r) /\ ~\E s \in Requests : Serve(s)
    <2>1. \/ \E s \in Requests : StartCombo(s) \/ StartDirect(s) \/ ClientLeaves(s)
          \/ Monitor \/ Admin \/ Tick \/ UNCHANGED vars
        BY <1>4 DEF Next
    <2>2. CASE chat[r].pc = "idle" /\ chat'[r].pc \in {"item", "select"} /\ chat'[r].item = 1
        BY <2>2, Sizes DEF Placed
    <2> QED  BY <1>2, <1>4, <2>1, <2>2, OthersKeepPlaces
<1> QED  BY <1>1, <1>3, <1>4

\* The fallback over items and candidates cannot go on forever: a request takes
\* at most 2 steps for each item and 4 for each of MaxAttempts candidates, for
\* any combo and any behaviour of the providers.
THEOREM AnswersComeCloser == Spec => GetsCloser
<1>1. IInv /\ AllPlaced /\ [Next]_vars => AllPlaced'
    BY PlacesStep DEF AllPlaced
<1>2. IInv /\ AllPlaced /\ [Next]_vars =>
          [\A r \in Requests : chat[r].pc # "idle" =>
               /\ StepsLeft(chat'[r]) \in 0 .. StepsLeft(chat[r])
               /\ Serve(r) => StepsLeft(chat'[r]) < StepsLeft(chat[r])]_vars
    BY PlacesStep
<1> QED  BY InitInv, StepInv, PlacedInit, <1>1, <1>2, PTL DEF Spec, GetsCloser
=============================================================================
