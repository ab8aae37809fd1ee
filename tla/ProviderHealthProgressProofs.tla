-------------------- MODULE ProviderHealthProgressProofs --------------------
(***************************************************************************)
(* What must happen in ProviderHealth, and what never will: a request in   *)
(* service is not stuck and comes to its end, and a provider that is in    *)
(* cooldown and in no combo stays there; on top of the invariants of       *)
(* ProviderHealthProofs, for any providers, requests and combo.            *)
(***************************************************************************)
EXTENDS ProviderHealthProofs

(* The prover knows nothing of ENABLED; CanServe says with the guards of   *)
(* its actions when Serve can be taken.                                    *)

CanServe(r) ==
    \/ chat[r].pc = "item" /\ chat[r].item <= Len(ComboItems)
    \/ chat[r].pc = "item" /\ chat[r].item > Len(ComboItems)
    \/ chat[r].pc = "itemCall"
    \/ chat[r].pc = "select"
    \/ TriesLeft(r) /\ chat[r].todo # {}
    \/ chat[r].pc = "try" /\ (chat[r].todo = {} \/ chat[r].tries = MaxAttempts)
    \/ chat[r].pc = "calling" /\ Outcomes(r) \ {"garbled"} # {}
    \/ chat[r].pc \in {"update", "mark"}

LEMMA AlwaysServable ==
    ASSUME IInv, NEW r \in Requests, chat[r].pc # "idle"
    PROVE  CanServe(r)
<1>1. chat[r] \in Chat  BY DEF IInv, TypeOK
<1>2. CASE chat[r].pc = "item"
    <2>1. chat[r].item \in Nat  BY <1>1 DEF Chat
    <2>2. chat[r].item <= Len(ComboItems) \/ chat[r].item > Len(ComboItems)
        BY <2>1, Sizes
    <2> QED  BY <1>2, <2>2 DEF CanServe
<1>3. CASE chat[r].pc = "try"
    <2>1. chat[r].tries \in 0 .. MaxAttempts  BY <1>1 DEF Chat
    <2>2. chat[r].tries < MaxAttempts \/ chat[r].tries = MaxAttempts  BY <2>1, Sizes
    <2> QED  BY <1>3, <2>2 DEF CanServe, TriesLeft
<1>4. CASE chat[r].pc = "calling"
    <2>1. "ok" \in Outcomes(r) \ {"garbled"}  BY DEF Outcomes, Outcome
    <2> QED  BY <1>4, <2>1 DEF CanServe
<1>5. CASE chat[r].pc \in {"itemCall", "select", "update", "mark"}
    BY <1>5 DEF CanServe
<1> QED  BY <1>1, <1>2, <1>3, <1>4, <1>5 DEF Chat, ChatPC

LEMMA PlacedInvariant == Spec => [](IInv /\ AllPlaced)
<1>1. IInv /\ AllPlaced /\ [Next]_vars => AllPlaced'
    BY PlacesStep DEF AllPlaced
<1> QED  BY InitInv, StepInv, PlacedInit, <1>1, PTL DEF Spec

\* Whatever rows, probes and edits do, a request in service has a next step.
THEOREM NoRequestIsStuck ==
    Spec => [](\A r \in Requests : chat[r].pc # "idle" => CanServe(r))
<1>1. IInv => \A r \in Requests : chat[r].pc # "idle" => CanServe(r)
    BY AlwaysServable
<1> QED  BY PlacedInvariant, <1>1, PTL

-----------------------------------------------------------------------------
(* RequestsFinish, but for the last inference.                             *)

Busy(r) == chat[r].pc # "idle"

\* The fairness of request r, with its guard in place of ENABLED.
ServedFairly(r) == []<>~CanServe(r) \/ []<><<Serve(r)>>_vars

\* A request that has fewer than n steps left comes to its end.
Within(r, n) == Busy(r) /\ StepsLeft(chat[r]) < n

FinishesWithin(r, n) == Within(r, n) ~> ~Busy(r)

\* The most that any request can have left.
StepsAtMost == 2 * Len(ComboItems) + 4 * MaxAttempts + 3

LEMMA StepsBounded ==
    ASSUME IInv, AllPlaced, NEW r \in Requests
    PROVE  StepsLeft(chat[r]) \in 0 .. StepsAtMost
<1> DEFINE L == Len(ComboItems)
           M == MaxAttempts
           c == chat[r]
<1>1. L \in Nat /\ M \in Nat  BY Sizes
<1>2. c \in Chat /\ Placed(c)  BY DEF IInv, TypeOK, AllPlaced
<1>3. StepsLeft(c) \in Nat  BY <1>2, StepsCounted
<1>4. c.item \in Nat /\ c.item > 0 /\ c.tries \in Nat  BY <1>1, <1>2 DEF Chat
<1> HIDE DEF L, M, c
<1>5. StepsLeft(c) = CASE c.pc = "item"     -> 2 * (L + 1 - c.item) + 4 * M + 3
                       [] c.pc = "itemCall" -> 2 * (L + 1 - c.item) + 4 * M + 2
                       [] c.pc = "select"   -> 4 * M + 2
                       [] c.pc = "try"      -> 4 * (M - c.tries) + 1
                       [] c.pc = "calling"  -> 4 * (M - c.tries)
                       [] c.pc = "update"   -> 4 * (M - c.tries) - 1
                       [] c.pc = "mark"     -> 4 * (M - c.tries) - 2
                       [] OTHER             -> 0
    BY DEF StepsLeft, L, M
<1>6. StepsLeft(c) <= 2 * L + 4 * M + 3  BY <1>1, <1>4, <1>5
<1>7. StepsLeft(c) \in 0 .. 2 * L + 4 * M + 3  BY <1>1, <1>3, <1>6
<1> QED  BY <1>7 DEF StepsAtMost, L, M, c

\* One step of a request takes it below n, if it had n left.
LEMMA OneStepCloser ==
    ASSUME NEW r \in Requests, NEW n \in Nat
    PROVE  Spec /\ ServedFairly(r) => (Within(r, n + 1) ~> Within(r, n) \/ ~Busy(r))
<1>1. IInv /\ AllPlaced /\ Within(r, n + 1) /\ [Next]_vars
        => Within(r, n + 1)' \/ (~Busy(r))'
    <2> SUFFICES ASSUME IInv, AllPlaced, Within(r, n + 1), [Next]_vars, Busy(r)'
                 PROVE  Within(r, n + 1)'
        OBVIOUS
    <2>1. StepsLeft(chat[r]) \in Nat  BY StepsCounted DEF IInv, TypeOK, AllPlaced
    <2>2. StepsLeft(chat'[r]) \in 0 .. StepsLeft(chat[r])
        BY PlacesStep DEF Within, Busy
    <2>3. StepsLeft(chat[r]) < n + 1  BY DEF Within
    <2>4. StepsLeft(chat'[r]) < n + 1  BY <2>1, <2>2, <2>3
    <2> QED  BY <2>4 DEF Within, Busy, StepsLeft
<1>2. IInv /\ AllPlaced /\ Within(r, n + 1) /\ [Next]_vars /\ <<Serve(r)>>_vars
        => Within(r, n)' \/ (~Busy(r))'
    <2> SUFFICES ASSUME IInv, AllPlaced, Within(r, n + 1), [Next]_vars, Serve(r), Busy(r)'
                 PROVE  Within(r, n)'
        OBVIOUS
    <2>1. StepsLeft(chat[r]) \in Nat  BY StepsCounted DEF IInv, TypeOK, AllPlaced
    <2>2. /\ StepsLeft(chat'[r]) \in 0 .. StepsLeft(chat[r])
          /\ StepsLeft(chat'[r]) < StepsLeft(chat[r])
        BY PlacesStep DEF Within, Busy
    <2>3. StepsLeft(chat[r]) < n + 1  BY DEF Within
    <2>4. StepsLeft(chat'[r]) < n  BY <2>1, <2>2, <2>3
    <2> QED  BY <2>4 DEF Within, Busy, StepsLeft
<1>3. IInv /\ Within(r, n + 1) => CanServe(r)  BY AlwaysServable DEF Within, Busy
<1> QED  BY PlacedInvariant, <1>1, <1>2, <1>3, PTL DEF Spec, ServedFairly

\* By induction over the steps it has left a request is answered: nothing is left of
\* a request below 0, and one step takes a request from below n + 1 to below n.  A
\* request is below StepsAtMost + 1, so that the induction, which the prover lacks a
\* rule for, leads from the first two facts by the third to RequestsFinish.
THEOREM RequestsFinishStepwise ==
    ASSUME NEW r \in Requests
    PROVE  Spec /\ ServedFairly(r) =>
               /\ FinishesWithin(r, 0)
               /\ \A n \in Nat : FinishesWithin(r, n) => FinishesWithin(r, n + 1)
               /\ FinishesWithin(r, StepsAtMost + 1) => (Busy(r) ~> ~Busy(r))
<1>1. Spec => FinishesWithin(r, 0)
    <2>1. IInv /\ AllPlaced => ~Within(r, 0)
        BY StepsCounted DEF Within, IInv, TypeOK, AllPlaced
    <2> QED  BY PlacedInvariant, <2>1, PTL DEF FinishesWithin
<1>2. ASSUME NEW n \in Nat
      PROVE  Spec /\ ServedFairly(r) => (FinishesWithin(r, n) => FinishesWithin(r, n + 1))
    BY OneStepCloser, PTL DEF FinishesWithin
<1>3. Spec => (FinishesWithin(r, StepsAtMost + 1) => (Busy(r) ~> ~Busy(r)))
    <2>1. IInv /\ AllPlaced /\ Busy(r) => Within(r, StepsAtMost + 1)
        <3> SUFFICES ASSUME IInv, AllPlaced, Busy(r) PROVE Within(r, StepsAtMost + 1)
            OBVIOUS
        <3>1. StepsLeft(chat[r]) \in 0 .. StepsAtMost  BY StepsBounded
        <3>2. StepsAtMost \in Nat  BY Sizes DEF StepsAtMost
        <3> QED  BY <3>1, <3>2 DEF Within
    <2> QED  BY PlacedInvariant, <2>1, PTL DEF FinishesWithin
<1> QED  BY <1>1, <1>2, <1>3

ServedWeakly(r) == WF_vars(Serve(r))

LEMMA FairToRequests == StatementsEnd /\ FairSpec => \A r \in Requests : ServedWeakly(r)
BY PTL DEF FairSpec, Fairness, ServedWeakly

\* The same of the specification TLC checks, on a store whose statements return; that
\* Serve(r) is enabled where a guard of its actions holds is the other hypothesis, and
\* is left to TLC.
COROLLARY FairRequestsFinishStepwise ==
    ASSUME NEW r \in Requests, StatementsEnd
    PROVE  FairSpec /\ [](CanServe(r) => ENABLED <<Serve(r)>>_vars) =>
               /\ FinishesWithin(r, 0)
               /\ \A n \in Nat : FinishesWithin(r, n) => FinishesWithin(r, n + 1)
               /\ FinishesWithin(r, StepsAtMost + 1) => (Busy(r) ~> ~Busy(r))
<1>1. FairSpec => \A q \in Requests : ServedWeakly(q)  BY FairToRequests
<1>2. (\A q \in Requests : ServedWeakly(q)) => ServedWeakly(r)  OBVIOUS
<1>3. ServedWeakly(r) /\ [](CanServe(r) => ENABLED <<Serve(r)>>_vars) => ServedFairly(r)
    BY PTL DEF ServedFairly, ServedWeakly
<1> QED  BY <1>1, <1>2, <1>3, RequestsFinishStepwise, PTL DEF FairSpec

-----------------------------------------------------------------------------
(* A provider in cooldown that is in no combo.                             *)

InCombo(p) == p \in {ComboItems[i] : i \in 1 .. Len(ComboItems)}

\* A request calls as a combo's item only what the combo names.
ItemsFromCombo == \A r \in Requests : chat[r].pc = "itemCall" => InCombo(chat[r].p)

\* The row of p is in cooldown and so is every copy of it that may be written back,
\* and nobody is probing p.
OutOfService(p) ==
    /\ conn[p].status = "cooldown"
    /\ check[p].pc = "idle"
    /\ edit[p].busy => edit[p].snap.status = "cooldown"
    /\ \A r \in Requests :
           chat[r].pc = "update" /\ chat[r].p = p => chat[r].snap.status = "cooldown"

\* How a request comes by the provider it calls and by the copy it will write back.
ReadsFresh(r) ==
    \/ chat'[r].pc \notin {"itemCall", "update"}
    \/ /\ chat'[r].pc = chat[r].pc /\ chat'[r].p = chat[r].p
       /\ chat'[r].snap.status = chat[r].snap.status
    \/ chat'[r].pc = "itemCall" /\ InCombo(chat'[r].p)
    \/ chat'[r].pc = "update" /\ chat'[r].snap = conn[chat'[r].p]

LEMMA RequestsReadFresh ==
    ASSUME IInv, [Next]_vars, NEW r \in Requests
    PROVE  ReadsFresh(r)
<1>t. chat \in [Requests -> Chat] /\ chat[r] \in Chat  BY DEF IInv, TypeOK
<1>u. ASSUME chat'[r] = chat[r] PROVE ReadsFresh(r)  BY <1>u DEF ReadsFresh
<1>i. IdleChat.pc = "idle"  BY DEF IdleChat
<1>1. ASSUME NEW s \in Requests, s # r,
             \/ StartCombo(s) \/ StartDirect(s) \/ Serve(s) \/ ClientLeaves(s)
      PROVE  ReadsFresh(r)
    BY <1>t, <1>u, <1>1
       DEF StartCombo, StartDirect, ClientLeaves, Serve, ComboStep, DirectStep, CallItem,
           SkipItem, ItemUnavailable, ItemGarbled, ItemRejected, ItemOk, ComboExhausted,
           SelectCandidates, RefuseDirect, SkipCandidate, CallCandidate, CallEnds,
           WriteLatency, MarkCandidate, GiveUp, NextItem, ToDirect, NextCandidate
<1>2. CASE StartCombo(r) \/ StartDirect(r)
    BY <1>t, <1>2 DEF StartCombo, StartDirect, IdleChat, ReadsFresh
<1>3. CASE ClientLeaves(r)
    BY <1>t, <1>3 DEF ClientLeaves, ReadsFresh, Chat
<1>4. CASE CallItem(r)
    <2> DEFINE c == chat[r].item
    <2>1. /\ chat'[r].pc = "itemCall" /\ chat'[r].p = ComboItems[c]
          /\ c \in Nat \ {0} /\ c <= Len(ComboItems)
        BY <1>t, <1>4 DEF CallItem, Chat
    <2>2. c \in 1 .. Len(ComboItems)  BY <2>1, Sizes
    <2> QED  BY <2>1, <2>2 DEF ReadsFresh, InCombo
<1>f. Forget(chat[r]) \in Chat  BY <1>t, ForgetType
<1>5. CASE SkipItem(r) \/ ItemUnavailable(r) \/ ItemGarbled(r)
    <2>1. PICK o : NextItem(r, o)
        BY <1>5 DEF SkipItem, ItemUnavailable, ItemGarbled
    <2>2. chat'[r].pc = "item"  BY <1>t, <1>f, <2>1 DEF NextItem, Chat
    <2> QED  BY <2>2 DEF ReadsFresh
<1>6. CASE ItemRejected(r) \/ ComboExhausted(r)
    BY <1>t, <1>f, <1>6 DEF ItemRejected, ComboExhausted, ToDirect, Chat, ReadsFresh
<1>7. CASE ItemOk(r) \/ RefuseDirect(r) \/ GiveUp(r)
    BY <1>t, <1>i, <1>7 DEF ItemOk, RefuseDirect, GiveUp, ReadsFresh
<1>8. CASE SelectCandidates(r) \/ CallCandidate(r)
    BY <1>t, <1>8 DEF SelectCandidates, CallCandidate, Chat, ReadsFresh
<1>9. CASE SkipCandidate(r) \/ MarkCandidate(r)
    BY <1>t, <1>f, <1>9 DEF SkipCandidate, MarkCandidate, NextCandidate, Chat, ReadsFresh
<1>10. CASE CallEnds(r)
    BY <1>t, <1>10 DEF CallEnds, Chat, ReadsFresh
<1>11. CASE WriteLatency(r)
    <2>1. chat'[r] = IdleChat \/ chat'[r].pc = "mark"
        BY <1>t, <1>11 DEF WriteLatency, Chat
    <2> QED  BY <1>i, <2>1 DEF ReadsFresh
<1>12. CASE Monitor \/ Admin \/ UNCHANGED vars
    BY <1>u, <1>12 DEF Monitor, CheckAll, Probe, ProbeNothing, Record, Admin, Enable, Disable,
                       BeginEdit, EndEdit, vars
<1>13. CASE Tick
    BY <1>t, <1>13 DEF Tick, Chat, Row, Age, ReadsFresh
<1> QED
    BY <1>1, <1>2, <1>3, <1>4, <1>5, <1>6, <1>7, <1>8, <1>9, <1>10, <1>11, <1>12, <1>13
       DEF Next, Serve, ComboStep, DirectStep

LEMMA ItemsFromComboKept == IInv /\ ItemsFromCombo /\ [Next]_vars => ItemsFromCombo'
<1> SUFFICES ASSUME IInv, ItemsFromCombo, [Next]_vars,
                    NEW r \in Requests, chat'[r].pc = "itemCall"
             PROVE  InCombo(chat'[r].p)
    BY DEF ItemsFromCombo, InCombo
<1>1. ReadsFresh(r)  BY RequestsReadFresh
<1> QED  BY <1>1 DEF ReadsFresh, ItemsFromCombo

\* A statement on any row leaves that of q in cooldown, if it puts it there when it
\* is about q.
LEMMA StoredCooling ==
    ASSUME IInv, NEW q \in Providers, conn[q].status = "cooldown",
           NEW p \in Providers, NEW row, Store(p, row), p = q => row.status = "cooldown"
    PROVE  conn'[q].status = "cooldown"
<1>1. conn \in [Providers -> Row]  BY DEF IInv, TypeOK
<1>2. conn' = conn \/ conn' = [conn EXCEPT ![p] = row]  BY DEF Store
<1> QED  BY <1>1, <1>2

LEMMA RowStaysCooling ==
    ASSUME IInv, ItemsFromCombo, Next, NEW q \in Providers, ~InCombo(q), OutOfService(q),
           ~Enable(q), ~Disable(q)
    PROVE  conn'[q].status = "cooldown"
<1>t. /\ \A p \in Providers : conn[p] \in Row
      /\ \A r \in Requests : chat[r].p \in Providers
    BY DEF IInv, TypeOK, Chat
<1>q. conn[q].status = "cooldown" /\ check[q].pc = "idle"  BY DEF OutOfService
<1>u. ASSUME UNCHANGED conn PROVE conn'[q].status = "cooldown"  BY <1>q, <1>u
<1>m. \A row, ticks : MarkCooldown(row, ticks).status = "cooldown"  BY DEF MarkCooldown
<1>1. ASSUME NEW r \in Requests, ItemUnavailable(r) PROVE conn'[q].status = "cooldown"
    <2>1. Store(chat[r].p, MarkCooldown(conn[chat[r].p], ComboCooldown(chat[r].snap)))
        BY <1>1 DEF ItemUnavailable
    <2> QED  BY <1>t, <1>q, <1>m, <2>1, StoredCooling
<1>2. ASSUME NEW r \in Requests, ItemOk(r) PROVE conn'[q].status = "cooldown"
    <2>1. chat[r].p # q  BY <1>2 DEF ItemOk, ItemsFromCombo
    <2>2. UNCHANGED conn \/ Store(chat[r].p, ClearCooldown(conn[chat[r].p]))
        BY <1>2 DEF ItemOk, StoreFor
    <2> QED  BY <1>t, <1>q, <1>u, <2>1, <2>2, StoredCooling
<1>3. ASSUME NEW r \in Requests, WriteLatency(r) PROVE conn'[q].status = "cooldown"
    <2>1. Store(chat[r].p, chat[r].snap) /\ chat[r].pc = "update"  BY <1>3 DEF WriteLatency
    <2>2. chat[r].p = q => chat[r].snap.status = "cooldown"  BY <2>1 DEF OutOfService
    <2> QED  BY <1>t, <1>q, <2>1, <2>2, StoredCooling
<1>4. ASSUME NEW r \in Requests, MarkCandidate(r) PROVE conn'[q].status = "cooldown"
    <2>1. UNCHANGED conn \/ Store(chat[r].p, MarkCooldown(conn[chat[r].p], DirectTicks))
        BY <1>4 DEF MarkCandidate, StoreFor
    <2> QED  BY <1>t, <1>q, <1>u, <1>m, <2>1, StoredCooling
<1>5. ASSUME NEW p \in Providers, Record(p) PROVE conn'[q].status = "cooldown"
    <2>1. p # q  BY <1>q, <1>5 DEF Record
    <2>2. Store(p, IF check[p].ok THEN Succeeded(check[p].snap) ELSE Failed(check[p].snap))
        BY <1>5 DEF Record
    <2> QED  BY <1>q, <2>1, <2>2, StoredCooling
<1>6. ASSUME NEW p \in Providers, Enable(p) \/ Disable(p) PROVE conn'[q].status = "cooldown"
    <2>1. p # q  BY <1>6
    <2>2. PICK row : Store(p, row)  BY <1>6 DEF Enable, Disable
    <2> QED  BY <1>q, <2>1, <2>2, StoredCooling
<1>7. ASSUME NEW p \in Providers, EndEdit(p) PROVE conn'[q].status = "cooldown"
    <2>1. UNCHANGED conn \/ Store(p, edit[p].snap)  BY <1>7 DEF EndEdit
    <2>2. p = q => edit[p].snap.status = "cooldown"  BY <1>7 DEF EndEdit, OutOfService
    <2> QED  BY <1>q, <1>u, <2>1, <2>2, StoredCooling
<1>8. CASE Tick
    <2>1. conn'[q] = Age(conn[q])  BY <1>8 DEF Tick
    <2> QED  BY <1>t, <1>q, <2>1 DEF Age, Row
<1>9. ASSUME NEW r \in Requests,
             \/ StartCombo(r) \/ StartDirect(r) \/ ClientLeaves(r)
             \/ CallItem(r) \/ SkipItem(r) \/ ItemGarbled(r) \/ ItemRejected(r)
             \/ ComboExhausted(r) \/ SelectCandidates(r) \/ RefuseDirect(r)
             \/ SkipCandidate(r) \/ CallCandidate(r) \/ CallEnds(r) \/ GiveUp(r)
      PROVE  conn'[q].status = "cooldown"
    BY <1>9, <1>u
       DEF StartCombo, StartDirect, ClientLeaves, CallItem, SkipItem, ItemGarbled,
           ItemRejected, ComboExhausted, SelectCandidates, RefuseDirect, SkipCandidate,
           CallCandidate, CallEnds, GiveUp
<1>10. CASE CheckAll \/ \E p \in Providers : Probe(p) \/ ProbeNothing(p) \/ BeginEdit(p)
    BY <1>10, <1>u DEF CheckAll, Probe, ProbeNothing, BeginEdit
<1> QED
    BY <1>1, <1>2, <1>3, <1>4, <1>5, <1>6, <1>7, <1>8, <1>9, <1>10
       DEF Next, Serve, ComboStep, DirectStep, Monitor, Admin

\* The monitor lists active providers only, so it does not begin to probe this one; an
\* administrator who reads the row now reads it in cooldown.
LEMMA NobodyLooks ==
    ASSUME IInv, Next, NEW q \in Providers, OutOfService(q)
    PROVE  /\ check'[q].pc = "idle"
           /\ edit'[q].busy => edit'[q].snap.status = "cooldown"
<1>t. /\ check \in [Providers -> [pc : {"idle", "probe", "record"}, snap : Row, ok : BOOLEAN]]
      /\ edit \in [Providers -> [busy : BOOLEAN, snap : Row]]
    BY DEF IInv, TypeOK
<1>q. /\ conn[q].status = "cooldown" /\ check[q].pc = "idle"
      /\ edit[q].busy => edit[q].snap.status = "cooldown"
    BY DEF OutOfService
<1>1. CASE CheckAll
    <2>1. check'[q] = IdleCheck /\ UNCHANGED edit  BY <1>q, <1>1 DEF CheckAll
    <2> QED  BY <1>q, <2>1 DEF IdleCheck
<1>2. ASSUME NEW p \in Providers, Probe(p) \/ ProbeNothing(p) \/ Record(p)
      PROVE  check'[q] = check[q] /\ UNCHANGED edit
    BY <1>t, <1>q, <1>2 DEF Probe, ProbeNothing, Record
<1>3. ASSUME NEW p \in Providers, BeginEdit(p)
      PROVE  UNCHANGED check /\ (edit'[q].busy => edit'[q].snap.status = "cooldown")
    BY <1>t, <1>q, <1>3 DEF BeginEdit
<1>4. ASSUME NEW p \in Providers, EndEdit(p)
      PROVE  UNCHANGED check /\ (edit'[q].busy => edit'[q].snap.status = "cooldown")
    BY <1>t, <1>q, <1>4 DEF EndEdit, IdleEdit
<1>5. CASE Tick
    <2>1. /\ check'[q].pc = check[q].pc /\ edit'[q].busy = edit[q].busy
          /\ edit'[q].snap = Age(edit[q].snap)
        BY <1>t, <1>5 DEF Tick
    <2> QED  BY <1>t, <1>q, <2>1 DEF Age, Row
<1>6. CASE \/ \E p \in Providers : Enable(p) \/ Disable(p)
           \/ \E r \in Requests : StartCombo(r) \/ StartDirect(r) \/ Serve(r) \/ ClientLeaves(r)
    <2>1. UNCHANGED <<check, edit>>
        BY <1>6
           DEF Enable, Disable, StartCombo, StartDirect, ClientLeaves, Serve, ComboStep,
               DirectStep, CallItem, SkipItem, ItemUnavailable, ItemGarbled, ItemRejected,
               ItemOk, ComboExhausted, SelectCandidates, RefuseDirect, SkipCandidate,
               CallCandidate, CallEnds, WriteLatency, MarkCandidate, GiveUp
    <2> QED  BY <1>q, <2>1
<1> QED
    BY <1>q, <1>1, <1>2, <1>3, <1>4, <1>5, <1>6 DEF Next, Monitor, Admin

\* Once a provider that no combo names is in cooldown, with no copy of its row left
\* from before and no probe on its way, only the administrator gets it back: no answer
\* it gives, no round of the monitor and no passing of its deadline does.
THEOREM CooldownWithoutEnd ==
    ASSUME NEW p \in Providers, ~InCombo(p)
    PROVE  Spec => [][OutOfService(p) => OutOfService(p)' \/ Enable(p) \/ Disable(p)]_vars
<1>1. Init => ItemsFromCombo  BY DEF Init, ItemsFromCombo, IdleChat
<1>2. IInv /\ ItemsFromCombo /\ [Next]_vars
        => [OutOfService(p) => OutOfService(p)' \/ Enable(p) \/ Disable(p)]_vars
    <2> SUFFICES ASSUME IInv, ItemsFromCombo, Next, OutOfService(p), ~Enable(p), ~Disable(p)
                 PROVE  OutOfService(p)'
        OBVIOUS
    <2>1. conn'[p].status = "cooldown"  BY RowStaysCooling
    <2>2. /\ check'[p].pc = "idle"
          /\ edit'[p].busy => edit'[p].snap.status = "cooldown"
        BY NobodyLooks
    <2>3. ASSUME NEW r \in Requests, chat'[r].pc = "update", chat'[r].p = p
          PROVE  chat'[r].snap.status = "cooldown"
        <3>1. ReadsFresh(r)  BY RequestsReadFresh
        <3> QED  BY <2>3, <3>1 DEF ReadsFresh, OutOfService
    <2> QED  BY <2>1, <2>2, <2>3 DEF OutOfService
<1> QED  BY InitInv, StepInv, ItemsFromComboKept, <1>1, <1>2, PTL DEF Spec
=============================================================================
