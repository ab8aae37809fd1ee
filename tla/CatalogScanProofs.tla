------------------------- MODULE CatalogScanProofs -------------------------
(***************************************************************************)
(* A proof for Catalog, that nothing but a list of combos on SQLite keeps  *)
(* a connection, and that every other call has its next step in hand; on   *)
(* top of the invariant of CatalogProofs.                                  *)
(***************************************************************************)
EXTENDS CatalogProofs

\* Only an UpdateProvider updates the provider: it lists the models after it.
ListsAfter(k) == \A s \in k.todo : s.do = "ProviderUpdate" => k.op = "UpdateProvider"

WorkInv == OnlyScansBlock /\ \A c \in Calls : ListsAfter(call[c])

\* No call but those that scan is who has the connection.
LEMMA Unscanned ==
    ASSUME WorkInv, NEW c \in Calls, call[c].pc # "scan"
    PROVE  conn # c /\ HasWork(call[c])
<1>1. c # Free  BY CatalogAssumption
<1> QED  BY <1>1 DEF WorkInv, OnlyScansBlock

\* A call moves, and the others keep their work.
LEMMA MoveWorks ==
    ASSUME IInv, WorkInv, NEW c \in Calls, call[c].pc # "scan",
           \A d \in Calls \ {c} :
               /\ call'[d].pc = call[d].pc /\ call'[d].op = call[d].op
               /\ call'[d].todo = call[d].todo /\ call'[d].now = call[d].now,
           HasWork(call'[c]), ListsAfter(call'[c]), UNCHANGED <<store, conn>>
    PROVE  WorkInv'
<1>1. conn # c  BY Unscanned
<1>2. conn # Free => store' = "sqlite" /\ call'[conn].pc = "scan"
    <2>1. conn \in Calls \cup {Free}  BY DEF IInv, TypeOK
    <2> QED  BY <1>1, <2>1 DEF WorkInv, OnlyScansBlock
<1>3. ASSUME NEW d \in Calls, conn # d PROVE HasWork(call'[d])
    <2>1. CASE d = c  BY <2>1
    <2>2. CASE d # c  BY <1>3, <2>2 DEF WorkInv, OnlyScansBlock, HasWork
    <2> QED  BY <2>1, <2>2
<1>4. \A d \in Calls : ListsAfter(call'[d])  BY DEF WorkInv, ListsAfter
<1>5. OnlyScansBlock'  BY <1>2, <1>3 DEF OnlyScansBlock, HasWork
<1>6. (\A d \in Calls : ListsAfter(call[d]))'  BY <1>4 DEF ListsAfter
<1> QED  BY <1>5, <1>6 DEF WorkInv

\* A call moves alone.
LEMMA MoveWorksAlone ==
    ASSUME IInv, WorkInv, NEW c \in Calls, call[c].pc # "scan", NEW k,
           call' = [call EXCEPT ![c] = k], HasWork(k), ListsAfter(k),
           UNCHANGED <<store, conn>>
    PROVE  WorkInv'
<1>1. call'[c] = k /\ \A d \in Calls \ {c} : call'[d] = call[d]  BY DEF IInv, TypeOK
<1> QED  BY <1>1, MoveWorks

LEMMA IdleWorks == HasWork(Idle) /\ ListsAfter(Idle)
BY DEF HasWork, ListsAfter, Idle

LEMMA AfterWorks ==
    ASSUME NEW k \in Call, NEW s \in k.todo, ListsAfter(k)
    PROVE  HasWork(AfterStatement(k, s)) /\ ListsAfter(AfterStatement(k, s))
<1>1. CASE k.todo # {s}
    <2> DEFINE next == [k EXCEPT !.pc = "run", !.todo = k.todo \ {s}, !.now = {}]
    <2>1. AfterStatement(k, s) = next  BY <1>1 DEF AfterStatement
    <2>2. next.pc = "run" /\ next.todo = k.todo \ {s} /\ next.op = k.op  BY DEF Call
    <2>3. next.todo # {}  BY <1>1, <2>2
    <2> HIDE DEF next
    <2>4. HasWork(next)  BY <2>2, <2>3 DEF HasWork
    <2>5. ListsAfter(next)  BY <2>2 DEF ListsAfter
    <2> QED  BY <2>1, <2>4, <2>5
<1>2. CASE k.todo = {s} /\ s.do = "ProviderUpdate"
    <2> DEFINE next == [k EXCEPT !.pc = "list", !.todo = {}, !.now = {}]
    <2>1. AfterStatement(k, s) = next  BY <1>2 DEF AfterStatement
    <2>2. next.pc = "list" /\ next.todo = {} /\ next.op = k.op  BY DEF Call
    <2>3. next.op = "UpdateProvider"  BY <1>2, <2>2 DEF ListsAfter
    <2> HIDE DEF next
    <2>4. HasWork(next)  BY <2>2, <2>3 DEF HasWork
    <2>5. ListsAfter(next)  BY <2>2 DEF ListsAfter
    <2> QED  BY <2>1, <2>4, <2>5
<1>3. CASE k.todo = {s} /\ s.do # "ProviderUpdate"
    BY <1>3, IdleWorks DEF AfterStatement
<1> QED  BY <1>1, <1>2, <1>3
-----------------------------------------------------------------------------
(* The handlers begin.                                                     *)

LEMMA BeginWorks ==
    ASSUME IInv, WorkInv, NEW c \in Calls, NEW op, NEW pc, NEW on, NEW todo,
           Begin(c, op, pc, on, todo),
           \/ pc = "run" /\ todo # {}
           \/ pc = "list" /\ op = "DeleteProvider"
           \/ pc = "execute",
           \A s \in todo : s.do = "ProviderUpdate" => op = "UpdateProvider"
    PROVE  WorkInv'
<1> DEFINE k == Fresh(op, pc, on, todo)
<1>1. call' = [call EXCEPT ![c] = k] /\ call[c].pc = "idle" /\ UNCHANGED <<store, conn>>
    BY DEF Begin, At, Fresh
<1>2. k.op = op /\ k.pc = pc /\ k.todo = todo  BY DEF Fresh, Idle
<1> HIDE DEF k
<1>3. HasWork(k)  BY <1>2 DEF HasWork
<1>4. ListsAfter(k)  BY <1>2 DEF ListsAfter
<1> QED  BY <1>1, <1>3, <1>4, MoveWorksAlone

LEMMA DeedOf ==
    ASSUME NEW turn, NEW do, NEW on
    PROVE  Strict(turn, do, on).do = do /\ Lenient(turn, do, on).do = do
BY DEF Strict, Lenient

LEMMA OneWorks ==
    ASSUME IInv, WorkInv, NEW c \in Calls, NEW op, NEW on, NEW do, NEW rows,
           Begin(c, op, "run", on, {Strict(1, do, rows)}),
           do = "ProviderUpdate" => op = "UpdateProvider"
    PROVE  WorkInv'
<1>1. \A s \in {Strict(1, do, rows)} : s.do = do  BY DeedOf
<1> QED  BY <1>1, BeginWorks

LEMMA HandlersWork ==
    ASSUME IInv, WorkInv, NEW c \in Calls, Handle(c)
    PROVE  WorkInv'
<1>1. CASE CreateProvider(c)
    <2>1. PICK ms \in SUBSET Models :
              Begin(c, "CreateProvider", "run", {Provider},
                    {Strict(1, "ProviderCreate", {Provider})}
                    \cup {Strict(2, "ModelCreate", {m}) : m \in ms})
        BY <1>1 DEF CreateProvider
    <2> DEFINE todo == {Strict(1, "ProviderCreate", {Provider})}
                       \cup {Strict(2, "ModelCreate", {m}) : m \in ms}
    <2>2. todo # {} /\ \A s \in todo : s.do # "ProviderUpdate"
        <3>1. Strict(1, "ProviderCreate", {Provider}).do = "ProviderCreate"  BY DeedOf
        <3>2. \A m \in ms : Strict(2, "ModelCreate", {m}).do = "ModelCreate"  BY DeedOf
        <3> QED  BY <3>1, <3>2
    <2>3. Begin(c, "CreateProvider", "run", {Provider}, todo)  BY <2>1
    <2> HIDE DEF todo
    <2> QED  BY <2>2, <2>3, BeginWorks
<1>2. CASE AutoGenerateCombo(c)
    <2>1. PICK is \in SUBSET Items :
              Begin(c, "AutoGenerateCombo", "run", {Combo},
                    {Strict(1, "ComboCreate", {Combo})}
                    \cup {Lenient(2, "ItemAdd", {i}) : i \in is})
        BY <1>2 DEF AutoGenerateCombo
    <2> DEFINE todo == {Strict(1, "ComboCreate", {Combo})}
                       \cup {Lenient(2, "ItemAdd", {i}) : i \in is}
    <2>2. todo # {} /\ \A s \in todo : s.do # "ProviderUpdate"
        <3>1. Strict(1, "ComboCreate", {Combo}).do = "ComboCreate"  BY DeedOf
        <3>2. \A i \in is : Lenient(2, "ItemAdd", {i}).do = "ItemAdd"  BY DeedOf
        <3> QED  BY <3>1, <3>2
    <2>3. Begin(c, "AutoGenerateCombo", "run", {Combo}, todo)  BY <2>1
    <2> HIDE DEF todo
    <2> QED  BY <2>2, <2>3, BeginWorks
<1>3. CASE AddComboItem(c)
    <2>1. PICK is \in (SUBSET Items) \ {{}} :
              Begin(c, "AddComboItem", "run", is, {Strict(1, "ItemAdd", {i}) : i \in is})
        BY <1>3 DEF AddComboItem
    <2> DEFINE todo == {Strict(1, "ItemAdd", {i}) : i \in is}
    <2>2. todo # {} /\ \A s \in todo : s.do # "ProviderUpdate"
        <3>1. \A i \in is : Strict(1, "ItemAdd", {i}).do = "ItemAdd"  BY DeedOf
        <3>2. is # {}  OBVIOUS
        <3> QED  BY <3>1, <3>2
    <2>3. Begin(c, "AddComboItem", "run", is, todo)  BY <2>1
    <2> HIDE DEF todo
    <2> QED  BY <2>2, <2>3, BeginWorks
<1>4. CASE DeleteCombo(c)
    <2>1. Begin(c, "DeleteCombo", "run", {Combo}, ComboDeletion)  BY <1>4 DEF DeleteCombo
    <2>2. ComboDeletion # {} /\ \A s \in ComboDeletion : s.do # "ProviderUpdate"
        <3>1. \/ ComboDeletion = {Strict(1, "ItemsClear", Items),
                                  Strict(2, "ComboDelete", {Combo})}
              \/ ComboDeletion = {Strict(1, "ComboDelete", {Combo})}
            BY DEF ComboDeletion, Lite!ComboDeletion, Pg!ComboDeletion, Json!ComboDeletion,
                   Lite!Strict, Pg!Strict, Json!Strict, Strict, IInv, TypeOK
        <3> QED  BY <3>1, DeedOf
    <2> QED  BY <2>1, <2>2, BeginWorks
<1>5. CASE ReorderComboItems(c)
    <2>1. PICK list \in SUBSET {i \in Items : life[i] # "unused"} :
              /\ Reordering(list) # {}
              /\ Begin(c, "ReorderComboItems", "run", list, Reordering(list))
        BY <1>5 DEF ReorderComboItems
    <2>2. \A s \in Reordering(list) : s.do # "ProviderUpdate"
        BY DEF Reordering, Lite!Reordering, Pg!Reordering, Json!Reordering,
               Lite!Strict, Pg!Lenient, Json!Strict, IInv, TypeOK
    <2> QED  BY <2>1, <2>2, BeginWorks
<1>6. CASE DeleteProvider(c) \/ ExecuteCombo(c)
    <2>1. \/ Begin(c, "DeleteProvider", "list", {Provider}, {})
          \/ Begin(c, "ExecuteCombo", "execute", {Combo}, {})
        BY <1>6 DEF DeleteProvider, ExecuteCombo
    <2> QED  BY <2>1, BeginWorks
<1>7. CASE UpdateProvider(c) \/ CreateCombo(c) \/ UpdateCombo(c) \/ DeleteUser(c)
    <2>1. CASE UpdateProvider(c)  BY <2>1, OneWorks DEF UpdateProvider
    <2>2. CASE CreateCombo(c)  BY <2>2, OneWorks DEF CreateCombo
    <2>3. CASE UpdateCombo(c)  BY <2>3, OneWorks DEF UpdateCombo
    <2>4. CASE DeleteUser(c)  BY <2>4, OneWorks DEF DeleteUser
    <2> QED  BY <1>7, <2>1, <2>2, <2>3, <2>4
<1>8. CASE CreateModel(c) \/ UpdateModel(c) \/ DeleteModel(c) \/ RemoveComboItem(c)
    <2>1. CASE CreateModel(c)  BY <2>1, OneWorks DEF CreateModel
    <2>2. CASE UpdateModel(c)  BY <2>2, OneWorks DEF UpdateModel
    <2>3. CASE DeleteModel(c)  BY <2>3, OneWorks DEF DeleteModel
    <2>4. CASE RemoveComboItem(c)  BY <2>4, OneWorks DEF RemoveComboItem
    <2> QED  BY <1>8, <2>1, <2>2, <2>3, <2>4
<1>9. CASE ListCombos(c)
    <2>1. /\ store' = "sqlite" /\ conn = Free /\ conn' = c
          /\ call' = [call EXCEPT ![c] = [Idle EXCEPT !.op = "ListCombos", !.pc = "scan"]]
        BY <1>9 DEF ListCombos, Connected
    <2>2. call'[c] = [Idle EXCEPT !.op = "ListCombos", !.pc = "scan"]
          /\ \A d \in Calls \ {c} : call'[d] = call[d]
        BY <2>1 DEF IInv, TypeOK
    <2>3. call'[c].pc = "scan" /\ call'[c].todo = {}  BY <2>2 DEF Idle
    <2>4. \A d \in Calls \ {c} : HasWork(call[d])
        BY <2>1, CatalogAssumption DEF WorkInv, OnlyScansBlock
    <2>5. OnlyScansBlock'  BY <2>1, <2>2, <2>3, <2>4 DEF OnlyScansBlock, HasWork
    <2>6. (\A d \in Calls : ListsAfter(call[d]))'
        BY <2>2, <2>3 DEF WorkInv, ListsAfter
    <2> QED  BY <2>5, <2>6 DEF WorkInv
<1> QED  BY <1>1, <1>2, <1>3, <1>4, <1>5, <1>6, <1>7, <1>8, <1>9
        DEF Handle
-----------------------------------------------------------------------------
(* The steps of a call that has begun.                                     *)

\* The connection and the store stay, the others only forget rows that have gone.
LEMMA PerformWorks ==
    ASSUME IInv, WorkInv, NEW c \in Calls, NEW s, NEW next, NEW saves,
           Performs(c, s, next, saves)
    PROVE  WorkInv'
<1>1. call[c] \in Call /\ call[c].pc # "scan" /\ s \in call[c].todo /\ s \in Statement
    BY DEF Performs, IInv, TypeOK, Call
<1>2. ListsAfter(call[c])  BY DEF WorkInv
<1>3. ASSUME NEW d \in Calls \ {c}
      PROVE  /\ call'[d].pc = call[d].pc /\ call'[d].op = call[d].op
             /\ call'[d].todo = call[d].todo /\ call'[d].now = call[d].now
    <2>1. call[d] \in Call  BY DEF IInv, TypeOK
    <2>2. call'[d] = IF call[d].op \in Creations
                     THEN [call[d] EXCEPT !.did = @ \ Ended(s)] ELSE call[d]
        BY PerformCalls
    <2> QED  BY <2>1, <2>2 DEF Call
<1> DEFINE k == Credited(c, s, saves)
<1>4. /\ k \in Call /\ k.op = call[c].op /\ k.todo = call[c].todo
    BY <1>1 DEF Credited, Call, Statement
<1>5. ListsAfter(k)  BY <1>2, <1>4 DEF ListsAfter
<1>6. HasWork(Done(c, s, saves)) /\ ListsAfter(Done(c, s, saves))
    <2>1. CASE saves
        <3> DEFINE saving == [k EXCEPT !.pc = "save", !.now = {s}]
        <3>1. Done(c, s, saves) = saving  BY <2>1 DEF Done
        <3>2. /\ saving.pc = "save" /\ saving.now = {s} /\ saving.op = k.op
              /\ saving.todo = k.todo
            BY <1>4 DEF Call
        <3> HIDE DEF saving, k
        <3>3. HasWork(saving)  BY <3>2 DEF HasWork
        <3>4. ListsAfter(saving)  BY <1>5, <3>2 DEF ListsAfter
        <3> QED  BY <3>1, <3>3, <3>4
    <2>2. CASE ~saves
        <3>1. Done(c, s, saves) = AfterStatement(k, s)  BY <2>2 DEF Done
        <3>2. s \in k.todo  BY <1>1, <1>4
        <3> HIDE DEF k
        <3> QED  BY <1>4, <1>5, <3>1, <3>2, AfterWorks
    <2> QED  BY <2>1, <2>2
<1>7. call'[c] = Done(c, s, saves)  BY PerformCalls
<1>8. UNCHANGED <<store, conn>>  BY DEF Performs
<1> QED  BY <1>1, <1>3, <1>6, <1>7, <1>8, MoveWorks

LEMMA StatementsWork ==
    ASSUME IInv, WorkInv, NEW c \in Calls, Run(c) \/ MakeMap(c) \/ FindNilMap(c)
    PROVE  WorkInv'
<1>1. CASE Run(c) \/ MakeMap(c)  BY <1>1, StatementsPerformed, PerformWorks
<1>2. CASE FindNilMap(c)
    <2>1. PICK s \in Turn(c) : call' = [call EXCEPT ![c].pc = "make", ![c].now = {s}]
        BY <1>2 DEF FindNilMap
    <2>2. /\ call[c].pc = "run" /\ UNCHANGED <<store, conn>> /\ call[c] \in Call
          /\ call \in [Calls -> Call]
        BY <1>2 DEF FindNilMap, At, IInv, TypeOK
    <2> DEFINE k == [call[c] EXCEPT !.pc = "make", !.now = {s}]
    <2>3. call' = [call EXCEPT ![c] = k]  BY <2>1, <2>2 DEF Call
    <2>4. k.pc = "make" /\ k.now = {s} /\ k.op = call[c].op /\ k.todo = call[c].todo
        BY <2>2 DEF Call
    <2> HIDE DEF k
    <2>5. HasWork(k)  BY <2>4 DEF HasWork
    <2>6. ListsAfter(k)  BY <2>4 DEF WorkInv, ListsAfter
    <2> QED  BY <2>2, <2>3, <2>5, <2>6, MoveWorksAlone
<1> QED  BY <1>1, <1>2

LEMMA PlanWorks ==
    ASSUME IInv, WorkInv, NEW c \in Calls, NEW todo, At(c, "list"), Plan(c, todo),
           \A s \in todo : s.do # "ProviderUpdate"
    PROVE  WorkInv'
<1> DEFINE k == [call[c] EXCEPT !.pc = "run", !.todo = todo]
<1>1. /\ call[c].pc = "list" /\ call[c] \in Call /\ UNCHANGED <<store, conn>>
      /\ call' = [call EXCEPT ![c] = IF todo = {} THEN Idle ELSE k]
    BY DEF Plan, At, IInv, TypeOK
<1>2. k.pc = "run" /\ k.todo = todo  BY <1>1 DEF Call
<1> HIDE DEF k
<1>3. todo # {} => HasWork(k) /\ ListsAfter(k)  BY <1>2 DEF HasWork, ListsAfter
<1> QED  BY <1>1, <1>3, IdleWorks, MoveWorksAlone

LEMMA ListsWork ==
    ASSUME IInv, WorkInv, NEW c \in Calls, ListToDelete(c) \/ ListToUpdate(c)
    PROVE  WorkInv'
<1>1. CASE ListToDelete(c)
    <2>1. PICK listed \in Listed :
              Plan(c, {Lenient(1, "ModelDelete", {m}) : m \in listed}
                      \cup {Strict(2, "ProviderDelete", {Provider})})
        BY <1>1 DEF ListToDelete
    <2> DEFINE todo == {Lenient(1, "ModelDelete", {m}) : m \in listed}
                       \cup {Strict(2, "ProviderDelete", {Provider})}
    <2>2. \A s \in todo : s.do # "ProviderUpdate"
        <3>1. Strict(2, "ProviderDelete", {Provider}).do = "ProviderDelete"  BY DeedOf
        <3>2. \A m \in listed : Lenient(1, "ModelDelete", {m}).do = "ModelDelete"  BY DeedOf
        <3> QED  BY <3>1, <3>2
    <2>3. Plan(c, todo) /\ At(c, "list")  BY <1>1, <2>1 DEF ListToDelete
    <2> HIDE DEF todo
    <2> QED  BY <2>2, <2>3, PlanWorks
<1>2. CASE ListToUpdate(c)
    <2>1. PICK listed \in Listed : \E kept \in SUBSET listed, new \in SUBSET Models :
              Plan(c, IF kept \cup new = {} THEN {}
                      ELSE {Lenient(1, "ModelUpdate", {m}) : m \in kept}
                           \cup {Lenient(1, "ModelCreate", {m}) : m \in new}
                           \cup {Lenient(2, "ModelDelete", {m}) : m \in listed \ kept})
        BY <1>2 DEF ListToUpdate
    <2>2. PICK kept \in SUBSET listed, new \in SUBSET Models :
              Plan(c, IF kept \cup new = {} THEN {}
                      ELSE {Lenient(1, "ModelUpdate", {m}) : m \in kept}
                           \cup {Lenient(1, "ModelCreate", {m}) : m \in new}
                           \cup {Lenient(2, "ModelDelete", {m}) : m \in listed \ kept})
        BY <2>1
    <2> DEFINE some == {Lenient(1, "ModelUpdate", {m}) : m \in kept}
                       \cup {Lenient(1, "ModelCreate", {m}) : m \in new}
                       \cup {Lenient(2, "ModelDelete", {m}) : m \in listed \ kept}
               todo == IF kept \cup new = {} THEN {} ELSE some
    <2>3. \A s \in some : s.do # "ProviderUpdate"
        <3>1. \A m \in kept : Lenient(1, "ModelUpdate", {m}).do = "ModelUpdate"  BY DeedOf
        <3>2. \A m \in new : Lenient(1, "ModelCreate", {m}).do = "ModelCreate"  BY DeedOf
        <3>3. \A m \in listed \ kept : Lenient(2, "ModelDelete", {m}).do = "ModelDelete"
            BY DeedOf
        <3> QED  BY <3>1, <3>2, <3>3
    <2>4. Plan(c, todo) /\ At(c, "list")  BY <1>2, <2>2 DEF ListToUpdate
    <2>5. \A s \in todo : s \in some  OBVIOUS
    <2> HIDE DEF some, todo
    <2> QED  BY <2>3, <2>4, <2>5, PlanWorks
<1> QED  BY <1>1, <1>2

LEMMA FailWorks ==
    ASSUME IInv, WorkInv, NEW c \in Calls, NEW s \in call[c].todo, Fail(c, s),
           call[c].pc # "scan", UNCHANGED <<store, conn>>
    PROVE  WorkInv'
<1>1. call[c] \in Call /\ ListsAfter(call[c])  BY DEF IInv, TypeOK, WorkInv
<1>2. CASE call' = [call EXCEPT ![c] = AfterStatement(call[c], s)]
    BY <1>1, <1>2, AfterWorks, MoveWorksAlone
<1>3. CASE call' = [call EXCEPT ![c] = Idle]
    BY <1>3, IdleWorks, MoveWorksAlone
<1>4. CASE call' = [call EXCEPT ![c] =
                       [Idle EXCEPT !.op = "Rollback", !.pc = "run",
                                    !.todo = {Lenient(1, "ProviderDelete", {Provider})}]]
    <2> DEFINE k == [Idle EXCEPT !.op = "Rollback", !.pc = "run",
                                 !.todo = {Lenient(1, "ProviderDelete", {Provider})}]
    <2>1. k.pc = "run" /\ k.todo = {Lenient(1, "ProviderDelete", {Provider})}
        BY DEF Idle
    <2>2. call' = [call EXCEPT ![c] = k]  BY <1>4
    <2>3. Lenient(1, "ProviderDelete", {Provider}).do = "ProviderDelete"  BY DeedOf
    <2> HIDE DEF k
    <2>4. HasWork(k)  BY <2>1 DEF HasWork
    <2>5. ListsAfter(k)  BY <2>1, <2>3 DEF ListsAfter
    <2> QED  BY <2>2, <2>4, <2>5, MoveWorksAlone
<1> QED  BY <1>2, <1>3, <1>4 DEF Fail

LEMMA FailuresWork ==
    ASSUME IInv, WorkInv, NEW c \in Calls,
           StatementRefused(c) \/ StatementFails(c) \/ SaveFails(c)
    PROVE  WorkInv'
<1>1. CASE StatementRefused(c) \/ StatementFails(c)
    <2>1. PICK s \in Turn(c) : Fail(c, s)
        BY <1>1 DEF StatementRefused, StatementFails
    <2>2. call[c].pc = "run" /\ UNCHANGED <<store, conn>>
        BY <1>1 DEF StatementRefused, StatementFails, At
    <2>3. s \in call[c].todo  BY DEF Turn
    <2> QED  BY <2>1, <2>2, <2>3, FailWorks
<1>2. CASE SaveFails(c)
    <2>1. PICK s \in call[c].now : Fail(c, s)  BY <1>2 DEF SaveFails
    <2>2. call[c].pc = "save" /\ UNCHANGED <<store, conn>>  BY <1>2 DEF SaveFails, At
    <2>3. s \in call[c].todo  BY DEF IInv, CallsInv, Planned
    <2> QED  BY <2>1, <2>2, <2>3, FailWorks
<1> QED  BY <1>1, <1>2

LEMMA SaveWorks == ASSUME IInv, WorkInv, NEW c \in Calls, Save(c) PROVE WorkInv'
<1>1. PICK s \in call[c].now : call' = [call EXCEPT ![c] = AfterStatement(call[c], s)]
    BY DEF Save
<1>2. call[c].pc = "save" /\ UNCHANGED <<store, conn>>  BY DEF Save, At
<1>3. s \in call[c].todo /\ call[c] \in Call /\ ListsAfter(call[c])
    BY DEF IInv, TypeOK, CallsInv, Planned, WorkInv
<1> QED  BY <1>1, <1>2, <1>3, AfterWorks, MoveWorksAlone

\* Among these is the step that gives the connection back.
LEMMA ReadsWork ==
    ASSUME IInv, WorkInv, NEW c \in Calls,
           ClientLeaves(c) \/ Execute(c) \/ ReadFails(c) \/ Recover(c)
    PROVE  WorkInv'
<1>1. CASE ReadFails(c) \/ Recover(c)
    <2>1. call[c].pc # "scan" /\ call' = [call EXCEPT ![c] = Idle] /\ UNCHANGED <<store, conn>>
        BY <1>1 DEF ReadFails, Recover, At
    <2> QED  BY <2>1, IdleWorks, MoveWorksAlone
<1>2. CASE Execute(c)
    <2> DEFINE k == [call[c] EXCEPT !.pc = "panicked"]
    <2>1. /\ call[c].pc = "execute" /\ UNCHANGED <<store, conn>> /\ call[c] \in Call
          /\ call' = [call EXCEPT ![c] = IF ComboFound THEN Idle ELSE k]
        BY <1>2 DEF Execute, At, IInv, TypeOK
    <2>2. k.pc = "panicked" /\ k.todo = call[c].todo /\ k.op = call[c].op
        BY <2>1 DEF Call
    <2> HIDE DEF k
    <2>3. HasWork(k) /\ ListsAfter(k)  BY <2>2 DEF HasWork, WorkInv, ListsAfter
    <2> QED  BY <2>1, <2>3, IdleWorks, MoveWorksAlone
<1>3. CASE ClientLeaves(c)
    <2>1. call[c].pc = "scan" /\ conn' = Free
          /\ call'[c] = Idle /\ \A d \in Calls \ {c} : call'[d] = call[d]
        BY <1>3 DEF ClientLeaves, At, IInv, TypeOK
    <2>2. conn = c  BY <2>1 DEF WorkInv, OnlyScansBlock, HasWork
    <2>3. \A d \in Calls : HasWork(call'[d])
        BY <2>1, <2>2, IdleWorks DEF WorkInv, OnlyScansBlock
    <2>4. OnlyScansBlock'  BY <2>1, <2>3 DEF OnlyScansBlock, HasWork
    <2>5. (\A d \in Calls : ListsAfter(call[d]))'
        BY <2>1, IdleWorks DEF WorkInv, ListsAfter
    <2> QED  BY <2>4, <2>5 DEF WorkInv
<1> QED  BY <1>1, <1>2, <1>3
-----------------------------------------------------------------------------
(* The property.                                                           *)

LEMMA WorkHolds == Init => WorkInv
<1> SUFFICES ASSUME Init PROVE WorkInv  OBVIOUS
<1>1. conn = Free /\ \A c \in Calls : call[c] = Idle  BY DEF Init
<1> QED  BY <1>1, IdleWorks DEF WorkInv, OnlyScansBlock

LEMMA ProcessWorks ==
    ASSUME IInv, WorkInv, Open \/ BootstrapAdmin \/ OtherSave \/ Crash \/ Stop
    PROVE  WorkInv'
<1>1. CASE Open \/ BootstrapAdmin \/ OtherSave
    <2>1. UNCHANGED <<store, conn, call>>  BY <1>1 DEF Open, BootstrapAdmin, OtherSave
    <2> QED  BY <2>1 DEF WorkInv, OnlyScansBlock, HasWork, ListsAfter
<1>2. CASE Crash \/ Stop
    <2>1. conn' = Free /\ \A c \in Calls : call'[c] = Idle  BY <1>2 DEF Crash, Stop
    <2>2. OnlyScansBlock'  BY <2>1, IdleWorks DEF OnlyScansBlock, HasWork
    <2>3. (\A c \in Calls : ListsAfter(call[c]))'  BY <2>1, IdleWorks DEF ListsAfter
    <2> QED  BY <2>2, <2>3 DEF WorkInv
<1> QED  BY <1>1, <1>2

LEMMA NextWorks == ASSUME IInv, WorkInv, [Next]_vars PROVE WorkInv'
<1>1. CASE Open \/ BootstrapAdmin \/ OtherSave \/ Crash \/ Stop  BY <1>1, ProcessWorks
<1>2. ASSUME NEW c \in Calls, Handle(c) \/ Advance(c) \/ Break(c) PROVE WorkInv'
    BY <1>2, HandlersWork, ListsWork, StatementsWork, SaveWorks, FailuresWork, ReadsWork
    DEF Advance, Break
<1>3. CASE UNCHANGED vars
    <2>1. UNCHANGED <<store, conn, call>>  BY <1>3 DEF vars
    <2> QED  BY <2>1 DEF WorkInv, OnlyScansBlock, HasWork, ListsAfter
<1> QED  BY <1>1, <1>2, <1>3 DEF Next

\* With any number of calls on any store, only a list of combos on SQLite keeps the
\* connection, and every call that does not knows its next step.
THEOREM OnlyScansHoldBack == Spec => []OnlyScansBlock
<1>1. Init => IInv /\ WorkInv  BY InitHolds, WorkHolds
<1>2. IInv /\ WorkInv /\ [Next]_vars => (IInv /\ WorkInv)'  BY NextKeeps, NextWorks
<1>3. WorkInv => OnlyScansBlock  BY DEF WorkInv
<1> QED  BY <1>1, <1>2, <1>3, PTL DEF Spec
-----------------------------------------------------------------------------
(* A call can go on.  The prover knows nothing of ENABLED; CanAdvance says *)
(* with the guards of its actions when Advance can be taken.               *)

CanAdvance(c) ==
    \/ /\ At(c, "list") /\ call[c].op \in {"DeleteProvider", "UpdateProvider"}
       /\ Listed # {}
    \/ /\ At(c, "run") /\ Connected
       /\ \E s \in Turn(c) : \/ Accepts(s) /\ ~NilMap(s)
                             \/ Accepts(s) /\ NilMap(s)
                             \/ ~Accepts(s)
    \/ At(c, "make") /\ call[c].now # {}
    \/ At(c, "save") /\ call[c].now # {}
    \/ At(c, "execute") /\ Connected
    \/ At(c, "panicked")

\* Of the statements a handler has yet to run some come first.
LEMMA SomeTurn ==
    ASSUME NEW c, call[c].todo \subseteq Statement, call[c].todo # {}
    PROVE  Turn(c) # {}
<1>1. \A s \in call[c].todo : s.turn \in {1, 2}  BY DEF Statement
<1>2. CASE \E s \in call[c].todo : s.turn = 1
    <2>1. PICK s \in call[c].todo : s.turn = 1  BY <1>2
    <2>2. \A t \in call[c].todo : s.turn <= t.turn  BY <1>1, <2>1
    <2> QED  BY <2>1, <2>2 DEF Turn
<1>3. CASE \A s \in call[c].todo : s.turn = 2
    <2>1. PICK s \in call[c].todo : TRUE  OBVIOUS
    <2>2. \A t \in call[c].todo : s.turn <= t.turn  BY <1>3, <2>1
    <2> QED  BY <2>1, <2>2 DEF Turn
<1> QED  BY <1>1, <1>2, <1>3

LEMMA WorkAdvances ==
    ASSUME IInv, WorkInv, phase = "up", conn = Free, NEW c \in Calls, call[c].pc # "idle"
    PROVE  CanAdvance(c)
<1>1. HasWork(call[c])  BY CatalogAssumption DEF WorkInv, OnlyScansBlock
<1>2. call[c] \in Call  BY DEF IInv, TypeOK
<1>3. Connected  BY DEF Connected
<1>4. CASE call[c].pc = "list"
    <2>1. call[c].op \in {"DeleteProvider", "UpdateProvider"}  BY <1>1, <1>4 DEF HasWork
    <2>2. Listed # {}  BY <1>3 DEF Listed
    <2>3. At(c, "list")  BY <1>4 DEF At
    <2> QED  BY <2>1, <2>2, <2>3 DEF CanAdvance
<1>5. CASE call[c].pc = "run"
    <2>1. call[c].todo # {}  BY <1>1, <1>5 DEF HasWork
    <2>2. call[c].todo \subseteq Statement  BY <1>2 DEF Call
    <2>3. PICK s \in Turn(c) : TRUE  BY <2>1, <2>2, SomeTurn
    <2>4. At(c, "run")  BY <1>5 DEF At
    <2> QED  BY <1>3, <2>3, <2>4 DEF CanAdvance
<1>6. CASE call[c].pc \in {"make", "save"}
    <2>1. call[c].now # {}  BY <1>1, <1>6 DEF HasWork
    <2>2. At(c, "make") \/ At(c, "save")  BY <1>6 DEF At
    <2> QED  BY <2>1, <2>2 DEF CanAdvance
<1>7. CASE call[c].pc \in {"execute", "panicked"}
    <2>1. At(c, "execute") \/ At(c, "panicked")  BY <1>7 DEF At
    <2> QED  BY <1>3, <2>1 DEF CanAdvance
<1>8. call[c].pc # "scan"  BY <1>1 DEF HasWork
<1> QED  BY <1>2, <1>4, <1>5, <1>6, <1>7, <1>8 DEF Call

\* While no list of combos has the connection, every call has a step of its own that it
\* can take, whatever the others do, with any number of calls on any store.
THEOREM NobodyWaits ==
    Spec => [](phase = "up" /\ conn = Free =>
                   \A c \in Calls : call[c].pc # "idle" => CanAdvance(c))
<1>1. Init => IInv /\ WorkInv  BY InitHolds, WorkHolds
<1>2. IInv /\ WorkInv /\ [Next]_vars => (IInv /\ WorkInv)'  BY NextKeeps, NextWorks
<1>3. IInv /\ WorkInv =>
          (phase = "up" /\ conn = Free =>
               \A c \in Calls : call[c].pc # "idle" => CanAdvance(c))
    BY WorkAdvances
<1> QED  BY <1>1, <1>2, <1>3, PTL DEF Spec

-----------------------------------------------------------------------------
(* What a list of combos on SQLite keeps from happening.                   *)

\* No statement takes effect under a list, and nothing but its end gives the
\* connection back.
HeldBack == life' = life /\ (conn' = conn \/ ClientLeaves(conn) \/ Crash \/ Stop)

LEMMA ScanHoldsBack ==
    ASSUME IInv, WorkInv, Next, conn # Free
    PROVE  HeldBack
<1>1. store = "sqlite" /\ conn \in Calls /\ call[conn].pc = "scan"
    BY DEF WorkInv, OnlyScansBlock, IInv, TypeOK
<1>2. \A c \in Calls : call[c].pc = "scan" => c = conn
    BY DEF WorkInv, OnlyScansBlock, HasWork
<1>3. \A c \in Calls : call[c].pc \notin {"save", "make"}  BY <1>1 DEF IInv, TypeOK
<1>4. ~Connected  BY DEF Connected
<1>5. phase = "up"  BY <1>1 DEF IInv, QuietDown, Idle
<1>6. CASE Open \/ BootstrapAdmin
    BY <1>5, <1>6 DEF Open, BootstrapAdmin
<1>7. CASE OtherSave \/ Crash \/ Stop
    BY <1>7 DEF OtherSave, Crash, Stop, HeldBack
<1>8. ASSUME NEW c \in Calls, Handle(c)
      PROVE  FALSE
    <2>1. \A op, pc, on, todo : ~Begin(c, op, pc, on, todo)  BY <1>4 DEF Begin
    <2>2. CASE CreateProvider(c) \/ UpdateProvider(c) \/ DeleteProvider(c)
        <3>1. ~UpdateProvider(c) /\ ~DeleteProvider(c)
            BY <2>1 DEF UpdateProvider, DeleteProvider
        <3>2. ~CreateProvider(c)  BY <2>1, Zenon DEF CreateProvider
        <3> QED  BY <2>2, <3>1, <3>2
    <2>3. CASE CreateModel(c) \/ UpdateModel(c) \/ DeleteModel(c) \/ DeleteUser(c)
        BY <2>1, <2>3 DEF CreateModel, UpdateModel, DeleteModel, DeleteUser
    <2>4. CASE CreateCombo(c) \/ AutoGenerateCombo(c) \/ UpdateCombo(c) \/ DeleteCombo(c)
        BY <2>1, <2>4 DEF CreateCombo, AutoGenerateCombo, UpdateCombo, DeleteCombo
    <2>5. CASE AddComboItem(c) \/ RemoveComboItem(c) \/ ReorderComboItems(c) \/ ExecuteCombo(c)
        BY <2>1, <2>5 DEF AddComboItem, RemoveComboItem, ReorderComboItems, ExecuteCombo
    <2>6. ~ListCombos(c)  BY <1>4 DEF ListCombos
    <2> QED  BY <1>8, <2>2, <2>3, <2>4, <2>5, <2>6 DEF Handle
<1>9. ASSUME NEW c \in Calls, Advance(c)
      PROVE  HeldBack
    <2>1. ~Run(c) /\ ~StatementRefused(c) /\ ~Execute(c)
        BY <1>4 DEF Run, StatementRefused, Execute
    <2>2. ~MakeMap(c) /\ ~Save(c)  BY <1>3 DEF MakeMap, Save, At
    <2>3. CASE ListToDelete(c) \/ ListToUpdate(c)
        <3>1. \A todo : Plan(c, todo) => UNCHANGED <<life, conn>>  BY DEF Plan
        <3>2. \E todo : Plan(c, todo)  BY <2>3 DEF ListToDelete, ListToUpdate
        <3> QED  BY <3>1, <3>2 DEF HeldBack
    <2>4. CASE FindNilMap(c) \/ Recover(c)
        BY <2>4 DEF FindNilMap, Recover, HeldBack
    <2> QED  BY <1>9, <2>1, <2>2, <2>3, <2>4 DEF Advance
<1>10. ASSUME NEW c \in Calls, Break(c)
       PROVE  HeldBack
    <2>1. ~SaveFails(c)  BY <1>3 DEF SaveFails, At
    <2>2. CASE StatementFails(c) \/ ReadFails(c)
        BY <2>2 DEF StatementFails, ReadFails, HeldBack
    <2>3. CASE ClientLeaves(c)
        <3>1. c = conn  BY <1>2, <2>3 DEF ClientLeaves, At
        <3> QED  BY <2>3, <3>1 DEF ClientLeaves, HeldBack
    <2> QED  BY <1>10, <2>1, <2>2, <2>3 DEF Break
<1> QED  BY <1>6, <1>7, <1>8, <1>9, <1>10 DEF Next

\* While a list of combos has the connection of the SQLite pool, which it keeps until
\* its own client leaves or the process ends, no row of the database changes.
THEOREM ListsFreezeTheDatabase == Spec => [][conn # Free => HeldBack]_vars
<1>1. Init => IInv /\ WorkInv  BY InitHolds, WorkHolds
<1>2. IInv /\ WorkInv /\ [Next]_vars => (IInv /\ WorkInv)'  BY NextKeeps, NextWorks
<1>3. IInv /\ WorkInv /\ [Next]_vars => [conn # Free => HeldBack]_vars
    BY ScanHoldsBack
<1> QED  BY <1>1, <1>2, <1>3, PTL DEF Spec
=============================================================================
