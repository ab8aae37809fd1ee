---------------------------- MODULE ApiKeysProofs ----------------------------
(***************************************************************************)
(* Proofs for ApiKeys and the users beside it: for any users, keys, terms, *)
(* limit, and any number of calls and of administrators in flight.         *)
(***************************************************************************)
EXTENDS ApiKeys, FiniteSetTheorems, TLAPS

\* What a handler read was there, and is still.
EditsConcernUsers ==
    \A a \in Admins : edit[a].pc # "idle" =>
        /\ users[edit[a].user] \in Row
        /\ edit[a].pc = "update" => edit[a].row \in Row

\* Nobody is banned before he exists.
BannedExist == \A u \in banned : users[u] \in Row

\* A ban shows in the row, unless an Update wrote over it.
BannedSeen == \A u \in banned \ overwritten : users[u].status # "active"

UsersInv == UsersTypeOK /\ EditsConcernUsers /\ BannedExist /\ BannedSeen

\* The calls that are about a key know which, and it exists.
CallsKnowKey ==
    \A c \in Calls :
        call[c].pc \notin {"idle", "count", "insert"} \/ call[c].op = "rotate" =>
            call[c].key \in Keys /\ Issued(call[c].key)

\* Owner and expiry of a row never change.
LookupMatches ==
    \A c \in Calls : At(c, "lookup") =>
        LET row == keys[call[c].key]
        IN  row.term = call[c].row.term /\ row.owner = call[c].row.owner

\* Where the death of a key is noticed.
DeadNoticed ==
    \A c \in Calls : call[c].keyDead =>
        /\ At(c, "lookup") => call[c].key \in answered \/ Expired(call[c].row)
        /\ At(c, "check") => Expired(call[c].row)
        /\ call[c].pc \notin {"touch", "admitted"}

\* Where a ban is.
BanNoticed ==
    \A c \in Calls : call[c].ownerBanned =>
        /\ call[c].row.owner \in banned
        /\ call[c].pc \in {"touch", "admitted"} => call[c].row.owner \in overwritten

\* The calls that have counted the keys of u and not yet created one.
Inserting(u) == {c \in Calls : At(c, "insert") /\ call[c].row.owner = u}

\* A creation that has counted is as good as a key.
Overshoot ==
    \A u \in UserIds :
        Cardinality(OwnedBy(u)) + Cardinality(Inserting(u)) <= MaxKeys + Cardinality(Calls) - 1

IInv ==
    /\ TypeOK
    /\ UsersInv
    /\ CallsKnowKey
    /\ LookupMatches
    /\ AnsweredIsRevoked
    /\ DeadNoticed
    /\ BanNoticed
    /\ Overshoot

-----------------------------------------------------------------------------
(* The users.                                                              *)

LEMMA RowsPresent == Absent \notin Row /\ Bootstrapped \in Row
BY UsersAssumption DEF Row, Absent, Bootstrapped

LEMMA UsersStart == UsersInit => UsersInv /\ banned = {}
<1> SUFFICES ASSUME UsersInit PROVE UsersInv /\ banned = {}  OBVIOUS
<1>1. PICK first : users = [u \in UserIds |-> IF u = first THEN Bootstrapped ELSE Absent]
    BY DEF UsersInit
<1>2. NoEdit \in Edit  BY UsersAssumption DEF NoEdit, Edit
<1>3. UsersTypeOK  BY <1>1, <1>2, RowsPresent DEF UsersInit, UsersTypeOK
<1>4. EditsConcernUsers  BY DEF UsersInit, EditsConcernUsers, NoEdit
<1> QED  BY <1>3, <1>4 DEF UsersInit, UsersInv, BannedExist, BannedSeen

\* A handler that answers leaves the others where they are.
LEMMA AnswerKeeps ==
    ASSUME UsersInv, NEW a \in Admins, Answers(a), users' \in [UserIds -> Row \cup {Absent}],
           \A u \in UserIds : users[u] \in Row => users'[u] \in Row
    PROVE  edit' \in [Admins -> Edit] /\ EditsConcernUsers'
<1>1. NoEdit \in Edit /\ NoEdit.pc = "idle"  BY UsersAssumption DEF NoEdit, Edit
<1>2. edit' \in [Admins -> Edit]  BY <1>1 DEF UsersInv, UsersTypeOK, Answers
<1>3. \A b \in Admins : b # a => edit'[b] = edit[b]  BY DEF UsersInv, UsersTypeOK, Answers
<1>4. edit'[a].pc = "idle"  BY <1>1 DEF UsersInv, UsersTypeOK, Answers
<1>5. \A b \in Admins : edit[b].user \in UserIds  BY DEF UsersInv, UsersTypeOK, Edit
<1> QED  BY <1>2, <1>3, <1>4, <1>5 DEF UsersInv, EditsConcernUsers

LEMMA StatusKeeps ==
    ASSUME UsersInv, NEW a \in Admins, NEW s \in {"active", "suspended", "deleted"},
           edit[a].pc # "idle", SetStatus(edit[a].user, s), Answers(a)
    PROVE  UsersInv'
<1> DEFINE u == edit[a].user
<1>1. u \in UserIds /\ users[u] \in Row  BY DEF UsersInv, UsersTypeOK, EditsConcernUsers, Edit
<1>2. /\ users' = [users EXCEPT ![u] = [users[u] EXCEPT !.status = s]]
      /\ [users[u] EXCEPT !.status = s] \in Row
    BY <1>1 DEF SetStatus, Row
<1>3. users'[u] \in Row /\ users'[u].status = s
    BY <1>1, <1>2 DEF UsersInv, UsersTypeOK, Row
<1>4. \A v \in UserIds : v # u => users'[v] = users[v]
    BY <1>2 DEF UsersInv, UsersTypeOK
<1>5. users' \in [UserIds -> Row \cup {Absent}]  BY <1>1, <1>2 DEF UsersInv, UsersTypeOK
<1>6. edit' \in [Admins -> Edit] /\ EditsConcernUsers'  BY <1>3, <1>4, <1>5, AnswerKeeps
<1>7. /\ banned' \in SUBSET UserIds /\ overwritten' \in SUBSET UserIds
      /\ s = "active" => u \notin banned'
      /\ banned' \subseteq banned \cup {u}
      /\ \A v \in overwritten : v # u \/ s # "active" => v \in overwritten'
    BY <1>1 DEF UsersInv, UsersTypeOK, SetStatus
<1>8. BannedExist'  BY <1>3, <1>4, <1>7 DEF UsersInv, UsersTypeOK, BannedExist
<1>9. BannedSeen'  BY <1>3, <1>4, <1>7 DEF UsersInv, UsersTypeOK, BannedSeen
<1> QED  BY <1>5, <1>6, <1>7, <1>8, <1>9 DEF UsersInv, UsersTypeOK

\* What the rest of the system needs of a step of the users' handlers.
BansKept ==
    /\ banned' \in SUBSET UserIds
    /\ \A u \in overwritten : u \in banned' => u \in overwritten'

LEMMA UsersStep == UsersInv /\ UsersNext => UsersInv' /\ BansKept
<1> SUFFICES ASSUME UsersInv, UsersNext PROVE UsersInv' /\ BansKept  OBVIOUS
<1> USE DEF UsersInv, UsersTypeOK, BansKept
<1>1. CASE \E u \in UserIds : CreateUser(u)
    <2>1. PICK u \in UserIds, role \in Roles :
              /\ users[u] = Absent
              /\ users' = [users EXCEPT ![u] = [role |-> role, status |-> "active"]]
        BY <1>1 DEF CreateUser
    <2>2. [role |-> role, status |-> "active"] \in Row  BY DEF Row
    <2>3. UNCHANGED <<edit, banned, overwritten>>  BY <1>1 DEF CreateUser
    <2>4. users' \in [UserIds -> Row \cup {Absent}]  BY <2>1, <2>2
    <2>5. \A v \in UserIds : v # u => users'[v] = users[v]  BY <2>1
    <2>6. u \notin banned  BY <2>1, RowsPresent DEF BannedExist
    <2>7. BannedExist' /\ BannedSeen'  BY <2>3, <2>5, <2>6 DEF BannedExist, BannedSeen
    <2>8. users'[u] \in Row  BY <2>1, <2>2
    <2>9. \A b \in Admins : edit[b].user \in UserIds  BY DEF Edit
    <2>10. EditsConcernUsers'  BY <2>3, <2>5, <2>8, <2>9 DEF EditsConcernUsers
    <2> QED  BY <2>3, <2>4, <2>7, <2>10
<1>2. CASE \E a \in Admins, u \in UserIds, handler \in {"update", "status", "delete"} :
               ReadUser(a, u, handler)
    <2>1. PICK a \in Admins, u \in UserIds, handler \in {"update", "status", "delete"} :
              ReadUser(a, u, handler)
        BY <1>2
    <2> DEFINE e == [pc |-> handler, user |-> u,
                     row |-> IF handler = "update" THEN users[u] ELSE Absent]
    <2>2. /\ edit' = [edit EXCEPT ![a] = e] /\ UNCHANGED <<users, banned, overwritten>>
          /\ users[u] \in Row
        BY <2>1 DEF ReadUser
    <2>3. e \in Edit  BY <2>2 DEF Edit
    <2>4. edit' \in [Admins -> Edit]  BY <2>2, <2>3
    <2>5. /\ edit'[a] = e /\ \A b \in Admins : b # a => edit'[b] = edit[b]  BY <2>2
    <2>6. EditsConcernUsers'  BY <2>2, <2>5 DEF EditsConcernUsers
    <2> QED  BY <2>2, <2>4, <2>6 DEF BannedExist, BannedSeen
<1>3. CASE \E a \in Admins : WriteUser(a)
    <2>1. PICK a \in Admins : WriteUser(a)  BY <1>3
    <2> DEFINE u == edit[a].user
    <2>2. PICK role \in Roles : users' = [users EXCEPT ![u] = [edit[a].row EXCEPT !.role = role]]
        BY <2>1 DEF WriteUser
    <2>3. u \in UserIds /\ edit[a].row \in Row /\ users[u] \in Row
        BY <2>1 DEF WriteUser, EditsConcernUsers, Edit
    <2> DEFINE new == [edit[a].row EXCEPT !.role = role]
    <2>4. new \in Row /\ new.status = edit[a].row.status  BY <2>3 DEF Row
    <2> HIDE DEF new
    <2>5. /\ users' \in [UserIds -> Row \cup {Absent}] /\ users'[u] = new
          /\ \A v \in UserIds : v # u => users'[v] = users[v]
        BY <2>2, <2>3, <2>4 DEF new
    <2>6. Answers(a) /\ UNCHANGED banned  BY <2>1 DEF WriteUser
    <2>7. edit' \in [Admins -> Edit] /\ EditsConcernUsers'
        BY <2>4, <2>5, <2>6, AnswerKeeps
    <2>8. /\ overwritten' = IF users[u].status = edit[a].row.status
                            THEN overwritten ELSE overwritten \cup {u}
        BY <2>1 DEF WriteUser
    <2>9. BannedExist'  BY <2>4, <2>5, <2>6 DEF BannedExist
    <2>10. BannedSeen'  BY <2>3, <2>4, <2>5, <2>6, <2>8 DEF BannedSeen
    <2> QED  BY <2>3, <2>5, <2>6, <2>7, <2>8, <2>9, <2>10
<1>4. CASE \E a \in Admins : DecideStatus(a) \/ DeleteUser(a)
    <2>1. PICK a \in Admins, s \in {"active", "suspended", "deleted"} :
              edit[a].pc # "idle" /\ SetStatus(edit[a].user, s) /\ Answers(a)
        BY <1>4 DEF DecideStatus, DeleteUser
    <2>2. edit[a].user \in UserIds  BY DEF Edit
    <2>3. BansKept  BY <2>1, <2>2 DEF SetStatus
    <2>4. UsersInv'  BY <2>1, StatusKeeps
    <2> QED  BY <2>3, <2>4
<1>5. CASE \E a \in Admins : AbandonEdit(a)
    <2>1. PICK a \in Admins : AbandonEdit(a)  BY <1>5
    <2>2. Answers(a) /\ UNCHANGED <<users, banned, overwritten>>  BY <2>1 DEF AbandonEdit
    <2>3. edit' \in [Admins -> Edit] /\ EditsConcernUsers'  BY <2>2, AnswerKeeps
    <2> QED  BY <2>2, <2>3 DEF BannedExist, BannedSeen
<1> QED  BY <1>1, <1>2, <1>3, <1>4, <1>5 DEF UsersNext

-----------------------------------------------------------------------------
(* What keys and calls may become.                                         *)

USE DEF At

\* An issued key keeps owner and expiry.
KeysKept ==
    \A k \in Keys : Issued(k) =>
        Issued(k)' /\ keys'[k].owner = keys[k].owner /\ keys'[k].term = keys[k].term

\* Nothing the invariant says of calls other than c is disturbed.
OthersWait(c) == \A d \in Calls : d # c => call'[d] = call[d]

LEMMA Helpers ==
    /\ Idle \in Call /\ Unused \in KeyRow
    /\ Idle.pc = "idle" /\ Idle.op = "create" /\ ~Idle.keyDead /\ ~Idle.ownerBanned
BY UsersAssumption DEF Idle, Unused, Call, PC, KeyRow

\* The parts of the invariant that speak of one call each.
CallInv(c) ==
    /\ call[c].pc \notin {"idle", "count", "insert"} \/ call[c].op = "rotate" =>
           call[c].key \in Keys /\ Issued(call[c].key)
    /\ At(c, "lookup") =>
           LET row == keys[call[c].key]
           IN  row.term = call[c].row.term /\ row.owner = call[c].row.owner
    /\ call[c].keyDead =>
           /\ At(c, "lookup") => call[c].key \in answered \/ Expired(call[c].row)
           /\ At(c, "check") => Expired(call[c].row)
           /\ call[c].pc \notin {"touch", "admitted"}
    /\ call[c].ownerBanned =>
           /\ call[c].row.owner \in banned
           /\ call[c].pc \in {"touch", "admitted"} => call[c].row.owner \in overwritten

LEMMA CallByCall ==
    CallsKnowKey /\ LookupMatches /\ DeadNoticed /\ BanNoticed <=> \A c \in Calls : CallInv(c)
BY DEF CallsKnowKey, LookupMatches, DeadNoticed, BanNoticed, CallInv

LEMMA CallByCallNext ==
    (\A c \in Calls : CallInv(c)') =>
        CallsKnowKey' /\ LookupMatches' /\ DeadNoticed' /\ BanNoticed'
BY DEF CallsKnowKey, LookupMatches, DeadNoticed, BanNoticed, CallInv

\* A call that waits is not disturbed by a step that keeps the keys and forgets
\* neither an answer, nor an expiry, nor a ban.
LEMMA WaitingCall ==
    ASSUME IInv, NEW c \in Calls, call'[c] = call[c], KeysKept,
           answered \subseteq answered', over \subseteq over',
           UNCHANGED <<banned, overwritten>>
    PROVE  CallInv(c)'
<1>1. CallInv(c)  BY CallByCall DEF IInv
<1> QED  BY <1>1 DEF CallInv, KeysKept, Expired

\* A step that leaves keys and users alone and moves one call keeps all that is
\* said of keys, users and the other calls.
LEMMA OneCallMoves ==
    ASSUME IInv, NEW c \in Calls, NEW to \in Call,
           call' = [call EXCEPT ![c] = to],
           UNCHANGED <<userVars, keys, over, answered>>
    PROVE  /\ TypeOK' /\ UsersInv' /\ AnsweredIsRevoked'
           /\ OthersWait(c) /\ call'[c] = to
           /\ CallInv(c)' => \A d \in Calls : CallInv(d)'
<1>1. TypeOK'  BY DEF IInv, TypeOK, UsersTypeOK, userVars
<1>2. UsersInv'
    BY DEF IInv, UsersInv, UsersTypeOK, EditsConcernUsers, BannedExist, BannedSeen, userVars
<1>3. AnsweredIsRevoked'  BY DEF IInv, AnsweredIsRevoked
<1>4. OthersWait(c) /\ call'[c] = to  BY DEF IInv, TypeOK, OthersWait
<1>5. KeysKept  BY DEF KeysKept, Issued
<1>6. \A d \in Calls : d # c => CallInv(d)'
    BY <1>4, <1>5, WaitingCall DEF OthersWait, userVars
<1> QED  BY <1>1, <1>2, <1>3, <1>4, <1>6

-----------------------------------------------------------------------------
(* Counting.                                                               *)

LEMMA Sizes ==
    ASSUME NEW u \in UserIds
    PROVE  /\ IsFiniteSet(OwnedBy(u)) /\ Cardinality(OwnedBy(u)) \in Nat
           /\ IsFiniteSet(Inserting(u)) /\ Cardinality(Inserting(u)) \in Nat
           /\ Cardinality(Inserting(u)) <= Cardinality(Calls)
           /\ Cardinality(Calls) \in Nat
<1>1. OwnedBy(u) \subseteq Keys /\ Inserting(u) \subseteq Calls  BY DEF OwnedBy, Inserting
<1> QED  BY <1>1, KeysAssumption, FS_Subset, FS_CardinalityType

\* Who owns what does not change, and nobody is about to create who was not.
LEMMA CountsShrink ==
    ASSUME Overshoot, TypeOK, TypeOK', \A u \in UserIds : OwnedBy(u)' = OwnedBy(u),
           \A u \in UserIds : Inserting(u)' \subseteq Inserting(u)
    PROVE  Overshoot'
<1> SUFFICES ASSUME NEW u \in UserIds
             PROVE  Cardinality(OwnedBy(u)') + Cardinality(Inserting(u)')
                        <= MaxKeys + Cardinality(Calls) - 1
    BY DEF Overshoot
<1>1. Cardinality(Inserting(u)') \in Nat /\ Cardinality(Inserting(u)') <= Cardinality(Inserting(u))
    BY Sizes, FS_Subset, FS_CardinalityType
<1>2. Cardinality(OwnedBy(u)) + Cardinality(Inserting(u)) <= MaxKeys + Cardinality(Calls) - 1
    BY DEF Overshoot
<1> QED  BY <1>1, <1>2, Sizes, KeysAssumption

\* A step of one call that is not a count leaves the counts alone, as long as the
\* keys keep their owners.
LEMMA MoveKeepsCounts ==
    ASSUME IInv, TypeOK', NEW c \in Calls, OthersWait(c),
           ~At(c, "insert")', \A u \in UserIds : OwnedBy(u)' = OwnedBy(u)
    PROVE  Overshoot'
<1>1. \A u \in UserIds : Inserting(u)' \subseteq Inserting(u)
    BY DEF Inserting, OthersWait
<1> QED  BY <1>1, CountsShrink DEF IInv

\* The common case: one call moves, and is not about to create.
LEMMA MoveIsKept ==
    ASSUME IInv, NEW c \in Calls, NEW to \in Call,
           call' = [call EXCEPT ![c] = to], to.pc # "insert",
           UNCHANGED <<userVars, keys, over, answered>>,
           call'[c] = to => CallInv(c)'
    PROVE  IInv'
<1>1. /\ TypeOK' /\ UsersInv' /\ AnsweredIsRevoked' /\ OthersWait(c) /\ call'[c] = to
      /\ CallInv(c)' => \A d \in Calls : CallInv(d)'
    BY OneCallMoves
<1>2. \A u \in UserIds : OwnedBy(u)' = OwnedBy(u)  BY DEF OwnedBy, Issued
<1>3. Overshoot'  BY <1>1, <1>2, MoveKeepsCounts
<1>4. \A d \in Calls : CallInv(d)'  BY <1>1
<1> QED  BY <1>1, <1>3, <1>4, CallByCallNext DEF IInv

\* A call that returns says nothing more.
LEMMA ReturnIsKept ==
    ASSUME IInv, NEW c \in Calls, Return(c), UNCHANGED <<userVars, keys, over, answered>>
    PROVE  IInv'
<1>1. call'[c] = Idle => CallInv(c)'  BY Helpers DEF CallInv
<1> QED  BY <1>1, Helpers, MoveIsKept DEF Return

LEMMA CountIsKept ==
    ASSUME IInv, NEW c \in Calls, CountKeys(c)
    PROVE  IInv'
<1>a. call[c] \in Call /\ At(c, "count")  BY DEF IInv, TypeOK, CountKeys
<1> DEFINE to == [call[c] EXCEPT !.pc = "insert"]
<1> DEFINE u == call[c].row.owner
<1>u. UNCHANGED <<userVars, keys, over, answered>>  BY DEF CountKeys
<1>o. \A v \in UserIds : OwnedBy(v)' = OwnedBy(v)  BY <1>u DEF OwnedBy, Issued
<1>1. CASE BelowLimit(u)
    <2>1. to \in Call /\ call' = [call EXCEPT ![c] = to]
        BY <1>1, <1>a DEF CountKeys, Goto, Call, PC, IInv, TypeOK
    <2>2. /\ TypeOK' /\ UsersInv' /\ AnsweredIsRevoked' /\ OthersWait(c) /\ call'[c] = to
          /\ CallInv(c)' => \A d \in Calls : CallInv(d)'
        BY <2>1, <1>u, OneCallMoves
    <2>3. CallInv(c)  BY CallByCall DEF IInv
    <2>4. CallInv(c)'  BY <1>a, <1>u, <2>2, <2>3 DEF CallInv, Call, userVars, Expired, Issued
    <2>5. u \in UserIds  BY <1>a DEF Call, KeyRow
    <2>6. ASSUME NEW v \in UserIds
          PROVE  Cardinality(OwnedBy(v)') + Cardinality(Inserting(v)')
                     <= MaxKeys + Cardinality(Calls) - 1
        <3>1. CASE v = u
            <4>1. Inserting(v)' \subseteq Calls  BY DEF Inserting
            <4>2. Cardinality(Inserting(v)') \in Nat
                  /\ Cardinality(Inserting(v)') <= Cardinality(Calls)
                BY <4>1, KeysAssumption, FS_Subset, FS_CardinalityType
            <4>3. Cardinality(OwnedBy(v)) < MaxKeys  BY <1>1, <3>1 DEF BelowLimit
            <4> QED  BY <1>o, <4>2, <4>3, Sizes, KeysAssumption
        <3>2. CASE v # u
            <4>1. Inserting(v)' = Inserting(v)
                BY <3>2, <1>a, <2>2 DEF Inserting, OthersWait, Call
            <4> QED  BY <1>o, <4>1 DEF IInv, Overshoot
        <3> QED  BY <3>1, <3>2
    <2>7. Overshoot'  BY <2>6 DEF Overshoot
    <2> QED  BY <2>2, <2>4, <2>7, CallByCallNext DEF IInv
<1>2. CASE ~BelowLimit(u)
    BY <1>2, <1>u, ReturnIsKept DEF CountKeys
<1> QED  BY <1>1, <1>2

-----------------------------------------------------------------------------
(* The steps that do not change the keys.                                  *)

LEMMA StartIsKept ==
    ASSUME IInv, NEW c \in Calls, At(c, "idle"), NEW pc \in PC, NEW row \in KeyRow,
           NEW op \in {"create", "rotate", "revoke", "validate"}, NEW k \in Keys \cup {NoKey},
           Starts(c, pc, op, k, row), UNCHANGED <<userVars, keys, over, answered>>,
           pc \in {"count", "revoke", "lookup"}, pc = "lookup" => row = keys[k],
           pc # "count" \/ op = "rotate" => k \in Keys /\ Issued(k)
    PROVE  IInv'
<1> DEFINE to == [pc |-> pc, op |-> op, key |-> k, row |-> row,
                  keyDead |-> op = "validate" /\ (k \in answered \/ Expired(row)),
                  ownerBanned |-> op = "validate" /\ row.owner \in banned]
<1>1. to \in Call  BY DEF Call
<1>2. /\ to.pc = pc /\ to.op = op /\ to.key = k /\ to.row = row
      /\ to.keyDead => k \in answered \/ Expired(row)
      /\ to.ownerBanned => row.owner \in banned
    OBVIOUS
<1>3. call' = [call EXCEPT ![c] = to]  BY DEF Starts
<1> HIDE DEF to
<1>4. call'[c] = to => CallInv(c)'  BY <1>2 DEF CallInv, Expired, userVars, Issued
<1> QED  BY <1>1, <1>2, <1>3, <1>4, MoveIsKept

LEMMA LookupIsKept == ASSUME IInv, NEW c \in Calls, Lookup(c) PROVE IInv'
<1>u. UNCHANGED <<userVars, keys, over, answered>> /\ At(c, "lookup")  BY DEF Lookup
<1>i. call[c] \in Call /\ CallInv(c)  BY CallByCall DEF IInv, TypeOK
<1>k. call[c].key \in Keys  BY <1>u, <1>i DEF CallInv
<1>1. CASE keys[call[c].key].status = "active"
    <2> DEFINE to == [call[c] EXCEPT !.pc = "check", !.row = keys[call[c].key]]
    <2>1. keys[call[c].key] \in KeyRow  BY <1>k DEF IInv, TypeOK
    <2>2. to \in Call /\ to.pc = "check"  BY <1>i, <2>1 DEF Call, PC
    <2>3. call' = [call EXCEPT ![c] = to]
        BY <1>1 DEF Lookup, IInv, TypeOK
    <2>4. call[c].key \notin answered  BY <1>1, <1>k DEF IInv, AnsweredIsRevoked
    <2>5. /\ to.key = call[c].key /\ to.row = keys[call[c].key] /\ to.op = call[c].op
          /\ to.keyDead = call[c].keyDead /\ to.ownerBanned = call[c].ownerBanned
        BY <1>i DEF Call
    <2> HIDE DEF to
    <2>6. call'[c] = to => CallInv(c)'
        BY <1>u, <1>i, <1>k, <2>2, <2>4, <2>5 DEF CallInv, Expired, Issued, userVars
    <2> QED  BY <1>u, <2>2, <2>3, <2>6, MoveIsKept
<1>2. CASE keys[call[c].key].status # "active"  BY <1>2, <1>u, ReturnIsKept DEF Lookup
<1> QED  BY <1>1, <1>2

\* Moving on with nothing else changed.
LEMMA GotoIsKept ==
    ASSUME IInv, NEW c \in Calls, NEW pc \in {"touch", "admitted"}, Goto(c, pc),
           call[c].pc \in {"check", "touch"}, UNCHANGED <<userVars, keys, over, answered>>,
           ~call[c].keyDead, call[c].ownerBanned => call[c].row.owner \in overwritten
    PROVE  IInv'
<1> DEFINE to == [call[c] EXCEPT !.pc = pc]
<1>1. call[c] \in Call /\ CallInv(c)  BY CallByCall DEF IInv, TypeOK
<1>2. to \in Call /\ to.pc = pc  BY <1>1 DEF Call, PC
<1>3. /\ to.key = call[c].key /\ to.row = call[c].row /\ to.op = call[c].op
      /\ to.keyDead = call[c].keyDead /\ to.ownerBanned = call[c].ownerBanned
    BY <1>1 DEF Call
<1>4. call' = [call EXCEPT ![c] = to]  BY DEF Goto, IInv, TypeOK
<1> HIDE DEF to
<1>5. call'[c] = to => CallInv(c)'  BY <1>1, <1>2, <1>3 DEF CallInv, Expired, Issued, userVars
<1> QED  BY <1>2, <1>4, <1>5, MoveIsKept

LEMMA CheckIsKept == ASSUME IInv, NEW c \in Calls, CheckOwner(c) PROVE IInv'
<1>u. UNCHANGED <<userVars, keys, over, answered>> /\ At(c, "check")  BY DEF CheckOwner
<1>1. CASE Good(call[c].row)
    <2>1. CallInv(c) /\ call[c].row.owner \in UserIds
        BY CallByCall DEF IInv, TypeOK, Call, KeyRow
    <2>2. ~call[c].keyDead  BY <1>1, <1>u, <2>1 DEF CallInv, Good
    <2>3. ASSUME call[c].ownerBanned PROVE call[c].row.owner \in overwritten
        <3>1. call[c].row.owner \in banned  BY <2>1, <2>3 DEF CallInv
        <3>2. users[call[c].row.owner].status = "active"  BY <1>1 DEF Good
        <3> QED  BY <3>1, <3>2 DEF IInv, UsersInv, BannedSeen
    <2> QED  BY <1>1, <1>u, <2>2, <2>3, GotoIsKept DEF CheckOwner
<1>2. CASE ~Good(call[c].row)  BY <1>2, <1>u, ReturnIsKept DEF CheckOwner
<1> QED  BY <1>1, <1>2

LEMMA TouchIsKept == ASSUME IInv, NEW c \in Calls, Touch(c) PROVE IInv'
<1>1. CallInv(c) /\ At(c, "touch")  BY CallByCall DEF IInv, Touch
<1>2. ~call[c].keyDead /\ (call[c].ownerBanned => call[c].row.owner \in overwritten)
    BY <1>1 DEF CallInv
<1> QED  BY <1>1, <1>2, GotoIsKept DEF Touch

-----------------------------------------------------------------------------
(* The steps that do.                                                      *)

\* One key changes, or is created, by a call that moves.
LEMMA KeyWriteIsKept ==
    ASSUME IInv, NEW c \in Calls, NEW to \in Call, call' = [call EXCEPT ![c] = to],
           to.pc # "insert", KeysKept, keys' \in [Keys -> KeyRow],
           answered' \in SUBSET Keys, answered \subseteq answered', AnsweredIsRevoked',
           UNCHANGED <<userVars, over>>, call'[c] = to => CallInv(c)', Overshoot'
    PROVE  IInv'
<1>1. TypeOK'  BY DEF IInv, TypeOK, UsersTypeOK, userVars
<1>2. UsersInv'
    BY DEF IInv, UsersInv, UsersTypeOK, EditsConcernUsers, BannedExist, BannedSeen, userVars
<1>3. \A d \in Calls : d # c => call'[d] = call[d]  BY DEF IInv, TypeOK
<1>4. \A d \in Calls : d # c => CallInv(d)'  BY <1>3, WaitingCall DEF userVars
<1>5. call'[c] = to  BY DEF IInv, TypeOK
<1>6. \A d \in Calls : CallInv(d)'  BY <1>4, <1>5
<1> QED  BY <1>1, <1>2, <1>6, CallByCallNext DEF IInv

LEMMA InsertIsKept == ASSUME IInv, NEW c \in Calls, InsertKey(c) PROVE IInv'
<1>1. PICK k \in Keys :
          ~Issued(k) /\ keys' = [keys EXCEPT ![k] = [call[c].row EXCEPT !.status = "active"]]
    BY DEF InsertKey
<1> DEFINE new == [call[c].row EXCEPT !.status = "active"]
<1> DEFINE u == call[c].row.owner
<1>i. call[c] \in Call /\ CallInv(c) /\ At(c, "insert")
    BY CallByCall DEF IInv, TypeOK, InsertKey
<1>u. UNCHANGED <<userVars, over, answered>>  BY DEF InsertKey
<1>2. new \in KeyRow /\ new.owner = u /\ new.status = "active" /\ u \in UserIds
    BY <1>i DEF Call, KeyRow
<1> HIDE DEF new
<1>3. /\ keys' \in [Keys -> KeyRow] /\ keys'[k] = new
      /\ \A j \in Keys : j # k => keys'[j] = keys[j]
    BY <1>1, <1>2 DEF IInv, TypeOK, new
<1>4. KeysKept  BY <1>1, <1>3 DEF KeysKept, Issued
<1>5. AnsweredIsRevoked'  BY <1>1, <1>3, <1>u DEF IInv, TypeOK, AnsweredIsRevoked, Issued
<1>6. PICK to \in Call : /\ call' = [call EXCEPT ![c] = to] /\ to.pc \in {"idle", "revoke"}
                         /\ to.pc = "revoke" => to.key = call[c].key /\ call[c].op = "rotate"
                         /\ to.pc = "idle" => to = Idle
                         /\ to.keyDead => call[c].keyDead
                         /\ to.ownerBanned => call[c].ownerBanned /\ to.row = call[c].row
    <2>1. CASE call[c].op = "rotate"
        <3> DEFINE to == [call[c] EXCEPT !.pc = "revoke"]
        <3>1. /\ to \in Call /\ to.pc = "revoke" /\ to.key = call[c].key /\ to.row = call[c].row
              /\ to.keyDead = call[c].keyDead /\ to.ownerBanned = call[c].ownerBanned
            BY <1>i DEF Call, PC
        <3>2. call' = [call EXCEPT ![c] = to]  BY <2>1 DEF InsertKey, Goto, IInv, TypeOK
        <3> QED  BY <2>1, <3>1, <3>2
    <2>2. CASE call[c].op # "rotate"  BY <2>2, Helpers DEF InsertKey, Return
    <2> QED  BY <2>1, <2>2
<1>7. call'[c] = to => CallInv(c)'
    BY <1>i, <1>4, <1>6, <1>u, Helpers DEF CallInv, userVars, KeysKept
<1>8. /\ call'[c] = to /\ \A d \in Calls : d # c => call'[d] = call[d]
    BY <1>6 DEF IInv, TypeOK
<1>9. ASSUME NEW v \in UserIds
      PROVE  Cardinality(OwnedBy(v)') + Cardinality(Inserting(v)')
                 <= MaxKeys + Cardinality(Calls) - 1
    <2>0. Cardinality(OwnedBy(v)) + Cardinality(Inserting(v)) <= MaxKeys + Cardinality(Calls) - 1
        BY DEF IInv, Overshoot
    <2>1. CASE v = u
        <3>1. OwnedBy(v)' = OwnedBy(v) \cup {k} /\ k \notin OwnedBy(v)
            BY <1>1, <1>2, <1>3, <2>1 DEF OwnedBy, Issued
        <3>2. Cardinality(OwnedBy(v)') = Cardinality(OwnedBy(v)) + 1
            BY <3>1, Sizes, FS_AddElement
        <3>3. Inserting(v)' = Inserting(v) \ {c} /\ c \in Inserting(v)
            BY <1>6, <1>8, <1>i, <2>1 DEF Inserting
        <3>4. Cardinality(Inserting(v)') = Cardinality(Inserting(v)) - 1
            BY <3>3, Sizes, FS_RemoveElement
        <3> QED  BY <2>0, <3>2, <3>4, Sizes, KeysAssumption
    <2>2. CASE v # u
        <3>1. OwnedBy(v)' = OwnedBy(v)  BY <1>1, <1>2, <1>3, <2>2 DEF OwnedBy, Issued
        <3>2. Inserting(v)' = Inserting(v)  BY <1>6, <1>8, <1>i, <2>2 DEF Inserting
        <3> QED  BY <2>0, <3>1, <3>2
    <2> QED  BY <2>1, <2>2
<1>10. Overshoot'  BY <1>9 DEF Overshoot
<1>11. answered' \in SUBSET Keys /\ answered \subseteq answered'
    BY <1>u DEF IInv, TypeOK
<1> QED  BY <1>3, <1>4, <1>5, <1>6, <1>7, <1>10, <1>11, <1>u, KeyWriteIsKept

LEMMA RevokeIsKept == ASSUME IInv, NEW c \in Calls, Revoke(c) PROVE IInv'
<1> DEFINE k == call[c].key
<1>1. CallInv(c) /\ At(c, "revoke")  BY CallByCall DEF IInv, Revoke
<1>2. k \in Keys /\ keys[k] \in KeyRow  BY <1>1 DEF CallInv, IInv, TypeOK
<1> DEFINE new == [keys[k] EXCEPT !.status = "revoked"]
<1>3. /\ new \in KeyRow /\ new.status = "revoked"
      /\ new.owner = keys[k].owner /\ new.term = keys[k].term
    BY <1>2 DEF KeyRow
<1>4. keys' = [keys EXCEPT ![k] = new]  BY <1>2 DEF Revoke, IInv, TypeOK
<1> HIDE DEF new
<1>5. /\ keys' \in [Keys -> KeyRow] /\ keys'[k] = new
      /\ \A j \in Keys : j # k => keys'[j] = keys[j]
    BY <1>2, <1>3, <1>4 DEF IInv, TypeOK
<1>6. KeysKept  BY <1>3, <1>5 DEF KeysKept, Issued
<1>7. /\ answered' \in SUBSET Keys /\ answered \subseteq answered'
      /\ AnsweredIsRevoked' /\ UNCHANGED <<userVars, over>>
    BY <1>2, <1>3, <1>5 DEF Revoke, IInv, TypeOK, AnsweredIsRevoked
<1>8. call' = [call EXCEPT ![c] = Idle]  BY DEF Revoke, Return
<1>9. call'[c] = Idle => CallInv(c)'  BY Helpers DEF CallInv
<1>10. /\ call'[c] = Idle /\ \A d \in Calls : d # c => call'[d] = call[d]
    BY <1>8 DEF IInv, TypeOK
<1>11. ASSUME NEW v \in UserIds
       PROVE  Cardinality(OwnedBy(v)') + Cardinality(Inserting(v)')
                  <= MaxKeys + Cardinality(Calls) - 1
    <2>1. OwnedBy(v)' = OwnedBy(v)  BY <1>1, <1>3, <1>5 DEF OwnedBy, Issued, CallInv
    <2>2. Inserting(v)' = Inserting(v)  BY <1>1, <1>10, Helpers DEF Inserting
    <2> QED  BY <2>1, <2>2 DEF IInv, Overshoot
<1>12. Overshoot'  BY <1>11 DEF Overshoot
<1> QED  BY <1>5, <1>6, <1>7, <1>8, <1>9, <1>12, Helpers, KeyWriteIsKept

LEMMA ExpireIsKept == ASSUME IInv, NEW term \in Terms, Expire(term) PROVE IInv'
<1>1. /\ UNCHANGED <<userVars, keys, call, answered>> /\ over' = over \cup {term}
    BY DEF Expire
<1>2. TypeOK' /\ UsersInv' /\ AnsweredIsRevoked'
    BY <1>1 DEF IInv, TypeOK, UsersInv, UsersTypeOK, EditsConcernUsers, BannedExist, BannedSeen,
                userVars, AnsweredIsRevoked
<1>3. KeysKept  BY <1>1 DEF KeysKept, Issued
<1>4. \A c \in Calls : CallInv(c)'  BY <1>1, <1>3, WaitingCall DEF userVars
<1>5. /\ \A u \in UserIds : OwnedBy(u)' = OwnedBy(u) /\ Inserting(u)' = Inserting(u)
    BY <1>1 DEF OwnedBy, Inserting, Issued
<1>6. Overshoot'  BY <1>2, <1>5, CountsShrink DEF IInv
<1> QED  BY <1>2, <1>4, <1>6, CallByCallNext DEF IInv

LEMMA UserStepIsKept == ASSUME IInv, UserStep PROVE IInv'
<1>1. UNCHANGED <<keys, over, answered>> /\ UsersNext  BY DEF UserStep
<1>2. UsersInv' /\ BansKept  BY <1>1, UsersStep DEF IInv
<1> DEFINE to(c) == [call[c] EXCEPT !.ownerBanned = @ /\ call[c].row.owner \in banned']
<1>3. call' = [c \in Calls |-> to(c)]  BY DEF UserStep
<1>4. ASSUME NEW c \in Calls
      PROVE  /\ to(c) \in Call /\ to(c).pc = call[c].pc /\ to(c).op = call[c].op
             /\ to(c).key = call[c].key /\ to(c).row = call[c].row
             /\ to(c).keyDead = call[c].keyDead
             /\ to(c).ownerBanned => call[c].ownerBanned /\ call[c].row.owner \in banned'
    BY DEF IInv, TypeOK, Call
<1> HIDE DEF to
<1>5. call' \in [Calls -> Call]  BY <1>3, <1>4
<1>6. TypeOK'  BY <1>1, <1>2, <1>5 DEF IInv, TypeOK, UsersInv
<1>7. ASSUME NEW c \in Calls PROVE CallInv(c)'
    <2>1. CallInv(c) /\ call'[c] = to(c)  BY <1>3, CallByCall DEF IInv
    <2> QED  BY <1>1, <1>2, <1>4, <2>1 DEF CallInv, Issued, Expired, BansKept
<1>8. \A u \in UserIds : OwnedBy(u)' = OwnedBy(u) /\ Inserting(u)' = Inserting(u)
    BY <1>1, <1>3, <1>4 DEF OwnedBy, Inserting, Issued
<1>9. Overshoot'  BY <1>6, <1>8, CountsShrink DEF IInv
<1>10. AnsweredIsRevoked'  BY <1>1 DEF IInv, AnsweredIsRevoked
<1> QED  BY <1>2, <1>6, <1>7, <1>9, <1>10, CallByCallNext DEF IInv

-----------------------------------------------------------------------------
(* The invariant.                                                          *)

LEMMA Start == Init => IInv
<1> SUFFICES ASSUME Init PROVE IInv  OBVIOUS
<1>1. UsersInv  BY UsersStart DEF Init
<1>2. TypeOK  BY <1>1, Helpers DEF Init, TypeOK, UsersInv
<1>3. \A c \in Calls : CallInv(c)  BY Helpers DEF Init, CallInv
<1>4. AnsweredIsRevoked  BY DEF Init, AnsweredIsRevoked
<1>5. ASSUME NEW u \in UserIds
      PROVE  Cardinality(OwnedBy(u)) + Cardinality(Inserting(u))
                 <= MaxKeys + Cardinality(Calls) - 1
    <2>1. OwnedBy(u) = {} /\ Inserting(u) = {}
        BY Helpers DEF Init, OwnedBy, Inserting, Issued, Unused
    <2> QED  BY <2>1, Sizes, FS_EmptySet, KeysAssumption
<1>6. Overshoot  BY <1>5 DEF Overshoot
<1> QED  BY <1>1, <1>2, <1>3, <1>4, <1>6, CallByCall DEF IInv

LEMMA Step == IInv /\ [Next]_vars => IInv'
<1> SUFFICES ASSUME IInv, [Next]_vars PROVE IInv'  OBVIOUS
<1>1. CASE UserStep  BY <1>1, UserStepIsKept
<1>2. CASE \E term \in Terms : Expire(term)  BY <1>2, ExpireIsKept
<1>3. ASSUME NEW c \in Calls, NEW u \in UserIds, NEW term \in Terms, StartCreate(c, u, term)
      PROVE  IInv'
    <2>1. [owner |-> u, term |-> term, status |-> "active"] \in KeyRow  BY DEF KeyRow
    <2> QED  BY <1>3, <2>1, Helpers, StartIsKept DEF StartCreate, PC, Idle
<1>4. ASSUME NEW c \in Calls, NEW k \in Keys,
             StartRotate(c, k) \/ StartRevoke(c, k) \/ StartValidate(c, k)
      PROVE  IInv'
    <2>1. keys[k] \in KeyRow /\ Unused \in KeyRow  BY Helpers DEF IInv, TypeOK
    <2>2. CASE StartRotate(c, k)  BY <2>1, <2>2, StartIsKept DEF StartRotate, PC, Issued
    <2>3. CASE StartRevoke(c, k)  BY <2>1, <2>3, StartIsKept DEF StartRevoke, PC
    <2>4. CASE StartValidate(c, k)  BY <2>1, <2>4, StartIsKept DEF StartValidate, PC
    <2> QED  BY <1>4, <2>2, <2>3, <2>4
<1>5. ASSUME NEW c \in Calls, Served(c) \/ Fail(c) PROVE IInv'
    BY <1>5, ReturnIsKept DEF Served, Fail
<1>6. ASSUME NEW c \in Calls,
             CountKeys(c) \/ InsertKey(c) \/ Revoke(c) \/ Lookup(c) \/ CheckOwner(c) \/ Touch(c)
      PROVE  IInv'
    BY <1>6, CountIsKept, InsertIsKept, RevokeIsKept, LookupIsKept, CheckIsKept, TouchIsKept
<1>7. CASE UNCHANGED vars
    <2>1. UNCHANGED <<userVars, keys, call, over, answered>>  BY <1>7 DEF vars, keyVars
    <2>2. TypeOK' /\ UsersInv' /\ AnsweredIsRevoked'
        BY <2>1 DEF IInv, TypeOK, UsersInv, UsersTypeOK, EditsConcernUsers, BannedExist, BannedSeen,
                    userVars, AnsweredIsRevoked
    <2>3. KeysKept  BY <2>1 DEF KeysKept, Issued
    <2>4. \A c \in Calls : CallInv(c)'  BY <2>1, <2>3, WaitingCall DEF userVars
    <2>5. \A u \in UserIds : OwnedBy(u)' = OwnedBy(u) /\ Inserting(u)' = Inserting(u)
        BY <2>1 DEF OwnedBy, Inserting, Issued
    <2>6. Overshoot'  BY <2>2, <2>5, CountsShrink DEF IInv
    <2> QED  BY <2>2, <2>4, <2>6, CallByCallNext DEF IInv
<1> QED  BY <1>1, <1>2, <1>3, <1>4, <1>5, <1>6, <1>7 DEF Next

LEMMA Invariance == Spec => []IInv
BY Start, Step, PTL DEF Spec

\* Rows, calls and edits have their types.
THEOREM TypeCorrect == Spec => []TypeOK
<1>1. IInv => TypeOK  BY DEF IInv
<1> QED  BY <1>1, Invariance, PTL

\* CreateKey and RotateKey exceed the limit by less than the calls in flight, for
\* any limit and any number of calls.
THEOREM OvershootBounded == Spec => []KeysBounded
<1>1. IInv => KeysBounded
    <2> SUFFICES ASSUME IInv, NEW u \in UserIds
                 PROVE  Cardinality(OwnedBy(u)) <= MaxKeys + Cardinality(Calls) - 1
        BY DEF KeysBounded
    <2>1. Cardinality(OwnedBy(u)) + Cardinality(Inserting(u)) <= MaxKeys + Cardinality(Calls) - 1
        BY DEF IInv, Overshoot
    <2> QED  BY <2>1, Sizes, KeysAssumption
<1> QED  BY <1>1, Invariance, PTL

\* RevokeKey and RotateKey keep what they answered.
THEOREM RevocationsHold == Spec => []AnsweredIsRevoked
<1>1. IInv => AnsweredIsRevoked  BY DEF IInv
<1> QED  BY <1>1, Invariance, PTL

\* ValidateKey refuses keys that were revoked or over when it began.
THEOREM DeadKeysRefused == Spec => []DeadKeyRefused
<1>1. IInv => DeadKeyRefused  BY DEF IInv, DeadNoticed, DeadKeyRefused
<1> QED  BY <1>1, Invariance, PTL

\* ValidateKey refuses a banned owner's key, unless an Update wrote over the ban.
THEOREM BansHoldUnlessOverwritten == Spec => []BannedNeedsOverwrite
<1>1. IInv => BannedNeedsOverwrite  BY DEF IInv, BanNoticed, BannedNeedsOverwrite
<1> QED  BY <1>1, Invariance, PTL
=============================================================================
