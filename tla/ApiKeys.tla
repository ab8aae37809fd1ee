------------------------------- MODULE ApiKeys -------------------------------
(***************************************************************************)
(* ApiKeyService over the api_keys table, with the users beside it: the    *)
(* owner's status decides whether a key is good.  CreateKey, RevokeKey,    *)
(* RotateKey and ValidateKey are sequences of single statements without a  *)
(* transaction; calls interleave with each other and with the handlers of  *)
(* Users between any two.                                                  *)
(*                                                                         *)
(* A key string is named by the id of its row: prefixes only narrow the    *)
(* search.  Names and scopes are left out.  An expiry is one of a few      *)
(* terms, which a rotation hands on; over holds the terms that have passed.*)
(***************************************************************************)
EXTENDS Users

CONSTANTS
    Keys,       \* the ids keys can get (bound)
    Calls,      \* calls of the service in flight at a time (bound)
    Terms,      \* values of expires_at (bound)
    Never,      \* its absence
    NoKey,      \* the call concerns no key yet
    MaxKeys     \* 10

ASSUME KeysAssumption ==
    /\ IsFiniteSet(Keys) /\ IsFiniteSet(Calls)
    /\ MaxKeys \in Nat \ {0}
    /\ NoKey \notin Keys

VARIABLES
    keys,      \* keys[k]: the row of api_keys
    call,      \* call[c]: where the call is, and what it holds
    over,      \* the terms that have passed
    answered   \* history: keys whose revocation or rotation was answered
               \* with success

keyVars == <<keys, call, over, answered>>

vars == <<userVars, keyVars>>

KeyRow == [owner : UserIds, term : Terms \cup {Never}, status : {"active", "revoked", "unused"}]

PC == {"idle", "count", "insert", "revoke", "lookup", "check", "touch", "admitted"}

\* For a creation, row is the row to be inserted; for a rotation and a validation
\* the copy read.
\* keyDead (history): when the validation began, the key's revocation had been
\* answered, or its expiry had passed.
\* ownerBanned (history): its owner was banned then, and has been since.
Call == [pc : PC, op : {"create", "revoke", "rotate", "validate"}, key : Keys \cup {NoKey}, row : KeyRow,
         keyDead : BOOLEAN, ownerBanned : BOOLEAN]

TypeOK ==
    /\ UsersTypeOK
    /\ keys \in [Keys -> KeyRow]
    /\ call \in [Calls -> Call]
    /\ over \in SUBSET Terms
    /\ answered \in SUBSET Keys

Unused == [owner |-> CHOOSE u \in UserIds : TRUE, term |-> Never, status |-> "unused"]

Idle == [pc |-> "idle", op |-> "create", key |-> NoKey, row |-> Unused,
         keyDead |-> FALSE, ownerBanned |-> FALSE]

Init ==
    /\ UsersInit
    /\ keys = [k \in Keys |-> Unused]
    /\ call = [c \in Calls |-> Idle]
    /\ over = {}
    /\ answered = {}

Issued(k) == keys[k].status # "unused"

\* What CountByUser counts: all rows of u, the revoked ones too.
OwnedBy(u) == {k \in Keys : Issued(k) /\ keys[k].owner = u}

Expired(row) == row.term \in over

At(c, pc) == call[c].pc = pc

Goto(c, pc) == call' = [call EXCEPT ![c].pc = pc]

\* The call returns.
Return(c) == call' = [call EXCEPT ![c] = Idle]

Starts(c, pc, op, k, row) ==
    call' = [call EXCEPT ![c] =
        [pc |-> pc, op |-> op, key |-> k, row |-> row,
         keyDead |-> op = "validate" /\ (k \in answered \/ Expired(row)),
         ownerBanned |-> op = "validate" /\ row.owner \in banned]]

\* CreateOwnKey and the administrators' Create: any user, any expiry, past ones too.
StartCreate(c, u, term) ==
    /\ At(c, "idle")
    /\ Starts(c, "count", "create", NoKey, [owner |-> u, term |-> term, status |-> "active"])
    /\ UNCHANGED <<userVars, keys, over, answered>>

\* RotateKey reads the key and goes on to CreateKey with what it read.
StartRotate(c, k) ==
    /\ At(c, "idle")
    /\ keys[k].status = "active"
    /\ Starts(c, "count", "rotate", k, keys[k])
    /\ UNCHANGED <<userVars, keys, over, answered>>

\* RevokeKey, called by Revoke and by RevokeOwnKey, which reads the row once more
\* before.
StartRevoke(c, k) ==
    /\ At(c, "idle")
    /\ Issued(k)
    /\ Starts(c, "revoke", "revoke", k, Unused)
    /\ UNCHANGED <<userVars, keys, over, answered>>

\* RequireAPIKey: a client sends a key it once got.
StartValidate(c, k) ==
    /\ At(c, "idle")
    /\ Issued(k)
    /\ Starts(c, "lookup", "validate", k, keys[k])
    /\ UNCHANGED <<userVars, keys, over, answered>>

(* Mutant: the limit itself is let through.                                   *)
UpToLimit(u) == Cardinality(OwnedBy(u)) <= MaxKeys

BelowLimit(u) == Cardinality(OwnedBy(u)) < MaxKeys

\* CreateKey: CountByUser, and an error at the limit.
CountKeys(c) ==
    /\ At(c, "count")
    /\ IF BelowLimit(call[c].row.owner) THEN Goto(c, "insert") ELSE Return(c)
    /\ UNCHANGED <<userVars, keys, over, answered>>

\* CreateKey: Create.  A rotation goes on to revoke the old key.
InsertKey(c) ==
    /\ At(c, "insert")
    /\ \E k \in Keys :
           /\ ~Issued(k)
           /\ keys' = [keys EXCEPT ![k] = [call[c].row EXCEPT !.status = "active"]]
    /\ IF call[c].op = "rotate" THEN Goto(c, "revoke") ELSE Return(c)
    /\ UNCHANGED <<userVars, over, answered>>

(* Mutants: an error of Revoke that is dropped; a key marked deleted, as users *)
(* are.                                                                       *)
RevokeErrorDropped(c) ==
    /\ At(c, "revoke")
    /\ \/ keys' = [keys EXCEPT ![call[c].key].status = "revoked"]
       \/ UNCHANGED keys
    /\ answered' = answered \cup {call[c].key}
    /\ Return(c)
    /\ UNCHANGED <<userVars, over>>

RevokeAsDeleted(c) ==
    /\ At(c, "revoke")
    /\ keys' = [keys EXCEPT ![call[c].key].status = "deleted"]
    /\ answered' = answered \cup {call[c].key}
    /\ Return(c)
    /\ UNCHANGED <<userVars, over>>

\* Revoke, the last statement of RevokeKey and of RotateKey.
Revoke(c) ==
    /\ At(c, "revoke")
    /\ keys' = [keys EXCEPT ![call[c].key].status = "revoked"]
    /\ answered' = answered \cup {call[c].key}
    /\ Return(c)
    /\ UNCHANGED <<userVars, over>>

\* ValidateKey: FindActiveByPrefix, and the copy whose hash is that of the key.
Lookup(c) ==
    /\ At(c, "lookup")
    /\ IF keys[call[c].key].status = "active"
       THEN call' = [call EXCEPT ![c].pc = "check", ![c].row = keys[call[c].key]]
       ELSE Return(c)
    /\ UNCHANGED <<userVars, keys, over, answered>>

(* Mutant: the owner's status is not looked at.                               *)
GoodKey(row) == row.status = "active" /\ ~Expired(row)

\* The copy is not over, and the owner, read now, is active.
Good(row) ==
    /\ row.status = "active"
    /\ ~Expired(row)
    /\ users[row.owner].status = "active"

CheckOwner(c) ==
    /\ At(c, "check")
    /\ IF Good(call[c].row) THEN Goto(c, "touch") ELSE Return(c)
    /\ UNCHANGED <<userVars, keys, over, answered>>

(* Mutant: the copy is written back whole, as Users().Update does.            *)
TouchWholeRow(c) ==
    /\ At(c, "touch")
    /\ keys' = [keys EXCEPT ![call[c].key] = call[c].row]
    /\ Goto(c, "admitted")
    /\ UNCHANGED <<userVars, over, answered>>

\* UpdateLastUsed writes last_used_at, which is not kept here; its error is dropped.
Touch(c) ==
    /\ At(c, "touch")
    /\ Goto(c, "admitted")
    /\ UNCHANGED <<userVars, keys, over, answered>>

\* The request was passed on, and is done.
Served(c) ==
    /\ At(c, "admitted")
    /\ Return(c)
    /\ UNCHANGED <<userVars, keys, over, answered>>

\* The next statement fails: the call returns with what it has done so far.
Fail(c) ==
    /\ call[c].pc \in {"count", "insert", "revoke", "lookup", "check"}
    /\ Return(c)
    /\ UNCHANGED <<userVars, keys, over, answered>>

\* Time passes.
Expire(term) ==
    /\ term # Never
    /\ over' = over \cup {term}
    /\ UNCHANGED <<userVars, keys, call, answered>>

\* A step of the users' handlers; a call whose owner it activates is no longer
\* one of a banned owner.
UserStep ==
    /\ UsersNext
    /\ call' = [c \in Calls |->
           [call[c] EXCEPT !.ownerBanned = @ /\ call[c].row.owner \in banned']]
    /\ UNCHANGED <<keys, over, answered>>

Next ==
    \/ UserStep
    \/ \E term \in Terms : Expire(term)
    \/ \E c \in Calls :
           \/ \E u \in UserIds, term \in Terms : StartCreate(c, u, term)
           \/ \E k \in Keys : \/ StartRotate(c, k)
                              \/ StartRevoke(c, k)
                              \/ StartValidate(c, k)
           \/ CountKeys(c)
           \/ InsertKey(c)
           \/ Revoke(c)
           \/ Lookup(c)
           \/ CheckOwner(c)
           \/ Touch(c)
           \/ Served(c)
           \/ Fail(c)

Spec == Init /\ [][Next]_vars

-----------------------------------------------------------------------------
(* Properties.                                                             *)

\* CreateKey counts and creates in two statements.  Calls in flight may all count
\* before any creates, and no more than that: a user has at most as many keys
\* beyond the limit as there are other calls (service.go:26-51).
KeysBounded ==
    \A u \in UserIds : Cardinality(OwnedBy(u)) <= MaxKeys + Cardinality(Calls) - 1

\* A key whose revocation or rotation was answered with success is revoked, and
\* whatever was in flight at the time does not bring it back: neither a
\* validation that found it active, nor another rotation (service.go:99, :121, :141).
AnsweredIsRevoked == \A k \in answered : keys[k].status = "revoked"

\* A key that was revoked, or over, before a validation began is not accepted
\* by it (service.go:66-111).
DeadKeyRefused == \A c \in Calls : At(c, "admitted") => ~call[c].keyDead

\* A request with the key of a user who was banned before the request came is
\* refused, unless an Update of an administrator wrote back a status it had read
\* before the ban (service.go:91-97, users.go:202).
BannedNeedsOverwrite ==
    \A c \in Calls :
        At(c, "admitted") /\ call[c].ownerBanned => call[c].row.owner \in overwritten

\* The key of a user who is banned all the while is refused: "Use key of
\* suspended user -> 401" (004.api-key-management.md:216).
BannedOwnerRefused == \A c \in Calls : At(c, "admitted") => ~call[c].ownerBanned
=============================================================================
