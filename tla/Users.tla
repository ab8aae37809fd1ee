-------------------------------- MODULE Users --------------------------------
(***************************************************************************)
(* The users table and the handlers administrators change it with.         *)
(* Update reads a whole row, changes it and writes it back, status and     *)
(* all; UpdateStatus and Delete write the status alone.  Handlers of       *)
(* different requests interleave between statements.                       *)
(*                                                                         *)
(* The stores are the SQL ones: a read returns a copy.  Names, addresses   *)
(* and passwords are left out, and so is the login, which writes none of   *)
(* the columns kept here.  A statement that fails, or is not reached since *)
(* the context's 5 s are over, writes nothing.                             *)
(***************************************************************************)
EXTENDS Integers, FiniteSets

CONSTANTS
    UserIds,
    Admins,     \* administrators' requests in flight at a time (bound)
    Roles,      \* the roles bodies name, "admin" and "user" (bound)
    NoUser      \* none of them

ASSUME UsersAssumption == UserIds # {} /\ NoUser \notin UserIds /\ "admin" \in Roles

VARIABLES
    users,       \* users[u]: the row of u
    edit,        \* edit[a]: where a's request is, and the row it read
    banned,      \* history: users whom administrators suspended or deleted
                 \* and have not activated since
    overwritten  \* history: users whose status an Update has replaced
                 \* by an older one since they were last activated

userVars == <<users, edit, banned, overwritten>>

Row == [role : Roles, status : {"active", "suspended", "deleted"}]

\* FindByID finds no row.
Absent == [role |-> "none", status |-> "absent"]

\* bootstrapAdmin's row.
Bootstrapped == [role |-> "admin", status |-> "active"]

\* Only Update uses the copy it read.
Edit == [pc : {"idle", "update", "status", "delete"}, user : UserIds, row : Row \cup {Absent}]

NoEdit == [pc |-> "idle", user |-> CHOOSE u \in UserIds : TRUE, row |-> Absent]

UsersTypeOK ==
    /\ users \in [UserIds -> Row \cup {Absent}]
    /\ edit \in [Admins -> Edit]
    /\ banned \in SUBSET UserIds
    /\ overwritten \in SUBSET UserIds

\* bootstrapAdmin has created its administrator, who need not be one of UserIds.
UsersInit ==
    /\ \E first \in UserIds \cup {NoUser} :
           users = [u \in UserIds |-> IF u = first THEN Bootstrapped ELSE Absent]
    /\ edit = [a \in Admins |-> NoEdit]
    /\ banned = {}
    /\ overwritten = {}

Answers(a) == edit' = [edit EXCEPT ![a] = NoEdit]

\* Create: a new id.
CreateUser(u) ==
    /\ users[u] = Absent
    /\ \E role \in Roles :
           users' = [users EXCEPT ![u] = [role |-> role, status |-> "active"]]
    /\ UNCHANGED <<edit, banned, overwritten>>

\* Update, UpdateStatus and Delete begin alike: FindByID, and 404 without a row.
\* A deleted user has one.
ReadUser(a, u, handler) ==
    /\ edit[a].pc = "idle"
    /\ users[u] # Absent
    /\ edit' = [edit EXCEPT ![a] =
           [pc |-> handler, user |-> u, row |-> IF handler = "update" THEN users[u] ELSE Absent]]
    /\ UNCHANGED <<users, banned, overwritten>>

\* Update: the copy, with the role of the body if it has one.
WriteUser(a) ==
    LET u == edit[a].user
    IN  /\ edit[a].pc = "update"
        /\ \E role \in Roles : users' = [users EXCEPT ![u] = [edit[a].row EXCEPT !.role = role]]
        /\ overwritten' = IF users[u].status = edit[a].row.status
                          THEN overwritten ELSE overwritten \cup {u}
        /\ Answers(a)
        /\ UNCHANGED banned

\* UpdateStatus of the repository, which Delete goes through too: one column.
SetStatus(u, status) ==
    /\ users' = [users EXCEPT ![u].status = status]
    /\ banned' = IF status = "active" THEN banned \ {u} ELSE banned \cup {u}
    /\ overwritten' = IF status = "active" THEN overwritten \ {u} ELSE overwritten

DecideStatus(a) ==
    /\ edit[a].pc = "status"
    /\ \E status \in {"active", "suspended"} : SetStatus(edit[a].user, status)
    /\ Answers(a)

DeleteUser(a) ==
    /\ edit[a].pc = "delete"
    /\ SetStatus(edit[a].user, "deleted")
    /\ Answers(a)

\* A bad body, an error of the store, or a client that has left.
AbandonEdit(a) ==
    /\ edit[a].pc # "idle"
    /\ Answers(a)
    /\ UNCHANGED <<users, banned, overwritten>>

UsersNext ==
    \/ \E u \in UserIds : CreateUser(u)
    \/ \E a \in Admins :
           \/ \E u \in UserIds, handler \in {"update", "status", "delete"} :
                  ReadUser(a, u, handler)
           \/ WriteUser(a)
           \/ DecideStatus(a)
           \/ DeleteUser(a)
           \/ AbandonEdit(a)
=============================================================================
