------------------------------ MODULE Catalog ------------------------------
(***************************************************************************)
(* The handlers that edit providers, models, combos and users, over each   *)
(* of the three stores, with the starts, stops and crashes of the server.  *)
(*                                                                         *)
(* A handler reads, and from what it read it plans statements; it runs     *)
(* them one at a time, and between any two of them the other calls, a      *)
(* crash or a stop may come.  Statements fail; a strict failure ends the   *)
(* handler with an error, a lenient one is dropped.  On the JSON store a   *)
(* statement changes the maps first and writes the file after.             *)
(*                                                                         *)
(* A lookup that finds nothing, or fails, ends the handler before it did   *)
(* anything: those ways out change no state and are not steps here.  A     *)
(* model keeps its provider: UpdateModel may give it another, with as      *)
(* little question as CreateModel.                                         *)
(***************************************************************************)
EXTENDS CatalogRows

CONSTANTS
    Calls,       \* requests in flight at a time (bound)
    Workloads,   \* the handlers a behaviour uses, one set of them each (bound), with
                 \* "BootstrapAdmin" where GOROUTER_BOOTSTRAP_ADMIN_EMAIL is set
    MaxStarts,   \* starts of the process in a behaviour (bound)
    Free         \* nobody holds the connection of the SQLite pool

ASSUME CatalogAssumption == Free \notin Calls /\ MaxStarts \in Nat

VARIABLES
    store,     \* the driver, chosen at the start
    work,      \* the workload, chosen at the start
    phase,     \* of the process: down, open (migrated), up, refused (exited)
    schema,    \* of the SQLite database: none, old (before the column tier), current
    life,      \* the rows of the database, or of the maps of the JSON store
    made,      \* JSON: the maps that are not nil
    file,      \* JSON: the rows in the file
    conn,      \* SQLite: who keeps the one connection across statements
    call,      \* the requests in flight
    starts,    \* bound
    torn,      \* history: the file was cut while it was written, and not rewritten since
    told,      \* history: what a client was last told of a row: created, deleted, or none
    lost,      \* history: rows erased by a map made twice, a torn file, or a JSON reorder
    back,      \* history: rows written back by an Update, or at a start, after they went
    excused    \* history: models left behind, by a named cause, by their provider's end

Lite == INSTANCE SqliteStore
Pg == INSTANCE PostgresStore
Json == INSTANCE JsonStore

process == <<phase, schema, starts, made, torn>>
history == <<told, lost, back, excused>>
vars == <<store, work, process, life, file, conn, call, history>>

Creations ==
    {"CreateProvider", "CreateModel", "CreateCombo", "AutoGenerateCombo", "AddComboItem"}
Deletions == {"DeleteProvider", "DeleteModel", "DeleteCombo", "RemoveComboItem", "DeleteUser"}
Handlers ==
    Creations \cup Deletions \cup
    {"UpdateProvider", "UpdateModel", "UpdateCombo", "ReorderComboItems",
     "ListCombos", "ExecuteCombo"}

\* op: the handler, or Rollback, the end of a CreateProvider that failed.
\* pc: idle; list, about to read the models; run, about to run a statement; make, the
\* map was nil; save, about to write the file; scan, inside a list of combos; execute,
\* the combo was found and is about to be read again; panicked.
\* now: the statement of a make or a save.  did: the rows of its strict statements that
\* held.
Call ==
    [op : Handlers \cup {"None", "Rollback"},
     pc : {"idle", "list", "run", "make", "save", "scan", "execute", "panicked"},
     on : SUBSET Rows,
     todo : SUBSET Statement,
     now : SUBSET Statement,
     did : SUBSET Rows]

Idle == [op |-> "None", pc |-> "idle", on |-> {}, todo |-> {}, now |-> {}, did |-> {}]

At(c, pc) == phase = "up" /\ call[c].pc = pc

\* The DatabaseManager the configuration names.
After(s) ==
    CASE store = "sqlite" -> Lite!After(life, s)
      [] store = "postgres" -> Pg!After(life, s)
      [] store = "json" -> Json!After(life, s)

Accepts(s) ==
    CASE store = "sqlite" -> Lite!Accepts(life, s)
      [] store = "postgres" -> Pg!Accepts(life, s)
      [] store = "json" -> Json!Accepts(life, s)

ProviderFound ==
    CASE store = "sqlite" -> Lite!ProviderFound(life)
      [] store = "postgres" -> Pg!ProviderFound(life)
      [] store = "json" -> Json!ProviderFound(life)

ModelFound(m) ==
    CASE store = "sqlite" -> Lite!ModelFound(life, m)
      [] store = "postgres" -> Pg!ModelFound(life, m)
      [] store = "json" -> Json!ModelFound(life, m)

ModelsOf ==
    CASE store = "sqlite" -> Lite!ModelsOf(life)
      [] store = "postgres" -> Pg!ModelsOf(life)
      [] store = "json" -> Json!ModelsOf(life)

ComboFound ==
    CASE store = "sqlite" -> Lite!ComboFound(life)
      [] store = "postgres" -> Pg!ComboFound(life)
      [] store = "json" -> Json!ComboFound(life)

ComboDeletion ==
    CASE store = "sqlite" -> Lite!ComboDeletion
      [] store = "postgres" -> Pg!ComboDeletion
      [] store = "json" -> Json!ComboDeletion

Reordering(list) ==
    CASE store = "sqlite" -> Lite!Reordering(list)
      [] store = "postgres" -> Pg!Reordering(list)
      [] store = "json" -> Json!Reordering(list)

\* Only SQLite has fewer connections than calls.
Connected == conn = Free

(***************************************************************************)
(* The process                                                             *)
(***************************************************************************)

Init ==
    /\ store \in {"sqlite", "postgres", "json"}
    /\ work \in Workloads
    /\ phase = "down" /\ starts = 0
    /\ schema \in IF store = "sqlite" THEN {"none", "old"} ELSE {"none"}
    /\ life = [r \in Rows |-> "unused"]
    /\ made = {} /\ file = {} /\ torn = FALSE
    /\ conn = Free
    /\ call = [c \in Calls |-> Idle]
    /\ told = [r \in Rows |-> "none"]
    /\ lost = {} /\ back = {} /\ excused = {}

Migrates ==
    CASE store = "sqlite" -> Lite!Migrates(schema)
      [] store = "postgres" -> Pg!Migrates(schema)
      [] store = "json" -> TRUE

\* Mutant: the file is not read back.
RereadNothing ==
    [r \in Rows |-> IF life[r] = "there" /\ store = "json" THEN "gone" ELSE life[r]]

\* What newJSONDriver finds: a file that does not parse is an empty store.
Reread ==
    IF store = "json"
    THEN [r \in Rows |-> IF r \in file THEN "there"
                         ELSE IF life[r] = "unused" THEN "unused" ELSE "gone"]
    ELSE life

\* The store is opened and migrated, or the process exits.
Open ==
    /\ phase \in {"down", "refused"} /\ starts < MaxStarts
    /\ starts' = starts + 1
    /\ phase' = IF Migrates THEN "open" ELSE "refused"
    /\ schema' = IF Migrates /\ store = "sqlite" THEN "current" ELSE schema
    /\ life' = Reread
    /\ made' = Json!MadeBy(file)
    /\ lost' = IF torn THEN lost \cup {r \in Rows : told[r] = "created" /\ r \notin file}
               ELSE lost
    /\ UNCHANGED <<store, work, torn, file, conn, call, told, back, excused>>

AdminFound == Lite!AdminFound(life)

AdminFits ==
    CASE store = "sqlite" -> Lite!AdminFits(life)
      [] store = "postgres" -> Pg!AdminFits(life)
      [] store = "json" -> Json!AdminFits(life)

\* With an address configured, the administrator is looked for and created; without,
\* the server serves.
BootstrapAdmin ==
    /\ phase = "open"
    /\ IF "BootstrapAdmin" \notin work \/ AdminFound
       THEN phase' = "up" /\ UNCHANGED <<life, file, torn, back>>
       ELSE IF AdminFits
       THEN /\ phase' = "up"
            /\ life' = Write(life, {Admin})
            /\ file' = IF store = "json" THEN Json!Image(life') ELSE file
            /\ torn' = FALSE
            /\ back' = IF life[Admin] = "gone" THEN back \cup {Admin} ELSE back
       ELSE phase' = "refused" /\ UNCHANGED <<life, file, torn, back>>
    /\ UNCHANGED <<store, work, schema, starts, made, conn, call, told, lost, excused>>

\* The file as a write leaves it that does not end: as it was, or cut.
CutFile ==
    \/ UNCHANGED <<file, torn>>
    \/ file' = {} /\ torn' = TRUE

\* The repositories beside these, of keys, usage, logs, write the same file.
OtherSave ==
    /\ store = "json" /\ phase = "up"
    /\ \/ file' = Json!Image(life) /\ torn' = FALSE
       \/ CutFile
    /\ UNCHANGED <<store, work, phase, schema, starts, made, life, conn, call, history>>

Saving == store = "json" /\ (phase = "up" \/ "BootstrapAdmin" \in work)

\* The process dies, perhaps inside os.WriteFile.  It may be a fatal error of its own:
\* the maps are written and ranged over by the calls without a lock.
Crash ==
    /\ phase \in {"open", "up"}
    /\ phase' = "down"
    /\ conn' = Free
    /\ call' = [c \in Calls |-> Idle]
    /\ IF Saving THEN CutFile ELSE UNCHANGED <<file, torn>>
    /\ UNCHANGED <<store, work, schema, starts, made, life, history>>

\* Shutdown waits for the calls, or gives up on them; Close of the JSON store saves.
Stop ==
    /\ phase = "up"
    /\ phase' = "down"
    /\ conn' = Free
    /\ call' = [c \in Calls |-> Idle]
    /\ IF store = "json"
       THEN \/ file' = Json!Image(life) /\ torn' = FALSE
            \/ CutFile
       ELSE UNCHANGED <<file, torn>>
    /\ UNCHANGED <<store, work, schema, starts, made, life, history>>

(***************************************************************************)
(* The handlers: what they read, and the statements they plan              *)
(***************************************************************************)

Begin(c, op, pc, on, todo) ==
    /\ At(c, "idle") /\ Connected /\ op \in work
    /\ call' = [call EXCEPT ![c] =
                    [Idle EXCEPT !.op = op, !.pc = pc, !.on = on, !.todo = todo]]
    /\ UNCHANGED <<store, work, process, life, file, conn, history>>

Inserts == {"ProviderCreate", "ModelCreate", "ComboCreate", "ItemAdd"}

\* uuid.New: ids no row has and no call is about to insert.
New(ids) ==
    /\ \A r \in ids : life[r] = "unused"
    /\ \A d \in Calls : \A s \in call[d].todo : s.do \in Inserts => s.on \cap ids = {}

CreateProvider(c) ==
    \E ms \in SUBSET Models :
        /\ New({Provider} \cup ms)
        /\ Begin(c, "CreateProvider", "run", {Provider},
                 {Strict(1, "ProviderCreate", {Provider})}
                 \cup {Strict(2, "ModelCreate", {m}) : m \in ms})

UpdateProvider(c) ==
    /\ ProviderFound
    /\ Begin(c, "UpdateProvider", "run", {Provider},
             {Strict(1, "ProviderUpdate", {Provider})})

\* Mutant: the models are left to a cascade.
DeleteProviderAlone(c) ==
    /\ ProviderFound
    /\ Begin(c, "DeleteProvider", "run", {Provider},
             {Strict(1, "ProviderDelete", {Provider})})

DeleteProvider(c) ==
    /\ ProviderFound
    /\ Begin(c, "DeleteProvider", "list", {Provider}, {})

\* The provider's id is taken as it comes, there or not.
CreateModel(c) ==
    \E m \in Models :
        /\ New({m}) /\ life[Provider] # "unused"
        /\ Begin(c, "CreateModel", "run", {m}, {Strict(1, "ModelCreate", {m})})

UpdateModel(c) ==
    \E m \in Models :
        /\ ModelFound(m)
        /\ Begin(c, "UpdateModel", "run", {m}, {Strict(1, "ModelUpdate", {m})})

DeleteModel(c) ==
    \E m \in Models :
        /\ life[m] # "unused"
        /\ Begin(c, "DeleteModel", "run", {m}, {Strict(1, "ModelDelete", {m})})

CreateCombo(c) ==
    /\ New({Combo})
    /\ Begin(c, "CreateCombo", "run", {Combo}, {Strict(1, "ComboCreate", {Combo})})

\* The errors of the items are dropped, and the answer is 201.
AutoGenerateCombo(c) ==
    \E is \in SUBSET Items :
        /\ New({Combo} \cup is)
        /\ Begin(c, "AutoGenerateCombo", "run", {Combo},
                 {Strict(1, "ComboCreate", {Combo})}
                 \cup {Lenient(2, "ItemAdd", {i}) : i \in is})

UpdateCombo(c) ==
    /\ ComboFound
    /\ Begin(c, "UpdateCombo", "run", {Combo}, {Strict(1, "ComboUpdate", {Combo})})

DeleteCombo(c) ==
    /\ ComboFound
    /\ Begin(c, "DeleteCombo", "run", {Combo}, ComboDeletion)

\* One item, or one for each enabled model that has the model_id.
AddComboItem(c) ==
    \E is \in (SUBSET Items) \ {{}} :
        /\ ComboFound /\ New(is)
        /\ Begin(c, "AddComboItem", "run", is, {Strict(1, "ItemAdd", {i}) : i \in is})

RemoveComboItem(c) ==
    \E i \in Items :
        /\ life[i] # "unused"
        /\ Begin(c, "RemoveComboItem", "run", {i}, {Strict(1, "ItemRemove", {i})})

ReorderComboItems(c) ==
    \E list \in SUBSET {i \in Items : life[i] # "unused"} :
        /\ ComboFound /\ Reordering(list) # {}
        /\ Begin(c, "ReorderComboItems", "run", list, Reordering(list))

\* ListCombos, ListAllCombos and LoadCombos on SQLite: the rows of the list hold the
\* connection, and loadItems waits for it.  Elsewhere they read and are done.
ListCombos(c) ==
    /\ store = "sqlite" /\ Lite!ListScans(life)
    /\ At(c, "idle") /\ Connected /\ "ListCombos" \in work
    /\ conn' = c
    /\ call' = [call EXCEPT ![c] = [Idle EXCEPT !.op = "ListCombos", !.pc = "scan"]]
    /\ UNCHANGED <<store, work, process, life, file, history>>

\* Mutant: the rows are not closed.
LeavesRowsOpen(c) ==
    /\ At(c, "scan")
    /\ call' = [call EXCEPT ![c] = Idle]
    /\ UNCHANGED <<store, work, process, life, file, conn, history>>

\* The context of the request ends when its client leaves, and nothing else ends it.
ClientLeaves(c) ==
    /\ At(c, "scan")
    /\ conn' = Free
    /\ call' = [call EXCEPT ![c] = Idle]
    /\ UNCHANGED <<store, work, process, life, file, history>>

\* Mutant: the combo of the URL is not looked up.
ExecuteUnseen(c) == Begin(c, "ExecuteCombo", "execute", {Combo}, {})

\* ExecuteCombo finds the combo, or a chat completion finds it in the list.
ExecuteCombo(c) ==
    /\ ComboFound
    /\ Begin(c, "ExecuteCombo", "execute", {Combo}, {})

\* Execute reads it again; a combo that is not there is no error, and nil.
Execute(c) ==
    /\ At(c, "execute") /\ Connected
    /\ call' = [call EXCEPT ![c] = IF ComboFound THEN Idle
                                   ELSE [@ EXCEPT !.pc = "panicked"]]
    /\ UNCHANGED <<store, work, process, life, file, conn, history>>

\* A read fails, or its context ends while it waits for the connection: an error of
\* FindByID ends the handler.
ReadFails(c) ==
    /\ At(c, "execute") /\ store # "json"
    /\ call' = [call EXCEPT ![c] = Idle]
    /\ UNCHANGED <<store, work, process, life, file, conn, history>>

\* chi's Recoverer
Recover(c) ==
    /\ At(c, "panicked")
    /\ call' = [call EXCEPT ![c] = Idle]
    /\ UNCHANGED <<store, work, process, life, file, conn, history>>

DeleteUser(c) ==
    /\ life[Admin] # "unused"
    /\ Begin(c, "DeleteUser", "run", {Admin}, {Strict(1, "UserDelete", {Admin})})

\* DeleteProvider and UpdateProvider list the models; an error, of the database or of a
\* context that ended while they waited, is dropped, and the list is empty.
Listed ==
    IF store = "json" THEN {ModelsOf} ELSE IF Connected THEN {ModelsOf, {}} ELSE {{}}

Plan(c, todo) ==
    /\ call' = [call EXCEPT ![c] = IF todo = {} THEN Idle
                                   ELSE [@ EXCEPT !.pc = "run", !.todo = todo]]
    /\ UNCHANGED <<store, work, process, life, file, conn, told, lost, back>>

ListToDelete(c) ==
    /\ At(c, "list") /\ call[c].op = "DeleteProvider"
    /\ \E listed \in Listed :
           /\ Plan(c, {Lenient(1, "ModelDelete", {m}) : m \in listed}
                      \cup {Strict(2, "ProviderDelete", {Provider})})
           /\ excused' = excused \cup (ModelsOf \ listed)

\* The models of the body that were listed are updated, the others created, and the
\* listed ones that are not in the body deleted; a body without models changes none.
ListToUpdate(c) ==
    /\ At(c, "list") /\ call[c].op = "UpdateProvider"
    /\ \E listed \in Listed : \E kept \in SUBSET listed, new \in SUBSET Models :
           /\ New(new)
           /\ Plan(c, IF kept \cup new = {} THEN {}
                      ELSE {Lenient(1, "ModelUpdate", {m}) : m \in kept}
                           \cup {Lenient(1, "ModelCreate", {m}) : m \in new}
                           \cup {Lenient(2, "ModelDelete", {m}) : m \in listed \ kept})
    /\ UNCHANGED excused

(***************************************************************************)
(* Statements                                                              *)
(***************************************************************************)

Turn(c) == {s \in call[c].todo : \A t \in call[c].todo : s.turn <= t.turn}

Deletes ==
    {"ProviderDelete", "ModelDelete", "ComboDelete", "ItemRemove", "ItemsClear", "UserDelete"}

\* The rows a deletion is meant to end: on two stores the items go with their combo.
Ended(s) ==
    IF s.do \notin Deletes THEN {}
    ELSE IF s.do = "ComboDelete" /\ store # "sqlite" THEN s.on \cup Items
    ELSE s.on

Answers(k, s) == k.todo = {s} /\ s.do # "ProviderUpdate"

\* A handler after one of its statements.
AfterStatement(k, s) ==
    IF k.todo # {s} THEN [k EXCEPT !.pc = "run", !.todo = @ \ {s}, !.now = {}]
    ELSE IF s.do = "ProviderUpdate" THEN [k EXCEPT !.pc = "list", !.todo = {}, !.now = {}]
    ELSE Idle

\* What its client knows then.
Tell(t, k, s) ==
    IF ~Answers(k, s) THEN t
    ELSE [r \in Rows |-> IF k.op \in Creations /\ r \in k.did THEN "created"
                         ELSE IF k.op \in Deletions /\ r \in k.on \cap k.did THEN "deleted"
                         ELSE t[r]]

\* The rows a reader can reach.
Visible(l) == IF store = "json" THEN Json!Image(l) ELSE {r \in Rows : Found(l, r)}

There == Visible(life)

Writes == {"ProviderUpdate", "ModelUpdate", "ComboUpdate"}

\* The provider of a model is gone, or a deletion that did not list the model is on
\* its way to it.
ProviderLeaving ==
    \/ life[Provider] = "gone"
    \/ \E d \in Calls :
           call[d].op = "Rollback" \/ (call[d].op = "DeleteProvider" /\ call[d].pc # "list")

\* What histories keep of a statement that makes next of the rows.
Note(s, next) ==
    /\ back' = IF s.do \in Writes THEN back \cup (Visible(next) \ There) ELSE back
    /\ lost' = IF s.do \in Deletes THEN lost ELSE lost \cup (There \ Visible(next))
    /\ excused' = IF ProviderLeaving
                  THEN excused \cup {m \in Models : Found(next, m) /\ ~Found(life, m)}
                  ELSE excused

\* Call c with statement s done to the rows; on the JSON store the file comes next.
\* A row another call has just ended is not announced as created, nor one as deleted
\* that a JSON RemoveItem did not meet: somebody else's deletion may yet be unsaved.
Perform(c, s, next, saves) ==
    LET cleared == [d \in Calls |-> IF call[d].op \in Creations
                                    THEN [call[d] EXCEPT !.did = @ \ Ended(s)]
                                    ELSE call[d]]
        counts == s.strict /\ (store = "json" => saves)
        k == [cleared[c] EXCEPT !.did = IF counts THEN @ \cup s.on ELSE @]
        forgot == [r \in Rows |-> IF r \in Ended(s) THEN "none" ELSE told[r]]
    IN  /\ life' = next
        /\ call' = [cleared EXCEPT ![c] = IF saves THEN [k EXCEPT !.pc = "save", !.now = {s}]
                                          ELSE AfterStatement(k, s)]
        /\ told' = IF saves THEN forgot ELSE Tell(forgot, k, s)
        /\ Note(s, next)

\* Mutant: every store makes maps.
NilTable(s) == ~(Json!TableOf(s) \subseteq made)

NilMap(s) == store = "json" /\ ~(Json!TableOf(s) \subseteq made)

Run(c) ==
    /\ At(c, "run") /\ Connected
    /\ \E s \in Turn(c) :
           /\ Accepts(s) /\ ~NilMap(s)
           /\ Perform(c, s, After(s), store = "json" /\ Json!Saves(life, s))
    /\ UNCHANGED <<store, work, process, file, conn>>

\* init of a JSON repository: the map was nil when it looked.
FindNilMap(c) ==
    /\ At(c, "run")
    /\ \E s \in Turn(c) :
           /\ Accepts(s) /\ NilMap(s)
           /\ call' = [call EXCEPT ![c].pc = "make", ![c].now = {s}]
    /\ UNCHANGED <<store, work, process, life, file, conn, history>>

\* It makes one, in place of what another call may have made and filled meanwhile.
MakeMap(c) ==
    /\ At(c, "make")
    /\ \E s \in call[c].now :
           /\ Perform(c, s, Write(Erase(life, UNION Json!TableOf(s)), s.on), TRUE)
           /\ made' = made \cup Json!TableOf(s)
    /\ UNCHANGED <<store, work, phase, schema, starts, torn, file, conn>>

\* save takes its image under the lock, and writes it.
Save(c) ==
    /\ At(c, "save")
    /\ \E s \in call[c].now :
           /\ file' = Json!Image(life) /\ torn' = FALSE
           /\ call' = [call EXCEPT ![c] = AfterStatement(@, s)]
           /\ told' = Tell(told, call[c], s)
    /\ UNCHANGED <<store, work, phase, schema, starts, made>>
    /\ UNCHANGED <<life, conn, lost, back, excused>>

\* An error of statement s: a strict one ends the handler, and CreateProvider takes
\* its provider back, the models it made with it not.
Fail(c, s) ==
    IF ~s.strict
    THEN /\ call' = [call EXCEPT ![c] = AfterStatement(@, s)]
         /\ told' = Tell(told, call[c], s)
         /\ excused' = IF call[c].op = "DeleteProvider" THEN excused \cup s.on ELSE excused
    ELSE IF call[c].op = "CreateProvider" /\ s.do = "ModelCreate"
    THEN /\ call' = [call EXCEPT ![c] =
                        [Idle EXCEPT !.op = "Rollback", !.pc = "run",
                                     !.todo = {Lenient(1, "ProviderDelete", {Provider})}]]
         /\ excused' = excused \cup ModelsOf
         /\ UNCHANGED told
    ELSE call' = [call EXCEPT ![c] = Idle] /\ UNCHANGED <<told, excused>>

\* The store refuses a statement.
StatementRefused(c) ==
    /\ At(c, "run") /\ Connected
    /\ \E s \in Turn(c) : ~Accepts(s) /\ Fail(c, s)
    /\ UNCHANGED <<store, work, process, life, file, conn, lost, back>>

\* The database fails it, or its context ends while it waits for the connection.
StatementFails(c) ==
    /\ At(c, "run") /\ store # "json"
    /\ \E s \in Turn(c) : Fail(c, s)
    /\ UNCHANGED <<store, work, process, life, file, conn, lost, back>>

\* The maps have changed, the file has not or is cut.
SaveFails(c) ==
    /\ At(c, "save")
    /\ CutFile
    /\ \E s \in call[c].now : Fail(c, s)
    /\ UNCHANGED <<store, work, phase, schema, starts, made, life, conn, lost, back>>

\* What a call does of itself, and what ends it from outside.
Advance(c) ==
    \/ ListToDelete(c) \/ ListToUpdate(c)
    \/ Run(c) \/ FindNilMap(c) \/ MakeMap(c) \/ Save(c) \/ StatementRefused(c)
    \/ Execute(c) \/ Recover(c)

Break(c) == StatementFails(c) \/ SaveFails(c) \/ ReadFails(c) \/ ClientLeaves(c)

Handle(c) ==
    \/ CreateProvider(c) \/ UpdateProvider(c) \/ DeleteProvider(c)
    \/ CreateModel(c) \/ UpdateModel(c) \/ DeleteModel(c)
    \/ CreateCombo(c) \/ AutoGenerateCombo(c) \/ UpdateCombo(c) \/ DeleteCombo(c)
    \/ AddComboItem(c) \/ RemoveComboItem(c) \/ ReorderComboItems(c)
    \/ ListCombos(c) \/ ExecuteCombo(c) \/ DeleteUser(c)

Next ==
    \/ Open \/ BootstrapAdmin \/ OtherSave \/ Crash \/ Stop
    \/ \E c \in Calls : Handle(c) \/ Advance(c) \/ Break(c)

Spec == Init /\ [][Next]_vars

(***************************************************************************)
(* Properties                                                              *)
(***************************************************************************)

\* Rows, calls and histories have their types, and only the JSON store has maps, a
\* file and writes of it.
TypeOK ==
    /\ store \in {"sqlite", "postgres", "json"} /\ work \in Workloads
    /\ phase \in {"down", "open", "up", "refused"} /\ schema \in {"none", "old", "current"}
    /\ life \in [Rows -> Life] /\ made \subseteq Json!Tables /\ file \subseteq Rows
    /\ conn \in Calls \cup {Free} /\ call \in [Calls -> Call]
    /\ starts \in 0 .. MaxStarts /\ torn \in BOOLEAN
    /\ told \in [Rows -> {"none", "created", "deleted"}]
    /\ lost \subseteq Rows /\ back \subseteq Rows /\ excused \subseteq Models
    /\ store # "json" => file = {} /\ \A c \in Calls : call[c].pc \notin {"save", "make"}

\* A row whose creation was answered is there, through crashes and restarts, until
\* somebody deletes it; on the JSON store it may be lost to a second first Create
\* (dbmanager.go:743-751), a file cut while it was written, or a reorder that does not
\* list it.
CreationsKept ==
    phase = "up" =>
        \A r \in Rows : told[r] = "created" => r \in There \/ (store = "json" /\ r \in lost)

\* A row whose deletion was answered does not come back, unless the JSON store puts
\* back the row an Update read before (dbmanager.go:793-804), or the administrator is
\* created anew at a start (main.go:376-403).
DeletionsKept ==
    phase = "up" =>
        \A r \in Rows : told[r] = "deleted" => r \notin There \/ (store = "json" /\ r \in back)

\* No model outlives its provider, but by a cause that is known: the models were not
\* listed or one was not deleted (providers.go:407-411), the rollback of a creation
\* takes only the provider (providers.go:259), or the model was created or written
\* back when the provider was already on its way out (admin_models.go:111).
OrphansExcused ==
    life[Provider] = "gone" => \A m \in Models : Found(life, m) => m \in excused

\* An item without its combo is only ever left on SQLite, whose foreign keys are not
\* enforced.
StraysOnlyOnSqlite ==
    phase = "up" /\ life[Combo] = "gone" =>
        \A i \in Items \cap There : store = "sqlite"

\* What a call has in hand for its next step.
HasWork(k) ==
    CASE k.pc = "list"             -> k.op \in {"DeleteProvider", "UpdateProvider"}
      [] k.pc = "run"              -> k.todo # {}
      [] k.pc \in {"make", "save"} -> k.now # {}
      [] OTHER                     -> k.pc # "scan"

\* Only a list of combos on SQLite keeps the one connection from one statement to the
\* next, and waits for another under it (sqlite.go:934); every other call that is under
\* way knows what it does next, so that none but the lists stand in each other's way.
OnlyScansBlock ==
    /\ conn # Free => store = "sqlite" /\ call[conn].pc = "scan"
    /\ \A c \in Calls : conn # c => HasWork(call[c])

\* Execute meets a nil combo only after a deletion of it (combo.go:91-96).
PanicNeedsDelete ==
    (\E c \in Calls : call[c].pc = "panicked") => life[Combo] = "gone" \/ Combo \in back
=============================================================================
