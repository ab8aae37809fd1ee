---------------------------- MODULE CatalogProofs ----------------------------
(***************************************************************************)
(* Proofs for Catalog: on each of the three stores, for any models, items, *)
(* workloads and starts, and any number of calls in flight.                *)
(***************************************************************************)
EXTENDS Catalog, TLAPS

\* The statements of a call that have not yet changed a row.
Pending(k) == IF k.pc = "save" THEN k.todo \ k.now ELSE k.todo

\* The rows of a statement are of the kind its repository keeps.
Fits(s) ==
    /\ s.do \in {"ProviderCreate", "ProviderUpdate", "ProviderDelete"} => s.on = {Provider}
    /\ s.do \in {"ModelCreate", "ModelUpdate", "ModelDelete"} => s.on \subseteq Models
    /\ s.do \in {"ComboCreate", "ComboUpdate", "ComboDelete"} => s.on = {Combo}
    /\ s.do \in {"ItemAdd", "ItemRemove", "ItemsClear", "ItemsReorder"} =>
           s.on \subseteq Items
    /\ s.do = "UserDelete" => s.on = {Admin}
    /\ s.do = "ItemsClear" => store = "sqlite"

\* The statements of a call fit its handler, and the one at work takes its turn.
Planned(k) ==
    /\ k.now \subseteq k.todo
    /\ \A s \in k.todo :
           /\ Fits(s)
           /\ k.op \in Creations => s.do \in Inserts
           /\ k.op \in Deletions => s.do \in Deletes
           /\ s.do = "ProviderDelete" => k.op \in {"DeleteProvider", "Rollback"}
           /\ k.op = "DeleteProvider" =>
                  \/ s.do = "ProviderDelete" /\ s.turn = 2 /\ s.strict
                  \/ s.do = "ModelDelete" /\ s.turn = 1
           /\ s.do = "ProviderCreate" => s.strict
           /\ s.do = "ItemRemove" => k.todo = {s} /\ (k.pc # "save" => k.did = {})
    /\ \A s \in k.now, t \in k.todo : s.turn <= t.turn
    /\ \A s, t \in k.now : s = t
    /\ k.pc \notin {"run", "make", "save"} => k.todo = {}
    /\ k.pc \notin {"make", "save"} => k.now = {}
    /\ k.pc = "make" =>
           \A s \in k.now : s.do \in {"ProviderCreate", "ModelCreate", "ComboCreate"}
    /\ k.pc \in {"make", "save"} => store = "json"

\* The rows a statement is about to write: new to an insert, known to an update.
Written(s) ==
    /\ s.do \in Inserts => \A r \in s.on : life[r] = "unused"
    /\ s.do \in Writes => \A r \in s.on : life[r] # "unused"

\* What call k relies on is so.
Founded(k) ==
    /\ \A s \in Pending(k) :
           /\ Written(s)
           /\ s.do = "ModelCreate" =>
                  \/ life[Provider] # "unused"
                  \/ \E t \in Pending(k) : t.do = "ProviderCreate" /\ t.turn < s.turn
    /\ k.op \in Creations => \A r \in k.did : r \in There \cup lost
    /\ k.op \in Deletions => \A r \in k.on : life[r] # "unused"
    /\ k.op \in Deletions => \A r \in (k.on \cap k.did) \ back : life[r] = "gone"
    /\ k.op = "UpdateProvider" => life[Provider] # "unused"
    /\ k.pc = "execute" => life[Combo] # "unused"
    /\ k.pc = "panicked" => life[Combo] = "gone" \/ Combo \in back

\* The models whose survival nothing explains: a deletion of their provider is yet to
\* delete them, and a rollback leaves none.
Unexcused == {m \in Models : Found(life, m) /\ m \notin excused}

ClearedOf(k, models) ==
    /\ k.op = "Rollback" => models = {}
    /\ k.op = "DeleteProvider" /\ k.pc # "list" =>
           \A m \in models : \E s \in Pending(k) : s.do = "ModelDelete" /\ m \in s.on

Cleared(k) == ClearedOf(k, Unexcused)

\* What a call counts on is in the file, but for the statement it is about to save.
Unsaved(k) == {r \in Rows : k.pc = "save" /\ \E s \in k.now : s.strict /\ r \in s.on}

StoredIn(k, f, cut) ==
    /\ k.op \in Creations /\ store = "json" /\ ~cut =>
           k.did \ lost \subseteq f \cup Unsaved(k)
    /\ k.op \in Deletions => ((k.on \cap k.did) \ back) \cap f \subseteq Unsaved(k)

Stored(k) == StoredIn(k, file, torn)

CallsInv ==
    \A c \in Calls :
        Planned(call[c]) /\ Founded(call[c]) /\ Cleared(call[c]) /\ Stored(call[c])

\* No two inserts that are pending share a row.
InsertsApart ==
    \A c, d \in Calls : \A s \in Pending(call[c]), t \in Pending(call[d]) :
        s.do \in Inserts /\ t.do \in Inserts /\ s.on \cap t.on # {} => c = d /\ s = t

\* Models come after their provider.
ProviderFirst == life[Provider] = "unused" => \A m \in Models : life[m] = "unused"

\* Items go with their combo, where references are enforced.
ItemsCovered ==
    store = "postgres" /\ ~Found(life, Combo) => \A i \in Items : ~Found(life, i)

\* The file is an image of rows as they once were.
FileInv ==
    /\ \A r \in file : life[r] # "unused"
    /\ Provider \notin file => file \cap Models \subseteq excused
    /\ file \cap Items # {} => Combo \in file
    /\ torn => store = "json" /\ file = {}

\* What was told holds in memory, and in the file.
ToldInv ==
    /\ \A r \in Rows : told[r] = "created" /\ r \notin lost =>
           /\ phase \in {"open", "up"} \/ store # "json" => r \in There
           /\ store = "json" /\ ~torn => r \in file
    /\ \A r \in Rows : told[r] = "deleted" /\ r \notin back =>
           life[r] = "gone" /\ r \notin file
    /\ store # "json" => lost = {} /\ back = {}

QuietDown == phase # "up" => call = [c \in Calls |-> Idle]

IInv ==
    /\ TypeOK
    /\ CallsInv
    /\ InsertsApart
    /\ ProviderFirst
    /\ OrphansExcused
    /\ ItemsCovered
    /\ FileInv
    /\ ToldInv
    /\ QuietDown

-----------------------------------------------------------------------------
(* What statements do to the rows.                                         *)

LEMMA LiteAfter ==
    ASSUME store = "sqlite", NEW s \in Statement
    PROVE  /\ s.do \in Inserts => After(s) = Write(life, s.on)
           /\ s.do \in Deletes => After(s) = Erase(life, s.on)
           /\ s.do \notin Inserts \cup Deletes => After(s) = life
BY DEF After, Lite!After, Lite!Write, Write, Lite!Erase, Erase, Lite!Rows, Rows, Statement,
       Deeds, Inserts, Deletes, Lite!ProviderCreate, Lite!ProviderUpdate,
       Lite!ProviderDelete, Lite!ModelCreate, Lite!ModelUpdate, Lite!ModelDelete,
       Lite!ComboCreate, Lite!ComboUpdate, Lite!ComboDelete, Lite!ItemsClear,
       Lite!ItemAdd, Lite!ItemRemove, Lite!ItemsReorder, Lite!UserDelete

LEMMA PgAfter ==
    ASSUME store = "postgres", NEW s \in Statement, Fits(s)
    PROVE  /\ s.do \in Inserts => After(s) = Write(life, s.on)
           /\ s.do \in Deletes /\ s.do # "ComboDelete" => After(s) = Erase(life, s.on)
           /\ s.do = "ComboDelete" => After(s) = Erase(life, s.on \cup Items)
           /\ s.do \notin Inserts \cup Deletes => After(s) = life
<1> USE DEF After, Pg!After, Pg!Write, Write, Pg!Erase, Erase, Pg!Rows, Rows,
            Inserts, Deletes, Pg!ProviderCreate, Pg!ProviderUpdate, Pg!ProviderDelete,
            Pg!ModelCreate, Pg!ModelUpdate, Pg!ModelDelete, Pg!ComboCreate,
            Pg!ComboUpdate, Pg!ComboDelete, Pg!ItemAdd, Pg!ItemRemove, Pg!ItemsReorder,
            Pg!UserDelete
<1>1. s.do # "ItemsClear"  BY DEF Fits
<1>2. s.do \in Inserts => After(s) = Write(life, s.on)  OBVIOUS
<1>3. s.do \in Deletes /\ s.do # "ComboDelete" => After(s) = Erase(life, s.on)  BY <1>1
<1>4. s.do = "ComboDelete" => After(s) = Erase(life, s.on \cup Items)  OBVIOUS
<1>5. s.do \notin Inserts \cup Deletes => After(s) = life  BY DEF Statement, Deeds
<1> QED  BY <1>2, <1>3, <1>4, <1>5

LEMMA JsonAfter ==
    ASSUME store = "json", NEW s \in Statement, Fits(s)
    PROVE  /\ s.do \in Inserts \cup Writes => After(s) = Write(life, s.on)
           /\ s.do \in Deletes /\ Json!Saves(life, s) => After(s) = Erase(life, s.on)
           /\ s.do \in Deletes /\ ~Json!Saves(life, s) => After(s) = life
           /\ s.do = "ItemsReorder" => After(s) = Erase(life, Items \ s.on)
<1> USE DEF After, Json!After, Json!Write, Write, Json!Erase, Erase, Json!Rows, Rows,
            Inserts, Deletes, Writes, Json!ProviderCreate, Json!ProviderUpdate,
            Json!ProviderDelete, Json!ModelCreate, Json!ModelUpdate, Json!ModelDelete,
            Json!ComboCreate, Json!ComboUpdate, Json!ComboDelete, Json!ItemAdd,
            Json!ItemRemove, Json!ItemsReorder, Json!UserDelete, Json!Saves
<1>1. s.do # "ItemsClear"  BY DEF Fits
<1>2. s.do \in Inserts \cup Writes => After(s) = Write(life, s.on)  OBVIOUS
<1>3. s.do \in Deletes /\ s.do # "ItemRemove" => After(s) = Erase(life, s.on)  BY <1>1
<1>4. s.do = "ItemRemove" =>
          After(s) = IF Json!ItemMet(life, s.on) THEN Erase(life, s.on) ELSE life
    OBVIOUS
<1>5. s.do = "ItemsReorder" => After(s) = Erase(life, Items \ s.on)  OBVIOUS
<1> QED  BY <1>2, <1>3, <1>4, <1>5

\* What a change of the rows by statement s is like, on any store.
Effect(s, next) ==
    /\ next \in [Rows -> Life]
    /\ \A r \in Rows : life[r] # "unused" => next[r] # "unused"
    /\ \A r \in Rows : life[r] # "there" /\ next[r] # life[r] =>
           /\ next[r] = "there" /\ r \in s.on
           /\ s.do \in Inserts \/ (s.do \in Writes /\ store = "json")
    /\ \A r \in Rows : life[r] = "there" /\ next[r] # "there" =>
           \/ r \in Ended(s)
           \/ /\ store = "json"
              /\ \/ s.do = "ItemsReorder" /\ r \in Items
                 \/ r \in UNION Json!TableOf(s) /\ r \notin s.on
    /\ s.do \in Inserts => \A r \in s.on : next[r] = "there"
    /\ s.do \in Deletes /\ (store = "json" => Json!Saves(life, s)) =>
           \A r \in s.on : next[r] # "there"
    /\ s.do = "ItemAdd" /\ store # "sqlite" => Found(life, Combo)
    /\ s.do = "ComboDelete" /\ store = "postgres" => \A i \in Items : next[i] # "there"

LEMMA AfterEffect ==
    ASSUME store \in {"sqlite", "postgres", "json"}, life \in [Rows -> Life],
           NEW s \in Statement, Fits(s), Accepts(s)
    PROVE  Effect(s, After(s))
<1>1. s.on \subseteq Rows  BY DEF Statement
<1>2. Items \subseteq Rows  BY DEF Rows
<1>3. \A on \in SUBSET Rows :
          /\ Write(life, on) \in [Rows -> Life]
          /\ \A r \in Rows : Write(life, on)[r] = IF r \in on THEN "there" ELSE life[r]
    BY DEF Write, Life
<1>4. \A on \in SUBSET Rows :
          /\ Erase(life, on) \in [Rows -> Life]
          /\ \A r \in Rows : Erase(life, on)[r] =
                 IF r \in on /\ life[r] = "there" THEN "gone" ELSE life[r]
    BY DEF Erase, Life
<1>5. s.do \notin Inserts \cup Deletes => s.do \in Writes \cup {"ItemsReorder"}
    BY DEF Statement, Deeds, Inserts, Deletes, Writes
<1>6. s.do \in Inserts => s.do \notin Deletes \cup Writes \cup {"ItemsReorder"}
    BY DEF Inserts, Deletes, Writes
<1>7. s.do \in Deletes => s.do \notin Writes \cup {"ItemsReorder", "ItemAdd"}
    BY DEF Deletes, Writes
<1>8. s.do \in Writes => s.do # "ItemsReorder"  BY DEF Writes
<1>9. s.do \in Deletes => s.on \subseteq Ended(s)  BY DEF Ended
<1>10. "ItemAdd" \in Inserts /\ "ComboDelete" \in Deletes  BY DEF Inserts, Deletes
<1>11. CASE store = "sqlite"
    BY <1>1, <1>3, <1>4, <1>5, <1>6, <1>7, <1>9, <1>11, LiteAfter DEF Effect, Life
<1>12. CASE store = "postgres"
    <2>1. s.do = "ItemAdd" => Found(life, Combo)
        BY <1>12 DEF Accepts, Pg!Accepts, Pg!ItemFits, Pg!Found, Found
    <2>2. s.do = "ComboDelete" => Ended(s) = s.on \cup Items  BY <1>10, <1>12 DEF Ended
    <2>3. CASE s.do = "ComboDelete"
        <3>1. After(s) = Erase(life, s.on \cup Items)  BY <1>12, <2>3, PgAfter
        <3> QED  BY <1>1, <1>2, <1>4, <1>6, <1>7, <1>10, <1>12, <2>2, <2>3, <3>1
            DEF Effect, Life
    <2>4. CASE s.do # "ComboDelete"
        <3>1. CASE s.do \in Inserts
            <4>1. After(s) = Write(life, s.on)  BY <1>12, <3>1, PgAfter
            <4> QED  BY <1>1, <1>3, <1>6, <1>12, <2>1, <2>4, <3>1, <4>1 DEF Effect, Life
        <3>2. CASE s.do \in Deletes
            <4>1. After(s) = Erase(life, s.on)  BY <1>12, <2>4, <3>2, PgAfter
            <4> QED  BY <1>1, <1>4, <1>6, <1>7, <1>9, <1>12, <2>4, <3>2, <4>1
                DEF Effect, Life
        <3>3. CASE s.do \notin Inserts \cup Deletes
            <4>1. After(s) = life  BY <1>12, <3>3, PgAfter
            <4> QED  BY <1>10, <1>12, <2>4, <3>3, <4>1 DEF Effect, Life
        <3> QED  BY <3>1, <3>2, <3>3
    <2> QED  BY <2>3, <2>4
<1>13. CASE store = "json"
    <2>1. s.do = "ItemAdd" => Found(life, Combo)
        BY <1>13 DEF Accepts, Json!Accepts, Json!ItemFits, Json!Found, Found
    <2>2. CASE s.do \in Inserts \cup Writes
        <3>1. After(s) = Write(life, s.on)  BY <1>13, <2>2, JsonAfter
        <3> QED  BY <1>1, <1>3, <1>6, <1>7, <1>10, <1>13, <2>1, <2>2, <3>1 DEF Effect, Life
    <2>3. CASE s.do \in Deletes
        <3>1. CASE Json!Saves(life, s)
            <4>1. After(s) = Erase(life, s.on)  BY <1>13, <2>3, <3>1, JsonAfter
            <4> QED  BY <1>1, <1>4, <1>6, <1>7, <1>9, <1>13, <2>3, <4>1 DEF Effect, Life
        <3>2. CASE ~Json!Saves(life, s)
            <4>1. After(s) = life  BY <1>13, <2>3, <3>2, JsonAfter
            <4> QED  BY <1>6, <1>7, <1>13, <2>3, <3>2, <4>1 DEF Effect, Life
        <3> QED  BY <3>1, <3>2
    <2>4. CASE s.do = "ItemsReorder"
        <3>1. After(s) = Erase(life, Items \ s.on)  BY <1>13, <2>4, JsonAfter
        <3> QED  BY <1>2, <1>4, <1>6, <1>7, <1>10, <1>13, <2>4, <3>1 DEF Effect, Life
    <2> QED  BY <1>5, <2>2, <2>3, <2>4
<1> QED  BY <1>11, <1>12, <1>13

\* A map made anew: the one row, in place of all that another call put there.
LEMMA MapEffect ==
    ASSUME store = "json", life \in [Rows -> Life], NEW s \in Statement, Fits(s),
           s.do \in {"ProviderCreate", "ModelCreate", "ComboCreate"},
           NEW next, next = Write(Erase(life, UNION Json!TableOf(s)), s.on)
    PROVE  Effect(s, next)
<1>1. s.on \subseteq Rows  BY DEF Statement
<1>2. \A r \in Rows : next[r] = IF r \in s.on THEN "there"
                                ELSE IF r \in UNION Json!TableOf(s) /\ life[r] = "there"
                                THEN "gone" ELSE life[r]
    BY DEF Write, Erase
<1>3. next \in [Rows -> Life]  BY <1>1 DEF Write, Erase, Life
<1>4. s.do \in Inserts /\ s.do \notin Deletes /\ s.do # "ItemAdd" /\ s.do # "ComboDelete"
    BY DEF Inserts, Deletes
<1> QED  BY <1>1, <1>2, <1>3, <1>4 DEF Effect, Life
-----------------------------------------------------------------------------
(* A statement that is done.                                               *)

\* Call c does its statement s, and makes next of the rows.
Performs(c, s, next, saves) ==
    /\ phase = "up" /\ call[c].pc \in {"run", "make"}
    /\ s \in call[c].todo /\ \A t \in call[c].todo : s.turn <= t.turn
    /\ Effect(s, next)
    /\ saves = (store = "json" /\ Json!Saves(life, s))
    /\ Perform(c, s, next, saves)
    /\ made' \subseteq Json!Tables
    /\ UNCHANGED <<store, work, phase, schema, starts, torn, file, conn>>

LEMMA DeedsApart ==
    /\ Inserts \cap Deletes = {} /\ Inserts \cap Writes = {} /\ Deletes \cap Writes = {}
    /\ "ItemsReorder" \notin Inserts \cup Deletes \cup Writes
    /\ {"ProviderCreate", "ModelCreate", "ComboCreate", "ItemAdd"} \subseteq Inserts
    /\ {"ProviderDelete", "ModelDelete", "ComboDelete", "ItemRemove"} \subseteq Deletes
    /\ Creations \cap Deletions = {}
    /\ "DeleteProvider" \in Deletions /\ "Rollback" \notin Creations \cup Deletions
    /\ "None" \notin Creations \cup Deletions
BY DEF Inserts, Deletes, Writes, Creations, Deletions

\* A statement ends what it deletes, and at most the items with their combo.
LEMMA EndedRows ==
    ASSUME NEW s \in Statement, Fits(s)
    PROVE  /\ s.do \notin Deletes => Ended(s) = {}
           /\ s.do \in Deletes => s.on \subseteq Ended(s)
           /\ Ended(s) \subseteq Rows
           /\ Provider \in Ended(s) => s.do = "ProviderDelete"
           /\ Combo \in Ended(s) => s.do = "ComboDelete"
           /\ Combo \in Ended(s) /\ store # "sqlite" => Items \subseteq Ended(s)
BY RowsAssumption DEF Ended, Deletes, Fits, Statement, Rows

\* What a reader sees follows from the rows.
LEMMA VisibleRows ==
    ASSUME NEW l
    PROVE  Visible(l) = {r \in Rows : l[r] = "there"
                                      /\ (store = "json" /\ r \in Items => l[Combo] = "there")}
BY DEF Visible, Json!Image, Json!Rows, Json!Found, Rows, Found

\* How the rows a reader sees move.
LEMMA RowsMove ==
    ASSUME IInv, NEW c \in Calls, NEW s, NEW next, NEW saves, Performs(c, s, next, saves)
    PROVE  /\ s \in Statement /\ Fits(s) /\ Written(s) /\ life' = next
           /\ There' = Visible(next)
           /\ \A r \in There : r \in There' \cup lost' \cup Ended(s)
           /\ \A r \in Rows : life[r] = "gone" => life'[r] = "gone" \/ r \in back'
           /\ s.do \in Inserts => s.on \subseteq There'
           /\ back \subseteq back' /\ lost \subseteq lost' /\ excused \subseteq excused'
           /\ back' \subseteq Rows /\ lost' \subseteq Rows /\ excused' \subseteq Models
           /\ store # "json" => lost' = {} /\ back' = {}
           /\ ProviderLeaving => Unexcused' \subseteq Unexcused
<1>1. s \in Statement  BY DEF IInv, TypeOK, Call, Performs
<1>2. Planned(call[c]) /\ Founded(call[c])  BY DEF IInv, CallsInv
<1>3. Fits(s)  BY <1>2 DEF Planned, Performs
<1>4. Pending(call[c]) = call[c].todo  BY DEF Pending, Performs
<1>5. Written(s)  BY <1>2, <1>4 DEF Founded, Performs
<1>6. /\ life' = next /\ store' = store
      /\ back' = IF s.do \in Writes THEN back \cup (Visible(next) \ There) ELSE back
      /\ lost' = IF s.do \in Deletes THEN lost ELSE lost \cup (There \ Visible(next))
      /\ excused' = IF ProviderLeaving
                    THEN excused \cup {m \in Models : Found(next, m) /\ ~Found(life, m)}
                    ELSE excused
    BY DEF Performs, Perform, Note
<1>7. There' = Visible(next)  BY <1>6 DEF There, Visible
<1>8. Effect(s, next)  BY DEF Performs
<1>9. s.on \subseteq Rows  BY <1>1 DEF Statement
<1>10. \A r \in There : r \in There' \cup lost' \cup Ended(s)
    <2>1. SUFFICES ASSUME s.do \in Deletes, NEW r \in There, r \notin Visible(next)
                   PROVE  r \in Ended(s)
        BY <1>6, <1>7
    <2>2. /\ r \in Rows /\ life[r] = "there"
          /\ store = "json" /\ r \in Items => life[Combo] = "there"
        BY VisibleRows DEF There
    <2>3. Json!TableOf(s) = {} /\ s.do # "ItemsReorder"
        BY <2>1 DEF Deletes, Json!TableOf
    <2>4. \A q \in Rows : life[q] = "there" /\ next[q] # "there" => q \in Ended(s)
        BY <1>8, <2>3 DEF Effect
    <2>5. CASE next[r] # "there"  BY <2>2, <2>4, <2>5
    <2>6. CASE next[r] = "there"
        <3>1. store = "json" /\ r \in Items /\ next[Combo] # "there"
            BY <2>1, <2>2, <2>6, VisibleRows
        <3>2. Combo \in Rows  BY DEF Rows
        <3>3. Combo \in Ended(s)  BY <2>2, <2>4, <3>1, <3>2
        <3> QED  BY <1>1, <1>3, <3>1, <3>3, EndedRows
    <2> QED  BY <2>5, <2>6
<1>11. \A r \in Rows : life[r] = "gone" => next[r] = "gone" \/ r \in back'
    <2>1. SUFFICES ASSUME NEW r \in Rows, life[r] = "gone", next[r] # "gone"
                   PROVE  r \in back'
        BY <1>6
    <2>2. next[r] = "there" /\ r \in s.on /\ (s.do \in Inserts \/ s.do \in Writes)
        BY <1>8, <2>1 DEF Effect
    <2>3. s.do \in Writes  BY <1>5, <2>1, <2>2 DEF Written
    <2>4. r \notin Items  BY <1>3, <2>2, <2>3, RowsAssumption DEF Fits, Writes
    <2>5. r \in Visible(next) /\ r \notin There  BY <2>1, <2>2, <2>4, VisibleRows DEF There
    <2> QED  BY <1>6, <2>3, <2>5
<1>12. s.do \in Inserts => s.on \subseteq Visible(next)
    <2>1. SUFFICES ASSUME s.do \in Inserts, NEW r \in s.on, r \in Items, store = "json"
                   PROVE  next[Combo] = "there"
        BY <1>8, <1>9, VisibleRows DEF Effect
    <2>2. s.do = "ItemAdd"  BY <1>3, <2>1, RowsAssumption DEF Fits, Inserts
    <2>3. life[Combo] = "there"  BY <1>8, <2>1, <2>2 DEF Effect, Found
    <2>4. Json!TableOf(s) = {} /\ Ended(s) = {}
        BY <1>1, <1>3, <2>2, EndedRows DEF Json!TableOf, Deletes
    <2>5. Combo \in Rows  BY DEF Rows
    <2> QED  BY <1>8, <2>2, <2>3, <2>4, <2>5 DEF Effect
<1>13. back' \subseteq Rows /\ lost' \subseteq Rows /\ excused' \subseteq Models
    BY <1>6, VisibleRows DEF IInv, TypeOK, There
<1>14. store # "json" => lost' = {} /\ back' = {}
    <2>1. SUFFICES ASSUME store # "json" PROVE lost' = {} /\ back' = {}  OBVIOUS
    <2>2. lost = {} /\ back = {}  BY <2>1 DEF IInv, ToldInv
    <2>3. s.do \in Writes => s.do \notin Inserts  BY DeedsApart
    <2>4. s.do \in Writes => Visible(next) \subseteq There
        BY <1>8, <2>1, <2>3, VisibleRows DEF Effect, There
    <2>5. s.do \notin Deletes => There \subseteq Visible(next)
        BY <1>1, <1>3, <1>8, <2>1, EndedRows, VisibleRows DEF Effect, There
    <2> QED  BY <1>6, <2>2, <2>4, <2>5
<1>15. ProviderLeaving => Unexcused' \subseteq Unexcused
    BY <1>6 DEF Unexcused, Found
<1> QED  BY <1>1, <1>3, <1>5, <1>6, <1>7, <1>10, <1>11, <1>12, <1>13, <1>14, <1>15

\* The call with the rows it counts on.
Credited(c, s, saves) ==
    [call[c] EXCEPT !.did = IF s.strict /\ (store = "json" => saves) THEN @ \cup s.on ELSE @]

Done(c, s, saves) ==
    IF saves THEN [Credited(c, s, saves) EXCEPT !.pc = "save", !.now = {s}]
    ELSE AfterStatement(Credited(c, s, saves), s)

LEMMA PerformCalls ==
    ASSUME IInv, NEW c \in Calls, NEW s, NEW next, NEW saves, Performs(c, s, next, saves)
    PROVE  /\ \A d \in Calls \ {c} :
                  call'[d] = IF call[d].op \in Creations
                             THEN [call[d] EXCEPT !.did = @ \ Ended(s)] ELSE call[d]
           /\ call'[c] = Done(c, s, saves)
           /\ \A r \in Rows : told'[r] =
                  IF ~saves /\ Answers(call[c], s) /\ call[c].op \in Creations
                        /\ r \in Credited(c, s, saves).did
                  THEN "created"
                  ELSE IF ~saves /\ Answers(call[c], s) /\ call[c].op \in Deletions
                             /\ r \in call[c].on \cap Credited(c, s, saves).did
                  THEN "deleted"
                  ELSE IF r \in Ended(s) THEN "none" ELSE told[r]
           /\ told' = [r \in Rows |-> told'[r]] /\ call' = [d \in Calls |-> call'[d]]
<1> DEFINE cleared == [d \in Calls |-> IF call[d].op \in Creations
                                       THEN [call[d] EXCEPT !.did = @ \ Ended(s)]
                                       ELSE call[d]]
           counts == s.strict /\ (store = "json" => saves)
           k == [cleared[c] EXCEPT !.did = IF counts THEN @ \cup s.on ELSE @]
           forgot == [r \in Rows |-> IF r \in Ended(s) THEN "none" ELSE told[r]]
<1>1. /\ call' = [cleared EXCEPT ![c] = IF saves THEN [k EXCEPT !.pc = "save", !.now = {s}]
                                        ELSE AfterStatement(k, s)]
      /\ told' = IF saves THEN forgot ELSE Tell(forgot, k, s)
    BY DEF Performs, Perform
<1>2. call[c] \in Call /\ s \in Statement  BY DEF IInv, TypeOK, Call, Performs
<1>3. Planned(call[c])  BY DEF IInv, CallsInv
<1>4. call[c].op \in Creations => Ended(s) = {}
    BY <1>2, <1>3, EndedRows, DeedsApart DEF Planned, Performs
<1>5. cleared[c] = call[c]  BY <1>2, <1>4 DEF Call
<1>6. k = Credited(c, s, saves)  BY <1>5 DEF Credited
<1>7. k.op = call[c].op /\ k.on = call[c].on /\ k.todo = call[c].todo
    BY <1>2, <1>6 DEF Credited, Call
<1>8. Answers(k, s) = Answers(call[c], s)  BY <1>7 DEF Answers
<1>9. \A d \in Calls \ {c} : call'[d] = cleared[d]  BY <1>1
<1>10. call'[c] = IF saves THEN [k EXCEPT !.pc = "save", !.now = {s}] ELSE AfterStatement(k, s)
    BY <1>1
<1>11. \A r \in Rows : told'[r] =
                  IF ~saves /\ Answers(call[c], s) /\ call[c].op \in Creations /\ r \in k.did
                  THEN "created"
                  ELSE IF ~saves /\ Answers(call[c], s) /\ call[c].op \in Deletions
                             /\ r \in call[c].on \cap k.did
                  THEN "deleted"
                  ELSE IF r \in Ended(s) THEN "none" ELSE told[r]
    <2>1. CASE saves  BY <1>1, <2>1
    <2>2. CASE ~saves  BY <1>1, <1>7, <1>8, <2>2 DEF Tell
    <2> QED  BY <2>1, <2>2
<1>12. told' = [r \in Rows |-> told'[r]]  BY <1>1 DEF Tell
<1>13. call' = [d \in Calls |-> call'[d]]
    <2> DEFINE x == IF saves THEN [k EXCEPT !.pc = "save", !.now = {s}] ELSE AfterStatement(k, s)
    <2>1. call' = [cleared EXCEPT ![c] = x] /\ cleared = [d \in Calls |-> cleared[d]]
        BY <1>1
    <2> HIDE DEF cleared, x
    <2> QED  BY <2>1
<1>14. call'[c] = Done(c, s, saves)  BY <1>6, <1>10 DEF Done
<1> QED  BY <1>6, <1>9, <1>11, <1>12, <1>13, <1>14

\* The calls that look on.
LEMMA OthersKeep ==
    ASSUME IInv, NEW c \in Calls, NEW s, NEW next, NEW saves, Performs(c, s, next, saves),
           NEW d \in Calls, d # c
    PROVE  /\ call'[d] \in Call /\ call'[d].pc = call[d].pc
           /\ Pending(call[d])' = Pending(call[d])
           /\ Planned(call[d])' /\ Founded(call[d])' /\ Cleared(call[d])' /\ Stored(call[d])'
<1> DEFINE k == call[d]  new == call'[d]
<1>1. k \in Call /\ s \in Statement  BY DEF IInv, TypeOK, Call, Performs
<1>2. new = IF k.op \in Creations THEN [k EXCEPT !.did = @ \ Ended(s)] ELSE k
    BY PerformCalls
<1>3. /\ new \in Call /\ new.op = k.op /\ new.pc = k.pc /\ new.on = k.on
      /\ new.todo = k.todo /\ new.now = k.now /\ new.did \subseteq k.did
      /\ k.op \in Creations => new.did = k.did \ Ended(s)
    BY <1>1, <1>2 DEF Call
<1>4. Planned(k) /\ Founded(k) /\ Cleared(k)  BY DEF IInv, CallsInv
<1>5. Pending(call[d])' = Pending(k)  BY <1>3 DEF Pending
<1>6. store' = store  BY DEF Performs
<1>7. Planned(call[d])'  BY <1>3, <1>4, <1>6 DEF Planned, Fits
<1>8. /\ s \in Statement /\ Fits(s) /\ Written(s) /\ life' = next
      /\ \A r \in There : r \in There' \cup lost' \cup Ended(s)
      /\ \A r \in Rows : life[r] = "gone" => life'[r] = "gone" \/ r \in back'
      /\ back \subseteq back' /\ lost \subseteq lost'
      /\ ProviderLeaving => Unexcused' \subseteq Unexcused
    BY RowsMove
<1>9. \A r \in Rows : life[r] # "unused" => life'[r] # "unused"
    BY <1>8 DEF Performs, Effect
<1>10. ASSUME NEW t \in Pending(k), t.do \in Inserts, NEW r \in t.on PROVE life'[r] = "unused"
    <2>1. life[r] = "unused" /\ r \in Rows
        BY <1>1, <1>4, <1>10 DEF Founded, Written, Pending, Call, Statement
    <2>2. s \in Pending(call[c])  BY DEF Pending, Performs
    <2>3. ~(s.do \in Inserts /\ r \in s.on)  BY <1>10, <2>2 DEF IInv, InsertsApart
    <2>4. ~(s.do \in Writes /\ r \in s.on)  BY <1>8, <2>1 DEF Written
    <2> QED  BY <1>8, <2>1, <2>3, <2>4 DEF Performs, Effect
<1>11. k.todo \subseteq Statement /\ Pending(k) \subseteq k.todo
       /\ k.on \subseteq Rows /\ k.did \subseteq Rows
    BY <1>1 DEF Call, Pending
<1>12. \A t \in Pending(k) : Written(t)'
    BY <1>4, <1>9, <1>10, <1>11 DEF Founded, Written, Statement
<1>13. Provider \in Rows /\ Combo \in Rows  BY DEF Rows
<1>14. \A t \in Pending(k) : t.do = "ModelCreate" =>
           \/ life'[Provider] # "unused"
           \/ \E u \in Pending(k) : u.do = "ProviderCreate" /\ u.turn < t.turn
    BY <1>4, <1>9, <1>13 DEF Founded
<1>15. k.op \in Creations => \A r \in new.did : r \in There' \cup lost'
    BY <1>3, <1>4, <1>8 DEF Founded
<1>16. k.op \in Deletions => \A r \in k.on : life'[r] # "unused"
    BY <1>4, <1>9, <1>11 DEF Founded
<1>17. k.op \in Deletions => \A r \in (k.on \cap new.did) \ back' : life'[r] = "gone"
    BY <1>3, <1>4, <1>8, <1>11 DEF Founded
<1>18. k.pc = "execute" => life'[Combo] # "unused"  BY <1>4, <1>9, <1>13 DEF Founded
<1>19. k.op = "UpdateProvider" => life'[Provider] # "unused"
    BY <1>4, <1>9, <1>13 DEF Founded
<1>20. k.pc = "panicked" => life'[Combo] = "gone" \/ Combo \in back'
    BY <1>4, <1>8, <1>13 DEF Founded
<1>21. Founded(call[d])'
    BY <1>3, <1>5, <1>12, <1>14, <1>15, <1>16, <1>17, <1>18, <1>20, <1>19 DEF Founded
<1>22. k.op = "Rollback" \/ (k.op = "DeleteProvider" /\ k.pc # "list") => ProviderLeaving
    BY DEF ProviderLeaving
<1>23. Cleared(call[d])'  BY <1>3, <1>4, <1>5, <1>8, <1>22 DEF Cleared, ClearedOf
<1>24. Unsaved(call[d])' = Unsaved(k)  BY <1>3 DEF Unsaved
<1>25. file' = file /\ torn' = torn /\ Stored(k)  BY DEF Performs, IInv, CallsInv
<1>26. Stored(call[d])'  BY <1>3, <1>6, <1>8, <1>24, <1>25 DEF Stored, StoredIn
<1> QED  BY <1>3, <1>5, <1>7, <1>21, <1>23, <1>26

\* The call itself: one statement fewer.
LEMMA DoerKeeps ==
    ASSUME IInv, NEW c \in Calls, NEW s, NEW next, NEW saves, Performs(c, s, next, saves)
    PROVE  /\ call'[c] \in Call
           /\ call'[c].pc \in {"save", "make"} => store = "json"
           /\ Pending(call[c])' \subseteq Pending(call[c]) \ {s}
           /\ Planned(call[c])' /\ Founded(call[c])' /\ Cleared(call[c])' /\ Stored(call[c])'
<1> DEFINE k == call[c]  new == call'[c]  did == Credited(c, s, saves).did
<1>1. k \in Call /\ s \in Statement  BY DEF IInv, TypeOK, Call, Performs
<1>2. did = IF s.strict /\ (store = "json" => saves) THEN k.did \cup s.on ELSE k.did
    BY <1>1 DEF Credited, Call
<1>3. did \subseteq Rows  BY <1>1, <1>2 DEF Call, Statement
<1>4. new = Done(c, s, saves)  BY PerformCalls
<1>5. \/ /\ saves /\ new.pc = "save" /\ new.todo = k.todo /\ new.now = {s}
         /\ new.op = k.op /\ new.on = k.on /\ new.did = did
      \/ /\ ~saves /\ new.pc = "run" /\ new.todo = k.todo \ {s} /\ new.now = {}
         /\ k.todo # {s}
         /\ new.op = k.op /\ new.on = k.on /\ new.did = did
      \/ /\ ~saves /\ new.pc = "list" /\ new.todo = {} /\ new.now = {}
         /\ s.do = "ProviderUpdate"
         /\ new.op = k.op /\ new.on = k.on /\ new.did = did
      \/ ~saves /\ new = Idle
    BY <1>1, <1>4 DEF Done, AfterStatement, Credited, Call
<1>6. new \in Call
    <2>1. s \in Statement /\ {s} \subseteq Statement /\ k.todo \ {s} \subseteq Statement
        BY <1>1 DEF Call
    <2>2. Idle \in Call  BY DEF Idle, Call
    <2> DEFINE w == Credited(c, s, saves)
    <2>3. w \in Call  BY <1>1, <1>3 DEF Credited, Call
    <2>4. [w EXCEPT !.pc = "save", !.now = {s}] \in Call  BY <2>1, <2>3 DEF Call
    <2>5. [w EXCEPT !.pc = "run", !.todo = @ \ {s}, !.now = {}] \in Call
        BY <2>3 DEF Call
    <2>6. [w EXCEPT !.pc = "list", !.todo = {}, !.now = {}] \in Call
        BY <2>3 DEF Call
    <2> QED  BY <1>4, <2>2, <2>4, <2>5, <2>6 DEF Done, AfterStatement
<1>7. Planned(k) /\ Founded(k) /\ Cleared(k)  BY DEF IInv, CallsInv
<1>8. /\ k.pc \in {"run", "make"} /\ store' = store
      /\ s \in k.todo /\ \A t \in k.todo : s.turn <= t.turn
      /\ saves = (store = "json" /\ Json!Saves(life, s))
      /\ Effect(s, next)
    BY DEF Performs
<1>9. Pending(k) = k.todo  BY <1>8 DEF Pending
<1>10. Pending(call[c])' \subseteq k.todo \ {s}  BY <1>5 DEF Pending, Idle
<1>11. new # Idle => Pending(call[c])' = k.todo \ {s}
    <2>1. s.do = "ProviderUpdate" /\ new.pc = "list" => k.todo = {s}
        BY <1>1, <1>4, <1>5 DEF Done, AfterStatement, Credited, Call
    <2> QED  BY <1>5, <2>1 DEF Pending
<1>12. new.pc \in {"save", "make"} => saves  BY <1>5 DEF Idle
<1>13. Planned(call[c])'
    <2>1. CASE new = Idle
        BY <2>1 DEF Planned, Idle
    <2>2. CASE new # Idle
        <3>1. new.todo \subseteq k.todo /\ new.op = k.op  BY <1>5, <2>2
        <3>2. \A t \in new.todo : t.do = "ItemRemove" =>
                  new.todo = {t} /\ (new.pc # "save" => new.did = {})
            <4>1. SUFFICES ASSUME NEW t \in new.todo, t.do = "ItemRemove"
                           PROVE  new.todo = {t} /\ new.pc = "save"
                OBVIOUS
            <4>2. k.todo = {t}  BY <1>7, <3>1, <4>1 DEF Planned
            <4> QED  BY <1>5, <1>8, <2>2, <4>1, <4>2
        <3> QED  BY <1>5, <1>7, <1>8, <2>2, <3>1, <3>2 DEF Planned, Fits
    <2> QED  BY <2>1, <2>2
<1>14. /\ Fits(s) /\ Written(s) /\ life' = next
       /\ \A r \in There : r \in There' \cup lost' \cup Ended(s)
       /\ \A r \in Rows : life[r] = "gone" => life'[r] = "gone" \/ r \in back'
       /\ s.do \in Inserts => s.on \subseteq There'
       /\ back \subseteq back' /\ lost \subseteq lost'
       /\ ProviderLeaving => Unexcused' \subseteq Unexcused
    BY RowsMove
<1>15. \A r \in Rows : life[r] # "unused" => life'[r] # "unused"
    BY <1>8, <1>14 DEF Effect
<1>16. ASSUME NEW t \in k.todo \ {s}, t.do \in Inserts, NEW r \in t.on PROVE life'[r] = "unused"
    <2>1. life[r] = "unused" /\ r \in Rows
        BY <1>1, <1>7, <1>9, <1>16 DEF Founded, Written, Call, Statement
    <2>2. ~(s.do \in Inserts /\ r \in s.on)  BY <1>8, <1>9, <1>16 DEF IInv, InsertsApart
    <2>3. ~(s.do \in Writes /\ r \in s.on)  BY <1>14, <2>1 DEF Written
    <2> QED  BY <1>8, <1>14, <2>1, <2>2, <2>3 DEF Effect
<1>17. \A t \in k.todo \ {s} : Written(t)'
    BY <1>1, <1>7, <1>9, <1>15, <1>16 DEF Founded, Written, Call, Statement
<1>18. Provider \in Rows /\ Combo \in Rows  BY DEF Rows
<1>19. ASSUME NEW t \in k.todo \ {s}, t.do = "ModelCreate"
       PROVE  \/ life'[Provider] # "unused"
              \/ \E u \in k.todo \ {s} : u.do = "ProviderCreate" /\ u.turn < t.turn
    <2>1. CASE life[Provider] # "unused"  BY <1>15, <1>18, <2>1
    <2>2. CASE \E u \in k.todo : u.do = "ProviderCreate" /\ u.turn < t.turn
        <3>1. PICK u \in k.todo : u.do = "ProviderCreate" /\ u.turn < t.turn  BY <2>2
        <3>2. CASE u = s
            <4>1. Provider \in s.on /\ s.do \in Inserts
                BY <1>14, <3>1, <3>2 DEF Fits, Inserts
            <4> QED  BY <1>8, <1>14, <4>1 DEF Effect
        <3>3. CASE u # s  BY <3>1, <3>3
        <3> QED  BY <3>2, <3>3
    <2> QED  BY <1>7, <1>9, <1>19, <2>1, <2>2 DEF Founded
<1>20. k.op \in Creations => \A r \in did : r \in There' \cup lost'
    <2>1. SUFFICES ASSUME k.op \in Creations PROVE \A r \in did : r \in There' \cup lost'
        OBVIOUS
    <2>2. s.do \in Inserts  BY <1>7, <1>8, <2>1 DEF Planned
    <2>3. Ended(s) = {}  BY <1>1, <1>14, <2>2, EndedRows, DeedsApart
    <2>4. \A r \in k.did : r \in There \cup lost  BY <1>7, <2>1 DEF Founded
    <2> QED  BY <1>2, <1>14, <2>2, <2>3, <2>4
<1>21. k.op \in Deletions => \A r \in k.on : life'[r] # "unused"
    BY <1>1, <1>7, <1>15 DEF Founded, Call
<1>22. k.op \in Deletions => \A r \in (k.on \cap did) \ back' : life'[r] = "gone"
    <2>1. SUFFICES ASSUME k.op \in Deletions, NEW r \in k.on, r \in did, r \notin back'
                   PROVE  life'[r] = "gone"
        OBVIOUS
    <2>2. r \in Rows /\ life'[r] # "unused"  BY <1>1, <1>21, <2>1 DEF Call
    <2>3. CASE r \in k.did  BY <1>7, <1>14, <2>1, <2>2, <2>3 DEF Founded
    <2>4. CASE r \notin k.did
        <3>1. r \in s.on /\ (store = "json" => saves)  BY <1>2, <2>1, <2>4
        <3>2. s.do \in Deletes  BY <1>7, <1>8, <2>1 DEF Planned
        <3>3. next[r] # "there" /\ next \in [Rows -> Life]  BY <1>8, <3>1, <3>2 DEF Effect
        <3> QED  BY <1>14, <2>2, <3>3 DEF Life
    <2> QED  BY <2>3, <2>4
<1>23. k.op = "UpdateProvider" => life'[Provider] # "unused"
    BY <1>7, <1>15, <1>18 DEF Founded
<1>24. Founded(call[c])'
    <2>1. CASE new = Idle
        BY <2>1, DeedsApart DEF Founded, Idle, Pending
    <2>2. CASE new # Idle
        BY <1>5, <1>11, <1>17, <1>19, <1>20, <1>21, <1>22, <1>23, <2>2 DEF Founded
    <2> QED  BY <2>1, <2>2
<1>25. Cleared(call[c])'
    <2>1. CASE new = Idle  BY <2>1 DEF Cleared, ClearedOf, Idle
    <2>2. CASE new # Idle
        <3>1. new.op = k.op  BY <1>5, <2>2
        <3>2. k.pc # "list"  BY <1>8
        <3>3. k.op \in {"Rollback", "DeleteProvider"} => ProviderLeaving
            BY <3>2 DEF ProviderLeaving
        <3>4. k.op = "Rollback" => Unexcused' = {}
            BY <1>7, <1>14, <3>3 DEF Cleared, ClearedOf
        <3>5. ASSUME k.op = "DeleteProvider", NEW m \in Unexcused'
              PROVE  \E t \in k.todo \ {s} : t.do = "ModelDelete" /\ m \in t.on
            <4>1. m \in Unexcused  BY <1>14, <3>3, <3>5
            <4>2. PICK t \in k.todo : t.do = "ModelDelete" /\ m \in t.on
                BY <1>7, <1>9, <3>2, <3>5, <4>1 DEF Cleared, ClearedOf
            <4>3. life'[m] = "there"  BY <3>5 DEF Unexcused, Found
            <4>4. s.do = "ModelDelete" => Json!Saves(life, s) /\ s.do \in Deletes
                BY DEF Json!Saves, Deletes
            <4>5. t # s  BY <1>8, <1>14, <4>2, <4>3, <4>4 DEF Effect
            <4> QED  BY <4>2, <4>5
        <3> QED  BY <1>11, <2>2, <3>1, <3>4, <3>5 DEF Cleared, ClearedOf
    <2> QED  BY <2>1, <2>2
<1>26. new.pc \in {"save", "make"} => store = "json"  BY <1>8, <1>12
<1>27. Stored(call[c])'
    <2>1. CASE new = Idle  BY <2>1, DeedsApart DEF Stored, StoredIn, Idle
    <2>2. CASE new # Idle
        <3>1. new.op = k.op /\ new.on = k.on /\ new.did = did  BY <1>5, <2>2
        <3>2. file' = file /\ torn' = torn /\ Stored(k)  BY DEF Performs, IInv, CallsInv
        <3>3. Unsaved(k) = {}  BY <1>8 DEF Unsaved
        <3>4. CASE store # "json"
            <4>1. file = {}  BY <3>4 DEF IInv, TypeOK
            <4> QED  BY <1>8, <3>2, <3>4, <4>1 DEF Stored, StoredIn
        <3>5. CASE store = "json" /\ saves
            <4>1. new.pc = "save" /\ new.now = {s}  BY <1>5, <2>2, <3>5
            <4>2. s.strict => s.on \subseteq Unsaved(call[c])'
                BY <1>1, <4>1 DEF Unsaved, Statement
            <4>3. did \subseteq k.did \cup Unsaved(call[c])'  BY <1>2, <4>2
            <4> QED  BY <1>8, <1>14, <3>1, <3>2, <3>3, <4>3 DEF Stored, StoredIn
        <3>6. CASE store = "json" /\ ~saves
            <4>1. did = k.did  BY <1>2, <3>6
            <4> QED  BY <1>8, <1>14, <3>1, <3>2, <3>3, <4>1 DEF Stored, StoredIn
        <3> QED  BY <3>4, <3>5, <3>6
    <2> QED  BY <2>1, <2>2
<1> QED  BY <1>6, <1>9, <1>10, <1>13, <1>24, <1>25, <1>26, <1>27

LEMMA PerformRows ==
    ASSUME IInv, NEW c \in Calls, NEW s, NEW next, NEW saves, Performs(c, s, next, saves)
    PROVE  ProviderFirst' /\ OrphansExcused' /\ ItemsCovered' /\ FileInv'
<1>1. /\ s \in Statement /\ Fits(s) /\ Written(s) /\ life' = next
      /\ excused \subseteq excused'
      /\ ProviderLeaving => Unexcused' \subseteq Unexcused
    BY RowsMove
<1>2. /\ call[c].pc \in {"run", "make"} /\ store' = store /\ file' = file /\ torn' = torn
      /\ s \in call[c].todo /\ \A t \in call[c].todo : s.turn <= t.turn
      /\ Effect(s, next)
    BY DEF Performs
<1>3. Pending(call[c]) = call[c].todo  BY <1>2 DEF Pending
<1>4. Planned(call[c]) /\ Founded(call[c]) /\ Cleared(call[c])  BY DEF IInv, CallsInv
<1>5. \A t \in call[c].todo : t.turn \in {1, 2}  BY DEF IInv, TypeOK, Call, Statement
<1>6. Provider \in Rows /\ Combo \in Rows /\ Models \subseteq Rows /\ Items \subseteq Rows
    BY DEF Rows
<1>7. ProviderFirst'
    <2>1. SUFFICES ASSUME next[Provider] = "unused", NEW m \in Models, next[m] # "unused"
                   PROVE  FALSE
        BY <1>1 DEF ProviderFirst
    <2>2. life[Provider] = "unused" /\ life[m] = "unused"
        BY <1>2, <1>6, <2>1 DEF Effect, IInv, ProviderFirst
    <2>3. m \in s.on /\ s.do \in Inserts \cup Writes  BY <1>2, <1>6, <2>1, <2>2 DEF Effect
    <2>4. s.do \in Inserts  BY <1>1, <2>2, <2>3 DEF Written
    <2>5. s.do = "ModelCreate"  BY <1>1, <2>3, <2>4, RowsAssumption DEF Fits, Inserts
    <2>6. PICK t \in call[c].todo : t.turn < s.turn
        BY <1>2, <1>3, <1>4, <2>2, <2>5 DEF Founded
    <2> QED  BY <1>2, <1>5, <2>6
<1>8. OrphansExcused'
    <2>1. SUFFICES ASSUME next[Provider] = "gone", NEW m \in Models, next[m] = "there"
                   PROVE  m \in excused'
        BY <1>1 DEF OrphansExcused, Found
    <2>2. life[Provider] # "gone" => s.do = "ProviderDelete"
        <3>1. SUFFICES ASSUME life[Provider] # "gone" PROVE s.do = "ProviderDelete"  OBVIOUS
        <3>2. life[Provider] = "there"  BY <1>2, <1>6, <2>1, <3>1 DEF Effect
        <3>3. Provider \in Ended(s) \/ (Provider \in UNION Json!TableOf(s) /\ Provider \notin s.on)
            BY <1>2, <1>6, <2>1, <3>2, RowsAssumption DEF Effect
        <3>4. ~(Provider \in UNION Json!TableOf(s) /\ Provider \notin s.on)
            BY <1>1, RowsAssumption DEF Json!TableOf, Fits
        <3> QED  BY <1>1, <3>3, <3>4, EndedRows
    <2>3. s.do = "ProviderDelete" => Unexcused = {}
        <3>1. SUFFICES ASSUME s.do = "ProviderDelete" PROVE Unexcused = {}  OBVIOUS
        <3>2. CASE call[c].op = "Rollback"  BY <1>4, <3>2 DEF Cleared, ClearedOf
        <3>3. CASE call[c].op = "DeleteProvider"
            <4>1. s.turn = 2  BY <1>2, <1>4, <3>1, <3>3 DEF Planned
            <4>2. \A t \in call[c].todo : t.do # "ModelDelete"
                BY <1>2, <1>4, <3>3, <4>1 DEF Planned
            <4> QED  BY <1>2, <1>3, <1>4, <3>3, <4>2 DEF Cleared, ClearedOf
        <3> QED  BY <1>2, <1>4, <3>1, <3>2, <3>3 DEF Planned
    <2>4. life[Provider] = "gone" => Unexcused = {}
        BY DEF IInv, OrphansExcused, Unexcused
    <2>5. ProviderLeaving
        BY <1>2, <1>4, <2>2 DEF ProviderLeaving, Planned
    <2>6. Unexcused' = {}  BY <1>1, <2>2, <2>3, <2>4, <2>5
    <2> QED  BY <1>1, <2>1, <2>6 DEF Unexcused, Found
<1>9. ItemsCovered'
    <2>1. SUFFICES ASSUME store = "postgres", next[Combo] # "there", NEW i \in Items,
                          next[i] = "there"
                   PROVE  FALSE
        BY <1>1, <1>2 DEF ItemsCovered, Found
    <2>2. CASE life[Combo] = "there"
        <3>1. s.do = "ComboDelete"
            BY <1>1, <1>2, <1>6, <2>1, <2>2, EndedRows DEF Effect
        <3> QED  BY <1>2, <2>1, <3>1 DEF Effect
    <2>3. CASE life[Combo] # "there"
        <3>1. life[i] # "there"  BY <2>1, <2>3 DEF IInv, ItemsCovered, Found
        <3>2. i \in s.on /\ s.do \in Inserts  BY <1>2, <1>6, <2>1, <3>1 DEF Effect
        <3>3. s.do = "ItemAdd"  BY <1>1, <3>2, RowsAssumption DEF Fits, Inserts
        <3> QED  BY <1>2, <2>1, <2>3, <3>3 DEF Effect, Found
    <2> QED  BY <2>2, <2>3
<1>10. FileInv'
    <2>1. file \subseteq Rows  BY DEF IInv, TypeOK
    <2>2. \A r \in file : next[r] # "unused"
        BY <1>2, <2>1 DEF IInv, FileInv, Effect
    <2> QED  BY <1>1, <1>2, <2>2 DEF IInv, FileInv
<1> QED  BY <1>7, <1>8, <1>9, <1>10

LEMMA PerformTold ==
    ASSUME IInv, NEW c \in Calls, NEW s, NEW next, NEW saves, Performs(c, s, next, saves)
    PROVE  ToldInv' /\ told' \in [Rows -> {"none", "created", "deleted"}]
<1> DEFINE k == call[c]  did == Credited(c, s, saves).did
<1>1. /\ s \in Statement /\ Fits(s) /\ life' = next
      /\ \A r \in There : r \in There' \cup lost' \cup Ended(s)
      /\ \A r \in Rows : life[r] = "gone" => life'[r] = "gone" \/ r \in back'
      /\ s.do \in Inserts => s.on \subseteq There'
      /\ back \subseteq back' /\ lost \subseteq lost'
      /\ store # "json" => lost' = {} /\ back' = {}
    BY RowsMove
<1>2. /\ phase' = phase /\ phase = "up" /\ store' = store /\ file' = file /\ torn' = torn
      /\ s \in k.todo /\ Effect(s, next)
      /\ saves = (store = "json" /\ Json!Saves(life, s))
    BY DEF Performs
<1>3. Planned(k) /\ Founded(k)  BY DEF IInv, CallsInv
<1>4. did = IF s.strict /\ (store = "json" => saves) THEN k.did \cup s.on ELSE k.did
    BY DEF Credited, IInv, TypeOK, Call
<1>5. k.on \subseteq Rows  BY DEF IInv, TypeOK, Call
<1>6. \A r \in Rows :
          \/ told'[r] = told[r] /\ r \notin Ended(s)
          \/ told'[r] = "none"
          \/ ~saves /\ k.op \in Creations /\ r \in did /\ told'[r] = "created"
          \/ ~saves /\ k.op \in Deletions /\ r \in k.on \cap did /\ told'[r] = "deleted"
    BY PerformCalls
<1>7. told' \in [Rows -> {"none", "created", "deleted"}]
    <2>1. \A r \in Rows : told'[r] \in {"none", "created", "deleted"}
        BY <1>6 DEF IInv, TypeOK
    <2>2. told' = [r \in Rows |-> told'[r]]  BY PerformCalls
    <2> QED  BY <2>1, <2>2
<1>8. ~saves /\ store = "json" => s.do = "ItemRemove" /\ k.did = {} /\ did = {}
    <2>1. SUFFICES ASSUME ~saves, store = "json"
                   PROVE  s.do = "ItemRemove" /\ k.did = {} /\ did = {}
        OBVIOUS
    <2>2. s.do = "ItemRemove"  BY <1>2, <2>1 DEF Json!Saves
    <2>3. k.did = {}  BY <1>2, <1>3, <2>2 DEF Planned, Performs
    <2> QED  BY <1>4, <2>1, <2>2, <2>3
<1>9. ASSUME NEW r \in Rows, told'[r] = "created", r \notin lost'
      PROVE  r \in There' /\ (store = "json" /\ ~torn => r \in file)
    <2>1. CASE told'[r] = told[r] /\ r \notin Ended(s)
        BY <1>1, <1>2, <1>9, <2>1 DEF IInv, ToldInv
    <2>2. CASE ~saves /\ k.op \in Creations /\ r \in did
        <3>1. store # "json"  BY <1>8, <2>2
        <3>2. s.do \in Inserts  BY <1>2, <1>3, <2>2 DEF Planned
        <3>3. Ended(s) = {}  BY <1>1, <3>2, EndedRows, DeedsApart
        <3>4. r \in s.on \/ r \in There \cup lost  BY <1>3, <1>4, <2>2 DEF Founded
        <3> QED  BY <1>1, <1>9, <3>1, <3>2, <3>3, <3>4
    <2> QED  BY <1>6, <1>9, <2>1, <2>2
<1>10. ASSUME NEW r \in Rows, told'[r] = "deleted", r \notin back'
       PROVE  life'[r] = "gone" /\ r \notin file
    <2>1. CASE told'[r] = told[r]
        BY <1>1, <1>10, <2>1 DEF IInv, ToldInv
    <2>2. CASE ~saves /\ k.op \in Deletions /\ r \in k.on \cap did
        <3>1. store # "json"  BY <1>8, <2>2
        <3>2. file = {}  BY <3>1 DEF IInv, TypeOK
        <3>3. life[r] # "unused" /\ (r \in k.did => life[r] = "gone")
            BY <1>1, <1>3, <1>10, <2>2 DEF Founded
        <3>4. s.do \in Deletes  BY <1>2, <1>3, <2>2 DEF Planned
        <3>5. CASE r \in k.did  BY <1>1, <1>10, <3>2, <3>3, <3>5
        <3>6. CASE r \notin k.did
            <4>1. r \in s.on  BY <1>4, <2>2, <3>6
            <4>2. next[r] # "there" /\ next[r] # "unused" /\ next \in [Rows -> Life]
                BY <1>2, <1>10, <3>1, <3>3, <3>4, <4>1 DEF Effect
            <4> QED  BY <1>1, <1>10, <3>2, <4>2 DEF Life
        <3> QED  BY <3>5, <3>6
    <2> QED  BY <1>6, <1>10, <2>1, <2>2
<1>11. ToldInv'  BY <1>1, <1>2, <1>9, <1>10 DEF ToldInv
<1> QED  BY <1>7, <1>11

LEMMA PerformKeeps ==
    ASSUME IInv, NEW c \in Calls, NEW s, NEW next, NEW saves, Performs(c, s, next, saves)
    PROVE  IInv'
<1>1. /\ phase = "up" /\ made' \subseteq Json!Tables
      /\ UNCHANGED <<store, work, phase, schema, starts, torn, file, conn>>
      /\ next \in [Rows -> Life]
    BY DEF Performs, Effect
<1>2. /\ life' = next /\ back' \subseteq Rows /\ lost' \subseteq Rows /\ excused' \subseteq Models
    BY RowsMove
<1>3. \A d \in Calls :
          /\ call'[d] \in Call /\ (call'[d].pc \in {"save", "make"} => store = "json")
          /\ Pending(call[d])' \subseteq Pending(call[d])
          /\ Planned(call[d])' /\ Founded(call[d])' /\ Cleared(call[d])' /\ Stored(call[d])'
    <2>1. SUFFICES ASSUME NEW d \in Calls
                   PROVE  /\ call'[d] \in Call
                          /\ call'[d].pc \in {"save", "make"} => store = "json"
                          /\ Pending(call[d])' \subseteq Pending(call[d])
                          /\ Planned(call[d])' /\ Founded(call[d])'
                          /\ Cleared(call[d])' /\ Stored(call[d])'
        OBVIOUS
    <2>2. CASE d = c  BY <2>2, DoerKeeps
    <2>3. CASE d # c
        <3>1. call[d].pc \in {"save", "make"} => store = "json"  BY DEF IInv, TypeOK
        <3> QED  BY <2>3, <3>1, OthersKeep
    <2> QED  BY <2>2, <2>3
<1>4. call' \in [Calls -> Call]
    <2>1. call' = [d \in Calls |-> call'[d]]  BY PerformCalls
    <2> QED  BY <1>3, <2>1
<1>5. ToldInv' /\ told' \in [Rows -> {"none", "created", "deleted"}]  BY PerformTold
<1>6. TypeOK'  BY <1>1, <1>2, <1>3, <1>4, <1>5 DEF IInv, TypeOK
<1>7. CallsInv'  BY <1>3 DEF CallsInv
<1>8. InsertsApart'  BY <1>3 DEF IInv, InsertsApart
<1>9. ProviderFirst' /\ OrphansExcused' /\ ItemsCovered' /\ FileInv'  BY PerformRows
<1>10. QuietDown'  BY <1>1 DEF QuietDown
<1> QED  BY <1>5, <1>6, <1>7, <1>8, <1>9, <1>10 DEF IInv
-----------------------------------------------------------------------------
(* Steps that leave the rows as they are.                                  *)

\* What call k may become, whatever else moves, as far as calls go.
Sound(c, k) ==
    /\ k \in Call /\ (k.pc \in {"save", "make"} => store = "json")
    /\ Planned(k) /\ Founded(k)
    /\ \A d \in Calls \ {c} : \A s \in Pending(k), t \in Pending(call[d]) :
           s.do \in Inserts /\ t.do \in Inserts => s.on \cap t.on = {}
    /\ \A s, t \in Pending(k) :
           s.do \in Inserts /\ t.do \in Inserts /\ s.on \cap t.on # {} => s = t

\* What may happen to the file while the rows stay.
Filed ==
    \/ UNCHANGED <<file, torn>>
    \/ store = "json" /\ file' = {} /\ torn' = TRUE
    \/ store = "json" /\ file' = Json!Image(life) /\ torn' = FALSE

\* What was in the file is, as long as the rows are as they were.
LEMMA FileRemembers ==
    ASSUME IInv, Filed, UNCHANGED <<store, life>>
    PROVE  /\ \A r \in There : torn \/ r \in file => torn' \/ r \in file'
           /\ \A r \in Rows : life[r] = "gone" /\ r \notin file => r \notin file'
<1>1. CASE UNCHANGED <<file, torn>>  BY <1>1 DEF IInv, TypeOK
<1>2. CASE store = "json" /\ file' = {} /\ torn' = TRUE  BY <1>2
<1>3. CASE store = "json" /\ file' = Json!Image(life) /\ torn' = FALSE
    BY <1>3, VisibleRows DEF There, Visible
<1> QED  BY <1>1, <1>2, <1>3 DEF Filed

LEMMA FiledKeeps ==
    ASSUME IInv, Filed, UNCHANGED <<store, life, lost, back>>, excused \subseteq excused'
    PROVE  /\ There' = There
           /\ FileInv' /\ file' \subseteq Rows /\ torn' \in BOOLEAN
           /\ store # "json" => file' = {}
<1>1. There' = There  BY DEF There, Visible
<1>2. CASE UNCHANGED <<file, torn>>
    BY <1>1, <1>2 DEF IInv, TypeOK, FileInv
<1>3. CASE store = "json" /\ file' = {} /\ torn' = TRUE
    BY <1>1, <1>3 DEF FileInv
<1>4. CASE store = "json" /\ file' = Json!Image(life) /\ torn' = FALSE
    <2>1. file' = There  BY <1>4 DEF There, Visible
    <2>2. \A r \in file' :
              r \in Rows /\ life[r] = "there" /\ (r \in Items => life[Combo] = "there")
        BY <1>4, <2>1, VisibleRows DEF There
    <2>3. Provider \notin file' => file' \cap Models \subseteq excused'
        <3>1. SUFFICES ASSUME Provider \notin file', NEW m \in Models, m \in file'
                       PROVE  m \in excused'
            OBVIOUS
        <3>2. life[Provider] # "there"
            BY <2>1, <3>1, VisibleRows, RowsAssumption DEF There, Rows
        <3>3. Provider \in Rows /\ life \in [Rows -> Life]  BY DEF IInv, TypeOK, Rows
        <3>4. life[m] = "there"  BY <2>2, <3>1
        <3>5. life[Provider] # "unused"  BY <3>1, <3>4 DEF IInv, ProviderFirst
        <3> QED  BY <3>1, <3>2, <3>3, <3>4, <3>5 DEF Life, IInv, OrphansExcused, Found
    <2>4. file' \cap Items # {} => Combo \in file'
        BY <2>1, <2>2, VisibleRows, RowsAssumption DEF There, Rows
    <2>5. FileInv'  BY <1>4, <2>2, <2>3, <2>4 DEF FileInv
    <2> QED  BY <1>1, <1>4, <2>1, <2>2, <2>5
<1> QED  BY <1>2, <1>3, <1>4 DEF Filed

LEMMA StoredKeeps ==
    ASSUME IInv, Filed, UNCHANGED <<store, life, lost, back>>, NEW k \in Call,
           Founded(k), Stored(k)
    PROVE  StoredIn(k, file', torn')
<1>1. k.on \subseteq Rows /\ k.did \subseteq Rows  BY DEF Call
<1>2. /\ \A r \in There : torn \/ r \in file => torn' \/ r \in file'
      /\ \A r \in Rows : life[r] = "gone" /\ r \notin file => r \notin file'
    BY FileRemembers
<1>3. k.op \in Creations /\ store = "json" /\ ~torn' =>
          \A r \in k.did \ lost : r \in file' \cup Unsaved(k)
    <2>1. SUFFICES ASSUME k.op \in Creations, store = "json", ~torn', NEW r \in k.did,
                          r \notin lost
                   PROVE  r \in file' \cup Unsaved(k)
        OBVIOUS
    <2>2. r \in There  BY <2>1 DEF Founded
    <2> QED  BY <1>2, <2>1, <2>2 DEF Stored, StoredIn
<1>4. k.op \in Deletions =>
          \A r \in (k.on \cap k.did) \ back : r \in file' => r \in Unsaved(k)
    BY <1>1, <1>2 DEF Founded, Stored, StoredIn
<1> QED  BY <1>3, <1>4 DEF StoredIn

LEMMA CallMoves ==
    ASSUME IInv, phase = "up", NEW c \in Calls, NEW k, Sound(c, k), ClearedOf(k, Unexcused'),
           StoredIn(k, file', torn'),
           call' = [call EXCEPT ![c] = k], Filed,
           UNCHANGED <<store, work, phase, schema, starts, made, life, lost, back>>,
           conn' \in Calls \cup {Free}, excused \subseteq excused', excused' \subseteq Models,
           told' \in [Rows -> {"none", "created", "deleted"}], ToldInv'
    PROVE  IInv'
<1>1. call \in [Calls -> Call]  BY DEF IInv, TypeOK
<1>2. call'[c] = k /\ \A d \in Calls \ {c} : call'[d] = call[d]  BY <1>1
<1>3. /\ There' = There
      /\ FileInv' /\ file' \subseteq Rows /\ torn' \in BOOLEAN
      /\ store # "json" => file' = {}
    BY FiledKeeps
<1>4. TypeOK'  BY <1>1, <1>3 DEF IInv, TypeOK, Sound
<1>5. Unexcused' \subseteq Unexcused  BY DEF Unexcused, Found
<1>6. \A d \in Calls : Planned(call[d]) /\ Founded(call[d]) /\ Cleared(call[d]) /\ Stored(call[d])
    BY DEF IInv, CallsInv
<1>7. ASSUME NEW d \in Calls
      PROVE  Planned(call[d])' /\ Founded(call[d])' /\ Cleared(call[d])' /\ Stored(call[d])'
    <2>1. CASE d = c
        <3>1. Planned(call[d])'  BY <1>2, <2>1 DEF Sound, Planned, Fits
        <3>2. Founded(call[d])'
            BY <1>2, <1>3, <2>1 DEF Sound, Founded, Written, Pending
        <3>3. Cleared(call[d])'  BY <1>2, <2>1 DEF Cleared, ClearedOf, Pending
        <3>4. Stored(call[d])'  BY <1>2, <2>1 DEF Stored, StoredIn, Unsaved
        <3> QED  BY <3>1, <3>2, <3>3, <3>4
    <2>2. CASE d # c
        <3>1. call'[d] = call[d]  BY <1>2, <2>2
        <3>2. Planned(call[d])'  BY <1>6, <3>1 DEF Planned, Fits
        <3>3. Founded(call[d])'  BY <1>3, <1>6, <3>1 DEF Founded, Written, Pending
        <3>4. Cleared(call[d])'  BY <1>5, <1>6, <3>1 DEF Cleared, ClearedOf, Pending
        <3>5. call[d] \in Call  BY <1>1
        <3>6. Stored(call[d])'
            BY <1>6, <3>1, <3>5, StoredKeeps DEF Stored, StoredIn, Unsaved
        <3> QED  BY <3>2, <3>3, <3>4, <3>6
    <2> QED  BY <2>1, <2>2
<1>8. CallsInv'  BY <1>7 DEF CallsInv
<1>9. InsertsApart'
    <2>1. \A d \in Calls \ {c} : Pending(call[d])' = Pending(call[d])  BY <1>2 DEF Pending
    <2>2. Pending(call[c])' = Pending(k)  BY <1>2 DEF Pending
    <2> QED  BY <2>1, <2>2 DEF IInv, InsertsApart, Sound
<1>10. ProviderFirst' /\ ItemsCovered'  BY DEF IInv, ProviderFirst, ItemsCovered, Found
<1>11. OrphansExcused'  BY DEF IInv, OrphansExcused, Found
<1>12. QuietDown'  BY DEF QuietDown
<1> QED  BY <1>3, <1>4, <1>8, <1>9, <1>10, <1>11, <1>12 DEF IInv

LEMMA CallMovesAlone ==
    ASSUME IInv, phase = "up", NEW c \in Calls, NEW k, Sound(c, k), ClearedOf(k, Unexcused'),
           Stored(k),
           call' = [call EXCEPT ![c] = k], UNCHANGED <<store, work, process, life, file>>,
           conn' \in Calls \cup {Free}, excused \subseteq excused', excused' \subseteq Models,
           UNCHANGED <<told, lost, back>>
    PROVE  IInv'
<1>1. UNCHANGED <<phase, schema, starts, made, torn>>  BY DEF process
<1>2. There' = There  BY DEF There, Visible
<1>3. ToldInv'  BY <1>1, <1>2 DEF IInv, ToldInv
<1>4. StoredIn(k, file', torn')  BY <1>1 DEF Stored
<1>5. told \in [Rows -> {"none", "created", "deleted"}]  BY DEF IInv, TypeOK
<1>6. Filed  BY <1>1 DEF Filed
<1> QED  BY <1>1, <1>3, <1>4, <1>5, <1>6, CallMoves

LEMMA IdleSound ==
    ASSUME NEW c \in Calls
    PROVE  /\ Sound(c, Idle) /\ Stored(Idle)
           /\ \A models, f, cut : ClearedOf(Idle, models) /\ StoredIn(Idle, f, cut)
BY DEF Sound, Call, Idle, Planned, Founded, Pending, ClearedOf, Stored, StoredIn,
       Creations, Deletions, Handlers

\* A call as Begin makes it.
Fresh(op, pc, on, todo) == [Idle EXCEPT !.op = op, !.pc = pc, !.on = on, !.todo = todo]

LEMMA BeginKeeps ==
    ASSUME IInv, NEW c \in Calls, NEW op, NEW pc, NEW on, NEW todo,
           Begin(c, op, pc, on, todo), op \in Handlers \cup {"None"},
           pc \in {"run", "list", "execute"}, pc = "run" \/ todo = {},
           on \subseteq Rows, todo \subseteq Statement,
           Planned(Fresh(op, pc, on, todo)), Founded(Fresh(op, pc, on, todo)),
           Cleared(Fresh(op, pc, on, todo)),
           \A s \in todo : s.do \in Inserts => New(s.on),
           \A s, t \in todo : s.do \in Inserts /\ t.do \in Inserts /\ s.on \cap t.on # {} => s = t
    PROVE  IInv'
<1> DEFINE k == Fresh(op, pc, on, todo)
<1>1. /\ phase = "up" /\ call' = [call EXCEPT ![c] = k]
      /\ UNCHANGED <<store, work, process, life, file, conn, history>>
    BY DEF Begin, At, Fresh
<1>2. k \in Call /\ k.pc = pc /\ k.todo = todo /\ Pending(k) = todo
    BY DEF Fresh, Idle, Call, Pending
<1>3. Sound(c, k)
    <2>1. ASSUME NEW d \in Calls, NEW s \in todo, NEW t \in Pending(call[d]),
                 s.do \in Inserts, t.do \in Inserts
          PROVE  s.on \cap t.on = {}
        BY <2>1 DEF New, Pending
    <2> QED  BY <1>2, <2>1 DEF Sound
<1>4. ClearedOf(k, Unexcused')  BY <1>1 DEF Cleared, Unexcused, Found, history
<1>5. conn' \in Calls \cup {Free} /\ excused' = excused /\ excused \subseteq Models
      /\ UNCHANGED <<told, lost, back>>
    BY <1>1 DEF IInv, TypeOK, history
<1>6. Stored(k)  BY DEF Stored, StoredIn, Fresh, Idle
<1> HIDE DEF k
<1> QED  BY <1>1, <1>3, <1>4, <1>5, <1>6, CallMovesAlone

LEMMA RunBegins ==
    ASSUME IInv, NEW c \in Calls, NEW op \in Handlers \ {"DeleteProvider"}, NEW on, NEW todo,
           Begin(c, op, "run", on, todo), on \subseteq Rows,
           op \in Deletions => \A r \in on : life[r] # "unused",
           op = "UpdateProvider" => life[Provider] # "unused",
           \A s \in todo :
               /\ s \in Statement /\ Fits(s) /\ s.do # "ProviderDelete"
               /\ s.do = "ProviderCreate" => s.strict
               /\ op \in Creations => s.do \in Inserts
               /\ op \in Deletions => s.do \in Deletes
               /\ s.do = "ItemRemove" => todo = {s}
               /\ s.do \in Inserts => New(s.on)
               /\ s.do \in Writes => \A r \in s.on : life[r] # "unused"
               /\ s.do = "ModelCreate" =>
                      \/ life[Provider] # "unused"
                      \/ \E t \in todo : t.do = "ProviderCreate" /\ t.turn < s.turn,
           \A s, t \in todo : s.do \in Inserts /\ t.do \in Inserts /\ s.on \cap t.on # {} => s = t
    PROVE  IInv'
<1> DEFINE k == Fresh(op, "run", on, todo)
<1>1. /\ k.op = op /\ k.pc = "run" /\ k.on = on /\ k.todo = todo /\ k.now = {} /\ k.did = {}
      /\ Pending(k) = todo
    BY DEF Fresh, Idle, Pending
<1>2. Planned(k)  BY <1>1 DEF Planned
<1>3. \A s \in todo : Written(s)  BY DEF Written, New
<1>4. Founded(k)  BY <1>1, <1>3 DEF Founded
<1>5. Cleared(k)  BY <1>1 DEF Cleared, ClearedOf, Handlers, Creations, Deletions
<1>6. op # "DeleteProvider" /\ todo \subseteq Statement /\ op \in Handlers \cup {"None"}
    OBVIOUS
<1> QED  BY <1>2, <1>4, <1>5, <1>6, BeginKeeps

LEMMA Statements ==
    ASSUME NEW turn \in {1, 2}, NEW do \in Deeds, NEW on \in SUBSET Rows
    PROVE  /\ Strict(turn, do, on) \in Statement
           /\ Strict(turn, do, on).do = do /\ Strict(turn, do, on).on = on
           /\ Strict(turn, do, on).turn = turn /\ Strict(turn, do, on).strict
           /\ Lenient(turn, do, on) \in Statement
           /\ Lenient(turn, do, on).do = do /\ Lenient(turn, do, on).on = on
           /\ Lenient(turn, do, on).turn = turn /\ ~Lenient(turn, do, on).strict
BY DEF Strict, Lenient, Statement

LEMMA RowKinds ==
    /\ Provider \in Rows /\ Combo \in Rows /\ Admin \in Rows
    /\ Models \subseteq Rows /\ Items \subseteq Rows
    /\ \A m \in Models : m # Provider /\ m \notin Items /\ m # Combo
    /\ \A i \in Items : i # Combo /\ i # Provider
BY RowsAssumption DEF Rows

LEMMA FoundRows ==
    ASSUME store \in {"sqlite", "postgres", "json"}
    PROVE  /\ ProviderFound => life[Provider] = "there"
           /\ ComboFound => life[Combo] = "there"
           /\ \A m \in Models : ModelFound(m) => life[m] = "there"
           /\ ModelsOf = {m \in Models : Found(life, m)}
BY DEF ProviderFound, ComboFound, ModelFound, ModelsOf, Found,
       Lite!ProviderFound, Lite!ComboFound, Lite!ModelFound, Lite!ModelsOf, Lite!Found,
       Pg!ProviderFound, Pg!ComboFound, Pg!ModelFound, Pg!ModelsOf, Pg!Found,
       Json!ProviderFound, Json!ComboFound, Json!ModelFound, Json!ModelsOf, Json!Found

\* A handler of one statement.
LEMMA OneBegins ==
    ASSUME IInv, NEW c \in Calls, NEW op \in Handlers \ {"DeleteProvider"},
           NEW do \in Deeds \ {"ProviderDelete"}, NEW on \in SUBSET Rows,
           Begin(c, op, "run", on, {Strict(1, do, on)}), Fits(Strict(1, do, on)),
           op \in Creations => do \in Inserts, op \in Deletions => do \in Deletes,
           do \in Inserts => New(on),
           do \in Writes \/ op \in Deletions => \A r \in on : life[r] # "unused",
           do = "ModelCreate" \/ op = "UpdateProvider" => life[Provider] # "unused"
    PROVE  IInv'
<1> DEFINE s == Strict(1, do, on)
<1>1. s \in Statement /\ s.do = do /\ s.on = on /\ s.strict  BY Statements
<1>2. Fits(s) /\ Begin(c, op, "run", on, {s})  OBVIOUS
<1> HIDE DEF s
<1> QED  BY <1>1, <1>2, RunBegins

LEMMA ProviderHandlersKeep ==
    ASSUME IInv, NEW c \in Calls,
           CreateProvider(c) \/ UpdateProvider(c) \/ DeleteProvider(c)
    PROVE  IInv'
<1> USE DEF Inserts, Deletes, Writes, Creations, Deletions, Handlers, Deeds
<1>1. CASE CreateProvider(c)
    <2>1. PICK ms \in SUBSET Models :
              /\ New({Provider} \cup ms)
              /\ Begin(c, "CreateProvider", "run", {Provider},
                       {Strict(1, "ProviderCreate", {Provider})}
                       \cup {Strict(2, "ModelCreate", {m}) : m \in ms})
        BY <1>1 DEF CreateProvider
    <2> DEFINE first == Strict(1, "ProviderCreate", {Provider})
               todo == {first} \cup {Strict(2, "ModelCreate", {m}) : m \in ms}
    <2>2. /\ first \in Statement /\ first.do = "ProviderCreate" /\ first.on = {Provider}
          /\ first.turn = 1 /\ first.strict
        BY RowKinds, Statements
    <2>3. ASSUME NEW m \in ms
          PROVE  LET s == Strict(2, "ModelCreate", {m})
                 IN  s \in Statement /\ s.do = "ModelCreate" /\ s.on = {m} /\ s.turn = 2
        <3>1. {m} \in SUBSET Rows  BY RowKinds
        <3> QED  BY <3>1, Statements
    <2>4. New({Provider}) /\ \A m \in ms : New({m})  BY <2>1 DEF New
    <2>5. ASSUME NEW s \in todo
          PROVE  /\ s \in Statement /\ Fits(s) /\ s.do \in {"ProviderCreate", "ModelCreate"}
                 /\ New(s.on) /\ (s.do = "ModelCreate" => first.turn < s.turn)
                 /\ (s.do = "ProviderCreate" => s.strict)
        <3>1. CASE s = first  BY <2>2, <2>4, <3>1 DEF Fits
        <3>2. CASE s # first
            <4>1. PICK m \in ms : s = Strict(2, "ModelCreate", {m})  BY <3>2
            <4>2. s \in Statement /\ s.do = "ModelCreate" /\ s.on = {m} /\ s.turn = 2
                BY <2>3, <4>1
            <4> HIDE DEF first
            <4> QED  BY <2>2, <2>4, <4>2 DEF Fits
        <3> QED  BY <3>1, <3>2
    <2>6. ASSUME NEW s \in todo, NEW t \in todo, s.on \cap t.on # {}  PROVE s = t
        <3>1. Provider \notin ms  BY RowKinds
        <3>2. ASSUME NEW m \in ms, s = Strict(2, "ModelCreate", {m}), t = first
              PROVE  FALSE
            <4>1. s.on = {m} /\ t.on = {Provider}  BY <2>2, <2>3, <3>2
            <4> QED  BY <2>6, <3>1, <4>1
        <3>3. ASSUME NEW m \in ms, t = Strict(2, "ModelCreate", {m}), s = first
              PROVE  FALSE
            <4>1. t.on = {m} /\ s.on = {Provider}  BY <2>2, <2>3, <3>3
            <4> QED  BY <2>6, <3>1, <4>1
        <3>4. ASSUME NEW m \in ms, NEW n \in ms, s = Strict(2, "ModelCreate", {m}),
                     t = Strict(2, "ModelCreate", {n})
              PROVE  s = t
            <4>1. s.on = {m} /\ t.on = {n}  BY <2>3, <3>4
            <4> QED  BY <2>6, <3>4, <4>1
        <3>5. s = first \/ \E m \in ms : s = Strict(2, "ModelCreate", {m})  OBVIOUS
        <3>6. t = first \/ \E m \in ms : t = Strict(2, "ModelCreate", {m})  OBVIOUS
        <3> HIDE DEF todo, first
        <3> QED  BY <3>2, <3>3, <3>4, <3>5, <3>6
    <2>7. first \in todo  OBVIOUS
    <2>8. Begin(c, "CreateProvider", "run", {Provider}, todo)  BY <2>1
    <2> HIDE DEF first, todo
    <2> QED  BY <2>2, <2>5, <2>6, <2>7, <2>8, RunBegins, RowKinds
<1>2. CASE UpdateProvider(c)
    <2>1. life[Provider] = "there"  BY <1>2, FoundRows DEF UpdateProvider, IInv, TypeOK
    <2>2. {Provider} \in SUBSET Rows  BY RowKinds
    <2>3. Fits(Strict(1, "ProviderUpdate", {Provider}))  BY DEF Fits, Strict
    <2> QED  BY <1>2, <2>1, <2>2, <2>3, OneBegins DEF UpdateProvider
<1>3. CASE DeleteProvider(c)
    <2> DEFINE k == Fresh("DeleteProvider", "list", {Provider}, {})
    <2>1. Begin(c, "DeleteProvider", "list", {Provider}, {})  BY <1>3 DEF DeleteProvider
    <2>2. life[Provider] = "there"  BY <1>3, FoundRows DEF DeleteProvider, IInv, TypeOK
    <2>3. Planned(k) /\ Founded(k) /\ Cleared(k)
        BY <2>2 DEF Fresh, Idle, Planned, Founded, Cleared, ClearedOf, Pending
    <2>4. {Provider} \subseteq Rows /\ "DeleteProvider" \in Handlers /\ {} \subseteq Statement
        BY RowKinds
    <2> QED  BY <2>1, <2>3, <2>4, BeginKeeps
<1> QED  BY <1>1, <1>2, <1>3

LEMMA ModelHandlersKeep ==
    ASSUME IInv, NEW c \in Calls, CreateModel(c) \/ UpdateModel(c) \/ DeleteModel(c)
    PROVE  IInv'
<1> USE DEF Inserts, Deletes, Writes, Creations, Deletions, Handlers, Deeds
<1>1. \A m \in Models : {m} \in SUBSET Rows  BY RowKinds
<1>2. \A m \in Models, do \in {"ModelCreate", "ModelUpdate", "ModelDelete"} :
          Fits(Strict(1, do, {m}))
    BY DEF Fits, Strict
<1>3. CASE CreateModel(c)
    <2>1. PICK m \in Models : /\ New({m}) /\ life[Provider] # "unused"
                              /\ Begin(c, "CreateModel", "run", {m},
                                       {Strict(1, "ModelCreate", {m})})
        BY <1>3 DEF CreateModel
    <2> QED  BY <1>1, <1>2, <2>1, OneBegins
<1>4. CASE UpdateModel(c)
    <2>1. PICK m \in Models : /\ ModelFound(m)
                              /\ Begin(c, "UpdateModel", "run", {m},
                                       {Strict(1, "ModelUpdate", {m})})
        BY <1>4 DEF UpdateModel
    <2>2. life[m] = "there"  BY <2>1, FoundRows DEF IInv, TypeOK
    <2> QED  BY <1>1, <1>2, <2>1, <2>2, OneBegins
<1>5. CASE DeleteModel(c)
    <2>1. PICK m \in Models : /\ life[m] # "unused"
                              /\ Begin(c, "DeleteModel", "run", {m},
                                       {Strict(1, "ModelDelete", {m})})
        BY <1>5 DEF DeleteModel
    <2> QED  BY <1>1, <1>2, <2>1, OneBegins
<1> QED  BY <1>3, <1>4, <1>5

LEMMA ComboHandlersKeep ==
    ASSUME IInv, NEW c \in Calls,
           \/ CreateCombo(c) \/ AutoGenerateCombo(c) \/ UpdateCombo(c) \/ DeleteCombo(c)
           \/ DeleteUser(c)
    PROVE  IInv'
<1> USE DEF Inserts, Deletes, Writes, Creations, Deletions, Handlers, Deeds
<1>1. {Combo} \in SUBSET Rows /\ {Admin} \in SUBSET Rows /\ Items \in SUBSET Rows
    BY RowKinds
<1>2. /\ \A do \in {"ComboCreate", "ComboUpdate", "ComboDelete"} : Fits(Strict(1, do, {Combo}))
      /\ Fits(Strict(1, "UserDelete", {Admin}))
    BY DEF Fits, Strict
<1>3. ComboFound => life[Combo] = "there"  BY FoundRows DEF IInv, TypeOK
<1>4. CASE CreateCombo(c)
    <2>1. New({Combo}) /\ Begin(c, "CreateCombo", "run", {Combo},
                                {Strict(1, "ComboCreate", {Combo})})
        BY <1>4 DEF CreateCombo
    <2> QED  BY <1>1, <1>2, <2>1, OneBegins
<1>5. CASE UpdateCombo(c)
    <2>1. ComboFound /\ Begin(c, "UpdateCombo", "run", {Combo},
                              {Strict(1, "ComboUpdate", {Combo})})
        BY <1>5 DEF UpdateCombo
    <2> QED  BY <1>1, <1>2, <1>3, <2>1, OneBegins
<1>6. CASE DeleteUser(c)
    <2>1. life[Admin] # "unused" /\ Begin(c, "DeleteUser", "run", {Admin},
                                          {Strict(1, "UserDelete", {Admin})})
        BY <1>6 DEF DeleteUser
    <2>2. "DeleteUser" \in Handlers \ {"DeleteProvider"} /\ "DeleteUser" \notin Creations
          /\ "UserDelete" \in Deletes /\ "UserDelete" \notin Inserts
        OBVIOUS
    <2>3. Fits(Strict(1, "UserDelete", {Admin})) /\ "UserDelete" \in Deeds  BY <1>2
    <2> QED  BY <1>1, <2>1, <2>2, <2>3, OneBegins
<1>7. CASE AutoGenerateCombo(c)
    <2>1. PICK is \in SUBSET Items :
              /\ New({Combo} \cup is)
              /\ Begin(c, "AutoGenerateCombo", "run", {Combo},
                       {Strict(1, "ComboCreate", {Combo})}
                       \cup {Lenient(2, "ItemAdd", {i}) : i \in is})
        BY <1>7 DEF AutoGenerateCombo
    <2> DEFINE first == Strict(1, "ComboCreate", {Combo})
               todo == {first} \cup {Lenient(2, "ItemAdd", {i}) : i \in is}
    <2>2. first \in Statement /\ first.do = "ComboCreate" /\ first.on = {Combo}
        BY <1>1, Statements
    <2>3. ASSUME NEW i \in is
          PROVE  LET s == Lenient(2, "ItemAdd", {i})
                 IN  s \in Statement /\ s.do = "ItemAdd" /\ s.on = {i}
        <3>1. {i} \in SUBSET Rows  BY RowKinds
        <3> QED  BY <3>1, Statements
    <2>4. New({Combo}) /\ \A i \in is : New({i})  BY <2>1 DEF New
    <2>5. ASSUME NEW s \in todo
          PROVE  s \in Statement /\ Fits(s) /\ s.do \in {"ComboCreate", "ItemAdd"} /\ New(s.on)
        <3>1. CASE s = first  BY <1>2, <2>2, <2>4, <3>1
        <3>2. CASE s # first
            <4>1. PICK i \in is : s = Lenient(2, "ItemAdd", {i})  BY <3>2
            <4>2. s \in Statement /\ s.do = "ItemAdd" /\ s.on = {i}  BY <2>3, <4>1
            <4> HIDE DEF first
            <4> QED  BY <2>4, <4>2 DEF Fits
        <3> QED  BY <3>1, <3>2
    <2>6. ASSUME NEW s \in todo, NEW t \in todo, s.on \cap t.on # {}  PROVE s = t
        <3>1. Combo \notin is  BY RowKinds
        <3>2. ASSUME NEW i \in is, s = Lenient(2, "ItemAdd", {i}), t = first
              PROVE  FALSE
            <4>1. s.on = {i} /\ t.on = {Combo}  BY <2>2, <2>3, <3>2
            <4> QED  BY <2>6, <3>1, <4>1
        <3>3. ASSUME NEW i \in is, t = Lenient(2, "ItemAdd", {i}), s = first
              PROVE  FALSE
            <4>1. t.on = {i} /\ s.on = {Combo}  BY <2>2, <2>3, <3>3
            <4> QED  BY <2>6, <3>1, <4>1
        <3>4. ASSUME NEW i \in is, NEW j \in is, s = Lenient(2, "ItemAdd", {i}),
                     t = Lenient(2, "ItemAdd", {j})
              PROVE  s = t
            <4>1. s.on = {i} /\ t.on = {j}  BY <2>3, <3>4
            <4> QED  BY <2>6, <3>4, <4>1
        <3>5. s = first \/ \E i \in is : s = Lenient(2, "ItemAdd", {i})  OBVIOUS
        <3>6. t = first \/ \E i \in is : t = Lenient(2, "ItemAdd", {i})  OBVIOUS
        <3> HIDE DEF todo, first
        <3> QED  BY <3>2, <3>3, <3>4, <3>5, <3>6
    <2>7. Begin(c, "AutoGenerateCombo", "run", {Combo}, todo)  BY <2>1
    <2> HIDE DEF first, todo
    <2> QED  BY <1>1, <2>5, <2>6, <2>7, RunBegins
<1>8. CASE DeleteCombo(c)
    <2>1. life[Combo] = "there" /\ Begin(c, "DeleteCombo", "run", {Combo}, ComboDeletion)
        BY <1>3, <1>8 DEF DeleteCombo
    <2>2. CASE store # "sqlite"
        <3>1. ComboDeletion = {Strict(1, "ComboDelete", {Combo})}
            BY <2>2 DEF ComboDeletion, Pg!ComboDeletion, Json!ComboDeletion, Pg!Strict,
                   Json!Strict, Strict, IInv, TypeOK
        <3> QED  BY <1>1, <1>2, <2>1, <3>1, OneBegins
    <2>3. CASE store = "sqlite"
        <3> DEFINE clear == Strict(1, "ItemsClear", Items)
                   delete == Strict(2, "ComboDelete", {Combo})
        <3>1. ComboDeletion = {clear, delete}
            BY <2>3 DEF ComboDeletion, Lite!ComboDeletion, Lite!Strict, Strict
        <3>2. /\ clear \in Statement /\ clear.do = "ItemsClear" /\ clear.on = Items
              /\ delete \in Statement /\ delete.do = "ComboDelete" /\ delete.on = {Combo}
            BY <1>1, Statements
        <3>3. Fits(clear) /\ Fits(delete)  BY <2>3, <3>2 DEF Fits
        <3> HIDE DEF clear, delete
        <3> QED  BY <1>1, <2>1, <3>1, <3>2, <3>3, RunBegins
    <2> QED  BY <2>2, <2>3
<1> QED  BY <1>4, <1>5, <1>6, <1>7, <1>8

LEMMA ItemHandlersKeep ==
    ASSUME IInv, NEW c \in Calls,
           \/ AddComboItem(c) \/ RemoveComboItem(c) \/ ReorderComboItems(c) \/ ExecuteCombo(c)
    PROVE  IInv'
<1> USE DEF Inserts, Deletes, Writes, Creations, Deletions, Handlers, Deeds
<1>1. Items \in SUBSET Rows /\ Combo \in Rows  BY RowKinds
<1>2. CASE AddComboItem(c)
    <2>1. PICK is \in SUBSET Items :
              /\ New(is)
              /\ Begin(c, "AddComboItem", "run", is, {Strict(1, "ItemAdd", {i}) : i \in is})
        BY <1>2 DEF AddComboItem
    <2> DEFINE todo == {Strict(1, "ItemAdd", {i}) : i \in is}
    <2>2. ASSUME NEW i \in is
          PROVE  LET s == Strict(1, "ItemAdd", {i})
                 IN  s \in Statement /\ s.do = "ItemAdd" /\ s.on = {i}
        <3>1. {i} \in SUBSET Rows  BY RowKinds
        <3> QED  BY <3>1, Statements
    <2>3. \A i \in is : New({i})  BY <2>1 DEF New
    <2>4. ASSUME NEW s \in todo
          PROVE  s \in Statement /\ Fits(s) /\ s.do = "ItemAdd" /\ New(s.on)
        <3>1. PICK i \in is : s = Strict(1, "ItemAdd", {i})  OBVIOUS
        <3>2. s \in Statement /\ s.do = "ItemAdd" /\ s.on = {i}  BY <2>2, <3>1
        <3> QED  BY <2>3, <3>2 DEF Fits
    <2>5. ASSUME NEW s \in todo, NEW t \in todo, s.on \cap t.on # {}  PROVE s = t
        <3>1. PICK i \in is : s = Strict(1, "ItemAdd", {i})  OBVIOUS
        <3>2. PICK j \in is : t = Strict(1, "ItemAdd", {j})  OBVIOUS
        <3>3. s.on = {i} /\ t.on = {j}  BY <2>2, <3>1, <3>2
        <3> QED  BY <2>5, <3>1, <3>2, <3>3
    <2>6. Begin(c, "AddComboItem", "run", is, todo)  BY <2>1
    <2> HIDE DEF todo
    <2> QED  BY <1>1, <2>4, <2>5, <2>6, RunBegins
<1>3. CASE RemoveComboItem(c)
    <2>1. PICK i \in Items : /\ life[i] # "unused"
                             /\ Begin(c, "RemoveComboItem", "run", {i},
                                      {Strict(1, "ItemRemove", {i})})
        BY <1>3 DEF RemoveComboItem
    <2>2. {i} \in SUBSET Rows  BY <1>1
    <2>3. Fits(Strict(1, "ItemRemove", {i}))  BY DEF Fits, Strict
    <2> QED  BY <2>1, <2>2, <2>3, OneBegins
<1>4. CASE ReorderComboItems(c)
    <2>1. PICK list \in SUBSET {i \in Items : life[i] # "unused"} :
              Begin(c, "ReorderComboItems", "run", list, Reordering(list))
        BY <1>4 DEF ReorderComboItems
    <2>2. list \in SUBSET Rows /\ list \subseteq Items  BY <1>1
    <2>3. ASSUME NEW s \in Reordering(list)
          PROVE  s \in Statement /\ Fits(s) /\ s.do = "ItemsReorder"
        <3>1. \/ s = Strict(1, "ItemsReorder", list)
              \/ \E i \in list : s = Strict(1, "ItemsReorder", {i})
              \/ \E i \in list : s = Lenient(1, "ItemsReorder", {i})
            BY DEF Reordering, Lite!Reordering, Pg!Reordering, Json!Reordering, Lite!Strict,
                   Pg!Lenient, Json!Strict, Strict, Lenient, IInv, TypeOK
        <3>2. \A i \in list : {i} \in SUBSET Rows /\ {i} \subseteq Items  BY <2>2
        <3>3. \A on \in SUBSET Rows :
                  /\ Strict(1, "ItemsReorder", on) \in Statement
                  /\ Lenient(1, "ItemsReorder", on) \in Statement
            BY Statements
        <3>4. s \in Statement  BY <2>2, <3>1, <3>2, <3>3
        <3>5. s.do = "ItemsReorder" /\ s.on \subseteq Items
            BY <2>2, <3>1 DEF Strict, Lenient
        <3> QED  BY <3>4, <3>5 DEF Fits
    <2> QED  BY <2>1, <2>2, <2>3, RunBegins
<1>5. CASE ExecuteCombo(c)
    <2> DEFINE k == Fresh("ExecuteCombo", "execute", {Combo}, {})
    <2>1. Begin(c, "ExecuteCombo", "execute", {Combo}, {}) /\ life[Combo] = "there"
        BY <1>5, FoundRows DEF ExecuteCombo, IInv, TypeOK
    <2>2. Planned(k) /\ Founded(k) /\ Cleared(k)
        BY <2>1 DEF Fresh, Idle, Planned, Founded, Cleared, ClearedOf, Pending
    <2>3. {Combo} \subseteq Rows /\ "ExecuteCombo" \in Handlers /\ {} \subseteq Statement
        BY <1>1
    <2> QED  BY <2>1, <2>2, <2>3, BeginKeeps
<1> QED  BY <1>2, <1>3, <1>4, <1>5
-----------------------------------------------------------------------------
(* The steps of a call that has begun.                                     *)

LEMMA ReadsKeep ==
    ASSUME IInv, NEW c \in Calls,
           ListCombos(c) \/ ClientLeaves(c) \/ Execute(c) \/ ReadFails(c) \/ Recover(c)
    PROVE  IInv'
<1> USE DEF history
<1>1. excused \subseteq Models /\ conn \in Calls \cup {Free} /\ call[c] \in Call
    BY DEF IInv, TypeOK
<1>2. Planned(call[c]) /\ Founded(call[c]) /\ Stored(call[c])  BY DEF IInv, CallsInv
<1>3. CASE ListCombos(c)
    <2> DEFINE k == [Idle EXCEPT !.op = "ListCombos", !.pc = "scan"]
    <2>1. k \in Call /\ Pending(k) = {} /\ k.op = "ListCombos" /\ k.pc = "scan" /\ k.todo = {}
          /\ k.now = {} /\ k.did = {}
        BY DEF Idle, Call, Handlers, Pending
    <2>2. Sound(c, k) /\ ClearedOf(k, Unexcused') /\ Stored(k)
        BY <2>1 DEF Sound, Planned, Founded, Cleared, ClearedOf, Stored, StoredIn, Creations,
           Deletions
    <2>3. call' = [call EXCEPT ![c] = k] /\ phase = "up" /\ conn' = c
          /\ UNCHANGED <<store, work, process, life, file, told, lost, back, excused>>
        BY <1>3 DEF ListCombos, At
    <2> HIDE DEF k
    <2> QED  BY <1>1, <2>2, <2>3, CallMovesAlone
<1>4. CASE \/ ClientLeaves(c) \/ ReadFails(c) \/ Recover(c) \/ (Execute(c) /\ ComboFound)
    <2>1. /\ call' = [call EXCEPT ![c] = Idle] /\ phase = "up" /\ conn' \in Calls \cup {Free}
          /\ UNCHANGED <<store, work, process, life, file, told, lost, back, excused>>
        BY <1>1, <1>4 DEF ClientLeaves, ReadFails, Recover, Execute, At
    <2> QED  BY <1>1, <2>1, IdleSound, CallMovesAlone
<1>5. CASE Execute(c) /\ ~ComboFound
    <2> DEFINE k == [call[c] EXCEPT !.pc = "panicked"]
    <2>1. call' = [call EXCEPT ![c] = k] /\ phase = "up" /\ call[c].pc = "execute"
          /\ UNCHANGED <<store, work, process, life, file, conn, told, lost, back, excused>>
        BY <1>5 DEF Execute, At
    <2>2. /\ k \in Call /\ k.pc = "panicked" /\ k.op = call[c].op /\ k.on = call[c].on
          /\ k.todo = call[c].todo /\ k.now = call[c].now /\ k.did = call[c].did
        BY <1>1 DEF Call
    <2>3. k.todo = {} /\ k.now = {}  BY <1>2, <2>1, <2>2 DEF Planned
    <2>4. life[Combo] = "gone"
        <3>1. life[Combo] # "unused"  BY <1>2, <2>1 DEF Founded
        <3>2. ~Found(life, Combo)
            BY <1>5 DEF ComboFound, Lite!ComboFound, Pg!ComboFound, Json!ComboFound,
                   Lite!Found, Pg!Found, Json!Found, Found, IInv, TypeOK
        <3>3. life \in [Rows -> Life] /\ Combo \in Rows  BY DEF IInv, TypeOK, Rows
        <3> QED  BY <3>1, <3>2, <3>3 DEF Found, Life
    <2>5. Planned(k)  BY <2>2, <2>3 DEF Planned
    <2>6. Founded(k)  BY <1>2, <2>2, <2>3, <2>4 DEF Founded, Pending
    <2>7. Sound(c, k)  BY <2>2, <2>3, <2>5, <2>6 DEF Sound, Pending
    <2>8. Unexcused' = Unexcused /\ Cleared(call[c])
        BY <2>1 DEF Unexcused, Found, IInv, CallsInv
    <2>9. ClearedOf(k, Unexcused')
        BY <2>1, <2>2, <2>3, <2>8 DEF Cleared, ClearedOf, Pending
    <2>10. Unsaved(call[c]) = {} /\ Unsaved(k) = {}  BY <2>1, <2>2 DEF Unsaved
    <2>11. Stored(k)  BY <1>2, <2>2, <2>10 DEF Stored, StoredIn
    <2> HIDE DEF k
    <2> QED  BY <1>1, <2>1, <2>7, <2>9, <2>11, CallMovesAlone
<1> QED  BY <1>3, <1>4, <1>5

LEMMA FindNilMapKeeps == ASSUME IInv, NEW c \in Calls, FindNilMap(c) PROVE IInv'
<1> USE DEF history
<1>1. PICK s \in Turn(c) : NilMap(s) /\ call' = [call EXCEPT ![c].pc = "make", ![c].now = {s}]
    BY DEF FindNilMap
<1>2. /\ phase = "up" /\ call[c].pc = "run"
      /\ UNCHANGED <<store, work, process, life, file, conn, told, lost, back, excused>>
    BY DEF FindNilMap, At
<1> DEFINE k == [call[c] EXCEPT !.pc = "make", !.now = {s}]
<1>3. call[c] \in Call /\ call \in [Calls -> Call] /\ excused \subseteq Models
      /\ conn \in Calls \cup {Free}
    BY DEF IInv, TypeOK
<1>4. call' = [call EXCEPT ![c] = k]  BY <1>1, <1>3 DEF Call
<1>5. s \in call[c].todo /\ s \in Statement /\ \A t \in call[c].todo : s.turn <= t.turn
    BY <1>3 DEF Turn, Call
<1>6. /\ k \in Call /\ k.pc = "make" /\ k.op = call[c].op /\ k.on = call[c].on
      /\ k.todo = call[c].todo /\ k.now = {s} /\ k.did = call[c].did
    BY <1>3, <1>5 DEF Call
<1>7. store = "json" /\ s.do \in {"ProviderCreate", "ModelCreate", "ComboCreate"}
    BY <1>1 DEF NilMap, Json!TableOf
<1>8. Planned(call[c]) /\ Founded(call[c]) /\ Cleared(call[c]) /\ Stored(call[c])
    BY DEF IInv, CallsInv
<1>9. Pending(k) = Pending(call[c])  BY <1>2, <1>6 DEF Pending
<1>10. Planned(k)  BY <1>2, <1>5, <1>6, <1>7, <1>8 DEF Planned
<1>11. Founded(k)  BY <1>2, <1>6, <1>8, <1>9 DEF Founded
<1>12. Sound(c, k)  BY <1>6, <1>7, <1>9, <1>10, <1>11 DEF Sound, IInv, InsertsApart
<1>13. Unexcused' = Unexcused  BY <1>2 DEF Unexcused, Found
<1>14. ClearedOf(k, Unexcused')  BY <1>2, <1>6, <1>8, <1>9, <1>13 DEF Cleared, ClearedOf
<1>15. Unsaved(call[c]) = {} /\ Unsaved(k) = {}  BY <1>2, <1>6 DEF Unsaved
<1>16. Stored(k)  BY <1>6, <1>8, <1>15 DEF Stored, StoredIn
<1> HIDE DEF k
<1> QED  BY <1>2, <1>3, <1>4, <1>12, <1>14, <1>16, CallMovesAlone

\* A statement is done as it is run, or with the map it needs.
LEMMA StatementsPerformed ==
    ASSUME IInv, NEW c \in Calls, Run(c) \/ MakeMap(c)
    PROVE  \E s, next, saves : Performs(c, s, next, saves)
<1>1. CASE Run(c)
    <2>1. PICK s \in Turn(c) :
              Accepts(s) /\ Perform(c, s, After(s), store = "json" /\ Json!Saves(life, s))
        BY <1>1 DEF Run
    <2>2. s \in call[c].todo /\ (\A t \in call[c].todo : s.turn <= t.turn) /\ s \in Statement
        BY DEF Turn, IInv, TypeOK, Call
    <2>3. Fits(s)  BY <2>2 DEF IInv, CallsInv, Planned
    <2>4. Effect(s, After(s))  BY <2>1, <2>2, <2>3, AfterEffect DEF IInv, TypeOK
    <2>5. /\ phase = "up" /\ call[c].pc = "run" /\ made' = made
          /\ UNCHANGED <<store, work, phase, schema, starts, torn, file, conn>>
        BY <1>1 DEF Run, At, process
    <2> DEFINE saves == store = "json" /\ Json!Saves(life, s)
    <2>6. Performs(c, s, After(s), saves)
        BY <2>1, <2>2, <2>4, <2>5 DEF Performs, IInv, TypeOK
    <2> HIDE DEF saves
    <2> QED  BY <2>6
<1>2. CASE MakeMap(c)
    <2>1. PICK s \in call[c].now :
              /\ Perform(c, s, Write(Erase(life, UNION Json!TableOf(s)), s.on), TRUE)
              /\ made' = made \cup Json!TableOf(s)
        BY <1>2 DEF MakeMap
    <2>2. /\ phase = "up" /\ call[c].pc = "make"
          /\ UNCHANGED <<store, work, phase, schema, starts, torn, file, conn>>
        BY <1>2 DEF MakeMap, At
    <2>3. Planned(call[c])  BY DEF IInv, CallsInv
    <2>4. /\ s \in call[c].todo /\ (\A t \in call[c].todo : s.turn <= t.turn)
          /\ s \in Statement /\ Fits(s) /\ store = "json"
          /\ s.do \in {"ProviderCreate", "ModelCreate", "ComboCreate"}
        BY <2>2, <2>3 DEF Planned, IInv, TypeOK, Call
    <2> DEFINE next == Write(Erase(life, UNION Json!TableOf(s)), s.on)
    <2>5. Effect(s, next)  BY <2>4, MapEffect DEF IInv, TypeOK
    <2>6. Json!Saves(life, s)  BY <2>4 DEF Json!Saves
    <2>7. made' \subseteq Json!Tables
        BY <2>1 DEF Json!TableOf, Json!Tables, IInv, TypeOK
    <2>8. Performs(c, s, next, TRUE)
        BY <2>1, <2>2, <2>4, <2>5, <2>6, <2>7 DEF Performs
    <2> HIDE DEF next
    <2> QED  BY <2>8
<1> QED  BY <1>1, <1>2

LEMMA StatementsKeep ==
    ASSUME IInv, NEW c \in Calls, Run(c) \/ MakeMap(c)
    PROVE  IInv'
BY StatementsPerformed, PerformKeeps

\* What DeleteProvider and UpdateProvider plan from the models that were listed.
LEMMA PlanKeeps ==
    ASSUME IInv, NEW c \in Calls, NEW todo, At(c, "list"), Plan(c, todo),
           todo \subseteq Statement, excused \subseteq excused', excused' \subseteq Models,
           Planned([call[c] EXCEPT !.pc = "run", !.todo = todo]),
           \A s \in todo :
               /\ Fits(s)
               /\ s.do \in Inserts => New(s.on)
               /\ s.do \in Writes => \A r \in s.on : life[r] # "unused"
               /\ s.do = "ModelCreate" => life[Provider] # "unused",
           \A s, t \in todo : s.do \in Inserts /\ t.do \in Inserts /\ s.on \cap t.on # {} =>
               s = t,
           call[c].op = "DeleteProvider" =>
               \A m \in Unexcused' : \E s \in todo : s.do = "ModelDelete" /\ m \in s.on
    PROVE  IInv'
<1>1. call[c] \in Call /\ conn \in Calls \cup {Free}  BY DEF IInv, TypeOK
<1>2. /\ phase = "up" /\ call[c].pc = "list"
      /\ call' = [call EXCEPT ![c] = IF todo = {} THEN Idle
                                     ELSE [call[c] EXCEPT !.pc = "run", !.todo = todo]]
      /\ UNCHANGED <<store, work, process, life, file, conn, told, lost, back>>
    BY DEF Plan, At
<1>3. CASE todo = {}  BY <1>1, <1>2, <1>3, IdleSound, CallMovesAlone
<1>4. CASE todo # {}
    <2> DEFINE k == [call[c] EXCEPT !.pc = "run", !.todo = todo]
    <2>1. /\ k \in Call /\ k.pc = "run" /\ k.op = call[c].op /\ k.on = call[c].on
          /\ k.todo = todo /\ k.now = call[c].now /\ k.did = call[c].did
        BY <1>1 DEF Call
    <2>2. Planned(k)  OBVIOUS
    <2>3. Pending(k) = todo  BY <2>1 DEF Pending
    <2>4. \A s \in todo : Written(s)  BY DEF Written, New
    <2>5. Founded(call[c]) /\ Cleared(call[c]) /\ Stored(call[c])  BY DEF IInv, CallsInv
    <2>6. Founded(k)  BY <1>2, <2>1, <2>3, <2>4, <2>5 DEF Founded
    <2>7. ASSUME NEW d \in Calls, NEW s \in todo, NEW t \in Pending(call[d]),
                 s.do \in Inserts, t.do \in Inserts
          PROVE  s.on \cap t.on = {}
        BY <2>7 DEF New, Pending
    <2>8. Sound(c, k)  BY <2>1, <2>2, <2>3, <2>6, <2>7 DEF Sound
    <2>9. ClearedOf(k, Unexcused')
        <3>1. Unexcused' \subseteq Unexcused  BY <1>2 DEF Unexcused, Found
        <3> QED  BY <2>1, <2>3, <2>5, <3>1 DEF Cleared, ClearedOf
    <2>10. Unsaved(call[c]) = {} /\ Unsaved(k) = {}  BY <1>2, <2>1 DEF Unsaved
    <2>11. Stored(k)  BY <2>1, <2>5, <2>10 DEF Stored, StoredIn
    <2>12. call' = [call EXCEPT ![c] = k]  BY <1>2, <1>4
    <2> HIDE DEF k
    <2> QED  BY <1>1, <1>2, <2>8, <2>9, <2>11, <2>12, CallMovesAlone
<1> QED  BY <1>3, <1>4

LEMMA ListsKeep ==
    ASSUME IInv, NEW c \in Calls, ListToDelete(c) \/ ListToUpdate(c)
    PROVE  IInv'
<1>1. call[c] \in Call /\ excused \subseteq Models  BY DEF IInv, TypeOK
<1>2. Planned(call[c]) /\ Founded(call[c])  BY DEF IInv, CallsInv
<1>3. ModelsOf = {m \in Models : Found(life, m)}  BY FoundRows DEF IInv, TypeOK
<1>4. \A listed \in Listed : listed \subseteq ModelsOf  BY DEF Listed
<1>5. \A m \in Models : {m} \in SUBSET Rows  BY RowKinds
<1>6. {Provider} \in SUBSET Rows  BY RowKinds
<1>7. CASE ListToDelete(c)
    <2>1. PICK listed \in Listed :
              /\ Plan(c, {Lenient(1, "ModelDelete", {m}) : m \in listed}
                         \cup {Strict(2, "ProviderDelete", {Provider})})
              /\ excused' = excused \cup (ModelsOf \ listed)
        BY <1>7 DEF ListToDelete
    <2> DEFINE last == Strict(2, "ProviderDelete", {Provider})
               todo == {Lenient(1, "ModelDelete", {m}) : m \in listed} \cup {last}
               k == [call[c] EXCEPT !.pc = "run", !.todo = todo]
    <2>2. listed \subseteq Models /\ listed \subseteq ModelsOf  BY <1>3, <1>4
    <2>3. /\ last \in Statement /\ last.do = "ProviderDelete" /\ last.on = {Provider}
          /\ last.turn = 2 /\ last.strict
        BY <1>6, Statements DEF Deeds
    <2>4. ASSUME NEW m \in listed
          PROVE  LET s == Lenient(1, "ModelDelete", {m})
                 IN  s \in Statement /\ s.do = "ModelDelete" /\ s.on = {m} /\ s.turn = 1
        BY <1>5, <2>2, Statements DEF Deeds
    <2>5. ASSUME NEW s \in todo
          PROVE  /\ s \in Statement /\ Fits(s) /\ s.do \in {"ModelDelete", "ProviderDelete"}
                 /\ s.do = "ModelDelete" => s.turn = 1
                 /\ s.do = "ProviderDelete" => s.turn = 2 /\ s.strict
        <3>1. CASE s = last  BY <2>3, <3>1 DEF Fits
        <3>2. CASE s # last
            <4>1. PICK m \in listed : s = Lenient(1, "ModelDelete", {m})  BY <3>2
            <4>2. s \in Statement /\ s.do = "ModelDelete" /\ s.on = {m} /\ s.turn = 1
                BY <2>4, <4>1
            <4> HIDE DEF last
            <4> QED  BY <2>2, <4>2 DEF Fits
        <3> QED  BY <3>1, <3>2
    <2>6. At(c, "list") /\ call[c].op = "DeleteProvider"  BY <1>7 DEF ListToDelete
    <2>7. \A m \in listed : \E s \in todo : s.do = "ModelDelete" /\ m \in s.on
        <3>1. SUFFICES ASSUME NEW m \in listed
                       PROVE  \E s \in todo : s.do = "ModelDelete" /\ m \in s.on
            OBVIOUS
        <3>2. Lenient(1, "ModelDelete", {m}) \in todo  OBVIOUS
        <3> HIDE DEF todo
        <3> QED  BY <2>4, <3>2
    <2>8. Plan(c, todo)  BY <2>1
    <2>9. /\ k.pc = "run" /\ k.op = "DeleteProvider" /\ k.todo = todo /\ k.now = call[c].now
        BY <1>1, <2>6 DEF Call
    <2> HIDE DEF todo, last
    <2>10. k.now = {}  BY <1>2, <2>6, <2>9 DEF Planned, At
    <2>11. Planned(k)
        BY <2>5, <2>9, <2>10 DEF Planned, Creations, Deletions, Deletes
    <2>12. life' = life  BY <2>8 DEF Plan
    <2>13. Unexcused' \subseteq listed
        BY <1>3, <2>1, <2>12 DEF Unexcused, Found
    <2>14. \A s \in todo : s.do \notin Inserts \cup Writes \cup {"ModelCreate"}
        BY <2>5 DEF Inserts, Writes
    <2>15. excused \subseteq excused' /\ excused' \subseteq Models  BY <1>1, <1>3, <2>1
    <2> QED  BY <2>5, <2>6, <2>7, <2>8, <2>11, <2>13, <2>14, <2>15, PlanKeeps
<1>8. CASE ListToUpdate(c)
    <2>0. PICK listed \in Listed : \E kept \in SUBSET listed, new \in SUBSET Models :
              /\ New(new)
              /\ Plan(c, IF kept \cup new = {} THEN {}
                         ELSE {Lenient(1, "ModelUpdate", {m}) : m \in kept}
                              \cup {Lenient(1, "ModelCreate", {m}) : m \in new}
                              \cup {Lenient(2, "ModelDelete", {m}) : m \in listed \ kept})
        BY <1>8 DEF ListToUpdate
    <2>1. PICK kept \in SUBSET listed, new \in SUBSET Models :
              /\ New(new)
              /\ Plan(c, IF kept \cup new = {} THEN {}
                         ELSE {Lenient(1, "ModelUpdate", {m}) : m \in kept}
                              \cup {Lenient(1, "ModelCreate", {m}) : m \in new}
                              \cup {Lenient(2, "ModelDelete", {m}) : m \in listed \ kept})
        BY <2>0
    <2> DEFINE updates == {Lenient(1, "ModelUpdate", {m}) : m \in kept}
               creates == {Lenient(1, "ModelCreate", {m}) : m \in new}
               deletes == {Lenient(2, "ModelDelete", {m}) : m \in listed \ kept}
               todo == IF kept \cup new = {} THEN {} ELSE updates \cup creates \cup deletes
               k == [call[c] EXCEPT !.pc = "run", !.todo = todo]
    <2>2. listed \subseteq Models /\ kept \subseteq Models
          /\ \A m \in kept : life[m] = "there"
        BY <1>3, <1>4 DEF Found
    <2>3. \A m \in new : New({m})  BY <2>1 DEF New
    <2>4. /\ At(c, "list") /\ call[c].op = "UpdateProvider" /\ excused' = excused
          /\ life[Provider] # "unused"
        BY <1>2, <1>8 DEF ListToUpdate, Founded
    <2>5. ASSUME NEW s \in todo
          PROVE  \/ \E m \in kept : s = Lenient(1, "ModelUpdate", {m})
                 \/ \E m \in new : s = Lenient(1, "ModelCreate", {m})
                 \/ \E m \in listed \ kept : s = Lenient(2, "ModelDelete", {m})
        OBVIOUS
    <2>6. \A m \in Models, do \in {"ModelUpdate", "ModelCreate", "ModelDelete"}, turn \in {1, 2} :
              /\ Lenient(turn, do, {m}) \in Statement
              /\ Lenient(turn, do, {m}).do = do /\ Lenient(turn, do, {m}).on = {m}
        BY <1>5, Statements DEF Deeds
    <2>7. ASSUME NEW s \in todo
          PROVE  /\ s \in Statement /\ s.do \in {"ModelUpdate", "ModelCreate", "ModelDelete"}
                 /\ s.do = "ModelCreate" => \E m \in new : s = Lenient(1, "ModelCreate", {m})
                 /\ s.do = "ModelCreate" => New(s.on)
                 /\ s.do = "ModelUpdate" => \A r \in s.on : life[r] # "unused"
                 /\ s.on \subseteq Models
        <3>1. CASE \E m \in kept : s = Lenient(1, "ModelUpdate", {m})
            <4>1. PICK m \in kept : s = Lenient(1, "ModelUpdate", {m})  BY <3>1
            <4>2. s \in Statement /\ s.do = "ModelUpdate" /\ s.on = {m} /\ m \in Models
                BY <2>2, <2>6, <4>1
            <4> HIDE DEF todo
            <4> QED  BY <2>2, <4>2
        <3>2. CASE \E m \in new : s = Lenient(1, "ModelCreate", {m})
            <4>1. PICK m \in new : s = Lenient(1, "ModelCreate", {m})  BY <3>2
            <4>2. s \in Statement /\ s.do = "ModelCreate" /\ s.on = {m} /\ m \in Models
                BY <2>6, <4>1
            <4> HIDE DEF todo
            <4> QED  BY <2>3, <4>1, <4>2
        <3>3. CASE \E m \in listed \ kept : s = Lenient(2, "ModelDelete", {m})
            <4>1. PICK m \in listed \ kept : s = Lenient(2, "ModelDelete", {m})  BY <3>3
            <4>2. s \in Statement /\ s.do = "ModelDelete" /\ s.on = {m} /\ m \in Models
                BY <2>2, <2>6, <4>1
            <4> HIDE DEF todo
            <4> QED  BY <4>2
        <3> QED  BY <2>5, <3>1, <3>2, <3>3
    <2>8. ASSUME NEW s \in todo, NEW t \in todo, s.do = "ModelCreate", t.do = "ModelCreate",
                 s.on \cap t.on # {}
          PROVE  s = t
        <3>1. PICK m \in new : s = Lenient(1, "ModelCreate", {m})
            BY <2>7, <2>8
        <3>2. PICK n \in new : t = Lenient(1, "ModelCreate", {n})
            BY <2>7, <2>8
        <3>3. s.on = {m} /\ t.on = {n}  BY <2>6, <3>1, <3>2
        <3> HIDE DEF todo
        <3> QED  BY <2>8, <3>1, <3>2, <3>3
    <2>9. Plan(c, todo)  BY <2>1
    <2>10. k.pc = "run" /\ k.op = "UpdateProvider" /\ k.todo = todo /\ k.now = call[c].now
        BY <1>1, <2>4 DEF Call
    <2> HIDE DEF todo
    <2>11. k.now = {}  BY <1>2, <2>4, <2>10 DEF Planned, At
    <2>12. \A s \in todo : Fits(s)  BY <2>7 DEF Fits
    <2>13. Planned(k)  BY <2>7, <2>10, <2>11, <2>12 DEF Planned, Creations, Deletions
    <2>14. \A s \in todo : /\ s.do \in Inserts => s.do = "ModelCreate"
                           /\ s.do \in Writes => s.do = "ModelUpdate"
        BY <2>7 DEF Inserts, Writes
    <2>15. excused \subseteq excused' /\ excused' \subseteq Models /\ todo \subseteq Statement
        BY <1>1, <2>4, <2>7
    <2> QED  BY <2>4, <2>7, <2>8, <2>9, <2>12, <2>13, <2>14, <2>15, PlanKeeps
<1> QED  BY <1>7, <1>8

\* What call k counts on is in file f.
FiledFor(k, f, cut) ==
    /\ k.op \in Creations /\ store = "json" /\ ~cut => k.did \ lost \subseteq f
    /\ k.op \in Deletions => ((k.on \cap k.did) \ back) \cap f = {}

\* A call that saved statement s, or gave it up.
Over(k, s) ==
    /\ s \in k.todo
    /\ \/ k.pc = "save" /\ k.now = {s}
       \/ k.pc = "run" /\ ~s.strict

\* It goes on to the next.
LEMMA Settles ==
    ASSUME IInv, NEW c \in Calls, NEW s, Over(call[c], s), NEW k, k = AfterStatement(call[c], s)
    PROVE  /\ Sound(c, k) /\ Unsaved(k) = {}
           /\ k # Idle => /\ k.op = call[c].op /\ k.on = call[c].on /\ k.did = call[c].did
                          /\ Pending(k) = call[c].todo \ {s}
                          /\ k.pc = "list" => s.do = "ProviderUpdate"
<1>1. call[c] \in Call  BY DEF IInv, TypeOK
<1>2. Planned(call[c]) /\ Founded(call[c])  BY DEF IInv, CallsInv
<1>3. CASE k = Idle  BY <1>3, IdleSound DEF Idle, Unsaved
<1>4. CASE k # Idle
    <2>1. /\ k \in Call /\ k.op = call[c].op /\ k.on = call[c].on /\ k.did = call[c].did
          /\ k.todo = call[c].todo \ {s} /\ k.now = {}
          /\ k.pc \in {"run", "list"}
          /\ k.pc = "list" => k.todo = {} /\ s.do = "ProviderUpdate"
        BY <1>1, <1>4 DEF AfterStatement, Call
    <2>2. Pending(k) = call[c].todo \ {s} /\ Unsaved(k) = {}  BY <2>1 DEF Pending, Unsaved
    <2>3. Pending(k) \subseteq Pending(call[c])  BY <2>2 DEF Over, Pending
    <2>4. Planned(k)
        <3>1. \A t \in k.todo : t.do # "ItemRemove"  BY <1>2, <2>1 DEF Planned, Over
        <3> QED  BY <1>2, <2>1, <3>1 DEF Planned
    <2>5. \A t \in Pending(call[c]) : t.do = "ProviderCreate" => t \in Pending(k)
        BY <1>2, <2>2 DEF Planned, Over, Pending
    <2>6. Founded(k)  BY <1>2, <2>1, <2>3, <2>5 DEF Founded
    <2>7. Sound(c, k)  BY <2>1, <2>3, <2>4, <2>6 DEF Sound, IInv, InsertsApart
    <2> QED  BY <2>1, <2>2, <2>7
<1> QED  BY <1>3, <1>4

\* What its client is told is so.
LEMMA TellKeeps ==
    ASSUME IInv, phase = "up", NEW c \in Calls, NEW s, Filed,
           UNCHANGED <<store, phase, life, lost, back>>, told' = Tell(told, call[c], s),
           FiledFor(call[c], file', torn')
    PROVE  ToldInv' /\ told' \in [Rows -> {"none", "created", "deleted"}]
<1>1. There' = There  BY DEF There, Visible
<1>2. /\ \A r \in There : torn \/ r \in file => torn' \/ r \in file'
      /\ \A r \in Rows : life[r] = "gone" /\ r \notin file => r \notin file'
    BY FileRemembers
<1>3. Founded(call[c]) /\ told \in [Rows -> {"none", "created", "deleted"}]
    BY DEF IInv, CallsInv, TypeOK
<1>4. \A r \in Rows :
          \/ told'[r] = told[r]
          \/ told'[r] = "created" /\ call[c].op \in Creations /\ r \in call[c].did
          \/ /\ told'[r] = "deleted"
             /\ call[c].op \in Deletions /\ r \in call[c].on \cap call[c].did
    BY DEF Tell
<1>5. told' \in [Rows -> {"none", "created", "deleted"}]  BY <1>3 DEF Tell
<1>6. ASSUME NEW r \in Rows, told'[r] = "created", r \notin lost
      PROVE  r \in There /\ (store = "json" /\ ~torn' => r \in file')
    <2>1. CASE told'[r] = told[r]  BY <1>2, <1>6, <2>1 DEF IInv, ToldInv
    <2>2. CASE call[c].op \in Creations /\ r \in call[c].did
        BY <1>3, <1>6, <2>2 DEF Founded, FiledFor
    <2> QED  BY <1>4, <1>6, <2>1, <2>2
<1>7. ASSUME NEW r \in Rows, told'[r] = "deleted", r \notin back
      PROVE  life[r] = "gone" /\ r \notin file'
    <2>1. CASE told'[r] = told[r]  BY <1>2, <1>7, <2>1 DEF IInv, ToldInv
    <2>2. CASE call[c].op \in Deletions /\ r \in call[c].on \cap call[c].did
        BY <1>3, <1>7, <2>2 DEF Founded, FiledFor
    <2> QED  BY <1>4, <1>7, <2>1, <2>2
<1> QED  BY <1>1, <1>5, <1>6, <1>7 DEF IInv, ToldInv

LEMMA OverKeeps ==
    ASSUME IInv, phase = "up", NEW c \in Calls, NEW s, Over(call[c], s), Filed,
           UNCHANGED <<store, work, phase, schema, starts, made, life, conn, lost, back>>,
           call' = [call EXCEPT ![c] = AfterStatement(call[c], s)],
           told' = Tell(told, call[c], s), FiledFor(call[c], file', torn'),
           excused \subseteq excused', excused' \subseteq Models,
           call[c].pc = "run" /\ call[c].op = "DeleteProvider" =>
               s.on \cap Models \subseteq excused'
    PROVE  IInv'
<1> DEFINE k == AfterStatement(call[c], s)
<1>1. /\ Sound(c, k) /\ Unsaved(k) = {}
      /\ k # Idle => /\ k.op = call[c].op /\ k.on = call[c].on /\ k.did = call[c].did
                     /\ Pending(k) = call[c].todo \ {s}
                     /\ k.pc = "list" => s.do = "ProviderUpdate"
    BY Settles
<1>2. Planned(call[c]) /\ Cleared(call[c])  BY DEF IInv, CallsInv
<1>3. ClearedOf(k, Unexcused')
    <2>1. CASE k = Idle  BY <2>1, IdleSound
    <2>2. CASE k # Idle
        <3>1. Unexcused' \subseteq Unexcused  BY DEF Unexcused, Found
        <3>2. k.op = "Rollback" => Unexcused' = {}
            BY <1>1, <1>2, <2>2, <3>1 DEF Cleared, ClearedOf
        <3>3. ASSUME k.op = "DeleteProvider", NEW m \in Unexcused'
              PROVE  \E t \in Pending(k) : t.do = "ModelDelete" /\ m \in t.on
            <4>1. call[c].op = "DeleteProvider" /\ call[c].pc # "list"
                BY <1>1, <2>2, <3>3 DEF Over
            <4>2. PICK t \in Pending(call[c]) : t.do = "ModelDelete" /\ m \in t.on
                BY <1>2, <3>1, <3>3, <4>1 DEF Cleared, ClearedOf
            <4>3. t # s
                BY <3>3, <4>1, <4>2 DEF Over, Pending, Unexcused
            <4> QED  BY <1>1, <2>2, <4>2, <4>3 DEF Pending
        <3> QED  BY <3>2, <3>3 DEF ClearedOf
    <2> QED  BY <2>1, <2>2
<1>4. StoredIn(k, file', torn')
    <2>1. CASE k = Idle  BY <2>1, IdleSound
    <2>2. CASE k # Idle  BY <1>1, <2>2 DEF StoredIn, FiledFor
    <2> QED  BY <2>1, <2>2
<1>5. ToldInv' /\ told' \in [Rows -> {"none", "created", "deleted"}]  BY TellKeeps
<1>6. conn' \in Calls \cup {Free}  BY DEF IInv, TypeOK
<1> HIDE DEF k
<1>7. call' = [call EXCEPT ![c] = k]  BY DEF k
<1> QED  BY <1>1, <1>3, <1>4, <1>5, <1>6, <1>7, CallMoves

LEMMA SaveKeeps == ASSUME IInv, NEW c \in Calls, Save(c) PROVE IInv'
<1>1. PICK s \in call[c].now :
          /\ file' = Json!Image(life) /\ torn' = FALSE
          /\ call' = [call EXCEPT ![c] = AfterStatement(call[c], s)]
          /\ told' = Tell(told, call[c], s)
    BY DEF Save
<1>2. /\ phase = "up" /\ call[c].pc = "save"
      /\ UNCHANGED <<store, work, phase, schema, starts, made, life, conn, lost, back, excused>>
    BY DEF Save, At
<1>3. store = "json" /\ excused \subseteq Models /\ call[c] \in Call
    BY <1>2 DEF IInv, TypeOK
<1>4. Planned(call[c]) /\ Founded(call[c])  BY DEF IInv, CallsInv
<1>5. Over(call[c], s)
    <2>1. call[c].now = {s} /\ s \in call[c].todo  BY <1>4 DEF Planned
    <2> QED  BY <1>2, <2>1 DEF Over
<1>6. Filed  BY <1>1, <1>3 DEF Filed
<1>7. file' = There  BY <1>1, <1>3 DEF There, Visible
<1>8. FiledFor(call[c], file', torn')
    BY <1>3, <1>4, <1>7, VisibleRows DEF FiledFor, Founded, There
<1> QED  BY <1>1, <1>2, <1>3, <1>5, <1>6, <1>8, OverKeeps

LEMMA FailKeeps ==
    ASSUME IInv, phase = "up", NEW c \in Calls, NEW s \in call[c].todo, Fail(c, s), Filed,
           call[c].pc = "run" \/ (call[c].pc = "save" /\ call[c].now = {s}),
           UNCHANGED <<store, work, phase, schema, starts, made, life, conn, lost, back>>
    PROVE  IInv'
<1>1. call[c] \in Call /\ excused \subseteq Models /\ conn \in Calls \cup {Free}
      /\ told \in [Rows -> {"none", "created", "deleted"}]
    BY DEF IInv, TypeOK
<1>2. Planned(call[c]) /\ Founded(call[c]) /\ Stored(call[c])  BY DEF IInv, CallsInv
<1>3. CASE ~s.strict
    <2>1. /\ call' = [call EXCEPT ![c] = AfterStatement(call[c], s)]
          /\ told' = Tell(told, call[c], s)
          /\ excused' = IF call[c].op = "DeleteProvider" THEN excused \cup s.on ELSE excused
        BY <1>3 DEF Fail
    <2>2. call[c].op = "DeleteProvider" => s.on \subseteq Models
        BY <1>2, <1>3 DEF Planned, Fits
    <2>3. Unsaved(call[c]) = {}  BY <1>3 DEF Unsaved
    <2>4. StoredIn(call[c], file', torn')  BY <1>1, <1>2, StoredKeeps
    <2>5. FiledFor(call[c], file', torn')  BY <2>3, <2>4 DEF StoredIn, FiledFor
    <2>6. Over(call[c], s)  BY <1>3 DEF Over
    <2> QED  BY <1>1, <2>1, <2>2, <2>5, <2>6, OverKeeps
<1>4. CASE s.strict
    <2>1. There' = There  BY DEF There, Visible
    <2>2. /\ \A r \in There : torn \/ r \in file => torn' \/ r \in file'
          /\ \A r \in Rows : life[r] = "gone" /\ r \notin file => r \notin file'
        BY FileRemembers
    <2>3. told' = told  BY <1>4 DEF Fail
    <2>4. ToldInv'  BY <2>1, <2>2, <2>3 DEF IInv, ToldInv
    <2>5. CASE call[c].op = "CreateProvider" /\ s.do = "ModelCreate"
        <3> DEFINE last == Lenient(1, "ProviderDelete", {Provider})
                   k == [Idle EXCEPT !.op = "Rollback", !.pc = "run", !.todo = {last}]
        <3>1. /\ call' = [call EXCEPT ![c] = k] /\ excused' = excused \cup ModelsOf
            BY <1>4, <2>5 DEF Fail
        <3>2. {Provider} \in SUBSET Rows  BY RowKinds
        <3>3. /\ last \in Statement /\ last.do = "ProviderDelete" /\ last.on = {Provider}
            BY <3>2, Statements DEF Deeds
        <3> HIDE DEF last
        <3>4. /\ k \in Call /\ k.op = "Rollback" /\ k.pc = "run" /\ k.todo = {last}
              /\ k.now = {} /\ k.did = {} /\ k.on = {} /\ Pending(k) = {last}
            BY <3>3 DEF Idle, Call, Pending
        <3>5. Planned(k)  BY <3>3, <3>4 DEF Planned, Fits, Creations, Deletions
        <3>6. Founded(k)
            BY <3>3, <3>4 DEF Founded, Written, Inserts, Writes, Creations, Deletions
        <3>7. Sound(c, k)  BY <3>3, <3>4, <3>5, <3>6 DEF Sound, Inserts
        <3>8. ModelsOf = {m \in Models : Found(life, m)}  BY FoundRows DEF IInv, TypeOK
        <3>9. Unexcused' = {} /\ excused' \subseteq Models
            BY <1>1, <3>1, <3>8 DEF Unexcused, Found
        <3>10. ClearedOf(k, Unexcused') /\ StoredIn(k, file', torn')
            BY <3>4, <3>9 DEF ClearedOf, StoredIn, Creations, Deletions
        <3>11. excused \subseteq excused'  BY <3>1
        <3> HIDE DEF k
        <3> QED  BY <1>1, <2>3, <2>4, <3>1, <3>7, <3>9, <3>10, <3>11, CallMoves
    <2>6. CASE ~(call[c].op = "CreateProvider" /\ s.do = "ModelCreate")
        <3>1. call' = [call EXCEPT ![c] = Idle] /\ excused' = excused
            BY <1>4, <2>6 DEF Fail
        <3> QED  BY <1>1, <2>3, <2>4, <3>1, IdleSound, CallMoves
    <2> QED  BY <2>5, <2>6
<1> QED  BY <1>1, <1>3, <1>4 DEF Call, Statement

LEMMA FailuresKeep ==
    ASSUME IInv, NEW c \in Calls, StatementRefused(c) \/ StatementFails(c) \/ SaveFails(c)
    PROVE  IInv'
<1> USE DEF process
<1>1. CASE StatementRefused(c) \/ StatementFails(c)
    <2>1. PICK s \in Turn(c) : Fail(c, s)  BY <1>1 DEF StatementRefused, StatementFails
    <2>2. /\ phase = "up" /\ call[c].pc = "run"
          /\ UNCHANGED <<store, work, phase, schema, starts, made, torn>>
          /\ UNCHANGED <<life, file, conn, lost, back>>
        BY <1>1 DEF StatementRefused, StatementFails, At
    <2>3. s \in call[c].todo /\ Filed  BY <2>2 DEF Turn, Filed
    <2> QED  BY <2>1, <2>2, <2>3, FailKeeps
<1>2. CASE SaveFails(c)
    <2>1. PICK s \in call[c].now : Fail(c, s)  BY <1>2 DEF SaveFails
    <2>2. /\ phase = "up" /\ call[c].pc = "save" /\ CutFile
          /\ UNCHANGED <<store, work, phase, schema, starts, made, life, conn, lost, back>>
        BY <1>2 DEF SaveFails, At
    <2>3. store = "json" /\ Planned(call[c])  BY <2>2 DEF IInv, TypeOK, CallsInv
    <2>4. Filed  BY <2>2, <2>3 DEF Filed, CutFile
    <2>5. s \in call[c].todo /\ call[c].now = {s}  BY <2>3 DEF Planned
    <2> QED  BY <2>1, <2>2, <2>4, <2>5, FailKeeps
<1> QED  BY <1>1, <1>2
-----------------------------------------------------------------------------
(* The process.                                                            *)

LEMMA InitHolds == Init => IInv
<1> SUFFICES ASSUME Init PROVE IInv
    OBVIOUS
<1>1. Idle \in Call  BY DEF Idle, Call
<1>2. TypeOK
    <2>1. starts \in 0 .. MaxStarts  BY CatalogAssumption DEF Init
    <2>2. schema \in {"none", "old", "current"} /\ torn \in BOOLEAN  BY DEF Init
    <2>3. call \in [Calls -> Call] /\ \A c \in Calls : call[c].pc \notin {"save", "make"}
        BY <1>1 DEF Init, Idle
    <2>4. life \in [Rows -> Life] /\ told \in [Rows -> {"none", "created", "deleted"}]
        BY DEF Init, Life
    <2> QED  BY <2>1, <2>2, <2>3, <2>4 DEF Init, TypeOK
<1>3. \A c \in Calls : call[c] = Idle  BY DEF Init
<1>4. CallsInv
    BY <1>3 DEF CallsInv, Idle, Planned, Founded, Cleared, ClearedOf, Stored, StoredIn,
                Pending, Creations, Deletions
<1>5. InsertsApart  BY <1>3 DEF InsertsApart, Pending, Idle
<1>6. ProviderFirst /\ OrphansExcused /\ ItemsCovered
    BY RowKinds DEF Init, ProviderFirst, OrphansExcused, ItemsCovered, Found
<1>7. FileInv /\ ToldInv  BY DEF Init, FileInv, ToldInv
<1>8. QuietDown  BY DEF Init, QuietDown
<1> QED  BY <1>2, <1>4, <1>5, <1>6, <1>7, <1>8 DEF IInv

\* Nothing is left of the calls when the process ends.
LEMMA EndKeeps ==
    ASSUME IInv, phase \in {"open", "up"}, phase' = "down", conn' = Free,
           call' = [c \in Calls |-> Idle], Filed,
           UNCHANGED <<store, work, schema, starts, made, life, history>>
    PROVE  IInv'
<1>1. UNCHANGED <<told, lost, back, excused>>  BY DEF history
<1>2. /\ FileInv' /\ file' \subseteq Rows /\ torn' \in BOOLEAN
      /\ store # "json" => file' = {}
    BY <1>1, FiledKeeps
<1>3. Idle \in Call /\ \A c \in Calls : call'[c] = Idle  BY DEF Idle, Call
<1>4. TypeOK'  BY <1>1, <1>2, <1>3 DEF IInv, TypeOK, Idle
<1>5. CallsInv'
    BY <1>3 DEF CallsInv, Idle, Planned, Founded, Cleared, ClearedOf, Stored, StoredIn,
                Pending, Creations, Deletions
<1>6. InsertsApart'  BY <1>3 DEF InsertsApart, Pending, Idle
<1>7. ProviderFirst' /\ OrphansExcused' /\ ItemsCovered'
    BY <1>1 DEF IInv, ProviderFirst, OrphansExcused, ItemsCovered, Found
<1>8. /\ \A r \in There : torn \/ r \in file => torn' \/ r \in file'
      /\ \A r \in Rows : life[r] = "gone" /\ r \notin file => r \notin file'
    BY FileRemembers
<1>9. There' = There  BY DEF There, Visible
<1>10. ToldInv'  BY <1>1, <1>8, <1>9 DEF IInv, ToldInv
<1>11. QuietDown'  BY DEF QuietDown
<1> QED  BY <1>2, <1>4, <1>5, <1>6, <1>7, <1>10, <1>11 DEF IInv

LEMMA EndsKeep == ASSUME IInv, Crash \/ Stop PROVE IInv'
<1>1. CASE Crash
    <2>1. Saving => store = "json"  BY DEF Saving
    <2>2. Filed  BY <1>1, <2>1 DEF Crash, Filed, CutFile
    <2> QED  BY <1>1, <2>2, EndKeeps DEF Crash
<1>2. CASE Stop
    <2>1. Filed  BY <1>2 DEF Stop, Filed, CutFile
    <2> QED  BY <1>2, <2>1, EndKeeps DEF Stop
<1> QED  BY <1>1, <1>2

LEMMA OtherSaveKeeps == ASSUME IInv, OtherSave PROVE IInv'
<1>1. /\ phase = "up" /\ Filed
      /\ UNCHANGED <<store, work, phase, schema, starts, made, life, conn, call>>
      /\ UNCHANGED <<told, lost, back, excused>>
    BY DEF OtherSave, Filed, CutFile, history
<1>2. /\ FileInv' /\ file' \subseteq Rows /\ torn' \in BOOLEAN /\ There' = There
      /\ store # "json" => file' = {}
    BY <1>1, FiledKeeps
<1>3. TypeOK'  BY <1>1, <1>2 DEF IInv, TypeOK
<1>4. ASSUME NEW c \in Calls
      PROVE  Planned(call[c])' /\ Founded(call[c])' /\ Cleared(call[c])' /\ Stored(call[c])'
    <2>1. Planned(call[c]) /\ Founded(call[c]) /\ Cleared(call[c]) /\ Stored(call[c])
        BY DEF IInv, CallsInv
    <2>2. Planned(call[c])'  BY <1>1, <2>1 DEF Planned, Fits
    <2>3. Founded(call[c])'  BY <1>1, <1>2, <2>1 DEF Founded, Written, Pending
    <2>4. Cleared(call[c])'  BY <1>1, <2>1 DEF Cleared, ClearedOf, Pending, Unexcused, Found
    <2>5. call[c] \in Call  BY DEF IInv, TypeOK
    <2>6. StoredIn(call[c], file', torn')  BY <1>1, <2>1, <2>5, StoredKeeps
    <2>7. Stored(call[c])'  BY <1>1, <2>6 DEF Stored, StoredIn, Unsaved
    <2> QED  BY <2>2, <2>3, <2>4, <2>7
<1>5. CallsInv'  BY <1>4 DEF CallsInv
<1>6. InsertsApart'  BY <1>1 DEF IInv, InsertsApart, Pending
<1>7. ProviderFirst' /\ OrphansExcused' /\ ItemsCovered'
    BY <1>1 DEF IInv, ProviderFirst, OrphansExcused, ItemsCovered, Found
<1>8. /\ \A r \in There : torn \/ r \in file => torn' \/ r \in file'
      /\ \A r \in Rows : life[r] = "gone" /\ r \notin file => r \notin file'
    BY <1>1, FileRemembers
<1>9. ToldInv'  BY <1>1, <1>2, <1>8 DEF IInv, ToldInv
<1>10. QuietDown'  BY <1>1 DEF QuietDown
<1> QED  BY <1>2, <1>3, <1>5, <1>6, <1>7, <1>9, <1>10 DEF IInv

LEMMA OpenKeeps == ASSUME IInv, Open PROVE IInv'
<1>1. /\ phase \in {"down", "refused"} /\ starts < MaxStarts /\ starts' = starts + 1
      /\ phase' = IF Migrates THEN "open" ELSE "refused"
      /\ schema' = IF Migrates /\ store = "sqlite" THEN "current" ELSE schema
      /\ life' = Reread /\ made' = Json!MadeBy(file)
      /\ lost' = IF torn THEN lost \cup {r \in Rows : told[r] = "created" /\ r \notin file}
                 ELSE lost
      /\ UNCHANGED <<store, work, torn, file, conn, call, told, back, excused>>
    BY DEF Open
<1>2. /\ store \in {"sqlite", "postgres", "json"} /\ life \in [Rows -> Life]
      /\ file \subseteq Rows /\ starts \in 0 .. MaxStarts
      /\ call = [c \in Calls |-> Idle]
    BY <1>1 DEF IInv, TypeOK, QuietDown
<1>3. \A r \in Rows : life'[r] = IF store # "json" THEN life[r]
                                 ELSE IF r \in file THEN "there"
                                 ELSE IF life[r] = "unused" THEN "unused" ELSE "gone"
    BY <1>1, <1>2 DEF Reread
<1>4. life' \in [Rows -> Life]  BY <1>1, <1>2 DEF Reread, Life
<1>5. \A r \in Rows : life'[r] = "unused" <=> life[r] = "unused"
    BY <1>2, <1>3 DEF IInv, FileInv
<1>6. TypeOK'
    <2>1. made' \subseteq Json!Tables  BY <1>1 DEF Json!MadeBy
    <2>2. starts' \in 0 .. MaxStarts  BY <1>1, <1>2, CatalogAssumption
    <2>3. lost' \subseteq Rows  BY <1>1 DEF IInv, TypeOK
    <2>4. phase' \in {"down", "open", "up", "refused"} /\ schema' \in {"none", "old", "current"}
        BY <1>1 DEF IInv, TypeOK
    <2> QED  BY <1>1, <1>4, <2>1, <2>2, <2>3, <2>4 DEF IInv, TypeOK
<1>7. \A c \in Calls : call'[c] = Idle  BY <1>1, <1>2
<1>8. CallsInv'
    BY <1>7 DEF CallsInv, Idle, Planned, Founded, Cleared, ClearedOf, Stored, StoredIn,
                Pending, Creations, Deletions
<1>9. InsertsApart'  BY <1>7 DEF InsertsApart, Pending, Idle
<1>10. ProviderFirst'  BY <1>5, RowKinds DEF IInv, ProviderFirst
<1>11. OrphansExcused'
    <2>1. SUFFICES ASSUME life'[Provider] = "gone", NEW m \in Models, life'[m] = "there"
                   PROVE  m \in excused
        BY <1>1 DEF OrphansExcused, Found
    <2>2. CASE store # "json"
        BY <1>3, <2>1, <2>2, RowKinds DEF IInv, OrphansExcused, Found
    <2>3. CASE store = "json"
        BY <1>3, <2>1, <2>3, RowKinds DEF IInv, FileInv
    <2> QED  BY <2>2, <2>3
<1>12. ItemsCovered'  BY <1>1, <1>3, RowKinds DEF IInv, ItemsCovered, Found
<1>13. FileInv'  BY <1>1, <1>2, <1>5 DEF IInv, FileInv
<1>14. ToldInv'
    <2>1. store # "json" => lost' = {} /\ back' = {}
        BY <1>1 DEF IInv, ToldInv, FileInv
    <2>2. lost \subseteq lost'  BY <1>1
    <2>3. ASSUME NEW r \in Rows, told[r] = "created", r \notin lost'
          PROVE  r \in There' /\ (store = "json" /\ ~torn => r \in file)
        <3>1. CASE store # "json"
            <4>1. r \in There  BY <2>2, <2>3, <3>1 DEF IInv, ToldInv
            <4> QED  BY <1>1, <1>3, <3>1, <4>1, VisibleRows DEF There, Visible, Found
        <3>2. CASE store = "json"
            <4>1. r \in file  BY <1>1, <2>2, <2>3, <3>2 DEF IInv, ToldInv
            <4>2. life'[r] = "there"  BY <1>3, <3>2, <4>1
            <4>3. r \in Items => life'[Combo] = "there"
                BY <1>3, <3>2, <4>1, RowKinds DEF IInv, FileInv
            <4> QED  BY <1>1, <3>2, <4>1, <4>2, <4>3
                DEF There, Visible, Json!Image, Json!Rows, Json!Found, Rows
        <3> QED  BY <3>1, <3>2
    <2>4. ASSUME NEW r \in Rows, told[r] = "deleted", r \notin back
          PROVE  life'[r] = "gone" /\ r \notin file
        <3>1. life[r] = "gone" /\ r \notin file  BY <2>4 DEF IInv, ToldInv
        <3> QED  BY <1>3, <3>1
    <2> QED  BY <1>1, <2>1, <2>3, <2>4 DEF ToldInv
<1>15. QuietDown'  BY <1>1, <1>2 DEF QuietDown
<1> QED  BY <1>6, <1>8, <1>9, <1>10, <1>11, <1>12, <1>13, <1>14, <1>15 DEF IInv

LEMMA BootstrapKeeps == ASSUME IInv, BootstrapAdmin PROVE IInv'
<1>1. /\ phase = "open"
      /\ UNCHANGED <<store, work, schema, starts, made, conn, call, told, lost, excused>>
    BY DEF BootstrapAdmin
<1>2. /\ store \in {"sqlite", "postgres", "json"} /\ life \in [Rows -> Life]
      /\ file \subseteq Rows /\ call = [c \in Calls |-> Idle]
    BY <1>1 DEF IInv, TypeOK, QuietDown
<1>3. \A c \in Calls : call'[c] = Idle  BY <1>1, <1>2
<1>4. CallsInv'
    BY <1>3 DEF CallsInv, Idle, Planned, Founded, Cleared, ClearedOf, Stored, StoredIn,
                Pending, Creations, Deletions
<1>5. InsertsApart'  BY <1>3 DEF InsertsApart, Pending, Idle
<1>6. Admin \in Rows /\ Admin \notin Models \cup Items /\ Admin # Provider /\ Admin # Combo
    BY RowsAssumption DEF Rows
<1>7. CASE phase' \in {"up", "refused"} /\ UNCHANGED <<life, file, torn, back>>
    <2>1. TypeOK'  BY <1>1, <1>7 DEF IInv, TypeOK
    <2>2. ProviderFirst' /\ OrphansExcused' /\ ItemsCovered' /\ FileInv'
        BY <1>1, <1>7 DEF IInv, ProviderFirst, OrphansExcused, ItemsCovered, FileInv, Found
    <2>3. There' = There  BY <1>1, <1>7 DEF There, Visible
    <2>4. ToldInv'  BY <1>1, <1>7, <2>3 DEF IInv, ToldInv
    <2>5. QuietDown'  BY <1>1, <1>2 DEF QuietDown
    <2> QED  BY <1>4, <1>5, <2>1, <2>2, <2>4, <2>5 DEF IInv
<1>8. CASE /\ AdminFits /\ phase' = "up" /\ life' = Write(life, {Admin})
           /\ file' = (IF store = "json" THEN Json!Image(life') ELSE file)
           /\ torn' = FALSE
           /\ back' = IF life[Admin] = "gone" THEN back \cup {Admin} ELSE back
    <2>1. \A r \in Rows : life'[r] = IF r = Admin THEN "there" ELSE life[r]
        BY <1>8 DEF Write
    <2>2. life' \in [Rows -> Life]  BY <1>2, <1>8 DEF Write, Life
    <2>3. store = "json" => file' = There'  BY <1>1, <1>8 DEF There, Visible
    <2>4. There' = {r \in Rows : life'[r] = "there"
                                 /\ (store = "json" /\ r \in Items => life'[Combo] = "there")}
        BY <1>1, <1>8, VisibleRows DEF There, Visible, Json!Image, Json!Rows, Json!Found,
           Found, Rows
    <2>5. There \subseteq There'  BY <1>6, <2>1, <2>4, RowKinds, VisibleRows DEF There
    <2>6. store # "json" => file = {} /\ file' = {}  BY <1>8 DEF IInv, TypeOK
    <2>7. TypeOK'
        BY <1>1, <1>6, <1>8, <2>2, <2>3, <2>4, <2>6 DEF IInv, TypeOK
    <2>8. ProviderFirst'  BY <1>6, <2>1, RowKinds DEF IInv, ProviderFirst
    <2>9. OrphansExcused' /\ ItemsCovered'
        BY <1>1, <1>6, <2>1, RowKinds DEF IInv, OrphansExcused, ItemsCovered, Found
    <2>10. FileInv'
        <3>1. CASE store # "json"
            BY <1>8, <2>6, <3>1 DEF FileInv
        <3>2. CASE store = "json"
            <4>1. ASSUME Provider \notin file', NEW m \in Models, m \in file'
                  PROVE  m \in excused
                <5>1. life[m] = "there" /\ life[Provider] # "there"
                    BY <1>6, <2>1, <2>3, <2>4, <3>2, <4>1, RowKinds, RowsAssumption
                <5>2. life[Provider] # "unused"  BY <5>1 DEF IInv, ProviderFirst
                <5> QED  BY <1>2, <5>1, <5>2, RowKinds DEF Life, IInv, OrphansExcused, Found
            <4>2. \A r \in file' : life'[r] # "unused"  BY <2>3, <2>4, <3>2
            <4>3. file' \cap Items # {} => Combo \in file'
                BY <2>3, <2>4, <3>2, RowKinds
            <4> QED  BY <1>1, <1>8, <4>1, <4>2, <4>3 DEF FileInv
        <3> QED  BY <3>1, <3>2
    <2>11. store # "json" => back' = {}
        BY <1>2, <1>8 DEF IInv, ToldInv, AdminFits, Lite!AdminFits, Pg!AdminFits
    <2>12. ASSUME NEW r \in Rows, told[r] = "created", r \notin lost
           PROVE  r \in There' /\ (store = "json" => r \in file')
        BY <1>1, <2>3, <2>5, <2>12 DEF IInv, ToldInv
    <2>13. ASSUME NEW r \in Rows, told[r] = "deleted", r \notin back'
           PROVE  life'[r] = "gone" /\ r \notin file'
        <3>1. life[r] = "gone"  BY <1>8, <2>13 DEF IInv, ToldInv
        <3>2. r # Admin  BY <1>8, <2>13, <3>1
        <3> QED  BY <2>1, <2>3, <2>4, <2>6, <3>1, <3>2
    <2>14. ToldInv'  BY <1>1, <2>11, <2>12, <2>13 DEF IInv, ToldInv
    <2>15. QuietDown'  BY <1>8 DEF QuietDown
    <2> QED  BY <1>4, <1>5, <2>7, <2>8, <2>9, <2>10, <2>14, <2>15 DEF IInv
<1> QED  BY <1>7, <1>8 DEF BootstrapAdmin

LEMMA NextKeeps == ASSUME IInv, [Next]_vars PROVE IInv'
<1>1. CASE Open \/ BootstrapAdmin \/ OtherSave \/ Crash \/ Stop
    BY <1>1, OpenKeeps, BootstrapKeeps, OtherSaveKeeps, EndsKeep
<1>2. ASSUME NEW c \in Calls, Handle(c) PROVE IInv'
    BY <1>2, ProviderHandlersKeep, ModelHandlersKeep, ComboHandlersKeep, ItemHandlersKeep,
       ReadsKeep DEF Handle
<1>3. ASSUME NEW c \in Calls, Advance(c) PROVE IInv'
    BY <1>3, ListsKeep, StatementsKeep, FindNilMapKeeps, SaveKeeps, FailuresKeep,
       ReadsKeep DEF Advance
<1>4. ASSUME NEW c \in Calls, Break(c) PROVE IInv'
    BY <1>4, FailuresKeep, ReadsKeep DEF Break
<1>5. CASE UNCHANGED vars
    <2>1. /\ UNCHANGED <<store, work, phase, schema, starts, made, torn, life, file, conn, call>>
          /\ UNCHANGED <<told, lost, back, excused>>
        BY <1>5 DEF vars, process, history
    <2>2. There' = There  BY <2>1 DEF There, Visible
    <2>3. CallsInv' = CallsInv
        BY <2>1, <2>2 DEF CallsInv, Planned, Fits, Founded, Written, Pending, Cleared,
           ClearedOf, Unexcused, Found, Stored, StoredIn, Unsaved
    <2>4. TypeOK' /\ InsertsApart' /\ ProviderFirst' /\ OrphansExcused' /\ ItemsCovered'
        BY <2>1 DEF IInv, TypeOK, InsertsApart, ProviderFirst, OrphansExcused, ItemsCovered,
           Pending, Found
    <2>5. FileInv' /\ ToldInv' /\ QuietDown'
        BY <2>1, <2>2 DEF IInv, FileInv, ToldInv, QuietDown
    <2> QED  BY <2>3, <2>4, <2>5 DEF IInv
<1> QED  BY <1>1, <1>2, <1>3, <1>4, <1>5 DEF Next
-----------------------------------------------------------------------------
(* The properties.                                                         *)

LEMMA AlwaysIInv == Spec => []IInv
BY InitHolds, NextKeeps, PTL DEF Spec

\* Rows, calls, histories, the file and the connection have their types.
THEOREM TypeCorrect == Spec => []TypeOK
<1>1. IInv => TypeOK  BY DEF IInv
<1> QED  BY <1>1, AlwaysIInv, PTL

\* A row whose creation was answered stays until somebody deletes it, through crashes
\* and restarts, but for the named losses of the JSON store.
THEOREM CreationsStay == Spec => []CreationsKept
<1>1. IInv => CreationsKept  BY DEF IInv, ToldInv, CreationsKept
<1> QED  BY <1>1, AlwaysIInv, PTL

\* A row whose deletion was answered stays away, but where the JSON store writes back
\* what an Update had read.
THEOREM DeletionsStay == Spec => []DeletionsKept
<1>1. IInv => DeletionsKept
    BY VisibleRows DEF IInv, ToldInv, DeletionsKept, There
<1> QED  BY <1>1, AlwaysIInv, PTL

\* Every model that outlives its provider has one of the named causes.
THEOREM OrphansHaveCauses == Spec => []OrphansExcused
<1>1. IInv => OrphansExcused  BY DEF IInv
<1> QED  BY <1>1, AlwaysIInv, PTL

\* Items outlive their combo where references are not enforced, and nowhere else.
THEOREM StraysStayOnSqlite == Spec => []StraysOnlyOnSqlite
<1>1. IInv => StraysOnlyOnSqlite
    BY VisibleRows DEF IInv, TypeOK, ItemsCovered, StraysOnlyOnSqlite, There, Found
<1> QED  BY <1>1, AlwaysIInv, PTL

\* Execute panics only on a combo that was deleted after it was found.
THEOREM PanicsNeedDeletes == Spec => []PanicNeedsDelete
<1>1. IInv => PanicNeedsDelete  BY DEF IInv, CallsInv, Founded, PanicNeedsDelete
<1> QED  BY <1>1, AlwaysIInv, PTL
=============================================================================
