---------------------------- MODULE SqliteStore ----------------------------
(***************************************************************************)
(* The repositories of sqlite.go over the rows of CatalogRows.  The pool   *)
(* has one connection.  Foreign keys are declared and never switched on:   *)
(* nothing cascades, and an item may name a combo that is not there.  An   *)
(* UPDATE of a row that is not there changes nothing and is no error.      *)
(***************************************************************************)
EXTENDS CatalogRows

\* The table has had the column tier since CREATE TABLE got it, and the last statement
\* of the migration adds it: the one transaction commits only on a database whose table
\* is older than that.
Migrates(schema) == schema = "old"

ProviderFound(life) == Found(life, Provider)
ProviderCreate(life, on) == Write(life, on)

\* Mutant: INSERT OR REPLACE in place of UPDATE.
ProviderUpsert(life, on) == Write(life, on)

ProviderUpdate(life, on) == life
ProviderDelete(life, on) == Erase(life, on)

ModelFound(life, m) == Found(life, m)
ModelsOf(life) == {m \in Models : Found(life, m)}
ModelCreate(life, on) == Write(life, on)
ModelUpdate(life, on) == life
ModelDelete(life, on) == Erase(life, on)

\* FindByID closes the row before it loads the items.
ComboFound(life) == Found(life, Combo)
ComboCreate(life, on) == Write(life, on)
ComboUpdate(life, on) == life
ComboDeletion == {Strict(1, "ItemsClear", Items), Strict(2, "ComboDelete", {Combo})}
ItemsClear(life, on) == Erase(life, on)
ComboDelete(life, on) == Erase(life, on)

\* List, ListEnabled and FindByUser keep their rows open, and with them the
\* connection, while they load the items of each combo.
ListScans(life) == Found(life, Combo)

ItemAdd(life, on) == Write(life, on)
ItemRemove(life, on) == Erase(life, on)
Reordering(list) == {Strict(1, "ItemsReorder", {i}) : i \in list}
ItemsReorder(life, on) == life

\* FindByEmail does not see a deleted user; the id does.
AdminFound(life) == Found(life, Admin)
UserDelete(life, on) == Erase(life, on)
AdminFits(life) == life[Admin] = "unused"

\* The foreign keys of the tables are not enforced.
Accepts(life, s) == TRUE

\* What a statement makes of the rows.
After(life, s) ==
    CASE s.do = "ProviderCreate" -> ProviderCreate(life, s.on)
      [] s.do = "ProviderUpdate" -> ProviderUpdate(life, s.on)
      [] s.do = "ProviderDelete" -> ProviderDelete(life, s.on)
      [] s.do = "ModelCreate" -> ModelCreate(life, s.on)
      [] s.do = "ModelUpdate" -> ModelUpdate(life, s.on)
      [] s.do = "ModelDelete" -> ModelDelete(life, s.on)
      [] s.do = "ComboCreate" -> ComboCreate(life, s.on)
      [] s.do = "ComboUpdate" -> ComboUpdate(life, s.on)
      [] s.do = "ComboDelete" -> ComboDelete(life, s.on)
      [] s.do = "ItemsClear" -> ItemsClear(life, s.on)
      [] s.do = "ItemAdd" -> ItemAdd(life, s.on)
      [] s.do = "ItemRemove" -> ItemRemove(life, s.on)
      [] s.do = "ItemsReorder" -> ItemsReorder(life, s.on)
      [] s.do = "UserDelete" -> UserDelete(life, s.on)
=============================================================================
