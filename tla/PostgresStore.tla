--------------------------- MODULE PostgresStore ---------------------------
(***************************************************************************)
(* The repositories of postgres.go over the rows of CatalogRows.  A combo  *)
(* takes its items with it when it is deleted, and an item needs its combo;*)
(* a model is bound to its provider by nothing.  FindByID and the lists    *)
(* read combos without their items.                                        *)
(***************************************************************************)
EXTENDS CatalogRows

\* The block that adds the column tier swallows every error.
Migrates(schema) == TRUE

ProviderFound(life) == Found(life, Provider)
ProviderCreate(life, on) == Write(life, on)
ProviderUpdate(life, on) == life
ProviderDelete(life, on) == Erase(life, on)

ModelFound(life, m) == Found(life, m)
ModelsOf(life) == {m \in Models : Found(life, m)}
ModelCreate(life, on) == Write(life, on)
ModelUpdate(life, on) == life
ModelDelete(life, on) == Erase(life, on)

ComboFound(life) == Found(life, Combo)
ComboCreate(life, on) == Write(life, on)
ComboUpdate(life, on) == life
ComboDeletion == {Strict(1, "ComboDelete", {Combo})}

\* ON DELETE CASCADE
ComboDelete(life, on) == Erase(life, on \cup Items)

\* Mutant: combo_items without the reference.
ItemFitsAnywhere(life) == TRUE

\* REFERENCES combos(id)
ItemFits(life) == Found(life, Combo)
ItemAdd(life, on) == Write(life, on)

ItemRemove(life, on) == Erase(life, on)

\* ReorderItems drops the errors of its statements.
Reordering(list) == {Lenient(1, "ItemsReorder", {i}) : i \in list}
ItemsReorder(life, on) == life

AdminFound(life) == Found(life, Admin)
UserDelete(life, on) == Erase(life, on)
AdminFits(life) == life[Admin] = "unused"

\* Constraints a statement meets.
Accepts(life, s) == s.do = "ItemAdd" => ItemFits(life)

\* What a statement makes of the rows.
After(life, s) ==
    CASE s.do = "ProviderCreate" -> ProviderCreate(life, s.on)
      [] s.do = "ProviderUpdate" -> ProviderUpdate(life, s.on)
      [] s.do = "ProviderDelete" -> ProviderDelete(life, s.on)
      [] s.do = "ModelCreate" -> ModelCreate(life, s.on)
      [] s.do = "ModelUpdate" -> ModelUpdate(life, s.on)
      [] s.do = "ModelDelete" -> ModelDelete(life, s.on)
      [] s.do = "ComboCreate" -> ComboCreate(life, s.on)
      [] s.do = "ComboUpdate" -> ComboUpdate(life, s.on)
      [] s.do = "ComboDelete" -> ComboDelete(life, s.on)
      [] s.do = "ItemAdd" -> ItemAdd(life, s.on)
      [] s.do = "ItemRemove" -> ItemRemove(life, s.on)
      [] s.do = "ItemsReorder" -> ItemsReorder(life, s.on)
      [] s.do = "UserDelete" -> UserDelete(life, s.on)
=============================================================================
