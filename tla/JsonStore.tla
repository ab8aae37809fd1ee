----------------------------- MODULE JsonStore -----------------------------
(***************************************************************************)
(* The repositories of the JSON driver in dbmanager.go over the rows of    *)
(* CatalogRows.  The rows live in maps in memory; each repository call     *)
(* that changes a map rewrites the whole file afterwards.  Update puts the *)
(* caller's row into the map, deleted meanwhile or not.  Items are a slice *)
(* inside their combo: the life of an item is its life in that slice, and  *)
(* an item of a combo that is gone cannot be reached.                      *)
(***************************************************************************)
EXTENDS CatalogRows

Tables == {{Provider}, Models, {Combo}}

\* What the maps hold, and so what save writes.
Image(life) ==
    {r \in Rows : Found(life, r) /\ (r \in Items => Found(life, Combo))}

\* A map without rows is left out of the file, and is nil when it is read back.
MadeBy(image) == {t \in Tables : t \cap image # {}}

\* The map a Create finds nil and makes; the other calls make none.
TableOf(s) ==
    CASE s.do = "ProviderCreate" -> {{Provider}}
      [] s.do = "ModelCreate" -> {Models}
      [] s.do = "ComboCreate" -> {{Combo}}
      [] OTHER -> {}

ProviderFound(life) == Found(life, Provider)
ProviderCreate(life, on) == Write(life, on)
ProviderUpdate(life, on) == Write(life, on)
ProviderDelete(life, on) == Erase(life, on)

ModelFound(life, m) == Found(life, m)
ModelsOf(life) == {m \in Models : Found(life, m)}
ModelCreate(life, on) == Write(life, on)
ModelUpdate(life, on) == Write(life, on)
ModelDelete(life, on) == Erase(life, on)

\* The combo itself, not a copy: its slice goes away and comes back with it.
ComboFound(life) == Found(life, Combo)
ComboCreate(life, on) == Write(life, on)
ComboUpdate(life, on) == Write(life, on)
ComboDeletion == {Strict(1, "ComboDelete", {Combo})}
ComboDelete(life, on) == Erase(life, on)

ItemFits(life) == Found(life, Combo)
ItemAdd(life, on) == Write(life, on)

\* RemoveItem looks through the combos; an item it does not meet changes nothing, and
\* nothing is saved.
ItemMet(life, on) == Found(life, Combo) /\ \A i \in on : Found(life, i)
ItemRemove(life, on) == IF ItemMet(life, on) THEN Erase(life, on) ELSE life

\* The slice becomes the listed items: those that were not listed are dropped.
Reordering(list) == {Strict(1, "ItemsReorder", list)}
ReorderFits(life, on) == Found(life, Combo) /\ \A i \in on : Found(life, i)
ItemsReorder(life, on) == Erase(life, Items \ on)

\* Create puts the administrator into the map over whatever was there.
AdminFound(life) == Found(life, Admin)
UserDelete(life, on) == Erase(life, on)

AdminFits(life) == TRUE

\* Errors a repository finds before it changes anything.
Accepts(life, s) ==
    /\ s.do = "ItemAdd" => ItemFits(life)
    /\ s.do = "ItemsReorder" => ReorderFits(life, s.on)

Saves(life, s) == s.do = "ItemRemove" => ItemMet(life, s.on)

\* What a statement makes of the rows.
After(life, s) ==
    CASE s.do = "ProviderCreate" -> ProviderCreate(life, s.on)
      [] s.do = "ProviderUpdate" -> ProviderUpdate(life, s.on)
      [] s.do = "ProviderDelete" -> ProviderDelete(life, s.on)
      [] s.do = "ModelCreate" -> ModelCreate(life, s.on)
      [] s.do = "ModelUpdate" -> ModelUpdate(life, s.on)
      [] s.do = "ModelDelete" -> ModelDelete(life, s.on)
      [] s.do = "ComboCreate" -> ComboCreate(life, s.on)
      [] s.do = "ComboUpdate" -> ComboUpdate(life, s.on)
      [] s.do = "ComboDelete" -> ComboDelete(life, s.on)
      [] s.do = "ItemAdd" -> ItemAdd(life, s.on)
      [] s.do = "ItemRemove" -> ItemRemove(life, s.on)
      [] s.do = "ItemsReorder" -> ItemsReorder(life, s.on)
      [] s.do = "UserDelete" -> UserDelete(life, s.on)
=============================================================================
