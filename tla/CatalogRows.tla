---------------------------- MODULE CatalogRows ----------------------------
(***************************************************************************)
(* The rows an administrator and a user edit: a provider and its models, a *)
(* combo and its items, the bootstrap administrator's user.  Of a row only *)
(* its life is kept: ids are UUIDs, so a row is unused, then there, and    *)
(* once gone its id is not given again.  The columns, and the order of the *)
(* items of a combo, change no decision modelled here.                     *)
(*                                                                         *)
(* A statement is one call of a repository: what it does, the rows it does *)
(* it to, the turn it takes within its handler, and whether the handler    *)
(* looks at its error (strict) or drops it.                                *)
(***************************************************************************)
EXTENDS Integers

CONSTANTS
    Provider, Models,   \* a connection and the models that carry its id
    Combo, Items,       \* a combo and the items that carry its id
    Admin               \* the user "bootstrap-admin"

Rows == {Provider, Combo, Admin} \cup Models \cup Items

ASSUME RowsAssumption ==
    /\ Provider # Combo /\ Provider # Admin /\ Combo # Admin
    /\ {Provider, Combo, Admin} \cap (Models \cup Items) = {}
    /\ Models \cap Items = {}

Life == {"unused", "there", "gone"}

Deeds == {"ProviderCreate", "ProviderUpdate", "ProviderDelete",
          "ModelCreate", "ModelUpdate", "ModelDelete",
          "ComboCreate", "ComboUpdate", "ComboDelete",
          "ItemAdd", "ItemRemove", "ItemsClear", "ItemsReorder", "UserDelete"}

Statement == [turn : {1, 2}, do : Deeds, on : SUBSET Rows, strict : BOOLEAN]

Strict(turn, do, on) == [turn |-> turn, do |-> do, on |-> on, strict |-> TRUE]
Lenient(turn, do, on) == [turn |-> turn, do |-> do, on |-> on, strict |-> FALSE]

Found(life, r) == life[r] = "there"

Write(life, on) == [r \in Rows |-> IF r \in on THEN "there" ELSE life[r]]

Erase(life, on) == [r \in Rows |-> IF r \in on /\ life[r] = "there" THEN "gone" ELSE life[r]]
=============================================================================
