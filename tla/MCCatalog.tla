------------------------------ MODULE MCCatalog ------------------------------
(* A small instance of Catalog for TLC.                                    *)
EXTENDS Catalog, TLC

\* Calls, models and items are interchangeable.
CatalogSymmetry == Permutations(Calls) \cup Permutations(Models) \cup Permutations(Items)
=============================================================================
