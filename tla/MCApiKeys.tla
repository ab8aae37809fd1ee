------------------------------ MODULE MCApiKeys ------------------------------
(* Small instances of ApiKeys for TLC.                                     *)
EXTENDS ApiKeys, TLC

\* Ids, calls and administrators are interchangeable.
KeySymmetry == Permutations(Keys) \cup Permutations(Calls) \cup Permutations(Admins)
=============================================================================
