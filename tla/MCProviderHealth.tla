-------------------------- MODULE MCProviderHealth --------------------------
(* Small instances of ProviderHealth for TLC.                              *)
EXTENDS ProviderHealth

CONSTANTS p1, p2

ComboBoth == <<p1, p2>>
ComboOne == <<p1>>
ComboNone == <<>>
=============================================================================
