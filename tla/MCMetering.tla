------------------------------ MODULE MCMetering ------------------------------
(* A small instance of Metering for TLC.                                   *)
EXTENDS Metering, TLC

\* Calls are interchangeable.
RequestSymmetry == Permutations(Requests)
=============================================================================
