---------------------------- MODULE MCObjectSearch ----------------------------
(* Small instances of ObjectSearch for TLC.                                *)
EXTENDS ObjectSearch

\* Signers are interchangeable: no action or invariant names one.
SearchSymmetry == Permutations(Signers)
=============================================================================
