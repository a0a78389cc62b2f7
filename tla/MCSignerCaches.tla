---------------------------- MODULE MCSignerCaches ----------------------------
(* Small instances of SignerCaches for TLC.                                *)
EXTENDS SignerCaches, TLC

\* Threads are interchangeable: no action or invariant names one.
ThreadSymmetry == Permutations(Threads)
=============================================================================
