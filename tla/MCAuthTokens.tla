---------------------------- MODULE MCAuthTokens ----------------------------
(* Small instances of AuthTokens for TLC.                                  *)
EXTENDS AuthTokens, TLC

\* Threads are interchangeable: no action or invariant names one.
ThreadSymmetry == Permutations(Threads)
=============================================================================
