--------------------------- MODULE MCPkcs11Signing ---------------------------
(* Small instances of Pkcs11Signing for TLC.                               *)
EXTENDS Pkcs11Signing, TLC

MCSlots == {0}
MCMechs == {1}
MCTwoMechs == {1, 2}
MCBufLens == {1, 2}      \* one byte short of a signature, and long enough
MCSigLen == 2

\* Threads are interchangeable: no action or invariant names one.
ThreadSymmetry == Permutations(Threads)
=============================================================================
