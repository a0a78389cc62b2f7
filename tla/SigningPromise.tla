---------------------------- MODULE SigningPromise ----------------------------
(***************************************************************************)
(* What the signing functions promise a caller about one C_SignInit        *)
(* operation, with sessions, handles, threads and retries left out: the    *)
(* remote service signs for an operation at most once, and the caller is   *)
(* handed a signature at most once, only after the service made one FOR    *)
(* THAT operation.  Pkcs11Signing is shown to implement this.              *)
(***************************************************************************)
EXTENDS Naturals

CONSTANT MaxOps     \* bound: operations ever begun

VARIABLES
    begun,      \* how many operations C_SignInit has started
    issued,     \* per operation: signatures made by the remote service
    answered    \* per operation: signatures handed to the caller

promiseVars == <<begun, issued, answered>>

Ops == 1..MaxOps

Init ==
    /\ begun = 0
    /\ issued = [o \in Ops |-> 0]
    /\ answered = [o \in Ops |-> 0]

Begin ==
    /\ begun < MaxOps
    /\ begun' = begun + 1
    /\ UNCHANGED <<issued, answered>>

Issue(o) ==
    /\ o <= begun
    /\ issued[o] = 0
    /\ issued' = [issued EXCEPT ![o] = 1]
    /\ UNCHANGED <<begun, answered>>

Answer(o) ==
    /\ issued[o] = 1
    /\ answered[o] = 0
    /\ answered' = [answered EXCEPT ![o] = 1]
    /\ UNCHANGED <<begun, issued>>

Next == Begin \/ \E o \in Ops : Issue(o) \/ Answer(o)

Spec == Init /\ [][Next]_promiseVars
=============================================================================
