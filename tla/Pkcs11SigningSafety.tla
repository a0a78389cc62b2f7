------------------------- MODULE Pkcs11SigningSafety -------------------------
(***************************************************************************)
(* At most one remote signature per operation, for every value of the      *)
(* constants of Pkcs11Signing and whatever callers do after                *)
(* CKR_BUFFER_TOO_SMALL.                                                   *)
(***************************************************************************)
EXTENDS Pkcs11SigningProofs

\* Structs are on different operations; signatures only for begun operations.
OpInv ==
    /\ \A x, y \in Objs : current[x] # 0 /\ current[x] = current[y] => x = y
    /\ \A x \in Objs : current[x] <= nOps
    /\ \A o \in Ops : issued[o] # 0 => o <= nOps
    /\ \A o \in Ops : issued[o] <= 1

\* A signing call in progress has its session's operation to itself: nothing
\* is cached and nothing has been signed before the request is answered.
SignCallOK(t) ==
    InSign(t) =>
        /\ call[t].op = current[call[t].obj] /\ call[t].op \in Ops
        /\ call[t].pc # "copy" => /\ heap[call[t].obj].signActive
                                  /\ heap[call[t].obj].cachedSignature = NoSig
        /\ call[t].pc = "sending" => issued[call[t].op] = 0
        /\ call[t].pc # "sending" => call[t].sig # NoSig

OneCallPerSession ==
    \A t, u \in Threads :
        InSign(t) /\ InSign(u) /\ call[t].obj = call[u].obj => t = u

\* An open session whose operation could be sent again has not been signed for,
\* unless the call that got the signature is still holding it.
Resendable(x) == heap[x].signActive /\ heap[x].cachedSignature = NoSig
Held(x) == \E t \in Threads : call[t].pc \in {"signed", "copy"} /\ call[t].obj = x

ResendInv ==
    \A h \in Handles :
        /\ sessions[h] # 0
        /\ Resendable(sessions[h])
        /\ issued[current[sessions[h]]] # 0
        => Held(sessions[h])

SignInv ==
    /\ OpInv
    /\ \A t \in Threads : SignCallOK(t)
    /\ OneCallPerSession
    /\ ResendInv

IInv == TypeInv /\ SignInv

-----------------------------------------------------------------------------
\* A step that is not part of a signing function: it may close sessions, open
\* one without an operation, change login flags and move other calls.
FrameStep ==
    /\ UNCHANGED <<nOps, current, issued>>
    /\ \A t \in Threads : InSign(t)' <=> InSign(t)
    /\ \A t \in Threads : InSign(t) => call'[t] = call[t]
    /\ \A t \in Threads : InSign(t) =>
         /\ heap'[call[t].obj].signActive = heap[call[t].obj].signActive
         /\ heap'[call[t].obj].cachedSignature = heap[call[t].obj].cachedSignature
    /\ \A h \in Handles : sessions'[h] # 0 =>
         \/ ~heap'[sessions'[h]].signActive
         \/ /\ sessions'[h] = sessions[h]
            /\ heap'[sessions[h]].signActive = heap[sessions[h]].signActive
            /\ heap'[sessions[h]].cachedSignature = heap[sessions[h]].cachedSignature

\* A step outside the signing calls preserves what they rely on.
LEMMA FramePreserves == ASSUME IInv, FrameStep PROVE SignInv'
<1> USE DEF IInv, SignInv
<1>1. OpInv'
  BY DEF OpInv, FrameStep
<1>2. ASSUME NEW t \in Threads PROVE SignCallOK(t)'
  BY DEF SignCallOK, FrameStep
<1>3. OneCallPerSession'
  BY DEF OneCallPerSession, FrameStep
<1>4. ResendInv'
  <2> SUFFICES ASSUME NEW h \in Handles,
                      sessions'[h] # 0,
                      Resendable(sessions[h])',
                      issued'[current'[sessions'[h]]] # 0
               PROVE  Held(sessions[h])'
    BY DEF ResendInv
  <2>1. /\ sessions'[h] = sessions[h]
        /\ Resendable(sessions[h])
        /\ issued[current[sessions[h]]] # 0
    BY DEF FrameStep, Resendable
  <2>2. PICK t \in Threads :
            call[t].pc \in {"signed", "copy"} /\ call[t].obj = sessions[h]
    BY <2>1 DEF ResendInv, Held
  <2>3. call'[t] = call[t]
    BY <2>2 DEF FrameStep, InSign
  <2> QED
    BY <2>1, <2>2, <2>3 DEF Held
<1> QED
  BY <1>1, <1>2, <1>3, <1>4

\* No operation has begun: the invariant holds initially.
LEMMA InitSignInv == Init => SignInv
<1> SUFFICES ASSUME Init PROVE SignInv
  OBVIOUS
<1>1. \A t \in Threads : ~InSign(t)
  BY RecordTypes DEF Init, InSign
<1>2. OpInv
  BY SigningAssumption DEF Init, OpInv
<1>3. ResendInv
  BY DEF Init, ResendInv
<1> QED
  BY <1>1, <1>2, <1>3 DEF SignInv, SignCallOK, OneCallPerSession

\* A call in progress has a struct; a session of the table has one.
LEMMA InSignFacts ==
    ASSUME IInv, NEW t \in Threads, InSign(t)
    PROVE  /\ call[t].obj \in Objs /\ call[t].h \in Handles
           /\ call[t].sig \in Sigs
           /\ sessions[call[t].h] \in {0, call[t].obj}
           /\ \A h \in Handles : sessions[h] = call[t].obj => h = call[t].h
           /\ call[t].op = current[call[t].obj] /\ call[t].op \in Ops
           /\ \A u \in Threads : u # t /\ InSign(u) => call[u].obj # call[t].obj
<1>1. call[t] # NoCall
  BY RecordTypes DEF InSign
<1>2. CallOK(t) /\ SignCallOK(t) /\ call[t] \in Calls
  BY DEF IInv, TypeInv, CallInv, SignInv, TypeOK
<1> QED
  BY <1>1, <1>2 DEF CallOK, SignCallOK, Calls, IInv, SignInv, OneCallPerSession

\* A handle in the session table leads to a session that was allocated.
LEMMA TableObjs ==
    ASSUME IInv, NEW h \in Handles, sessions[h] # 0 PROVE sessions[h] \in Objs
  BY SigningAssumption DEF IInv, TypeInv, TypeOK, Handles, Objs

\* C_SignFinal signs what C_SignUpdate has gathered, which is a length.
LEMMA FinalArgs ==
    ASSUME TypeInv, NEW t \in Threads, NEW h \in Handles, NEW buf \in Nat,
           C_SignFinal(t, h, buf)
    PROVE  /\ sessions[h] \in Objs
           /\ current[sessions[h]] \in Ops
           /\ heap[sessions[h]].signBuffer \in Nat
           /\ asked[current[sessions[h]]].fed \in Nat
<1>1. sessions[h] \in Objs
  BY SigningAssumption DEF C_SignFinal, TypeInv, TypeOK, Handles, Objs
<1>2. current[sessions[h]] \in Ops
  BY <1>1 DEF C_SignFinal, TypeInv, ActiveInv
<1>3. heap[sessions[h]].signBuffer \in Nat
  BY <1>1, SigningAssumption DEF TypeInv, TypeOK, SessionRecs
<1>4. asked[current[sessions[h]]].fed \in Nat
  BY <1>2 DEF TypeInv, TypeOK
<1> QED
  BY <1>1, <1>2, <1>3, <1>4

\* Every action preserves the invariant, one step per action.
LEMMA StepSignInv == IInv /\ [Next]_vars => SignInv'
<1> SUFFICES ASSUME IInv, [Next]_vars PROVE SignInv'
  OBVIOUS
<1>a. NoCall.pc = "idle" /\ call \in [Threads -> Calls] /\ heap \in [Objs -> SessionRecs]
  BY RecordTypes DEF IInv, TypeInv, TypeOK
<1>b. \A t \in Threads : InSign(t) => call[t].obj \in Objs /\ call[t].obj <= allocs
  BY RecordTypes DEF IInv, TypeInv, CallInv, CallOK, InSign
<1>1. ASSUME NEW t \in Threads, C_Initialize(t) PROVE SignInv'
  <2>1. FrameStep
    BY <1>1 DEF C_Initialize, history, FrameStep, InSign
  <2> QED
    BY <2>1, FramePreserves
<1>2. ASSUME NEW t \in Threads, C_Finalize(t) PROVE SignInv'
  <2>1. FrameStep
    BY <1>2 DEF C_Finalize, history, FrameStep, InSign
  <2> QED
    BY <2>1, FramePreserves
<1>3. ASSUME NEW t \in Threads, NEW s \in Slots, C_OpenSession(t, s) PROVE SignInv'
  <2>1. /\ allocs \in Nat /\ allocs + 1 \in Objs /\ nextID \in Handles
        /\ sessions \in [Handles -> 0..MaxSessions]
    BY <1>3, SigningAssumption
       DEF C_OpenSession, IInv, TypeInv, TypeOK, TableInv, Handles, Objs
  <2>2. heap'[allocs + 1] = NewSession(s) /\ ~NewSession(s).signActive
    BY <1>3, <1>a, <2>1, RecordTypes DEF C_OpenSession
  <2>3. \A x \in Objs : x # allocs + 1 => heap'[x] = heap[x]
    BY <1>3, <1>a DEF C_OpenSession
  <2>4. \A u \in Threads : InSign(u) => u # t /\ call[u].obj # allocs + 1
    BY <1>3, <1>a, <1>b, <2>1 DEF C_OpenSession, Enters, Outside, InSign, Objs
  <2>5. \A u \in Threads : u # t => call'[u] = call[u]
    BY <1>3, <1>a DEF C_OpenSession
  <2>6. ~InSign(t)'
    BY <1>3, <1>a DEF C_OpenSession, InSign, SessionCall
  <2>7. /\ sessions'[nextID] = allocs + 1
        /\ \A h \in Handles : h # nextID => sessions'[h] = sessions[h]
        /\ \A h \in Handles : sessions[h] # allocs + 1
        /\ \A h \in Handles : sessions[h] # 0 => sessions[h] \in Objs
    BY <1>3, <2>1, TableObjs DEF C_OpenSession, IInv, TypeInv, TableInv, Handles
  <2>8. \A h \in Handles : sessions'[h] # 0 =>
            \/ ~heap'[sessions'[h]].signActive
            \/ /\ sessions'[h] = sessions[h]
               /\ heap'[sessions[h]] = heap[sessions[h]]
    BY <2>1, <2>2, <2>3, <2>7
  <2>9. FrameStep
    BY <1>3, <1>b, <2>3, <2>4, <2>5, <2>6, <2>8
       DEF C_OpenSession, history, FrameStep, InSign
  <2> QED
    BY <2>9, FramePreserves
<1>4. ASSUME NEW t \in Threads, NEW S, NEW v \in BOOLEAN, SetLoggedIn(S, v),
             call[t].pc \notin {"sending", "signed", "copy"},
             \/ UNCHANGED call
             \/ \E c : /\ call' = [call EXCEPT ![t] = c]
                       /\ c.pc \notin {"sending", "signed", "copy"},
             UNCHANGED <<sessions, history>>
      PROVE SignInv'
  <2>1. \A x \in Objs : /\ heap'[x].signActive = heap[x].signActive
                        /\ heap'[x].cachedSignature = heap[x].cachedSignature
    BY <1>4, SetLoggedInType DEF IInv, TypeInv
  <2>2. \A u \in Threads : u # t => call'[u] = call[u]
    BY <1>4, <1>a
  <2>3. ~InSign(t) /\ ~InSign(t)'
    BY <1>4, <1>a DEF InSign
  <2>4. FrameStep
    BY <1>4, <1>b, <2>1, <2>2, <2>3, TableObjs DEF history, FrameStep, InSign
  <2> QED
    BY <2>4, FramePreserves
<1>5. ASSUME NEW t \in Threads, NEW a \in BOOLEAN, OpenSessionLogin(t, a)
      PROVE SignInv'
  BY <1>4, <1>5, <1>a DEF OpenSessionLogin, Return
<1>6. ASSUME NEW t \in Threads, LoginSession(t) PROVE SignInv'
  <2>1. [call[t] EXCEPT !.pc = "loginAll"].pc = "loginAll"
    BY <1>a DEF Calls
  <2> QED
    BY <1>4, <1>6, <2>1 DEF LoginSession
<1>7. ASSUME NEW t \in Threads, LoginSlot(t) PROVE SignInv'
  BY <1>4, <1>7, <1>a DEF LoginSlot, Return
<1>8. ASSUME NEW t \in Threads, NEW h \in Handles, C_Logout(t, h) PROVE SignInv'
  BY <1>4, <1>8, <1>a DEF C_Logout, Enters, Outside
<1>9. ASSUME NEW t \in Threads, NEW h \in Handles,
             C_CloseSession(t, h) \/ C_Login(t, h)
      PROVE SignInv'
  <2>1. ~InSign(t) /\ ~InSign(t)' /\ \A u \in Threads : u # t => call'[u] = call[u]
    BY <1>9, <1>a DEF C_CloseSession, C_Login, Enters, Outside, InSign, SessionCall
  <2>2. UNCHANGED <<heap, history>>
    BY <1>9 DEF C_CloseSession, C_Login
  <2>3. \A g \in Handles : sessions'[g] \in {0, sessions[g]}
    BY <1>9 DEF C_CloseSession, C_Login, IInv, TypeInv, TypeOK
  <2>4. FrameStep
    BY <2>1, <2>2, <2>3 DEF history, FrameStep, InSign
  <2> QED
    BY <2>4, FramePreserves
<1>10. ASSUME NEW t \in Threads, NEW s \in Slots, C_CloseAllSessions(t, s)
       PROVE SignInv'
  <2>1. \A g \in Handles : sessions'[g] \in {0, sessions[g]}
    BY <1>10 DEF C_CloseAllSessions
  <2>2. FrameStep
    BY <1>10, <2>1 DEF C_CloseAllSessions, history, FrameStep, InSign
  <2> QED
    BY <2>2, FramePreserves
<1>11. ASSUME NEW t \in Threads, NEW h \in Handles, NEW m \in Mechs,
              NEW k \in Slots, C_SignInit(t, h, m, k)
       PROVE SignInv'
  <2> DEFINE x == sessions[h]
             n == nOps + 1
  <2>1. x \in Objs /\ nOps \in Nat /\ n \in Ops /\ ~InSign(t)
    <3>1. x \in Objs /\ ~InSign(t)
      BY <1>11, <1>a, TableObjs DEF C_SignInit, Enters, Outside, InSign
    <3>2. nOps \in 0..MaxOps /\ nOps < MaxOps
      BY <1>11 DEF C_SignInit, IInv, TypeInv, TypeOK
    <3> QED
      BY <3>1, <3>2, SigningAssumption DEF Ops
  <2>2. /\ \A y \in Objs : y # x => heap'[y] = heap[y] /\ current'[y] = current[y]
        /\ current'[x] = n
        /\ current \in [Objs -> 0..MaxOps]
    BY <1>11, <1>a, <2>1 DEF C_SignInit, IInv, TypeInv, TypeOK
  <2>3. \A u \in Threads : InSign(u) => call[u].obj # x
    BY <1>11, <2>1 DEF C_SignInit, Exclusive
  <2>4. UNCHANGED <<sessions, call, issued>> /\ nOps' = n
    BY <1>11 DEF C_SignInit
  <2>5. issued[n] = 0
    BY <2>1 DEF IInv, SignInv, OpInv, TypeInv, TypeOK, Ops
  <2>6. OpInv'
    <3>1. \A y \in Objs : current[y] <= nOps /\ current[y] \in Nat
      BY <2>2 DEF IInv, SignInv, OpInv
    <3>2. \A y \in Objs : current'[y] <= n
      BY <2>1, <2>2, <3>1
    <3>3. \A y, z \in Objs : current'[y] # 0 /\ current'[y] = current'[z] => y = z
      BY <2>1, <2>2, <3>1 DEF IInv, SignInv, OpInv
    <3>4. \A o \in Ops : issued[o] # 0 => o <= n
      BY <2>1 DEF IInv, SignInv, OpInv, Ops
    <3> QED
      BY <2>4, <3>2, <3>3, <3>4 DEF OpInv, IInv, SignInv
  <2>7. ASSUME NEW u \in Threads PROVE SignCallOK(u)'
    BY <1>b, <2>2, <2>3, <2>4 DEF SignCallOK, InSign, IInv, SignInv
  <2>8. OneCallPerSession'
    BY <2>4 DEF OneCallPerSession, InSign, IInv, SignInv
  <2>9. ResendInv'
    <3> SUFFICES ASSUME NEW g \in Handles, sessions[g] # 0,
                        Resendable(sessions[g])',
                        issued[current'[sessions[g]]] # 0
                 PROVE  Held(sessions[g])'
      BY <2>4 DEF ResendInv
    <3>1. sessions[g] # x /\ sessions[g] \in Objs
      BY <2>2, <2>5, TableObjs
    <3>2. Held(sessions[g])
      BY <2>2, <2>4, <3>1 DEF Resendable, ResendInv, IInv, SignInv
    <3> QED
      BY <2>4, <3>2 DEF Held
  <2> QED
    BY <2>6, <2>7, <2>8, <2>9 DEF SignInv
<1>12. ASSUME NEW t \in Threads, NEW h \in Handles, NEW n \in PartLens,
              C_SignUpdate(t, h, n)
       PROVE SignInv'
  <2>1. sessions[h] \in Objs
    BY <1>12, TableObjs DEF C_SignUpdate
  <2>2. /\ Appended(heap[sessions[h]], n).signActive = heap[sessions[h]].signActive
        /\ Appended(heap[sessions[h]], n).cachedSignature
             = heap[sessions[h]].cachedSignature
    BY <1>a, <2>1 DEF Appended, SessionRecs
  <2>3. \A y \in Objs : /\ heap'[y].signActive = heap[y].signActive
                        /\ heap'[y].cachedSignature = heap[y].cachedSignature
    BY <1>12, <1>a, <2>1, <2>2 DEF C_SignUpdate
  <2>4. FrameStep
    BY <1>12, <1>b, <2>3, TableObjs DEF C_SignUpdate, FrameStep, InSign
  <2> QED
    BY <2>4, FramePreserves
<1>13. ASSUME NEW t \in Threads, NEW h \in Handles, NEW data \in Nat,
              NEW want \in Nat, NEW buf \in Nat, SignCall(t, h, data, want, buf)
       PROVE SignInv'
  <2> DEFINE x == sessions[h]
  <2>1. /\ x \in Objs
        /\ call' = [call EXCEPT ![t] = call'[t]]
        /\ call'[t].obj = x
        /\ call'[t].op = current[x]
        /\ \/ /\ heap[x].cachedSignature # NoSig
              /\ call'[t].pc = "copy"
              /\ call'[t].sig = heap[x].cachedSignature
              /\ clearSignState(x)
           \/ /\ heap[x].cachedSignature = NoSig
              /\ call'[t].pc = "sending"
              /\ UNCHANGED heap
    BY <1>13, SignCallFacts DEF IInv
  <2>2. /\ UNCHANGED <<sessions, nOps, current, issued>>
        /\ heap[x].signActive
        /\ call[t] = NoCall
        /\ Exclusive(t, h)
    BY <1>13 DEF SignCall, Enters, Outside, history
  <2>3. ~InSign(t) /\ \A u \in Threads : InSign(u) => u # t /\ call[u].obj # x
    BY <1>a, <2>2 DEF InSign, Exclusive
  <2>4. \A u \in Threads : u # t => call'[u] = call[u]
    BY <1>a, <2>1
  <2>5. /\ \A y \in Objs : y # x => heap'[y] = heap[y]
        /\ heap' = heap \/ heap'[x].signActive = FALSE
    BY <1>a, <2>1, ClearType, RecordTypes DEF IInv, TypeInv
  <2>6. current[x] \in Ops
    BY <2>1, <2>2 DEF IInv, TypeInv, ActiveInv
  <2>7. OpInv'
    BY <2>2 DEF OpInv, IInv, SignInv
  <2>8. ASSUME NEW u \in Threads PROVE SignCallOK(u)'
    <3>1. CASE u # t
      BY <1>b, <2>2, <2>3, <2>4, <2>5, <3>1 DEF SignCallOK, InSign, IInv, SignInv
    <3>2. CASE u = t /\ call'[t].pc = "copy"
      BY <2>1, <2>2, <2>6, <3>2 DEF SignCallOK
    <3>3. CASE u = t /\ call'[t].pc = "sending"
      <4>1. heap[x].cachedSignature = NoSig /\ UNCHANGED heap
        BY <2>1, <3>3
      <4>2. ~Held(x)
        BY <2>3 DEF Held, InSign
      <4>3. issued[current[x]] = 0
        BY <1>13, <2>2, <4>1, <4>2
           DEF SignCall, IInv, SignInv, ResendInv, Resendable
      <4> QED
        BY <2>1, <2>2, <2>6, <3>3, <4>1, <4>3 DEF SignCallOK
    <3> QED
      BY <2>1, <3>1, <3>2, <3>3
  <2>9. OneCallPerSession'
    BY <2>1, <2>3, <2>4 DEF OneCallPerSession, InSign, IInv, SignInv
  <2>10. ResendInv'
    <3> SUFFICES ASSUME NEW g \in Handles, sessions[g] # 0,
                        Resendable(sessions[g])',
                        issued[current[sessions[g]]] # 0
                 PROVE  Held(sessions[g])'
      BY <2>2 DEF ResendInv
    <3>1. Resendable(sessions[g])
      BY <2>2, <2>5, TableObjs DEF Resendable
    <3>2. PICK u \in Threads :
              call[u].pc \in {"signed", "copy"} /\ call[u].obj = sessions[g]
      BY <3>1 DEF IInv, SignInv, ResendInv, Held
    <3>3. call'[u] = call[u]
      BY <2>3, <2>4, <3>2 DEF InSign
    <3> QED
      BY <2>2, <3>2, <3>3 DEF Held
  <2> QED
    BY <2>7, <2>8, <2>9, <2>10 DEF SignInv
<1>14. ASSUME NEW t \in Threads, NEW h \in Handles, NEW n \in PartLens,
              NEW buf \in BufLens, C_Sign(t, h, n, buf)
       PROVE SignInv'
  BY <1>13, <1>14, SigningAssumption DEF C_Sign
<1>15. ASSUME NEW t \in Threads, NEW h \in Handles, NEW buf \in BufLens,
              C_SignFinal(t, h, buf)
       PROVE SignInv'
  <2>1. /\ heap[sessions[h]].signBuffer \in Nat
        /\ asked[current[sessions[h]]].fed \in Nat
    BY <1>15, SigningAssumption, FinalArgs DEF IInv
  <2> QED
    BY <1>13, <1>15, <2>1, SigningAssumption DEF C_SignFinal
<1>16. ASSUME NEW t \in Threads, InSign(t),
              UNCHANGED <<sessions, heap, nOps, current>>,
              call' = [call EXCEPT ![t] = call'[t]],
              InSign(t)', call'[t].pc # "sending" \/ UNCHANGED issued,
              call'[t].pc = "sending" => call[t].pc = "sending",
              call'[t].pc = "signed" => call[t].pc # "copy",
              call[t].pc \in {"signed", "copy"} => call'[t].pc \in {"signed", "copy"},
              call'[t].obj = call[t].obj, call'[t].op = call[t].op,
              call'[t].pc # "sending" => call'[t].sig # NoSig,
              \/ UNCHANGED issued
              \/ /\ call[t].pc = "sending" /\ call'[t].pc = "signed"
                 /\ issued' = [issued EXCEPT ![call[t].op] = @ + 1]
       PROVE SignInv'
  <2> DEFINE x == call[t].obj
             o == call[t].op
  <2>1. /\ x \in Objs /\ o = current[x] /\ o \in Ops
        /\ \A u \in Threads : u # t /\ InSign(u) => call[u].obj # x
        /\ SignCallOK(t)
        /\ issued \in [Ops -> Nat]
    BY <1>16, InSignFacts DEF IInv, SignInv, TypeInv, TypeOK
  <2>2. \A u \in Threads : u # t => call'[u] = call[u]
    BY <1>16, <1>a
  <2>3. /\ \A p \in Ops : p # o => issued'[p] = issued[p]
        /\ issued'[o] \in {issued[o], 1}
    BY <1>16, <2>1, CountType DEF SignCallOK, InSign
  <2>4. \A y \in Objs : y # x => current[y] # o
    BY <2>1 DEF IInv, SignInv, OpInv, Ops
  <2>5. OpInv'
    <3>1. o <= nOps
      BY <2>1 DEF IInv, SignInv, OpInv
    <3> QED
      BY <1>16, <2>3, <3>1 DEF IInv, SignInv, OpInv
  <2>6. ASSUME NEW u \in Threads PROVE SignCallOK(u)'
    <3>1. CASE u # t
      <4>1. SignCallOK(u) /\ call'[u] = call[u]
        BY <2>2, <3>1 DEF IInv, SignInv
      <4>2. InSign(u) => call[u].op # o /\ call[u].op \in Ops
        BY <1>b, <2>1, <2>4, <3>1, <4>1 DEF SignCallOK
      <4> QED
        BY <1>16, <2>3, <4>1, <4>2 DEF SignCallOK, InSign
    <3>2. CASE u = t
      BY <1>16, <2>1, <3>2 DEF SignCallOK, InSign
    <3> QED
      BY <3>1, <3>2
  <2>7. OneCallPerSession'
    BY <1>16, <2>1, <2>2 DEF OneCallPerSession, InSign, IInv, SignInv
  <2>8. ResendInv'
    <3> SUFFICES ASSUME NEW g \in Handles, sessions[g] # 0,
                        Resendable(sessions[g]),
                        issued'[current[sessions[g]]] # 0
                 PROVE  Held(sessions[g])'
      BY <1>16 DEF ResendInv, Resendable
    <3>1. sessions[g] \in Objs /\ current[sessions[g]] \in Ops
      BY TableObjs DEF Resendable, IInv, TypeInv, ActiveInv
    <3>2. CASE issued[current[sessions[g]]] # 0
      <4>1. PICK u \in Threads :
                call[u].pc \in {"signed", "copy"} /\ call[u].obj = sessions[g]
        BY <3>2 DEF IInv, SignInv, ResendInv, Held
      <4> QED
        BY <1>16, <2>2, <4>1 DEF Held
    <3>3. CASE issued[current[sessions[g]]] = 0
      <4>1. current[sessions[g]] = o /\ issued' # issued
        BY <2>3, <3>1, <3>3
      <4>2. sessions[g] = x /\ call'[t].pc = "signed"
        BY <1>16, <2>4, <3>1, <4>1
      <4> QED
        BY <1>16, <4>2 DEF Held
    <3> QED
      BY <3>2, <3>3
  <2> QED
    BY <2>5, <2>6, <2>7, <2>8 DEF SignInv
<1>17. ASSUME NEW t \in Threads, InSign(t), Return(t),
              UNCHANGED <<sessions, nOps, current, issued>>,
              \A y \in Objs : y # call[t].obj => heap'[y] = heap[y],
              sessions[call[t].h] # 0 =>
                 \/ ~heap'[call[t].obj].signActive
                 \/ heap'[call[t].obj].cachedSignature # NoSig
       PROVE SignInv'
  <2>1. /\ call[t].obj \in Objs /\ call[t].h \in Handles
        /\ \A g \in Handles : sessions[g] = call[t].obj => g = call[t].h
        /\ \A u \in Threads : u # t /\ InSign(u) => call[u].obj # call[t].obj
    BY <1>17, InSignFacts
  <2>2. ~InSign(t)' /\ \A u \in Threads : u # t => call'[u] = call[u]
    BY <1>17, <1>a DEF Return, InSign
  <2>3. OpInv'
    BY <1>17 DEF IInv, SignInv, OpInv
  <2>4. ASSUME NEW u \in Threads PROVE SignCallOK(u)'
    <3>1. CASE u = t
      BY <2>2, <3>1 DEF SignCallOK
    <3>2. CASE u # t
      <4>1. call'[u] = call[u] /\ SignCallOK(u)
        BY <2>2, <3>2 DEF IInv, SignInv
      <4>2. InSign(u) => heap'[call[u].obj] = heap[call[u].obj]
        BY <1>17, <1>b, <2>1, <3>2
      <4> QED
        BY <1>17, <4>1, <4>2 DEF SignCallOK, InSign
    <3> QED
      BY <3>1, <3>2
  <2>5. OneCallPerSession'
    BY <2>2 DEF OneCallPerSession, InSign, IInv, SignInv
  <2>6. ResendInv'
    <3> SUFFICES ASSUME NEW g \in Handles, sessions[g] # 0,
                        Resendable(sessions[g])',
                        issued[current[sessions[g]]] # 0
                 PROVE  Held(sessions[g])'
      BY <1>17 DEF ResendInv
    <3>1. sessions[g] # call[t].obj
      BY <1>17, <2>1 DEF Resendable
    <3>2. Resendable(sessions[g])
      BY <1>17, <3>1, TableObjs DEF Resendable
    <3>3. PICK u \in Threads :
              call[u].pc \in {"signed", "copy"} /\ call[u].obj = sessions[g]
      BY <3>2 DEF IInv, SignInv, ResendInv, Held
    <3> QED
      BY <1>17, <2>2, <3>1, <3>3 DEF Held
  <2> QED
    BY <2>3, <2>4, <2>5, <2>6 DEF SignInv
<1>18. ASSUME NEW t \in Threads, ServiceSigns(t) PROVE SignInv'
  <2> DEFINE x == call[t].obj
             sig == [op |-> call[t].op, key |-> heap[x].signKeyIndex,
                     mech |-> heap[x].signMech, data |-> call[t].data]
             c == [call[t] EXCEPT !.pc = "signed", !.sig = sig]
  <2>1. InSign(t) /\ call[t].op \in Ops
    BY <1>18, InSignFacts DEF ServiceSigns, InSign
  <2>2. sig # NoSig
    BY <2>1 DEF NoSig, Ops
  <2>3. call' = [call EXCEPT ![t] = c]
    BY <1>18 DEF ServiceSigns
  <2>4. c.pc = "signed" /\ c.obj = x /\ c.op = call[t].op /\ c.sig = sig
    BY <1>a DEF Calls
  <2> HIDE DEF c, sig
  <2>5. call'[t] = c
    BY <1>a, <2>3
  <2> QED
    BY <1>16, <1>18, <2>1, <2>2, <2>3, <2>4, <2>5 DEF ServiceSigns, InSign
<1>19. ASSUME NEW t \in Threads, Unauthorized(t) PROVE SignInv'
  <2> DEFINE c == [call[t] EXCEPT !.attempt = 2]
  <2>1. call' = [call EXCEPT ![t] = c] /\ InSign(t)
    BY <1>19 DEF Unauthorized, InSign
  <2>2. c.pc = call[t].pc /\ c.obj = call[t].obj /\ c.op = call[t].op
    BY <1>a DEF Calls
  <2> HIDE DEF c
  <2>3. call'[t] = c
    BY <1>a, <2>1
  <2> QED
    BY <1>16, <1>19, <2>1, <2>2, <2>3 DEF Unauthorized, history, InSign
<1>20. ASSUME NEW t \in Threads, SignReturns(t) PROVE SignInv'
  <2> DEFINE c == [call[t] EXCEPT !.pc = "copy"]
  <2>1. call' = [call EXCEPT ![t] = c] /\ InSign(t) /\ call[t].sig # NoSig
    BY <1>20 DEF SignReturns, InSign, IInv, SignInv, SignCallOK
  <2>2. /\ c.pc = "copy" /\ c.obj = call[t].obj /\ c.op = call[t].op
        /\ c.sig = call[t].sig
    BY <1>a DEF Calls
  <2> HIDE DEF c
  <2>3. call'[t] = c
    BY <1>a, <2>1
  <2> QED
    BY <1>16, <1>20, <2>1, <2>2, <2>3 DEF SignReturns, history, InSign
<1>21. ASSUME NEW t \in Threads, SignFails(t) PROVE SignInv'
  <2>1. InSign(t) /\ call[t].obj \in Objs
    BY <1>21, InSignFacts DEF SignFails, InSign
  <2>2. /\ ~heap'[call[t].obj].signActive
        /\ \A y \in Objs : y # call[t].obj => heap'[y] = heap[y]
    <3>1. clearSignState(call[t].obj)
      BY <1>21 DEF SignFails
    <3> QED
      BY <1>a, <2>1, <3>1, ClearType, RecordTypes DEF IInv, TypeInv
  <2> QED
    BY <1>17, <1>21, <2>1, <2>2 DEF SignFails, history
<1>22. ASSUME NEW t \in Threads, BufferTooSmall(t) PROVE SignInv'
  <2>1. /\ InSign(t) /\ call[t].obj \in Objs /\ call[t].h \in Handles
        /\ call[t].sig \in Sigs /\ call[t].sig # NoSig
        /\ sessions[call[t].h] \in {0, call[t].obj}
    BY <1>22, InSignFacts DEF BufferTooSmall, InSign, IInv, SignInv, SignCallOK
  <2>2. /\ sessions[call[t].h] # 0 =>
             heap'[call[t].obj]
               = [heap[call[t].obj] EXCEPT !.cachedSignature = call[t].sig]
        /\ \A y \in Objs : y # call[t].obj => heap'[y] = heap[y]
    <3>1. cacheSignResult(call[t].h, call[t].sig) /\ TypeOK
      BY <1>22 DEF BufferTooSmall, IInv, TypeInv
    <3>2. /\ sessions[call[t].h] # 0 =>
               heap'[sessions[call[t].h]]
                 = [heap[sessions[call[t].h]] EXCEPT !.cachedSignature = call[t].sig]
          /\ \A y \in Objs : y # sessions[call[t].h] => heap'[y] = heap[y]
      BY <2>1, <3>1, CacheType
    <3>3. \A y \in Objs : y # 0
      BY DEF Objs
    <3> QED
      BY <2>1, <3>2, <3>3
  <2>3. [heap[call[t].obj] EXCEPT !.cachedSignature = call[t].sig].cachedSignature
          = call[t].sig
    BY <1>a, <2>1 DEF SessionRecs
  <2> QED
    BY <1>17, <1>22, <2>1, <2>2, <2>3 DEF BufferTooSmall, history
<1>23. ASSUME NEW t \in Threads, CopyOut(t) PROVE SignInv'
  <2>1. /\ InSign(t) /\ call[t].obj \in Objs /\ call[t].h \in Handles
        /\ sessions[call[t].h] \in {0, call[t].obj}
    BY <1>23, InSignFacts DEF CopyOut, InSign
  <2>2. /\ sessions[call[t].h] # 0 => heap'[call[t].obj] = Cleared(heap[call[t].obj])
        /\ \A y \in Objs : y # call[t].obj => heap'[y] = heap[y]
    BY <1>23, <2>1, ClearByHandleType DEF CopyOut, IInv, TypeInv, Objs
  <2>3. ~Cleared(heap[call[t].obj]).signActive
    BY <1>a, <2>1, RecordTypes
  <2> QED
    BY <1>17, <1>23, <2>1, <2>2, <2>3 DEF CopyOut
<1>24. CASE UNCHANGED vars
  <2>1. FrameStep
    BY <1>24 DEF vars, FrameStep, InSign
  <2> QED
    BY <2>1, FramePreserves
<1>25. ASSUME NEW t \in Threads, HeldUpStep(t) PROVE SignInv'
  <2>1. FrameStep
    BY <1>25 DEF HeldUpStep, history, FrameStep, InSign
  <2> QED
    BY <2>1, FramePreserves
<1>26. ASSUME NEW t \in Threads, LoginFails(t) PROVE SignInv'
  <2>1. ~InSign(t) /\ ~InSign(t)' /\ \A u \in Threads : u # t => call'[u] = call[u]
    BY <1>26, <1>a DEF LoginFails, Return, InSign
  <2>2. FrameStep
    BY <1>26, <2>1 DEF LoginFails, history, FrameStep, InSign
  <2> QED
    BY <2>2, FramePreserves
<1>27. ASSUME NEW t \in Threads, Enter(t) PROVE SignInv'
  BY <1>27, <1>1, <1>2, <1>3, <1>8, <1>9, <1>10, <1>11, <1>12, <1>14, <1>15,
     <1>25, HeldUpSteps DEF Enter
<1>28. ASSUME NEW t \in Threads, Progress(t) \/ LoginEnds(t) PROVE SignInv'
  BY <1>28, <1>5, <1>6, <1>7, <1>18, <1>19, <1>20, <1>21, <1>22, <1>23,
     <1>25, <1>26, HeldUpSteps DEF Progress, LoginEnds
<1> QED
  BY <1>24, <1>27, <1>28 DEF Next

\* The inductive invariant holds in every reachable state.
THEOREM SafetyInvariant == Spec => []IInv
<1>1. Init => IInv
  BY InitTypeInv, InitSignInv DEF IInv
<1>2. IInv /\ [Next]_vars => IInv'
  BY StepTypeInv, StepSignInv DEF IInv
<1> QED
  BY <1>1, <1>2, PTL DEF Spec

\* However many threads, sessions and operations there are, and whatever
\* callers do with their buffers, lost answers and 401 retries never make the
\* service sign twice for one C_SignInit.
THEOREM SignedAtMostOnce == Spec => []OneRemoteSignature
<1>1. IInv => OneRemoteSignature
  BY DEF IInv, SignInv, OpInv, OneRemoteSignature
<1> QED
  BY <1>1, SafetyInvariant, PTL
=============================================================================
