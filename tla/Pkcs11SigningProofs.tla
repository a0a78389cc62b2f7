------------------------- MODULE Pkcs11SigningProofs -------------------------
(* Proofs about Pkcs11Signing for every value of its constants.            *)
EXTENDS Pkcs11Signing, TLAPS

(***************************************************************************)
(* The session table.  Handles are given out in increasing order and a     *)
(* struct is entered under one handle only, so a handle remembered by a    *)
(* call in progress cannot come to name another session.                   *)
(***************************************************************************)
TableInv ==
    /\ nextID <= allocs + 1
    /\ \A h \in Handles : sessions[h] # 0 => h < nextID /\ sessions[h] <= allocs
    /\ \A g, h \in Handles : sessions[g] # 0 /\ sessions[g] = sessions[h] => g = h

CallOK(t) ==
    \/ call[t] = NoCall
    \/ /\ call[t].pc # "idle"
       /\ initialized
       /\ call[t].h \in Handles /\ call[t].h < nextID
       /\ call[t].obj \in Objs /\ call[t].obj <= allocs
       /\ sessions[call[t].h] \in {0, call[t].obj}
       /\ \A h \in Handles : sessions[h] = call[t].obj => h = call[t].h

CallInv == \A t \in Threads : CallOK(t)

\* An active operation has been begun.
ActiveInv == \A x \in Objs : heap[x].signActive => current[x] \in Ops

TypeInv == TypeOK /\ TableInv /\ CallInv /\ ActiveInv

-----------------------------------------------------------------------------
\* The records a session and a call are reset to have their types.
LEMMA RecordTypes ==
    /\ NoSig \in Sigs
    /\ NoCall \in Calls
    /\ NoCall.pc = "idle"
    /\ \A s \in Slots : /\ NewSession(s) \in SessionRecs
                        /\ NewSession(s).signActive = FALSE
    /\ \A r \in SessionRecs : /\ Cleared(r) \in SessionRecs
                              /\ Cleared(r).signActive = FALSE
                              /\ Cleared(r).slotID = r.slotID
                              /\ Cleared(r).cachedSignature = NoSig
<1>1. NoSig \in Sigs
  BY SigningAssumption DEF NoSig, Sigs
<1>2. NoCall \in Calls /\ NoCall.pc = "idle"
  BY <1>1, SigningAssumption DEF NoCall, Calls
<1>3. ASSUME NEW s \in Slots
      PROVE  NewSession(s) \in SessionRecs /\ NewSession(s).signActive = FALSE
  BY <1>1, SigningAssumption DEF NewSession, SessionRecs
<1>4. ASSUME NEW r \in SessionRecs
      PROVE  /\ Cleared(r) \in SessionRecs
             /\ Cleared(r).signActive = FALSE
             /\ Cleared(r).slotID = r.slotID
             /\ Cleared(r).cachedSignature = NoSig
  BY <1>1, SigningAssumption DEF Cleared, SessionRecs
<1> QED
  BY <1>1, <1>2, <1>3, <1>4

\* A history counter stays a function to Nat.
LEMMA CountType ==
    ASSUME NEW f \in [Ops -> Nat], NEW o
    PROVE  /\ [f EXCEPT ![o] = @ + 1] \in [Ops -> Nat]
           /\ o \in Ops => [f EXCEPT ![o] = @ + 1][o] = f[o] + 1
           /\ \A p \in Ops : p # o => [f EXCEPT ![o] = @ + 1][p] = f[p]
<1> DEFINE g == [f EXCEPT ![o] = @ + 1]
<1>1. g = [p \in Ops |-> IF p = o THEN f[o] + 1 ELSE f[p]]
  OBVIOUS
<1>2. ASSUME NEW p \in Ops
      PROVE  /\ g[p] \in Nat
             /\ p = o => g[p] = f[p] + 1
             /\ p # o => g[p] = f[p]
  BY <1>1
<1> HIDE DEF g
<1>3. g \in [Ops -> Nat]
  BY <1>1, <1>2
<1>4. o \in Ops => g[o] = f[o] + 1
  BY <1>2
<1> QED
  BY <1>2, <1>3, <1>4 DEF g

\* One thread is held up, or is so no longer.
LEMMA AuthType ==
    ASSUME TypeOK, NEW t \in Threads, NEW a \in AuthStates,
           auth' = [auth EXCEPT ![t] = a]
    PROVE  auth' \in [Threads -> AuthStates]
  BY DEF TypeOK

\* The same where the call may need a login or not.
LEMMA MayAuthenticateType ==
    ASSUME TypeOK, NEW t \in Threads, MayAuthenticate(t)
    PROVE  auth' \in [Threads -> AuthStates]
  BY AuthType DEF MayAuthenticate, AuthStates

\* SetLoggedIn changes login flags only.
LEMMA SetLoggedInType ==
    ASSUME TypeOK, NEW S, NEW v \in BOOLEAN, SetLoggedIn(S, v)
    PROVE  /\ heap' \in [Objs -> SessionRecs]
           /\ \A x \in Objs :
                /\ heap'[x].signActive = heap[x].signActive
                /\ heap'[x].signMech = heap[x].signMech
                /\ heap'[x].signKeyIndex = heap[x].signKeyIndex
                /\ heap'[x].signBuffer = heap[x].signBuffer
                /\ heap'[x].cachedSignature = heap[x].cachedSignature
<1>1. ASSUME NEW x \in Objs
      PROVE  /\ heap'[x] \in SessionRecs
             /\ heap'[x].signActive = heap[x].signActive
             /\ heap'[x].signMech = heap[x].signMech
             /\ heap'[x].signKeyIndex = heap[x].signKeyIndex
             /\ heap'[x].signBuffer = heap[x].signBuffer
             /\ heap'[x].cachedSignature = heap[x].cachedSignature
  BY DEF SetLoggedIn, TypeOK, SessionRecs
<1>2. heap' = [x \in Objs |-> heap'[x]]
  BY DEF SetLoggedIn
<1> QED
  BY <1>1, <1>2

\* clearSignState touches one struct, which exists.
LEMMA ClearType ==
    ASSUME TypeOK, NEW x \in Objs, clearSignState(x)
    PROVE  /\ heap' \in [Objs -> SessionRecs]
           /\ heap'[x] = Cleared(heap[x])
           /\ \A y \in Objs : y # x => heap'[y] = heap[y]
  BY RecordTypes DEF clearSignState, TypeOK

\* What clearSignStateByHandle does to the sessions.
LEMMA ClearByHandleType ==
    ASSUME TypeOK, NEW h \in Handles, clearSignStateByHandle(h)
    PROVE  /\ heap' \in [Objs -> SessionRecs]
           /\ sessions[h] # 0 => heap'[sessions[h]] = Cleared(heap[sessions[h]])
           /\ \A y \in Objs : y # sessions[h] => heap'[y] = heap[y]
<1>1. CASE sessions[h] = 0
  BY <1>1 DEF clearSignStateByHandle, TypeOK
<1>2. CASE sessions[h] # 0
  <2>1. sessions[h] \in Objs
    BY <1>2, SigningAssumption DEF TypeOK, Objs, Handles
  <2> QED
    BY <1>2, <2>1, ClearType DEF clearSignStateByHandle
<1> QED
  BY <1>1, <1>2

\* What cacheSignResult does to the sessions.
LEMMA CacheType ==
    ASSUME TypeOK, NEW h \in Handles, NEW sig \in Sigs, cacheSignResult(h, sig)
    PROVE  /\ heap' \in [Objs -> SessionRecs]
           /\ sessions[h] # 0 =>
                heap'[sessions[h]] = [heap[sessions[h]] EXCEPT !.cachedSignature = sig]
           /\ \A y \in Objs : y # sessions[h] => heap'[y] = heap[y]
           /\ \A y \in Objs : heap'[y].signActive = heap[y].signActive
<1>1. CASE sessions[h] = 0
  BY <1>1 DEF cacheSignResult, TypeOK
<1>2. CASE sessions[h] # 0
  <2>1. sessions[h] \in Objs
    BY <1>2, SigningAssumption DEF TypeOK, Objs, Handles
  <2>2. heap[sessions[h]] \in SessionRecs
    BY <2>1 DEF TypeOK
  <2>3. [heap[sessions[h]] EXCEPT !.cachedSignature = sig] \in SessionRecs
    BY <2>2 DEF SessionRecs
  <2> QED
    BY <1>2, <2>1, <2>2, <2>3 DEF cacheSignResult, TypeOK, SessionRecs
<1> QED
  BY <1>1, <1>2

-----------------------------------------------------------------------------
\* No session and no call: the invariant holds initially.
LEMMA InitTypeInv == Init => TypeInv
<1> SUFFICES ASSUME Init PROVE TypeInv
  OBVIOUS
<1> USE SigningAssumption, RecordTypes DEF Init
<1>a. [key |-> 0, mech |-> 0, fed |-> 0]
        \in [key : Slots, mech : Mechs \cup {0}, fed : Nat]
  OBVIOUS
<1>b. heap \in [Objs -> SessionRecs] /\ call \in [Threads -> Calls]
  OBVIOUS
<1>c. asked \in [Ops -> [key : Slots, mech : Mechs \cup {0}, fed : Nat]]
  BY <1>a
<1>d. /\ sessions \in [Handles -> 0..MaxSessions]
      /\ nextID \in 1..(MaxSessions + 1)
      /\ allocs \in 0..MaxSessions
      /\ nOps \in 0..MaxOps
      /\ current \in [Objs -> 0..MaxOps]
      /\ auth \in [Threads -> AuthStates]
  BY DEF AuthStates
<1>1. TypeOK
  BY <1>b, <1>c, <1>d DEF TypeOK
<1>2. TableInv /\ CallInv
  BY DEF TableInv, CallInv, CallOK
<1>3. ActiveInv
  BY DEF ActiveInv
<1> QED
  BY <1>1, <1>2, <1>3 DEF TypeInv

\* A step that leaves the table alone and moves one call on, ends it, or starts
\* one on a handle of the table.
LEMMA CallStep ==
    ASSUME TypeInv, NEW t \in Threads, NEW c \in Calls,
           UNCHANGED <<initialized, sessions, nextID, allocs>>,
           call' = [call EXCEPT ![t] = c],
           \/ c = NoCall
           \/ /\ c.pc # "idle" /\ call[t].pc # "idle"
              /\ c.h = call[t].h /\ c.obj = call[t].obj
           \/ /\ c.pc # "idle" /\ initialized
              /\ c.h \in Handles /\ c.obj = sessions[c.h] /\ c.obj # 0
    PROVE  /\ TableInv'
           /\ CallInv'
           /\ call' \in [Threads -> Calls]
<1> USE SigningAssumption DEF TypeInv
<1>1. TableInv'
  BY DEF TableInv
<1>2. ASSUME NEW u \in Threads PROVE CallOK(u)'
  <2>1. CASE u # t
    <3>1. call'[u] = call[u]
      BY <2>1 DEF TypeOK
    <3> QED
      BY <3>1 DEF CallInv, CallOK
  <2>2. CASE u = t
    <3>1. call'[u] = c
      BY <2>2 DEF TypeOK
    <3>2. CASE c = NoCall
      BY <3>1, <3>2 DEF CallOK
    <3>3. CASE /\ c.pc # "idle" /\ call[t].pc # "idle"
               /\ c.h = call[t].h /\ c.obj = call[t].obj
      <4>1. call[t] # NoCall
        BY <3>3, RecordTypes
      <4> QED
        BY <2>2, <3>1, <3>3, <4>1 DEF CallInv, CallOK
    <3>4. CASE /\ c.pc # "idle" /\ initialized
               /\ c.h \in Handles /\ c.obj = sessions[c.h] /\ c.obj # 0
      <4>1. c.obj \in Objs
        BY <3>4 DEF TypeOK, Handles, Objs
      <4>2. c.h < nextID /\ c.obj <= allocs
        BY <3>4 DEF TableInv
      <4>3. \A h \in Handles : sessions[h] = c.obj => h = c.h
        BY <3>4 DEF TableInv
      <4> QED
        BY <3>1, <3>4, <4>1, <4>2, <4>3 DEF CallOK
    <3> QED
      BY <3>2, <3>3, <3>4
  <2> QED
    BY <2>1, <2>2
<1>3. call' \in [Threads -> Calls]
  BY DEF TypeOK
<1> QED
  BY <1>1, <1>2, <1>3 DEF CallInv

\* What backend.Sign and backend.SignFinal do before any remote call.
LEMMA SignCallFacts ==
    ASSUME TypeInv, NEW t \in Threads, NEW h \in Handles, NEW data \in Nat,
           NEW want \in Nat, NEW buf \in Nat, SignCall(t, h, data, want, buf)
    PROVE  /\ sessions[h] \in Objs
           /\ call' = [call EXCEPT ![t] = call'[t]]
           /\ call'[t] \in Calls
           /\ call'[t].h = h /\ call'[t].obj = sessions[h]
           /\ call'[t].buf = buf /\ call'[t].want = want /\ call'[t].data = data
           /\ call'[t].op = current[sessions[h]]
           /\ \/ /\ heap[sessions[h]].cachedSignature # NoSig
                 /\ call'[t].pc = "copy"
                 /\ call'[t].sig = heap[sessions[h]].cachedSignature
                 /\ clearSignState(sessions[h])
              \/ /\ heap[sessions[h]].cachedSignature = NoSig
                 /\ call'[t].pc = "sending"
                 /\ UNCHANGED heap
<1> USE SigningAssumption DEF TypeInv
<1> DEFINE x == sessions[h]
           C(pc, sig) == [pc |-> pc, h |-> h, obj |-> x, buf |-> buf,
                          data |-> data, attempt |-> 1, sig |-> sig,
                          op |-> current[x], want |-> want]
<1>1. x \in Objs /\ h \in 0..MaxSessions
  BY DEF SignCall, TypeOK, Handles, Objs
<1>2. heap[x].cachedSignature \in Sigs /\ current[x] \in 0..MaxOps /\ NoSig \in Sigs
  BY <1>1, RecordTypes DEF TypeOK, SessionRecs
<1>3. ASSUME NEW pc \in {"sending", "copy"}, NEW sig \in Sigs
      PROVE  /\ C(pc, sig) \in Calls
             /\ C(pc, sig).pc = pc /\ C(pc, sig).sig = sig
             /\ C(pc, sig).h = h /\ C(pc, sig).obj = x
             /\ C(pc, sig).buf = buf /\ C(pc, sig).want = want
             /\ C(pc, sig).data = data /\ C(pc, sig).op = current[x]
  BY <1>1, <1>2 DEF Calls, Objs
<1>4. call \in [Threads -> Calls]
  BY DEF TypeOK
<1> HIDE DEF C
<1>5. CASE /\ heap[x].cachedSignature # NoSig
           /\ call' = [call EXCEPT ![t] = C("copy", heap[x].cachedSignature)]
           /\ clearSignState(x)
  BY <1>1, <1>2, <1>3, <1>4, <1>5
<1>6. CASE /\ heap[x].cachedSignature = NoSig
           /\ call' = [call EXCEPT ![t] = C("sending", NoSig)]
           /\ UNCHANGED heap
  BY <1>1, <1>2, <1>3, <1>4, <1>6
<1> QED
  BY <1>5, <1>6 DEF SignCall, C

\* A step that only says what holds a thread up.
HeldUpStep(t) ==
    /\ \E a \in AuthStates : auth' = [auth EXCEPT ![t] = a]
    /\ UNCHANGED <<initialized, sessions, nextID, heap, call, allocs, history>>

\* The actions that are such steps.
LEMMA HeldUpSteps ==
    ASSUME NEW t, \/ C_InitializeBlocks(t) \/ AlreadyInitialized(t)
                  \/ InitializeReturns(t) \/ SDKLoginDone(t)
    PROVE  HeldUpStep(t)
  BY DEF C_InitializeBlocks, AlreadyInitialized, InitializeReturns, SDKLoginDone,
         HeldUpStep, AuthStates

\* Every action preserves the invariant, one step per action.
LEMMA StepTypeInv == TypeInv /\ [Next]_vars => TypeInv'
<1> SUFFICES ASSUME TypeInv, [Next]_vars PROVE TypeInv'
  OBVIOUS
<1> USE SigningAssumption DEF TypeInv
<1>a. NoCall \in Calls /\ NoCall.pc = "idle" /\ NoSig \in Sigs
  BY RecordTypes
<1>1. ASSUME NEW t \in Threads, C_Initialize(t) PROVE TypeInv'
  <2>1. \A u \in Threads : call[u] = NoCall
    BY <1>1 DEF C_Initialize, CallInv, CallOK
  <2>a. auth' \in [Threads -> AuthStates]
    BY <1>1, AuthType DEF C_Initialize, AuthStates
  <2>2. TypeOK'
    BY <1>1, <2>a DEF C_Initialize, history, TypeOK, Handles
  <2>3. TableInv' /\ CallInv'
    BY <1>1, <2>1 DEF C_Initialize, history, TableInv, CallInv, CallOK, TypeOK, Handles
  <2>4. ActiveInv'
    BY <1>1 DEF C_Initialize, history, ActiveInv
  <2> QED
    BY <2>2, <2>3, <2>4
<1>2. ASSUME NEW t \in Threads, C_Finalize(t) PROVE TypeInv'
  <2>1. TypeOK'
    BY <1>2 DEF C_Finalize, history, TypeOK
  <2>2. TableInv' /\ CallInv'
    BY <1>2 DEF C_Finalize, Quiescent, Outside, history, TableInv, CallInv, CallOK
  <2>3. ActiveInv'
    BY <1>2 DEF C_Finalize, history, ActiveInv
  <2> QED
    BY <2>1, <2>2, <2>3
<1>3. ASSUME NEW t \in Threads, NEW s \in Slots, C_OpenSession(t, s) PROVE TypeInv'
  <2>1. /\ nextID \in Handles /\ allocs + 1 \in Objs
        /\ initialized
        /\ allocs \in Nat
    BY <1>3 DEF C_OpenSession, Enters, Outside, TypeOK, TableInv, Handles, Objs
  <2>2. /\ SessionCall("opened", nextID, allocs + 1) \in Calls
        /\ SessionCall("opened", nextID, allocs + 1).pc = "opened"
        /\ SessionCall("opened", nextID, allocs + 1).h = nextID
        /\ SessionCall("opened", nextID, allocs + 1).obj = allocs + 1
    BY <2>1, <1>a DEF SessionCall, Calls, Handles, Objs
  <2>3. NewSession(s) \in SessionRecs /\ ~NewSession(s).signActive
    BY RecordTypes
  <2>a. /\ sessions' \in [Handles -> 0..MaxSessions]
        /\ sessions'[nextID] = allocs + 1
        /\ \A h \in Handles : h # nextID => sessions'[h] = sessions[h]
        /\ nextID' = nextID + 1 /\ allocs' = allocs + 1
        /\ initialized'
    BY <1>3, <2>1 DEF C_OpenSession, TypeOK, Handles, Objs
  <2>b. /\ call' \in [Threads -> Calls]
        /\ call'[t] = SessionCall("opened", nextID, allocs + 1)
        /\ \A u \in Threads : u # t => call'[u] = call[u]
    BY <1>3, <2>2 DEF C_OpenSession, TypeOK
  <2>c. /\ heap' \in [Objs -> SessionRecs]
        /\ ~heap'[allocs + 1].signActive
        /\ \A x \in Objs : x # allocs + 1 => heap'[x] = heap[x]
    BY <1>3, <2>1, <2>3 DEF C_OpenSession, TypeOK
  <2>d. nextID \in Nat /\ MaxSessions \in Nat /\ \A h \in Handles : h \in Nat
    BY <2>1 DEF Handles
  <2>e. \A h \in Handles : sessions[h] \in Nat /\ sessions[h] <= allocs
    BY <2>1 DEF TableInv, TypeOK
  <2>4. TypeOK'
    <3>1. nextID' \in 1..(MaxSessions + 1) /\ allocs' \in 0..MaxSessions
      BY <2>1, <2>a, <2>d DEF Handles, Objs
    <3> QED
      BY <1>3, <2>a, <2>b, <2>c, <3>1 DEF C_OpenSession, history, TypeOK
  <2>5. TableInv'
    <3>1. nextID' <= allocs' + 1
      BY <2>1, <2>a, <2>d DEF TableInv
    <3>2. ASSUME NEW h \in Handles, sessions'[h] # 0
          PROVE  h < nextID' /\ sessions'[h] <= allocs'
      BY <2>1, <2>a, <2>d, <2>e, <3>2 DEF TableInv
    <3>3. ASSUME NEW g \in Handles, NEW h \in Handles,
                 sessions'[g] # 0, sessions'[g] = sessions'[h]
          PROVE  g = h
      BY <2>1, <2>a, <2>e, <3>3 DEF TableInv
    <3> QED
      BY <3>1, <3>2, <3>3 DEF TableInv
  <2>6. CallInv'
    <3> SUFFICES ASSUME NEW u \in Threads PROVE CallOK(u)'
      BY DEF CallInv
    <3>1. CASE u = t
      <4>1. \A h \in Handles : sessions'[h] = allocs + 1 => h = nextID
        BY <2>1, <2>a, <2>e
      <4> QED
        BY <3>1, <4>1, <2>1, <2>2, <2>a, <2>b, <2>d DEF CallOK
    <3>2. CASE u # t
      <4>1. call'[u] = call[u] /\ CallOK(u)
        BY <2>b, <3>2 DEF CallInv
      <4>2. CASE call[u] = NoCall
        BY <4>1, <4>2 DEF CallOK
      <4>3. CASE call[u] # NoCall
        <5>a. /\ call[u].h \in Nat /\ call[u].h < nextID
              /\ call[u].obj \in Objs /\ call[u].obj <= allocs
          BY <4>1, <4>3, <2>d DEF CallOK
        <5>1. call[u].h # nextID /\ call[u].obj # allocs + 1 /\ call[u].obj \in Nat
          BY <5>a, <2>1, <2>d DEF Objs
        <5> QED
          BY <4>1, <4>3, <5>a, <5>1, <2>1, <2>a, <2>d DEF CallOK
      <4> QED
        BY <4>2, <4>3
    <3> QED
      BY <3>1, <3>2
  <2>7. ActiveInv'
    BY <1>3, <2>1, <2>c DEF C_OpenSession, history, ActiveInv
  <2> QED
    BY <2>4, <2>5, <2>6, <2>7
<1>4. ASSUME NEW t \in Threads, NEW a \in BOOLEAN, OpenSessionLogin(t, a)
      PROVE TypeInv'
  <2>1. TableInv' /\ CallInv' /\ call' \in [Threads -> Calls]
    BY <1>4, <1>a, CallStep DEF OpenSessionLogin, Return
  <2>2. /\ heap' \in [Objs -> SessionRecs]
        /\ \A x \in Objs : heap'[x].signActive = heap[x].signActive
    BY <1>4, SetLoggedInType DEF OpenSessionLogin
  <2>3. TypeOK' /\ ActiveInv'
    BY <1>4, <2>1, <2>2 DEF OpenSessionLogin, history, TypeOK, ActiveInv
  <2> QED
    BY <2>1, <2>3
<1>5. ASSUME NEW t \in Threads, NEW h \in Handles, C_CloseSession(t, h)
      PROVE TypeInv'
  <2>1. TypeOK'
    BY <1>5 DEF C_CloseSession, history, TypeOK
  <2>2. TableInv'
    BY <1>5 DEF C_CloseSession, history, TableInv, TypeOK
  <2>3. CallInv'
    BY <1>5 DEF C_CloseSession, CallInv, CallOK, TypeOK, Objs
  <2>4. ActiveInv'
    BY <1>5 DEF C_CloseSession, history, ActiveInv
  <2> QED
    BY <2>1, <2>2, <2>3, <2>4
<1>6. ASSUME NEW t \in Threads, NEW s \in Slots, C_CloseAllSessions(t, s)
      PROVE TypeInv'
  <2>1. \A h \in Handles : sessions'[h] \in {0, sessions[h]}
    BY <1>6 DEF C_CloseAllSessions
  <2>2. TypeOK'
    BY <1>6 DEF C_CloseAllSessions, history, TypeOK
  <2>3. TableInv'
    BY <1>6, <2>1 DEF C_CloseAllSessions, history, TableInv, TypeOK
  <2>4. CallInv'
    BY <1>6, <2>1 DEF C_CloseAllSessions, CallInv, CallOK, TypeOK, Objs
  <2>5. ActiveInv'
    BY <1>6 DEF C_CloseAllSessions, history, ActiveInv
  <2> QED
    BY <2>2, <2>3, <2>4, <2>5
<1>7. ASSUME NEW t \in Threads, NEW h \in Handles, C_Login(t, h)
      PROVE TypeInv'
  <2> DEFINE c == SessionCall("login", h, sessions[h])
  <2>1. /\ c \in Calls /\ c.pc = "login"
        /\ c.h = h /\ c.obj = sessions[h]
    BY <1>a DEF SessionCall, Calls, TypeOK, Handles
  <2>2. TableInv' /\ CallInv' /\ call' \in [Threads -> Calls]
    BY <1>7, <2>1, CallStep DEF C_Login, Enters, Outside
  <2>a. auth' \in [Threads -> AuthStates]
    BY <1>7, MayAuthenticateType DEF C_Login
  <2>3. TypeOK' /\ ActiveInv'
    BY <1>7, <2>2, <2>a DEF C_Login, history, TypeOK, ActiveInv
  <2> QED
    BY <2>2, <2>3
<1>8. ASSUME NEW t \in Threads, LoginFails(t)
      PROVE TypeInv'
  <2>1. TableInv' /\ CallInv' /\ call' \in [Threads -> Calls]
    BY <1>8, <1>a, CallStep DEF LoginFails, Return
  <2>a. auth' \in [Threads -> AuthStates]
    BY <1>8, AuthType DEF LoginFails, AuthStates
  <2>2. TypeOK' /\ ActiveInv'
    BY <1>8, <2>1, <2>a DEF LoginFails, history, TypeOK, ActiveInv
  <2> QED
    BY <2>1, <2>2
<1>9. ASSUME NEW t \in Threads, LoginSession(t)
      PROVE TypeInv'
  <2> DEFINE c == [call[t] EXCEPT !.pc = "loginAll"]
  <2>0. call[t] \in Calls
    BY <1>a DEF TypeOK
  <2>1. /\ c \in Calls /\ c.pc = "loginAll"
        /\ c.h = call[t].h /\ c.obj = call[t].obj
    BY <2>0 DEF Calls
  <2>2. TableInv' /\ CallInv' /\ call' \in [Threads -> Calls]
    BY <1>9, <2>1, CallStep DEF LoginSession
  <2>3. /\ heap' \in [Objs -> SessionRecs]
        /\ \A x \in Objs : heap'[x].signActive = heap[x].signActive
    BY <1>9, SetLoggedInType DEF LoginSession
  <2>4. TypeOK' /\ ActiveInv'
    BY <1>9, <2>2, <2>3 DEF LoginSession, history, TypeOK, ActiveInv
  <2> QED
    BY <2>2, <2>4
<1>10. ASSUME NEW t \in Threads, LoginSlot(t)
       PROVE TypeInv'
  <2>1. TableInv' /\ CallInv' /\ call' \in [Threads -> Calls]
    BY <1>10, <1>a, CallStep DEF LoginSlot, Return
  <2>2. /\ heap' \in [Objs -> SessionRecs]
        /\ \A x \in Objs : heap'[x].signActive = heap[x].signActive
    BY <1>10, SetLoggedInType DEF LoginSlot
  <2>3. TypeOK' /\ ActiveInv'
    BY <1>10, <2>1, <2>2 DEF LoginSlot, history, TypeOK, ActiveInv
  <2> QED
    BY <2>1, <2>3
<1>11. ASSUME NEW t \in Threads, NEW h \in Handles, C_Logout(t, h)
       PROVE TypeInv'
  <2>1. /\ heap' \in [Objs -> SessionRecs]
        /\ \A x \in Objs : heap'[x].signActive = heap[x].signActive
    BY <1>11, SetLoggedInType DEF C_Logout
  <2>2. TypeOK' /\ ActiveInv'
    BY <1>11, <2>1 DEF C_Logout, history, TypeOK, ActiveInv
  <2>3. TableInv' /\ CallInv'
    BY <1>11 DEF C_Logout, TableInv, CallInv, CallOK
  <2> QED
    BY <2>2, <2>3
<1>12. ASSUME NEW t \in Threads, NEW h \in Handles, NEW m \in Mechs,
              NEW k \in Slots, C_SignInit(t, h, m, k)
       PROVE TypeInv'
  <2> DEFINE x == sessions[h]
  <2>1. x \in Objs /\ nOps + 1 \in Ops
    BY <1>12 DEF C_SignInit, TypeOK, Handles, Objs, Ops
  <2>2. Begun(heap[x], m, k) \in SessionRecs
    BY <2>1 DEF Begun, SessionRecs, TypeOK
  <2>3. [key |-> k, mech |-> m, fed |-> 0]
          \in [key : Slots, mech : Mechs \cup {0}, fed : Nat]
    OBVIOUS
  <2>4. /\ heap' \in [Objs -> SessionRecs]
        /\ \A y \in Objs : y # x => heap'[y] = heap[y]
        /\ current' \in [Objs -> 0..MaxOps]
        /\ current'[x] = nOps + 1
        /\ \A y \in Objs : y # x => current'[y] = current[y]
    BY <1>12, <2>1, <2>2 DEF C_SignInit, TypeOK, Ops
  <2>5. TypeOK'
    BY <1>12, <2>1, <2>3, <2>4 DEF C_SignInit, TypeOK, Ops
  <2>6. TableInv' /\ CallInv'
    BY <1>12 DEF C_SignInit, TableInv, CallInv, CallOK
  <2>7. ActiveInv'
    BY <2>1, <2>4 DEF ActiveInv
  <2> QED
    BY <2>5, <2>6, <2>7
<1>13. ASSUME NEW t \in Threads, NEW h \in Handles, NEW n \in PartLens,
              C_SignUpdate(t, h, n)
       PROVE TypeInv'
  <2> DEFINE x == sessions[h]
  <2>1. x \in Objs
    BY <1>13 DEF C_SignUpdate, TypeOK, Handles, Objs
  <2>2. current[x] \in Ops /\ heap[x] \in SessionRecs
    BY <1>13, <2>1 DEF C_SignUpdate, ActiveInv, TypeOK
  <2>3. heap[x].signBuffer + n \in 0..MaxSignBuffer
    BY <1>13, <2>2 DEF C_SignUpdate, SessionRecs
  <2> DEFINE r == Appended(heap[x], n)
             o == current[x]
             a == Fed(asked[o], n)
  <2>4. r \in SessionRecs /\ r.signActive = heap[x].signActive
    BY <2>2, <2>3 DEF SessionRecs, Appended
  <2>a. heap' = [heap EXCEPT ![x] = r] /\ asked' = [asked EXCEPT ![o] = a]
    BY <1>13 DEF C_SignUpdate
  <2>b. a \in [key : Slots, mech : Mechs \cup {0}, fed : Nat]
    BY <2>2 DEF TypeOK, Fed
  <2> HIDE DEF r, a
  <2>5. /\ heap' \in [Objs -> SessionRecs]
        /\ \A y \in Objs : heap'[y].signActive = heap[y].signActive
    BY <2>1, <2>4, <2>a DEF TypeOK
  <2>6. asked' \in [Ops -> [key : Slots, mech : Mechs \cup {0}, fed : Nat]]
    BY <2>2, <2>a, <2>b DEF TypeOK
  <2>7. TypeOK' /\ ActiveInv'
    BY <1>13, <2>5, <2>6 DEF C_SignUpdate, TypeOK, ActiveInv
  <2>8. TableInv' /\ CallInv'
    BY <1>13 DEF C_SignUpdate, TableInv, CallInv, CallOK
  <2> QED
    BY <2>7, <2>8
<1>14. ASSUME NEW t \in Threads, NEW h \in Handles, NEW data \in Nat,
              NEW want \in Nat, NEW buf \in Nat, SignCall(t, h, data, want, buf)
       PROVE TypeInv'
  <2>1. /\ sessions[h] \in Objs
        /\ call' = [call EXCEPT ![t] = call'[t]]
        /\ call'[t] \in Calls
        /\ call'[t].pc \in {"sending", "copy"}
        /\ call'[t].h = h /\ call'[t].obj = sessions[h]
        /\ clearSignState(sessions[h]) \/ UNCHANGED heap
    BY <1>14, SignCallFacts
  <2>2. initialized /\ UNCHANGED <<initialized, sessions, nextID, allocs>>
    BY <1>14 DEF SignCall, Enters, Outside
  <2>3. sessions[h] # 0
    BY <2>1 DEF Objs
  <2>4. TableInv' /\ CallInv' /\ call' \in [Threads -> Calls]
    BY <2>1, <2>2, <2>3, CallStep
  <2>5. /\ heap' \in [Objs -> SessionRecs]
        /\ \A y \in Objs : heap'[y].signActive => heap[y].signActive
    <3>1. CASE clearSignState(sessions[h])
      BY <2>1, <3>1, ClearType, RecordTypes DEF TypeOK
    <3>2. CASE UNCHANGED heap
      BY <3>2 DEF TypeOK
    <3> QED
      BY <2>1, <3>1, <3>2
  <2>a. auth' \in [Threads -> AuthStates]
    BY <1>14, MayAuthenticateType DEF SignCall, TypeOK
  <2>6. TypeOK' /\ ActiveInv'
    BY <1>14, <2>4, <2>5, <2>a DEF SignCall, history, TypeOK, ActiveInv
  <2> QED
    BY <2>4, <2>6
<1>15. ASSUME NEW t \in Threads, NEW h \in Handles, NEW n \in PartLens,
              NEW buf \in BufLens, C_Sign(t, h, n, buf)
       PROVE TypeInv'
  BY <1>14, <1>15 DEF C_Sign
<1>16. ASSUME NEW t \in Threads, NEW h \in Handles, NEW buf \in BufLens,
              C_SignFinal(t, h, buf)
       PROVE TypeInv'
  <2>1. sessions[h] \in Objs
    BY <1>16 DEF C_SignFinal, TypeOK, Handles, Objs
  <2>2. current[sessions[h]] \in Ops
    BY <1>16, <2>1 DEF C_SignFinal, ActiveInv
  <2>3. heap[sessions[h]].signBuffer \in Nat
    BY <2>1 DEF TypeOK, SessionRecs
  <2>4. asked[current[sessions[h]]].fed \in Nat
    BY <2>2 DEF TypeOK
  <2> QED
    BY <1>14, <1>16, <2>3, <2>4 DEF C_SignFinal
<1>17. ASSUME NEW t \in Threads, ServiceSigns(t) PROVE TypeInv'
  <2>1. call[t] \in Calls /\ call[t].obj \in Objs
    BY <1>17, <1>a DEF ServiceSigns, CallInv, CallOK, TypeOK
  <2> DEFINE x == call[t].obj
             sig == [op |-> call[t].op, key |-> heap[x].signKeyIndex,
                     mech |-> heap[x].signMech, data |-> call[t].data]
             c == [call[t] EXCEPT !.pc = "signed", !.sig = sig]
  <2>2. sig \in Sigs
    BY <2>1 DEF Sigs, Calls, SessionRecs, TypeOK
  <2>3. /\ c \in Calls /\ c.pc = "signed"
        /\ c.h = call[t].h /\ c.obj = call[t].obj
    BY <2>1, <2>2 DEF Calls
  <2>4. call' = [call EXCEPT ![t] = c]
    BY <1>17 DEF ServiceSigns
  <2> HIDE DEF c
  <2>5. TableInv' /\ CallInv' /\ call' \in [Threads -> Calls]
    BY <1>17, <2>3, <2>4, CallStep DEF ServiceSigns
  <2>6. TypeOK' /\ ActiveInv'
    <3>1. issued' \in [Ops -> Nat]
      BY <1>17, CountType DEF ServiceSigns, TypeOK
    <3> QED
      BY <1>17, <2>5, <3>1 DEF ServiceSigns, TypeOK, ActiveInv
  <2> QED
    BY <2>5, <2>6
<1>18. ASSUME NEW t \in Threads, Unauthorized(t) PROVE TypeInv'
  <2> DEFINE c == [call[t] EXCEPT !.attempt = 2]
  <2>0. call[t] \in Calls
    BY <1>a DEF TypeOK
  <2>1. /\ c \in Calls /\ c.pc = call[t].pc
        /\ c.h = call[t].h /\ c.obj = call[t].obj
    BY <2>0 DEF Calls
  <2>2. TableInv' /\ CallInv' /\ call' \in [Threads -> Calls]
    BY <1>18, <2>1, CallStep DEF Unauthorized
  <2>a. auth' \in [Threads -> AuthStates]
    BY <1>18, MayAuthenticateType DEF Unauthorized
  <2>3. TypeOK' /\ ActiveInv'
    BY <1>18, <2>2, <2>a DEF Unauthorized, history, TypeOK, ActiveInv
  <2> QED
    BY <2>2, <2>3
<1>19. ASSUME NEW t \in Threads, SignFails(t) PROVE TypeInv'
  <2>1. TableInv' /\ CallInv' /\ call' \in [Threads -> Calls]
    BY <1>19, <1>a, CallStep DEF SignFails, Return
  <2>2. call[t].obj \in Objs
    BY <1>19, <1>a DEF SignFails, CallInv, CallOK
  <2>3. /\ heap' \in [Objs -> SessionRecs]
        /\ \A y \in Objs : heap'[y].signActive => heap[y].signActive
    BY <1>19, <2>2, ClearType, RecordTypes DEF SignFails, TypeOK
  <2>a. auth' \in [Threads -> AuthStates]
    BY <1>19, AuthType DEF SignFails, AuthStates
  <2>4. TypeOK' /\ ActiveInv'
    BY <1>19, <2>1, <2>3, <2>a DEF SignFails, history, TypeOK, ActiveInv
  <2> QED
    BY <2>1, <2>4
<1>20. ASSUME NEW t \in Threads, SignReturns(t) PROVE TypeInv'
  <2> DEFINE c == [call[t] EXCEPT !.pc = "copy"]
  <2>0. call[t] \in Calls
    BY <1>a DEF TypeOK
  <2>1. /\ c \in Calls /\ c.pc = "copy"
        /\ c.h = call[t].h /\ c.obj = call[t].obj
    BY <2>0 DEF Calls
  <2>2. TableInv' /\ CallInv' /\ call' \in [Threads -> Calls]
    BY <1>20, <2>1, CallStep DEF SignReturns
  <2>3. TypeOK' /\ ActiveInv'
    BY <1>20, <2>2 DEF SignReturns, history, TypeOK, ActiveInv
  <2> QED
    BY <2>2, <2>3
<1>21. ASSUME NEW t \in Threads, BufferTooSmall(t) PROVE TypeInv'
  <2>1. TableInv' /\ CallInv' /\ call' \in [Threads -> Calls]
    BY <1>21, <1>a, CallStep DEF BufferTooSmall, Return
  <2>2. call[t].h \in Handles /\ call[t].sig \in Sigs
    BY <1>21, <1>a DEF BufferTooSmall, CallInv, CallOK, TypeOK, Calls
  <2>3. /\ heap' \in [Objs -> SessionRecs]
        /\ \A y \in Objs : heap'[y].signActive = heap[y].signActive
    BY <1>21, <2>2, CacheType DEF BufferTooSmall
  <2>4. TypeOK' /\ ActiveInv'
    BY <1>21, <2>1, <2>3 DEF BufferTooSmall, history, TypeOK, ActiveInv
  <2> QED
    BY <2>1, <2>4
<1>22. ASSUME NEW t \in Threads, CopyOut(t) PROVE TypeInv'
  <2>1. TableInv' /\ CallInv' /\ call' \in [Threads -> Calls]
    BY <1>22, <1>a, CallStep DEF CopyOut, Return
  <2>2. call[t].h \in Handles
    BY <1>22, <1>a DEF CopyOut, CallInv, CallOK
  <2>3. /\ heap' \in [Objs -> SessionRecs]
        /\ \A y \in Objs : heap'[y].signActive => heap[y].signActive
    <3>1. clearSignStateByHandle(call[t].h)
      BY <1>22 DEF CopyOut
    <3>2. \A y \in Objs : Cleared(heap[y]).signActive = FALSE
      BY RecordTypes DEF TypeOK
    <3> QED
      BY <2>2, <3>1, <3>2, ClearByHandleType DEF Objs
  <2>4. TypeOK' /\ ActiveInv'
    <3>1. answered' \in [Ops -> Nat]
      BY <1>22, CountType DEF CopyOut, TypeOK
    <3> QED
      BY <1>22, <2>1, <2>3, <3>1 DEF CopyOut, TypeOK, ActiveInv
  <2> QED
    BY <2>1, <2>4
<1>23. CASE UNCHANGED vars
  BY <1>23 DEF vars, TypeOK, TableInv, CallInv, CallOK, ActiveInv
<1>24. ASSUME NEW t \in Threads, HeldUpStep(t) PROVE TypeInv'
  <2>1. auth' \in [Threads -> AuthStates]
    BY <1>24, AuthType DEF HeldUpStep
  <2>2. UNCHANGED <<initialized, sessions, nextID, heap, call, allocs, history>>
    BY <1>24 DEF HeldUpStep
  <2> QED
    BY <2>1, <2>2 DEF history, TypeOK, TableInv, CallInv, CallOK, ActiveInv
<1>25. ASSUME NEW t \in Threads, Enter(t) PROVE TypeInv'
  BY <1>25, <1>1, <1>2, <1>3, <1>5, <1>6, <1>7, <1>11, <1>12, <1>13, <1>15, <1>16,
     <1>24, HeldUpSteps DEF Enter
<1>26. ASSUME NEW t \in Threads, Progress(t) \/ LoginEnds(t) PROVE TypeInv'
  BY <1>26, <1>4, <1>8, <1>9, <1>10, <1>17, <1>18, <1>19, <1>20, <1>21, <1>22,
     <1>24, HeldUpSteps DEF Progress, LoginEnds
<1> QED
  BY <1>23, <1>25, <1>26 DEF Next

\* Types, session table and call handles are as TypeInv says in every
\* reachable state.
THEOREM TypeInvariant == Spec => []TypeInv
  BY InitTypeInv, StepTypeInv, PTL DEF Spec

\* Type correctness: the values of all variables, the bound on the data that
\* appendSignBuffer accumulates and on the sends of withRetryOnAuth.
THEOREM TypeCorrect == Spec => []TypeOK
<1>1. TypeInv => TypeOK
  BY DEF TypeInv
<1> QED
  BY <1>1, TypeInvariant, PTL

\* A call that looks its handle up again after a remote call finds the session
\* it started on, or none.
THEOREM HandleSafety == Spec => []HandleStillMine
<1>1. TypeInv => HandleStillMine
  BY DEF TypeInv, CallInv, CallOK, HandleStillMine
<1> QED
  BY <1>1, TypeInvariant, PTL
=============================================================================
