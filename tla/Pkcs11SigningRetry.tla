-------------------------- MODULE Pkcs11SigningRetry --------------------------
(***************************************************************************)
(* What the signing functions give a caller who answers                    *)
(* CKR_BUFFER_TOO_SMALL as told, by repeating the same call with a buffer  *)
(* of the length returned: the signature is the one asked for, the         *)
(* operation outlives the short buffer, and SigningPromise is kept.        *)
(* Without CallersRetryAsTold the first and the last are false             *)
(* (ShortRetryStaleSignature.cfg).                                         *)
(***************************************************************************)
EXTENDS Pkcs11SigningSafety

\* The signing fields of a struct are those of the operation last begun on it,
\* and what is cached was made by the service for that operation.
StructAsAsked(x) ==
    /\ heap[x].signActive =>
         /\ heap[x].signKeyIndex = asked[current[x]].key
         /\ heap[x].signMech = asked[current[x]].mech
         /\ heap[x].signBuffer = asked[current[x]].fed
    /\ heap[x].cachedSignature # NoSig =>
         /\ heap[x].signActive
         /\ heap[x].cachedSignature.op = current[x]
         /\ heap[x].cachedSignature.key = asked[current[x]].key
         /\ heap[x].cachedSignature.mech = asked[current[x]].mech
         /\ issued[current[x]] = 1

\* A signing call sends what its caller means, for an operation not yet
\* answered; what it holds was made for that operation.  A signature that will
\* not fit came from the service just now, so the operation is still active.
CallAsAsked(t) ==
    InSign(t) =>
        /\ call[t].data = call[t].want
        /\ answered[call[t].op] = 0
        /\ call[t].pc # "sending" =>
             /\ call[t].sig = [op   |-> call[t].op,
                               key  |-> asked[call[t].op].key,
                               mech |-> asked[call[t].op].mech,
                               data |-> call[t].want]
             /\ issued[call[t].op] = 1
        /\ call[t].buf < SigLen => heap[call[t].obj].signActive

\* The operation of an open session has not been answered yet.  (A session
\* closed under its call keeps an answered operation active, out of reach.)
OpenUnanswered ==
    \A h \in Handles :
        sessions[h] # 0 /\ heap[sessions[h]].signActive =>
            answered[current[sessions[h]]] = 0

RetryInv ==
    /\ \A x \in Objs : StructAsAsked(x)
    /\ \A t \in Threads : CallAsAsked(t)
    /\ OpenUnanswered
    /\ \A o \in Ops : answered[o] # 0 => o <= nOps

RInv == IInv /\ RetryInv

-----------------------------------------------------------------------------
SameSigning(x) ==
    /\ heap'[x].signActive = heap[x].signActive
    /\ heap'[x].signMech = heap[x].signMech
    /\ heap'[x].signKeyIndex = heap[x].signKeyIndex
    /\ heap'[x].signBuffer = heap[x].signBuffer
    /\ heap'[x].cachedSignature = heap[x].cachedSignature

\* A step that is not part of a signing function: it may close sessions, open
\* one without an operation, change login flags and move other calls.
QuietStep ==
    /\ UNCHANGED history
    /\ \A t \in Threads : InSign(t)' <=> InSign(t)
    /\ \A t \in Threads : InSign(t) => call'[t] = call[t]
    /\ \A x \in Objs :
         \/ SameSigning(x)
         \/ /\ ~heap'[x].signActive /\ heap'[x].cachedSignature = NoSig
            /\ \A t \in Threads : InSign(t) => call[t].obj # x
    /\ \A h \in Handles : sessions'[h] # 0 =>
         /\ sessions'[h] \in Objs
         /\ sessions'[h] = sessions[h] \/ ~heap'[sessions'[h]].signActive

\* A step outside the signing calls preserves what callers are promised.
LEMMA QuietPreserves == ASSUME RInv, QuietStep PROVE RetryInv'
<1> USE DEF RInv, RetryInv
<1>1. ASSUME NEW x \in Objs PROVE StructAsAsked(x)'
  <2>1. CASE SameSigning(x)
    BY <2>1 DEF QuietStep, history, StructAsAsked, SameSigning
  <2>2. CASE ~heap'[x].signActive /\ heap'[x].cachedSignature = NoSig
    BY <2>2 DEF StructAsAsked
  <2> QED
    BY <2>1, <2>2 DEF QuietStep
<1>2. ASSUME NEW t \in Threads PROVE CallAsAsked(t)'
  <2>1. CASE InSign(t)
    <3>1. call[t].obj \in Objs
      BY <2>1, InSignFacts
    <3>2. /\ call'[t] = call[t]
          /\ heap'[call[t].obj].signActive = heap[call[t].obj].signActive
      BY <2>1, <3>1 DEF QuietStep, SameSigning
    <3> QED
      BY <2>1, <3>2 DEF QuietStep, history, CallAsAsked
  <2> QED
    BY <2>1 DEF QuietStep, CallAsAsked
<1>3. OpenUnanswered'
  <2> SUFFICES ASSUME NEW h \in Handles, sessions'[h] # 0,
                      heap'[sessions'[h]].signActive
               PROVE  answered'[current'[sessions'[h]]] = 0
    BY DEF OpenUnanswered
  <2>1. sessions'[h] = sessions[h] /\ heap[sessions[h]].signActive
    BY DEF QuietStep, SameSigning
  <2> QED
    BY <2>1 DEF QuietStep, history, OpenUnanswered
<1>4. (\A o \in Ops : answered[o] # 0 => o <= nOps)'
  BY DEF QuietStep, history
<1> QED
  BY <1>1, <1>2, <1>3, <1>4

\* A step of thread t that works on one struct x and one operation o, which no
\* other struct and no other call is on, leaves the others as they were asked.
LEMMA OthersAsAsked ==
    ASSUME RInv, NEW t \in Threads, NEW x \in Objs, NEW o \in Ops,
           UNCHANGED sessions,
           \A u \in Threads : u # t => call'[u] = call[u],
           \A u \in Threads : u # t /\ InSign(u) => call[u].obj # x,
           \A y \in Objs : y # x => /\ heap'[y] = heap[y]
                                    /\ current'[y] = current[y]
                                    /\ current[y] # o,
           \A p \in Ops : p # o => /\ asked'[p] = asked[p]
                                   /\ issued'[p] = issued[p]
                                   /\ answered'[p] = answered[p],
           answered'[o] # 0 => o <= nOps',
           nOps <= nOps', nOps \in Nat, nOps' \in Nat,
           StructAsAsked(x)',
           CallAsAsked(t)',
           \A h \in Handles : sessions[h] = x /\ heap'[x].signActive =>
               answered'[current'[x]] = 0
    PROVE  RetryInv'
<1> USE DEF RInv, RetryInv
<1>1. ASSUME NEW y \in Objs, y # x PROVE StructAsAsked(y)'
  <2>1. StructAsAsked(y) /\ (heap[y].signActive => current[y] \in Ops)
    BY DEF IInv, TypeInv, ActiveInv
  <2> QED
    BY <1>1, <2>1 DEF StructAsAsked
<1>2. ASSUME NEW u \in Threads, u # t PROVE CallAsAsked(u)'
  <2>1. call'[u] = call[u] /\ (InSign(u)' <=> InSign(u))
    BY <1>2 DEF InSign
  <2>2. CASE InSign(u)
    <3>1. /\ call[u].obj \in Objs /\ call[u].obj # x
          /\ call[u].op \in Ops /\ call[u].op # o
      BY <1>2, <2>2, InSignFacts
    <3> QED
      BY <2>1, <2>2, <3>1 DEF CallAsAsked
  <2> QED
    BY <2>1, <2>2 DEF CallAsAsked
<1>3. OpenUnanswered'
  <2> SUFFICES ASSUME NEW h \in Handles, sessions[h] # 0,
                      heap'[sessions[h]].signActive
               PROVE  answered'[current'[sessions[h]]] = 0
    BY DEF OpenUnanswered
  <2>1. sessions[h] \in Objs
    BY TableObjs
  <2>2. CASE sessions[h] # x
    <3>1. current[sessions[h]] \in Ops
      BY <2>1, <2>2 DEF IInv, TypeInv, ActiveInv
    <3> QED
      BY <2>1, <2>2, <3>1 DEF OpenUnanswered
  <2> QED
    BY <2>2
<1>4. (\A p \in Ops : answered[p] # 0 => p <= nOps)'
  <2> SUFFICES ASSUME NEW p \in Ops, answered'[p] # 0 PROVE p <= nOps'
    OBVIOUS
  <2>1. p = o \/ p <= nOps
    OBVIOUS
  <2> QED
    BY <2>1 DEF Ops
<1> QED
  BY <1>1, <1>2, <1>3, <1>4

\* Nothing is asked, cached or answered initially.
LEMMA InitRetryInv == Init => RetryInv
<1> SUFFICES ASSUME Init PROVE RetryInv
  OBVIOUS
<1>1. \A t \in Threads : ~InSign(t)
  BY RecordTypes DEF Init, InSign
<1>2. \A x \in Objs : ~heap[x].signActive /\ heap[x].cachedSignature = NoSig
  BY DEF Init, NewSession
<1> QED
  BY <1>1, <1>2 DEF Init, RetryInv, StructAsAsked, CallAsAsked, OpenUnanswered

\* Every action preserves the invariant for callers who retry as told, one
\* step per action.
LEMMA StepRetryInv ==
    ASSUME CallersRetryAsTold, RInv, [Next]_vars
    PROVE  RetryInv'
<1> USE DEF RInv
<1>a. /\ NoCall.pc = "idle" /\ call \in [Threads -> Calls]
      /\ heap \in [Objs -> SessionRecs] /\ TypeOK /\ TypeInv
  BY RecordTypes DEF IInv, TypeInv, TypeOK
<1>b. \A t \in Threads : InSign(t) => call[t].obj \in Objs /\ call[t].obj <= allocs
  BY RecordTypes DEF IInv, TypeInv, CallInv, CallOK, InSign
<1>c. /\ asked \in [Ops -> [key : Slots, mech : Mechs \cup {0}, fed : Nat]]
      /\ answered \in [Ops -> Nat] /\ issued \in [Ops -> Nat]
      /\ current \in [Objs -> 0..MaxOps] /\ nOps \in Nat
  BY SigningAssumption DEF IInv, TypeInv, TypeOK
<1>d. \A h \in Handles : sessions[h] # 0 => sessions[h] \in Objs
  BY TableObjs
<1>1. ASSUME NEW t \in Threads, C_Initialize(t) PROVE RetryInv'
  <2>1. QuietStep
    BY <1>1 DEF C_Initialize, history, QuietStep, SameSigning, InSign
  <2> QED
    BY <2>1, QuietPreserves
<1>2. ASSUME NEW t \in Threads, C_Finalize(t) PROVE RetryInv'
  <2>1. QuietStep
    BY <1>2, <1>d DEF C_Finalize, history, QuietStep, SameSigning, InSign
  <2> QED
    BY <2>1, QuietPreserves
<1>3. ASSUME NEW t \in Threads, NEW s \in Slots, C_OpenSession(t, s) PROVE RetryInv'
  <2>1. /\ allocs \in Nat /\ allocs + 1 \in Objs /\ nextID \in Handles
        /\ sessions \in [Handles -> 0..MaxSessions]
    BY <1>3, SigningAssumption
       DEF C_OpenSession, IInv, TypeInv, TypeOK, TableInv, Handles, Objs
  <2>2. /\ ~heap'[allocs + 1].signActive
        /\ heap'[allocs + 1].cachedSignature = NoSig
    BY <1>3, <1>a, <2>1 DEF C_OpenSession, NewSession
  <2>3. \A x \in Objs : x # allocs + 1 => heap'[x] = heap[x]
    BY <1>3, <1>a DEF C_OpenSession
  <2>4. \A u \in Threads : InSign(u) => u # t /\ call[u].obj # allocs + 1
    BY <1>3, <1>a, <1>b, <2>1 DEF C_OpenSession, Enters, Outside, InSign, Objs
  <2>5. \A u \in Threads : u # t => call'[u] = call[u]
    BY <1>3, <1>a DEF C_OpenSession
  <2>6. ~InSign(t) /\ ~InSign(t)'
    BY <1>3, <1>a DEF C_OpenSession, Enters, Outside, InSign, SessionCall
  <2>7. /\ sessions'[nextID] = allocs + 1
        /\ \A h \in Handles : h # nextID => sessions'[h] = sessions[h]
    BY <1>3, <2>1 DEF C_OpenSession
  <2>8. UNCHANGED history
    BY <1>3 DEF C_OpenSession
  <2>9. QuietStep
    BY <1>d, <2>1, <2>2, <2>3, <2>4, <2>5, <2>6, <2>7, <2>8
       DEF QuietStep, SameSigning, InSign
  <2> QED
    BY <2>9, QuietPreserves
<1>4. ASSUME NEW t \in Threads, NEW S, NEW v \in BOOLEAN, SetLoggedIn(S, v),
             call[t].pc \notin {"sending", "signed", "copy"},
             \/ UNCHANGED call
             \/ \E c : /\ call' = [call EXCEPT ![t] = c]
                       /\ c.pc \notin {"sending", "signed", "copy"},
             UNCHANGED <<sessions, history>>
      PROVE RetryInv'
  <2>1. \A x \in Objs : SameSigning(x)
    BY <1>4, <1>a, SetLoggedInType DEF SameSigning
  <2>2. \A u \in Threads : u # t => call'[u] = call[u]
    BY <1>4, <1>a
  <2>3. ~InSign(t) /\ ~InSign(t)'
    BY <1>4, <1>a DEF InSign
  <2>4. QuietStep
    BY <1>4, <1>d, <2>1, <2>2, <2>3 DEF QuietStep, InSign
  <2> QED
    BY <2>4, QuietPreserves
<1>5. ASSUME NEW t \in Threads, NEW a \in BOOLEAN, OpenSessionLogin(t, a)
      PROVE RetryInv'
  BY <1>4, <1>5, <1>a DEF OpenSessionLogin, Return
<1>6. ASSUME NEW t \in Threads, LoginSession(t) PROVE RetryInv'
  <2>1. [call[t] EXCEPT !.pc = "loginAll"].pc = "loginAll"
    BY <1>a DEF Calls
  <2> QED
    BY <1>4, <1>6, <2>1 DEF LoginSession
<1>7. ASSUME NEW t \in Threads, LoginSlot(t) PROVE RetryInv'
  BY <1>4, <1>7, <1>a DEF LoginSlot, Return
<1>8. ASSUME NEW t \in Threads, NEW h \in Handles, C_Logout(t, h) PROVE RetryInv'
  BY <1>4, <1>8, <1>a DEF C_Logout, Enters, Outside
<1>9. ASSUME NEW t \in Threads, NEW h \in Handles,
             C_CloseSession(t, h) \/ C_Login(t, h)
      PROVE RetryInv'
  <2>1. ~InSign(t) /\ ~InSign(t)' /\ \A u \in Threads : u # t => call'[u] = call[u]
    BY <1>9, <1>a DEF C_CloseSession, C_Login, Enters, Outside, InSign, SessionCall
  <2>2. UNCHANGED <<heap, history>>
    BY <1>9 DEF C_CloseSession, C_Login
  <2>3. \A g \in Handles : sessions'[g] \in {0, sessions[g]}
    BY <1>9, <1>a DEF C_CloseSession, C_Login, TypeOK
  <2>4. QuietStep
    BY <1>d, <2>1, <2>2, <2>3 DEF QuietStep, SameSigning, InSign
  <2> QED
    BY <2>4, QuietPreserves
<1>10. ASSUME NEW t \in Threads, NEW s \in Slots, C_CloseAllSessions(t, s)
       PROVE RetryInv'
  <2>1. \A g \in Handles : sessions'[g] \in {0, sessions[g]}
    BY <1>10 DEF C_CloseAllSessions
  <2>2. QuietStep
    BY <1>10, <1>d, <2>1 DEF C_CloseAllSessions, history, QuietStep, SameSigning, InSign
  <2> QED
    BY <2>2, QuietPreserves
<1>11. ASSUME NEW t \in Threads, LoginFails(t) PROVE RetryInv'
  <2>1. ~InSign(t) /\ ~InSign(t)' /\ \A u \in Threads : u # t => call'[u] = call[u]
    BY <1>11, <1>a DEF LoginFails, Return, InSign
  <2>2. QuietStep
    BY <1>11, <1>d, <2>1 DEF LoginFails, history, QuietStep, SameSigning, InSign
  <2> QED
    BY <2>2, QuietPreserves
<1>12. CASE UNCHANGED vars
  <2>1. QuietStep
    BY <1>12, <1>d DEF vars, history, QuietStep, SameSigning, InSign
  <2> QED
    BY <2>1, QuietPreserves
<1>13. ASSUME NEW t \in Threads, NEW h \in Handles, NEW m \in Mechs,
              NEW k \in Slots, C_SignInit(t, h, m, k)
       PROVE RetryInv'
  <2> DEFINE a == [key |-> k, mech |-> m, fed |-> 0]
  <2>x. PICK x \in Objs : x = sessions[h]
    BY <1>13, <1>d DEF C_SignInit
  <2>o. PICK o \in Ops : o = nOps + 1
    BY <1>13, <1>c, SigningAssumption DEF C_SignInit, Ops
  <2>1. ~InSign(t)
    BY <1>13, <1>a DEF C_SignInit, Enters, Outside, InSign
  <2>2. /\ \A y \in Objs : y # x => heap'[y] = heap[y] /\ current'[y] = current[y]
        /\ current'[x] = o
        /\ heap'[x] = Begun(heap[x], m, k)
        /\ asked'[o] = a
        /\ \A p \in Ops : p # o => asked'[p] = asked[p]
    BY <1>13, <1>a, <1>c, <2>x, <2>o DEF C_SignInit
  <2>3. \A u \in Threads : InSign(u) => call[u].obj # x
    BY <1>13, <2>1, <2>x DEF C_SignInit, Exclusive
  <2>4. UNCHANGED <<sessions, call, issued, answered>> /\ nOps' = o
    BY <1>13, <2>o DEF C_SignInit
  <2>5. \A y \in Objs : current[y] # o
    BY <1>c, <2>o DEF IInv, SignInv, OpInv
  <2>6. answered[o] = 0
    BY <1>c, <2>o DEF RetryInv
  <2>7. StructAsAsked(x)'
    <3>1. ~heap[x].signActive /\ heap[x].cachedSignature = NoSig
      BY <1>13, <2>x DEF C_SignInit, RetryInv, StructAsAsked
    <3>2. /\ heap'[x].signKeyIndex = k /\ heap'[x].signMech = m
          /\ heap'[x].signBuffer = 0
          /\ heap'[x].cachedSignature = NoSig
      BY <2>2, <3>1 DEF Begun
    <3> QED
      BY <2>2, <2>4, <3>2 DEF StructAsAsked
  <2>8. CallAsAsked(t)'
    BY <2>1, <2>4 DEF CallAsAsked, InSign
  <2>9. nOps <= nOps' /\ nOps' \in Nat
    BY <1>c, <2>4, <2>o
  <2> QED
    BY <1>c, <2>1, <2>2, <2>3, <2>4, <2>5, <2>6, <2>7, <2>8, <2>9, OthersAsAsked
<1>14. ASSUME NEW t \in Threads, NEW h \in Handles, NEW n \in PartLens,
              C_SignUpdate(t, h, n)
       PROVE RetryInv'
  <2>x. PICK x \in Objs : x = sessions[h]
    BY <1>14, <1>d DEF C_SignUpdate
  <2>1. ~InSign(t) /\ heap[x].signActive /\ n \in Nat
    BY <1>14, <1>a, <2>x, SigningAssumption DEF C_SignUpdate, Enters, Outside, InSign
  <2>o. PICK o \in Ops : o = current[x]
    BY <2>1 DEF IInv, TypeInv, ActiveInv
  <2>2. \A y \in Objs : y # x => current[y] # o
    BY <2>o DEF IInv, TypeInv, ActiveInv, SignInv, OpInv, Ops
  <2>3. /\ \A y \in Objs : y # x => heap'[y] = heap[y]
        /\ heap'[x] = Appended(heap[x], n)
        /\ asked'[o] = Fed(asked[o], n)
        /\ \A p \in Ops : p # o => asked'[p] = asked[p]
    BY <1>14, <1>a, <1>c, <2>x, <2>o DEF C_SignUpdate
  <2>4. \A u \in Threads : InSign(u) => call[u].obj # x
    BY <1>14, <2>1, <2>x DEF C_SignUpdate, Exclusive
  <2>5. UNCHANGED <<sessions, call, nOps, current, issued, answered>>
    BY <1>14 DEF C_SignUpdate
  <2>6. StructAsAsked(x)'
    <3>1. heap[x] \in SessionRecs /\ heap[x].cachedSignature = NoSig
      BY <1>14, <1>a, <2>x DEF C_SignUpdate
    <3>2. asked[o] \in [key : Slots, mech : Mechs \cup {0}, fed : Nat]
      BY <1>c
    <3>3. /\ Appended(heap[x], n).signKeyIndex = heap[x].signKeyIndex
          /\ Appended(heap[x], n).signMech = heap[x].signMech
          /\ Appended(heap[x], n).signBuffer = heap[x].signBuffer + n
          /\ Appended(heap[x], n).cachedSignature = heap[x].cachedSignature
      BY <3>1 DEF Appended, SessionRecs
    <3>4. /\ Fed(asked[o], n).key = asked[o].key
          /\ Fed(asked[o], n).mech = asked[o].mech
          /\ Fed(asked[o], n).fed = asked[o].fed + n
      BY <3>2 DEF Fed
    <3>5. StructAsAsked(x)
      BY <2>1 DEF RetryInv
    <3> QED
      BY <2>1, <2>3, <2>5, <2>o, <3>1, <3>3, <3>4, <3>5 DEF StructAsAsked
  <2>7. CallAsAsked(t)'
    BY <2>1, <2>5 DEF CallAsAsked, InSign
  <2>8. answered[o] = 0
    BY <1>14, <2>x, <2>o DEF C_SignUpdate, RetryInv, OpenUnanswered
  <2>9. nOps <= nOps' /\ nOps' \in Nat /\ current'[x] = o
    BY <1>c, <2>5, <2>o
  <2> QED
    BY <1>c, <2>1, <2>2, <2>3, <2>4, <2>5, <2>6, <2>7, <2>8, <2>9, OthersAsAsked
<1>15. ASSUME NEW t \in Threads, NEW h \in Handles, NEW data \in Nat,
              NEW buf \in Nat, SignCall(t, h, data, data, buf)
       PROVE RetryInv'
  <2> DEFINE c == call'[t]
  <2>x. PICK x \in Objs : x = sessions[h]
    BY <1>15, <1>d DEF SignCall
  <2>o. PICK o \in Ops : o = current[x]
    BY <1>15, <2>x DEF SignCall, IInv, TypeInv, ActiveInv
  <2>1. /\ call' = [call EXCEPT ![t] = c]
        /\ c.obj = x /\ c.op = o /\ c.data = data /\ c.want = data /\ c.buf = buf
        /\ \/ /\ heap[x].cachedSignature # NoSig
              /\ c.pc = "copy"
              /\ c.sig = heap[x].cachedSignature
              /\ clearSignState(x)
           \/ /\ heap[x].cachedSignature = NoSig
              /\ c.pc = "sending"
              /\ UNCHANGED heap
    BY <1>15, <1>a, <2>x, <2>o, SignCallFacts
  <2>2. /\ UNCHANGED <<sessions, nOps, current, asked, issued, answered>>
        /\ heap[x].signActive
        /\ call[t] = NoCall
        /\ Exclusive(t, h) /\ RetryAsTold(x, data, buf)
    BY <1>15, <2>x DEF SignCall, Enters, Outside, history
  <2>3. ~InSign(t) /\ \A u \in Threads : InSign(u) => u # t /\ call[u].obj # x
    BY <1>a, <2>2, <2>x DEF InSign, Exclusive
  <2>4. \A u \in Threads : u # t => call'[u] = call[u]
    BY <1>a, <2>1
  <2>5. \A y \in Objs : y # x => current[y] # o
    BY <2>o DEF IInv, TypeInv, ActiveInv, SignInv, OpInv, Ops
  <2>6. /\ \A y \in Objs : y # x => heap'[y] = heap[y]
        /\ \/ heap' = heap
           \/ heap'[x].signActive = FALSE /\ heap'[x].cachedSignature = NoSig
    BY <1>a, <2>1, ClearType, RecordTypes
  <2>7. answered[o] = 0
    BY <1>15, <2>x, <2>o, <2>2 DEF SignCall, RetryInv, OpenUnanswered
  <2>8. StructAsAsked(x)'
    <3>1. StructAsAsked(x)
      BY <2>1 DEF RetryInv
    <3> QED
      BY <2>2, <2>6, <3>1 DEF StructAsAsked
  <2>9. CallAsAsked(t)'
    <3>1. CASE c.pc = "copy"
      <4>1. /\ heap[x].cachedSignature # NoSig
            /\ c.sig = heap[x].cachedSignature
            /\ c.sig \in Sigs
        BY <1>a, <2>1, <3>1 DEF SessionRecs
      <4>2. buf >= SigLen /\ data = c.sig.data
        BY <2>2, <4>1 DEF RetryAsTold
      <4>3. /\ c.sig.op = o /\ c.sig.key = asked[o].key
            /\ c.sig.mech = asked[o].mech /\ issued[o] = 1
        BY <2>o, <4>1 DEF RetryInv, StructAsAsked
      <4>4. c.sig = [op |-> o, key |-> asked[o].key, mech |-> asked[o].mech,
                     data |-> data]
        BY <4>1, <4>2, <4>3 DEF Sigs
      <4>5. ~(buf < SigLen)
        BY <4>2, SigningAssumption
      <4> HIDE DEF c
      <4> QED
        BY <2>1, <2>2, <2>7, <4>3, <4>4, <4>5 DEF CallAsAsked, c
    <3>2. CASE c.pc = "sending"
      <4>1. heap' = heap
        BY <2>1, <3>2
      <4> QED
        BY <2>1, <2>2, <2>7, <3>2, <4>1 DEF CallAsAsked
    <3> QED
      BY <2>1, <3>1, <3>2
  <2> HIDE DEF c
  <2>10. nOps <= nOps' /\ nOps' \in Nat /\ current'[x] = o
    BY <1>c, <2>2, <2>o
  <2> QED
    BY <1>c, <2>1, <2>2, <2>3, <2>4, <2>5, <2>6, <2>7, <2>8, <2>9, <2>10,
       OthersAsAsked
<1>16. ASSUME NEW t \in Threads, NEW h \in Handles, NEW n \in PartLens,
              NEW buf \in BufLens, C_Sign(t, h, n, buf)
       PROVE RetryInv'
  BY <1>15, <1>16, SigningAssumption DEF C_Sign
<1>17. ASSUME NEW t \in Threads, NEW h \in Handles, NEW buf \in BufLens,
              C_SignFinal(t, h, buf)
       PROVE RetryInv'
  <2>1. heap[sessions[h]].signBuffer \in Nat /\ sessions[h] \in Objs /\ buf \in Nat
    BY <1>17, <1>a, SigningAssumption, FinalArgs
  <2>2. asked[current[sessions[h]]].fed = heap[sessions[h]].signBuffer
    BY <1>17, <2>1 DEF C_SignFinal, RetryInv, StructAsAsked
  <2> QED
    BY <1>15, <1>17, <2>1, <2>2 DEF C_SignFinal
<1>e. ASSUME NEW t \in Threads, InSign(t)
      PROVE  \E x \in Objs, o \in Ops :
                /\ x = call[t].obj /\ o = call[t].op /\ o = current[x]
                /\ \A y \in Objs : y # x => current[y] # o
                /\ \A u \in Threads : u # t /\ InSign(u) => call[u].obj # x
                /\ \A h \in Handles : sessions[h] = x => h = call[t].h
                /\ sessions[call[t].h] \in {0, x} /\ call[t].h \in Handles
                /\ StructAsAsked(x) /\ answered[o] = 0 /\ o <= nOps
  <2>1. /\ call[t].obj \in Objs /\ call[t].op \in Ops
        /\ call[t].op = current[call[t].obj]
        /\ \A u \in Threads : u # t /\ InSign(u) => call[u].obj # call[t].obj
        /\ \A h \in Handles : sessions[h] = call[t].obj => h = call[t].h
        /\ sessions[call[t].h] \in {0, call[t].obj} /\ call[t].h \in Handles
    BY <1>e, InSignFacts
  <2>2. \A y \in Objs : y # call[t].obj => current[y] # call[t].op
    BY <2>1 DEF IInv, SignInv, OpInv, Ops
  <2>3. call[t].op <= nOps
    BY <2>1 DEF IInv, SignInv, OpInv
  <2>4. StructAsAsked(call[t].obj) /\ answered[call[t].op] = 0
    BY <1>e, <2>1 DEF RetryInv, CallAsAsked
  <2> QED
    BY <2>1, <2>2, <2>3, <2>4
<1>18. ASSUME NEW t \in Threads, ServiceSigns(t) PROVE RetryInv'
  <2>1. InSign(t)
    BY <1>18 DEF ServiceSigns, InSign
  <2>x. PICK x \in Objs, o \in Ops :
          /\ x = call[t].obj /\ o = call[t].op /\ o = current[x]
          /\ \A y \in Objs : y # x => current[y] # o
          /\ \A u \in Threads : u # t /\ InSign(u) => call[u].obj # x
          /\ StructAsAsked(x) /\ answered[o] = 0
    BY <2>1, <1>e
  <2> DEFINE sig == [op |-> o, key |-> heap[x].signKeyIndex,
                     mech |-> heap[x].signMech, data |-> call[t].data]
             c == [call[t] EXCEPT !.pc = "signed", !.sig = sig]
  <2>2. /\ heap[x].signActive /\ heap[x].cachedSignature = NoSig
        /\ issued[o] = 0
        /\ call[t].data = call[t].want
    <3>1. call[t].pc = "sending"
      BY <1>18 DEF ServiceSigns
    <3>2. SignCallOK(t) /\ CallAsAsked(t)
      BY DEF IInv, SignInv, RetryInv
    <3> QED
      BY <2>1, <2>x, <3>1, <3>2 DEF SignCallOK, CallAsAsked
  <2>3. /\ sig.op = o /\ sig.key = asked[o].key /\ sig.mech = asked[o].mech
        /\ sig.data = call[t].want
    BY <2>2, <2>x DEF StructAsAsked
  <2>4. sig = [op |-> o, key |-> asked[o].key, mech |-> asked[o].mech,
               data |-> call[t].want]
    BY <2>3
  <2>5. call' = [call EXCEPT ![t] = c]
    BY <1>18, <2>x DEF ServiceSigns
  <2>6. /\ c.pc = "signed" /\ c.obj = x /\ c.op = o /\ c.sig = sig
        /\ c.data = call[t].data /\ c.want = call[t].want /\ c.buf = call[t].buf
    BY <1>a, <2>x DEF Calls
  <2> HIDE DEF c, sig
  <2>7. call'[t] = c /\ \A u \in Threads : u # t => call'[u] = call[u]
    BY <1>a, <2>5
  <2>8. UNCHANGED <<sessions, heap, nOps, current, asked, answered>>
    BY <1>18 DEF ServiceSigns
  <2>9. issued'[o] = 1 /\ \A p \in Ops : p # o => issued'[p] = issued[p]
    BY <1>18, <1>c, <2>2, <2>x, CountType DEF ServiceSigns
  <2>10. StructAsAsked(x)'
    BY <2>2, <2>8, <2>x DEF StructAsAsked
  <2>11. CallAsAsked(t)'
    BY <2>2, <2>4, <2>6, <2>7, <2>8, <2>9, <2>x DEF CallAsAsked
  <2>12. nOps <= nOps' /\ nOps' \in Nat
    BY <1>c, <2>8
  <2> QED
    BY <1>c, <2>7, <2>8, <2>9, <2>10, <2>11, <2>12, <2>x, OthersAsAsked
<1>19. ASSUME NEW t \in Threads, Unauthorized(t) \/ SignReturns(t) PROVE RetryInv'
  <2>1. InSign(t) /\ CallAsAsked(t)
    BY <1>19 DEF Unauthorized, SignReturns, InSign, RetryInv
  <2>x. PICK x \in Objs, o \in Ops :
          /\ x = call[t].obj /\ o = call[t].op /\ o = current[x]
          /\ \A y \in Objs : y # x => current[y] # o
          /\ \A u \in Threads : u # t /\ InSign(u) => call[u].obj # x
          /\ StructAsAsked(x) /\ answered[o] = 0
    BY <2>1, <1>e
  <2>2. PICK c : /\ call' = [call EXCEPT ![t] = c]
                 /\ c.obj = x /\ c.op = o /\ c.sig = call[t].sig
                 /\ c.data = call[t].data /\ c.want = call[t].want
                 /\ c.buf = call[t].buf
                 /\ \/ c.pc = "sending"
                    \/ c.pc = "copy" /\ call[t].pc = "signed"
    <3>1. CASE Unauthorized(t)
      <4> DEFINE d == [call[t] EXCEPT !.attempt = 2]
      <4>1. call' = [call EXCEPT ![t] = d] /\ call[t].pc = "sending"
        BY <3>1 DEF Unauthorized
      <4>2. /\ d.obj = x /\ d.op = o /\ d.sig = call[t].sig
            /\ d.data = call[t].data /\ d.want = call[t].want
            /\ d.buf = call[t].buf /\ d.pc = call[t].pc
        BY <1>a, <2>x DEF Calls
      <4> HIDE DEF d
      <4> QED
        BY <4>1, <4>2
    <3>2. CASE SignReturns(t)
      <4> DEFINE d == [call[t] EXCEPT !.pc = "copy"]
      <4>1. call' = [call EXCEPT ![t] = d] /\ call[t].pc = "signed"
        BY <3>2 DEF SignReturns
      <4>2. /\ d.obj = x /\ d.op = o /\ d.sig = call[t].sig
            /\ d.data = call[t].data /\ d.want = call[t].want
            /\ d.buf = call[t].buf /\ d.pc = "copy"
        BY <1>a, <2>x DEF Calls
      <4> HIDE DEF d
      <4> QED
        BY <4>1, <4>2
    <3> QED
      BY <1>19, <3>1, <3>2
  <2>3. call'[t] = c /\ \A u \in Threads : u # t => call'[u] = call[u]
    BY <1>a, <2>2
  <2>4. UNCHANGED <<sessions, heap, nOps, current, asked, issued, answered>>
    BY <1>19 DEF Unauthorized, SignReturns, history
  <2>5. StructAsAsked(x)'
    BY <2>4, <2>x DEF StructAsAsked
  <2>6. CallAsAsked(t)'
    BY <2>1, <2>2, <2>3, <2>4, <2>x DEF CallAsAsked
  <2>7. nOps <= nOps' /\ nOps' \in Nat
    BY <1>c, <2>4
  <2> QED
    BY <1>c, <2>3, <2>4, <2>5, <2>6, <2>7, <2>x, OthersAsAsked
<1>20. ASSUME NEW t \in Threads, InSign(t), Return(t)
       PROVE  ~InSign(t)' /\ CallAsAsked(t)' /\ \A u \in Threads : u # t => call'[u] = call[u]
  BY <1>20, <1>a DEF Return, InSign, CallAsAsked
<1>21. ASSUME NEW t \in Threads, SignFails(t) PROVE RetryInv'
  <2>1. InSign(t)
    BY <1>21 DEF SignFails, InSign
  <2>x. PICK x \in Objs, o \in Ops :
          /\ x = call[t].obj /\ o = current[x]
          /\ \A y \in Objs : y # x => current[y] # o
          /\ \A u \in Threads : u # t /\ InSign(u) => call[u].obj # x
          /\ answered[o] = 0
    BY <2>1, <1>e
  <2>2. /\ ~heap'[x].signActive /\ heap'[x].cachedSignature = NoSig
        /\ \A y \in Objs : y # x => heap'[y] = heap[y]
    <3>1. clearSignState(x)
      BY <1>21, <2>x DEF SignFails
    <3> QED
      BY <1>a, <3>1, ClearType, RecordTypes
  <2>3. /\ UNCHANGED <<sessions, nOps, current, asked, issued, answered>>
        /\ CallAsAsked(t)' /\ \A u \in Threads : u # t => call'[u] = call[u]
    BY <1>20, <1>21, <2>1 DEF SignFails, history
  <2>4. StructAsAsked(x)'
    BY <2>2 DEF StructAsAsked
  <2>5. nOps <= nOps' /\ nOps' \in Nat
    BY <1>c, <2>3
  <2> QED
    BY <1>c, <2>2, <2>3, <2>4, <2>5, <2>x, OthersAsAsked
<1>22. ASSUME NEW t \in Threads, BufferTooSmall(t) PROVE RetryInv'
  <2>1. InSign(t) /\ CallAsAsked(t) /\ call[t].sig \in Sigs
    BY <1>22, InSignFacts DEF BufferTooSmall, InSign, RetryInv
  <2>x. PICK x \in Objs, o \in Ops :
          /\ x = call[t].obj /\ o = call[t].op /\ o = current[x]
          /\ \A y \in Objs : y # x => current[y] # o
          /\ \A u \in Threads : u # t /\ InSign(u) => call[u].obj # x
          /\ sessions[call[t].h] \in {0, x} /\ call[t].h \in Handles
          /\ StructAsAsked(x) /\ answered[o] = 0
    BY <2>1, <1>e
  <2>2. /\ UNCHANGED <<sessions, nOps, current, asked, issued, answered>>
        /\ CallAsAsked(t)' /\ \A u \in Threads : u # t => call'[u] = call[u]
    BY <1>20, <1>22, <2>1 DEF BufferTooSmall, history
  <2>3. /\ sessions[call[t].h] # 0 =>
             heap'[x] = [heap[x] EXCEPT !.cachedSignature = call[t].sig]
        /\ sessions[call[t].h] = 0 => heap'[x] = heap[x]
        /\ \A y \in Objs : y # x => heap'[y] = heap[y]
        /\ heap'[x].signActive = heap[x].signActive
    <3>1. cacheSignResult(call[t].h, call[t].sig)
      BY <1>22 DEF BufferTooSmall
    <3>2. \A y \in Objs : y # 0
      BY DEF Objs
    <3>3. /\ sessions[call[t].h] # 0 =>
               heap'[sessions[call[t].h]]
                 = [heap[sessions[call[t].h]] EXCEPT !.cachedSignature = call[t].sig]
          /\ \A y \in Objs : y # sessions[call[t].h] => heap'[y] = heap[y]
          /\ \A y \in Objs : heap'[y].signActive = heap[y].signActive
      BY <1>a, <2>1, <2>x, <3>1, CacheType
    <3> QED
      BY <2>x, <3>2, <3>3
  <2>4. /\ heap[x].signActive /\ issued[o] = 1
        /\ call[t].sig.op = o /\ call[t].sig.key = asked[o].key
        /\ call[t].sig.mech = asked[o].mech
    BY <1>22, <2>1, <2>x DEF BufferTooSmall, CallAsAsked
  <2>5. heap'[x].signKeyIndex = heap[x].signKeyIndex
        /\ heap'[x].signMech = heap[x].signMech
        /\ heap'[x].signBuffer = heap[x].signBuffer
        /\ heap'[x].cachedSignature \in {heap[x].cachedSignature, call[t].sig}
    BY <1>a, <2>3 DEF SessionRecs
  <2>6. StructAsAsked(x)'
    BY <2>2, <2>3, <2>4, <2>5, <2>x DEF StructAsAsked
  <2>7. nOps <= nOps' /\ nOps' \in Nat
    BY <1>c, <2>2
  <2> QED
    BY <1>c, <2>2, <2>3, <2>6, <2>7, <2>x, OthersAsAsked
<1>23. ASSUME NEW t \in Threads, CopyOut(t) PROVE RetryInv'
  <2>1. InSign(t)
    BY <1>23 DEF CopyOut, InSign
  <2>x. PICK x \in Objs, o \in Ops :
          /\ x = call[t].obj /\ o = call[t].op /\ o = current[x]
          /\ \A y \in Objs : y # x => current[y] # o
          /\ \A u \in Threads : u # t /\ InSign(u) => call[u].obj # x
          /\ \A h \in Handles : sessions[h] = x => h = call[t].h
          /\ sessions[call[t].h] \in {0, x} /\ call[t].h \in Handles
          /\ StructAsAsked(x) /\ o <= nOps
    BY <2>1, <1>e
  <2>2. /\ UNCHANGED <<sessions, nOps, current, asked, issued>>
        /\ CallAsAsked(t)' /\ \A u \in Threads : u # t => call'[u] = call[u]
    BY <1>20, <1>23, <2>1 DEF CopyOut
  <2>3. \A p \in Ops : p # o => answered'[p] = answered[p]
    BY <1>23, <1>c, <2>x, CountType DEF CopyOut
  <2>4. /\ \A y \in Objs : y # x => heap'[y] = heap[y]
        /\ sessions[call[t].h] = 0 => heap'[x] = heap[x]
        /\ sessions[call[t].h] # 0 => ~heap'[x].signActive /\ heap'[x].cachedSignature = NoSig
    <3>1. clearSignStateByHandle(call[t].h)
      BY <1>23 DEF CopyOut
    <3>2. \A y \in Objs : y # 0
      BY DEF Objs
    <3> QED
      BY <1>a, <2>x, <3>1, <3>2, ClearByHandleType, RecordTypes
  <2>5. StructAsAsked(x)'
    BY <2>2, <2>4, <2>x DEF StructAsAsked
  <2>6. \A h \in Handles : sessions[h] = x => ~heap'[x].signActive
    BY <2>4, <2>x DEF Objs
  <2>7. nOps <= nOps' /\ nOps' \in Nat /\ o <= nOps'
    BY <1>c, <2>2, <2>x
  <2> QED
    BY <1>c, <2>2, <2>3, <2>4, <2>5, <2>6, <2>7, <2>x, OthersAsAsked
<1>24. ASSUME NEW t \in Threads, HeldUpStep(t) PROVE RetryInv'
  <2>1. QuietStep
    BY <1>24, <1>d DEF HeldUpStep, history, QuietStep, SameSigning, InSign
  <2> QED
    BY <2>1, QuietPreserves
<1>25. ASSUME NEW t \in Threads, Enter(t) PROVE RetryInv'
  BY <1>25, <1>1, <1>2, <1>3, <1>8, <1>9, <1>10, <1>13, <1>14, <1>16, <1>17,
     <1>24, HeldUpSteps DEF Enter
<1>26. ASSUME NEW t \in Threads, Progress(t) \/ LoginEnds(t) PROVE RetryInv'
  BY <1>26, <1>5, <1>6, <1>7, <1>11, <1>18, <1>19, <1>21, <1>22, <1>23,
     <1>24, HeldUpSteps DEF Progress, LoginEnds
<1> QED
  BY <1>12, <1>25, <1>26 DEF Next

\* The inductive invariant holds in every reachable state.
THEOREM RetryInvariant == ASSUME CallersRetryAsTold PROVE Spec => []RInv
<1>1. Init => RInv
  BY InitTypeInv, InitSignInv, InitRetryInv DEF RInv, IInv
<1>2. RInv /\ [Next]_vars => RInv'
  BY StepTypeInv, StepSignInv, StepRetryInv DEF RInv, IInv
<1> QED
  BY <1>1, <1>2, PTL DEF Spec

\* What C_Sign and C_SignFinal hand to a caller who retries as told was made
\* with the key, the mechanism and the bytes of the operation the caller is in,
\* for any number of threads, sessions, operations and mechanisms and over
\* closed sessions, lost answers and 401 retries.
THEOREM AnswersItsRequest ==
    ASSUME CallersRetryAsTold PROVE Spec => []SignatureAnswersRequest
<1>1. RInv => SignatureAnswersRequest
  BY DEF RInv, RetryInv, CallAsAsked, InSign, SignatureAnswersRequest
<1> QED
  BY <1>1, RetryInvariant, PTL

-----------------------------------------------------------------------------
\* A thread moves only its own call: a call in C_Sign's epilogue with a buffer
\* that is too small ends only by caching its signature.
LEMMA TooSmallStep ==
    ASSUME RInv, Next, NEW t \in Threads,
           call[t].pc = "copy", call[t].buf < SigLen, call'[t] = NoCall
    PROVE  BufferTooSmall(t)
<1>a. /\ NoCall.pc = "idle" /\ call \in [Threads -> Calls]
      /\ call[t].buf \in Nat
  BY RecordTypes DEF RInv, IInv, TypeInv, TypeOK, Calls
<1>1. PICK u \in Threads : Enter(u) \/ Progress(u) \/ LoginEnds(u)
  BY DEF Next
<1>2. ASSUME u # t PROVE call'[t] = call[t]
  <2>1. CASE Enter(u)
    <3>1. ASSUME NEW h, NEW data, NEW want, NEW buf, SignCall(u, h, data, want, buf)
          PROVE  call'[t] = call[t]
      BY <1>2, <3>1, <1>a DEF SignCall
    <3> QED
      BY <1>2, <2>1, <3>1, <1>a
         DEF Enter, C_Initialize, C_InitializeBlocks, C_Finalize, C_OpenSession,
             C_CloseAllSessions, C_CloseSession, C_Login, C_Logout, C_SignInit, C_SignUpdate, C_Sign,
             C_SignFinal
  <2>2. CASE Progress(u) \/ LoginEnds(u)
    BY <1>2, <2>2, <1>a
       DEF Progress, LoginEnds, AlreadyInitialized, InitializeReturns, SDKLoginDone,
           OpenSessionLogin, LoginFails, LoginSession, LoginSlot,
           ServiceSigns, Unauthorized, SignFails, SignReturns, BufferTooSmall,
           CopyOut, Return
  <2> QED
    BY <1>1, <2>1, <2>2
<1>3. u = t
  BY <1>2, <1>a
<1>4. ~Enter(t)
  BY <1>a DEF Enter, Enters, Outside, C_Initialize, C_InitializeBlocks, C_Finalize, C_OpenSession,
     C_CloseAllSessions, C_CloseSession, C_Login, C_Logout, C_SignInit,
     C_SignUpdate, C_Sign, C_SignFinal, SignCall
<1>5. ~CopyOut(t)
  BY <1>a, SigningAssumption DEF CopyOut
<1>6. call'[t] # call[t]
  BY <1>a
<1> QED
  BY <1>1, <1>3, <1>4, <1>5, <1>6
     DEF Progress, LoginEnds, AlreadyInitialized, InitializeReturns, SDKLoginDone,
         OpenSessionLogin, LoginFails, LoginSession, LoginSlot,
         ServiceSigns, Unauthorized, SignFails, SignReturns

\* C_Sign and C_SignFinal returning CKR_BUFFER_TOO_SMALL leave the operation of
\* a session that is still open active.
THEOREM TooSmallKeepsActive ==
    ASSUME CallersRetryAsTold PROVE Spec => TooSmallKeepsOperation
<1>1. ASSUME RInv, [Next]_vars, NEW t \in Threads,
             call[t].pc = "copy", call[t].buf < SigLen, call'[t] = NoCall,
             sessions[call[t].h] # 0
      PROVE  heap'[sessions[call[t].h]].signActive
  <2>1. call[t] # NoCall
    BY <1>1, RecordTypes
  <2>2. BufferTooSmall(t)
    BY <1>1, <2>1, TooSmallStep DEF vars
  <2>3. /\ call[t].h \in Handles /\ call[t].obj \in Objs /\ call[t].sig \in Sigs
        /\ sessions[call[t].h] = call[t].obj
        /\ heap[call[t].obj].signActive
    BY <1>1, InSignFacts DEF RInv, RetryInv, CallAsAsked, InSign
  <2>4. cacheSignResult(call[t].h, call[t].sig) /\ TypeOK
    BY <1>1, <2>2 DEF BufferTooSmall, RInv, IInv, TypeInv
  <2> QED
    BY <2>3, <2>4, CacheType
<1>2. RInv /\ [Next]_vars
        => [\A t \in Threads :
              /\ call[t].pc = "copy" /\ call[t].buf < SigLen
              /\ call'[t] = NoCall
              /\ sessions[call[t].h] # 0
              => heap'[sessions[call[t].h]].signActive]_vars
  BY <1>1
<1> QED
  BY <1>2, RetryInvariant, PTL DEF Spec, TooSmallKeepsOperation

-----------------------------------------------------------------------------
\* Every step of the signing functions begins an operation, has one signed for,
\* answers one, or is none of the caller's concern.
LEMMA PromiseStep ==
    ASSUME RInv, [Next]_vars PROVE [Promise!Next]_(Promise!promiseVars)
<1> USE DEF Promise!promiseVars
<1>a. issued \in [Ops -> Nat] /\ answered \in [Ops -> Nat] /\ Promise!Ops = Ops
  BY DEF RInv, IInv, TypeInv, TypeOK, Promise!Ops, Ops
<1>1. ASSUME NEW t \in Threads, Enter(t) PROVE [Promise!Next]_(Promise!promiseVars)
  <2>1. ASSUME NEW h \in Handles, NEW m \in Mechs, NEW k \in Slots,
               C_SignInit(t, h, m, k)
        PROVE  Promise!Begin
    BY <2>1 DEF C_SignInit, Promise!Begin
  <2>2. ASSUME NEW h, NEW data, NEW want, NEW buf, SignCall(t, h, data, want, buf)
        PROVE  UNCHANGED Promise!promiseVars
    BY <2>2 DEF SignCall, history
  <2>3. CASE ~\E h \in Handles, m \in Mechs, k \in Slots : C_SignInit(t, h, m, k)
    BY <1>1, <2>2, <2>3
       DEF Enter, C_Initialize, C_InitializeBlocks, C_Finalize, C_OpenSession,
           C_CloseAllSessions, C_CloseSession, C_Login, C_Logout, C_SignUpdate, C_Sign, C_SignFinal,
           history
  <2> QED
    BY <2>1, <2>3 DEF Promise!Next
<1>2. ASSUME NEW t \in Threads, ServiceSigns(t) PROVE Promise!Next
  <2>1. InSign(t) /\ SignCallOK(t) /\ call[t].op \in Ops
    BY <1>2, InSignFacts DEF ServiceSigns, InSign, RInv, IInv, SignInv
  <2>2. issued[call[t].op] = 0 /\ call[t].op <= nOps
    BY <1>2, <2>1, InSignFacts DEF ServiceSigns, SignCallOK, RInv, IInv, SignInv, OpInv
  <2>3. issued' = [issued EXCEPT ![call[t].op] = 1]
    BY <1>2, <1>a, <2>1, <2>2 DEF ServiceSigns
  <2>4. Promise!Issue(call[t].op)
    BY <1>2, <2>2, <2>3 DEF ServiceSigns, Promise!Issue
  <2> QED
    BY <1>a, <2>1, <2>4 DEF Promise!Next
<1>3. ASSUME NEW t \in Threads, CopyOut(t) PROVE Promise!Next
  <2>1. /\ InSign(t) /\ call[t].op \in Ops
        /\ issued[call[t].op] = 1 /\ answered[call[t].op] = 0
    BY <1>3, InSignFacts DEF CopyOut, InSign, RInv, RetryInv, CallAsAsked
  <2>2. answered' = [answered EXCEPT ![call[t].op] = 1]
    BY <1>3, <1>a, <2>1 DEF CopyOut
  <2>3. Promise!Answer(call[t].op)
    BY <1>3, <2>1, <2>2 DEF CopyOut, Promise!Answer
  <2> QED
    BY <1>a, <2>1, <2>3 DEF Promise!Next
<1>4. ASSUME NEW t \in Threads, Progress(t) \/ LoginEnds(t), ~ServiceSigns(t),
             ~CopyOut(t)
      PROVE  UNCHANGED Promise!promiseVars
  BY <1>4 DEF Progress, LoginEnds, AlreadyInitialized, InitializeReturns,
     SDKLoginDone, OpenSessionLogin, LoginFails, LoginSession, LoginSlot,
     Unauthorized, SignFails, SignReturns, BufferTooSmall, history
<1>5. CASE UNCHANGED vars
  BY <1>5 DEF vars
<1> QED
  BY <1>1, <1>2, <1>3, <1>4, <1>5 DEF Next

\* Pkcs11Signing implements SigningPromise: with callers who retry as told, an
\* operation is signed for at most once, and answered at most once, only with
\* a signature the service made for it.
THEOREM KeepsPromise == ASSUME CallersRetryAsTold PROVE Spec => PromiseKept
<1>1. Init => Promise!Init
  BY DEF Init, Promise!Init, Promise!Ops, Ops
<1> QED
  BY <1>1, PromiseStep, RetryInvariant, PTL DEF Spec, PromiseKept, Promise!Spec
=============================================================================
