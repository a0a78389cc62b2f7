---------------------------- MODULE Pkcs11Signing ----------------------------
(***************************************************************************)
(* The session table and the signing operation of the module: C_Initialize *)
(* to C_SignFinal of main.go over InfisicalBackend (backend.go) and        *)
(* sessionManager (slots.go), called by several threads of the host.       *)
(*                                                                         *)
(* Steps.  sessionManager is locked per method, so a call is cut where     *)
(* another thread can run between two of its accesses to shared state:     *)
(* between open and setLoggedIn, around the authentication of C_Login,     *)
(* around the HTTP request of a signature, and between the return of       *)
(* backend.Sign (which used a *session pointer) and the epilogue of C_Sign *)
(* (which looks the HANDLE up again).  C_Initialize sets initialized and   *)
(* then logs in with backend.mu held: other calls run meanwhile, because   *)
(* checkInitialized takes no lock, but another C_Initialize waits.  A call *)
(* that returns an error before it changed anything (module not            *)
(* initialized, handle unknown, not logged in, operation active or not     *)
(* active, part too large, slot without a signer) is a stuttering step:    *)
(* its condition is the negation of a guard below.                         *)
(*                                                                         *)
(* Data.  A message is its length, a signature records what was signed.    *)
(***************************************************************************)
EXTENDS Integers

CONSTANTS
    Threads,            \* threads of the host that call the module
    Slots,              \* slot indices
    Mechs,              \* CKM_* values
    BufLens,            \* lengths of the caller's signature buffer
    PartLens,           \* lengths of the data handed to C_Sign and C_SignUpdate
    SigLen,             \* length of a signature
    MaxSignBuffer,      \* maxSignBuffer
    MaxSessions,        \* bound: sessions ever opened
    MaxOps,             \* bound: operations ever started
    CallersRetryAsTold  \* callers answer CKR_BUFFER_TOO_SMALL by repeating the
                        \* call with a buffer of the length they were told

ASSUME SigningAssumption ==
    /\ Slots \subseteq Nat /\ 0 \in Slots
    /\ Mechs \subseteq Nat \ {0}
    /\ BufLens \subseteq Nat
    /\ PartLens \subseteq Nat
    /\ SigLen \in Nat \ {0}
    /\ MaxSignBuffer \in Nat
    /\ MaxSessions \in Nat
    /\ MaxOps \in Nat
    /\ CallersRetryAsTold \in BOOLEAN

Handles == 1..MaxSessions
Objs == 1..MaxSessions       \* session structs ever allocated, 0 is nil
Ops == 1..MaxOps             \* C_SignInit calls that succeeded, 0 is none

Sigs == [op : 0..MaxOps, key : Slots, mech : Mechs \cup {0}, data : Nat]
NoSig == [op |-> 0, key |-> 0, mech |-> 0, data |-> 0]

SessionRecs ==
    [slotID : Slots, loggedIn : BOOLEAN, signActive : BOOLEAN,
     signMech : Mechs \cup {0}, signKeyIndex : Slots,
     signBuffer : 0..MaxSignBuffer, cachedSignature : Sigs]

NewSession(s) ==
    [slotID |-> s, loggedIn |-> FALSE, signActive |-> FALSE, signMech |-> 0,
     signKeyIndex |-> 0, signBuffer |-> 0, cachedSignature |-> NoSig]

(***************************************************************************)
(* What a thread is doing.  pc:                                            *)
(*   idle     outside the module                                           *)
(*   opened   OpenSession: session in the table, login flag not yet set    *)
(*   login    Login: session looked up, authenticating                     *)
(*   loginAll Login: setLoggedIn done, setAllLoggedInForSlot not yet       *)
(*   sending  signInternal: request not yet answered by the service        *)
(*   signed   signInternal: the service signed, its answer is in transit   *)
(*   copy     backend.Sign / SignFinal returned sig; C_Sign's epilogue     *)
(* attempt counts the sends of withRetryOnAuth, data is what is sent.      *)
(* op and want are history: the operation and the message the caller means.*)
(***************************************************************************)
Calls ==
    [pc : {"idle", "opened", "login", "loginAll", "sending", "signed", "copy"},
     h : 0..MaxSessions, obj : 0..MaxSessions, buf : Nat, data : Nat,
     attempt : 0..2, sig : Sigs, op : 0..MaxOps, want : Nat]

NoCall ==
    [pc |-> "idle", h |-> 0, obj |-> 0, buf |-> 0, data |-> 0,
     attempt |-> 0, sig |-> NoSig, op |-> 0, want |-> 0]

\* A call of OpenSession or Login on handle h, naming struct x.
SessionCall(pc, h, x) ==
    [pc |-> pc, h |-> h, obj |-> x, buf |-> 0, data |-> 0,
     attempt |-> 0, sig |-> NoSig, op |-> 0, want |-> 0]

(***************************************************************************)
(* What holds a thread up.  auth:                                          *)
(*   none     nothing, or a request that ends after 30 s (client.go:87)    *)
(*   sdk      a login through the SDK, to which the module gives no timeout*)
(*   init     such a login inside C_Initialize, with backend.mu held       *)
(*   mutex    C_Initialize waits for backend.mu                            *)
(***************************************************************************)
AuthStates == {"none", "sdk", "init", "mutex"}

VARIABLES
    initialized,    \* backend.initialized
    auth,           \* per thread: what holds it up
    sessions,       \* sessionManager.sessions: handle -> struct, 0 if absent
    nextID,         \* sessionManager.nextID
    heap,           \* the session structs, reachable from the table or not
    call,           \* per thread: the call in progress
    \* history
    allocs,         \* structs allocated so far
    nOps,           \* operations begun so far
    current,        \* per struct: the operation last begun on it
    asked,          \* per operation: key, mechanism, bytes accepted so far
    issued,         \* per operation: signatures made by the service
    answered        \* per operation: signatures copied to the caller

vars == <<initialized, auth, sessions, nextID, heap, call, allocs, nOps, current,
          asked, issued, answered>>
history == <<nOps, current, asked, issued, answered>>

Init ==
    /\ initialized = FALSE
    /\ auth = [t \in Threads |-> "none"]
    /\ sessions = [h \in Handles |-> 0]
    /\ nextID = 1
    /\ heap = [x \in Objs |-> NewSession(0)]
    /\ call = [t \in Threads |-> NoCall]
    /\ allocs = 0
    /\ nOps = 0
    /\ current = [x \in Objs |-> 0]
    /\ asked = [o \in Ops |-> [key |-> 0, mech |-> 0, fed |-> 0]]
    /\ issued = [o \in Ops |-> 0]
    /\ answered = [o \in Ops |-> 0]

-----------------------------------------------------------------------------
(* What PKCS#11 asks of callers; the module itself enforces none of it.    *)

InSign(t) == call[t].pc \in {"sending", "signed", "copy"}

\* A session's signing functions are not called while one is in progress.
Exclusive(t, h) ==
    \A u \in Threads \ {t} : InSign(u) => call[u].obj # sessions[h]

\* A thread is outside the module.
Outside(t) == call[t] = NoCall /\ auth[t] = "none"

\* C_Finalize is not called while another thread is inside the module.
Quiescent == \A t \in Threads : Outside(t)

\* A caller that was told CKR_BUFFER_TOO_SMALL repeats the same call with a
\* buffer that is long enough.
RetryAsTold(x, want, buf) ==
    CallersRetryAsTold /\ heap[x].cachedSignature # NoSig =>
        buf >= SigLen /\ want = heap[x].cachedSignature.data

-----------------------------------------------------------------------------
(* sessionManager and the clearing of a signing operation.                 *)

Enters(t) == initialized /\ Outside(t)

OnSlot(s) == {x \in Objs : heap[x].slotID = s /\ \E h \in Handles : sessions[h] = x}

SetLoggedIn(objs, loggedIn) ==
    heap' = [x \in Objs |-> IF x \in objs
                            THEN [heap[x] EXCEPT !.loggedIn = loggedIn]
                            ELSE heap[x]]

\* Mutant: the cached signature survives the end of the operation.
ClearedKeepsCache(r) ==
    [r EXCEPT !.signActive = FALSE, !.signMech = 0, !.signKeyIndex = 0, !.signBuffer = 0]

Cleared(r) ==
    [slotID |-> r.slotID, loggedIn |-> r.loggedIn, signActive |-> FALSE,
     signMech |-> 0, signKeyIndex |-> 0, signBuffer |-> 0,
     cachedSignature |-> NoSig]

\* clearSignState(sess): by pointer, whether or not the session is still open.
clearSignState(x) == heap' = [heap EXCEPT ![x] = Cleared(@)]

\* clearSignStateByHandle(sh): nothing when the handle is gone.
clearSignStateByHandle(h) ==
    IF sessions[h] = 0 THEN UNCHANGED heap ELSE clearSignState(sessions[h])

cacheSignResult(h, sig) ==
    IF sessions[h] = 0 THEN UNCHANGED heap
    ELSE heap' = [heap EXCEPT ![sessions[h]] = [@ EXCEPT !.cachedSignature = sig]]

Return(t) == call' = [call EXCEPT ![t] = NoCall]

-----------------------------------------------------------------------------
(* Module and session management.                                          *)

Locked == \E t \in Threads : auth[t] = "init"

\* A new session table, and initialized; then, with credentials configured, the
\* login, whose failure is only logged.
C_Initialize(t) ==
    /\ Outside(t)
    /\ ~Locked
    /\ ~initialized
    /\ initialized' = TRUE
    /\ sessions' = [h \in Handles |-> 0]
    /\ nextID' = 1
    /\ \E a \in {"none", "init"} : auth' = [auth EXCEPT ![t] = a]
    /\ UNCHANGED <<heap, call, allocs, history>>

InitializeReturns(t) ==
    /\ auth[t] = "init"
    /\ auth' = [auth EXCEPT ![t] = "none"]
    /\ UNCHANGED <<initialized, sessions, nextID, heap, call, allocs, history>>

\* C_Initialize while another thread is in it: b.mu.Lock() blocks, ...
C_InitializeBlocks(t) ==
    /\ Outside(t)
    /\ Locked
    /\ auth' = [auth EXCEPT ![t] = "mutex"]
    /\ UNCHANGED <<initialized, sessions, nextID, heap, call, allocs, history>>

\* ... and once it is free the module is initialized already.
AlreadyInitialized(t) ==
    /\ auth[t] = "mutex"
    /\ ~Locked
    /\ initialized
    /\ auth' = [auth EXCEPT ![t] = "none"]
    /\ UNCHANGED <<initialized, sessions, nextID, heap, call, allocs, history>>

C_Finalize(t) ==
    /\ Enters(t)
    /\ Quiescent
    /\ initialized' = FALSE
    /\ UNCHANGED <<auth, sessions, nextID, heap, call, allocs, history>>

\* Mutant: the lowest free handle is reused instead of nextID.
C_OpenSessionReusesHandle(t, s) ==
    /\ Enters(t)
    /\ allocs < MaxSessions
    /\ \E h \in Handles :
        /\ sessions[h] = 0
        /\ \A g \in Handles : g < h => sessions[g] # 0
        /\ sessions' = [sessions EXCEPT ![h] = allocs + 1]
        /\ call' = [call EXCEPT ![t] = SessionCall("opened", h, allocs + 1)]
    /\ heap' = [heap EXCEPT ![allocs + 1] = NewSession(s)]
    /\ allocs' = allocs + 1
    /\ UNCHANGED <<initialized, auth, nextID, history>>

\* The slot has a signer: OpenSession calls sessionManager.open.
C_OpenSession(t, s) ==
    /\ Enters(t)
    /\ allocs < MaxSessions
    /\ sessions' = [sessions EXCEPT ![nextID] = allocs + 1]
    /\ nextID' = nextID + 1
    /\ heap' = [heap EXCEPT ![allocs + 1] = NewSession(s)]
    /\ call' = [call EXCEPT ![t] = SessionCall("opened", nextID, allocs + 1)]
    /\ allocs' = allocs + 1
    /\ UNCHANGED <<initialized, auth, history>>

\* authenticated: the module holds a token from its own configuration.
OpenSessionLogin(t, authenticated) ==
    /\ call[t].pc = "opened"
    /\ SetLoggedIn(IF authenticated THEN {sessions[call[t].h]} ELSE {}, TRUE)
    /\ Return(t)
    /\ UNCHANGED <<initialized, auth, sessions, nextID, allocs, history>>

C_CloseSession(t, h) ==
    /\ Enters(t)
    /\ sessions[h] # 0
    /\ sessions' = [sessions EXCEPT ![h] = 0]
    /\ UNCHANGED <<initialized, auth, nextID, heap, call, allocs, history>>

C_CloseAllSessions(t, s) ==
    /\ Enters(t)
    /\ sessions' = [h \in Handles |-> IF sessions[h] \in OnSlot(s) THEN 0
                                      ELSE sessions[h]]
    /\ UNCHANGED <<initialized, auth, nextID, heap, call, allocs, history>>

\* Where the call goes to the SDK for a token, or need not.
MayAuthenticate(t) == \E a \in {"none", "sdk"} : auth' = [auth EXCEPT ![t] = a]

\* The SDK's login has succeeded; its failure ends the call it was made for.
SDKLoginDone(t) ==
    /\ auth[t] = "sdk"
    /\ auth' = [auth EXCEPT ![t] = "none"]
    /\ UNCHANGED <<initialized, sessions, nextID, heap, call, allocs, history>>

\* C_Login with credentials, or without a PIN and a token, logs in.
C_Login(t, h) ==
    /\ Enters(t)
    /\ sessions[h] # 0
    /\ call' = [call EXCEPT ![t] = SessionCall("login", h, sessions[h])]
    /\ MayAuthenticate(t)
    /\ UNCHANGED <<initialized, sessions, nextID, heap, allocs, history>>

LoginFails(t) ==
    /\ call[t].pc = "login"
    /\ auth[t] = "sdk"
    /\ auth' = [auth EXCEPT ![t] = "none"]
    /\ Return(t)
    /\ UNCHANGED <<initialized, sessions, nextID, heap, allocs, history>>

LoginSession(t) ==
    /\ call[t].pc = "login"
    /\ auth[t] = "none"
    /\ SetLoggedIn({sessions[call[t].h]}, TRUE)
    /\ call' = [call EXCEPT ![t] = [@ EXCEPT !.pc = "loginAll"]]
    /\ UNCHANGED <<initialized, auth, sessions, nextID, allocs, history>>

LoginSlot(t) ==
    /\ call[t].pc = "loginAll"
    /\ SetLoggedIn(OnSlot(heap[call[t].obj].slotID), TRUE)
    /\ Return(t)
    /\ UNCHANGED <<initialized, auth, sessions, nextID, allocs, history>>

C_Logout(t, h) ==
    /\ Enters(t)
    /\ sessions[h] # 0
    /\ SetLoggedIn(OnSlot(heap[sessions[h]].slotID), FALSE)
    /\ UNCHANGED <<initialized, auth, sessions, nextID, call, allocs, history>>

-----------------------------------------------------------------------------
(* The signing operation.                                                  *)

\* The signing fields after SignInit: signBuffer is reset, cachedSignature not.
Begun(r, m, k) ==
    [slotID |-> r.slotID, loggedIn |-> r.loggedIn, signActive |-> TRUE,
     signMech |-> m, signKeyIndex |-> k, signBuffer |-> 0,
     cachedSignature |-> r.cachedSignature]

C_SignInit(t, h, m, k) ==
    LET x == sessions[h] IN
    /\ Enters(t)
    /\ x # 0
    /\ Exclusive(t, h)
    /\ heap[x].loggedIn
    /\ ~heap[x].signActive
    /\ nOps < MaxOps
    /\ heap' = [heap EXCEPT ![x] = Begun(@, m, k)]
    /\ nOps' = nOps + 1
    /\ current' = [current EXCEPT ![x] = nOps + 1]
    /\ asked' = [asked EXCEPT ![nOps + 1] = [key |-> k, mech |-> m, fed |-> 0]]
    /\ UNCHANGED <<initialized, auth, sessions, nextID, call, allocs, issued, answered>>

Appended(r, n) == [r EXCEPT !.signBuffer = @ + n]
Fed(a, n) == [a EXCEPT !.fed = @ + n]

\* Mutant: the size check of appendSignBuffer looks at the part alone.
C_SignUpdateChecksPart(t, h, n) ==
    LET x == sessions[h] IN
    /\ Enters(t)
    /\ x # 0
    /\ Exclusive(t, h)
    /\ heap[x].signActive
    /\ n <= MaxSignBuffer
    /\ heap' = [heap EXCEPT ![x] = Appended(@, n)]
    /\ asked' = [asked EXCEPT ![current[x]] = Fed(@, n)]
    /\ UNCHANGED <<initialized, auth, sessions, nextID, call, allocs, nOps, current,
                   issued, answered>>

C_SignUpdate(t, h, n) ==
    LET x == sessions[h] IN
    /\ Enters(t)
    /\ x # 0
    /\ Exclusive(t, h)
    /\ CallersRetryAsTold => heap[x].cachedSignature = NoSig
    /\ heap[x].signActive
    /\ heap[x].signBuffer + n <= MaxSignBuffer
    /\ heap' = [heap EXCEPT ![x] = Appended(@, n)]
    /\ asked' = [asked EXCEPT ![current[x]] = Fed(@, n)]
    /\ UNCHANGED <<initialized, auth, sessions, nextID, call, allocs, nOps, current,
                   issued, answered>>

\* backend.Sign and backend.SignFinal: data is signed, or the cached result of
\* an earlier CKR_BUFFER_TOO_SMALL is taken and the operation ends here.
SignCall(t, h, data, want, buf) ==
    LET x == sessions[h]
        SigningCall(pc, sig) ==
            [pc |-> pc, h |-> h, obj |-> x, buf |-> buf, data |-> data,
             attempt |-> 1, sig |-> sig, op |-> current[x], want |-> want]
    IN
    /\ Enters(t)
    /\ x # 0
    /\ Exclusive(t, h)
    /\ RetryAsTold(x, want, buf)
    /\ heap[x].signActive
    /\ \/ /\ heap[x].cachedSignature # NoSig
          /\ call' = [call EXCEPT ![t] = SigningCall("copy", heap[x].cachedSignature)]
          /\ clearSignState(x)
          /\ UNCHANGED auth
       \/ /\ heap[x].cachedSignature = NoSig
          /\ call' = [call EXCEPT ![t] = SigningCall("sending", NoSig)]
          /\ MayAuthenticate(t)
          /\ UNCHANGED heap
    /\ UNCHANGED <<initialized, sessions, nextID, allocs, history>>

C_Sign(t, h, n, buf) == SignCall(t, h, n, n, buf)

C_SignFinal(t, h, buf) ==
    /\ sessions[h] # 0
    /\ heap[sessions[h]].signActive
    /\ SignCall(t, h, heap[sessions[h]].signBuffer,
                asked[current[sessions[h]]].fed, buf)

\* The service accepts the request and signs; the answer may still be lost.
ServiceSigns(t) ==
    /\ call[t].pc = "sending"
    /\ auth[t] = "none"
    /\ LET x == call[t].obj
           sig == [op |-> call[t].op, key |-> heap[x].signKeyIndex,
                   mech |-> heap[x].signMech, data |-> call[t].data]
       IN  call' = [call EXCEPT ![t] = [@ EXCEPT !.pc = "signed", !.sig = sig]]
    /\ issued' = [issued EXCEPT ![call[t].op] = @ + 1]
    /\ UNCHANGED <<initialized, auth, sessions, nextID, heap, allocs, nOps, current,
                   asked, answered>>

\* Mutant: every 401 is retried (attempt alternates, to stay finite).
UnauthorizedAgain(t) ==
    /\ call[t].pc = "sending"
    /\ auth[t] = "none"
    /\ call' = [call EXCEPT ![t] = [@ EXCEPT !.attempt = 3 - @]]
    /\ MayAuthenticate(t)
    /\ UNCHANGED <<initialized, sessions, nextID, heap, allocs, history>>

\* withRetryOnAuth: a first 401 re-authenticates, if there are credentials, and
\* sends once more.
Unauthorized(t) ==
    /\ call[t].pc = "sending"
    /\ auth[t] = "none"
    /\ call[t].attempt = 1
    /\ call' = [call EXCEPT ![t] = [@ EXCEPT !.attempt = 2]]
    /\ MayAuthenticate(t)
    /\ UNCHANGED <<initialized, sessions, nextID, heap, allocs, history>>

\* Mutant: a request whose answer is lost is sent again.
SignFailsResends(t) ==
    /\ call[t].pc \in {"sending", "signed"}
    /\ call' = [call EXCEPT ![t] = [@ EXCEPT !.pc = "sending"]]
    /\ UNCHANGED <<initialized, auth, sessions, nextID, heap, allocs, history>>

\* Any other error of signInternal, before or after the service signed: no
\* signer, digest or mechanism refused, login failed, transport error or 30 s
\* timeout, API error, second 401, answer that does not decode.
SignFails(t) ==
    /\ call[t].pc \in {"sending", "signed"}
    /\ clearSignState(call[t].obj)
    /\ auth' = [auth EXCEPT ![t] = "none"]
    /\ Return(t)
    /\ UNCHANGED <<initialized, sessions, nextID, allocs, history>>

\* The answer arrives and decodes: backend.Sign returns, leaving the operation
\* active.
SignReturns(t) ==
    /\ call[t].pc = "signed"
    /\ call' = [call EXCEPT ![t] = [@ EXCEPT !.pc = "copy"]]
    /\ UNCHANGED <<initialized, auth, sessions, nextID, heap, allocs, history>>

\* Mutant: a signature that does not fit ends the operation.
BufferTooSmallEnds(t) ==
    /\ call[t].pc = "copy"
    /\ call[t].buf < SigLen
    /\ clearSignStateByHandle(call[t].h)
    /\ Return(t)
    /\ UNCHANGED <<initialized, auth, sessions, nextID, allocs, history>>

\* C_Sign, C_SignFinal: CKR_BUFFER_TOO_SMALL.
BufferTooSmall(t) ==
    /\ call[t].pc = "copy"
    /\ call[t].buf < SigLen
    /\ cacheSignResult(call[t].h, call[t].sig)
    /\ Return(t)
    /\ UNCHANGED <<initialized, auth, sessions, nextID, allocs, history>>

\* Mutant: the operation is left active after its signature was delivered.
CopyOutLeavesActive(t) ==
    /\ call[t].pc = "copy"
    /\ call[t].buf >= SigLen
    /\ Return(t)
    /\ answered' = [answered EXCEPT ![call[t].op] = @ + 1]
    /\ UNCHANGED <<initialized, auth, sessions, nextID, heap, allocs, nOps, current,
                   asked, issued>>

\* C_Sign, C_SignFinal: the signature is copied, CKR_OK.
CopyOut(t) ==
    /\ call[t].pc = "copy"
    /\ call[t].buf >= SigLen
    /\ clearSignStateByHandle(call[t].h)
    /\ Return(t)
    /\ answered' = [answered EXCEPT ![call[t].op] = @ + 1]
    /\ UNCHANGED <<initialized, auth, sessions, nextID, allocs, nOps, current, asked,
                   issued>>

-----------------------------------------------------------------------------
\* The steps that carry a call in progress on towards its return, ...
Progress(t) ==
    \/ /\ auth[t] = "none"
       /\ \/ \E authenticated \in BOOLEAN : OpenSessionLogin(t, authenticated)
          \/ LoginSession(t) \/ LoginSlot(t)
          \/ ServiceSigns(t) \/ Unauthorized(t) \/ SignFails(t) \/ SignReturns(t)
          \/ BufferTooSmall(t) \/ CopyOut(t)
    \/ AlreadyInitialized(t)

\* ... and the end of a login through the SDK.
LoginEnds(t) ==
    \/ InitializeReturns(t) \/ SDKLoginDone(t) \/ LoginFails(t)
    \/ auth[t] = "sdk" /\ SignFails(t)

\* The functions a thread outside the module may call.
Enter(t) ==
    \/ C_Initialize(t) \/ C_InitializeBlocks(t)
    \/ C_Finalize(t)
    \/ \E s \in Slots : C_OpenSession(t, s) \/ C_CloseAllSessions(t, s)
    \/ \E h \in Handles :
        \/ C_CloseSession(t, h) \/ C_Login(t, h) \/ C_Logout(t, h)
        \/ \E m \in Mechs, k \in Slots : C_SignInit(t, h, m, k)
        \/ \E n \in PartLens : C_SignUpdate(t, h, n)
        \/ \E n \in PartLens, buf \in BufLens : C_Sign(t, h, n, buf)
        \/ \E buf \in BufLens : C_SignFinal(t, h, buf)

Next == \E t \in Threads : Enter(t) \/ Progress(t) \/ LoginEnds(t)

Spec == Init /\ [][Next]_vars

\* A thread inside the module goes on unless it is held up: its HTTP requests end
\* after 30 seconds, and no lock but backend.mu is held while it waits.  Nothing is
\* assumed of LoginEnds: the SDK's logins have no timeout of the module.
Fairness == \A t \in Threads : WF_vars(Progress(t))

FairSpec == Spec /\ Fairness

-----------------------------------------------------------------------------
(* Properties.                                                             *)

\* Every variable has its type; in particular the data accumulated by
\* C_SignUpdate (appendSignBuffer, slots.go:121) never exceeds maxSignBuffer,
\* and no call is sent more than twice (withRetryOnAuth, backend.go:174).
TypeOK ==
    /\ initialized \in BOOLEAN
    /\ auth \in [Threads -> AuthStates]
    /\ sessions \in [Handles -> 0..MaxSessions]
    /\ nextID \in 1..(MaxSessions + 1)
    /\ heap \in [Objs -> SessionRecs]
    /\ call \in [Threads -> Calls]
    /\ allocs \in 0..MaxSessions
    /\ nOps \in 0..MaxOps
    /\ current \in [Objs -> 0..MaxOps]
    /\ asked \in [Ops -> [key : Slots, mech : Mechs \cup {0}, fed : Nat]]
    /\ issued \in [Ops -> Nat]
    /\ answered \in [Ops -> Nat]

\* The epilogue of C_Sign and Login's setLoggedIn look the handle up again
\* after a remote call: it then names the session the call started on, or
\* none, never another one, whatever sessions were closed and opened in the
\* meantime and however often the module was re-initialized before.
HandleStillMine ==
    \A t \in Threads : call[t] # NoCall =>
        sessions[call[t].h] \in {0, call[t].obj}

\* The service is asked to sign at most once successfully per C_SignInit, over
\* lost answers, 401 retries, too small buffers, and sessions closed under a
\* call: each signature may use up an approved signing of the caller's quota.
OneRemoteSignature == \A o \in Ops : issued[o] <= 1

\* What C_Sign or C_SignFinal is about to hand to the caller was made by the
\* service for the operation the caller is in: with its key, its mechanism and
\* exactly the bytes passed to C_Sign or accepted by C_SignUpdate.
SignatureAnswersRequest ==
    \A t \in Threads : call[t].pc = "copy" =>
        call[t].sig = [op   |-> call[t].op,
                       key  |-> asked[call[t].op].key,
                       mech |-> asked[call[t].op].mech,
                       data |-> call[t].want]

\* A signature is cached "for retry after CKR_BUFFER_TOO_SMALL"
\* (backend.go:1186): the operation that is answered is the one it was made for.
CacheServesItsOperation ==
    \A t \in Threads : call[t].pc = "copy" => call[t].sig.op = call[t].op

\* "CKR_BUFFER_TOO_SMALL must NOT terminate the operation" (main.go:502): if
\* the session is still open, its operation is active after that return.
TooSmallKeepsOperation ==
    [][\A t \in Threads :
          /\ call[t].pc = "copy" /\ call[t].buf < SigLen
          /\ call'[t] = NoCall
          /\ sessions[call[t].h] # 0
          => heap'[sessions[call[t].h]].signActive]_vars

\* A thread waits for the end of a login: its own, or that of the thread that is
\* inside C_Initialize.
AwaitsLogin(t) == auth[t] \in {"sdk", "init"} \/ (auth[t] = "mutex" /\ Locked)

\* Every call of a PKCS#11 function returns, unless one login through the SDK is
\* never answered (client.go:130 has no timeout): a call is not held up by a login
\* it does not need, by a service that says 401 for ever, or by the lock of a
\* C_Initialize that has ended.
CallReturns == \A t \in Threads : []<>Outside(t) \/ <>[]AwaitsLogin(t)

\* The signing functions keep SigningPromise.
Promise == INSTANCE SigningPromise WITH begun <- nOps

PromiseKept == Promise!Spec
=============================================================================
