# Verification of the Infisical PKCS#11 module

TLA+ specifications of the module in this repository (`main.go`, `backend.go`,
`slots.go`, `cache.go`, `client.go`, `signing_context.go`, `mechanism.go`,
`errors.go`), the TLC runs that check them on small
instances, and TLAPS proofs of their main safety properties for every instance.

## 1. The system

A host process (a signing tool) loads the module as a shared library and calls
PKCS#11 functions (`C_*` of `main.go`) from any of its threads. The module keeps
sessions, object searches and signing operations in memory; signers, certificates
and signatures come from the Infisical service over HTTPS. Nothing is persisted.

| Component | State | Operations | Locking |
|---|---|---|---|
| Module state (`backend.go`) | `initialized`, the configuration, the client, the table and caches that C_Initialize makes | C_Initialize, C_Finalize | `backend.mu`, which C_Initialize holds through its login; `initialized` is read without it |
| Session table (`slots.go`) | handle -> `*session`, `nextID`, login flag per session | open, get, close, closeAllForSlot, setLoggedIn, setAllLoggedInForSlot | one RWMutex, held for one method |
| Signing operation (`backend.go`, `main.go`) | `signActive`, `signMech`, `signKeyIndex`, `signBuffer`, `cachedSignature` of a session | C_SignInit, C_Sign, C_SignUpdate, C_SignFinal | none |
| Object search (`backend.go`, `main.go`) | `findActive`, `findResults`, `findPos` of a session | C_FindObjectsInit, C_FindObjects, C_FindObjectsFinal | none |
| Access tokens (`backend.go`, `client.go`) | `config.Auth.Method`, `config.Auth.Token`, `client.sdkClient` and its token | getToken, withRetryOnAuth, Login, ensureSDKClient | none |
| Caches (`cache.go`) | signer list; certificate and public key per signer; expiry | get, set | one RWMutex per cache, held for one get or set |
| Service client (`client.go`) | HTTP client with a 30 s timeout; SDK client for logins, which gets no timeout | ListSigners, GetCertificate, Sign, RequestApproval; UniversalAuthLogin | none |
| Configuration (`config.go`) | read once by C_Initialize | loadConfig, validate | - |
| Approval requests (`backend.go`, `client.go`) | none in the module; requests and approvals at the service | reportApprovalDenial, requestApproval | none |
| Signing context (`signing_context*.go`) | host, user, tool, command line, observed once | currentSigningContext, redactCommandArgs, requestScope | sync.Once |
| Mechanisms, errors (`mechanism.go`, `errors.go`) | none | pure functions | - |
| C side (`pkcs11_bridge.c`, `function_list.c`, `pkcs11_types.h`) | none | function table, struct access | - |

How they interact. Every `C_` function first reads `backend.initialized`, looks
the session handle up, and then works on the `*session` pointer without a lock.
C_Initialize sets `initialized` and then logs in with `backend.mu` held: the calls of
other threads run beside that login, and a second C_Initialize waits for it.
Anything that needs a signer goes through `getSigners` (cache, or the service
with `withRetryOnAuth`). `C_Sign` gets the signature from `backend.Sign` and then
looks the *handle* up again, to cache the signature (buffer too small) or to
clear the operation.

What is hard here:

- a remote request in the middle of almost every call, while other threads close
  sessions, log in, log out or expire a cache, or while C_Initialize still logs in;
- the two-phase protocol of `CKR_BUFFER_TOO_SMALL`, which keeps an operation, and
  a signature, alive across calls;
- retries: a signature must not be made twice, a 401 must be retried once;
- positions instead of identities: a slot and an object handle are an index into
  a list that the service may change;
- three caches that expire at different times and are filled from each other;
- lists, values and signatures read in two calls, one for the length and one for
  the bytes, with the service free to change what is read in between;
- approvals: a denied signing opens a request whose scope has to match the
  repetition of the command, in another process, after restarts, lost requests and
  upgrades of the tool.

`PROJECT.json` lists the hazards line by line, with the properties aimed at each.

## 2. Modules

### Pkcs11Signing: sessions and the signing operation

State: `initialized`, `sessions` (handle -> struct), `nextID`, `heap` (the session
structs; a struct that is no longer in the table can still be used by a call that
holds its pointer), `call` (what each thread is doing), `auth` (what holds it up: a
login through the SDK, such a login inside C_Initialize and so with `backend.mu`
held, or the wait for `backend.mu`) and history variables (`asked`, `issued`,
`answered`, `current`, `nOps`, `allocs`).

A call is cut into steps where another thread can run between two accesses to
shared state: `C_Initialize` / `InitializeReturns` (initialized is set, then the
login, under `backend.mu`), with `C_InitializeBlocks` / `AlreadyInitialized` for a
second one meanwhile; `C_OpenSession` / `OpenSessionLogin` (open, then setLoggedIn);
`C_Login` / `LoginFails` / `LoginSession` / `LoginSlot` (look-up, authentication,
two locked writes); `C_Sign` or `C_SignFinal` (`SignCall`) / `ServiceSigns`,
`Unauthorized`, `SignFails`, `SignReturns` / `BufferTooSmall`, `CopyOut` (look-up,
the remote request with its possible loss and 401, the epilogue by handle).
`MayAuthenticate` marks where a call goes to the SDK for a token, before a C_Login,
a request or its retry, and `SDKLoginDone` its return. Calls that return an error before changing anything are stuttering steps.

A message is its length, a signature is the record of what was signed: operation,
key, mechanism, data. So "the signature answers the request" is an equation.

Callers. PKCS#11 asks three things of the application that the module does not
enforce; the model states each as a named condition: a session's signing
functions are not called concurrently (`Exclusive`), `C_Finalize` is not called
during another call (`Quiescent`), and a caller that got `CKR_BUFFER_TOO_SMALL`
repeats the call with a buffer of the announced length (`RetryAsTold`). The
constant `CallersRetryAsTold` turns the last one on or off: the runs that hold
without it do not use it.

### SigningPromise: what signing promises

The abstract specification: operations begin; the service issues at most one
signature per operation; a caller is answered at most once, and only after the
service signed for that operation. `Pkcs11Signing` implements it
(`PromiseKept == Promise!Spec`, with `begun <- nOps`).

### AuthTokens: which token a request carries

State: `method`, `cfgToken`, `sdkClient`, `sdkToken`, the tokens the service
accepts (`valid`), one `call` per thread. Actions are the pieces of `getToken` and
`withRetryOnAuth` (`Request`, `RequestAuthenticates`, `Answered`, `Unauthorized`,
`TokenAfterAuth`, `Resend`, `Denied`), of `UniversalAuthLogin` (`EnsureSDKClient`,
`NewSDKClient`, `Dial`, `LoginAccepted`, `LoginRefused`) and of `Login`
(`LoginPinCreds`, `LoginPinToken`, `LoginPinTokenDone`, `LoginNoPin`, `LoginDone`).
The fields are unlocked in the code, so each read and write that another thread
can come between is its own step. `Expire` and `Renew` are the service and the SDK.
Tokens are numbered, static ones below issued ones. Of the configured credentials
there are none, a ClientID alone, or both: C_Login without a PIN is content with the
ClientID, everything else asks for both (`HasCreds`). The initial states are those
in which C_Initialize has just set `initialized`: with credentials its thread is
about to log in and there is no SDK client yet, so the first calls of other threads
race with it. A C_Initialize after C_Finalize makes a new client and a new
configuration, and so starts from these states again.

### SignerCaches: the three caches

State: the entries of the signer list, the certificate and the public key of one
signer, the service's present key algorithm, one `read` per thread. Of a value
only its age (time since the service gave it out) and its algorithm matter. Time
is relative: entries grow older and have less time left, so there is no clock to
bound. A read walks through `getSigners`, `getPublicKeyData` or
`getECPublicKeyData`, and `getCertificateData`, each get, request, answer and set
a step of its own; `GetAttributeValue` reads attribute after attribute with the
signer it looked up first, and goes on after one that failed. `Latency` bounds the
time from an answer to its set (without a bound no staleness bound can hold).

### ObjectSearch: from a name to a signature

State: the service's list of signers, the cached list, search and signing fields
of the sessions, and what the application has been given (`handed`, `keys`).
`FindObjectsInit` is cut at each look-up of the slot's signer (`MatchLabel`,
`MatchSubject`, `StoreResults`); `Sign` looks the position up again. The service
adds signers at the end or at the front and removes them; `moved` records whether
any signer has changed its position.

### Approvals: signing under an approval policy

State: the approval section of the configuration, what the machine looks like and
which address the service sees, per process whether it runs and the context it
observed (`proc`), the identity whose token its client holds (`who`) and the C_Sign
in progress (`call`), the requests at the service (`requests`) and one approval
request that nobody waits for any more (`late`).

`Start` is `C_Initialize`: the configuration is validated and the context observed
(`Observed`, with `redactCommandArgs`), once per process. `Sign` sends the request of
`signInternal`; `ServiceSigns`, `AnswerIsLost`, `SignFails`, `Unauthorized` (the one
retry of `withRetryOnAuth`, under the configured identity) and `ServiceDenies` are
what becomes of it. `ReloginElsewhere` is the same retry in another thread of the
process, which changes the token that all of its threads take. `ReportDenial` and `requestApproval` are the two ends of
`reportApprovalDenial`; `AskArrives`, `AskFails` and `AskTimesOut` what becomes of the
approval request. `Exit` kills a process at any point, and its approval request may
still arrive (`AskArrivesLate`).

External, from README.md:399-422 of the repository: an approval covers a call when
every parameter of its scope that is present equals what the service sees; the
service fills in an omitted address; it resumes a pending request of the same
requester with the same scope, count and window. Requests are made by machine
identities; those of a person's token are not resumed (README.md:422) and are left
out. `Unauthorized` takes universal auth with configured credentials; the other cases
are in `AuthTokens`. A command line is a sequence of arguments of the four kinds that
`redactCommandArgs` tells apart. An argument whose secret is spelled like a secret
flag is not in the model: the code takes it for a flag, and README.md:407 promises
best effort only. Quoting, joining and truncation at 32767 bytes are left out.

### Mechanisms: from a mechanism to a request, from an error to a return value

Operators only: the mechanism tables, `parseDigestInfo`, `hashDataForMechanism`, the
choice `signInternal` makes by mechanism (`signRequest`), `mapHTTPError` and
`mapAPIError`. A byte string is symbolic: a document, the digest of a byte string, or
a DigestInfo, so "hashed exactly once" can be told from "hashed twice".

### SlotUse: one application and one slot

State: the list at the service and as cached, what the application is reading, its
room for each list or value, the length it was told and what was written, and what
it was told of mechanisms and of the signature's size. `C_GetSlotList`,
`C_GetMechanismList` and `C_GetAttributeValue` are calls with or without a buffer
(`Fill`, `FillTemplate`); `AskSize` is C_Sign without a buffer, `C_Sign` goes from the
look-up of the signer to the return value, `SlotGone`, `ListFails` and `SignFails` are
the errors before that. The application (external) makes room for what it is told
and calls again. The service (external) replaces the list, rekeys a signer, fails,
refuses what a key or an HSM cannot do, and may sign or refuse a digest of the wrong
length. An ECDSA signature has twice the length of the field, 132 bytes for P-521,
as the comment at backend.go:1163 has it.

The return value of C_Sign is here that of one call that reaches `signInternal`;
sessions, the cached signature and `CKR_BUFFER_TOO_SMALL` of C_Sign are in
`Pkcs11Signing`.

### MC modules and proof modules

`MCPkcs11Signing`, `MCAuthTokens`, `MCSignerCaches`, `MCObjectSearch`, `MCApprovals` and
`MCSlotUse` define the values and the symmetry sets of the runs. `Pkcs11SigningProofs`,
`Pkcs11SigningSafety`, `Pkcs11SigningRetry`, `AuthTokensProofs`, `SignerCachesProofs`,
`ObjectSearchProofs`, `ApprovalsProofs` and `SlotUseProofs` hold the theorems.
Operators marked "Mutant" in the component modules are plausible mistakes in the
code they stand next to; with one of them in the original's place the property
named in `PROJECT.json` fails, which shows that the property depends on that code.

## 3. Runs

| Run (cfg) | Checks | Result |
|---|---|---|
| SigningAnyCaller | TypeOK, HandleStillMine, OneRemoteSignature; callers may offer too small a buffer as often as they like | holds |
| SigningRetryAsTold | SignatureAnswersRequest, TooSmallKeepsOperation, PromiseKept; callers retry as told | holds |
| SigningReturns | CallReturns, under fairness of the module's own steps only | holds |
| ShortRetryStaleSignature | CacheServesItsOperation with any caller | violated, finding 1 |
| AuthRetry | TypeOK, CredentialsNeverMix, DeniedOnlyAfterRetry | holds |
| AuthClientReplaced | RetriesOnce401 | violated, finding 2 |
| CachesFresh | TypeOK, ServedFresh, ECReadGivesEC | holds |
| RSAKeyFromECCache | RSAReadGivesRSA | violated, finding 3 |
| SearchBatches | TypeOK, EachMatchOnce, KeySignsAsFoundInPlace | holds |
| KeyChangesSigner | KeySignsAsFound | violated, finding 4 |
| Approvals | SecretsStayHome, RetryIsCovered, NothingElseIsCovered, EveryAskIsLimited, NoPileUp, AskedByTheDenied; RetriesSucceed, under fairness | holds |
| SlotUse | NoOverrun, NoUnwrittenByte, SignatureVerifies, ToldIsUsable, SizeSuffices, RefusalTellsWhy; ReadingEnds, under fairness | holds |

Bounds and why they are enough.

- Signing: two threads (a call in flight and one that interferes), two sessions
  (closing one and opening another under a call), two operations (a value of the
  first found by the second), two buffer lengths (one short, one sufficient),
  parts of length 1 with `MaxSignBuffer` 2, or 1 where data does not matter. With
  two mechanisms (SigningRetryAsTold) a signature of the wrong operation differs
  in more than its operation number. `MaxSessions` and `MaxOps` count what is ever
  opened or begun, so re-initialization and reuse of handle 1 are inside the bound.
- Tokens: two threads, one token from the environment and one from a PIN, four
  issued tokens (a first login, a retry of each thread, a renewal), two SDK
  clients (two threads race in `ensureSDKClient`; only a third could make a third).
- Caches: two readers (one overtakes the other); RSAKeyFromECCache needs one. A unit of time is longer than
  the signer list is kept: certificate and key outlive it by one unit, and
  `Latency` 1 lets an answer be stored after a newer one. The bound of
  `ServedFresh` for public keys, twice the certificate TTL plus twice the latency,
  is reached: with one less TLC finds a counterexample.
- Search: two signers on two slots, one session that may be closed and opened on
  the other slot while handles are kept, batches of one and two of up to three
  handles (a batch that ends before, at and beyond the end).
- Approvals: two processes, two commands that differ in a secret only and hold it in
  every form, two versions of the tool, two addresses, five configurations (one of
  them invalid, one without requests). `MaxChanges` 2 gives two starts, or one start
  and one disturbance: a login, a rejection or lapse, an upgrade, a new address.
  Late requests can open further ones for what is approved already, without end;
  `MaxRequests` 3 holds those of two situations and a superfluous one, and a request
  beyond it is dropped. (With 2 a superfluous one can keep out the one that is
  needed, so `RetriesSucceed` fails for the bound's sake; with 3 it does not.)
- SlotUse: a signer of RSA-2048 before and after it is rekeyed to P-521, and one of
  RSA-3072 whose algorithm the list does not name and whose HSM lacks PSS; lists that
  are empty, of one and of two signers, so that lists, mechanism lists and attributes
  grow and shrink; two changes of the list, any number of expiries and failures.

Symmetry: threads in the safety runs of the first three components, signers in
the search runs; no action or property names one. The liveness run uses none.

Fairness. SigningReturns: weak fairness of `Progress(t)` for each thread, the
disjunction of the module's own steps that carry a call in progress on. The code
justifies it as follows. The mutexes of the table and of the caches are held for one
method and never across a request; the module's own requests end after 30 s at the
latest (`SetTimeout`, client.go:87), in `SignFails` if nothing else. Two things do
not end by themselves, and nothing is assumed of them: a login through the SDK
(client.go:130), to which the module gives no timeout, and `backend.mu`, which
C_Initialize holds through such a login (backend.go:52-93). `LoginEnds`, the return of
the SDK, has no fairness, and `CallReturns` says that each thread is outside the
module again and again, or from some point on waits for a login of its own, or for
`backend.mu` while another thread's login inside C_Initialize goes on (`AwaitsLogin`).
No fairness is assumed of callers or of success.

Approvals: weak fairness of a call in progress, which ends with its requests; the
re-login after a 401 is taken to end, as a premise of the same promise. `RetriesSucceed`
says what README.md:401 promises to somebody who repeats the command, so the rest is
that sentence's premise: commands are repeated (weak fairness of `Sign`), requests
under review are approved (weak fairness of `Approve`), and not every request is lost
(strong fairness of `ServiceSigns`, `ServiceDenies` and `AskArrives`; each is only
enabled off and on). The property is about the processes together, not about each:
the service lets one process use up the signings another one asked for, when both
run the same command.

SlotUse: weak fairness of `Call`, the application's next call of a reading it has
begun; a request ends by the client's timeout, and a login through the SDK that it
may need is taken to end. Whether a certificate can be had,
and whether the list can, stays open in every call.

## 4. Findings

1. A second too small buffer ends the operation and leaves its signature behind.
   `backend.Sign` clears the state before it returns the cached signature
   (backend.go:984), so `C_Sign` says `CKR_BUFFER_TOO_SMALL` about an operation that is
   gone, against the comment at main.go:502, and caches the signature once more.
   `SignInit` (backend.go:965-968) does not reset it, and it answers the next operation
   of the session. (`TooSmallKeepsOperation` holds for callers that retry as told, and
   fails without that assumption.)
2. The one retry after a 401 can be lost. C_Initialize sets `initialized` before it logs
   in (backend.go:76, 80), and `ensureSDKClient` tests and sets without a lock
   (client.go:123). In TLC's trace a request of another thread makes an SDK client and
   logs in with it, gets a 401 and logs in again; meanwhile C_Initialize, which had also
   found no client, puts its own in its place. The token of that one is empty, and the
   401 is returned after a single send, against backend.go:172-173.
   `DeniedOnlyAfterRetry` says that this and a change of method are the only ways.
3. `getPublicKeyData` takes a cached EC key for an RSA one (backend.go:843). In TLC's
   trace a single reader has fetched the certificate of an EC signer when the signer is
   rekeyed to RSA; the EC certificate and the EC key are stored after that, the signer
   list has expired, and the next read, of an RSA signer by the new list, is served the
   EC entry: an empty modulus and exponent.
4. A key handle found under one signer's name signs as another once the list has
   changed (backend.go:1000), because slots are positions, while tools choose the key by
   the signer's name (README.md:283, 293). In TLC's trace a handle is found as alice's,
   bob comes to be listed before alice, the cached list expires, and C_Sign signs as
   bob. A removal has the same effect in other behaviours.

Differences between the repository's README and the code, with no run of their own:

- README.md:491 gives `CKR_DEVICE_ERROR` for an unreachable server. A request without
  an answer is `CKR_GENERAL_ERROR` (main.go:783), and `RefusalTellsWhy` shows that
  C_Sign returns `CKR_DEVICE_ERROR` for a failing service only. The same table names
  `CKR_PIN_INCORRECT`, which is never returned.
- README.md:209 says that a `clientId:clientSecret` PIN selects universal auth. Under
  token auth it is authenticated and then unused, because the method stays
  (backend.go:332-341, `LoginPinCreds`).
- README.md:178-196 lists the PIN last in precedence; `Login` uses it first.
- A duration of more than 292 years in `approval.signing_duration` overflows and can
  pass the check against 30 days (config.go:102).
- `cache.token_ttl_seconds` (README.md:134) is read and never used.
- The list of signers is fetched with limit 100 and no paging (client.go:150): further
  signers have no slot.

## 5. Proofs

All theorems are proved for arbitrary sets of threads, sessions, signers, processes
and commands and for arbitrary bounds, from the assumptions named in the component
modules. Most of these only say that the constants are of their kind
(`SigningAssumption`, `AuthAssumption`, `CachesAssumption`, `SearchAssumption`,
`ApprovalsAssumption`, `SlotUseAssumption`). Three say more:

- `CallersRetryAsTold`, a hypothesis of the theorems of `Pkcs11SigningRetry`: an
  application repeats C_Sign after `CKR_BUFFER_TOO_SMALL` with the same data. The run
  `ShortRetryStaleSignature` shows that they fail without it.
- `SecretsAssumption`: a secret of a command line stands inside an argument of a secret
  flag or right after one. The code does not hide a secret anywhere else, nor does the
  repository's README promise it (README.md:407).
- `KeySizesAssumption`: keys are of the sizes in README.md:365-380. `SizeIsEnough` needs
  it: 512 bytes are too few for RSA of more than 4096 bits.

- **Pkcs11SigningProofs.** `TypeInvariant` is the inductive invariant behind
  `TypeCorrect` (`Spec => []TypeOK`) and `HandleSafety` (`Spec => []HandleStillMine`).
  `HandleStillMine` alone is not inductive: `C_OpenSession` stores at `nextID`, and
  only if no call in progress holds a handle that large is that harmless. The
  invariant adds what the table looks like (`TableInv`: entries lie below `nextID`, no
  struct is named by two handles, none beyond `allocs` is named), that a call in
  progress has a handle below `nextID` and a struct that was allocated (`CallInv`),
  and that an active operation was begun (`ActiveInv`).
- **Pkcs11SigningSafety.** `SignedAtMostOnce` (`Spec => []OneRemoteSignature`), from
  `IInv`, the type invariant together with `SignInv`: who may still cause a
  signature for an operation. A call that is sending works on an active operation
  with nothing issued yet and no cached signature, no two calls work for the same
  operation, an operation belongs to one struct, and an operation that was already
  signed for is either finished, held by a call, or has its signature in the cache
  of its session. Each remote signing therefore happens at `issued = 0`.
- **AuthTokensProofs.** `AuthTypeCorrect`, `NoCredentialFallback`
  (`CredentialsNeverMix`) and `ReauthBeforeDenial` (`DeniedOnlyAfterRetry`) from
  `AuthInv`: types, the kind of token each stage of a call holds, and, for the retry,
  that the client it logged in with holds a token newer than the one that was
  refused; that client is the current one, or was replaced by a later one, which is
  the exception the property makes.
- **SignerCachesProofs.** `CacheTypeCorrect`, `BoundedStaleness` (`ServedFresh`) and
  `ECReaderSound` (`ECReadGivesEC`) from `CacheInv`: for each entry age plus time left
  is bounded, and each pending read is as old as it has waited, plus, for a key
  being derived, the age its certificate can have had.

- **Pkcs11SigningRetry.** `AnswersItsRequest`, `TooSmallKeepsActive` and `KeepsPromise`
  (the refinement of `SigningPromise`) from `RInv`, which is `IInv` and `RetryInv`: the
  request that an application asked for is still what the struct of its session holds
  (`StructAsAsked`) and what the call in progress works with (`CallAsAsked`), and an
  operation that is active has not been answered (`OpenUnanswered`). Without the first,
  a cached signature could answer other data than it was made for; without the last,
  a step of the code could map to a second answer. The refinement is proved action
  by action (`PromiseStep`); its fairness is not part of it.
- **ObjectSearchProofs.** `SearchTypes`, `MatchesOnce` and `KeepsItsPlace` from `SInv`.
  `MatchesOnce` needs `SearchOK`: the handles given out so far are exactly the results
  up to `findPos`, which is what makes "each once" and "all of them" follow from the
  position. `KeepsItsPlace` needs `PlaceInv`: while no signer has moved, the cached list
  is a prefix of the service's, so that a position looked up in either gives the same
  signer, and every position at hand (of a search, a result, a key, an operation) is
  that of the signer it was found under.
- **ApprovalsProofs.** Six theorems from `AInv`: a call in progress was seen in the
  context of its running process and is still made under the identity of that process
  unless a thread logged in (`CallOK`); an approval request has the scope of the
  denied call (`AskOK`: `ask.scope = requestScope(ask.denied, ...)`, though it is made
  from the process's own context and not from the call); what a process knows of its
  command is clean; requests under review differ in requester or scope
  (`RequestsOK`). `RetryIsCovered` and `NothingElseIsCovered` are then two readings of
  the same equality. `NoPileUp` needs cleanness as well: the service compares scopes
  as they are, so requests are told apart by no secret only if none is in them.
- **SlotUseProofs.** Six theorems from `UInv`: the application has no room for what it is
  not reading (`OthersFree`, without which `NoUnwrittenByte` is not inductive: a buffer
  of an earlier reading would be judged by the length of this one); the mechanisms and
  the size that were told are those of the signer they were told for (`ToldOK`,
  `SizeOK`). The rest is about the operators: `RightSignature` (for every mechanism and
  every input the request carries the data hashed once), `UsableRequest`,
  `AnswerFacts`, `ReturnValues` and `EnoughRoom`. `RefusalTellsWhy` gives every return
  value of a C_Sign that has its signer a meaning, and no other value can occur;
  `CKR_GENERAL_ERROR` is the one that stands for several causes (nothing was sent, no
  permission, no answer).

The inductive invariants `RetryInv`, `SInv`, `AInv` and `UInv` hold in every state of
TLC's instances of their modules.

Only model-checked: `CallReturns`, `RetriesSucceed` and `ReadingEnds`, which are
liveness under fairness, outside this prover's reach. No module uses recursion.

## 6. Not modelled

- Configuration files and the syntax of their values, TLS set-up, logging, JSON,
  attribute encoding, `C_GetSlotInfo`, `C_GetTokenInfo` and `C_GetMechanismInfo`:
  input, output and formatting without state.
- Of the signing context: how each operating system gives the command line, the
  spelling of flag names, joining and truncation: string processing.
- Approval requests by a person's token, and approvals composed with the session
  table: a denied signing ends its operation like any other failure
  (`SignFails` of `Pkcs11Signing`).
- Identity in the caches: they outlive a change of identity by C_Login, and no text
  says they should not.
- The C bridge, the function list and the unsupported functions: plumbing.
- What the SDK does inside a login, its own timeouts and retries: a login ends with
  or without success, or never.
- Calls that break PKCS#11's rules for applications (two threads in one session's
  operation, `C_Finalize` during a call).

## 7. Plan

Every invariant and action property of the passing runs, and the refinement, is now a
theorem. Left:

1. Identity: `AuthTokens` with `SignerCaches` (the caches outlive a change of identity).
2. `KeySizesAssumption` only where it is needed: `SizeIsEnough` apart from the other
   theorems of `SlotUseProofs`.
3. Weaker hypotheses for `Pkcs11SigningRetry`: which of its results hold for sessions
   whose own application retries as told, whatever the others do.
