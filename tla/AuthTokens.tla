------------------------------ MODULE AuthTokens ------------------------------
(***************************************************************************)
(* Which access token a request to the service carries: getToken,          *)
(* withRetryOnAuth and Login of backend.go over the SDK client of          *)
(* client.go, from the moment C_Initialize has set initialized: its own    *)
(* login (backend.go:79) runs beside the calls of other threads.           *)
(*                                                                         *)
(* None of this state is locked: config.Auth and client.sdkClient are read *)
(* and written by every thread, so a call is cut at each remote request    *)
(* and between two writes (Method then Token) or a test and the write that *)
(* depends on it (ensureSDKClient).  Calls that fail with "no token" or    *)
(* "no credentials" before changing anything are stuttering steps.         *)
(***************************************************************************)
EXTENDS Integers

CONSTANTS
    Threads,
    NStatic,      \* static tokens 1..NStatic: from the environment or a PIN
    MaxIssued,    \* bound: tokens the service issues, NStatic + 1 and up
    MaxClients    \* bound: SDK clients created

ASSUME AuthAssumption ==
    /\ NStatic \in Nat \ {0}
    /\ MaxIssued \in Nat \ {0}
    /\ MaxClients \in Nat \ {0}

Static == 1..NStatic
Issued == (NStatic + 1)..(NStatic + MaxIssued)
Tokens == 0..(NStatic + MaxIssued)          \* 0 is the empty string
Clients == 1..MaxClients

(***************************************************************************)
(* pc of a thread:                                                         *)
(*   sent       a request with token tok is at the service                 *)
(*   auth       authenticate: about to test sdkClient                      *)
(*   mkClient   ensureSDKClient saw nil                                    *)
(*   dial       about to read the SDK client and log in                    *)
(*   dialed     login request of SDK client cl is at the service           *)
(*   authed     authentication done, GetAccessToken not yet called         *)
(*   denied     the call returns the service's 401                         *)
(*   pinMethod  Login wrote Method, not yet Token                          *)
(* why says who called authenticate: Initialize, getToken, the retry, or   *)
(* Login.  saw is history: the method in force when the call began.        *)
(***************************************************************************)
Calls ==
    [pc : {"idle", "sent", "auth", "mkClient", "dial", "dialed", "authed",
           "denied", "pinMethod"},
     tok : Tokens, sends : 0..2, cl : 0..MaxClients,
     why : {"none", "initialize", "getToken", "retry", "login"},
     saw : {"none", "universal-auth", "token"}]

Call(pc, tok, sends, cl, why, saw) ==
    [pc |-> pc, tok |-> tok, sends |-> sends, cl |-> cl, why |-> why, saw |-> saw]

NoCall == Call("idle", 0, 0, 0, "none", "none")

VARIABLES
    creds,        \* configured: no ClientID, only that, or ClientSecret too
    method,       \* config.Auth.Method
    cfgToken,     \* config.Auth.Token
    sdkClient,    \* client.sdkClient: the one created last, 0 is nil
    sdkToken,     \* per SDK client: its access token
    call,
    \* the service
    valid,        \* tokens it accepts
    issuedUpTo    \* last token it issued

vars == <<creds, method, cfgToken, sdkClient, sdkToken, call, valid, issuedUpTo>>
config == <<creds, method, cfgToken>>
sdk == <<sdkClient, sdkToken>>
service == <<valid, issuedUpTo>>

\* hasConfigCredentials, which Initialize, getToken and withRetryOnAuth repeat.
HasCreds == creds = "both"

\* What loadConfig can leave, and Initialize as it sets initialized: with
\* credentials its thread goes on to log in, whatever the method.
Init ==
    /\ creds \in {"none", "id", "both"}
    /\ method \in {"universal-auth", "token"}
    /\ cfgToken \in {0, 1}
    /\ sdkClient = 0
    /\ sdkToken = [c \in Clients |-> 0]
    /\ \E i \in Threads :
         call = [t \in Threads |->
                   IF t = i /\ HasCreds
                   THEN Call("auth", 0, 0, 0, "initialize", "none")
                   ELSE NoCall]
    /\ valid = Static
    /\ issuedUpTo = NStatic

GetAccessToken == IF sdkClient = 0 THEN 0 ELSE sdkToken[sdkClient]

Goto(t, c) == call' = [call EXCEPT ![t] = c]

Return(t) == Goto(t, NoCall)

-----------------------------------------------------------------------------
(* getToken and withRetryOnAuth around any request to the service.         *)

\* The token getToken has without authenticating, 0 if none.
TokenAtHand == IF method = "token" THEN cfgToken ELSE GetAccessToken

Request(t) ==
    /\ call[t] = NoCall
    /\ TokenAtHand # 0
    /\ Goto(t, Call("sent", TokenAtHand, 1, 0, "none", method))
    /\ UNCHANGED <<config, sdk, service>>

RequestAuthenticates(t) ==
    /\ call[t] = NoCall
    /\ method # "token"
    /\ GetAccessToken = 0
    /\ HasCreds
    /\ Goto(t, Call("auth", 0, 0, 0, "getToken", method))
    /\ UNCHANGED <<config, sdk, service>>

\* The service answers, with success or with an error other than 401.
Answered(t) ==
    /\ call[t].pc = "sent"
    /\ Return(t)
    /\ UNCHANGED <<config, sdk, service>>

\* Mutant: a 401 always re-authenticates, token auth included.
UnauthorizedIgnoresMethod(t) ==
    /\ call[t].pc = "sent"
    /\ call[t].tok \notin valid
    /\ Goto(t, IF call[t].sends = 2 THEN [call[t] EXCEPT !.pc = "denied"]
               ELSE IF HasCreds THEN [call[t] EXCEPT !.pc = "auth", !.why = "retry"]
               ELSE [call[t] EXCEPT !.pc = "authed", !.why = "retry"])
    /\ UNCHANGED <<config, sdk, service>>

\* Mutant: the retry takes the token at hand without authenticating.
UnauthorizedSkipsAuth(t) ==
    /\ call[t].pc = "sent"
    /\ call[t].tok \notin valid
    /\ Goto(t, IF call[t].sends = 2 \/ method = "token"
               THEN [call[t] EXCEPT !.pc = "denied"]
               ELSE [call[t] EXCEPT !.pc = "authed", !.why = "retry"])
    /\ UNCHANGED <<config, sdk, service>>

\* Mutant: every 401 under universal auth is retried.
UnauthorizedUnbounded(t) ==
    /\ call[t].pc = "sent"
    /\ call[t].tok \notin valid
    /\ Goto(t, IF method = "token" THEN [call[t] EXCEPT !.pc = "denied"]
               ELSE IF HasCreds THEN [call[t] EXCEPT !.pc = "auth", !.why = "retry"]
               ELSE [call[t] EXCEPT !.pc = "authed", !.why = "retry"])
    /\ UNCHANGED <<config, sdk, service>>

\* 401: the second one, and any under token auth, is returned; the first one
\* leads to a new login where credentials are configured.
Unauthorized(t) ==
    /\ call[t].pc = "sent"
    /\ call[t].tok \notin valid
    /\ Goto(t, IF call[t].sends = 2 \/ method = "token"
               THEN [call[t] EXCEPT !.pc = "denied"]
               ELSE IF HasCreds THEN [call[t] EXCEPT !.pc = "auth", !.why = "retry"]
               ELSE [call[t] EXCEPT !.pc = "authed", !.why = "retry"])
    /\ UNCHANGED <<config, sdk, service>>

Denied(t) ==
    /\ call[t].pc = "denied"
    /\ Return(t)
    /\ UNCHANGED <<config, sdk, service>>

\* getToken, after its own authentication.
TokenAfterAuth(t) ==
    /\ call[t].pc = "authed"
    /\ call[t].why = "getToken"
    /\ Goto(t, IF GetAccessToken = 0 THEN NoCall
               ELSE Call("sent", GetAccessToken, 1, 0, "none", call[t].saw))
    /\ UNCHANGED <<config, sdk, service>>

\* withRetryOnAuth: send again only with a token that is there and differs.
Resend(t) ==
    /\ call[t].pc = "authed"
    /\ call[t].why = "retry"
    /\ Goto(t, IF GetAccessToken \in {0, call[t].tok}
               THEN [call[t] EXCEPT !.pc = "denied"]
               ELSE Call("sent", GetAccessToken, call[t].sends + 1, 0, "none", call[t].saw))
    /\ UNCHANGED <<config, sdk, service>>

-----------------------------------------------------------------------------
(* authenticate: UniversalAuthLogin of client.go.                          *)

EnsureSDKClient(t) ==
    /\ call[t].pc = "auth"
    /\ Goto(t, [call[t] EXCEPT !.pc = IF sdkClient = 0 THEN "mkClient" ELSE "dial"])
    /\ UNCHANGED <<config, sdk, service>>

NewSDKClient(t) ==
    /\ call[t].pc = "mkClient"
    /\ sdkClient < MaxClients
    /\ sdkClient' = sdkClient + 1
    /\ Goto(t, [call[t] EXCEPT !.pc = "dial"])
    /\ UNCHANGED <<config, sdkToken, service>>

Dial(t) ==
    /\ call[t].pc = "dial"
    /\ Goto(t, [call[t] EXCEPT !.pc = "dialed", !.cl = sdkClient])
    /\ UNCHANGED <<config, sdk, service>>

LoginAccepted(t) ==
    /\ call[t].pc = "dialed"
    /\ issuedUpTo < NStatic + MaxIssued
    /\ issuedUpTo' = issuedUpTo + 1
    /\ valid' = valid \cup {issuedUpTo + 1}
    /\ sdkToken' = [sdkToken EXCEPT ![call[t].cl] = issuedUpTo + 1]
    /\ Goto(t, [call[t] EXCEPT !.pc = "authed"])
    /\ UNCHANGED <<config, sdkClient>>

\* Every caller of authenticate returns its error; Initialize only logs it.
LoginRefused(t) ==
    /\ call[t].pc = "dialed"
    /\ Return(t)
    /\ UNCHANGED <<config, sdk, service>>

-----------------------------------------------------------------------------
(* Login.                                                                  *)

\* C_Login with clientId:clientSecret as the PIN; the method stays what it is.
LoginPinCreds(t) ==
    /\ call[t] = NoCall
    /\ Goto(t, Call("auth", 0, 0, 0, "login", "none"))
    /\ UNCHANGED <<config, sdk, service>>

\* C_Login with any other PIN: an access token.
LoginPinToken(t, tok) ==
    /\ call[t] = NoCall
    /\ method' = "token"
    /\ Goto(t, Call("pinMethod", tok, 0, 0, "none", "none"))
    /\ UNCHANGED <<creds, cfgToken, sdk, service>>

LoginPinTokenDone(t) ==
    /\ call[t].pc = "pinMethod"
    /\ cfgToken' = call[t].tok
    /\ Return(t)
    /\ UNCHANGED <<creds, method, sdk, service>>

\* C_Login without a PIN changes nothing when a token is at hand, and otherwise
\* logs in with what is configured, be it a ClientID alone.
LoginNoPin(t) ==
    /\ call[t] = NoCall
    /\ method # "token"
    /\ ~(GetAccessToken # 0 /\ HasCreds)
    /\ creds # "none"
    /\ Goto(t, Call("auth", 0, 0, 0, "login", "none"))
    /\ UNCHANGED <<config, sdk, service>>

\* Initialize or Login returns.
LoginDone(t) ==
    /\ call[t].pc = "authed"
    /\ call[t].why \in {"initialize", "login"}
    /\ Return(t)
    /\ UNCHANGED <<config, sdk, service>>

-----------------------------------------------------------------------------
\* The service stops accepting a token: it expired or was revoked.
Expire(tok) ==
    /\ tok \in valid
    /\ valid' = valid \ {tok}
    /\ UNCHANGED <<config, sdk, call, issuedUpTo>>

\* The SDK renews the token of a client in the background.
Renew(c) ==
    /\ sdkToken[c] # 0
    /\ issuedUpTo < NStatic + MaxIssued
    /\ issuedUpTo' = issuedUpTo + 1
    /\ valid' = valid \cup {issuedUpTo + 1}
    /\ sdkToken' = [sdkToken EXCEPT ![c] = issuedUpTo + 1]
    /\ UNCHANGED <<config, sdkClient, call>>

Step(t) ==
    \/ Request(t) \/ RequestAuthenticates(t) \/ Answered(t) \/ Unauthorized(t)
    \/ Denied(t) \/ TokenAfterAuth(t) \/ Resend(t)
    \/ EnsureSDKClient(t) \/ NewSDKClient(t) \/ Dial(t)
    \/ LoginAccepted(t) \/ LoginRefused(t)
    \/ LoginPinCreds(t) \/ LoginPinTokenDone(t) \/ LoginNoPin(t) \/ LoginDone(t)
    \/ \E tok \in Static : LoginPinToken(t, tok)

Next ==
    \/ \E t \in Threads : Step(t)
    \/ \E tok \in valid : Expire(tok)
    \/ \E c \in Clients : Renew(c)

Spec == Init /\ [][Next]_vars

-----------------------------------------------------------------------------
(* Properties.                                                             *)

\* Every variable has its type; withRetryOnAuth sends at most twice.
TypeOK ==
    /\ creds \in {"none", "id", "both"}
    /\ method \in {"universal-auth", "token"}
    /\ cfgToken \in {0} \cup Static
    /\ sdkClient \in 0..MaxClients
    /\ sdkToken \in [Clients -> {0} \cup Issued]
    /\ call \in [Threads -> Calls]
    /\ valid \subseteq Static \cup Issued
    /\ issuedUpTo \in NStatic..(NStatic + MaxIssued)

\* "Token auth uses a static token ...; surface the 401 instead of silently
\* falling back to any universal-auth credentials" (backend.go:189): a call
\* that began under token auth only ever sends a static token, and one that
\* began under universal auth only tokens the service issued to the SDK, even
\* if a C_Login of another thread changes the method while it is under way.
CredentialsNeverMix ==
    \A t \in Threads : call[t].pc = "sent" =>
        /\ call[t].saw = "token" => call[t].tok \in Static
        /\ call[t].saw = "universal-auth" => call[t].tok \in Issued

\* "401 - re-authenticate and retry once" (backend.go:195): with configured
\* credentials a universal-auth call returns a 401 only after a second send,
\* because the method became token auth, or because the SDK client it logged in
\* with was replaced by another thread (client.go:123 tests and sets unlocked).
DeniedOnlyAfterRetry ==
    \A t \in Threads :
        call[t].pc = "denied" /\ HasCreds /\ call[t].saw = "universal-auth" =>
            \/ call[t].sends = 2
            \/ method = "token"
            \/ call[t].cl \in 1..(sdkClient - 1)

\* "if it returns a 401 APIError, re-authenticates via the SDK and retries once"
\* (backend.go:172), as it reads: under universal auth with credentials no 401 is
\* returned after a single send.
RetriesOnce401 ==
    \A t \in Threads :
        call[t].pc = "denied" /\ HasCreds /\ method = "universal-auth" =>
            call[t].sends = 2
=============================================================================
