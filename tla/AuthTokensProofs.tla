--------------------------- MODULE AuthTokensProofs ---------------------------
(* Proofs about AuthTokens for every value of its constants.               *)
EXTENDS AuthTokens, TLAPS

\* The part of a call that matters, by the method it began under: a call under
\* token auth never authenticates, and the method stays token auth.
KindOK(t) ==
    /\ call[t].saw = "token" =>
         /\ method = "token"
         /\ call[t].pc \in {"sent", "denied"}
         /\ call[t].tok \in Static
    /\ call[t].saw = "universal-auth" =>
         /\ call[t].tok \in {0} \cup Issued
         /\ call[t].tok <= issuedUpTo
         /\ call[t].pc = "sent" => call[t].tok \in Issued
    /\ call[t].pc = "pinMethod" => call[t].tok \in Static
    /\ call[t].pc \in {"sent", "denied"} => call[t].saw # "none"
    /\ call[t].why = "getToken" => call[t].saw # "none"

\* A retry that has authenticated finds, in the SDK client it logged in with, a
\* token issued after the one that was refused; that client is the current one or
\* has been replaced by a later one.
RetryOK(t) ==
    /\ call[t].pc = "dialed" => call[t].cl \in 1..sdkClient
    /\ call[t].pc = "dial" => sdkClient \in Clients
    /\ call[t].why = "retry" =>
         /\ call[t].sends = 1
         /\ call[t].saw = "universal-auth"
         /\ call[t].pc \in {"auth", "mkClient", "dial", "dialed", "authed", "denied"}
    /\ call[t].pc = "sent" => call[t].sends \in {1, 2} /\ call[t].why = "none"
    /\ HasCreds /\ call[t].pc = "authed" /\ call[t].why = "retry" =>
         call[t].cl \in 1..sdkClient /\ call[t].tok < sdkToken[call[t].cl]
    /\ HasCreds /\ call[t].pc = "denied" /\ call[t].saw = "universal-auth" =>
         call[t].sends = 2 \/ method = "token" \/ call[t].cl \in 1..(sdkClient - 1)

SdkOK == \A c \in Clients : sdkToken[c] <= issuedUpTo

AuthInv ==
    /\ TypeOK
    /\ SdkOK
    /\ \A t \in Threads : KindOK(t) /\ RetryOK(t)

-----------------------------------------------------------------------------
\* NoCall, the record of a thread outside any call, is a call record.
LEMMA NoCallFacts ==
    /\ NoCall \in Calls
    /\ NoCall.pc = "idle" /\ NoCall.why = "none" /\ NoCall.saw = "none"
  BY AuthAssumption DEF NoCall, Call, Calls, Tokens

\* The fields of a call record are what it was built from.
LEMMA CallFacts ==
    ASSUME NEW pc, NEW tok, NEW sends, NEW cl, NEW why, NEW saw
    PROVE  LET c == Call(pc, tok, sends, cl, why, saw) IN
           /\ c.pc = pc /\ c.tok = tok /\ c.sends = sends
           /\ c.cl = cl /\ c.why = why /\ c.saw = saw
  BY DEF Call

\* GetAccessToken returns no token, or one the service issued.
LEMMA GetAccessTokenType ==
    ASSUME TypeOK PROVE GetAccessToken \in {0} \cup Issued
  BY AuthAssumption DEF TypeOK, GetAccessToken, Clients

\* What loadConfig and Initialize leave satisfies the invariant.
LEMMA InitAuthInv == Init => AuthInv
<1> SUFFICES ASSUME Init PROVE AuthInv
  OBVIOUS
<1> DEFINE c == Call("auth", 0, 0, 0, "initialize", "none")
<1>1. c \in Calls
  BY AuthAssumption DEF Call, Calls, Tokens
<1>2. c.pc = "auth" /\ c.why = "initialize" /\ c.saw = "none"
  BY CallFacts
<1>3. call \in [Threads -> {c, NoCall}]
  BY DEF Init
<1> HIDE DEF c
<1>4. TypeOK
  BY <1>1, <1>3, AuthAssumption, NoCallFacts DEF Init, TypeOK, Static
<1>5. SdkOK
  BY AuthAssumption DEF Init, SdkOK
<1>6. ASSUME NEW t \in Threads PROVE KindOK(t) /\ RetryOK(t)
  <2>1. call[t] \in {c, NoCall}
    BY <1>3
  <2> QED
    BY <1>2, <2>1, NoCallFacts DEF KindOK, RetryOK
<1> QED
  BY <1>4, <1>5, <1>6 DEF AuthInv

\* What any step may do to the state a call of another thread relies on.
LEMMA OtherCalls ==
    ASSUME AuthInv, NEW u \in Threads, call'[u] = call[u], creds' = creds,
           method' \in {method, "token"},
           issuedUpTo' \in Nat, issuedUpTo <= issuedUpTo',
           sdkClient' \in 0..MaxClients, sdkClient <= sdkClient',
           \A c \in Clients : sdkToken'[c] \in Nat /\ sdkToken[c] <= sdkToken'[c]
    PROVE  KindOK(u)' /\ RetryOK(u)'
<1>1. KindOK(u) /\ RetryOK(u) /\ call[u] \in Calls /\ sdkClient \in 0..MaxClients
  BY DEF AuthInv, TypeOK
<1>2. /\ issuedUpTo \in Nat /\ call[u].tok \in Nat
      /\ \A c \in Clients : sdkToken[c] \in Nat
  BY <1>1, AuthAssumption DEF AuthInv, TypeOK, Issued, Calls, Tokens
<1>3. KindOK(u)'
  BY <1>1, <1>2 DEF KindOK
<1>4. \A x \in 1..sdkClient : x \in Clients /\ x \in 1..sdkClient'
  BY <1>1, AuthAssumption DEF Clients
<1>5. \A x \in 1..(sdkClient - 1) : x \in 1..(sdkClient' - 1)
  BY <1>1, AuthAssumption
<1>6. \A x \in Clients : call[u].tok < sdkToken[x] => call[u].tok < sdkToken'[x]
  BY <1>2
<1>7. sdkClient \in Clients => sdkClient' \in Clients
  BY <1>1, AuthAssumption DEF Clients
<1>8. HasCreds' <=> HasCreds
  BY DEF HasCreds
<1>9. RetryOK(u)'
  BY <1>1, <1>4, <1>5, <1>6, <1>7, <1>8 DEF RetryOK
<1> QED
  BY <1>3, <1>9

\* A step that only moves one call on.
LEMMA QuietStep ==
    ASSUME AuthInv, NEW t \in Threads, NEW c \in Calls,
           call' = [call EXCEPT ![t] = c], UNCHANGED <<config, sdk, service>>,
           call'[t] = c => KindOK(t)' /\ RetryOK(t)'
    PROVE  AuthInv'
<1>1. call'[t] = c /\ \A u \in Threads : u # t => call'[u] = call[u]
  BY DEF AuthInv, TypeOK
<1>2. UNCHANGED <<creds, method, cfgToken, sdkClient, sdkToken, valid, issuedUpTo>>
  BY DEF config, sdk, service
<1>3. TypeOK'
  BY <1>2 DEF AuthInv, TypeOK
<1>4. SdkOK'
  BY <1>2 DEF AuthInv, SdkOK
<1>5. /\ issuedUpTo \in Nat /\ issuedUpTo <= issuedUpTo
      /\ sdkClient \in 0..MaxClients /\ sdkClient <= sdkClient
      /\ \A x \in Clients : sdkToken[x] \in Nat /\ sdkToken[x] <= sdkToken[x]
  BY AuthAssumption DEF AuthInv, TypeOK, Issued
<1>6. ASSUME NEW u \in Threads PROVE KindOK(u)' /\ RetryOK(u)'
  <2>1. CASE u = t
    BY <1>1, <2>1
  <2>2. CASE u # t
    BY <1>1, <1>2, <1>5, <2>2, OtherCalls
  <2> QED
    BY <2>1, <2>2
<1> QED
  BY <1>3, <1>4, <1>6 DEF AuthInv

\* A call of getToken, withRetryOnAuth or Login that returns.
LEMMA ReturnStep ==
    ASSUME AuthInv, NEW t \in Threads, Return(t), UNCHANGED <<config, sdk, service>>
    PROVE  AuthInv'
<1>1. call'[t] = NoCall => KindOK(t)' /\ RetryOK(t)'
  BY NoCallFacts DEF KindOK, RetryOK
<1> QED
  BY <1>1, QuietStep, NoCallFacts DEF Return, Goto

\* Every action preserves the invariant, one step per action.
LEMMA StepAuthInv == AuthInv /\ [Next]_vars => AuthInv'
<1> SUFFICES ASSUME AuthInv, [Next]_vars PROVE AuthInv'
  OBVIOUS
<1>a. TypeOK /\ SdkOK /\ call \in [Threads -> Calls]
  BY DEF AuthInv, TypeOK
<1>b. \A t \in Threads : call[t] \in Calls /\ KindOK(t) /\ RetryOK(t)
  BY DEF AuthInv, TypeOK
<1>c. /\ GetAccessToken \in {0} \cup Issued
      /\ Issued \subseteq Nat /\ Static \subseteq Nat /\ 0 \notin Issued
      /\ {0} \cup Issued \subseteq Tokens /\ Static \subseteq Tokens
      /\ issuedUpTo \in Nat
      /\ GetAccessToken <= issuedUpTo
      /\ sdkClient \in 0..MaxClients /\ sdkClient \in Nat
  <2>1. issuedUpTo \in Nat /\ sdkClient \in 0..MaxClients /\ sdkClient \in Nat
    BY <1>a, AuthAssumption DEF TypeOK
  <2>2. GetAccessToken <= issuedUpTo
    BY <1>a, <2>1, AuthAssumption DEF TypeOK, SdkOK, GetAccessToken, Clients, Issued
  <2> QED
    BY <1>a, <2>1, <2>2, GetAccessTokenType, AuthAssumption DEF Issued, Static, Tokens
<1>d. /\ \A n \in {0} \cup Issued : n \in Nat
      /\ \A y \in Clients : sdkToken[y] \in Nat /\ sdkToken[y] <= sdkToken[y]
      /\ issuedUpTo <= issuedUpTo /\ sdkClient <= sdkClient
  <2>1. \A n \in {0} \cup Issued : n \in Nat
    BY AuthAssumption DEF Issued
  <2>2. \A y \in Clients : sdkToken[y] \in Nat
    BY <1>a, <2>1 DEF TypeOK
  <2>3. \A n \in Nat : n <= n
    OBVIOUS
  <2> QED
    BY <1>c, <2>1, <2>2, <2>3
<1>1. ASSUME NEW t \in Threads, Request(t) PROVE AuthInv'
  <2> DEFINE c == Call("sent", TokenAtHand, 1, 0, "none", method)
  <2>1. /\ TokenAtHand \in Tokens
        /\ method = "token" => TokenAtHand \in Static
        /\ method = "universal-auth" => TokenAtHand \in Issued /\ TokenAtHand <= issuedUpTo
    BY <1>1, <1>a, <1>c DEF Request, TokenAtHand, TypeOK
  <2>2. c \in Calls
    BY <2>1, <1>a, AuthAssumption DEF Call, Calls, TypeOK
  <2>3. /\ c.pc = "sent" /\ c.tok = TokenAtHand /\ c.sends = 1
        /\ c.why = "none" /\ c.saw = method
    BY CallFacts
  <2>4. UNCHANGED <<config, sdk, service>> /\ call' = [call EXCEPT ![t] = c]
    BY <1>1 DEF Request, Goto
  <2>5. method' = method /\ issuedUpTo' = issuedUpTo /\ method \in {"universal-auth", "token"}
    BY <2>4, <1>a DEF config, service, TypeOK
  <2> HIDE DEF c
  <2>6. call'[t] = c => KindOK(t)' /\ RetryOK(t)'
    BY <2>1, <2>3, <2>5 DEF KindOK, RetryOK
  <2> QED
    BY <2>2, <2>4, <2>6, <1>a, QuietStep DEF TypeOK
<1>2. ASSUME NEW t \in Threads, NEW why \in {"getToken", "login"},
             NEW saw \in {"none", "universal-auth"},
             why = "getToken" => saw = "universal-auth",
             Goto(t, Call("auth", 0, 0, 0, why, saw)),
             UNCHANGED <<config, sdk, service>>
      PROVE AuthInv'
  <2> DEFINE c == Call("auth", 0, 0, 0, why, saw)
  <2>1. c \in Calls
    BY <1>c, AuthAssumption DEF Call, Calls, Tokens
  <2>2. c.pc = "auth" /\ c.tok = 0 /\ c.why = why /\ c.saw = saw
    BY CallFacts
  <2>3. issuedUpTo' = issuedUpTo
    BY <1>2 DEF service
  <2> HIDE DEF c
  <2>4. call'[t] = c => KindOK(t)' /\ RetryOK(t)'
    BY <1>2, <1>c, <2>2, <2>3 DEF KindOK, RetryOK
  <2>5. call' = [call EXCEPT ![t] = c]
    BY <1>2 DEF Goto, c
  <2> QED
    BY <1>2, <1>a, <2>1, <2>4, <2>5, QuietStep DEF TypeOK
<1>3. ASSUME NEW t \in Threads,
             RequestAuthenticates(t) \/ LoginPinCreds(t) \/ LoginNoPin(t)
      PROVE AuthInv'
  <2>1. method # "token" => method = "universal-auth"
    BY <1>a DEF TypeOK
  <2> QED
    BY <1>2, <1>3, <2>1 DEF RequestAuthenticates, LoginPinCreds, LoginNoPin
<1>4. ASSUME NEW t \in Threads,
             Answered(t) \/ Denied(t) \/ LoginRefused(t) \/ LoginDone(t)
      PROVE AuthInv'
  BY <1>4, <1>a, ReturnStep
     DEF Answered, Denied, LoginRefused, LoginDone, TypeOK
<1>5. ASSUME NEW t \in Threads, Unauthorized(t) PROVE AuthInv'
  <2>1. /\ UNCHANGED <<config, sdk, service>> /\ call[t].pc = "sent"
        /\ UNCHANGED <<creds, method, issuedUpTo, sdkClient, sdkToken>>
    BY <1>5 DEF Unauthorized, config, sdk, service
  <2>2. call[t].sends \in {1, 2} /\ call[t].why = "none" /\ (HasCreds' <=> HasCreds)
    BY <2>1, <1>b DEF RetryOK, HasCreds
  <2>3. CASE call[t].sends = 2 \/ method = "token"
    <3> DEFINE c == [call[t] EXCEPT !.pc = "denied"]
    <3>1. /\ c \in Calls /\ c.pc = "denied" /\ c.tok = call[t].tok
          /\ c.sends = call[t].sends /\ c.why = call[t].why /\ c.saw = call[t].saw
      BY <1>b DEF Calls
    <3>2. call' = [call EXCEPT ![t] = c]
      BY <1>5, <2>3 DEF Unauthorized, Goto
    <3> HIDE DEF c
    <3>3. call'[t] = c => KindOK(t)' /\ RetryOK(t)'
      BY <1>b, <2>1, <2>2, <2>3, <3>1 DEF KindOK, RetryOK
    <3> QED
      BY <1>a, <2>1, <3>1, <3>2, <3>3, QuietStep DEF TypeOK
  <2>4. CASE ~(call[t].sends = 2 \/ method = "token")
    <3> DEFINE next == IF HasCreds THEN "auth" ELSE "authed"
               c == [call[t] EXCEPT !.pc = next, !.why = "retry"]
    <3>1. /\ c \in Calls /\ c.pc = next /\ c.tok = call[t].tok
          /\ c.sends = call[t].sends /\ c.why = "retry" /\ c.saw = call[t].saw
      BY <1>b DEF Calls
    <3>2. call' = [call EXCEPT ![t] = c]
      BY <1>5, <2>4 DEF Unauthorized, Goto
    <3>3. call[t].sends = 1 /\ call[t].saw = "universal-auth"
      BY <1>b, <2>1, <2>2, <2>4 DEF KindOK, Calls
    <3> HIDE DEF c
    <3>4. call'[t] = c => KindOK(t)' /\ RetryOK(t)'
      BY <1>b, <2>1, <2>2, <3>1, <3>3 DEF KindOK, RetryOK
    <3> QED
      BY <1>a, <2>1, <3>1, <3>2, <3>4, QuietStep DEF TypeOK
  <2> QED
    BY <2>3, <2>4
<1>6. ASSUME NEW t \in Threads, NEW n \in {1, 2}, NEW saw,
             saw = "universal-auth", GetAccessToken # 0,
             Goto(t, Call("sent", GetAccessToken, n, 0, "none", saw)),
             UNCHANGED <<config, sdk, service>>
      PROVE AuthInv'
  <2> DEFINE c == Call("sent", GetAccessToken, n, 0, "none", saw)
  <2>1. c \in Calls
    BY <1>6, <1>c, AuthAssumption DEF Call, Calls
  <2>2. /\ c.pc = "sent" /\ c.tok = GetAccessToken /\ c.sends = n
        /\ c.why = "none" /\ c.saw = "universal-auth"
    BY <1>6, CallFacts
  <2>3. issuedUpTo' = issuedUpTo /\ call' = [call EXCEPT ![t] = c]
    BY <1>6 DEF service, Goto
  <2> HIDE DEF c
  <2>4. call'[t] = c => KindOK(t)' /\ RetryOK(t)'
    BY <1>6, <1>c, <2>2, <2>3 DEF KindOK, RetryOK
  <2> QED
    BY <1>6, <1>a, <2>1, <2>3, <2>4, QuietStep DEF TypeOK
<1>7. ASSUME NEW t \in Threads, TokenAfterAuth(t) PROVE AuthInv'
  <2>1. call[t].saw = "universal-auth"
    BY <1>7, <1>b DEF TokenAfterAuth, KindOK, Calls
  <2>2. CASE GetAccessToken = 0
    BY <1>7, <1>a, <2>2, ReturnStep DEF TokenAfterAuth, Return, TypeOK
  <2>3. CASE GetAccessToken # 0
    BY <1>6, <1>7, <2>1, <2>3 DEF TokenAfterAuth
  <2> QED
    BY <2>2, <2>3
<1>8. ASSUME NEW t \in Threads, Resend(t) PROVE AuthInv'
  <2>1. /\ call[t].saw = "universal-auth" /\ call[t].sends = 1
        /\ UNCHANGED <<config, sdk, service>>
        /\ UNCHANGED <<creds, method, issuedUpTo, sdkClient, sdkToken>>
    BY <1>8, <1>b DEF Resend, RetryOK, config, sdk, service
  <2>2. CASE GetAccessToken \in {0, call[t].tok}
    <3> DEFINE c == [call[t] EXCEPT !.pc = "denied"]
    <3>1. /\ c \in Calls /\ c.pc = "denied" /\ c.tok = call[t].tok /\ c.cl = call[t].cl
          /\ c.sends = call[t].sends /\ c.why = call[t].why /\ c.saw = call[t].saw
      BY <1>b DEF Calls
    <3>2. call' = [call EXCEPT ![t] = c]
      BY <1>8, <2>2 DEF Resend, Goto
    <3>3. HasCreds => call[t].cl \in 1..(sdkClient - 1)
      <4>1. SUFFICES ASSUME HasCreds PROVE call[t].cl \in 1..(sdkClient - 1)
        OBVIOUS
      <4>2. /\ call[t].cl \in 1..sdkClient /\ call[t].tok < sdkToken[call[t].cl]
            /\ call[t].tok \in Nat
        BY <1>8, <1>b, <1>c, <2>1, <4>1 DEF Resend, RetryOK, KindOK
      <4>3. sdkClient \in Clients /\ GetAccessToken = sdkToken[sdkClient]
        BY <1>c, <4>2, AuthAssumption DEF Clients, GetAccessToken
      <4>4. call[t].cl # sdkClient
        BY <1>d, <2>2, <4>2, <4>3
      <4> QED
        BY <1>c, <4>2, <4>4
    <3>x. HasCreds' <=> HasCreds
      BY <2>1 DEF HasCreds
    <3> HIDE DEF c
    <3>4. call'[t] = c => KindOK(t)' /\ RetryOK(t)'
      BY <1>8, <1>b, <2>1, <3>1, <3>3, <3>x DEF Resend, KindOK, RetryOK
    <3> QED
      BY <1>a, <2>1, <3>1, <3>2, <3>4, QuietStep DEF TypeOK
  <2>3. CASE GetAccessToken \notin {0, call[t].tok}
    BY <1>6, <1>8, <2>1, <2>3 DEF Resend
  <2> QED
    BY <2>2, <2>3
<1>9. ASSUME NEW t \in Threads, EnsureSDKClient(t) PROVE AuthInv'
  <2> DEFINE next == IF sdkClient = 0 THEN "mkClient" ELSE "dial"
             c == [call[t] EXCEPT !.pc = next]
  <2>1. /\ UNCHANGED <<config, sdk, service>> /\ call[t].pc = "auth"
        /\ UNCHANGED <<creds, method, issuedUpTo, sdkToken, sdkClient>>
        /\ call' = [call EXCEPT ![t] = c]
    BY <1>9 DEF EnsureSDKClient, Goto, config, sdk, service
  <2>2. /\ c \in Calls /\ c.pc = next /\ c.tok = call[t].tok
        /\ c.sends = call[t].sends /\ c.why = call[t].why /\ c.saw = call[t].saw
    BY <1>b DEF Calls
  <2>3. /\ next = "dial" => sdkClient \in Clients
        /\ next \in {"dial", "mkClient"}
    BY <1>a, AuthAssumption DEF TypeOK, Clients
  <2> HIDE DEF c, next
  <2>4. call'[t] = c => KindOK(t)' /\ RetryOK(t)'
    BY <1>b, <2>1, <2>2, <2>3 DEF KindOK, RetryOK
  <2> QED
    BY <1>a, <2>1, <2>2, <2>4, QuietStep DEF TypeOK
<1>10. ASSUME NEW t \in Threads, Dial(t) PROVE AuthInv'
  <2> DEFINE c == [call[t] EXCEPT !.pc = "dialed", !.cl = sdkClient]
  <2>1. /\ UNCHANGED <<config, sdk, service>> /\ call[t].pc = "dial"
        /\ UNCHANGED <<creds, method, issuedUpTo, sdkToken, sdkClient>>
        /\ call' = [call EXCEPT ![t] = c]
    BY <1>10 DEF Dial, Goto, config, sdk, service
  <2>2. /\ c \in Calls /\ c.pc = "dialed" /\ c.tok = call[t].tok /\ c.cl = sdkClient
        /\ c.sends = call[t].sends /\ c.why = call[t].why /\ c.saw = call[t].saw
    BY <1>a, <1>b DEF Calls, TypeOK
  <2> HIDE DEF c
  <2>3. sdkClient \in 1..sdkClient
    BY <1>b, <1>c, <2>1 DEF RetryOK, Clients
  <2>4. call'[t] = c => KindOK(t)' /\ RetryOK(t)'
    BY <1>b, <2>1, <2>2, <2>3 DEF KindOK, RetryOK
  <2> QED
    BY <1>a, <2>1, <2>2, <2>4, QuietStep DEF TypeOK
<1>11. ASSUME NEW t \in Threads, NewSDKClient(t) PROVE AuthInv'
  <2> DEFINE c == [call[t] EXCEPT !.pc = "dial"]
  <2>1. /\ UNCHANGED <<creds, method, cfgToken, sdkToken, valid, issuedUpTo>>
        /\ call[t].pc = "mkClient"
        /\ call' = [call EXCEPT ![t] = c]
    BY <1>11, <1>b DEF NewSDKClient, Goto, config, service
  <2>2. sdkClient' \in Clients /\ sdkClient' \in 0..MaxClients /\ sdkClient <= sdkClient'
    BY <1>11, <1>a, AuthAssumption DEF NewSDKClient, TypeOK, Clients
  <2>3. /\ c \in Calls /\ c.pc = "dial" /\ c.tok = call[t].tok
        /\ c.sends = call[t].sends /\ c.why = call[t].why /\ c.saw = call[t].saw
    BY <1>b DEF Calls
  <2> HIDE DEF c
  <2>4. call'[t] = c /\ \A u \in Threads : u # t => call'[u] = call[u]
    BY <1>a, <2>1
  <2>5. TypeOK'
    BY <1>a, <2>1, <2>2, <2>3 DEF TypeOK, Clients
  <2>6. SdkOK'
    BY <1>a, <2>1 DEF SdkOK
  <2>7. KindOK(t)' /\ RetryOK(t)'
    BY <1>b, <2>1, <2>2, <2>3, <2>4 DEF KindOK, RetryOK
  <2>8. ASSUME NEW u \in Threads, u # t PROVE KindOK(u)' /\ RetryOK(u)'
    BY <1>c, <1>d, <2>1, <2>2, <2>4, <2>8, OtherCalls
  <2> QED
    BY <2>5, <2>6, <2>7, <2>8 DEF AuthInv
<1>12. ASSUME NEW x \in Clients,
              issuedUpTo < NStatic + MaxIssued, issuedUpTo' = issuedUpTo + 1,
              valid' = valid \cup {issuedUpTo + 1},
              sdkToken' = [sdkToken EXCEPT ![x] = issuedUpTo + 1],
              UNCHANGED <<config, sdkClient>>,
              call' \in [Threads -> Calls]
       PROVE  /\ TypeOK' /\ SdkOK'
              /\ sdkToken'[x] = issuedUpTo + 1
              /\ \A u \in Threads : call'[u] = call[u] => KindOK(u)' /\ RetryOK(u)'
  <2>1. issuedUpTo + 1 \in Issued /\ issuedUpTo' \in NStatic..(NStatic + MaxIssued)
    BY <1>12, <1>a, AuthAssumption DEF TypeOK, Issued
  <2>2. /\ sdkToken' \in [Clients -> {0} \cup Issued] /\ sdkToken'[x] = issuedUpTo + 1
        /\ \A y \in Clients : y # x => sdkToken'[y] = sdkToken[y]
    BY <1>12, <1>a, <2>1 DEF TypeOK
  <2>3. TypeOK'
    BY <1>12, <1>a, <2>1, <2>2 DEF TypeOK, config
  <2>4. \A y \in Clients : sdkToken[y] \in Nat /\ sdkToken[y] <= issuedUpTo
    BY <1>a, <1>d DEF TypeOK, SdkOK
  <2>5. SdkOK'
    BY <1>12, <1>a, <1>c, <2>2, <2>4 DEF SdkOK, config
  <2>6. \A y \in Clients : sdkToken'[y] \in Nat /\ sdkToken[y] <= sdkToken'[y]
    BY <1>c, <2>1, <2>2, <2>4
  <2> QED
    BY <1>12, <1>c, <1>d, <2>2, <2>3, <2>5, <2>6, OtherCalls DEF config
<1>13. ASSUME NEW t \in Threads, LoginAccepted(t) PROVE AuthInv'
  <2> DEFINE c == [call[t] EXCEPT !.pc = "authed"]
  <2>1. call[t].pc = "dialed" /\ call[t].cl \in 1..sdkClient /\ call[t].cl \in Clients
    BY <1>13, <1>b, <1>c, AuthAssumption DEF LoginAccepted, RetryOK, Clients
  <2>2. /\ c \in Calls /\ c.pc = "authed" /\ c.tok = call[t].tok /\ c.cl = call[t].cl
        /\ c.sends = call[t].sends /\ c.why = call[t].why /\ c.saw = call[t].saw
    BY <1>b DEF Calls
  <2>3. call' = [call EXCEPT ![t] = c]
    BY <1>13 DEF LoginAccepted, Goto
  <2> HIDE DEF c
  <2>4. /\ call' \in [Threads -> Calls] /\ call'[t] = c
        /\ \A u \in Threads : u # t => call'[u] = call[u]
    BY <1>a, <2>2, <2>3
  <2>5. /\ TypeOK' /\ SdkOK' /\ sdkToken'[call[t].cl] = issuedUpTo + 1
        /\ \A u \in Threads : u # t => KindOK(u)' /\ RetryOK(u)'
    BY <1>12, <1>13, <2>1, <2>4 DEF LoginAccepted
  <2>6. UNCHANGED <<creds, method, sdkClient>> /\ issuedUpTo' = issuedUpTo + 1
    BY <1>13 DEF LoginAccepted, config
  <2>7. call[t].why = "retry" => call[t].tok \in Nat /\ call[t].tok <= issuedUpTo
    BY <1>b, <1>d DEF KindOK, RetryOK
  <2>8. KindOK(t)'
    <3>1. call[t].saw = "universal-auth" => call[t].tok \in Nat
      BY <1>b, <1>d DEF KindOK
    <3> QED
      BY <1>b, <1>c, <2>1, <2>2, <2>4, <2>6, <3>1 DEF KindOK
  <2>9. RetryOK(t)'
    BY <1>b, <1>c, <2>1, <2>2, <2>4, <2>5, <2>6, <2>7 DEF RetryOK
  <2> QED
    BY <2>5, <2>8, <2>9 DEF AuthInv
<1>14. ASSUME NEW x \in Clients, Renew(x) PROVE AuthInv'
  BY <1>12, <1>14, <1>a DEF Renew, AuthInv
<1>15. ASSUME NEW t \in Threads, NEW tok \in Static, LoginPinToken(t, tok)
       PROVE AuthInv'
  <2> DEFINE c == Call("pinMethod", tok, 0, 0, "none", "none")
  <2>1. c \in Calls
    BY <1>c, AuthAssumption DEF Call, Calls
  <2>2. c.pc = "pinMethod" /\ c.tok = tok /\ c.why = "none" /\ c.saw = "none"
    BY CallFacts
  <2>3. /\ UNCHANGED <<creds, cfgToken, sdkClient, sdkToken, valid,
                       issuedUpTo>>
        /\ method' = "token" /\ call' = [call EXCEPT ![t] = c]
    BY <1>15 DEF LoginPinToken, Goto, sdk, service
  <2> HIDE DEF c
  <2>4. call'[t] = c /\ \A u \in Threads : u # t => call'[u] = call[u]
    BY <1>a, <2>3
  <2>5. TypeOK'
    BY <1>a, <2>1, <2>3 DEF TypeOK
  <2>6. SdkOK'
    BY <1>a, <2>3 DEF SdkOK
  <2>7. KindOK(t)' /\ RetryOK(t)'
    BY <2>2, <2>4 DEF KindOK, RetryOK
  <2>8. ASSUME NEW u \in Threads, u # t PROVE KindOK(u)' /\ RetryOK(u)'
    BY <1>c, <1>d, <2>3, <2>4, <2>8, OtherCalls
  <2> QED
    BY <2>5, <2>6, <2>7, <2>8 DEF AuthInv
<1>16. ASSUME NEW t \in Threads, LoginPinTokenDone(t) PROVE AuthInv'
  <2>1. /\ UNCHANGED <<creds, method, sdkClient, sdkToken, valid, issuedUpTo>>
        /\ cfgToken' = call[t].tok
        /\ call' = [call EXCEPT ![t] = NoCall]
    BY <1>16 DEF LoginPinTokenDone, Return, Goto, sdk, service
  <2>2. call[t].tok \in Static
    BY <1>16, <1>b DEF LoginPinTokenDone, KindOK
  <2>3. call'[t] = NoCall /\ \A u \in Threads : u # t => call'[u] = call[u]
    BY <1>a, <2>1
  <2>4. TypeOK'
    BY <1>a, <2>1, <2>2, NoCallFacts DEF TypeOK
  <2>5. SdkOK'
    BY <1>a, <2>1 DEF SdkOK
  <2>6. KindOK(t)' /\ RetryOK(t)'
    BY <2>3, NoCallFacts DEF KindOK, RetryOK
  <2>7. ASSUME NEW u \in Threads, u # t PROVE KindOK(u)' /\ RetryOK(u)'
    BY <1>c, <1>d, <2>1, <2>3, <2>7, OtherCalls
  <2> QED
    BY <2>4, <2>5, <2>6, <2>7 DEF AuthInv
<1>17. ASSUME NEW tok \in valid, Expire(tok) PROVE AuthInv'
  <2>1. /\ UNCHANGED <<creds, method, cfgToken, sdkClient, sdkToken,
                       issuedUpTo, call>>
        /\ valid' \subseteq valid
    BY <1>17 DEF Expire, config, sdk
  <2>2. TypeOK' /\ SdkOK'
    BY <1>a, <2>1 DEF TypeOK, SdkOK
  <2>3. ASSUME NEW u \in Threads PROVE KindOK(u)' /\ RetryOK(u)'
    BY <1>c, <1>d, <2>1, OtherCalls
  <2> QED
    BY <2>2, <2>3 DEF AuthInv
<1>18. CASE UNCHANGED vars
  BY <1>18 DEF vars, AuthInv, TypeOK, SdkOK, KindOK, RetryOK, HasCreds
<1>19. ASSUME NEW t \in Threads, Step(t) PROVE AuthInv'
  BY <1>19, <1>1, <1>3, <1>4, <1>5, <1>7, <1>8, <1>9, <1>10, <1>11, <1>13, <1>15,
     <1>16 DEF Step
<1> QED
  BY <1>14, <1>17, <1>18, <1>19 DEF Next

\* The inductive invariant holds in every reachable state.
THEOREM AuthInvariant == Spec => []AuthInv
  BY InitAuthInv, StepAuthInv, PTL DEF Spec

\* Type correctness, with it the bound of two sends per call.
THEOREM AuthTypeCorrect == Spec => []TypeOK
<1>1. AuthInv => TypeOK
  BY DEF AuthInv
<1> QED
  BY <1>1, AuthInvariant, PTL

\* For any number of threads, tokens and SDK clients, a call sends tokens of
\* the kind its method calls for and no other.
THEOREM NoCredentialFallback == Spec => []CredentialsNeverMix
<1>1. AuthInv => CredentialsNeverMix
  BY DEF AuthInv, KindOK, CredentialsNeverMix
<1> QED
  BY <1>1, AuthInvariant, PTL

\* With configured credentials a 401 is reported only after a retry with a new
\* token, unless the method was switched to token auth meanwhile or the SDK client
\* of the re-login was replaced: no other interleaving loses the retry.
THEOREM ReauthBeforeDenial == Spec => []DeniedOnlyAfterRetry
<1>1. AuthInv => DeniedOnlyAfterRetry
  BY DEF AuthInv, RetryOK, DeniedOnlyAfterRetry
<1> QED
  BY <1>1, AuthInvariant, PTL
=============================================================================
