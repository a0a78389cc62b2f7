------------------------------ MODULE Approvals ------------------------------
(***************************************************************************)
(* Signing under an approval policy: signInternal's request, the denial    *)
(* (403 ApprovalRequired), the approval request the module opens for it    *)
(* (reportApprovalDenial, requestApproval of backend.go), its scope        *)
(* (signing_context.go), and the repetition of the command.                *)
(*                                                                         *)
(* Several host processes sign with the same configuration.  A process     *)
(* looks at its command line and its machine once, in C_Initialize.  Each  *)
(* request to the service is a step of its own: it can be lost before it   *)
(* arrives, its answer can be lost, and an approval request that the       *)
(* process no longer waits for can still arrive.  The service, the         *)
(* approver and the machine are external.                                  *)
(*                                                                         *)
(* Data.  A command is a sequence of arguments, an argument is what        *)
(* redactCommandArgs tells apart: the flag or word, and its value.  Of the *)
(* bytes to be signed only their SHA-256 matters here.                     *)
(***************************************************************************)
EXTENDS Integers, Sequences

CONSTANTS
    Callers,        \* host processes, one signing thread each
    Commands,       \* command lines
    Secrets,        \* values a command line must not disclose
    Machines,       \* what a process can see of its machine
    Hashes,         \* SHA-256 of the data to be signed
    Addresses,      \* addresses the service can see a call come from
    ApprovalConfigs,\* approval sections of the configuration file
    MaxRequests,    \* bound: approval requests alive at the service
    MaxChanges,     \* bound: starts, logins, rejections and lapses, changes of the machine
    Unset,          \* an empty string, an omitted field
    Skipped         \* the JSON null of scopeSkipped

MachineFields == {"signing_application", "signing_application_hash",
                  "hostname", "os_username"}
ContextFields == MachineFields \cup {"command"}
ScopeFieldNames == ContextFields \cup {"ip_address", "data_hash"}

\* The identity of the configured credentials and one given as a PIN.
Identities == {"config", "pin"}

Requests == 1..MaxRequests

(***************************************************************************)
(* kind of an argument:                                                    *)
(*   flag    a secret flag, its value is the next argument   -storepass    *)
(*   inline  a secret flag with its value                    -pass=value   *)
(*   colon   the same with a colon                           -pass:value   *)
(*   plain   anything else, value is the argument itself                   *)
(***************************************************************************)
Hidden == [kind |-> "plain", value |-> "***"]

ASSUME ApprovalsAssumption ==
    /\ MaxRequests \in Nat /\ MaxChanges \in Nat
    /\ \A command \in Commands : \A i \in DOMAIN command :
         /\ DOMAIN command[i] = {"kind", "value"}
         /\ command[i].kind \in {"flag", "inline", "colon", "plain"}
    /\ \A m \in Machines : DOMAIN m = MachineFields
    /\ \A c \in ApprovalConfigs :
         /\ c.SigningCount \in Int
         /\ c.SigningDuration \in Int \cup {Unset}
    \* no number and no address is empty or null
    /\ Unset \notin Int \cup Addresses \cup {Skipped} /\ Skipped \notin Addresses

\* A secret stands where redactCommandArgs knows one: inside an argument, or next
\* to a flag that is followed by one.  A secret anywhere else is not hidden.
ASSUME SecretsAssumption ==
    /\ "***" \notin Secrets
    /\ \A command \in Commands : \A i \in DOMAIN command :
         command[i].value \in Secrets =>
            \/ command[i].kind \in {"inline", "colon"}
            \/ command[i].kind = "plain" /\ i > 1 /\ command[i - 1].kind = "flag"

-----------------------------------------------------------------------------
(* The configuration (config.go).  SigningDuration is Unset or in minutes. *)

\* Mutant: a negative signing_count is let through.
validateAnyCount(c) ==
    /\ c.SigningDuration # Unset => c.SigningDuration \in 1..(30 * 24 * 60)
    /\ c.exclude \subseteq ScopeFieldNames
    /\ c.ipAddress \in Addresses \cup {Unset}

validate(c) ==
    /\ c.SigningDuration # Unset => c.SigningDuration \in 1..(30 * 24 * 60)
    /\ c.SigningCount >= 0
    /\ c.exclude \subseteq ScopeFieldNames
    /\ c.ipAddress \in Addresses \cup {Unset}

\* Approval requests are opened automatically.
Asks(c) == c.SigningCount # 0 \/ c.SigningDuration # Unset

-----------------------------------------------------------------------------
(* What the service is told about a process (signing_context.go).          *)

isSecret(arg) == arg.kind \in {"flag", "inline"}

\* Mutant: "-pass:secret" is left as it is.
redactCommandArgsKeepsColon(args) ==
    [i \in DOMAIN args |->
        IF i > 1 /\ args[i - 1].kind = "flag" /\ ~isSecret(args[i]) THEN Hidden
        ELSE IF args[i].kind = "inline" THEN [args[i] EXCEPT !.value = "***"]
        ELSE args[i]]

\* Mutant: the value after a secret flag is left as it is.
redactCommandArgsKeepsValue(args) ==
    [i \in DOMAIN args |->
        IF args[i].kind \in {"inline", "colon"} THEN [args[i] EXCEPT !.value = "***"]
        ELSE args[i]]

\* redactValue is set for argument i exactly by a flag at i - 1.
redactCommandArgs(args) ==
    [i \in DOMAIN args |->
        IF i > 1 /\ args[i - 1].kind = "flag" /\ ~isSecret(args[i]) THEN Hidden
        ELSE IF args[i].kind \in {"inline", "colon"} THEN [args[i] EXCEPT !.value = "***"]
        ELSE args[i]]

\* The signingContext of a process with these arguments on this machine.
Observed(args, machine) ==
    [f \in ContextFields |->
        IF f # "command" THEN machine[f]
        ELSE IF args = <<>> THEN Unset ELSE redactCommandArgs(args)]

\* Mutant: excluding the command drops the checksum of the tool as well.
requestScopeDropsChecksum(context, dataHash, config) ==
    [f \in ScopeFieldNames |->
        CASE f \in config.exclude -> IF f = "ip_address" THEN Skipped ELSE Unset
          [] f \notin config.exclude /\ f = "ip_address" -> config.ipAddress
          [] f \notin config.exclude /\ f = "data_hash" -> dataHash
          [] OTHER -> IF f = "signing_application_hash" /\ "command" \in config.exclude
                      THEN Unset ELSE context[f]]

\* Mutant: the name of the host and of the account change places.
requestScopeSwapsNames(context, dataHash, config) ==
    [f \in ScopeFieldNames |->
        CASE f \in config.exclude -> IF f = "ip_address" THEN Skipped ELSE Unset
          [] f \notin config.exclude /\ f = "ip_address" -> config.ipAddress
          [] f \notin config.exclude /\ f = "data_hash" -> dataHash
          [] f \notin config.exclude /\ f = "hostname" -> context["os_username"]
          [] f \notin config.exclude /\ f = "os_username" -> context["hostname"]
          [] OTHER -> context[f]]

requestScope(context, dataHash, config) ==
    [f \in ScopeFieldNames |->
        CASE f \in config.exclude -> IF f = "ip_address" THEN Skipped ELSE Unset
          [] f \notin config.exclude /\ f = "ip_address" -> config.ipAddress
          [] f \notin config.exclude /\ f = "data_hash" -> dataHash
          [] OTHER -> context[f]]

\* A signing as the service sees it: the clientMetadata of signRequest, the
\* data, and the address the call comes from.
Situation(context, dataHash, address) ==
    [f \in ScopeFieldNames |->
        CASE f = "ip_address" -> address
          [] f = "data_hash"  -> dataHash
          [] OTHER -> context[f]]

-----------------------------------------------------------------------------
VARIABLES
    config,     \* config.Approval, the same for all processes
    machine,    \* what the machine looks like now
    address,    \* where the service sees calls come from
    proc,       \* per process: whether it runs, and its signingCtx
    who,        \* per process: whose access token the SDK client holds
    call,       \* per process: the C_Sign in progress
    requests,   \* the approval requests at the service
    late,       \* approval requests under way that nobody waits for (bound: one)
    changes,    \* changes so far, see MaxChanges
    \* history
    signed      \* the processes whose last C_Sign succeeded

vars == <<config, machine, address, proc, who, call, requests, late, changes, signed>>
environment == <<config, machine, address, changes>>

NotRunning == [up |-> FALSE, context |-> Unset]

(***************************************************************************)
(* pc of a call: idle; signing: the sign request is under way; denied: the *)
(* 403 has arrived, pending is its HasPendingRequest; asking: the approval *)
(* request ask has been sent.  by is the identity the sign request was     *)
(* made with, seen the situation the service saw, and switched (history)   *)
(* whether another thread has logged in since.                             *)
(***************************************************************************)
NoCall == [pc |-> "idle", attempt |-> 0, by |-> "config",
           seen |-> Unset, pending |-> FALSE, ask |-> Unset, switched |-> FALSE]

NoRequest == [status |-> "none"]

Init ==
    /\ config \in ApprovalConfigs
    /\ machine = CHOOSE m \in Machines : TRUE  \* the machine can change to any other
    /\ address \in Addresses
    /\ proc = [c \in Callers |-> NotRunning]
    /\ who = [c \in Callers |-> "config"]
    /\ call = [c \in Callers |-> NoCall]
    /\ requests = [r \in Requests |-> NoRequest]
    /\ late = {}
    /\ changes = 0
    /\ signed = {}

-----------------------------------------------------------------------------
(* The service (external): what an approval covers, and what opening does. *)

Covers(request, by, situation) ==
    /\ request.by = by
    /\ \A f \in ScopeFieldNames : request.scope[f] \in {Unset, situation[f]}

Alive(status) == {r \in Requests : requests[r].status = status}

Covering(status, c) ==
    {r \in Alive(status) : Covers(requests[r], call[c].by, call[c].seen)}

\* An omitted address is filled in, a null one leaves the address open.
Stored(scope, from) ==
    [scope EXCEPT !["ip_address"] =
        IF @ = Unset THEN from ELSE IF @ = Skipped THEN Unset ELSE @]

\* A pending request of the same requester with the same scope is resumed (the
\* count and the window come from the one configuration).
Opened(ask) ==
    LET scope == Stored(ask.scope, address) IN
    IF \E r \in Alive("pending") : requests[r].by = ask.by /\ requests[r].scope = scope
    THEN UNCHANGED requests
    ELSE LET free == {r \in Requests : requests[r].status = "none"} IN
         IF free = {} THEN UNCHANGED requests
         ELSE requests' = [requests EXCEPT ![CHOOSE r \in free : \A q \in free : r <= q] =
                  [status |-> "pending", by |-> ask.by, scope |-> scope,
                   left |-> ask.signings]]

-----------------------------------------------------------------------------
(* The process.                                                            *)

\* Mutant: the machine is looked at anew each time (no sync.Once).
currentSigningContextAnew(c) ==
    [f \in ContextFields |-> IF f = "command" THEN proc[c].context[f] ELSE machine[f]]

currentSigningContext(c) == proc[c].context

\* C_Initialize: the configuration is valid, signingCtxOnce runs.
Start(c, args) ==
    /\ ~proc[c].up
    /\ validate(config)
    /\ changes < MaxChanges
    /\ changes' = changes + 1
    /\ proc' = [proc EXCEPT ![c] = [up |-> TRUE, context |-> Observed(args, machine)]]
    /\ who' = [who EXCEPT ![c] = "config"]
    /\ UNCHANGED <<config, machine, address, call, requests, late, signed>>

\* The process ends or is killed, in a call or not.
Exit(c) ==
    /\ proc[c].up
    /\ proc' = [proc EXCEPT ![c] = NotRunning]
    /\ call' = [call EXCEPT ![c] = NoCall]
    /\ late' = IF call[c].pc = "asking" /\ late = {} THEN {call[c].ask} ELSE late
    /\ signed' = signed \ {c}
    /\ UNCHANGED <<environment, who, requests>>

\* Another thread of the process logs in with a PIN.
Login(c) ==
    /\ proc[c].up
    /\ who[c] = "config"
    /\ changes < MaxChanges
    /\ changes' = changes + 1
    /\ who' = [who EXCEPT ![c] = "pin"]
    /\ call' = [call EXCEPT ![c].switched = call[c].pc # "idle"]
    /\ UNCHANGED <<config, machine, address, proc, requests, late, signed>>

\* Another thread gets a 401: withRetryOnAuth logs in with the configured
\* credentials, on the one SDK client that all threads take their tokens from.
ReloginElsewhere(c) ==
    /\ proc[c].up
    /\ who[c] = "pin"
    /\ who' = [who EXCEPT ![c] = "config"]
    /\ call' = [call EXCEPT ![c].switched = call[c].pc # "idle"]
    /\ UNCHANGED <<environment, proc, requests, late, signed>>

\* signInternal sends the sign request.
Sign(c, dataHash) ==
    /\ proc[c].up
    /\ call[c] = NoCall
    /\ call' = [call EXCEPT ![c] =
                  [NoCall EXCEPT !.pc = "signing", !.attempt = 1, !.by = who[c],
                     !.seen = Situation(currentSigningContext(c), dataHash, address)]]
    /\ UNCHANGED <<environment, proc, who, requests, late, signed>>

\* Mutant: the login of the retry leaves the client's token alone.
UnauthorizedKeepsToken(c) ==
    /\ call[c].pc = "signing"
    /\ call[c].attempt = 1
    /\ call' = [call EXCEPT ![c].attempt = 2, ![c].by = "config",
                            ![c].seen = [@ EXCEPT !["ip_address"] = address]]
    /\ UNCHANGED <<environment, proc, who, requests, late, signed>>

\* withRetryOnAuth: a first 401 logs in with the configured credentials.
Unauthorized(c) ==
    /\ call[c].pc = "signing"
    /\ call[c].attempt = 1
    /\ who' = [who EXCEPT ![c] = "config"]
    /\ call' = [call EXCEPT ![c].attempt = 2, ![c].by = "config",
                            ![c].seen = [@ EXCEPT !["ip_address"] = address]]
    /\ UNCHANGED <<environment, proc, requests, late, signed>>

Fail(c) ==
    /\ call' = [call EXCEPT ![c] = NoCall]
    /\ signed' = signed \ {c}

\* An approval covers the call: one signing of it is used up, here and when the
\* answer is lost on its way back.
UseUp(c) ==
    \E r \in Covering("approved", c) :
        requests' = [requests EXCEPT ![r] =
            CASE @.left = Unset -> @
              [] @.left = 1     -> NoRequest
              [] OTHER          -> [requests[r] EXCEPT !.left = @ - 1]]

ServiceSigns(c) ==
    /\ call[c].pc = "signing"
    /\ UseUp(c)
    /\ call' = [call EXCEPT ![c] = NoCall]
    /\ signed' = signed \cup {c}
    /\ UNCHANGED <<environment, proc, who, late>>

AnswerIsLost(c) ==
    /\ call[c].pc = "signing"
    /\ UseUp(c)
    /\ Fail(c)
    /\ UNCHANGED <<environment, proc, who, late>>

\* The request is lost, or refused for a reason that no approval resolves:
\* reportApprovalDenial does nothing.
SignFails(c) ==
    /\ call[c].pc = "signing"
    /\ Fail(c)
    /\ UNCHANGED <<environment, proc, who, requests, late>>

\* 403 ApprovalRequired.
ServiceDenies(c) ==
    /\ call[c].pc = "signing"
    /\ Covering("approved", c) = {}
    /\ call' = [call EXCEPT ![c].pc = "denied",
                            ![c].pending = Covering("pending", c) # {}]
    /\ UNCHANGED <<environment, proc, who, requests, late, signed>>

\* reportApprovalDenial only reports: a request is already under review, or no
\* count and no duration are configured.
ReportDenial(c) ==
    /\ call[c].pc = "denied"
    /\ call[c].pending \/ ~Asks(config)
    /\ Fail(c)
    /\ UNCHANGED <<environment, proc, who, requests, late>>

\* requestApproval: the token is read again, the context is the process's own.
requestApproval(c) ==
    /\ call[c].pc = "denied"
    /\ ~call[c].pending /\ Asks(config)
    /\ call' = [call EXCEPT ![c].pc = "asking", ![c].ask =
                  [by |-> who[c],
                   scope |-> requestScope(currentSigningContext(c),
                                         call[c].seen["data_hash"], config),
                   signings |-> IF config.SigningCount > 0 THEN config.SigningCount ELSE Unset,
                   window |-> config.SigningDuration,
                   denied |-> call[c].seen, deniedBy |-> call[c].by,
                   switched |-> call[c].switched]]
    /\ UNCHANGED <<environment, proc, who, requests, late, signed>>

\* The approval request arrives; C_Sign fails whatever becomes of the answer.
AskArrives(c) ==
    /\ call[c].pc = "asking"
    /\ Opened(call[c].ask)
    /\ Fail(c)
    /\ UNCHANGED <<environment, proc, who, late>>

\* It is lost, or answered with an error (a 401 is not repeated).
AskFails(c) ==
    /\ call[c].pc = "asking"
    /\ Fail(c)
    /\ UNCHANGED <<environment, proc, who, requests, late>>

\* The 30 s of the HTTP client are over before it arrives.
AskTimesOut(c) ==
    /\ call[c].pc = "asking"
    /\ late = {}
    /\ late' = {call[c].ask}
    /\ Fail(c)
    /\ UNCHANGED <<environment, proc, who, requests>>

-----------------------------------------------------------------------------
(* The network, the approver and the machine (external).                   *)

AskArrivesLate(ask) ==
    /\ ask \in late
    /\ late' = late \ {ask}
    /\ Opened(ask)
    /\ UNCHANGED <<environment, proc, who, call, signed>>

AskIsLost(ask) ==
    /\ ask \in late
    /\ late' = late \ {ask}
    /\ UNCHANGED <<environment, proc, who, call, requests, signed>>

Approve(r) ==
    /\ requests[r].status = "pending"
    /\ requests' = [requests EXCEPT ![r].status = "approved"]
    /\ UNCHANGED <<environment, proc, who, call, late, signed>>

\* A request is rejected; an approval is revoked, or its window is over.
Lapse(r) ==
    /\ requests[r].status # "none"
    /\ changes < MaxChanges
    /\ changes' = changes + 1
    /\ requests' = [requests EXCEPT ![r] = NoRequest]
    /\ UNCHANGED <<config, machine, address, proc, who, call, late, signed>>

\* The signing tool is upgraded, the host renamed, ...
MachineChanges(m) ==
    /\ changes < MaxChanges
    /\ m # machine
    /\ changes' = changes + 1
    /\ machine' = m
    /\ UNCHANGED <<config, address, proc, who, call, requests, late, signed>>

AddressChanges(a) ==
    /\ changes < MaxChanges
    /\ a # address
    /\ changes' = changes + 1
    /\ address' = a
    /\ UNCHANGED <<config, machine, proc, who, call, requests, late, signed>>

\* The steps that carry a C_Sign in progress on towards its return.
Progress(c) ==
    \/ Unauthorized(c) \/ ServiceSigns(c) \/ AnswerIsLost(c) \/ SignFails(c)
    \/ ServiceDenies(c) \/ ReportDenial(c) \/ requestApproval(c)
    \/ AskArrives(c) \/ AskFails(c) \/ AskTimesOut(c)

Next ==
    \/ \E c \in Callers :
         \/ \E args \in Commands : Start(c, args)
         \/ Exit(c) \/ Login(c) \/ ReloginElsewhere(c)
         \/ \E dataHash \in Hashes : Sign(c, dataHash)
         \/ Progress(c)
    \/ \E ask \in late : AskArrivesLate(ask) \/ AskIsLost(ask)
    \/ \E r \in Requests : Approve(r) \/ Lapse(r)
    \/ \E m \in Machines : MachineChanges(m)
    \/ \E a \in Addresses : AddressChanges(a)

Spec == Init /\ [][Next]_vars

(***************************************************************************)
(* The module's part: a call in progress goes on (30 s per request).  The  *)
(* rest is what "retrying the sign operation will succeed" (README.md:401) *)
(* takes for granted: the command is repeated for ever, not every request  *)
(* is lost, not every approval request is rejected, and the login after a  *)
(* 401 ends, which the module gives no time.                               *)
(***************************************************************************)
Fairness ==
    /\ \A c \in Callers :
         /\ WF_vars(Progress(c))
         /\ WF_vars(\E dataHash \in Hashes : Sign(c, dataHash))
         /\ SF_vars(ServiceSigns(c)) /\ SF_vars(ServiceDenies(c)) /\ SF_vars(AskArrives(c))
    /\ \A r \in Requests : WF_vars(Approve(r))

FairSpec == Spec /\ Fairness

-----------------------------------------------------------------------------
(* Properties.                                                             *)

Open == Alive("pending") \cup Alive("approved")

\* The approval requests on their way to the service.
UnderWay == {call[c].ask : c \in {d \in Callers : call[d].pc = "asking"}} \cup late

Situations ==
    {Situation(Observed(args, m), dataHash, a) :
        args \in Commands, m \in Machines, dataHash \in Hashes, a \in Addresses}

Discloses(command) ==
    command # Unset /\ \E i \in DOMAIN command : command[i].value \in Secrets

\* No secret value of a command line reaches the service, with a sign request
\* or in the scope of an approval request, under way or stored
\* (redactCommandArgs, signing_context.go:97).
SecretsStayHome ==
    /\ \A c \in Callers : call[c].pc # "idle" => ~Discloses(call[c].seen["command"])
    /\ \A ask \in UnderWay : ~Discloses(ask.scope["command"])
    /\ \A r \in Open : ~Discloses(requests[r].scope["command"])

\* The address an approval request is tied to when it arrives now.
TiedTo == IF config.ipAddress = Unset THEN address ELSE config.ipAddress

\* "Once an approver approves the request, retrying the sign operation will
\* succeed" (README.md:401): a request covers the call that was denied, though
\* the machine may have changed between the denied call and the request, unless
\* it is tied to an address the call did not come from (requestApproval,
\* backend.go:1117).
RetryIsCovered ==
    \A ask \in UnderWay :
        \/ Covers([by |-> ask.by, scope |-> Stored(ask.scope, address)], ask.by, ask.denied)
        \/ "ip_address" \notin config.exclude /\ TiedTo # ask.denied["ip_address"]

\* A request never covers more than the call that was denied: whatever it covers
\* agrees with that call in every parameter the process could observe and the
\* configuration does not exclude (requestScope, signing_context.go:220).
NothingElseIsCovered ==
    \A ask \in UnderWay : \A s \in Situations :
        Covers([by |-> ask.by, scope |-> Stored(ask.scope, address)], ask.by, s) =>
            \A f \in ScopeFieldNames \ config.exclude :
                IF f = "ip_address" THEN s[f] = TiedTo ELSE ask.denied[f] \in {Unset, s[f]}

\* No approval without a limit is asked for: every request names a number of
\* signings or a window, whatever the configuration file says (validate,
\* config.go:143; reportApprovalDenial, backend.go:1097; requestApproval,
\* backend.go:1123-1128).
EveryAskIsLimited ==
    \A ask \in UnderWay : ask.signings # Unset \/ ask.window # Unset

\* The scope of a request, its command without the secrets.
Masked(request) ==
    LET Mask(command) ==
            IF command = Unset THEN Unset
            ELSE [i \in DOMAIN command |->
                    IF command[i].value \in Secrets THEN [command[i] EXCEPT !.value = "***"]
                    ELSE command[i]]
    IN  [request.scope EXCEPT !["command"] = Mask(@)]

\* "Retrying a denied command does not pile up duplicate requests" (README.md:420):
\* over lost, late and repeated approval requests of several processes, no two
\* requests under review differ in nothing but the secrets of the command.
NoPileUp ==
    \A r1, r2 \in Alive("pending") :
        requests[r1].by = requests[r2].by /\ Masked(requests[r1]) = Masked(requests[r2])
            => r1 = r2

\* An approval request is made by the identity whose signing was denied, also
\* when a 401 has put the configured identity in the place of the one of a PIN
\* during the call (backend.go:199), unless another thread logs in meanwhile, by a
\* PIN or after a 401 of its own.
AskedByTheDenied ==
    \A ask \in UnderWay : ask.by = ask.deniedBy \/ ask.switched

\* README.md:401 over time: while processes keep running and repeating their
\* commands, signings succeed again and again, whatever was lost, rejected, expired
\* or restarted before, if requests are configured and not tied to an address the
\* calls do not come from.  Which process succeeds is open: one of them may use up
\* every signing the other asked for.  (<>[]A => []<>B, written []<>(A => B).)
RetriesSucceed ==
    LET CanSucceed(c) ==
            /\ proc[c].up /\ Asks(config)
            /\ "ip_address" \in config.exclude \/ TiedTo = address
    IN  []<>((\E c \in Callers : CanSucceed(c)) => signed # {})
=============================================================================
