--------------------------- MODULE ApprovalsProofs ---------------------------
(***************************************************************************)
(* Proofs about Approvals for every value of its constants: what an        *)
(* approval request asks for, by whom and for which call, what it          *)
(* discloses, and that requests do not pile up.                            *)
(***************************************************************************)
EXTENDS Approvals, TLAPS

\* A command as the service may see it: unknown, or a list of arguments without
\* secrets.
Clean(command) ==
    /\ ~Discloses(command)
    /\ command # Unset => command = [i \in DOMAIN command |-> command[i]]

\* A process runs under a valid configuration, and what it knows of itself is clean.
ProcOK(c) ==
    proc[c].up => validate(config) /\ Clean(proc[c].context["command"])

\* An approval request is for the call that was denied: its scope is that call's,
\* but for what the configuration leaves out.
AskOK(ask) ==
    /\ validate(config)
    /\ ask.scope = requestScope(ask.denied, ask.denied["data_hash"], config)
    /\ Clean(ask.scope["command"])
    /\ ask.signings # Unset \/ ask.window # Unset
    /\ ask.by = ask.deniedBy \/ ask.switched

CallFields == {"pc", "attempt", "by", "seen", "pending", "ask", "switched"}

\* A call belongs to a running process and is seen in that process's context, and
\* the identity it was made with is still the process's unless a thread logged in.
CallOK(c) ==
    /\ DOMAIN call[c] = CallFields
    /\ call[c].pc \in {"idle", "signing", "denied", "asking"}
    /\ call[c].pc # "idle" =>
         /\ proc[c].up
         /\ call[c].seen = Situation(proc[c].context, call[c].seen["data_hash"],
                                     call[c].seen["ip_address"])
         /\ call[c].by = who[c] \/ call[c].switched
    /\ call[c].pc = "asking" => AskOK(call[c].ask)

\* A request at the service discloses nothing.
RequestOK(request) ==
    \/ request = NoRequest
    \/ /\ DOMAIN request = {"status", "by", "scope", "left"}
       /\ request.status \in {"pending", "approved"}
       /\ request.scope = [f \in ScopeFieldNames |-> request.scope[f]]
       /\ Clean(request.scope["command"])

Domains ==
    /\ proc = [c \in Callers |-> proc[c]]
    /\ who = [c \in Callers |-> who[c]]
    /\ call = [c \in Callers |-> call[c]]

\* Requests under review differ in the requester or in the scope.
RequestsOK ==
    /\ requests = [r \in Requests |-> requests[r]]
    /\ \A r \in Requests : RequestOK(requests[r])
    /\ \A r1, r2 \in Requests :
         /\ requests[r1].status = "pending" /\ requests[r2].status = "pending"
         /\ requests[r1].by = requests[r2].by /\ requests[r1].scope = requests[r2].scope
         => r1 = r2

AInv ==
    /\ Domains
    /\ config \in ApprovalConfigs /\ address \in Addresses
    /\ \A c \in Callers : ProcOK(c) /\ CallOK(c)
    /\ \A ask \in late : AskOK(ask)
    /\ RequestsOK

-----------------------------------------------------------------------------
(* Lemmas about the signing context and the scope.                         *)

\* redactCommandArgs hides every secret, whatever the order of the arguments.
LEMMA RedactedIsClean ==
    ASSUME NEW args \in Commands PROVE Clean(redactCommandArgs(args))
<1> DEFINE q == redactCommandArgs(args)
<1>1. /\ q = [i \in DOMAIN args |-> q[i]] /\ DOMAIN q = DOMAIN args
      /\ q = [i \in DOMAIN q |-> q[i]]
  BY DEF redactCommandArgs
<1>2. ASSUME NEW i \in DOMAIN args PROVE q[i].value \notin Secrets
  <2>1. /\ DOMAIN args[i] = {"kind", "value"}
        /\ args[i].kind \in {"flag", "inline", "colon", "plain"}
    BY <1>2, ApprovalsAssumption
  <2>2. q[i] = IF i > 1 /\ args[i - 1].kind = "flag" /\ ~isSecret(args[i]) THEN Hidden
               ELSE IF args[i].kind \in {"inline", "colon"}
               THEN [args[i] EXCEPT !.value = "***"] ELSE args[i]
    BY <1>2 DEF redactCommandArgs
  <2>3. CASE i > 1 /\ args[i - 1].kind = "flag" /\ ~isSecret(args[i])
    BY <2>2, <2>3, SecretsAssumption DEF Hidden
  <2>4. CASE /\ ~(i > 1 /\ args[i - 1].kind = "flag" /\ ~isSecret(args[i]))
             /\ args[i].kind \in {"inline", "colon"}
    <3>1. q[i] = [args[i] EXCEPT !.value = "***"]
      BY <2>2, <2>4
    <3>2. q[i].value = "***"
      BY <2>1, <3>1
    <3> QED
      BY <3>2, SecretsAssumption
  <2>5. CASE /\ ~(i > 1 /\ args[i - 1].kind = "flag" /\ ~isSecret(args[i]))
             /\ args[i].kind \notin {"inline", "colon"}
    <3>1. q[i] = args[i]
      BY <2>2, <2>5
    <3>2. args[i].value \notin Secrets
      BY <1>2, <2>1, <2>5, SecretsAssumption DEF isSecret
    <3> QED
      BY <3>1, <3>2
  <2> QED
    BY <2>3, <2>4, <2>5
<1> HIDE DEF q
<1>3. Clean(q)
  BY <1>1, <1>2 DEF Clean, Discloses
<1> QED
  BY <1>3 DEF q

\* What a process observes of itself is clean.
LEMMA ObservedIsClean ==
    ASSUME NEW args \in Commands, NEW m PROVE Clean(Observed(args, m)["command"])
<1>1. Observed(args, m)["command"] = IF args = <<>> THEN Unset ELSE redactCommandArgs(args)
  BY DEF Observed, ContextFields, MachineFields
<1>2. Clean(Unset)
  BY DEF Clean, Discloses
<1> QED
  BY <1>1, <1>2, RedactedIsClean

\* The fields of a situation.
LEMMA SituationFacts ==
    ASSUME NEW context, NEW dataHash, NEW from
    PROVE  /\ Situation(context, dataHash, from)["data_hash"] = dataHash
           /\ Situation(context, dataHash, from)["ip_address"] = from
           /\ \A f \in ContextFields : Situation(context, dataHash, from)[f] = context[f]
           /\ DOMAIN Situation(context, dataHash, from) = ScopeFieldNames
BY DEF Situation, ScopeFieldNames, ContextFields, MachineFields

\* A repeated call is seen at the address it comes from then.
LEMMA SeenElsewhere ==
    ASSUME NEW context, NEW dataHash, NEW from, NEW to
    PROVE  [Situation(context, dataHash, from) EXCEPT !["ip_address"] = to]
             = Situation(context, dataHash, to)
BY DEF Situation

\* The scope that a process asks for is the scope of the situation that the
\* service saw.
LEMMA ScopeOfSituation ==
    ASSUME NEW context, NEW seen, NEW cfg,
           seen = Situation(context, seen["data_hash"], seen["ip_address"])
    PROVE  requestScope(context, seen["data_hash"], cfg)
             = requestScope(seen, seen["data_hash"], cfg)
<1>1. \A f \in ContextFields : seen[f] = context[f]
  BY SituationFacts
<1>2. ASSUME NEW f \in ScopeFieldNames
      PROVE  requestScope(context, seen["data_hash"], cfg)[f]
               = requestScope(seen, seen["data_hash"], cfg)[f]
  <2>1. f \in ContextFields \/ f = "ip_address" \/ f = "data_hash"
    BY DEF ScopeFieldNames
  <2> QED
    BY <1>1, <2>1 DEF requestScope
<1> QED
  BY <1>2 DEF requestScope

\* A scope's command is the process's, or left out.
LEMMA ScopeCommand ==
    ASSUME NEW context, NEW dataHash, NEW cfg
    PROVE  requestScope(context, dataHash, cfg)["command"] \in {Unset, context["command"]}
BY DEF requestScope, ScopeFieldNames, ContextFields

\* The service stores a scope as it is, but for the address.
LEMMA StoredFacts ==
    ASSUME NEW scope, NEW from, scope = [f \in ScopeFieldNames |-> scope[f]]
    PROVE  /\ Stored(scope, from) = [f \in ScopeFieldNames |-> Stored(scope, from)[f]]
           /\ \A f \in ScopeFieldNames \ {"ip_address"} : Stored(scope, from)[f] = scope[f]
           /\ Stored(scope, from)["ip_address"] =
                IF scope["ip_address"] = Unset THEN from
                ELSE IF scope["ip_address"] = Skipped THEN Unset ELSE scope["ip_address"]
BY DEF Stored, ScopeFieldNames

\* Opening an approval request adds one request at most, and none that is like
\* one under review.
LEMMA OpenedFacts ==
    ASSUME RequestsOK, NEW ask, AskOK(ask), Opened(ask)
    PROVE  RequestsOK'
<1> DEFINE scope == Stored(ask.scope, address)
           new == [status |-> "pending", by |-> ask.by, scope |-> scope,
                   left |-> ask.signings]
<1>1. CASE UNCHANGED requests
  BY <1>1 DEF RequestsOK, RequestOK
<1>2. CASE requests' # requests
  <2>1. /\ ~ \E r \in Alive("pending") : requests[r].by = ask.by /\ requests[r].scope = scope
        /\ \E x : requests' = [requests EXCEPT ![x] = new]
    BY <1>2 DEF Opened
  <2>2. \A r \in Requests : requests[r].status = "pending" =>
            ~(requests[r].by = ask.by /\ requests[r].scope = scope)
    BY <2>1 DEF Alive
  <2>3. RequestOK(new)
    <3>1. ask.scope = [f \in ScopeFieldNames |-> ask.scope[f]] /\ Clean(ask.scope["command"])
      BY DEF AskOK, requestScope
    <3>2. scope = [f \in ScopeFieldNames |-> scope[f]] /\ scope["command"] = ask.scope["command"]
      <4>1. "command" \in ScopeFieldNames \ {"ip_address"}
        BY DEF ScopeFieldNames, ContextFields
      <4> QED
        BY <3>1, <4>1, StoredFacts
    <3> HIDE DEF scope
    <3> QED
      BY <3>1, <3>2 DEF RequestOK
  <2>4. new.status = "pending" /\ new.by = ask.by /\ new.scope = scope
    OBVIOUS
  <2> HIDE DEF new, scope
  <2>5. PICK x : requests' = [requests EXCEPT ![x] = new]
    BY <2>1
  <2>6. /\ requests' = [r \in Requests |-> requests'[r]]
        /\ \A r \in Requests : requests'[r] = IF r = x THEN new ELSE requests[r]
    BY <2>5 DEF RequestsOK
  <2>7. \A r \in Requests : RequestOK(requests[r])'
    BY <2>3, <2>6 DEF RequestsOK, RequestOK
  <2> QED
    BY <2>2, <2>4, <2>6, <2>7 DEF RequestsOK
<1> QED
  BY <1>1, <1>2

-----------------------------------------------------------------------------
(* Steps of a process.                                                     *)

\* The step changes nothing of the other processes.
OnlyCaller(c) ==
    /\ Domains'
    /\ \A d \in Callers \ {c} :
         proc'[d] = proc[d] /\ who'[d] = who[d] /\ call'[d] = call[d]

\* What a step of one process has to keep.
LEMMA CallerStep ==
    ASSUME AInv, NEW c \in Callers, OnlyCaller(c), UNCHANGED <<config, address>>,
           ProcOK(c)', CallOK(c)', RequestsOK', \A ask \in late' : AskOK(ask)
    PROVE  AInv'
<1>1. \A ask : AskOK(ask) => AskOK(ask)'
  BY DEF AskOK
<1>2. ASSUME NEW d \in Callers \ {c} PROVE ProcOK(d)' /\ CallOK(d)'
  <2>1. ProcOK(d) /\ CallOK(d) /\ proc'[d] = proc[d] /\ who'[d] = who[d] /\ call'[d] = call[d]
    BY <1>2 DEF AInv, OnlyCaller
  <2>2. ProcOK(d)'
    BY <2>1 DEF ProcOK
  <2>3. call[d].pc = "asking" => AskOK(call[d].ask)'
    BY <2>1 DEF CallOK, AskOK
  <2>4. CallOK(d)'
    BY <2>1, <2>3 DEF CallOK, Situation
  <2> QED
    BY <2>2, <2>4
<1> QED
  BY <1>1, <1>2 DEF AInv, OnlyCaller

\* A process in no call after the step.
LEMMA IdleCaller ==
    ASSUME AInv, NEW c \in Callers, call' = [call EXCEPT ![c] = NoCall],
           UNCHANGED <<config, address, proc, who>>,
           RequestsOK', \A ask \in late' : AskOK(ask)
    PROVE  AInv'
<1>1. OnlyCaller(c) /\ call'[c] = NoCall
  BY DEF AInv, Domains, OnlyCaller
<1>2. CallOK(c)'
  BY <1>1 DEF CallOK, NoCall, CallFields
<1>3. ProcOK(c)'
  BY DEF AInv, ProcOK
<1> QED
  BY <1>1, <1>2, <1>3, CallerStep

\* The steps of a process keep the invariant.
LEMMA CallerPreserves ==
    ASSUME AInv, NEW c \in Callers,
           \/ \E args \in Commands : Start(c, args)
           \/ Exit(c) \/ Login(c) \/ ReloginElsewhere(c)
           \/ \E dataHash \in Hashes : Sign(c, dataHash)
           \/ Progress(c)
    PROVE  AInv'
<1>a. /\ Domains /\ ProcOK(c) /\ CallOK(c) /\ RequestsOK
      /\ \A ask \in late : AskOK(ask)
      /\ proc = [d \in Callers |-> proc[d]]
      /\ who = [d \in Callers |-> who[d]]
      /\ call = [d \in Callers |-> call[d]]
  BY DEF AInv, Domains
<1>b. UNCHANGED requests => RequestsOK'
  BY <1>a DEF RequestsOK, RequestOK
<1>1. ASSUME NEW args \in Commands, Start(c, args) PROVE AInv'
  <2>1. /\ proc'[c] = [up |-> TRUE, context |-> Observed(args, machine)]
        /\ validate(config) /\ ~proc[c].up /\ OnlyCaller(c) /\ call'[c] = call[c]
        /\ UNCHANGED <<config, address, requests, late>>
    BY <1>1, <1>a DEF Start, OnlyCaller, Domains
  <2>2. ProcOK(c)'
    <3>1. Clean(proc'[c].context["command"])
      BY <2>1, ObservedIsClean
    <3>2. validate(config)'
      BY <2>1 DEF validate
    <3> QED
      BY <3>1, <3>2 DEF ProcOK
  <2>3. CallOK(c)'
    BY <1>a, <2>1 DEF CallOK
  <2> QED
    BY <1>a, <1>b, <2>1, <2>2, <2>3, CallerStep
<1>2. ASSUME Exit(c) PROVE AInv'
  <2>1. /\ proc'[c] = NotRunning /\ call'[c] = NoCall /\ OnlyCaller(c)
        /\ UNCHANGED <<config, address, requests>>
    BY <1>2, <1>a DEF Exit, OnlyCaller, Domains, environment
  <2>2. ProcOK(c)' /\ CallOK(c)'
    BY <2>1 DEF ProcOK, CallOK, NotRunning, NoCall, CallFields
  <2>3. \A ask \in late' : AskOK(ask)
    BY <1>2, <1>a DEF Exit, CallOK
  <2> QED
    BY <1>b, <2>1, <2>2, <2>3, CallerStep
<1>3. ASSUME Login(c) \/ ReloginElsewhere(c) PROVE AInv'
  <2>1. /\ call'[c] = [call[c] EXCEPT !.switched = call[c].pc # "idle"]
        /\ UNCHANGED <<config, address, proc, requests, late>> /\ OnlyCaller(c)
    BY <1>3, <1>a DEF Login, ReloginElsewhere, OnlyCaller, Domains, environment
  <2>2. /\ DOMAIN call'[c] = CallFields /\ call'[c].pc = call[c].pc
        /\ call'[c].seen = call[c].seen /\ call'[c].ask = call[c].ask
        /\ call'[c].switched = (call[c].pc # "idle")
    BY <1>a, <2>1 DEF CallOK, CallFields
  <2>3. CallOK(c)'
    BY <1>a, <2>1, <2>2 DEF CallOK, AskOK
  <2>4. ProcOK(c)'
    BY <1>a, <2>1 DEF ProcOK
  <2> QED
    BY <1>a, <1>b, <2>1, <2>3, <2>4, CallerStep
<1>4. ASSUME NEW dataHash \in Hashes, Sign(c, dataHash) PROVE AInv'
  <2> DEFINE seen == Situation(proc[c].context, dataHash, address)
  <2>1. /\ call'[c] = [NoCall EXCEPT !.pc = "signing", !.attempt = 1, !.by = who[c],
                                     !.seen = seen]
        /\ UNCHANGED <<config, address, proc, who, requests, late>> /\ OnlyCaller(c)
        /\ proc[c].up
    BY <1>4, <1>a DEF Sign, OnlyCaller, Domains, environment, currentSigningContext
  <2>2. /\ seen["data_hash"] = dataHash /\ seen["ip_address"] = address
    BY SituationFacts
  <2>3. /\ DOMAIN call'[c] = CallFields /\ call'[c].pc = "signing"
        /\ call'[c].seen = seen /\ call'[c].by = who[c]
    BY <2>1 DEF NoCall, CallFields
  <2>4. call'[c].seen = Situation(proc[c].context, call'[c].seen["data_hash"],
                                  call'[c].seen["ip_address"])
    BY <2>2, <2>3
  <2> HIDE DEF seen
  <2>5. CallOK(c)'
    BY <2>1, <2>3, <2>4 DEF CallOK, Situation
  <2>6. ProcOK(c)'
    BY <1>a, <2>1 DEF ProcOK
  <2> QED
    BY <1>a, <1>b, <2>1, <2>5, <2>6, CallerStep
<1>5. ASSUME Unauthorized(c) PROVE AInv'
  <2> DEFINE seen == [call[c].seen EXCEPT !["ip_address"] = address]
  <2>1. /\ call'[c] = [call[c] EXCEPT !.attempt = 2, !.by = "config", !.seen = seen]
        /\ UNCHANGED <<config, address, proc, requests, late>> /\ OnlyCaller(c)
        /\ who'[c] = "config" /\ call[c].pc = "signing"
    BY <1>5, <1>a DEF Unauthorized, OnlyCaller, Domains, environment
  <2>2. seen = Situation(proc[c].context, call[c].seen["data_hash"], address)
    <3>1. call[c].seen = Situation(proc[c].context, call[c].seen["data_hash"],
                                   call[c].seen["ip_address"])
      BY <1>a, <2>1 DEF CallOK
    <3> QED
      BY <3>1 DEF Situation
  <2> HIDE DEF seen
  <2>3. seen["data_hash"] = call[c].seen["data_hash"] /\ seen["ip_address"] = address
    BY <2>2, SituationFacts
  <2>4. /\ DOMAIN call'[c] = CallFields /\ call'[c].pc = "signing"
        /\ call'[c].seen = seen /\ call'[c].by = "config"
    BY <1>a, <2>1 DEF CallOK, CallFields
  <2>5. CallOK(c)'
    BY <1>a, <2>1, <2>2, <2>3, <2>4 DEF CallOK, Situation
  <2>6. ProcOK(c)'
    BY <1>a, <2>1 DEF ProcOK
  <2> QED
    BY <1>a, <1>b, <2>1, <2>5, <2>6, CallerStep
<1>6. ASSUME UseUp(c) PROVE RequestsOK'
  <2>1. PICK x \in Requests :
          /\ requests[x].status = "approved"
          /\ requests' = [requests EXCEPT ![x] =
                            CASE @.left = Unset -> @
                              [] @.left = 1     -> NoRequest
                              [] OTHER          -> [requests[x] EXCEPT !.left = @ - 1]]
    BY <1>6 DEF UseUp, Covering, Alive
  <2> DEFINE less == requests[x].left - 1
             used == CASE requests[x].left = Unset -> requests[x]
                       [] requests[x].left = 1     -> NoRequest
                       [] OTHER                    -> [requests[x] EXCEPT !.left = less]
  <2>2. /\ requests' = [r \in Requests |-> requests'[r]]
        /\ \A r \in Requests \ {x} : requests'[r] = requests[r]
        /\ \/ requests'[x] = requests[x]
           \/ requests'[x] = NoRequest
           \/ requests'[x] = [requests[x] EXCEPT !.left = less]
    <3>1. requests' = [requests EXCEPT ![x] = used]
      BY <2>1
    <3>2. \/ used = requests[x] \/ used = NoRequest
          \/ used = [requests[x] EXCEPT !.left = less]
      <4> HIDE DEF less
      <4> QED
        BY ApprovalsAssumption
    <3> HIDE DEF used, less
    <3>3. /\ requests' = [r \in Requests |-> requests'[r]]
          /\ \A r \in Requests \ {x} : requests'[r] = requests[r]
          /\ requests'[x] = used
      BY <1>a, <3>1 DEF RequestsOK
    <3> QED
      BY <3>2, <3>3
  <2> HIDE DEF used, less
  <2>3. /\ DOMAIN requests[x] = {"status", "by", "scope", "left"}
        /\ RequestOK(requests[x])
    BY <1>a, <2>1 DEF RequestsOK, RequestOK, NoRequest
  <2>4. /\ RequestOK(requests'[x]) /\ requests'[x].status # "pending"
    <3>1. CASE requests'[x] = [requests[x] EXCEPT !.left = less]
      <4>1. /\ DOMAIN requests'[x] = {"status", "by", "scope", "left"}
            /\ requests'[x].status = requests[x].status
            /\ requests'[x].scope = requests[x].scope
        BY <2>3, <3>1
      <4> QED
        BY <2>1, <2>3, <4>1 DEF RequestOK, NoRequest
    <3> QED
      BY <2>1, <2>2, <2>3, <3>1 DEF RequestOK, NoRequest
  <2>5. \A r \in Requests : RequestOK(requests'[r])
    BY <1>a, <2>2, <2>4 DEF RequestsOK
  <2> QED
    BY <1>a, <2>2, <2>4, <2>5 DEF RequestsOK, RequestOK
<1>7. ASSUME ServiceSigns(c) \/ AnswerIsLost(c) PROVE AInv'
  BY <1>6, <1>7, <1>a, IdleCaller DEF ServiceSigns, AnswerIsLost, Fail, environment
<1>8. ASSUME SignFails(c) \/ ReportDenial(c) \/ AskFails(c) PROVE AInv'
  BY <1>8, <1>a, <1>b, IdleCaller DEF SignFails, ReportDenial, AskFails, Fail, environment
<1>9. ASSUME ServiceDenies(c) PROVE AInv'
  <2>1. /\ call'[c] = [call[c] EXCEPT !.pc = "denied", !.pending = Covering("pending", c) # {}]
        /\ UNCHANGED <<config, address, proc, who, requests, late>> /\ OnlyCaller(c)
        /\ call[c].pc = "signing"
    BY <1>9, <1>a DEF ServiceDenies, OnlyCaller, Domains, environment
  <2>2. /\ DOMAIN call'[c] = CallFields /\ call'[c].pc = "denied"
        /\ call'[c].seen = call[c].seen /\ call'[c].by = call[c].by
        /\ call'[c].switched = call[c].switched
    BY <1>a, <2>1 DEF CallOK, CallFields
  <2>3. CallOK(c)'
    BY <1>a, <2>1, <2>2 DEF CallOK, Situation
  <2>4. ProcOK(c)'
    BY <1>a, <2>1 DEF ProcOK
  <2> QED
    BY <1>a, <1>b, <2>1, <2>3, <2>4, CallerStep
<1>10. ASSUME requestApproval(c) PROVE AInv'
  <2> DEFINE ask ==
        [by |-> who[c],
         scope |-> requestScope(proc[c].context, call[c].seen["data_hash"], config),
         signings |-> IF config.SigningCount > 0 THEN config.SigningCount ELSE Unset,
         window |-> config.SigningDuration,
         denied |-> call[c].seen, deniedBy |-> call[c].by, switched |-> call[c].switched]
  <2>1. /\ call'[c] = [call[c] EXCEPT !.pc = "asking", !.ask = ask]
        /\ UNCHANGED <<config, address, proc, who, requests, late>> /\ OnlyCaller(c)
        /\ call[c].pc = "denied" /\ Asks(config)
    BY <1>10, <1>a DEF requestApproval, OnlyCaller, Domains, environment,
       currentSigningContext
  <2>2. AskOK(ask)
    <3>1. validate(config) /\ Clean(proc[c].context["command"])
      BY <1>a, <2>1 DEF ProcOK, CallOK
    <3>2. ask.scope = requestScope(ask.denied, ask.denied["data_hash"], config)
      BY <1>a, <2>1, ScopeOfSituation DEF CallOK
    <3>3. Clean(ask.scope["command"])
      <4>1. ask.scope["command"] \in {Unset, proc[c].context["command"]}
        BY ScopeCommand
      <4>2. Clean(Unset)
        BY DEF Clean, Discloses
      <4> QED
        BY <3>1, <4>1, <4>2
    <3>4. ask.signings # Unset \/ ask.window # Unset
      <4>1. config.SigningCount \in Int
        BY ApprovalsAssumption DEF AInv
      <4> QED
        <5>1. CASE config.SigningCount > 0
          <6>1. ask.signings = config.SigningCount
            BY <5>1
          <6> QED
            BY <4>1, <6>1, ApprovalsAssumption
        <5>2. CASE ~(config.SigningCount > 0)
          <6>1. config.SigningCount >= 0
            BY <3>1 DEF validate
          <6>2. config.SigningCount = 0
            BY <4>1, <5>2, <6>1
          <6>3. ask.window = config.SigningDuration
            OBVIOUS
          <6> QED
            BY <2>1, <6>2, <6>3 DEF Asks
        <5> QED
          BY <5>1, <5>2
    <3>5. ask.by = ask.deniedBy \/ ask.switched
      BY <1>a, <2>1 DEF CallOK
    <3> QED
      BY <3>1, <3>2, <3>3, <3>4, <3>5 DEF AskOK
  <2> HIDE DEF ask
  <2>3. /\ DOMAIN call'[c] = CallFields /\ call'[c].pc = "asking" /\ call'[c].ask = ask
        /\ call'[c].seen = call[c].seen /\ call'[c].by = call[c].by
        /\ call'[c].switched = call[c].switched
    BY <1>a, <2>1 DEF CallOK, CallFields
  <2>4. AskOK(call[c].ask)'
    BY <2>1, <2>2, <2>3 DEF AskOK
  <2>5. CallOK(c)'
    BY <1>a, <2>1, <2>3, <2>4 DEF CallOK, Situation
  <2>6. ProcOK(c)'
    BY <1>a, <2>1 DEF ProcOK
  <2> QED
    BY <1>a, <1>b, <2>1, <2>5, <2>6, CallerStep
<1>11. ASSUME AskArrives(c) PROVE AInv'
  <2>1. RequestsOK'
    BY <1>11, <1>a, OpenedFacts DEF AskArrives, CallOK
  <2> QED
    BY <1>11, <1>a, <2>1, IdleCaller DEF AskArrives, Fail, environment
<1>12. ASSUME AskTimesOut(c) PROVE AInv'
  <2>1. \A ask \in late' : AskOK(ask)
    BY <1>12, <1>a DEF AskTimesOut, CallOK
  <2> QED
    BY <1>12, <1>b, <2>1, IdleCaller DEF AskTimesOut, Fail, environment
<1> QED
  BY <1>1, <1>2, <1>3, <1>4, <1>5, <1>7, <1>8, <1>9, <1>10, <1>11, <1>12 DEF Progress

-----------------------------------------------------------------------------
(* Steps of the network, the approver and the machine.                     *)

\* A step that leaves the processes alone.
LEMMA OutsideStep ==
    ASSUME AInv, UNCHANGED <<config, proc, who, call>>, address' \in Addresses,
           RequestsOK', \A ask \in late' : AskOK(ask)
    PROVE  AInv'
<1>1. \A ask : AskOK(ask) => AskOK(ask)'
  BY DEF AskOK
<1>2. ASSUME NEW c \in Callers PROVE ProcOK(c)' /\ CallOK(c)'
  <2>1. ProcOK(c) /\ CallOK(c)
    BY DEF AInv
  <2>2. ProcOK(c)'
    BY <2>1 DEF ProcOK
  <2>3. CallOK(c)'
    BY <2>1 DEF CallOK, AskOK, Situation
  <2> QED
    BY <2>2, <2>3
<1>3. Domains'
  BY DEF AInv, Domains
<1> QED
  BY <1>1, <1>2, <1>3 DEF AInv

\* Nothing outside of the processes disturbs the invariant.
LEMMA OutsidePreserves ==
    ASSUME AInv, \/ \E ask \in late : AskArrivesLate(ask) \/ AskIsLost(ask)
                 \/ \E r \in Requests : Approve(r) \/ Lapse(r)
                 \/ \E m \in Machines : MachineChanges(m)
                 \/ \E a \in Addresses : AddressChanges(a)
                 \/ UNCHANGED vars
    PROVE  AInv'
<1>a. RequestsOK /\ address \in Addresses /\ \A ask \in late : AskOK(ask)
  BY DEF AInv
<1>b. UNCHANGED requests => RequestsOK'
  BY <1>a DEF RequestsOK, RequestOK
<1>1. ASSUME NEW ask \in late, AskArrivesLate(ask) PROVE AInv'
  <2>1. RequestsOK'
    BY <1>1, <1>a, OpenedFacts DEF AskArrivesLate
  <2> QED
    BY <1>1, <1>a, <2>1, OutsideStep DEF AskArrivesLate, environment
<1>2. ASSUME NEW ask \in late, AskIsLost(ask) PROVE AInv'
  BY <1>2, <1>a, <1>b, OutsideStep DEF AskIsLost, environment
<1>3. ASSUME NEW r \in Requests, Approve(r) PROVE AInv'
  <2>1. /\ requests' = [q \in Requests |-> requests'[q]]
        /\ requests'[r] = [requests[r] EXCEPT !.status = "approved"]
        /\ \A q \in Requests \ {r} : requests'[q] = requests[q]
    BY <1>3, <1>a DEF Approve, RequestsOK
  <2>2. /\ DOMAIN requests[r] = {"status", "by", "scope", "left"}
        /\ requests[r].scope = [f \in ScopeFieldNames |-> requests[r].scope[f]]
        /\ Clean(requests[r].scope["command"])
    BY <1>3, <1>a DEF Approve, RequestsOK, RequestOK, NoRequest
  <2>3. /\ DOMAIN requests'[r] = {"status", "by", "scope", "left"}
        /\ requests'[r].scope = requests[r].scope /\ requests'[r].status = "approved"
    BY <2>1, <2>2
  <2>4. RequestOK(requests'[r])
    BY <2>2, <2>3 DEF RequestOK
  <2>5. RequestsOK'
    BY <1>a, <2>1, <2>3, <2>4 DEF RequestsOK, RequestOK
  <2> QED
    BY <1>3, <1>a, <2>5, OutsideStep DEF Approve, environment
<1>4. ASSUME NEW r \in Requests, Lapse(r) PROVE AInv'
  <2>1. /\ requests' = [q \in Requests |-> requests'[q]] /\ requests'[r] = NoRequest
        /\ \A q \in Requests \ {r} : requests'[q] = requests[q]
    BY <1>4, <1>a DEF Lapse, RequestsOK
  <2>2. RequestsOK'
    BY <1>a, <2>1 DEF RequestsOK, RequestOK, NoRequest
  <2> QED
    BY <1>4, <1>a, <2>2, OutsideStep DEF Lapse
<1>5. ASSUME NEW m \in Machines, MachineChanges(m) PROVE AInv'
  BY <1>5, <1>a, <1>b, OutsideStep DEF MachineChanges
<1>6. ASSUME NEW a \in Addresses, AddressChanges(a) PROVE AInv'
  BY <1>6, <1>a, <1>b, OutsideStep DEF AddressChanges
<1>7. ASSUME UNCHANGED vars PROVE AInv'
  BY <1>7, <1>a, <1>b, OutsideStep DEF vars
<1> QED
  BY <1>1, <1>2, <1>3, <1>4, <1>5, <1>6, <1>7

-----------------------------------------------------------------------------
\* No process runs and nothing has been requested initially.
LEMMA InitAInv == Init => AInv
<1> SUFFICES ASSUME Init PROVE AInv
  OBVIOUS
<1>1. Domains
  BY DEF Init, Domains
<1>2. \A c \in Callers : ProcOK(c) /\ CallOK(c)
  BY DEF Init, ProcOK, CallOK, NotRunning, NoCall, CallFields
<1>3. RequestsOK
  BY DEF Init, RequestsOK, RequestOK, NoRequest
<1> QED
  BY <1>1, <1>2, <1>3 DEF Init, AInv

\* The inductive invariant holds in every reachable state.
THEOREM ApprovalInvariant == Spec => []AInv
<1>1. AInv /\ [Next]_vars => AInv'
  BY CallerPreserves, OutsidePreserves DEF Next
<1> QED
  BY <1>1, InitAInv, PTL DEF Spec

\* What the invariant says of the approval requests under way.
LEMMA UnderWayOK == ASSUME AInv, NEW ask \in UnderWay PROVE AskOK(ask)
BY DEF AInv, UnderWay, CallOK

\* Every approval request names a number of signings or a window, for every
\* configuration file that C_Initialize accepts.
THEOREM AsksAreLimited == Spec => []EveryAskIsLimited
<1>1. AInv => EveryAskIsLimited
  BY UnderWayOK DEF EveryAskIsLimited, AskOK
<1> QED
  BY <1>1, ApprovalInvariant, PTL

\* An approval request is made by the identity whose signing was denied, unless
\* another thread of the process logs in during the call.
THEOREM DeniedAsks == Spec => []AskedByTheDenied
<1>1. AInv => AskedByTheDenied
  BY UnderWayOK DEF AskedByTheDenied, AskOK
<1> QED
  BY <1>1, ApprovalInvariant, PTL

\* An approval request covers the call that was denied, unless it is tied to
\* another address, for any number of processes, machines and changes of them.
THEOREM CoversTheDenied == Spec => []RetryIsCovered
<1>1. ASSUME AInv, NEW ask \in UnderWay,
             ~("ip_address" \notin config.exclude /\ TiedTo # ask.denied["ip_address"])
      PROVE  Covers([by |-> ask.by, scope |-> Stored(ask.scope, address)], ask.by, ask.denied)
  <2>1. ask.scope = requestScope(ask.denied, ask.denied["data_hash"], config)
    BY <1>1, UnderWayOK DEF AskOK
  <2>2. ask.scope = [f \in ScopeFieldNames |-> ask.scope[f]]
    BY <2>1 DEF requestScope
  <2>3. ASSUME NEW f \in ScopeFieldNames
        PROVE  Stored(ask.scope, address)[f] \in {Unset, ask.denied[f]}
    <3>1. CASE f # "ip_address"
      <4>1. Stored(ask.scope, address)[f] = ask.scope[f]
        BY <2>2, <3>1, StoredFacts
      <4>2. ask.scope[f] \in {Unset, ask.denied[f]}
        BY <2>1, <3>1 DEF requestScope
      <4> QED
        BY <4>1, <4>2
    <3>2. CASE f = "ip_address"
      <4>1. Stored(ask.scope, address)[f] =
                IF ask.scope[f] = Unset THEN address
                ELSE IF ask.scope[f] = Skipped THEN Unset ELSE ask.scope[f]
        BY <2>2, <3>2, StoredFacts
      <4>2. ask.scope[f] = IF f \in config.exclude THEN Skipped ELSE config.ipAddress
        BY <2>1, <3>2 DEF requestScope, ScopeFieldNames
      <4>3. Unset # Skipped
        BY ApprovalsAssumption
      <4> QED
        BY <1>1, <3>2, <4>1, <4>2, <4>3 DEF TiedTo
    <3> QED
      BY <3>1, <3>2
  <2> QED
    BY <2>3 DEF Covers
<1>2. AInv => RetryIsCovered
  BY <1>1 DEF RetryIsCovered
<1> QED
  BY <1>2, ApprovalInvariant, PTL

\* An approval request covers no call that differs from the denied one in a
\* parameter that the process could observe and the configuration does not exclude.
THEOREM CoversNothingElse == Spec => []NothingElseIsCovered
<1>1. ASSUME AInv, NEW ask \in UnderWay, NEW s,
             Covers([by |-> ask.by, scope |-> Stored(ask.scope, address)], ask.by, s),
             NEW f \in ScopeFieldNames \ config.exclude
      PROVE  IF f = "ip_address" THEN s[f] = TiedTo ELSE ask.denied[f] \in {Unset, s[f]}
  <2>1. /\ ask.scope = requestScope(ask.denied, ask.denied["data_hash"], config)
        /\ validate(config)
    BY <1>1, UnderWayOK DEF AskOK
  <2>2. ask.scope = [g \in ScopeFieldNames |-> ask.scope[g]]
    BY <2>1 DEF requestScope
  <2>3. Stored(ask.scope, address)[f] \in {Unset, s[f]}
    BY <1>1 DEF Covers
  <2>4. CASE f # "ip_address"
    <3>1. Stored(ask.scope, address)[f] = ask.scope[f]
      BY <2>2, <2>4, StoredFacts
    <3>2. ask.scope[f] = ask.denied[f]
      BY <2>1, <2>4 DEF requestScope
    <3> QED
      BY <2>3, <2>4, <3>1, <3>2
  <2>5. CASE f = "ip_address"
    <3>1. Stored(ask.scope, address)[f] =
              IF ask.scope[f] = Unset THEN address
              ELSE IF ask.scope[f] = Skipped THEN Unset ELSE ask.scope[f]
      BY <2>2, <2>5, StoredFacts
    <3>2. ask.scope[f] = config.ipAddress
      BY <2>1, <2>5 DEF requestScope
    <3>3. config.ipAddress \in Addresses \cup {Unset} /\ address \in Addresses
      BY <1>1, <2>1 DEF validate, AInv
    <3>4. Unset \notin Addresses /\ Skipped \notin Addresses /\ Unset # Skipped
      BY ApprovalsAssumption
    <3> QED
      BY <2>3, <2>5, <3>1, <3>2, <3>3, <3>4 DEF TiedTo
  <2> QED
    BY <2>4, <2>5
<1>2. AInv => NothingElseIsCovered
  BY <1>1 DEF NothingElseIsCovered
<1> QED
  BY <1>2, ApprovalInvariant, PTL

\* No secret of a command line leaves the process, in any position that
\* redactCommandArgs knows: with a sign request, in an approval request under way
\* or at the service.
THEOREM SecretsStay == Spec => []SecretsStayHome
<1>1. ASSUME AInv, NEW c \in Callers, call[c].pc # "idle"
      PROVE  ~Discloses(call[c].seen["command"])
  <2>1. /\ Clean(proc[c].context["command"])
        /\ call[c].seen = Situation(proc[c].context, call[c].seen["data_hash"],
                                    call[c].seen["ip_address"])
    BY <1>1 DEF AInv, ProcOK, CallOK
  <2>2. "command" \in ContextFields
    BY DEF ContextFields
  <2>3. call[c].seen["command"] = proc[c].context["command"]
    BY <2>1, <2>2, SituationFacts
  <2> QED
    BY <2>1, <2>3 DEF Clean
<1>2. ASSUME AInv, NEW ask \in UnderWay PROVE ~Discloses(ask.scope["command"])
  BY <1>2, UnderWayOK DEF AskOK, Clean
<1>3. ASSUME AInv, NEW r \in Open PROVE ~Discloses(requests[r].scope["command"])
  <2>1. r \in Requests /\ requests[r].status # "none" /\ RequestOK(requests[r])
    BY <1>3 DEF AInv, RequestsOK, Open, Alive
  <2>2. Clean(requests[r].scope["command"])
    BY <2>1 DEF RequestOK, NoRequest
  <2> QED
    BY <2>2 DEF Clean
<1>4. AInv => SecretsStayHome
  BY <1>1, <1>2, <1>3 DEF SecretsStayHome
<1> QED
  BY <1>4, ApprovalInvariant, PTL

\* Of the requests under review no two differ in nothing but the secrets of the
\* command, however many are lost, late or repeated.
THEOREM NoneIsRepeated == Spec => []NoPileUp
<1>1. ASSUME AInv, NEW r \in Alive("pending")
      PROVE  r \in Requests /\ requests[r].status = "pending"
             /\ Masked(requests[r]) = requests[r].scope
  <2>1. /\ r \in Requests /\ requests[r].status = "pending" /\ RequestOK(requests[r])
    BY <1>1 DEF Alive, AInv, RequestsOK
  <2> DEFINE scope == requests[r].scope
  <2>2. scope = [f \in ScopeFieldNames |-> scope[f]] /\ Clean(scope["command"])
    BY <2>1 DEF RequestOK, NoRequest
  <2> HIDE DEF scope
  <2>3. CASE scope["command"] = Unset
    <3>1. Masked(requests[r]) = [scope EXCEPT !["command"] = Unset]
      BY <2>3 DEF Masked, scope
    <3> QED
      BY <2>1, <2>2, <2>3, <3>1 DEF scope
  <2>4. CASE scope["command"] # Unset
    <3> DEFINE command == scope["command"]
               masked == [i \in DOMAIN command |->
                            IF command[i].value \in Secrets
                            THEN [command[i] EXCEPT !.value = "***"] ELSE command[i]]
    <3>1. Masked(requests[r]) = [scope EXCEPT !["command"] = masked]
      BY <2>4 DEF Masked, scope
    <3>2. masked = command
      <4>1. \A i \in DOMAIN command : command[i].value \notin Secrets
        BY <2>2, <2>4 DEF Clean, Discloses
      <4>2. command = [i \in DOMAIN command |-> command[i]]
        BY <2>2, <2>4 DEF Clean
      <4> QED
        BY <4>1, <4>2
    <3> QED
      BY <2>1, <2>2, <3>1, <3>2 DEF scope
  <2> QED
    BY <2>3, <2>4
<1>2. ASSUME AInv, NEW r1 \in Alive("pending"), NEW r2 \in Alive("pending"),
             requests[r1].by = requests[r2].by,
             Masked(requests[r1]) = Masked(requests[r2])
      PROVE  r1 = r2
  <2>1. /\ r1 \in Requests /\ requests[r1].status = "pending"
        /\ r2 \in Requests /\ requests[r2].status = "pending"
        /\ requests[r1].scope = requests[r2].scope
    BY <1>1, <1>2
  <2> QED
    BY <1>2, <2>1 DEF AInv, RequestsOK
<1>3. AInv => NoPileUp
  BY <1>2 DEF NoPileUp
<1> QED
  BY <1>3, ApprovalInvariant, PTL
=============================================================================
