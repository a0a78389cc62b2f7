------------------------------ MODULE SlotUse -------------------------------
(***************************************************************************)
(* One application works with one slot: it lists slots and mechanisms,     *)
(* reads attributes and signs, each time by the convention of PKCS#11      *)
(* that a call without a buffer tells the length and a call with one that  *)
(* is too short tells it again (main.go).  Between any two calls the list  *)
(* of signers can change at the service, the cached list can expire, and   *)
(* any request can fail, so what a call is told is stale by the next one.  *)
(*                                                                         *)
(* Sessions, logins and the retry of C_Sign itself are in Pkcs11Signing,   *)
(* the caches of certificates and keys in SignerCaches: here a certificate *)
(* can be had or not.                                                      *)
(***************************************************************************)
EXTENDS Mechanisms, Sequences

CONSTANTS
    SignerLists,    \* lists of signers the service can have
    Slot,           \* the position the application works with, from 1
    MaxChanges,     \* bound: changes of the list at the service
    NoList          \* no list is cached

(***************************************************************************)
(* A signer: id; key, its type and size in bits at the service, and lacks, *)
(* the schemes its HSM does not do; listed, whether the list names the     *)
(* key's algorithm; label and cert, the lengths of its name and of its     *)
(* certificate.                                                            *)
(***************************************************************************)
ASSUME SlotUseAssumption ==
    /\ Slot \in Nat \ {0} /\ MaxChanges \in Nat
    /\ \A list \in SignerLists :
         /\ Len(list) \in Nat /\ DOMAIN list = 1..Len(list)
         /\ \A i \in DOMAIN list :
              /\ DOMAIN list[i] = {"id", "key", "listed", "label", "cert"}
              /\ list[i].key.type \in {"RSA", "EC"}
              /\ list[i].listed \in BOOLEAN
              /\ list[i].label \in Nat /\ list[i].cert \in Nat

\* The keys the module is made for (README.md:365-380; main.go:322-330).
ASSUME KeySizesAssumption ==
    \A list \in SignerLists : \A i \in DOMAIN list :
        list[i].key.bits \in IF list[i].key.type = "RSA" THEN {2048, 3072, 4096}
                             ELSE {256, 384, 521}

NoSigner == [is |-> "none"]

Tasks == {"slots", "mechanisms", "attributes"}

\* The template of C_GetAttributeValue, in its order.
Template == <<"CKA_LABEL", "CKA_VALUE">>
Buffers == {"slots", "mechanisms"} \cup {Template[i] : i \in DOMAIN Template}

Mechanisms == rsaMechanisms \cup ecMechanisms \cup {"CKM_SHA1_RSA_PKCS"}

\* What applications give to C_Sign, fit for the mechanism or not: a DigestInfo or
\* a document, a digest, and else a document.
Inputs(mechanism) ==
    CASE mechanism = "CKM_RSA_PKCS" ->
           {Message, DigestInfo("SHA384", Digest("SHA384", Message), TRUE)}
           \cup {DigestInfo(oid, Digest(h, Message), FALSE) :
                   oid \in {"SHA1", "SHA384"}, h \in {"SHA1", "SHA384"}}
      [] mechanism = "CKM_ECDSA" -> {Digest(h, Message) : h \in DOMAIN sizeOf}
      [] OTHER -> {Message}

VARIABLES
    service,    \* the list of signers at the service
    listed,     \* signerCache: the list as cached, or NoList
    changes,    \* changes so far, see MaxChanges
    task,       \* what the application is reading, or "idle"
    rv,         \* the return value of its last call
    alloc,      \* the room it has for each list or value
    len,        \* the length each was last said to have
    written,    \* how much of each was written
    told,       \* the mechanisms C_GetMechanismList told, and of which signer
    size,       \* the length C_Sign told, and for which signer
    outcome     \* history: the C_Sign that was the last step

vars == <<service, listed, changes, task, rv, alloc, len, written, told, size, outcome>>
buffers == <<alloc, len, written>>

NothingTold == [mechanisms |-> {}, signer |-> NoSigner]
NoSize == [length |-> 0, signer |-> NoSigner]
NoOutcome == [rv |-> "none"]

Init ==
    /\ service \in SignerLists
    /\ listed = NoList
    /\ changes = 0
    /\ task = "idle"
    /\ rv = "none"
    /\ alloc = [b \in Buffers |-> 0]
    /\ len = [b \in Buffers |-> 0]
    /\ written = [b \in Buffers |-> 0]
    /\ told = NothingTold
    /\ size = NoSize
    /\ outcome = NoOutcome

-----------------------------------------------------------------------------
(* The backend.                                                            *)

\* getSigners: the list a call that succeeds works with; it is cached.
List == IF listed = NoList THEN service ELSE listed
getSigners == listed' = List

\* getSignerBySlot
InRange == Slot <= Len(List)
Signer == List[Slot]

keyAlgorithm(signer) == IF signer.listed THEN signer.key ELSE [type |-> "", bits |-> 0]

GetMechanismList(signer) ==
    CASE keyAlgorithm(signer).type = "RSA" -> rsaMechanisms
      [] keyAlgorithm(signer).type = "EC"  -> ecMechanisms
      [] OTHER -> rsaMechanisms \cup ecMechanisms

\* Mutant: an EC signature is taken to be one of P-256.
EstimateSignatureSizeP256(signer) ==
    LET key == keyAlgorithm(signer) IN
    CASE key.bits = 4096  -> 512
      [] key.bits = 3072  -> 384
      [] key.bits = 2048  -> 256
      [] key.type = "EC"  -> 64
      [] OTHER -> 512

EstimateSignatureSize(signer) ==
    LET key == keyAlgorithm(signer) IN
    CASE key.bits = 4096  -> 512
      [] key.bits = 3072  -> 384
      [] key.bits = 2048  -> 256
      [] key.type = "EC"  -> 132
      [] OTHER -> 512

-----------------------------------------------------------------------------
(* Reading lists and values.                                               *)

Freed ==
    /\ alloc' = [b \in Buffers |-> 0]
    /\ len' = [b \in Buffers |-> 0]
    /\ written' = [b \in Buffers |-> 0]

Begin(t) ==
    /\ task = "idle"
    /\ task' = t
    /\ rv' = "none"
    /\ Freed
    /\ UNCHANGED <<service, listed, changes, told, size>>
    /\ outcome' = NoOutcome

\* A call may be made: the last one left something unread.
Unread == rv \in {"none", "CKR_BUFFER_TOO_SMALL"} \/ \E b \in Buffers : len[b] > alloc[b]

\* The application makes room for what it was told.
Grown(b) == IF len[b] > alloc[b] THEN len[b] ELSE alloc[b]

\* What the application does with the return value: it is done when nothing is
\* left unread, and gives up on an error.
Answer(result, lengths) ==
    /\ rv' = result
    /\ len' = lengths
    /\ task' = IF \/ result \notin {"CKR_OK", "CKR_BUFFER_TOO_SMALL"}
                  \/ result = "CKR_OK" /\ \A b \in Buffers : lengths[b] <= alloc'[b]
               THEN "idle" ELSE task

\* Mutant: the length is left as it is when the buffer is too short.
FillKeepsCount(b, n) ==
    LET room == Grown(b) IN
    /\ alloc' = [alloc EXCEPT ![b] = room]
    /\ \/ /\ room = 0
          /\ written' = written
          /\ Answer("CKR_OK", [len EXCEPT ![b] = n])
       \/ /\ room > 0 /\ room < n
          /\ written' = written
          /\ Answer("CKR_BUFFER_TOO_SMALL", [len EXCEPT ![b] = room])
       \/ /\ room > 0 /\ room >= n
          /\ written' = [written EXCEPT ![b] = n]
          /\ Answer("CKR_OK", [len EXCEPT ![b] = n])

\* Mutant: the list is written up to one element past the room there is.
FillOffByOne(b, n) ==
    LET room == Grown(b) IN
    /\ alloc' = [alloc EXCEPT ![b] = room]
    /\ \/ /\ room = 0
          /\ written' = written
          /\ Answer("CKR_OK", [len EXCEPT ![b] = n])
       \/ /\ room > 0 /\ room + 1 < n
          /\ written' = written
          /\ Answer("CKR_BUFFER_TOO_SMALL", [len EXCEPT ![b] = n])
       \/ /\ room > 0 /\ room + 1 >= n
          /\ written' = [written EXCEPT ![b] = n]
          /\ Answer("CKR_OK", [len EXCEPT ![b] = n])

\* C_GetSlotList and C_GetMechanismList with a list of n elements.  No room: the
\* application passes NULL.
Fill(b, n) ==
    LET room == Grown(b) IN
    /\ alloc' = [alloc EXCEPT ![b] = room]
    /\ \/ /\ room = 0
          /\ written' = written
          /\ Answer("CKR_OK", [len EXCEPT ![b] = n])
       \/ /\ room > 0 /\ room < n
          /\ written' = written
          /\ Answer("CKR_BUFFER_TOO_SMALL", [len EXCEPT ![b] = n])
       \/ /\ room > 0 /\ room >= n
          /\ written' = [written EXCEPT ![b] = n]
          /\ Answer("CKR_OK", [len EXCEPT ![b] = n])

C_GetSlotList ==
    /\ task = "slots" /\ Unread
    /\ getSigners
    /\ Fill("slots", Len(List))
    /\ UNCHANGED <<service, changes, told, size>>
    /\ outcome' = NoOutcome

C_GetMechanismList ==
    /\ task = "mechanisms" /\ Unread
    /\ InRange
    /\ getSigners
    /\ Fill("mechanisms", Cardinality(GetMechanismList(Signer)))
    /\ told' = IF written'["mechanisms"] = 0 THEN told
               ELSE [mechanisms |-> GetMechanismList(Signer), signer |-> Signer]
    /\ UNCHANGED <<service, changes, size>>
    /\ outcome' = NoOutcome

\* Mutant: an empty value leaves the attribute's length alone.
FillTemplateKeepsLength(need) ==
    LET room(b) == Grown(b)
        short == {i \in DOMAIN Template :
                    room(Template[i]) > 0 /\ room(Template[i]) < need[Template[i]]}
        last == IF short = {} THEN Len(Template) ELSE CHOOSE i \in short : \A j \in short : i <= j
        reached == {Template[i] : i \in 1..last}
    IN  /\ alloc' = [b \in Buffers |-> room(b)]
        /\ written' = [b \in Buffers |->
              IF b \in reached /\ need[b] <= room(b) THEN need[b] ELSE written[b]]
        /\ Answer(IF short = {} THEN "CKR_OK" ELSE "CKR_BUFFER_TOO_SMALL",
                  [b \in Buffers |-> IF b \in reached /\ need[b] > 0 THEN need[b] ELSE room(b)])

\* The attributes in the order of the template, up to the first that is too short;
\* one without room is a query of its length.  The later ones keep the length that
\* the application passed, its room.
FillTemplate(need) ==
    LET room(b) == Grown(b)
        short == {i \in DOMAIN Template :
                    room(Template[i]) > 0 /\ room(Template[i]) < need[Template[i]]}
        last == IF short = {} THEN Len(Template) ELSE CHOOSE i \in short : \A j \in short : i <= j
        reached == {Template[i] : i \in 1..last}
    IN  /\ alloc' = [b \in Buffers |-> room(b)]
        /\ written' = [b \in Buffers |->
              IF b \in reached /\ need[b] <= room(b) THEN need[b] ELSE written[b]]
        /\ Answer(IF short = {} THEN "CKR_OK" ELSE "CKR_BUFFER_TOO_SMALL",
                  [b \in Buffers |-> IF b \in reached THEN need[b] ELSE room(b)])

\* A certificate that cannot be had is an empty value, not an error.
C_GetAttributeValue(certificate) ==
    /\ task = "attributes" /\ Unread
    /\ InRange
    /\ getSigners
    /\ FillTemplate([b \in Buffers |->
            CASE b = "CKA_LABEL" -> Signer.label
              [] b = "CKA_VALUE" -> IF certificate THEN Signer.cert ELSE 0
              [] OTHER -> 0])
    /\ UNCHANGED <<service, changes, told, size>>
    /\ outcome' = NoOutcome

\* ErrSlotIDInvalid
SlotGone ==
    /\ task \in {"mechanisms", "attributes"} /\ Unread
    /\ ~InRange
    /\ getSigners
    /\ rv' = "CKR_SLOT_ID_INVALID"
    /\ task' = "idle"
    /\ UNCHANGED <<service, changes, buffers, told, size>>
    /\ outcome' = NoOutcome

\* The list cannot be had: an API error, or none at all (status 0).
ErrorToRV(status, unsupported) ==
    IF status = 0 THEN "CKR_GENERAL_ERROR" ELSE mapAPIError(status, unsupported)

Disturbances == {0, 401, 403, 500}

ListFails(status) ==
    /\ task # "idle" /\ Unread
    /\ listed = NoList
    /\ rv' = ErrorToRV(status, FALSE)
    /\ task' = "idle"
    /\ UNCHANGED <<service, listed, changes, buffers, told, size>>
    /\ outcome' = NoOutcome

-----------------------------------------------------------------------------
(* Signing.                                                                *)

\* C_Sign without a buffer.  EstimateSignatureSize never fails: without a signer it
\* says 512.
AskSize ==
    /\ task = "idle"
    /\ \/ /\ InRange /\ getSigners
          /\ size' = [length |-> EstimateSignatureSize(Signer), signer |-> Signer]
       \/ /\ ~InRange /\ getSigners
          /\ size' = [length |-> 512, signer |-> NoSigner]
       \/ /\ listed = NoList /\ UNCHANGED listed
          /\ size' = [length |-> 512, signer |-> NoSigner]
    /\ rv' = "CKR_OK"
    /\ Freed
    /\ UNCHANGED <<service, changes, task, told>>
    /\ outcome' = NoOutcome

\* The service (external).  The signer is looked up by its id.
AtService(signer) ==
    LET same == {i \in DOMAIN service : service[i].id = signer.id} IN
    IF same = {} THEN NoSigner ELSE service[CHOOSE i \in same : TRUE]

Does(key, algorithm) ==
    key.type = IF algorithm.scheme = "ECDSA" THEN "EC" ELSE "RSA"

Signature(key, request) ==
    [scheme |-> request.algorithm.scheme,
     hash   |-> IF request.algorithm.scheme = "ECDSA" THEN "any" ELSE request.algorithm.hash,
     over   |-> IF request.isDigest THEN request.data
                ELSE Digest(request.algorithm.hash, request.data),
     length |-> IF key.type = "RSA" THEN key.bits \div 8 ELSE 2 * ((key.bits + 7) \div 8)]

\* A digest of another length than the hash's.
WrongLength(request) ==
    /\ request.isDigest
    /\ ~(/\ request.data.is = "digest"
         /\ sizeOf[request.data.hash] = sizeOf[request.algorithm.hash])

\* What can become of a request: a signature, or a status, with a message worded as
\* an unsupported algorithm or not.
Answers(found, request) ==
    {[status |-> s, unsupported |-> FALSE] : s \in Disturbances}
    \cup
    IF found = NoSigner THEN {[status |-> 404, unsupported |-> FALSE]}
    ELSE IF ~Does(found.key, request.algorithm) THEN {[status |-> 400, unsupported |-> FALSE]}
    ELSE IF request.algorithm.scheme \in found.key.lacks
         THEN {[status |-> 400, unsupported |-> TRUE]}
    ELSE {[status |-> 200, unsupported |-> FALSE]}
         \cup (IF WrongLength(request) THEN {[status |-> 400, unsupported |-> FALSE]} ELSE {})

\* C_Sign from the lookup of the signer to the return value.
C_Sign(mechanism, input) ==
    /\ task = "idle"
    /\ InRange
    /\ getSigners
    /\ LET request == signRequest(mechanism, input)
           found == AtService(Signer)
           Returned(result, status, signature) ==
               /\ rv' = result
               /\ outcome' = [rv |-> result, status |-> status, signature |-> signature,
                              mechanism |-> mechanism, input |-> input]
       IN  \/ /\ request = Error
              /\ Returned("CKR_GENERAL_ERROR", 0, Error)
           \/ /\ request # Error
              /\ \E answer \in Answers(found, request) :
                   IF answer.status = 200
                   THEN Returned("CKR_OK", 200, Signature(found.key, request))
                   ELSE Returned(ErrorToRV(answer.status, answer.unsupported),
                                 answer.status, Error)
    /\ Freed
    /\ UNCHANGED <<service, changes, task, told, size>>

\* C_Sign without a signer: the slot is gone, or the list cannot be had.
SignFails ==
    /\ task = "idle"
    /\ \/ /\ ~InRange /\ getSigners
          /\ rv' = "CKR_SLOT_ID_INVALID"
       \/ /\ listed = NoList /\ UNCHANGED listed
          /\ \E status \in Disturbances : rv' = ErrorToRV(status, FALSE)
    /\ Freed
    /\ UNCHANGED <<service, changes, task, told, size>>
    /\ outcome' = NoOutcome

-----------------------------------------------------------------------------
(* The service and time (external).                                        *)

ListChanges(list) ==
    /\ changes < MaxChanges
    /\ list # service
    /\ changes' = changes + 1
    /\ service' = list
    /\ UNCHANGED <<listed, task, rv, buffers, told, size>>
    /\ outcome' = NoOutcome

\* cache.ttl_seconds are over.
Expire ==
    /\ listed # NoList
    /\ listed' = NoList
    /\ UNCHANGED <<service, changes, task, rv, buffers, told, size>>
    /\ outcome' = NoOutcome

Call ==
    \/ C_GetSlotList \/ C_GetMechanismList
    \/ \E certificate \in BOOLEAN : C_GetAttributeValue(certificate)
    \/ SlotGone
    \/ \E status \in Disturbances : ListFails(status)

Next ==
    \/ \E t \in Tasks : Begin(t)
    \/ Call
    \/ AskSize
    \/ SignFails
    \/ \E mechanism \in Mechanisms : \E input \in Inputs(mechanism) : C_Sign(mechanism, input)
    \/ \E list \in SignerLists : ListChanges(list)
    \/ Expire

Spec == Init /\ [][Next]_vars

\* The application repeats a call that told it more than it had room for, and the
\* HTTP client's timeout ends every request.  A certificate that can be had half
\* of the time is covered too: nothing is assumed of the parameter.
Fairness == WF_vars(Call)

FairSpec == Spec /\ Fairness

-----------------------------------------------------------------------------
(* Properties.                                                             *)

\* Nothing is written past the room the application has, though the length it was
\* told is that of another list or signer by the time it passes its buffer
\* (unsafe.Slice in main.go:110, 304; bridge_attr_copy_to_pvalue, main.go:443).
NoOverrun == \A b \in Buffers : written[b] <= alloc[b]

\* When a reading ends well, the length of a value the application had room for is
\* that of what was written, also for a certificate that could be had when its
\* length was asked and not when it was read: no byte that was never written is
\* taken for a value (C_GetAttributeValue, main.go:431-448).
NoUnwrittenByte ==
    task = "idle" /\ rv = "CKR_OK" =>
        \A b \in Buffers : alloc[b] > 0 => len[b] = written[b]

Known(signer) == signer.listed /\ AtService(signer) = signer

\* What an application that uses the mechanism expects to verify (PKCS#11): of a
\* mechanism that hashes, its scheme and hash.
Promised ==
    [CKM_SHA256_RSA_PKCS     |-> <<"PKCS1", "SHA256">>,
     CKM_SHA384_RSA_PKCS     |-> <<"PKCS1", "SHA384">>,
     CKM_SHA512_RSA_PKCS     |-> <<"PKCS1", "SHA512">>,
     CKM_SHA256_RSA_PKCS_PSS |-> <<"PSS", "SHA256">>,
     CKM_SHA384_RSA_PKCS_PSS |-> <<"PSS", "SHA384">>,
     CKM_SHA512_RSA_PKCS_PSS |-> <<"PSS", "SHA512">>,
     CKM_ECDSA_SHA256        |-> <<"ECDSA", "SHA256">>,
     CKM_ECDSA_SHA384        |-> <<"ECDSA", "SHA384">>,
     CKM_ECDSA_SHA512        |-> <<"ECDSA", "SHA512">>]

Expected(mechanism, input) ==
    CASE mechanism = "CKM_RSA_PKCS" ->
           [scheme |-> "PKCS1", hash |-> input.oid, over |-> input.digest]
      [] mechanism = "CKM_ECDSA" -> [scheme |-> "ECDSA", hash |-> "any", over |-> input]
      [] OTHER ->
           LET scheme == Promised[mechanism][1]
               hash   == Promised[mechanism][2]
           IN  [scheme |-> scheme, hash |-> IF scheme = "ECDSA" THEN "any" ELSE hash,
                over |-> Digest(hash, input)]

\* A signature that C_Sign hands out is the one the mechanism promises: by its
\* scheme, over the data hashed exactly once, here or at the service, or not at all
\* when a digest was given (signInternal, backend.go:1005-1043), also when the key
\* has been replaced by one of another type since the mechanism was chosen.
SignatureVerifies ==
    outcome.rv = "CKR_OK" =>
        LET s == outcome.signature IN
        [scheme |-> s.scheme, hash |-> s.hash, over |-> s.over]
            = Expected(outcome.mechanism, outcome.input)

\* Whether the input is what the mechanism is for.
Suits(mechanism, input) ==
    CASE mechanism = "CKM_RSA_PKCS" ->
           /\ input.is = "info" /\ ~input.trailing
           /\ input.oid = input.digest.hash /\ input.oid # "SHA1"
      [] mechanism = "CKM_ECDSA" -> input.hash # "SHA1"
      [] OTHER -> TRUE

\* A mechanism that C_GetMechanismList has told is not refused, for the mechanism
\* or for the data, unless the signer at the slot is another by now, or its HSM
\* lacks the scheme, which the list of signers does not say
\* (GetMechanismList, backend.go:398; parseDigestInfo, mechanism.go:82).
ToldIsUsable ==
    /\ outcome # NoOutcome
    /\ outcome.mechanism \in told.mechanisms
    /\ told.signer = listed[Slot] /\ Known(told.signer)
    /\ Suits(outcome.mechanism, outcome.input)
    /\ told.signer.key.lacks = {}
    => \/ outcome.rv \in {"CKR_OK", "CKR_USER_NOT_LOGGED_IN", "CKR_DEVICE_ERROR"}
       \/ outcome.rv = "CKR_GENERAL_ERROR" /\ signRequest(outcome.mechanism, outcome.input) # Error

\* The size C_Sign has told is enough for the signature as long as the signer is the
\* same, whether or not the list names its algorithm (EstimateSignatureSize,
\* backend.go:1145): no signature is made that has to be cached for a second call.
SizeSuffices ==
    /\ outcome.rv = "CKR_OK"
    /\ size.signer = listed[Slot] /\ AtService(size.signer) = size.signer
    => outcome.signature.length <= size.length

\* What a return value of C_Sign stands for, every value it can have once the signer
\* is found in the list (mapErrorToRV, main.go:760; mapAPIError, errors.go:69): the
\* key handle a signer that is gone though the cached list has it, the mechanism one
\* that the HSM lacks, the data a key of another type or a digest of another length,
\* the device a service that fails, the login a token it refuses.  Only
\* CKR_GENERAL_ERROR names no cause: the mechanism or the data were refused here and
\* nothing was sent, the service forbids it, or there is no answer (for which the
\* table of README.md:491 has CKR_DEVICE_ERROR: the code never returns it then).
RefusalTellsWhy ==
    outcome # NoOutcome =>
        LET found == AtService(listed[Slot])
            request == signRequest(outcome.mechanism, outcome.input)
        IN  CASE outcome.rv = "CKR_OK" ->
                   /\ found # NoSigner /\ Does(found.key, request.algorithm)
                   /\ request.algorithm.scheme \notin found.key.lacks
              [] outcome.rv = "CKR_KEY_HANDLE_INVALID" -> found = NoSigner
              [] outcome.rv = "CKR_MECHANISM_INVALID" ->
                   request.algorithm.scheme \in found.key.lacks
              [] outcome.rv = "CKR_DATA_INVALID" ->
                   ~Does(found.key, request.algorithm) \/ WrongLength(request)
              [] outcome.rv = "CKR_DEVICE_ERROR" -> outcome.status = 500
              [] outcome.rv = "CKR_USER_NOT_LOGGED_IN" -> outcome.status = 401
              [] outcome.rv = "CKR_GENERAL_ERROR" ->
                   request = Error \/ outcome.status \in {0, 403}
              [] OTHER -> FALSE

\* Reading a list or the attributes ends: an application that makes room for what it
\* is told is not told CKR_BUFFER_TOO_SMALL for ever, however the list changes and
\* expires between its calls, a bounded number of times (main.go:105-107, 299-301,
\* 445-446).
ReadingEnds == []<>(task = "idle")
=============================================================================
