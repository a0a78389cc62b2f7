----------------------------- MODULE Mechanisms -----------------------------
(***************************************************************************)
(* mechanism.go, the choice signInternal makes from the mechanism, and     *)
(* errors.go: how a mechanism and the bytes to be signed become a sign     *)
(* request, and how an error becomes a return value.                       *)
(*                                                                         *)
(* Data.  A byte string is what the code can tell of it:                   *)
(*   message   the document itself                                         *)
(*   digest    the digest by hash of another byte string                   *)
(*   info      a DigestInfo of a hash's OID and a digest, with trailing    *)
(*             bytes or without                                            *)
(***************************************************************************)
EXTENDS Integers, FiniteSets

sizeOf == [SHA1 |-> 20, SHA256 |-> 32, SHA384 |-> 48, SHA512 |-> 64]

Message == [is |-> "message"]
Digest(hash, of) == [is |-> "digest", hash |-> hash, of |-> of]
DigestInfo(oid, digest, trailing) ==
    [is |-> "info", oid |-> oid, digest |-> digest, trailing |-> trailing]

Error == [is |-> "error"]

-----------------------------------------------------------------------------
rsaMechanisms ==
    {"CKM_RSA_PKCS",
     "CKM_SHA256_RSA_PKCS", "CKM_SHA384_RSA_PKCS", "CKM_SHA512_RSA_PKCS",
     "CKM_SHA256_RSA_PKCS_PSS", "CKM_SHA384_RSA_PKCS_PSS", "CKM_SHA512_RSA_PKCS_PSS"}

ecMechanisms ==
    {"CKM_ECDSA", "CKM_ECDSA_SHA256", "CKM_ECDSA_SHA384", "CKM_ECDSA_SHA512"}

Alg(scheme, hash) == [scheme |-> scheme, hash |-> hash]

\* The switch of mechanismToAlgorithm; every other mechanism is an error.
AlgorithmOf ==
    [CKM_SHA256_RSA_PKCS     |-> Alg("PKCS1", "SHA256"),
     CKM_SHA384_RSA_PKCS     |-> Alg("PKCS1", "SHA384"),
     CKM_SHA512_RSA_PKCS     |-> Alg("PKCS1", "SHA512"),
     CKM_SHA256_RSA_PKCS_PSS |-> Alg("PSS", "SHA256"),
     CKM_SHA384_RSA_PKCS_PSS |-> Alg("PSS", "SHA384"),
     CKM_SHA512_RSA_PKCS_PSS |-> Alg("PSS", "SHA512"),
     CKM_ECDSA_SHA256        |-> Alg("ECDSA", "SHA256"),
     CKM_ECDSA_SHA384        |-> Alg("ECDSA", "SHA384"),
     CKM_ECDSA_SHA512        |-> Alg("ECDSA", "SHA512"),
     CKM_ECDSA               |-> Alg("ECDSA", "SHA256")]

mechanismToAlgorithm(mechanism) ==
    IF mechanism \in DOMAIN AlgorithmOf THEN AlgorithmOf[mechanism] ELSE Error

\* Mutant: the length of every digest is compared with SHA-256's.
parseDigestInfoOneLength(data) ==
    IF /\ data.is = "info" /\ ~data.trailing
       /\ data.oid \in {"SHA256", "SHA384", "SHA512"}
       /\ data.digest.is = "digest" /\ sizeOf[data.digest.hash] = sizeOf["SHA256"]
    THEN [algorithm |-> Alg("PKCS1", data.oid), digest |-> data.digest]
    ELSE Error

\* Not a DigestInfo, trailing bytes, an unknown OID, or a digest of a length that
\* is not the hash's.
parseDigestInfo(data) ==
    IF /\ data.is = "info" /\ ~data.trailing
       /\ data.oid \in {"SHA256", "SHA384", "SHA512"}
       /\ data.digest.is = "digest" /\ sizeOf[data.digest.hash] = sizeOf[data.oid]
    THEN [algorithm |-> Alg("PKCS1", data.oid), digest |-> data.digest]
    ELSE Error

isPSSMechanism(mechanism) ==
    mechanism \in {"CKM_SHA256_RSA_PKCS_PSS", "CKM_SHA384_RSA_PKCS_PSS",
                   "CKM_SHA512_RSA_PKCS_PSS"}

HashOf(mechanism) ==
    CASE mechanism \in {"CKM_SHA256_RSA_PKCS", "CKM_SHA256_RSA_PKCS_PSS", "CKM_ECDSA_SHA256"}
           -> "SHA256"
      [] mechanism \in {"CKM_SHA384_RSA_PKCS", "CKM_SHA384_RSA_PKCS_PSS", "CKM_ECDSA_SHA384"}
           -> "SHA384"
      [] mechanism \in {"CKM_SHA512_RSA_PKCS", "CKM_SHA512_RSA_PKCS_PSS", "CKM_ECDSA_SHA512"}
           -> "SHA512"
      [] OTHER -> "none"

hashDataForMechanism(mechanism, data) ==
    IF HashOf(mechanism) = "none" THEN data ELSE Digest(HashOf(mechanism), data)

\* Raw ECDSA: the algorithm by the length of the data.
ByLength(data) ==
    LET length == IF data.is = "digest" THEN sizeOf[data.hash] ELSE 0 IN
    CASE length = 48 -> Alg("ECDSA", "SHA384")
      [] length = 64 -> Alg("ECDSA", "SHA512")
      [] OTHER       -> Alg("ECDSA", "SHA256")

Request(algorithm, data, isDigest) ==
    IF algorithm = Error THEN Error
    ELSE [is |-> "request", algorithm |-> algorithm, data |-> data, isDigest |-> isDigest]

\* Mutant: the PSS mechanisms say that they send a digest.
signRequestOneBranch(mechanism, data) ==
    CASE mechanism = "CKM_RSA_PKCS" ->
           LET info == parseDigestInfo(data) IN
           IF info = Error THEN Error ELSE Request(info.algorithm, info.digest, TRUE)
      [] mechanism = "CKM_ECDSA" -> Request(ByLength(data), data, TRUE)
      [] isPSSMechanism(mechanism) -> Request(mechanismToAlgorithm(mechanism), data, TRUE)
      [] OTHER -> Request(mechanismToAlgorithm(mechanism),
                          hashDataForMechanism(mechanism, data), TRUE)

\* The first half of signInternal.
signRequest(mechanism, data) ==
    CASE mechanism = "CKM_RSA_PKCS" ->
           LET info == parseDigestInfo(data) IN
           IF info = Error THEN Error ELSE Request(info.algorithm, info.digest, TRUE)
      [] mechanism = "CKM_ECDSA" -> Request(ByLength(data), data, TRUE)
      [] isPSSMechanism(mechanism) -> Request(mechanismToAlgorithm(mechanism), data, FALSE)
      [] OTHER -> Request(mechanismToAlgorithm(mechanism),
                          hashDataForMechanism(mechanism, data), TRUE)

-----------------------------------------------------------------------------
(* Errors.  An API error is an HTTP status and whether its message is      *)
(* worded as an unsupported mechanism or algorithm.                        *)

mapHTTPError(status) ==
    CASE status = 401  -> "CKR_USER_NOT_LOGGED_IN"
      [] status = 403  -> "CKR_GENERAL_ERROR"
      [] status = 404  -> "CKR_KEY_HANDLE_INVALID"
      [] status = 400  -> "CKR_DATA_INVALID"
      [] status >= 500 -> "CKR_DEVICE_ERROR"
      [] OTHER         -> "CKR_GENERAL_ERROR"

\* Mutant: the status alone decides.
mapAPIErrorByStatus(status, unsupported) == mapHTTPError(status)

mapAPIError(status, unsupported) ==
    IF status = 400 /\ unsupported THEN "CKR_MECHANISM_INVALID" ELSE mapHTTPError(status)
=============================================================================
