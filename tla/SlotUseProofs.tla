---------------------------- MODULE SlotUseProofs ----------------------------
(***************************************************************************)
(* Proofs about SlotUse for any lists of signers and any number of changes *)
(* of them: buffers are not overrun and hold what their lengths say, and   *)
(* signatures are what their mechanisms promise.                           *)
(***************************************************************************)
EXTENDS SlotUse, FiniteSetTheorems, TLAPS

\* The buffers that a task fills.
BuffersOf(t) ==
    CASE t = "attributes" -> {"CKA_LABEL", "CKA_VALUE"}
      [] t \in {"slots", "mechanisms"} -> {t}
      [] OTHER -> Buffers

BuffersType ==
    /\ alloc \in [Buffers -> Nat]
    /\ len \in [Buffers -> Nat]
    /\ written \in [Buffers -> Nat]

\* The application has no room for what it is not reading.
OthersFree ==
    \A b \in Buffers \ BuffersOf(task) : alloc[b] = 0 /\ len[b] = 0 /\ written[b] = 0

ReadInv ==
    /\ service \in SignerLists
    /\ listed \in SignerLists \cup {NoList}
    /\ task \in Tasks \cup {"idle"}
    /\ BuffersType
    /\ OthersFree
    /\ NoOverrun
    /\ NoUnwrittenByte

\* What was told is what the cached signer says.
ToldOK ==
    \/ told = NothingTold
    \/ told.mechanisms = GetMechanismList(told.signer)

SizeOK ==
    \/ size = NoSize
    \/ size.length = 512
    \/ size.length = EstimateSignatureSize(size.signer)

\* What the last C_Sign returned is as it should be.
SignOK == SignatureVerifies /\ ToldIsUsable /\ SizeSuffices /\ RefusalTellsWhy

UInv == ReadInv /\ ToldOK /\ SizeOK /\ SignOK

-----------------------------------------------------------------------------
(* Lemmas about the buffers.                                               *)

\* There are four of them.
LEMMA BufferNames == Buffers = {"slots", "mechanisms", "CKA_LABEL", "CKA_VALUE"}
<1>1. DOMAIN Template = 1..2 /\ Template[1] = "CKA_LABEL" /\ Template[2] = "CKA_VALUE"
  BY DEF Template
<1>2. {Template[i] : i \in DOMAIN Template} = {"CKA_LABEL", "CKA_VALUE"}
  <2>1. \A i \in DOMAIN Template : i = 1 \/ i = 2
    BY <1>1
  <2>2. 1 \in DOMAIN Template /\ 2 \in DOMAIN Template
    BY <1>1
  <2> HIDE DEF Template
  <2> QED
    BY <1>1, <2>1, <2>2
<1> QED
  BY <1>2 DEF Buffers

\* The list a call works with is one that the service has had.
LEMMA ListFacts ==
    ASSUME service \in SignerLists, listed \in SignerLists \cup {NoList}
    PROVE  /\ List \in SignerLists /\ Len(List) \in Nat
           /\ InRange => Slot \in DOMAIN List
<1>1. List \in SignerLists
  BY DEF List
<1>2. Len(List) \in Nat /\ DOMAIN List = 1..Len(List) /\ Slot \in Nat \ {0}
  BY <1>1, SlotUseAssumption
<1> QED
  BY <1>1, <1>2 DEF InRange

\* Four elements are a finite set.
LEMMA FourAreFinite ==
    ASSUME NEW a, NEW b, NEW c, NEW d PROVE IsFiniteSet({a, b, c, d})
<1>1. IsFiniteSet({a}) /\ IsFiniteSet({b}) /\ IsFiniteSet({c}) /\ IsFiniteSet({d})
  BY FS_Singleton
<1>2. IsFiniteSet({a} \cup {b}) /\ IsFiniteSet({c} \cup {d})
  BY <1>1, FS_Union
<1>3. IsFiniteSet(({a} \cup {b}) \cup ({c} \cup {d}))
  BY <1>2, FS_Union
<1>4. {a, b, c, d} = ({a} \cup {b}) \cup ({c} \cup {d})
  OBVIOUS
<1> QED
  BY <1>3, <1>4

\* The lists of mechanisms have a length.
LEMMA MechanismCount ==
    ASSUME NEW signer PROVE Cardinality(GetMechanismList(signer)) \in Nat
<1>1. IsFiniteSet(rsaMechanisms)
  <2> DEFINE one == {"CKM_RSA_PKCS", "CKM_SHA256_RSA_PKCS", "CKM_SHA384_RSA_PKCS",
                     "CKM_SHA512_RSA_PKCS"}
             two == {"CKM_RSA_PKCS", "CKM_SHA256_RSA_PKCS_PSS", "CKM_SHA384_RSA_PKCS_PSS",
                     "CKM_SHA512_RSA_PKCS_PSS"}
  <2>1. IsFiniteSet(one) /\ IsFiniteSet(two)
    BY FourAreFinite
  <2>2. rsaMechanisms = one \cup two
    BY DEF rsaMechanisms
  <2> HIDE DEF one, two
  <2> QED
    BY <2>1, <2>2, FS_Union
<1>2. IsFiniteSet(ecMechanisms)
  BY FourAreFinite DEF ecMechanisms
<1>3. IsFiniteSet(rsaMechanisms \cup ecMechanisms)
  BY <1>1, <1>2, FS_Union
<1>4. IsFiniteSet(GetMechanismList(signer))
  BY <1>1, <1>2, <1>3 DEF GetMechanismList
<1> QED
  BY <1>4, FS_CardinalityType

\* Room grows to what was told, and never shrinks.
LEMMA GrownFacts ==
    ASSUME BuffersType, NEW b \in Buffers
    PROVE  /\ Grown(b) \in Nat /\ Grown(b) >= alloc[b]
           /\ len[b] = 0 => Grown(b) = alloc[b]
BY DEF BuffersType, Grown

\* A list is written where it fits only, and then its length is told.
LEMMA FillPreserves ==
    ASSUME ReadInv, NEW b \in {"slots", "mechanisms"}, NEW n \in Nat, task = b, Fill(b, n),
           service' = service, listed' \in SignerLists
    PROVE  ReadInv'
<1> DEFINE room == Grown(b)
<1>a. /\ b \in Buffers /\ BuffersType /\ OthersFree /\ NoOverrun
      /\ Buffers \ BuffersOf(task) = Buffers \ {b}
  BY BufferNames DEF ReadInv, BuffersOf
<1>1. room \in Nat /\ room >= alloc[b]
  BY <1>a, GrownFacts
<1> HIDE DEF room
<1>2. /\ alloc' = [alloc EXCEPT ![b] = room]
      /\ len' = [len EXCEPT ![b] = n]
      /\ \/ written' = written /\ ((room = 0 /\ rv' = "CKR_OK") \/ rv' = "CKR_BUFFER_TOO_SMALL")
         \/ written' = [written EXCEPT ![b] = n] /\ room >= n
      /\ task' \in {"idle", task}
      /\ task' = "idle" /\ rv' = "CKR_OK" => \A d \in Buffers : len'[d] <= alloc'[d]
  BY DEF Fill, Answer, room
<1>3. BuffersType'
  BY <1>a, <1>1, <1>2 DEF BuffersType
<1>4. /\ alloc'[b] = room /\ len'[b] = n
      /\ \/ written'[b] = written[b] /\ ((room = 0 /\ rv' = "CKR_OK") \/ rv' = "CKR_BUFFER_TOO_SMALL")
         \/ written'[b] = n /\ room >= n
      /\ \A d \in Buffers \ {b} : alloc'[d] = 0 /\ len'[d] = 0 /\ written'[d] = 0
  <2>1. \A d \in Buffers \ {b} : alloc[d] = 0 /\ len[d] = 0 /\ written[d] = 0
    BY <1>a DEF OthersFree
  <2> QED
    BY <1>a, <1>2, <2>1 DEF BuffersType
<1>5. NoOverrun'
  <2>1. written[b] \in Nat /\ alloc[b] \in Nat /\ written[b] <= alloc[b]
    BY <1>a DEF NoOverrun, BuffersType
  <2>2. written'[b] <= alloc'[b]
    BY <1>1, <1>4, <2>1
  <2>3. \A d \in Buffers \ {b} : written'[d] <= alloc'[d]
    BY <1>4
  <2> QED
    BY <2>2, <2>3 DEF NoOverrun
<1>6. OthersFree'
  <2>1. CASE task' = "idle"
    BY <2>1 DEF OthersFree, BuffersOf
  <2>2. CASE task' = task
    BY <1>4, <2>2 DEF OthersFree, BuffersOf
  <2> QED
    BY <1>2, <2>1, <2>2
<1>7. NoUnwrittenByte'
  <2>1. ASSUME rv' = "CKR_OK", room > 0 PROVE len'[b] = written'[b]
    BY <1>1, <1>4, <2>1
  <2> QED
    BY <1>1, <1>4, <2>1 DEF NoUnwrittenByte
<1>8. task' \in Tasks \cup {"idle"}
  BY <1>2 DEF ReadInv
<1> QED
  BY <1>3, <1>5, <1>6, <1>7, <1>8 DEF ReadInv

\* The attributes of a template are written where they fit, up to the first that
\* is too long, and when all are read each has the length that was written.
LEMMA TemplatePreserves ==
    ASSUME ReadInv, NEW need \in [Buffers -> Nat], task = "attributes", FillTemplate(need),
           service' = service, listed' \in SignerLists
    PROVE  ReadInv'
<1> DEFINE short == {i \in DOMAIN Template :
                       Grown(Template[i]) > 0 /\ Grown(Template[i]) < need[Template[i]]}
           last == IF short = {} THEN Len(Template)
                   ELSE CHOOSE i \in short : \A j \in short : i <= j
           reached == {Template[i] : i \in 1..last}
<1>a. BuffersType /\ OthersFree /\ NoOverrun
  BY DEF ReadInv
<1>b. \A b \in Buffers : /\ Grown(b) \in Nat /\ Grown(b) >= alloc[b]
                         /\ len[b] = 0 => Grown(b) = alloc[b]
  BY <1>a, GrownFacts
<1>1. /\ alloc' = [b \in Buffers |-> Grown(b)]
      /\ written' = [b \in Buffers |->
            IF b \in reached /\ need[b] <= Grown(b) THEN need[b] ELSE written[b]]
      /\ len' = [b \in Buffers |-> IF b \in reached THEN need[b] ELSE Grown(b)]
      /\ rv' = (IF short = {} THEN "CKR_OK" ELSE "CKR_BUFFER_TOO_SMALL")
      /\ task' \in {"idle", task}
      /\ task' = "idle" /\ rv' = "CKR_OK" => \A d \in Buffers : len'[d] <= alloc'[d]
  BY DEF FillTemplate, Answer
<1>2. short = {} => reached = {"CKA_LABEL", "CKA_VALUE"}
  <2>1. Len(Template) = 2 /\ Template[1] = "CKA_LABEL" /\ Template[2] = "CKA_VALUE"
    BY DEF Template
  <2> HIDE DEF Template, short
  <2>2. ASSUME short = {} PROVE last = 2
    BY <2>1, <2>2
  <2> HIDE DEF last
  <2> QED
    BY <2>1, <2>2
<1>c. reached \subseteq {"CKA_LABEL", "CKA_VALUE"}
  <2>1. DOMAIN Template = 1..2 /\ Len(Template) = 2
        /\ Template[1] = "CKA_LABEL" /\ Template[2] = "CKA_VALUE"
    BY DEF Template
  <2>2. short \subseteq {1, 2}
    BY <2>1
  <2> HIDE DEF short, Template
  <2>3. last \in {1, 2}
    <3>1. CASE short = {}
      BY <2>1, <3>1
    <3>2. CASE short # {}
      <4>1. \E i \in short : \A j \in short : i <= j
        <5>1. CASE 1 \in short
          <6>1. \A j \in short : 1 <= j
            BY <2>2
          <6> QED
            BY <5>1, <6>1
        <5>2. CASE 1 \notin short
          <6>1. PICK k \in short : TRUE
            BY <3>2
          <6>2. \A j \in short : j = 2
            BY <2>2, <5>2
          <6>3. \A j \in short : k <= j
            BY <6>1, <6>2
          <6> QED
            BY <6>1, <6>3
        <5> QED
          BY <5>1, <5>2
      <4> DEFINE first == CHOOSE i \in short : \A j \in short : i <= j
      <4>2. first \in short
        BY <4>1
      <4>3. last = first
        BY <3>2
      <4> HIDE DEF first, last
      <4> QED
        BY <2>2, <4>2, <4>3
    <3> QED
      BY <3>1, <3>2
  <2> HIDE DEF last
  <2> QED
    BY <2>1, <2>3
<1> HIDE DEF reached, short
<1>3. BuffersType'
  BY <1>a, <1>b, <1>1 DEF BuffersType
<1>4. ASSUME NEW b \in Buffers \ {"CKA_LABEL", "CKA_VALUE"}
      PROVE  alloc'[b] = 0 /\ len'[b] = 0 /\ written'[b] = 0
  <2>1. alloc[b] = 0 /\ len[b] = 0 /\ written[b] = 0
    BY <1>4, <1>a DEF OthersFree, BuffersOf
  <2> QED
    BY <1>4, <1>b, <1>c, <1>1, <2>1
<1>5. NoOverrun'
  <2>1. ASSUME NEW b \in Buffers PROVE written'[b] <= alloc'[b]
    <3>1. /\ written[b] \in Nat /\ alloc[b] \in Nat /\ written[b] <= alloc[b]
          /\ Grown(b) \in Nat /\ Grown(b) >= alloc[b] /\ need[b] \in Nat
      BY <1>a, <1>b DEF NoOverrun, BuffersType
    <3>2. /\ alloc'[b] = Grown(b)
          /\ written'[b] = IF b \in reached /\ need[b] <= Grown(b) THEN need[b] ELSE written[b]
      BY <1>1
    <3> QED
      BY <3>1, <3>2
  <2> QED
    BY <2>1 DEF NoOverrun
<1>6. OthersFree'
  <2>1. CASE task' = "idle"
    BY <2>1 DEF OthersFree, BuffersOf
  <2>2. CASE task' = task
    BY <1>4, <2>2 DEF OthersFree, BuffersOf
  <2> QED
    BY <1>1, <2>1, <2>2
<1>7. NoUnwrittenByte'
  <2>1. ASSUME task' = "idle", rv' = "CKR_OK", NEW b \in Buffers, alloc'[b] > 0
        PROVE  len'[b] = written'[b]
    <3>1. b \in reached
      BY <1>1, <1>2, <1>4, <2>1
    <3>2. len'[b] = need[b] /\ len'[b] <= alloc'[b] /\ alloc'[b] = Grown(b)
      BY <1>1, <2>1, <3>1
    <3> QED
      BY <1>1, <3>1, <3>2
  <2> QED
    BY <2>1 DEF NoUnwrittenByte
<1>8. task' \in Tasks \cup {"idle"}
  BY <1>1 DEF ReadInv
<1> QED
  BY <1>3, <1>5, <1>6, <1>7, <1>8 DEF ReadInv

-----------------------------------------------------------------------------
(* Lemmas about mechanisms and sign requests.                              *)

\* The mechanisms that hash what they are given.
Hashing == DOMAIN Promised

\* For each of them the tables of mechanism.go agree with each other and with
\* what the mechanism promises.
LEMMA TableFacts ==
    ASSUME NEW m \in Hashing
    PROVE  /\ mechanismToAlgorithm(m) = Alg(Promised[m][1], Promised[m][2])
           /\ HashOf(m) = Promised[m][2] /\ Promised[m][2] \in {"SHA256", "SHA384", "SHA512"}
           /\ isPSSMechanism(m) <=> Promised[m][1] = "PSS"
           /\ Promised[m][1] \in {"PKCS1", "PSS", "ECDSA"}
           /\ Promised[m][1] = "ECDSA" <=> m \in ecMechanisms
           /\ m \notin {"CKM_RSA_PKCS", "CKM_ECDSA"}
<1>1. Hashing = {"CKM_SHA256_RSA_PKCS", "CKM_SHA384_RSA_PKCS", "CKM_SHA512_RSA_PKCS",
                 "CKM_SHA256_RSA_PKCS_PSS", "CKM_SHA384_RSA_PKCS_PSS",
                 "CKM_SHA512_RSA_PKCS_PSS",
                 "CKM_ECDSA_SHA256", "CKM_ECDSA_SHA384", "CKM_ECDSA_SHA512"}
  BY DEF Hashing, Promised
<1> USE DEF Promised, mechanismToAlgorithm, AlgorithmOf, HashOf, isPSSMechanism, ecMechanisms
<1>2. CASE m = "CKM_SHA256_RSA_PKCS"
  BY <1>2
<1>3. CASE m = "CKM_SHA384_RSA_PKCS"
  BY <1>3
<1>4. CASE m = "CKM_SHA512_RSA_PKCS"
  BY <1>4
<1>5. CASE m = "CKM_SHA256_RSA_PKCS_PSS"
  BY <1>5
<1>6. CASE m = "CKM_SHA384_RSA_PKCS_PSS"
  BY <1>6
<1>7. CASE m = "CKM_SHA512_RSA_PKCS_PSS"
  BY <1>7
<1>8. CASE m = "CKM_ECDSA_SHA256"
  BY <1>8
<1>9. CASE m = "CKM_ECDSA_SHA384"
  BY <1>9
<1>10. CASE m = "CKM_ECDSA_SHA512"
  BY <1>10
<1> QED
  BY <1>1, <1>2, <1>3, <1>4, <1>5, <1>6, <1>7, <1>8, <1>9, <1>10

\* There are three kinds of mechanisms, and one that is not supported.
LEMMA Kinds ==
    ASSUME NEW m \in Mechanisms
    PROVE  m \in Hashing \/ m \in {"CKM_RSA_PKCS", "CKM_ECDSA", "CKM_SHA1_RSA_PKCS"}
<1>1. Hashing = {"CKM_SHA256_RSA_PKCS", "CKM_SHA384_RSA_PKCS", "CKM_SHA512_RSA_PKCS",
                 "CKM_SHA256_RSA_PKCS_PSS", "CKM_SHA384_RSA_PKCS_PSS",
                 "CKM_SHA512_RSA_PKCS_PSS",
                 "CKM_ECDSA_SHA256", "CKM_ECDSA_SHA384", "CKM_ECDSA_SHA512"}
  BY DEF Hashing, Promised
<1> QED
  BY <1>1 DEF Mechanisms, rsaMechanisms, ecMechanisms

\* The sign request of a mechanism that hashes: the digest is made here, or by the
\* service for PSS.
LEMMA HashingRequest ==
    ASSUME NEW m \in Hashing, NEW input, NEW request, request = signRequest(m, input)
    PROVE  /\ request # Error
           /\ request.algorithm.scheme = Promised[m][1]
           /\ request.algorithm.hash = Promised[m][2]
           /\ Promised[m][1] = "PSS" => request.data = input /\ ~request.isDigest
           /\ Promised[m][1] # "PSS" =>
                request.data = Digest(Promised[m][2], input) /\ request.isDigest
<1> DEFINE scheme == Promised[m][1]
           hash == Promised[m][2]
<1>1. /\ mechanismToAlgorithm(m) = Alg(scheme, hash)
      /\ HashOf(m) = hash /\ hash # "none"
      /\ isPSSMechanism(m) <=> scheme = "PSS"
      /\ m # "CKM_RSA_PKCS" /\ m # "CKM_ECDSA"
  BY TableFacts
<1> HIDE DEF scheme, hash
<1>2. Alg(scheme, hash) # Error
  BY DEF Alg, Error
<1>3. CASE isPSSMechanism(m)
  <2>1. request = Request(Alg(scheme, hash), input, FALSE)
    BY <1>1, <1>3 DEF signRequest
  <2>2. scheme = "PSS"
    BY <1>1, <1>3
  <2>3. request = [is |-> "request", algorithm |-> Alg(scheme, hash), data |-> input,
                   isDigest |-> FALSE]
    BY <1>2, <2>1 DEF Request
  <2>4. /\ request # Error /\ request.algorithm.scheme = scheme
        /\ request.algorithm.hash = hash
        /\ request.data = input /\ ~request.isDigest
    BY <2>3 DEF Alg, Error
  <2> QED
    BY <2>2, <2>4 DEF scheme, hash
<1>4. CASE ~isPSSMechanism(m)
  <2>1. request = Request(Alg(scheme, hash), Digest(hash, input), TRUE)
    BY <1>1, <1>4 DEF signRequest, hashDataForMechanism
  <2>2. scheme # "PSS"
    BY <1>1, <1>4
  <2>3. request = [is |-> "request", algorithm |-> Alg(scheme, hash),
                   data |-> Digest(hash, input), isDigest |-> TRUE]
    BY <1>2, <2>1 DEF Request
  <2>4. /\ request # Error /\ request.algorithm.scheme = scheme
        /\ request.algorithm.hash = hash
        /\ request.data = Digest(hash, input) /\ request.isDigest
    BY <2>3 DEF Alg, Error
  <2> QED
    BY <2>2, <2>4 DEF scheme, hash
<1> QED
  BY <1>3, <1>4

\* The sign request of CKM_RSA_PKCS, if parseDigestInfo accepts the input.
LEMMA RawRSARequest ==
    ASSUME NEW input
    PROVE  signRequest("CKM_RSA_PKCS", input) =
             IF /\ input.is = "info" /\ ~input.trailing
                /\ input.oid \in {"SHA256", "SHA384", "SHA512"}
                /\ input.digest.is = "digest" /\ sizeOf[input.digest.hash] = sizeOf[input.oid]
             THEN [is |-> "request", algorithm |-> Alg("PKCS1", input.oid),
                   data |-> input.digest, isDigest |-> TRUE]
             ELSE Error
<1> DEFINE ok == /\ input.is = "info" /\ ~input.trailing
                 /\ input.oid \in {"SHA256", "SHA384", "SHA512"}
                 /\ input.digest.is = "digest" /\ sizeOf[input.digest.hash] = sizeOf[input.oid]
           info == [algorithm |-> Alg("PKCS1", input.oid), digest |-> input.digest]
<1>1. parseDigestInfo(input) = IF ok THEN info ELSE Error
  BY DEF parseDigestInfo
<1>2. signRequest("CKM_RSA_PKCS", input) =
        IF parseDigestInfo(input) = Error THEN Error
        ELSE Request(parseDigestInfo(input).algorithm, parseDigestInfo(input).digest, TRUE)
  BY DEF signRequest, isPSSMechanism
<1> HIDE DEF ok
<1>3. info # Error /\ Alg("PKCS1", input.oid) # Error
  BY DEF Error, Alg
<1>4. CASE ok
  BY <1>1, <1>2, <1>3, <1>4 DEF Request, ok
<1>5. CASE ~ok
  BY <1>1, <1>2, <1>5 DEF ok
<1> QED
  BY <1>4, <1>5

\* The sign request of CKM_ECDSA.
LEMMA RawECRequest ==
    ASSUME NEW input
    PROVE  /\ signRequest("CKM_ECDSA", input) =
                [is |-> "request", algorithm |-> ByLength(input), data |-> input,
                 isDigest |-> TRUE]
           /\ ByLength(input).scheme = "ECDSA"
<1>1. ByLength(input) \in {Alg("ECDSA", "SHA256"), Alg("ECDSA", "SHA384"), Alg("ECDSA", "SHA512")}
  BY DEF ByLength
<1>2. ByLength(input) # Error /\ ByLength(input).scheme = "ECDSA"
  BY <1>1 DEF Alg, Error
<1>3. signRequest("CKM_ECDSA", input) = Request(ByLength(input), input, TRUE)
  BY DEF signRequest, isPSSMechanism
<1> QED
  BY <1>2, <1>3 DEF Request

\* CKM_SHA1_RSA_PKCS is refused.
LEMMA NoSHA1Request == ASSUME NEW input PROVE signRequest("CKM_SHA1_RSA_PKCS", input) = Error
<1>1. mechanismToAlgorithm("CKM_SHA1_RSA_PKCS") = Error
  BY DEF mechanismToAlgorithm, AlgorithmOf
<1>2. ~isPSSMechanism("CKM_SHA1_RSA_PKCS")
  BY DEF isPSSMechanism
<1> QED
  BY <1>1, <1>2 DEF signRequest, Request

\* A signature over a sign request is what the mechanism promises: the data are
\* hashed once.
LEMMA RightSignature ==
    ASSUME NEW m \in Mechanisms, NEW input, NEW key, NEW request, NEW s,
           request = signRequest(m, input), request # Error, s = Signature(key, request)
    PROVE  [scheme |-> s.scheme, hash |-> s.hash, over |-> s.over] = Expected(m, input)
<1>a. /\ s.scheme = request.algorithm.scheme
      /\ s.hash = IF request.algorithm.scheme = "ECDSA" THEN "any" ELSE request.algorithm.hash
      /\ s.over = IF request.isDigest THEN request.data
                  ELSE Digest(request.algorithm.hash, request.data)
  BY DEF Signature
<1>1. CASE m = "CKM_RSA_PKCS"
  <2>1. request = [is |-> "request", algorithm |-> Alg("PKCS1", input.oid),
                   data |-> input.digest, isDigest |-> TRUE]
    BY <1>1, RawRSARequest
  <2>2. /\ request.algorithm.scheme = "PKCS1" /\ request.algorithm.hash = input.oid
        /\ request.data = input.digest /\ request.isDigest
    BY <2>1 DEF Alg
  <2>3. s.scheme = "PKCS1" /\ s.hash = input.oid /\ s.over = input.digest
    BY <1>a, <2>2
  <2> QED
    BY <1>1, <2>3 DEF Expected
<1>2. CASE m = "CKM_ECDSA"
  <2>1. request = [is |-> "request", algorithm |-> ByLength(input), data |-> input,
                   isDigest |-> TRUE] /\ ByLength(input).scheme = "ECDSA"
    BY <1>2, RawECRequest
  <2>2. s.scheme = "ECDSA" /\ s.hash = "any" /\ s.over = input
    BY <1>a, <2>1
  <2> QED
    BY <1>2, <2>2 DEF Expected
<1>3. CASE m \in Hashing
  <2> DEFINE scheme == Promised[m][1]
             hash == Promised[m][2]
  <2>1. /\ request # Error
        /\ request.algorithm.scheme = scheme /\ request.algorithm.hash = hash
        /\ scheme = "PSS" => request.data = input /\ ~request.isDigest
        /\ scheme # "PSS" => request.data = Digest(hash, input) /\ request.isDigest
    BY <1>3, HashingRequest
  <2>2. m # "CKM_RSA_PKCS" /\ m # "CKM_ECDSA"
    BY <1>3, TableFacts
  <2>3. Expected(m, input) =
          [scheme |-> scheme, hash |-> IF scheme = "ECDSA" THEN "any" ELSE hash,
           over |-> Digest(hash, input)]
    BY <2>2 DEF Expected
  <2> HIDE DEF scheme, hash
  <2>4. /\ s.scheme = scheme /\ s.hash = IF scheme = "ECDSA" THEN "any" ELSE hash
        /\ s.over = Digest(hash, input)
    BY <1>a, <2>1
  <2> QED
    BY <2>3, <2>4
<1> QED
  BY <1>1, <1>2, <1>3, Kinds, NoSHA1Request

\* The tables of sizes.
LEMMA Sizes ==
    /\ sizeOf["SHA1"] = 20 /\ sizeOf["SHA256"] = 32
    /\ sizeOf["SHA384"] = 48 /\ sizeOf["SHA512"] = 64
    /\ DOMAIN sizeOf = {"SHA1", "SHA256", "SHA384", "SHA512"}
BY DEF sizeOf

\* A mechanism from the list of a signer makes a request that its key can do.
LEMMA UsableRequest ==
    ASSUME NEW signer, signer.listed, signer.key.type \in {"RSA", "EC"},
           NEW m \in GetMechanismList(signer), NEW input \in Inputs(m), Suits(m, input),
           NEW request, request = signRequest(m, input)
    PROVE  request # Error /\ Does(signer.key, request.algorithm) /\ ~WrongLength(request)
<1>1. \/ signer.key.type = "RSA" /\ m \in rsaMechanisms
      \/ signer.key.type = "EC" /\ m \in ecMechanisms
  BY DEF GetMechanismList, keyAlgorithm
<1>2. CASE m = "CKM_RSA_PKCS"
  <2>1. input.is = "info" /\ ~input.trailing /\ input.oid = input.digest.hash
        /\ input.oid # "SHA1"
    BY <1>2 DEF Suits
  <2>2. PICK oid \in {"SHA1", "SHA384"}, h \in {"SHA1", "SHA384"} :
            input = DigestInfo(oid, Digest(h, Message), FALSE)
    BY <1>2, <2>1 DEF Inputs, Message, DigestInfo
  <2>3. input.oid = oid /\ input.digest = Digest(h, Message)
    BY <2>2 DEF DigestInfo
  <2>4. input.digest.is = "digest" /\ input.digest.hash = h
    BY <2>3 DEF Digest
  <2>5. oid = "SHA384" /\ h = "SHA384"
    BY <2>1, <2>3, <2>4
  <2>6. request = [is |-> "request", algorithm |-> Alg("PKCS1", "SHA384"),
                   data |-> input.digest, isDigest |-> TRUE]
    BY <1>2, <2>1, <2>3, <2>4, <2>5, RawRSARequest
  <2>7. request # Error
    BY <2>6 DEF Error
  <2>8. Does(signer.key, request.algorithm)
    BY <1>1, <1>2, <2>6 DEF Does, Alg, ecMechanisms
  <2>9. ~WrongLength(request)
    BY <2>4, <2>5, <2>6 DEF WrongLength, Alg
  <2> QED
    BY <2>7, <2>8, <2>9
<1>3. CASE m = "CKM_ECDSA"
  <2>1. PICK h \in DOMAIN sizeOf : input = Digest(h, Message)
    BY <1>3 DEF Inputs
  <2>2. input.is = "digest" /\ input.hash = h /\ h # "SHA1"
    BY <1>3, <2>1 DEF Digest, Suits
  <2>3. request = [is |-> "request", algorithm |-> ByLength(input), data |-> input,
                   isDigest |-> TRUE] /\ ByLength(input).scheme = "ECDSA"
    BY <1>3, RawECRequest
  <2>4. ByLength(input).hash = h
    <3>1. h \in {"SHA256", "SHA384", "SHA512"}
      BY <2>2, Sizes
    <3>2. CASE h = "SHA256"
      <4>1. ByLength(input) = Alg("ECDSA", "SHA256")
        BY <2>2, <3>2, Sizes DEF ByLength
      <4> QED
        BY <3>2, <4>1 DEF Alg
    <3>3. CASE h = "SHA384"
      <4>1. ByLength(input) = Alg("ECDSA", "SHA384")
        BY <2>2, <3>3, Sizes DEF ByLength
      <4> QED
        BY <3>3, <4>1 DEF Alg
    <3>4. CASE h = "SHA512"
      <4>1. ByLength(input) = Alg("ECDSA", "SHA512")
        BY <2>2, <3>4, Sizes DEF ByLength
      <4> QED
        BY <3>4, <4>1 DEF Alg
    <3> QED
      BY <3>1, <3>2, <3>3, <3>4
  <2>5. request # Error
    BY <2>3 DEF Error
  <2>6. Does(signer.key, request.algorithm)
    BY <1>1, <1>3, <2>3 DEF Does, rsaMechanisms
  <2>7. ~WrongLength(request)
    BY <2>2, <2>3, <2>4 DEF WrongLength
  <2> QED
    BY <2>5, <2>6, <2>7
<1>4. CASE m \in Hashing
  <2> DEFINE scheme == Promised[m][1]
             hash == Promised[m][2]
  <2>1. /\ request # Error
        /\ request.algorithm.scheme = scheme /\ request.algorithm.hash = hash
        /\ scheme = "PSS" => request.data = input /\ ~request.isDigest
        /\ scheme # "PSS" => request.data = Digest(hash, input) /\ request.isDigest
    BY <1>4, HashingRequest
  <2>2. scheme = "ECDSA" <=> m \in ecMechanisms
    BY <1>4, TableFacts
  <2> HIDE DEF scheme, hash
  <2>3. rsaMechanisms \cap ecMechanisms = {}
    BY DEF rsaMechanisms, ecMechanisms
  <2>4. Does(signer.key, request.algorithm)
    BY <1>1, <2>1, <2>2, <2>3 DEF Does
  <2>5. ~WrongLength(request)
    BY <2>1 DEF WrongLength, Digest
  <2> QED
    BY <2>1, <2>4, <2>5
<1>5. m \in Mechanisms /\ m # "CKM_SHA1_RSA_PKCS"
  BY <1>1 DEF Mechanisms, rsaMechanisms, ecMechanisms
<1> QED
  BY <1>2, <1>3, <1>4, <1>5, Kinds

\* What the service's answers to a sign request mean.
LEMMA AnswerFacts ==
    ASSUME NEW found, NEW request, NEW answer \in Answers(found, request)
    PROVE  /\ answer.status \in {0, 401, 403, 500, 404, 400, 200}
           /\ answer.status = 404 => found = NoSigner
           /\ answer.status = 200 =>
                /\ Does(found.key, request.algorithm) /\ found # NoSigner
                /\ request.algorithm.scheme \notin found.key.lacks
           /\ answer.status = 400 =>
                \/ answer.unsupported /\ request.algorithm.scheme \in found.key.lacks
                \/ /\ ~answer.unsupported
                   /\ ~Does(found.key, request.algorithm) \/ WrongLength(request)
BY DEF Answers, Disturbances

\* The return value of each status.
LEMMA ReturnValues ==
    ASSUME NEW status, NEW unsupported
    PROVE  /\ status \in {0, 403} => ErrorToRV(status, unsupported) = "CKR_GENERAL_ERROR"
           /\ status = 401 => ErrorToRV(status, unsupported) = "CKR_USER_NOT_LOGGED_IN"
           /\ status = 500 => ErrorToRV(status, unsupported) = "CKR_DEVICE_ERROR"
           /\ status = 404 => ErrorToRV(status, unsupported) = "CKR_KEY_HANDLE_INVALID"
           /\ status = 400 /\ unsupported =>
                ErrorToRV(status, unsupported) = "CKR_MECHANISM_INVALID"
           /\ status = 400 /\ ~unsupported =>
                ErrorToRV(status, unsupported) = "CKR_DATA_INVALID"
BY DEF ErrorToRV, mapAPIError, mapHTTPError

\* A signature fits the size that was told for a signer, for every key the module
\* is made for.
LEMMA EnoughRoom ==
    ASSUME NEW list \in SignerLists, NEW i \in DOMAIN list, NEW request,
           NEW length \in {512, EstimateSignatureSize(list[i])},
           Does(list[i].key, request.algorithm)
    PROVE  Signature(list[i].key, request).length <= length
<1> DEFINE key == list[i].key
<1>1. /\ key.type \in {"RSA", "EC"}
      /\ key.bits \in IF key.type = "RSA" THEN {2048, 3072, 4096} ELSE {256, 384, 521}
  BY SlotUseAssumption, KeySizesAssumption
<1>2. Signature(key, request).length =
        IF key.type = "RSA" THEN key.bits \div 8 ELSE 2 * ((key.bits + 7) \div 8)
  BY DEF Signature
<1>3. EstimateSignatureSize(list[i]) =
        IF ~list[i].listed THEN 512
        ELSE IF key.type = "RSA" THEN key.bits \div 8 ELSE 132
  <2>1. CASE ~list[i].listed
    BY <2>1 DEF EstimateSignatureSize, keyAlgorithm
  <2>2. CASE list[i].listed
    <3>1. keyAlgorithm(list[i]) = key
      BY <2>2 DEF keyAlgorithm
    <3> HIDE DEF key
    <3> QED
      BY <1>1, <2>2, <3>1 DEF EstimateSignatureSize
  <2> QED
    BY <2>1, <2>2
<1> HIDE DEF key
<1>4. CASE key.type = "RSA"
  BY <1>1, <1>2, <1>3, <1>4 DEF key
<1>5. CASE key.type = "EC"
  BY <1>1, <1>2, <1>3, <1>5 DEF key
<1> QED
  BY <1>1, <1>4, <1>5

-----------------------------------------------------------------------------
(* C_Sign.                                                                 *)

\* The signer found at the service is one of its list.
LEMMA FoundFacts ==
    ASSUME service \in SignerLists, NEW signer, AtService(signer) # NoSigner
    PROVE  \E i \in DOMAIN service : AtService(signer) = service[i]
<1> DEFINE same == {i \in DOMAIN service : service[i].id = signer.id}
           i == CHOOSE j \in same : TRUE
<1>1. same # {} /\ AtService(signer) = service[i]
  BY DEF AtService
<1>2. i \in same
  BY <1>1
<1> HIDE DEF i
<1> QED
  BY <1>1, <1>2

\* What C_Sign leaves behind: the error of a request that cannot be made, or what
\* became of the request.
LEMMA SignResult ==
    ASSUME NEW m, NEW input, C_Sign(m, input)
    PROVE  /\ outcome'.mechanism = m /\ outcome'.input = input
           /\ listed'[Slot] = Signer /\ service' = service
           /\ told' = told /\ size' = size
           /\ \/ /\ signRequest(m, input) = Error
                 /\ outcome'.rv = "CKR_GENERAL_ERROR"
              \/ /\ signRequest(m, input) # Error
                 /\ \E answer \in Answers(AtService(Signer), signRequest(m, input)) :
                      \/ /\ answer.status = 200
                         /\ outcome'.rv = "CKR_OK"
                         /\ outcome'.signature =
                              Signature(AtService(Signer).key, signRequest(m, input))
                      \/ /\ answer.status # 200 /\ outcome'.status = answer.status
                         /\ outcome'.rv = ErrorToRV(answer.status, answer.unsupported)
<1>1. listed'[Slot] = Signer /\ UNCHANGED <<service, told, size>>
  BY DEF C_Sign, getSigners, Signer
<1> DEFINE Made(result, status, signature) ==
             outcome' = [rv |-> result, status |-> status, signature |-> signature,
                         mechanism |-> m, input |-> input]
<1>2. \/ signRequest(m, input) = Error /\ Made("CKR_GENERAL_ERROR", 0, Error)
      \/ /\ signRequest(m, input) # Error
         /\ \E answer \in Answers(AtService(Signer), signRequest(m, input)) :
              IF answer.status = 200
              THEN Made("CKR_OK", 200, Signature(AtService(Signer).key, signRequest(m, input)))
              ELSE Made(ErrorToRV(answer.status, answer.unsupported), answer.status, Error)
  BY DEF C_Sign
<1>3. ASSUME NEW result, NEW status, NEW signature, Made(result, status, signature)
      PROVE  /\ outcome'.rv = result /\ outcome'.status = status
             /\ outcome'.signature = signature
             /\ outcome'.mechanism = m /\ outcome'.input = input
  BY <1>3
<1> HIDE DEF Made
<1>4. CASE signRequest(m, input) = Error
  BY <1>1, <1>2, <1>3, <1>4
<1>5. CASE signRequest(m, input) # Error
  <2>1. PICK answer \in Answers(AtService(Signer), signRequest(m, input)) :
              IF answer.status = 200
              THEN Made("CKR_OK", 200, Signature(AtService(Signer).key, signRequest(m, input)))
              ELSE Made(ErrorToRV(answer.status, answer.unsupported), answer.status, Error)
    BY <1>2, <1>5
  <2>2. CASE answer.status = 200
    BY <1>1, <1>3, <1>5, <2>1, <2>2
  <2>3. CASE answer.status # 200
    BY <1>1, <1>3, <1>5, <2>1, <2>3
  <2> QED
    BY <2>2, <2>3
<1> QED
  BY <1>4, <1>5

\* C_Sign returns what it should.
LEMMA SignStep ==
    ASSUME UInv, NEW m \in Mechanisms, NEW input \in Inputs(m), C_Sign(m, input)
    PROVE  SignOK'
<1> DEFINE signer == Signer
           found == AtService(Signer)
           request == signRequest(m, input)
<1>a. /\ service \in SignerLists /\ listed \in SignerLists \cup {NoList}
      /\ ToldOK /\ SizeOK /\ InRange
  BY DEF UInv, ReadInv, C_Sign
<1>b. /\ outcome'.mechanism = m /\ outcome'.input = input
      /\ listed'[Slot] = signer /\ service' = service /\ told' = told /\ size' = size
      /\ \/ request = Error /\ outcome'.rv = "CKR_GENERAL_ERROR"
         \/ /\ request # Error
            /\ \E answer \in Answers(found, request) :
                 \/ /\ answer.status = 200 /\ outcome'.rv = "CKR_OK"
                    /\ outcome'.signature = Signature(found.key, request)
                 \/ /\ answer.status # 200 /\ outcome'.status = answer.status
                    /\ outcome'.rv = ErrorToRV(answer.status, answer.unsupported)
  BY SignResult
<1>c. \A s : AtService(s)' = AtService(s)
  BY <1>b DEF AtService
<1>d. /\ signer = List[Slot] /\ List \in SignerLists /\ Slot \in DOMAIN List
      /\ signer # NoSigner /\ signer.key.type \in {"RSA", "EC"}
  <2>1. signer = List[Slot] /\ List \in SignerLists /\ Slot \in DOMAIN List
    BY <1>a, ListFacts DEF Signer
  <2>2. DOMAIN signer = {"id", "key", "listed", "label", "cert"}
        /\ signer.key.type \in {"RSA", "EC"}
    BY <2>1, SlotUseAssumption
  <2>3. signer # NoSigner
    BY <2>2 DEF NoSigner
  <2> QED
    BY <2>1, <2>2, <2>3
<1>e. found = AtService(signer)
  OBVIOUS
<1> HIDE DEF signer, found
<1>1. CASE request = Error
  <2>1. outcome'.rv = "CKR_GENERAL_ERROR"
    BY <1>1, <1>b
  <2>2. SignatureVerifies' /\ SizeSuffices' /\ RefusalTellsWhy'
    BY <1>1, <1>b, <2>1 DEF SignatureVerifies, SizeSuffices, RefusalTellsWhy
  <2>3. ASSUME m \in told.mechanisms, told.signer = signer, Known(told.signer)',
               Suits(m, input)
        PROVE  FALSE
    <3>1. told.mechanisms = GetMechanismList(signer)
      BY <1>a, <1>d, <2>3 DEF ToldOK, NothingTold
    <3>2. signer.listed
      BY <1>b, <2>3 DEF Known
    <3> QED
      BY <1>1, <1>d, <2>3, <3>1, <3>2, UsableRequest
  <2>4. ToldIsUsable'
    BY <1>b, <2>3 DEF ToldIsUsable
  <2> QED
    BY <2>2, <2>4 DEF SignOK
<1>2. CASE request # Error
  <2>1. PICK answer \in Answers(found, request) :
          \/ /\ answer.status = 200 /\ outcome'.rv = "CKR_OK"
             /\ outcome'.signature = Signature(found.key, request)
          \/ /\ answer.status # 200 /\ outcome'.status = answer.status
             /\ outcome'.rv = ErrorToRV(answer.status, answer.unsupported)
    BY <1>2, <1>b
  <2>a. /\ answer.status \in {0, 401, 403, 500, 404, 400, 200}
        /\ answer.status = 404 => found = NoSigner
        /\ answer.status = 200 =>
             /\ Does(found.key, request.algorithm) /\ found # NoSigner
             /\ request.algorithm.scheme \notin found.key.lacks
        /\ answer.status = 400 =>
             \/ answer.unsupported /\ request.algorithm.scheme \in found.key.lacks
             \/ /\ ~answer.unsupported
                /\ ~Does(found.key, request.algorithm) \/ WrongLength(request)
    BY AnswerFacts
  <2>b. outcome'.rv = "CKR_OK" => answer.status = 200
    BY <2>1, <2>a, ReturnValues
  <2>2. SignatureVerifies'
    <3>1. ASSUME outcome'.rv = "CKR_OK"
          PROVE  [scheme |-> outcome'.signature.scheme, hash |-> outcome'.signature.hash,
                  over |-> outcome'.signature.over] = Expected(m, input)
      <4>1. outcome'.signature = Signature(found.key, request)
        BY <2>1, <2>b, <3>1
      <4> DEFINE s == Signature(found.key, request)
      <4>2. [scheme |-> s.scheme, hash |-> s.hash, over |-> s.over] = Expected(m, input)
        BY <1>2, RightSignature
      <4> HIDE DEF s
      <4> QED
        BY <4>1, <4>2 DEF s
    <3> QED
      BY <1>b, <3>1 DEF SignatureVerifies
  <2>3. SizeSuffices'
    <3>1. ASSUME outcome'.rv = "CKR_OK", size.signer = signer, AtService(size.signer) = size.signer
          PROVE  outcome'.signature.length <= size.length
      <4>1. outcome'.signature = Signature(signer.key, request)
            /\ Does(signer.key, request.algorithm)
        BY <1>e, <2>1, <2>a, <2>b, <3>1
      <4>2. size.length \in {512, EstimateSignatureSize(signer)}
        BY <1>a, <1>d, <3>1 DEF SizeOK, NoSize
      <4>3. Signature(List[Slot].key, request).length <= size.length
        BY <1>d, <4>1, <4>2, EnoughRoom
      <4> QED
        BY <1>d, <4>1, <4>3
    <3> QED
      BY <1>b, <1>c, <3>1 DEF SizeSuffices
  <2>4. ToldIsUsable'
    <3>1. ASSUME m \in told.mechanisms, told.signer = signer, Known(told.signer)',
                 Suits(m, input), told.signer.key.lacks = {}
          PROVE  outcome'.rv \in {"CKR_OK", "CKR_USER_NOT_LOGGED_IN", "CKR_DEVICE_ERROR",
                                  "CKR_GENERAL_ERROR"}
      <4>1. told.mechanisms = GetMechanismList(signer)
        BY <1>a, <1>d, <3>1 DEF ToldOK, NothingTold
      <4>2. signer.listed /\ found = signer
        BY <1>b, <1>c, <1>e, <3>1 DEF Known
      <4>3. Does(found.key, request.algorithm) /\ ~WrongLength(request)
        BY <1>d, <3>1, <4>1, <4>2, UsableRequest
      <4>4. answer.status \in {0, 401, 403, 500, 200}
        BY <1>d, <2>a, <3>1, <4>2, <4>3
      <4> QED
        BY <2>1, <4>4, ReturnValues
    <3> QED
      BY <1>2, <1>b, <3>1 DEF ToldIsUsable
  <2>5. RefusalTellsWhy'
    <3>1. /\ outcome'.rv = "CKR_OK" =>
               /\ found # NoSigner /\ Does(found.key, request.algorithm)
               /\ request.algorithm.scheme \notin found.key.lacks
          /\ outcome'.rv = "CKR_KEY_HANDLE_INVALID" => found = NoSigner
          /\ outcome'.rv = "CKR_MECHANISM_INVALID" =>
               request.algorithm.scheme \in found.key.lacks
          /\ outcome'.rv = "CKR_DATA_INVALID" =>
               ~Does(found.key, request.algorithm) \/ WrongLength(request)
          /\ outcome'.rv = "CKR_DEVICE_ERROR" => outcome'.status = 500
          /\ outcome'.rv = "CKR_USER_NOT_LOGGED_IN" => outcome'.status = 401
          /\ outcome'.rv = "CKR_GENERAL_ERROR" => outcome'.status \in {0, 403}
          /\ outcome'.rv \in {"CKR_OK", "CKR_KEY_HANDLE_INVALID", "CKR_MECHANISM_INVALID",
                              "CKR_DATA_INVALID", "CKR_DEVICE_ERROR",
                              "CKR_USER_NOT_LOGGED_IN", "CKR_GENERAL_ERROR"}
      BY <2>1, <2>a, <2>b, ReturnValues
    <3>2. AtService(listed[Slot])' = found
      BY <1>b, <1>c, <1>e
    <3> QED
      BY <1>b, <3>1, <3>2 DEF RefusalTellsWhy
  <2> QED
    BY <2>2, <2>3, <2>4, <2>5 DEF SignOK
<1> QED
  BY <1>1, <1>2

-----------------------------------------------------------------------------
(* The other steps.                                                        *)

\* A step that is no C_Sign returns no signature.
LEMMA NoSign == ASSUME outcome' = NoOutcome PROVE SignOK'
<1>1. outcome'.rv = "none"
  BY DEF NoOutcome
<1> QED
  BY <1>1 DEF SignOK, SignatureVerifies, ToldIsUsable, SizeSuffices, RefusalTellsWhy

\* The application starts with no room at all.
LEMMA FreedPreserves ==
    ASSUME ReadInv, Freed, service' = service, listed' \in SignerLists \cup {NoList},
           task' \in Tasks \cup {"idle"}
    PROVE  ReadInv'
<1>1. BuffersType' /\ \A b \in Buffers : alloc'[b] = 0 /\ len'[b] = 0 /\ written'[b] = 0
  BY DEF Freed, BuffersType
<1>2. OthersFree' /\ NoOverrun' /\ NoUnwrittenByte'
  BY <1>1 DEF OthersFree, NoOverrun, NoUnwrittenByte
<1> QED
  BY <1>1, <1>2 DEF ReadInv

\* A call that returns an error leaves the buffers alone, and so does what happens
\* elsewhere.
LEMMA KeptPreserves ==
    ASSUME ReadInv, UNCHANGED buffers, service' \in SignerLists,
           listed' \in SignerLists \cup {NoList},
           \/ task' = task /\ rv' = rv
           \/ task' = "idle" /\ rv' # "CKR_OK"
    PROVE  ReadInv'
<1>1. BuffersType' /\ NoOverrun'
  BY DEF ReadInv, buffers, BuffersType, NoOverrun
<1>2. CASE task' = task /\ rv' = rv
  <2>1. OthersFree' /\ NoUnwrittenByte'
    BY <1>2 DEF ReadInv, buffers, OthersFree, BuffersOf, NoUnwrittenByte
  <2> QED
    BY <1>1, <1>2, <2>1 DEF ReadInv
<1>3. CASE task' = "idle" /\ rv' # "CKR_OK"
  <2>1. OthersFree' /\ NoUnwrittenByte'
    BY <1>3 DEF OthersFree, BuffersOf, NoUnwrittenByte
  <2> QED
    BY <1>1, <1>3, <2>1 DEF ReadInv
<1> QED
  BY <1>2, <1>3

\* Every step preserves the invariant.
LEMMA StepPreserves == ASSUME UInv, [Next]_vars PROVE UInv'
<1>a. /\ ReadInv /\ ToldOK /\ SizeOK /\ SignOK
      /\ service \in SignerLists /\ listed \in SignerLists \cup {NoList}
      /\ task \in Tasks \cup {"idle"}
  BY DEF UInv, ReadInv
<1>b. List \in SignerLists /\ Len(List) \in Nat /\ (InRange => Slot \in DOMAIN List)
  BY <1>a, ListFacts
<1>c. UNCHANGED told => ToldOK'
  BY <1>a DEF ToldOK, GetMechanismList, keyAlgorithm
<1>d. UNCHANGED size => SizeOK'
  BY <1>a DEF SizeOK, EstimateSignatureSize, keyAlgorithm
<1>e. \A status \in Disturbances : ErrorToRV(status, FALSE) # "CKR_OK"
  BY DEF Disturbances, ErrorToRV, mapAPIError, mapHTTPError
<1>1. ASSUME NEW t \in Tasks, Begin(t) PROVE UInv'
  <2>1. ReadInv'
    BY <1>1, <1>a, FreedPreserves DEF Begin
  <2> QED
    BY <1>1, <1>c, <1>d, <2>1, NoSign DEF Begin, UInv
<1>2. ASSUME C_GetSlotList PROVE UInv'
  <2>1. /\ task = "slots" /\ Fill("slots", Len(List)) /\ service' = service
        /\ listed' \in SignerLists /\ UNCHANGED <<told, size>> /\ outcome' = NoOutcome
    BY <1>2, <1>b DEF C_GetSlotList, getSigners
  <2>2. ReadInv'
    BY <1>a, <1>b, <2>1, FillPreserves
  <2> QED
    BY <1>c, <1>d, <2>1, <2>2, NoSign DEF UInv
<1>3. ASSUME C_GetMechanismList PROVE UInv'
  <2>1. /\ task = "mechanisms" /\ service' = service /\ listed' \in SignerLists
        /\ Fill("mechanisms", Cardinality(GetMechanismList(Signer)))
        /\ size' = size /\ outcome' = NoOutcome
        /\ \/ told' = told
           \/ told' = [mechanisms |-> GetMechanismList(Signer), signer |-> Signer]
    BY <1>3, <1>b DEF C_GetMechanismList, getSigners
  <2>2. ReadInv'
    <3>1. Cardinality(GetMechanismList(Signer)) \in Nat
      BY MechanismCount
    <3> QED
      BY <1>a, <2>1, <3>1, FillPreserves
  <2>3. ToldOK'
    <3>1. CASE told' = [mechanisms |-> GetMechanismList(Signer), signer |-> Signer]
      <4>1. told'.mechanisms = GetMechanismList(Signer) /\ told'.signer = Signer
        BY <3>1
      <4> QED
        BY <4>1 DEF ToldOK, GetMechanismList, keyAlgorithm
    <3> QED
      BY <1>c, <2>1, <3>1
  <2> QED
    BY <1>d, <2>1, <2>2, <2>3, NoSign DEF UInv
<1>4. ASSUME NEW certificate \in BOOLEAN, C_GetAttributeValue(certificate) PROVE UInv'
  <2> DEFINE need == [b \in Buffers |->
                        CASE b = "CKA_LABEL" -> Signer.label
                          [] b = "CKA_VALUE" -> IF certificate THEN Signer.cert ELSE 0
                          [] OTHER -> 0]
  <2>1. /\ task = "attributes" /\ InRange /\ FillTemplate(need) /\ service' = service
        /\ listed' \in SignerLists /\ UNCHANGED <<told, size>> /\ outcome' = NoOutcome
    BY <1>4, <1>b DEF C_GetAttributeValue, getSigners
  <2>2. Signer.label \in Nat /\ Signer.cert \in Nat
    BY <1>b, <2>1, SlotUseAssumption DEF Signer
  <2>3. need \in [Buffers -> Nat]
    BY <2>2
  <2> HIDE DEF need
  <2>4. ReadInv'
    BY <1>a, <2>1, <2>3, TemplatePreserves
  <2> QED
    BY <1>c, <1>d, <2>1, <2>4, NoSign DEF UInv
<1>5. ASSUME SlotGone PROVE UInv'
  <2>1. ReadInv'
    BY <1>5, <1>a, <1>b, KeptPreserves DEF SlotGone, getSigners
  <2> QED
    BY <1>5, <1>c, <1>d, <2>1, NoSign DEF SlotGone, UInv
<1>6. ASSUME NEW status \in Disturbances, ListFails(status) PROVE UInv'
  <2>1. ReadInv'
    BY <1>6, <1>a, <1>e, KeptPreserves DEF ListFails
  <2> QED
    BY <1>6, <1>c, <1>d, <2>1, NoSign DEF ListFails, UInv
<1>7. ASSUME AskSize PROVE UInv'
  <2>1. ReadInv'
    BY <1>7, <1>a, <1>b, FreedPreserves DEF AskSize, getSigners
  <2>2. SizeOK'
    <3>1. \/ size' = [length |-> EstimateSignatureSize(Signer), signer |-> Signer]
          \/ size' = [length |-> 512, signer |-> NoSigner]
      BY <1>7 DEF AskSize
    <3>2. CASE size' = [length |-> EstimateSignatureSize(Signer), signer |-> Signer]
      <4>1. size'.length = EstimateSignatureSize(Signer) /\ size'.signer = Signer
        BY <3>2
      <4> QED
        BY <4>1 DEF SizeOK, EstimateSignatureSize, keyAlgorithm
    <3>3. CASE size' = [length |-> 512, signer |-> NoSigner]
      BY <3>3 DEF SizeOK
    <3> QED
      BY <3>1, <3>2, <3>3
  <2> QED
    BY <1>7, <1>c, <2>1, <2>2, NoSign DEF AskSize, UInv
<1>8. ASSUME SignFails PROVE UInv'
  <2>1. ReadInv'
    BY <1>8, <1>a, <1>b, FreedPreserves DEF SignFails, getSigners
  <2> QED
    BY <1>8, <1>c, <1>d, <2>1, NoSign DEF SignFails, UInv
<1>9. ASSUME NEW m \in Mechanisms, NEW input \in Inputs(m), C_Sign(m, input) PROVE UInv'
  <2>1. ReadInv'
    BY <1>9, <1>a, <1>b, FreedPreserves DEF C_Sign, getSigners
  <2>2. UNCHANGED <<told, size>>
    BY <1>9 DEF C_Sign
  <2> QED
    BY <1>9, <1>c, <1>d, <2>1, <2>2, SignStep DEF UInv
<1>10. ASSUME NEW list \in SignerLists, ListChanges(list) PROVE UInv'
  <2>1. ReadInv'
    BY <1>10, <1>a, KeptPreserves DEF ListChanges
  <2> QED
    BY <1>10, <1>c, <1>d, <2>1, NoSign DEF ListChanges, UInv
<1>11. ASSUME Expire PROVE UInv'
  <2>1. ReadInv'
    BY <1>11, <1>a, KeptPreserves DEF Expire
  <2> QED
    BY <1>11, <1>c, <1>d, <2>1, NoSign DEF Expire, UInv
<1>12. ASSUME UNCHANGED vars PROVE UInv'
  <2>1. ReadInv'
    BY <1>12, <1>a, KeptPreserves DEF vars, buffers
  <2>2. SignOK'
    <3>1. \A s : AtService(s)' = AtService(s)
      BY <1>12 DEF vars, AtService
    <3>2. /\ SignatureVerifies' = SignatureVerifies
      BY <1>12 DEF vars, SignatureVerifies
    <3>3. ToldIsUsable => ToldIsUsable'
      BY <1>12, <3>1 DEF vars, ToldIsUsable, Known
    <3>4. SizeSuffices => SizeSuffices'
      BY <1>12, <3>1 DEF vars, SizeSuffices
    <3>5. RefusalTellsWhy => RefusalTellsWhy'
      BY <1>12, <3>1 DEF vars, RefusalTellsWhy
    <3> QED
      BY <1>a, <3>2, <3>3, <3>4, <3>5 DEF SignOK
  <2> QED
    BY <1>12, <1>c, <1>d, <2>1, <2>2 DEF vars, UInv
<1> QED
  BY <1>1, <1>2, <1>3, <1>4, <1>5, <1>6, <1>7, <1>8, <1>9, <1>10, <1>11, <1>12
  DEF Next, Call

\* Nothing has been read or signed initially.
LEMMA InitUInv == Init => UInv
<1> SUFFICES ASSUME Init PROVE UInv
  OBVIOUS
<1>1. BuffersType /\ \A b \in Buffers : alloc[b] = 0 /\ len[b] = 0 /\ written[b] = 0
  BY DEF Init, BuffersType
<1>2. OthersFree /\ NoOverrun /\ NoUnwrittenByte
  BY <1>1 DEF OthersFree, NoOverrun, NoUnwrittenByte
<1>3. ReadInv
  BY <1>1, <1>2 DEF Init, ReadInv
<1>4. outcome.rv = "none" /\ outcome = NoOutcome
  BY DEF Init, NoOutcome
<1>5. SignOK
  BY <1>4 DEF SignOK, SignatureVerifies, ToldIsUsable, SizeSuffices, RefusalTellsWhy
<1> QED
  BY <1>3, <1>5 DEF Init, UInv, ToldOK, SizeOK

-----------------------------------------------------------------------------
\* The inductive invariant holds in every reachable state.
THEOREM UseInvariant == Spec => []UInv
<1>1. UInv /\ [Next]_vars => UInv'
  BY StepPreserves
<1> QED
  BY <1>1, InitUInv, PTL DEF Spec

\* Nothing is written past the room of the application, however the list of signers
\* changes between the call that tells a length and the call that fills a buffer.
THEOREM BuffersHold == Spec => []NoOverrun
<1>1. UInv => NoOverrun
  BY DEF UInv, ReadInv
<1> QED
  BY <1>1, UseInvariant, PTL

\* A reading that ends well leaves in each buffer as much as its length says.
THEOREM AllIsWritten == Spec => []NoUnwrittenByte
<1>1. UInv => NoUnwrittenByte
  BY DEF UInv, ReadInv
<1> QED
  BY <1>1, UseInvariant, PTL

\* A signature that C_Sign hands out is the one that the mechanism promises, over
\* data that are hashed once, whatever key the signer has by then.
THEOREM SignaturesVerify == Spec => []SignatureVerifies
<1>1. UInv => SignatureVerifies
  BY DEF UInv, SignOK
<1> QED
  BY <1>1, UseInvariant, PTL

\* A mechanism that C_GetMechanismList told is not refused while the signer is the
\* same and its HSM does the scheme.
THEOREM ListedIsUsable == Spec => []ToldIsUsable
<1>1. UInv => ToldIsUsable
  BY DEF UInv, SignOK
<1> QED
  BY <1>1, UseInvariant, PTL

\* The size that C_Sign told is enough while the signer is the same, for every key
\* the module is made for and whether or not the list names its algorithm.
THEOREM SizeIsEnough == Spec => []SizeSuffices
<1>1. UInv => SizeSuffices
  BY DEF UInv, SignOK
<1> QED
  BY <1>1, UseInvariant, PTL

\* A C_Sign that has its signer returns no other values than these, and each but
\* CKR_GENERAL_ERROR for its one cause, whatever became of the signer at the service.
THEOREM RefusalsTellWhy == Spec => []RefusalTellsWhy
<1>1. UInv => RefusalTellsWhy
  BY DEF UInv, SignOK
<1> QED
  BY <1>1, UseInvariant, PTL
=============================================================================
