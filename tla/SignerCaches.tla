----------------------------- MODULE SignerCaches -----------------------------
(***************************************************************************)
(* The caches of cache.go and the reads of backend.go that fill them, for  *)
(* one signer: the signer list (getSigners), the certificate               *)
(* (getCertificateData) and the public key derived from the certificate    *)
(* (getPublicKeyData, getECPublicKeyData).                                 *)
(*                                                                         *)
(* Each cache is locked on its own, and only for one get or one set: a     *)
(* read that misses goes to the service with no lock held, and what it     *)
(* stores is what the service answered some time ago.  Of a value only two *)
(* things matter: how long ago the service gave it out (age) and the       *)
(* algorithm of the signer's key at that moment (alg).  Time is counted    *)
(* from the present, so there is no clock to bound: an entry's expiresAt   *)
(* is kept as the time it has left.                                        *)
(***************************************************************************)
EXTENDS Integers

CONSTANTS
    Threads,
    SignerTTL,    \* cache.signer_ttl_seconds
    CertTTL,      \* cache.cert_ttl_seconds
    Latency       \* longest time from the service's answer to the set of it,
                  \* and from the certificate to the set of the key

ASSUME CachesAssumption == SignerTTL \in Nat /\ CertTTL \in Nat /\ Latency \in Nat

Algs == {"RSA", "EC"}

\* cacheEntry: left is expiresAt - Now, -1 once it is in the past.
Entries(ttl) == [age : Nat, alg : Algs, left : -1..ttl]

\* No entry, or one that has expired: no read tells them apart.
NoEntry == [age |-> 0, alg |-> "RSA", left |-> -1]

(***************************************************************************)
(* A read.  want: the signer list, the certificate or the public key.      *)
(* kind: the key type the reader computed from the list, "none" until it   *)
(* has the list; a list read with a kind is getSignerBySignerID's.         *)
(*   signers   about to look in signerCache                                *)
(*   listing   ListSigners sent            listed   answered, not stored   *)
(*   key       about to look for the public key                            *)
(*   cert      about to look for the certificate                           *)
(*   fetching  GetCertificate sent         fetched  answered, not stored   *)
(*   derive    certificate at hand, public key not yet stored              *)
(*   done      the value read, age and alg, is handed to the caller        *)
(* wait is the time since the answer, or since derive.                     *)
(***************************************************************************)
Reads ==
    [pc : {"idle", "signers", "listing", "listed", "key", "cert", "fetching",
           "fetched", "derive", "done"},
     want : {"list", "cert", "key"}, kind : Algs \cup {"none"},
     age : Nat, alg : Algs, wait : Nat]

Read(pc, want, kind, age, alg, wait) ==
    [pc |-> pc, want |-> want, kind |-> kind, age |-> age, alg |-> alg, wait |-> wait]

NoRead == Read("idle", "list", "none", 0, "RSA", 0)

VARIABLES
    serverAlg,    \* the service: algorithm of the signer's key
    signers,      \* signerCache.entry
    cert,         \* certDataCache.certs[signer]
    pubKey,       \* certDataCache.pubKeys[signer]
    read

vars == <<serverAlg, signers, cert, pubKey, read>>
caches == <<signers, cert, pubKey>>

Init ==
    /\ serverAlg \in Algs
    /\ signers = NoEntry
    /\ cert = NoEntry
    /\ pubKey = NoEntry
    /\ read = [t \in Threads |-> NoRead]

\* time.Now().After(expiresAt): still good at expiresAt itself.
isExpired(e) == e.left < 0

Entry(r, ttl) == [age |-> r.age, alg |-> r.alg, left |-> ttl]

Goto(t, r) == read' = [read EXCEPT ![t] = r]

\* The read r goes on at pc with nothing at hand.
Look(r, pc, kind) == Read(pc, r.want, kind, 0, "RSA", 0)

\* The read r goes on at pc with v, a cache entry or an answer, at hand.
Hold(r, pc, v) == Read(pc, r.want, r.kind, v.age, v.alg, 0)

-----------------------------------------------------------------------------
(* getSigners, for a slot operation, for the signer of an attribute read,  *)
(* or again inside getCertificateData.                                     *)

Begin(t, want) ==
    /\ read[t] = NoRead
    /\ Goto(t, Read("signers", want, "none", 0, "RSA", 0))
    /\ UNCHANGED <<serverAlg, caches>>

\* Where a read goes once it has the list v.
WithSigners(t, v) ==
    LET r == read[t] IN
    Goto(t, IF r.want = "list" THEN Hold(r, "done", v)
            ELSE IF r.kind = "none" THEN Look(r, r.want, v.alg)
            ELSE Look(r, "fetching", r.kind))

SignersCached(t) ==
    /\ read[t].pc = "signers"
    /\ ~isExpired(signers)
    /\ WithSigners(t, signers)
    /\ UNCHANGED <<serverAlg, caches>>

SignersMissing(t) ==
    /\ read[t].pc = "signers"
    /\ isExpired(signers)
    /\ Goto(t, Look(read[t], "listing", read[t].kind))
    /\ UNCHANGED <<serverAlg, caches>>

\* The service answers a request.
Answer(t) ==
    /\ read[t].pc \in {"listing", "fetching"}
    /\ Goto(t, Hold(read[t], IF read[t].pc = "listing" THEN "listed" ELSE "fetched",
                    [age |-> 0, alg |-> serverAlg]))
    /\ UNCHANGED <<serverAlg, caches>>

\* Mutant: the list is kept for the certificates' time to live.
StoreSignersCertTTL(t) ==
    /\ read[t].pc = "listed"
    /\ signers' = Entry(read[t], CertTTL)
    /\ WithSigners(t, read[t])
    /\ UNCHANGED <<serverAlg, cert, pubKey>>

StoreSigners(t) ==
    /\ read[t].pc = "listed"
    /\ signers' = Entry(read[t], SignerTTL)
    /\ WithSigners(t, read[t])
    /\ UNCHANGED <<serverAlg, cert, pubKey>>

\* A read that fails ends in an error, but an attribute that cannot be read is
\* left empty, and GetAttributeValue goes on to the next with the signer it has.
GiveUp(t) ==
    \/ Goto(t, NoRead)
    \/ /\ read[t].want # "list" /\ read[t].kind # "none"
       /\ Goto(t, Look(read[t], read[t].want, read[t].kind))

\* A request fails, or its answer is lost or useless: no such signer, no
\* certificate, PEM that does not decode.
RequestFails(t) ==
    /\ read[t].pc \in {"listing", "listed", "fetching", "fetched"}
    /\ GiveUp(t)
    /\ UNCHANGED <<serverAlg, caches>>

-----------------------------------------------------------------------------
(* getPublicKeyData, getECPublicKeyData and getCertificateData.            *)

\* Mutant: the EC reader takes any cached key.
UsableAnyKind(kind) == ~isExpired(pubKey)

\* Only the EC reader looks at the algorithm of the cached key.
Usable(kind) == ~isExpired(pubKey) /\ (kind = "EC" => pubKey.alg = "EC")

KeyCached(t) ==
    /\ read[t].pc = "key"
    /\ Usable(read[t].kind)
    /\ Goto(t, Hold(read[t], "done", pubKey))
    /\ UNCHANGED <<serverAlg, caches>>

KeyMissing(t) ==
    /\ read[t].pc = "key"
    /\ ~Usable(read[t].kind)
    /\ Goto(t, Look(read[t], "cert", read[t].kind))
    /\ UNCHANGED <<serverAlg, caches>>

WithCert(t, v) ==
    Goto(t, Hold(read[t], IF read[t].want = "key" THEN "derive" ELSE "done", v))

\* Mutant: a hit starts the time to live again.
CertCachedRenews(t) ==
    /\ read[t].pc = "cert"
    /\ ~isExpired(cert)
    /\ WithCert(t, cert)
    /\ cert' = Entry(cert, CertTTL)
    /\ UNCHANGED <<serverAlg, signers, pubKey>>

CertCached(t) ==
    /\ read[t].pc = "cert"
    /\ ~isExpired(cert)
    /\ WithCert(t, cert)
    /\ UNCHANGED <<serverAlg, caches>>

CertMissing(t) ==
    /\ read[t].pc = "cert"
    /\ isExpired(cert)
    /\ Goto(t, Look(read[t], "signers", read[t].kind))
    /\ UNCHANGED <<serverAlg, caches>>

StoreCert(t) ==
    /\ read[t].pc = "fetched"
    /\ cert' = Entry(read[t], CertTTL)
    /\ WithCert(t, read[t])
    /\ UNCHANGED <<serverAlg, signers, pubKey>>

StoreKey(t) ==
    /\ read[t].pc = "derive"
    /\ read[t].alg = read[t].kind
    /\ pubKey' = Entry(read[t], CertTTL)
    /\ Goto(t, Hold(read[t], "done", read[t]))
    /\ UNCHANGED <<serverAlg, signers, cert>>

\* The certificate does not parse, holds a key of the other kind, or one on a
\* curve the module does not know: nothing is stored.
DeriveFails(t) ==
    /\ read[t].pc = "derive"
    /\ GiveUp(t)
    /\ UNCHANGED <<serverAlg, caches>>

\* GetAttributeValue reads the next attribute with the signer it has.
NextAttribute(t) ==
    /\ read[t].pc = "done"
    /\ read[t].want # "list"
    /\ Goto(t, Look(read[t], read[t].want, read[t].kind))
    /\ UNCHANGED <<serverAlg, caches>>

Return(t) ==
    /\ read[t].pc = "done"
    /\ Goto(t, NoRead)
    /\ UNCHANGED <<serverAlg, caches>>

-----------------------------------------------------------------------------
\* The signer is given a new certificate, for a key of the other algorithm.
Rekey ==
    /\ serverAlg' \in Algs \ {serverAlg}
    /\ UNCHANGED <<caches, read>>

\* A cache entry one unit of time later.
Aged(e) ==
    IF e.left <= 0 THEN NoEntry
    ELSE [age |-> e.age + 1, alg |-> e.alg, left |-> e.left - 1]

\* A read with a value it has not stored yet.
Pending(r) == r.pc \in {"listed", "fetched", "derive"}

\* Time passes, but no value waits longer than Latency to be stored.
Tick ==
    /\ \A t \in Threads : Pending(read[t]) => read[t].wait < Latency
    /\ signers' = Aged(signers)
    /\ cert' = Aged(cert)
    /\ pubKey' = Aged(pubKey)
    /\ read' = [t \in Threads |->
                  LET r == read[t] IN
                  IF Pending(r)
                  THEN Read(r.pc, r.want, r.kind, r.age + 1, r.alg, r.wait + 1)
                  ELSE r]
    /\ UNCHANGED serverAlg

Step(t) ==
    \/ \E want \in {"list", "cert", "key"} : Begin(t, want)
    \/ SignersCached(t) \/ SignersMissing(t) \/ Answer(t) \/ StoreSigners(t)
    \/ RequestFails(t) \/ KeyCached(t) \/ KeyMissing(t) \/ CertCached(t)
    \/ CertMissing(t) \/ StoreCert(t) \/ StoreKey(t) \/ DeriveFails(t)
    \/ NextAttribute(t) \/ Return(t)

Next == Rekey \/ Tick \/ \E t \in Threads : Step(t)

Spec == Init /\ [][Next]_vars

-----------------------------------------------------------------------------
(* Properties.                                                             *)

\* Every variable has its type; an entry lives at most its own cache's TTL.
TypeOK ==
    /\ serverAlg \in Algs
    /\ signers \in Entries(SignerTTL)
    /\ cert \in Entries(CertTTL)
    /\ pubKey \in Entries(CertTTL)
    /\ read \in [Threads -> Reads]

\* How old what a reader gets may be.  The key is derived from a certificate
\* that may be about to expire and is then kept for a whole TTL of its own.
MaxAge(want) ==
    CASE want = "list" -> SignerTTL + Latency
      [] want = "cert" -> CertTTL + Latency
      [] want = "key"  -> 2 * CertTTL + 2 * Latency

\* "Signer list cache duration", "Certificate data cache duration"
\* (README.md): whatever the interleaving of readers, late answers and sets, a
\* caller never gets a value that the service gave out longer than MaxAge ago.
ServedFresh ==
    \A t \in Threads : read[t].pc = "done" =>
        read[t].age <= MaxAge(read[t].want)

\* "getECPublicKeyData extracts EC public key components" (backend.go:887):
\* a reader that asked for EC components gets those of an EC key.
ECReadGivesEC ==
    \A t \in Threads :
        read[t].pc = "done" /\ read[t].want = "key" /\ read[t].kind = "EC" =>
            read[t].alg = "EC"

\* "getPublicKeyData extracts RSA public key components" (backend.go:841): a
\* reader that asked for modulus and exponent gets those of an RSA key.
RSAReadGivesRSA ==
    \A t \in Threads :
        read[t].pc = "done" /\ read[t].want = "key" /\ read[t].kind = "RSA" =>
            read[t].alg = "RSA"
=============================================================================
