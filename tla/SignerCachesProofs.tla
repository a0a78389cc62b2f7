-------------------------- MODULE SignerCachesProofs --------------------------
(***************************************************************************)
(* Proofs about SignerCaches for every number of threads and every value   *)
(* of the times to live and of the latency.                                *)
(***************************************************************************)
EXTENDS SignerCaches, TLAPS

\* An entry that can still be served will be at most b old when it expires.
GoodEntry(e, b) == e.left >= 0 => e.age + e.left <= b

\* What a read knows of the value it holds.
GoodRead(r) ==
    /\ r.pc \in {"cert", "fetching", "fetched"} => r.want # "list"
    /\ r.pc \in {"key", "derive"} => r.want = "key"
    /\ r.pc \in {"listed", "fetched"} => r.age = r.wait /\ r.wait <= Latency
    /\ r.pc = "derive" => r.wait <= Latency /\ r.age <= CertTTL + Latency + r.wait
    /\ r.pc = "done" => r.age <= MaxAge(r.want)
    /\ r.pc = "done" /\ r.want = "key" /\ r.kind = "EC" => r.alg = "EC"

CacheInv ==
    /\ TypeOK
    /\ GoodEntry(signers, SignerTTL + Latency)
    /\ GoodEntry(cert, CertTTL + Latency)
    /\ GoodEntry(pubKey, 2 * CertTTL + 2 * Latency)
    /\ \A t \in Threads : GoodRead(read[t])

-----------------------------------------------------------------------------
\* The bounds of MaxAge, one by one.
LEMMA MaxAgeIs ==
    /\ MaxAge("list") = SignerTTL + Latency
    /\ MaxAge("cert") = CertTTL + Latency
    /\ MaxAge("key") = 2 * CertTTL + 2 * Latency
  BY DEF MaxAge

\* A read that looks somewhere holds nothing and so is good.
LEMMA LookGood ==
    ASSUME NEW r \in Reads, NEW pc \in {"signers", "listing", "fetching", "key", "cert"},
           NEW kind \in Algs \cup {"none"},
           pc \in {"fetching", "cert"} => r.want # "list",
           pc = "key" => r.want = "key"
    PROVE  Look(r, pc, kind) \in Reads /\ GoodRead(Look(r, pc, kind))
<1> DEFINE l == Look(r, pc, kind)
<1>1. l \in Reads /\ l.pc = pc /\ l.want = r.want
  BY DEF Look, Read, Reads, Algs
<1> HIDE DEF l
<1> QED
  BY <1>1 DEF GoodRead, l

\* A read that takes a value: its fields.
LEMMA HoldFacts ==
    ASSUME NEW r \in Reads, NEW v, v.age \in Nat, v.alg \in Algs,
           NEW pc \in {"listed", "fetched", "derive", "done"}
    PROVE  /\ Hold(r, pc, v) \in Reads
           /\ Hold(r, pc, v).pc = pc
           /\ Hold(r, pc, v).want = r.want
           /\ Hold(r, pc, v).kind = r.kind
           /\ Hold(r, pc, v).age = v.age
           /\ Hold(r, pc, v).alg = v.alg
           /\ Hold(r, pc, v).wait = 0
  BY DEF Hold, Read, Reads

\* No read is good.
LEMMA NoReadGood == NoRead \in Reads /\ GoodRead(NoRead) /\ NoRead.pc = "idle"
<1>1. NoRead \in Reads /\ NoRead.pc = "idle"
  BY DEF NoRead, Read, Reads, Algs
<1> HIDE DEF NoRead
<1> QED
  BY <1>1 DEF GoodRead

\* A value stored in a cache is a good entry.
LEMMA EntryGood ==
    ASSUME NEW r \in Reads, NEW ttl \in Nat, NEW b \in Nat, r.age + ttl <= b
    PROVE  Entry(r, ttl) \in Entries(ttl) /\ GoodEntry(Entry(r, ttl), b)
<1> DEFINE e == Entry(r, ttl)
<1>1. e \in Entries(ttl) /\ e.age = r.age /\ e.left = ttl
  BY DEF Entry, Entries, Reads
<1> HIDE DEF e
<1> QED
  BY <1>1 DEF GoodEntry, e

\* Nil is a good entry.
LEMMA NoEntryGood ==
    ASSUME NEW ttl \in Nat, NEW b
    PROVE  NoEntry \in Entries(ttl) /\ GoodEntry(NoEntry, b)
<1>1. NoEntry \in Entries(ttl) /\ NoEntry.left = -1
  BY DEF NoEntry, Entries, Algs
<1> HIDE DEF NoEntry
<1> QED
  BY <1>1 DEF GoodEntry

\* Time preserves a good entry: it grows older and has less left.
LEMMA AgedGood ==
    ASSUME NEW ttl \in Nat, NEW b \in Nat, NEW e \in Entries(ttl), GoodEntry(e, b)
    PROVE  Aged(e) \in Entries(ttl) /\ GoodEntry(Aged(e), b)
<1>1. CASE e.left <= 0
  BY <1>1, NoEntryGood DEF Aged
<1>2. CASE ~(e.left <= 0)
  <2> DEFINE a == [age |-> e.age + 1, alg |-> e.alg, left |-> e.left - 1]
  <2>1. e.age \in Nat /\ e.alg \in Algs /\ e.left \in -1..ttl
    BY DEF Entries
  <2>2. e.age + 1 \in Nat /\ e.left - 1 \in -1..ttl
    BY <1>2, <2>1
  <2>3. a \in Entries(ttl) /\ a.age = e.age + 1 /\ a.left = e.left - 1
    BY <2>1, <2>2 DEF Entries
  <2>4. Aged(e) = a
    BY <1>2 DEF Aged
  <2> HIDE DEF a
  <2> QED
    BY <1>2, <2>1, <2>3, <2>4 DEF GoodEntry
<1> QED
  BY <1>1, <1>2

\* A step of one read that leaves the caches alone.
LEMMA ReadStep ==
    ASSUME CacheInv, NEW t \in Threads, NEW r \in Reads, GoodRead(r),
           Goto(t, r), UNCHANGED <<serverAlg, caches>>
    PROVE  CacheInv'
<1>1. UNCHANGED <<serverAlg, signers, cert, pubKey>>
  BY DEF caches
<1>2. read' = [read EXCEPT ![t] = r] /\ read \in [Threads -> Reads]
  BY DEF Goto, CacheInv, TypeOK
<1>3. read' \in [Threads -> Reads] /\ \A u \in Threads : GoodRead(read'[u])
  BY <1>2 DEF CacheInv
<1> QED
  BY <1>1, <1>3 DEF CacheInv, TypeOK

-----------------------------------------------------------------------------
\* The caches start empty and no read is under way.
LEMMA InitCacheInv == Init => CacheInv
<1> SUFFICES ASSUME Init PROVE CacheInv
  OBVIOUS
<1>1. TypeOK
  BY NoReadGood, NoEntryGood, CachesAssumption DEF Init, TypeOK
<1>2. \A t \in Threads : GoodRead(read[t])
  BY NoReadGood DEF Init
<1> QED
  BY <1>1, <1>2, NoEntryGood, CachesAssumption DEF Init, CacheInv

\* Where a read goes with a list of age at most SignerTTL + Latency is good.
LEMMA WithSignersGood ==
    ASSUME CacheInv, NEW t \in Threads, NEW v, v.age \in Nat, v.alg \in Algs,
           read[t].pc \in {"signers", "listed"},
           v.age <= SignerTTL + Latency, WithSigners(t, v)
    PROVE  \E r \in Reads : GoodRead(r) /\ Goto(t, r)
<1> DEFINE r == read[t]
<1>1. r \in Reads
  BY DEF CacheInv, TypeOK
<1>2. r.want \in {"list", "cert", "key"} /\ r.kind \in Algs \cup {"none"}
  BY <1>1 DEF Reads
<1> HIDE DEF r
<1>3. CASE r.want = "list"
  <2> DEFINE h == Hold(r, "done", v)
  <2>1. Goto(t, h)
    BY <1>3 DEF WithSigners, r
  <2>2. /\ h \in Reads /\ h.pc = "done" /\ h.want = "list" /\ h.age = v.age
    BY <1>1, <1>3, HoldFacts
  <2> HIDE DEF h
  <2>3. GoodRead(h)
    BY <2>2, MaxAgeIs DEF GoodRead
  <2> QED
    BY <2>1, <2>2, <2>3
<1>4. CASE r.want # "list" /\ r.kind = "none"
  <2>1. Goto(t, Look(r, r.want, v.alg))
    BY <1>4 DEF WithSigners, r
  <2> QED
    BY <1>1, <1>2, <1>4, <2>1, LookGood
<1>5. CASE r.want # "list" /\ r.kind # "none"
  <2>1. Goto(t, Look(r, "fetching", r.kind))
    BY <1>5 DEF WithSigners, r
  <2> QED
    BY <1>1, <1>2, <1>5, <2>1, LookGood
<1> QED
  BY <1>3, <1>4, <1>5

\* Where a read goes with a certificate of age at most CertTTL + Latency.
LEMMA WithCertGood ==
    ASSUME CacheInv, NEW t \in Threads, NEW v, v.age \in Nat, v.alg \in Algs,
           read[t].pc \in {"cert", "fetched"},
           v.age <= CertTTL + Latency, WithCert(t, v)
    PROVE  \E r \in Reads : GoodRead(r) /\ Goto(t, r)
<1> DEFINE r == read[t]
           pc == IF r.want = "key" THEN "derive" ELSE "done"
           h == Hold(r, pc, v)
<1>1. r \in Reads /\ GoodRead(r) /\ r.pc \in {"cert", "fetched"}
  BY DEF CacheInv, TypeOK
<1>2. r.want \in {"cert", "key"}
  BY <1>1 DEF GoodRead, Reads
<1>3. Goto(t, h)
  BY DEF WithCert
<1> HIDE DEF r
<1>4. /\ h \in Reads /\ h.pc = pc /\ h.want = r.want /\ h.age = v.age /\ h.wait = 0
  BY <1>1, HoldFacts
<1> HIDE DEF h
<1>5. CASE r.want = "key"
  BY <1>3, <1>4, <1>5, CachesAssumption DEF GoodRead
<1>6. CASE r.want = "cert"
  BY <1>3, <1>4, <1>6, MaxAgeIs DEF GoodRead
<1> QED
  BY <1>2, <1>5, <1>6

\* The caches' side of a step that stores nothing but in one cache.
LEMMA StoreStep ==
    ASSUME CacheInv, NEW t \in Threads, NEW r \in Reads, GoodRead(r), Goto(t, r),
           serverAlg' = serverAlg,
           signers' \in Entries(SignerTTL), GoodEntry(signers', SignerTTL + Latency),
           cert' \in Entries(CertTTL), GoodEntry(cert', CertTTL + Latency),
           pubKey' \in Entries(CertTTL), GoodEntry(pubKey', 2 * CertTTL + 2 * Latency)
    PROVE  CacheInv'
<1>1. read' = [read EXCEPT ![t] = r] /\ read \in [Threads -> Reads]
  BY DEF Goto, CacheInv, TypeOK
<1>2. read' \in [Threads -> Reads] /\ \A u \in Threads : GoodRead(read'[u])
  BY <1>1 DEF CacheInv
<1> QED
  BY <1>2 DEF CacheInv, TypeOK

\* Every step preserves the invariant.
LEMMA StepCacheInv == CacheInv /\ [Next]_vars => CacheInv'
<1> SUFFICES ASSUME CacheInv, [Next]_vars PROVE CacheInv'
  OBVIOUS
<1> USE CachesAssumption
<1>a. \A t \in Threads : read[t] \in Reads /\ GoodRead(read[t])
  BY DEF CacheInv, TypeOK
<1>b. \A t \in Threads :
         /\ read[t].age \in Nat /\ read[t].wait \in Nat /\ read[t].alg \in Algs
         /\ read[t].want \in {"list", "cert", "key"}
         /\ read[t].kind \in Algs \cup {"none"}
  BY <1>a DEF Reads
<1>c. /\ signers \in Entries(SignerTTL) /\ GoodEntry(signers, SignerTTL + Latency)
      /\ cert \in Entries(CertTTL) /\ GoodEntry(cert, CertTTL + Latency)
      /\ pubKey \in Entries(CertTTL) /\ GoodEntry(pubKey, 2 * CertTTL + 2 * Latency)
      /\ serverAlg \in Algs
  BY DEF CacheInv, TypeOK
<1>d. ASSUME NEW ttl \in Nat, NEW b \in Nat, NEW e \in Entries(ttl), GoodEntry(e, b),
             ~isExpired(e)
      PROVE  e.age \in Nat /\ e.alg \in Algs /\ e.age <= b
  BY <1>d DEF Entries, GoodEntry, isExpired
<1>1. ASSUME NEW t \in Threads, NEW want \in {"list", "cert", "key"}, Begin(t, want)
      PROVE  CacheInv'
  <2> DEFINE r == Read("signers", want, "none", 0, "RSA", 0)
  <2>1. r \in Reads /\ r.pc = "signers"
    BY DEF Read, Reads, Algs
  <2>2. Goto(t, r) /\ UNCHANGED <<serverAlg, caches>>
    BY <1>1 DEF Begin
  <2> HIDE DEF r
  <2>3. GoodRead(r)
    BY <2>1 DEF GoodRead
  <2> QED
    BY <2>1, <2>2, <2>3, ReadStep
<1>2. ASSUME NEW t \in Threads, SignersCached(t) PROVE CacheInv'
  <2>1. /\ WithSigners(t, signers) /\ read[t].pc = "signers" /\ ~isExpired(signers)
        /\ UNCHANGED <<serverAlg, caches>>
    BY <1>2 DEF SignersCached
  <2>2. signers.age \in Nat /\ signers.alg \in Algs /\ signers.age <= SignerTTL + Latency
    BY <1>c, <1>d, <2>1
  <2>3. PICK r \in Reads : GoodRead(r) /\ Goto(t, r)
    BY <2>1, <2>2, WithSignersGood
  <2> QED
    BY <2>1, <2>3, ReadStep
<1>3. ASSUME NEW t \in Threads, SignersMissing(t) \/ CertMissing(t) \/ KeyMissing(t)
      PROVE  CacheInv'
  <2>1. CASE SignersMissing(t)
    BY <1>a, <1>b, <2>1, LookGood, ReadStep DEF SignersMissing
  <2>2. CASE CertMissing(t)
    BY <1>a, <1>b, <2>2, LookGood, ReadStep DEF CertMissing
  <2>3. CASE KeyMissing(t)
    <3>1. read[t].want = "key"
      BY <1>a, <2>3 DEF KeyMissing, GoodRead
    <3> QED
      BY <1>a, <1>b, <2>3, <3>1, LookGood, ReadStep DEF KeyMissing
  <2> QED
    BY <1>3, <2>1, <2>2, <2>3
<1>4. ASSUME NEW t \in Threads, Answer(t) PROVE CacheInv'
  <2> DEFINE v == [age |-> 0, alg |-> serverAlg]
             pc == IF read[t].pc = "listing" THEN "listed" ELSE "fetched"
             h == Hold(read[t], pc, v)
  <2>1. /\ Goto(t, h) /\ UNCHANGED <<serverAlg, caches>>
        /\ read[t].pc \in {"listing", "fetching"}
    BY <1>4 DEF Answer
  <2>2. v.age = 0 /\ v.alg \in Algs
    BY <1>c
  <2>3. pc \in {"listed", "fetched"} /\ (pc = "fetched" => read[t].want # "list")
    BY <1>a, <2>1 DEF GoodRead
  <2> HIDE DEF v, pc
  <2>4. /\ h \in Reads /\ h.pc = pc /\ h.want = read[t].want /\ h.age = 0 /\ h.wait = 0
    <3>1. read[t] \in Reads /\ v.age \in Nat /\ pc \in {"listed", "fetched", "derive", "done"}
      BY <1>a, <2>2, <2>3
    <3> QED
      BY <2>2, <3>1 DEF Hold, Read, Reads
  <2> HIDE DEF h
  <2>5. GoodRead(h)
    BY <2>3, <2>4 DEF GoodRead
  <2> QED
    BY <2>1, <2>4, <2>5, ReadStep
<1>5. ASSUME NEW t \in Threads, StoreSigners(t) PROVE CacheInv'
  <2>1. /\ read[t].pc = "listed" /\ signers' = Entry(read[t], SignerTTL)
        /\ WithSigners(t, read[t]) /\ UNCHANGED <<serverAlg, cert, pubKey>>
    BY <1>5 DEF StoreSigners
  <2>2. read[t].age <= Latency
    BY <1>a, <2>1 DEF GoodRead
  <2>3. read[t].age + SignerTTL <= SignerTTL + Latency /\ read[t].age <= SignerTTL + Latency
    BY <1>b, <2>2
  <2>4. PICK r \in Reads : GoodRead(r) /\ Goto(t, r)
    BY <1>b, <2>1, <2>3, WithSignersGood
  <2>5. signers' \in Entries(SignerTTL) /\ GoodEntry(signers', SignerTTL + Latency)
    BY <1>a, <2>1, <2>3, EntryGood
  <2> QED
    BY <1>c, <2>1, <2>4, <2>5, StoreStep
<1>6. ASSUME NEW t \in Threads, RequestFails(t) \/ DeriveFails(t) \/ Return(t)
      PROVE  CacheInv'
  <2>1. CASE Goto(t, NoRead) /\ UNCHANGED <<serverAlg, caches>>
    BY <2>1, NoReadGood, ReadStep
  <2>2. CASE /\ read[t].want # "list" /\ read[t].kind # "none"
             /\ Goto(t, Look(read[t], read[t].want, read[t].kind))
             /\ UNCHANGED <<serverAlg, caches>>
    BY <1>a, <1>b, <2>2, LookGood, ReadStep
  <2> QED
    BY <1>6, <2>1, <2>2 DEF RequestFails, DeriveFails, Return, GiveUp
<1>7. ASSUME NEW t \in Threads, KeyCached(t) PROVE CacheInv'
  <2> DEFINE h == Hold(read[t], "done", pubKey)
  <2>1. /\ read[t].pc = "key" /\ ~isExpired(pubKey) /\ Goto(t, h)
        /\ read[t].kind = "EC" => pubKey.alg = "EC"
        /\ UNCHANGED <<serverAlg, caches>>
    BY <1>7 DEF KeyCached, Usable
  <2>2. /\ pubKey.age \in Nat /\ pubKey.alg \in Algs
        /\ pubKey.age <= 2 * CertTTL + 2 * Latency
    BY <1>c, <1>d, <2>1
  <2>3. /\ h \in Reads /\ h.pc = "done" /\ h.want = read[t].want
        /\ h.kind = read[t].kind /\ h.age = pubKey.age /\ h.alg = pubKey.alg
    <3>1. read[t] \in Reads
      BY <1>a
    <3> QED
      BY <2>2, <3>1 DEF Hold, Read, Reads
  <2>4. read[t].want = "key"
    BY <1>a, <2>1 DEF GoodRead
  <2> HIDE DEF h
  <2>5. GoodRead(h)
    BY <2>1, <2>2, <2>3, <2>4, MaxAgeIs DEF GoodRead
  <2> QED
    BY <2>1, <2>3, <2>5, ReadStep
<1>8. ASSUME NEW t \in Threads, CertCached(t) PROVE CacheInv'
  <2>1. /\ WithCert(t, cert) /\ read[t].pc = "cert" /\ ~isExpired(cert)
        /\ UNCHANGED <<serverAlg, caches>>
    BY <1>8 DEF CertCached
  <2>2. cert.age \in Nat /\ cert.alg \in Algs /\ cert.age <= CertTTL + Latency
    BY <1>c, <1>d, <2>1
  <2>3. PICK r \in Reads : GoodRead(r) /\ Goto(t, r)
    BY <2>1, <2>2, WithCertGood
  <2> QED
    BY <2>1, <2>3, ReadStep
<1>9. ASSUME NEW t \in Threads, StoreCert(t) PROVE CacheInv'
  <2>1. /\ read[t].pc = "fetched" /\ cert' = Entry(read[t], CertTTL)
        /\ WithCert(t, read[t]) /\ UNCHANGED <<serverAlg, signers, pubKey>>
    BY <1>9 DEF StoreCert
  <2>2. read[t].age <= Latency
    BY <1>a, <2>1 DEF GoodRead
  <2>3. read[t].age + CertTTL <= CertTTL + Latency /\ read[t].age <= CertTTL + Latency
    BY <1>b, <2>2
  <2>4. PICK r \in Reads : GoodRead(r) /\ Goto(t, r)
    BY <1>b, <2>1, <2>3, WithCertGood
  <2>5. cert' \in Entries(CertTTL) /\ GoodEntry(cert', CertTTL + Latency)
    BY <1>a, <2>1, <2>3, EntryGood
  <2> QED
    BY <1>c, <2>1, <2>4, <2>5, StoreStep
<1>10. ASSUME NEW t \in Threads, StoreKey(t) PROVE CacheInv'
  <2> DEFINE h == Hold(read[t], "done", read[t])
  <2>1. /\ read[t].pc = "derive" /\ read[t].alg = read[t].kind
        /\ pubKey' = Entry(read[t], CertTTL) /\ Goto(t, h)
        /\ UNCHANGED <<serverAlg, signers, cert>>
    BY <1>10 DEF StoreKey
  <2>2. read[t].want = "key" /\ read[t].age <= CertTTL + Latency + Latency
    BY <1>a, <1>b, <2>1 DEF GoodRead
  <2>3. /\ read[t].age + CertTTL <= 2 * CertTTL + 2 * Latency
        /\ read[t].age <= 2 * CertTTL + 2 * Latency
    BY <1>b, <2>2
  <2>4. /\ h \in Reads /\ h.pc = "done" /\ h.want = read[t].want
        /\ h.kind = read[t].kind /\ h.age = read[t].age /\ h.alg = read[t].alg
    <3>1. read[t] \in Reads /\ read[t].age \in Nat /\ read[t].alg \in Algs
      BY <1>a, <1>b
    <3> QED
      BY <3>1 DEF Hold, Read, Reads
  <2> HIDE DEF h
  <2>5. GoodRead(h)
    BY <2>1, <2>2, <2>3, <2>4, MaxAgeIs DEF GoodRead
  <2>6. pubKey' \in Entries(CertTTL) /\ GoodEntry(pubKey', 2 * CertTTL + 2 * Latency)
    BY <1>a, <2>1, <2>3, EntryGood
  <2> QED
    BY <1>c, <2>1, <2>4, <2>5, <2>6, StoreStep
<1>11. ASSUME NEW t \in Threads, NextAttribute(t) PROVE CacheInv'
  <2>1. read[t].want \in {"cert", "key"}
    BY <1>11, <1>b DEF NextAttribute
  <2> QED
    BY <1>11, <1>a, <1>b, <2>1, LookGood, ReadStep DEF NextAttribute
<1>12. CASE Rekey
  BY <1>12 DEF Rekey, caches, CacheInv, TypeOK
<1>13. CASE Tick
  <2>1. /\ signers' = Aged(signers) /\ cert' = Aged(cert) /\ pubKey' = Aged(pubKey)
        /\ serverAlg' = serverAlg
        /\ \A t \in Threads : Pending(read[t]) => read[t].wait < Latency
    BY <1>13 DEF Tick
  <2>2. ASSUME NEW r \in Reads, GoodRead(r), Pending(r), r.wait < Latency
        PROVE  LET a == Read(r.pc, r.want, r.kind, r.age + 1, r.alg, r.wait + 1)
               IN  a \in Reads /\ GoodRead(a)
    <3> DEFINE a == Read(r.pc, r.want, r.kind, r.age + 1, r.alg, r.wait + 1)
    <3>1. r.age \in Nat /\ r.wait \in Nat
      BY DEF Reads
    <3>2. /\ a \in Reads /\ a.pc = r.pc /\ a.want = r.want
          /\ a.age = r.age + 1 /\ a.wait = r.wait + 1
      BY <3>1 DEF Read, Reads
    <3>3. r.pc \in {"listed", "fetched", "derive"}
      BY <2>2 DEF Pending
    <3> HIDE DEF a
    <3>4. GoodRead(a)
      BY <2>2, <3>1, <3>2, <3>3 DEF GoodRead
    <3> QED
      BY <3>2, <3>4 DEF a
  <2>3. \A t \in Threads :
           read'[t] = IF Pending(read[t])
                      THEN Read(read[t].pc, read[t].want, read[t].kind,
                                read[t].age + 1, read[t].alg, read[t].wait + 1)
                      ELSE read[t]
    BY <1>13 DEF Tick
  <2>4. \A t \in Threads : read'[t] \in Reads /\ GoodRead(read'[t])
    BY <1>a, <2>1, <2>2, <2>3
  <2>5. read' \in [Threads -> Reads]
    <3>1. read' = [t \in Threads |-> read'[t]]
      BY <1>13 DEF Tick
    <3> QED
      BY <2>4, <3>1
  <2>6. /\ signers' \in Entries(SignerTTL) /\ GoodEntry(signers', SignerTTL + Latency)
        /\ cert' \in Entries(CertTTL) /\ GoodEntry(cert', CertTTL + Latency)
        /\ pubKey' \in Entries(CertTTL) /\ GoodEntry(pubKey', 2 * CertTTL + 2 * Latency)
    BY <1>c, <2>1, AgedGood
  <2> QED
    BY <1>c, <2>1, <2>4, <2>5, <2>6 DEF CacheInv, TypeOK
<1>14. CASE UNCHANGED vars
  BY <1>14 DEF vars, CacheInv, TypeOK
<1>15. ASSUME NEW t \in Threads, Step(t) PROVE CacheInv'
  BY <1>15, <1>1, <1>2, <1>3, <1>4, <1>5, <1>6, <1>7, <1>8, <1>9, <1>10, <1>11 DEF Step
<1> QED
  BY <1>12, <1>13, <1>14, <1>15 DEF Next

\* The inductive invariant holds in every reachable state.
THEOREM CacheInvariant == Spec => []CacheInv
  BY InitCacheInv, StepCacheInv, PTL DEF Spec

\* The caches hold well-typed entries that live at most their own TTL.
THEOREM CacheTypeCorrect == Spec => []TypeOK
<1>1. CacheInv => TypeOK
  BY DEF CacheInv
<1> QED
  BY <1>1, CacheInvariant, PTL

\* For any number of readers, TTLs and latency, no read is served a value the
\* service gave out longer than MaxAge ago.
THEOREM BoundedStaleness == Spec => []ServedFresh
<1>1. CacheInv => ServedFresh
  BY DEF CacheInv, GoodRead, ServedFresh
<1> QED
  BY <1>1, CacheInvariant, PTL

\* The EC reader never serves the components of another kind of key.
THEOREM ECReaderSound == Spec => []ECReadGivesEC
<1>1. CacheInv => ECReadGivesEC
  BY DEF CacheInv, GoodRead, ECReadGivesEC
<1> QED
  BY <1>1, CacheInvariant, PTL
=============================================================================
