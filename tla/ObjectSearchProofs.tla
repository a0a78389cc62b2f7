-------------------------- MODULE ObjectSearchProofs --------------------------
(***************************************************************************)
(* Proofs about ObjectSearch for every value of its constants: a search    *)
(* returns each match once, and a private key found by name signs as that  *)
(* signer as long as no signer changes its place.                          *)
(***************************************************************************)
EXTENDS ObjectSearch, SequenceTheorems, TLAPS

\* What the functions of a session rely on: a call belongs to an open session,
\* and so does an operation; a signature is on its way only within one.
CallOK(s) ==
    /\ call[s].pc # "idle" => sess[s].open
    /\ call[s].pc = "idle" => call[s] = NoCall
    /\ sess[s].signActive => sess[s].open
    /\ call[s].pc = "signed" => sess[s].signActive

\* The results of a search are what was asked for, each once, and the handles
\* given out are those up to the position reached.
SearchOK(s) ==
    sess[s].findActive =>
        /\ IsInjective(sess[s].findResults)
        /\ Range(sess[s].findResults) = want[s]
        /\ sess[s].findPos <= Len(sess[s].findResults)
        /\ handed[s] = SubSeq(sess[s].findResults, 1, sess[s].findPos)

SessionType(s) ==
    /\ sess[s] \in SessionRecs
    /\ call[s] \in Calls
    /\ want[s] \subseteq Objects
    /\ handed[s] \in Seq(Objects)

ListsType ==
    /\ service \in Lists /\ cached \in Lists
    /\ fresh \in BOOLEAN /\ moved \in BOOLEAN
    /\ keys \subseteq [slot : Slots, as : Signers \cup {NoSigner}]

Domains ==
    /\ sess = [s \in Sessions |-> sess[s]]
    /\ call = [s \in Sessions |-> call[s]]
    /\ want = [s \in Sessions |-> want[s]]
    /\ handed = [s \in Sessions |-> handed[s]]

SearchInv ==
    /\ ListsType /\ Domains
    /\ \A s \in Sessions : SessionType(s) /\ CallOK(s) /\ SearchOK(s)

-----------------------------------------------------------------------------
\* The signer, if one is named, is at that position.
At(list, slot, signer) == signer # NoSigner => SignerAt(list, slot) = signer

Prefix(s, t) == Len(s) <= Len(t) /\ \A i \in 1..Len(s) : s[i] = t[i]

\* Every position that was looked up by name, that a search found or that is
\* being signed with is the position of the signer named.
PlaceOK(s) ==
    /\ call[s].pc \in {"subject", "results"} =>
         At(service, sess[s].slotID, call[s].template.label)
    /\ sess[s].findActive =>
         \A i \in 1..Len(sess[s].findResults) :
            At(service, sess[s].findResults[i].slot, sess[s].findLabel)
    /\ sess[s].signActive => At(service, sess[s].signKeyIndex, sess[s].signAs)
    /\ call[s].pc = "signed" /\ sess[s].signAs # NoSigner =>
         call[s].signer = sess[s].signAs

\* A list taken from the cache begins the service's list.
PlaceInv ==
    /\ Prefix(cached, service)
    /\ \A key \in keys : At(service, key.slot, key.as)
    /\ \A s \in Sessions : PlaceOK(s)

SInv == SearchInv /\ (~moved => PlaceInv)

-----------------------------------------------------------------------------
(* Lemmas about sequences.                                                 *)

\* SeqOf bounds the length of sequences.
LEMMA BoundedSeqs ==
    ASSUME NEW S, NEW n \in Nat, NEW q
    PROVE  q \in SeqOf(S, n) <=> q \in Seq(S) /\ Len(q) <= n
<1>1. ASSUME q \in SeqOf(S, n) PROVE q \in Seq(S) /\ Len(q) <= n
  <2>1. PICK m \in 0..n : q \in [1..m -> S]
    BY <1>1 DEF SeqOf
  <2> QED
    BY <2>1
<1>2. ASSUME q \in Seq(S), Len(q) <= n PROVE q \in SeqOf(S, n)
  <2>1. Len(q) \in 0..n /\ q \in [1..Len(q) -> S]
    BY <1>2, LenProperties
  <2> QED
    BY <2>1 DEF SeqOf
<1> QED
  BY <1>1, <1>2

\* Three handles at most fit the results of a search.
LEMMA ShortResults ==
    ASSUME NEW q \in Seq(Objects), Len(q) <= 3 PROVE q \in SeqOf(Objects, 3)
<1>1. 3 \in Nat
  OBVIOUS
<1> QED
  BY <1>1, BoundedSeqs

\* The results of a search are a sequence of at most three handles.
LEMMA ResultFacts ==
    ASSUME NEW q \in SeqOf(Objects, 3)
    PROVE  /\ q \in Seq(Objects) /\ Len(q) \in Nat /\ Len(q) <= 3
           /\ \A i \in 1..Len(q) : q[i] \in Objects
<1>1. 3 \in Nat
  OBVIOUS
<1>2. q \in Seq(Objects) /\ Len(q) <= 3
  BY <1>1, BoundedSeqs
<1> QED
  BY <1>2, ElementOfSeq

\* No handles fit, too.
LEMMA NoResults == <<>> \in SeqOf(Objects, 3) /\ Len(<<>>) = 0
<1> DEFINE q == <<>>
<1>1. q \in Seq(Objects) /\ Len(q) = 0 /\ Len(q) <= 3
  OBVIOUS
<1> HIDE DEF q
<1>2. q \in SeqOf(Objects, 3)
  BY <1>1, ShortResults
<1> QED
  BY <1>1, <1>2 DEF q

\* A list of signers is a bounded sequence without repetition.
LEMMA ListFacts ==
    ASSUME NEW list
    PROVE  list \in Lists <=>
             /\ list \in Seq(Signers) /\ Len(list) <= MaxSlots
             /\ \A i, j \in 1..Len(list) : list[i] = list[j] => i = j
<1>1. list \in SeqOf(Signers, MaxSlots) <=> list \in Seq(Signers) /\ Len(list) <= MaxSlots
  BY BoundedSeqs, SearchAssumption
<1>2. ASSUME list \in Seq(Signers)
      PROVE  IsInjective(list) <=>
               \A i, j \in 1..Len(list) : list[i] = list[j] => i = j
  BY <1>2 DEF IsInjective
<1> QED
  BY <1>1, <1>2 DEF Lists

\* getSignerBySlot finds a signer only at a position of the list.
LEMMA SignerAtFacts ==
    ASSUME NEW list \in Lists, NEW slot \in Slots, SignerAt(list, slot) # NoSigner
    PROVE  /\ slot + 1 \in 1..Len(list) /\ SignerAt(list, slot) = list[slot + 1]
           /\ SignerAt(list, slot) \in Signers
<1>1. list \in Seq(Signers) /\ Len(list) \in Nat
  BY ListFacts
<1>2. slot \in Nat /\ slot < Len(list)
  BY SearchAssumption DEF SignerAt, Slots
<1>3. slot + 1 \in 1..Len(list)
  BY <1>1, <1>2
<1> QED
  BY <1>1, <1>2, <1>3, ElementOfSeq DEF SignerAt

\* What getSigners changes, and where the list it returns comes from.
LEMMA GetSignersFacts ==
    ASSUME ListsType, NEW list, getSigners(list)
    PROVE  /\ UNCHANGED <<service, moved>>
           /\ list \in {cached, service} /\ list \in Lists
           /\ cached' \in {cached, service} /\ cached' \in Lists
           /\ fresh' \in BOOLEAN
  BY DEF ListsType, getSigners, list_vars

\* A position looked up in a beginning of the service's list is the same there.
LEMMA PrefixAt ==
    ASSUME NEW list \in Lists, NEW all \in Lists, Prefix(list, all),
           NEW slot \in Slots, SignerAt(list, slot) # NoSigner
    PROVE  SignerAt(all, slot) = SignerAt(list, slot)
<1>1. slot + 1 \in 1..Len(list) /\ SignerAt(list, slot) = list[slot + 1]
  BY SignerAtFacts
<1>2. Len(list) \in Nat /\ Len(all) \in Nat /\ slot \in Nat
  BY ListFacts, SearchAssumption DEF Slots
<1>3. slot < Len(all) /\ all[slot + 1] = list[slot + 1]
  BY <1>1, <1>2 DEF Prefix
<1> QED
  BY <1>1, <1>3 DEF SignerAt

\* The least of two numbers.
LEMMA MinFacts ==
    ASSUME NEW a \in Nat, NEW b \in Nat
    PROVE  Min({a, b}) \in {a, b} /\ Min({a, b}) <= a /\ Min({a, b}) <= b
<1>1. \E x \in {a, b} : \A y \in {a, b} : x =< y
  OBVIOUS
<1> QED
  BY <1>1 DEF Min

\* A batch of C_FindObjects goes on where the handles given out so far end, and
\* not past the end of the results.
LEMMA BatchFacts ==
    ASSUME NEW r \in SessionRecs, r.findPos <= Len(r.findResults), NEW max \in Nat
    PROVE  /\ Batch(r, max) \in Seq(Objects)
           /\ r.findPos + Len(Batch(r, max)) \in 0..3
           /\ r.findPos + Len(Batch(r, max)) <= Len(r.findResults)
           /\ SubSeq(r.findResults, 1, r.findPos) \o Batch(r, max)
                = SubSeq(r.findResults, 1, r.findPos + Len(Batch(r, max)))
           /\ \A i \in 1..Len(Batch(r, max)) :
                /\ r.findPos + i \in 1..Len(r.findResults)
                /\ Batch(r, max)[i] = r.findResults[r.findPos + i]
<1> DEFINE q == r.findResults
           pos == r.findPos
           end == Min({pos + max, Len(q)})
           b == SubSeq(q, pos + 1, end)
<1>1. q \in Seq(Objects) /\ Len(q) \in Nat /\ Len(q) <= 3 /\ pos \in Nat /\ pos <= Len(q)
  <2>1. q \in SeqOf(Objects, 3) /\ pos \in 0..3
    BY DEF SessionRecs
  <2> QED
    BY <2>1, BoundedSeqs
<1>2. end \in pos..Len(q) /\ end \in Nat
  BY <1>1, MinFacts
<1> HIDE DEF end, q, pos
<1>3. \A i \in (pos + 1)..end : q[i] \in Objects
  BY <1>1, <1>2
<1>4. /\ b \in Seq(Objects)
      /\ Len(b) = IF pos + 1 <= end THEN end - (pos + 1) + 1 ELSE 0
      /\ \A i \in 1..(end - (pos + 1) + 1) : b[i] = q[pos + 1 + i - 1]
  BY <1>1, <1>2, <1>3, SubSeqProperties
<1>5. Len(b) = end - pos
  BY <1>1, <1>2, <1>4
<1>6. SubSeq(q, 1, pos) \o SubSeq(q, pos + 1, end) = SubSeq(q, 1, end)
  BY <1>1, <1>2, ConcatAdjacentSubSeq
<1>7. \A i \in 1..Len(b) : pos + i \in 1..Len(q) /\ b[i] = q[pos + i]
  BY <1>1, <1>2, <1>4, <1>5
<1> HIDE DEF b
<1>8. pos + Len(b) = end
  BY <1>1, <1>2, <1>5
<1>9. /\ b \in Seq(Objects) /\ pos + Len(b) \in 0..3 /\ pos + Len(b) <= Len(q)
      /\ SubSeq(q, 1, pos) \o b = SubSeq(q, 1, pos + Len(b))
  BY <1>1, <1>2, <1>4, <1>6, <1>8 DEF b
<1> QED
  BY <1>7, <1>9 DEF b, end, q, pos, Batch

\* The handles FindObjectsInit stores are those the template asks for.
LEMMA ByClassFacts ==
    ASSUME NEW class \in Types \cup {"any", "other"}, NEW slot \in Slots
    PROVE  /\ ByClass(class, slot) \in SeqOf(Objects, 3)
           /\ IsInjective(ByClass(class, slot))
           /\ Range(ByClass(class, slot))
                = {o \in Objects : o.slot = slot /\ class \in {"any", o.type}}
           /\ \A i \in 1..Len(ByClass(class, slot)) : ByClass(class, slot)[i].slot = slot
<1> DEFINE want_ == {o \in Objects : o.slot = slot /\ class \in {"any", o.type}}
<1>0. \A type \in Types : /\ Object(type, slot) \in Objects
                          /\ Object(type, slot).slot = slot
                          /\ Object(type, slot).type = type
  BY DEF Object, Objects
<1>1. \A o \in Objects : o.slot = slot => o = Object(o.type, slot) /\ o.type \in Types
  BY DEF Object, Objects
<1>2. CASE class \in Types
  <2>1. ByClass(class, slot) = <<Object(class, slot)>>
    BY <1>2 DEF ByClass, Types
  <2>2. <<Object(class, slot)>> \in Seq(Objects) /\ Len(<<Object(class, slot)>>) = 1
    BY <1>0, <1>2
  <2>3. want_ = {Object(class, slot)}
    BY <1>0, <1>1, <1>2 DEF Types
  <2>4. Range(<<Object(class, slot)>>) = {Object(class, slot)}
    BY DEF Range
  <2>5. IsInjective(<<Object(class, slot)>>)
    BY DEF IsInjective
  <2>6. \A i \in 1..1 : <<Object(class, slot)>>[i].slot = slot
    BY <1>0, <1>2
  <2> DEFINE q == <<Object(class, slot)>>
  <2>a. q \in Seq(Objects) /\ Len(q) <= 3
    BY <2>2
  <2> HIDE DEF q
  <2>7. q \in SeqOf(Objects, 3)
    BY <2>a, ShortResults
  <2> QED
    BY <2>1, <2>2, <2>3, <2>4, <2>5, <2>6, <2>7 DEF q
<1>3. CASE class = "other"
  <2>1. ByClass(class, slot) = <<>>
    BY <1>3 DEF ByClass, Types
  <2>2. want_ = {}
    BY <1>1, <1>3 DEF Types
  <2>3. Range(<<>>) = {} /\ IsInjective(<<>>)
    BY DEF Range, IsInjective
  <2>4. <<>> \in SeqOf(Objects, 3) /\ Len(<<>>) = 0
    BY NoResults
  <2> QED
    BY <2>1, <2>2, <2>3, <2>4
<1>4. CASE class = "any"
  <2> DEFINE a == Object("private", slot)
             b == Object("public", slot)
             c == Object("certificate", slot)
  <2>1. ByClass(class, slot) = <<a, b, c>>
    BY <1>4 DEF ByClass, Types
  <2>2. /\ a \in Objects /\ b \in Objects /\ c \in Objects
        /\ a.slot = slot /\ b.slot = slot /\ c.slot = slot
        /\ a # b /\ a # c /\ b # c
    BY <1>0 DEF Types
  <2>3. want_ = {a, b, c}
    BY <1>0, <1>1, <1>4 DEF Types
  <2> HIDE DEF a, b, c
  <2>4. <<a, b, c>> \in Seq(Objects) /\ Len(<<a, b, c>>) = 3
    BY <2>2
  <2>5. Range(<<a, b, c>>) = {a, b, c}
    BY DEF Range
  <2>6. IsInjective(<<a, b, c>>)
    BY <2>2 DEF IsInjective
  <2>7. \A i \in 1..3 : <<a, b, c>>[i].slot = slot
    BY <2>2
  <2> DEFINE q == <<a, b, c>>
  <2>a. q \in Seq(Objects) /\ Len(q) <= 3
    BY <2>4
  <2> HIDE DEF q
  <2>8. q \in SeqOf(Objects, 3)
    BY <2>a, ShortResults
  <2> QED
    BY <2>1, <2>3, <2>4, <2>5, <2>6, <2>7, <2>8 DEF q
<1> QED
  BY <1>2, <1>3, <1>4

\* Closed and NoCall have their types.
LEMMA RecordFacts ==
    /\ Closed \in SessionRecs
    /\ ~Closed.open /\ ~Closed.findActive /\ ~Closed.signActive
    /\ NoCall \in Calls /\ NoCall.pc = "idle"
<1>1. <<>> \in SeqOf(Objects, 3) /\ 0 \in Slots
  BY NoResults, SearchAssumption DEF Slots
<1>2. AnyObject \in Templates
  BY DEF AnyObject, Templates
<1> QED
  BY <1>1, <1>2 DEF Closed, SessionRecs, NoCall, Calls

-----------------------------------------------------------------------------
(* One session's step.                                                     *)

\* A step of session s touches no other session, and reads the lists only
\* through getSigners.
OnlySession(s) ==
    /\ UNCHANGED <<service, moved>>
    /\ cached' \in {cached, service} /\ cached' \in Lists /\ fresh' \in BOOLEAN
    /\ Domains'
    /\ \A u \in Sessions : u # s => /\ sess'[u] = sess[u] /\ call'[u] = call[u]
                                    /\ want'[u] = want[u] /\ handed'[u] = handed[u]

\* It is enough to look at the session that takes the step.
LEMMA SessionStep ==
    ASSUME SInv, NEW s \in Sessions, OnlySession(s),
           keys' \subseteq [slot : Slots, as : Signers \cup {NoSigner}],
           SessionType(s)', CallOK(s)', SearchOK(s)',
           ~moved => /\ PlaceOK(s)'
                     /\ \A key \in keys' : key \in keys \/ At(service, key.slot, key.as)
    PROVE  SInv'
<1> USE DEF SInv
<1>1. ListsType'
  BY DEF OnlySession, SearchInv, ListsType
<1>2. ASSUME NEW u \in Sessions, u # s
      PROVE  SessionType(u)' /\ CallOK(u)' /\ SearchOK(u)'
  BY <1>2 DEF OnlySession, SearchInv, SessionType, CallOK, SearchOK
<1>3. SearchInv'
  BY <1>1, <1>2 DEF SearchInv, OnlySession
<1>4. ASSUME ~moved' PROVE PlaceInv'
  <2>1. ~moved /\ PlaceInv /\ service' = service
    BY <1>4 DEF OnlySession
  <2>2. ASSUME NEW u \in Sessions, u # s PROVE PlaceOK(u)'
    BY <2>1, <2>2 DEF OnlySession, PlaceInv, PlaceOK
  <2>3. Prefix(cached, service)'
    <3>1. Prefix(service, service)
      BY ListFacts DEF Prefix, SearchInv, ListsType
    <3> QED
      BY <2>1, <3>1 DEF OnlySession, PlaceInv, Prefix
  <2>4. \A key \in keys' : At(service, key.slot, key.as)
    BY <2>1 DEF PlaceInv
  <2> QED
    BY <2>1, <2>2, <2>3, <2>4 DEF PlaceInv, At, SignerAt
<1> QED
  BY <1>3, <1>4

\* Each function of the module preserves the invariant.
LEMMA StepPreserves == ASSUME SInv, NEW s \in Sessions, Step(s) PROVE SInv'
<1>a. /\ SearchInv /\ ListsType /\ Domains
      /\ SessionType(s) /\ CallOK(s) /\ SearchOK(s)
      /\ ~moved => PlaceInv /\ PlaceOK(s)
  BY DEF SInv, SearchInv, PlaceInv
<1>b. sess[s] \in SessionRecs /\ call[s] \in Calls
  BY <1>a DEF SessionType
<1>c. cached \in Lists /\ fresh \in BOOLEAN
      /\ keys \subseteq [slot : Slots, as : Signers \cup {NoSigner}]
  BY <1>a DEF ListsType
<1>1. ASSUME NEW slot \in Slots, OpenSession(s, slot) PROVE SInv'
  <2> DEFINE r == [Closed EXCEPT !.open = TRUE, !.slotID = slot]
  <2>1. /\ r \in SessionRecs /\ r.open /\ ~r.findActive /\ ~r.signActive
    BY RecordFacts DEF SessionRecs
  <2>2. /\ UNCHANGED <<service, moved>>
        /\ cached' \in {cached, service} /\ cached' \in Lists /\ fresh' \in BOOLEAN
    BY <1>1, <1>a, GetSignersFacts DEF OpenSession
  <2>3. sess' = [sess EXCEPT ![s] = r] /\ UNCHANGED <<call, want, handed, keys>>
    BY <1>1 DEF OpenSession
  <2> HIDE DEF r
  <2>4. sess'[s] = r /\ OnlySession(s)
    BY <1>a, <2>2, <2>3 DEF OnlySession, Domains
  <2>5. call[s].pc = "idle"
    BY <1>1, <1>a DEF OpenSession, CallOK
  <2>6. SessionType(s)' /\ CallOK(s)' /\ SearchOK(s)' /\ PlaceOK(s)'
    BY <1>a, <2>1, <2>3, <2>4, <2>5 DEF SessionType, CallOK, SearchOK, PlaceOK
  <2> QED
    BY <1>c, <2>3, <2>4, <2>6, SessionStep
<1>2. ASSUME CloseSession(s) PROVE SInv'
  <2>1. /\ sess' = [sess EXCEPT ![s] = Closed] /\ UNCHANGED <<list_vars, call, keys>>
        /\ want' = [want EXCEPT ![s] = {}] /\ handed' = [handed EXCEPT ![s] = <<>>]
        /\ call[s].pc = "idle"
    BY <1>2, RecordFacts DEF CloseSession
  <2>2. OnlySession(s) /\ sess'[s] = Closed /\ want'[s] = {} /\ handed'[s] = <<>>
    BY <1>a, <1>c, <2>1 DEF OnlySession, Domains, list_vars
  <2>3. SessionType(s)' /\ CallOK(s)' /\ SearchOK(s)' /\ PlaceOK(s)'
    BY <1>a, <2>1, <2>2, RecordFacts DEF SessionType, CallOK, SearchOK, PlaceOK
  <2> QED
    BY <1>c, <2>1, <2>2, <2>3, SessionStep
<1>3. ASSUME NEW template \in Templates, FindObjectsInit(s, template) PROVE SInv'
  <2> DEFINE c == [NoCall EXCEPT !.pc = "label", !.template = template]
  <2>1. c \in Calls /\ c.pc = "label"
    BY RecordFacts DEF Calls
  <2>2. /\ call' = [call EXCEPT ![s] = c] /\ UNCHANGED <<list_vars, sess, want, handed, keys>>
        /\ sess[s].open
    BY <1>3 DEF FindObjectsInit
  <2> HIDE DEF c
  <2>3. OnlySession(s) /\ call'[s] = c
    BY <1>a, <1>c, <2>2 DEF OnlySession, Domains, list_vars
  <2>4. SessionType(s)' /\ CallOK(s)' /\ SearchOK(s)' /\ (~moved => PlaceOK(s)')
    BY <1>a, <2>1, <2>2, <2>3
       DEF SessionType, CallOK, SearchOK, PlaceOK, list_vars
  <2> QED
    BY <1>c, <2>2, <2>3, <2>4, SessionStep
<1>4. ASSUME NEW results \in SeqOf(Objects, 3), NEW wanted \in SUBSET Objects,
             Results(s, results, wanted), IsInjective(results), Range(results) = wanted,
             UNCHANGED <<service, moved, keys>>,
             cached' \in {cached, service}, cached' \in Lists, fresh' \in BOOLEAN,
             ~moved => \A i \in 1..Len(results) :
                         At(service, results[i].slot, call[s].template.label)
      PROVE SInv'
  <2> DEFINE label == call[s].template.label
             r == [sess[s] EXCEPT !.findActive = TRUE, !.findResults = results,
                                  !.findPos = 0, !.findLabel = label]
  <2>1. label \in Signers \cup {NoSigner} /\ Len(results) \in Nat
    BY <1>b, BoundedSeqs DEF Calls, Templates
  <2>2. /\ r \in SessionRecs /\ r.findActive /\ r.findResults = results
        /\ r.findPos = 0 /\ r.findLabel = label /\ r.open = sess[s].open
        /\ r.signActive = sess[s].signActive /\ r.signAs = sess[s].signAs
        /\ r.signKeyIndex = sess[s].signKeyIndex
    <3>1. 0 \in 0..3
      OBVIOUS
    <3>2. r \in SessionRecs
      BY <1>b, <2>1, <3>1 DEF SessionRecs
    <3>3. r.findActive /\ r.findResults = results
      BY <1>b DEF SessionRecs
    <3>4. r.findPos = 0 /\ r.findLabel = label
      BY <1>b DEF SessionRecs
    <3>5. r.open = sess[s].open /\ r.signActive = sess[s].signActive
      BY <1>b DEF SessionRecs
    <3>6. r.signAs = sess[s].signAs /\ r.signKeyIndex = sess[s].signKeyIndex
      BY <1>b DEF SessionRecs
    <3> HIDE DEF r
    <3> QED
      BY <3>2, <3>3, <3>4, <3>5, <3>6
  <2>3. /\ sess' = [sess EXCEPT ![s] = r] /\ want' = [want EXCEPT ![s] = wanted]
        /\ handed' = [handed EXCEPT ![s] = <<>>] /\ call' = [call EXCEPT ![s] = NoCall]
    BY <1>4, <1>a DEF Results, Return, Domains
  <2> HIDE DEF r, label
  <2>4. /\ OnlySession(s) /\ sess'[s] = r /\ want'[s] = wanted /\ handed'[s] = <<>>
        /\ call'[s] = NoCall
    BY <1>4, <1>a, <2>3 DEF OnlySession, Domains
  <2>5. SubSeq(results, 1, 0) = <<>> /\ <<>> \in Seq(Objects)
    BY SubSeqEmpty
  <2>6. SessionType(s)' /\ CallOK(s)' /\ SearchOK(s)'
    BY <1>4, <1>a, <2>1, <2>2, <2>4, <2>5, RecordFacts
       DEF SessionType, CallOK, SearchOK
  <2>7. ~moved => PlaceOK(s)'
    BY <1>4, <1>a, <2>2, <2>4, RecordFacts DEF PlaceOK, label
  <2> QED
    BY <1>4, <1>c, <2>4, <2>6, <2>7, SessionStep
<1>5. ASSUME setEmptyFindResult(s), UNCHANGED <<service, moved, keys>>,
             cached' \in {cached, service}, cached' \in Lists, fresh' \in BOOLEAN
      PROVE SInv'
  <2> DEFINE q == <<>>
  <2>1. /\ q \in SeqOf(Objects, 3) /\ IsInjective(q) /\ Range(q) = {} /\ Len(q) = 0
        /\ {} \in SUBSET Objects /\ Results(s, q, {})
    BY <1>5, NoResults DEF IsInjective, Range, setEmptyFindResult
  <2> HIDE DEF q
  <2> QED
    BY <1>4, <1>5, <2>1
<1>6. ASSUME call[s].pc # "idle", Return(s), UNCHANGED <<sess, want, handed, keys>>,
             UNCHANGED <<service, moved>>,
             cached' \in {cached, service}, cached' \in Lists, fresh' \in BOOLEAN
      PROVE SInv'
  <2>1. OnlySession(s) /\ call'[s] = NoCall
    BY <1>6, <1>a DEF Return, OnlySession, Domains
  <2>2. SessionType(s)' /\ CallOK(s)' /\ SearchOK(s)' /\ (~moved => PlaceOK(s)')
    BY <1>6, <1>a, <2>1, RecordFacts DEF SessionType, CallOK, SearchOK, PlaceOK
  <2> QED
    BY <1>6, <1>c, <2>1, <2>2, SessionStep
<1>7. ASSUME NEW pc \in {"subject", "results"}, Goto(s, pc),
             call[s].pc \in {"label", "subject"},
             UNCHANGED <<sess, want, handed, keys>>, UNCHANGED <<service, moved>>,
             cached' \in {cached, service}, cached' \in Lists, fresh' \in BOOLEAN,
             ~moved => At(service, sess[s].slotID, call[s].template.label)
      PROVE SInv'
  <2> DEFINE c == [call[s] EXCEPT !.pc = pc]
  <2>1. c \in Calls /\ c.pc = pc /\ c.template = call[s].template
    BY <1>b DEF Calls
  <2>2. call' = [call EXCEPT ![s] = c]
    BY <1>7, <1>a DEF Goto, Domains
  <2> HIDE DEF c
  <2>3. OnlySession(s) /\ call'[s] = c
    BY <1>7, <1>a, <2>2 DEF OnlySession, Domains
  <2>4. SessionType(s)' /\ CallOK(s)' /\ SearchOK(s)'
    BY <1>7, <1>a, <2>1, <2>3 DEF SessionType, CallOK, SearchOK
  <2>5. ~moved => PlaceOK(s)'
    BY <1>7, <1>a, <2>1, <2>3 DEF PlaceOK
  <2> QED
    BY <1>7, <1>c, <2>3, <2>4, <2>5, SessionStep
<1>8. ASSUME NEW named \in Signers, NEW pc \in {"subject", "results"},
             Compare(s, named, pc), call[s].pc \in {"label", "subject"}, UNCHANGED keys,
             \/ named = call[s].template.label
             \/ ~moved => At(service, sess[s].slotID, call[s].template.label)
      PROVE SInv'
  <2> DEFINE slot == sess[s].slotID
  <2>1. PICK list \in Lists :
            /\ getSigners(list)
            /\ \/ /\ SignerAt(list, slot) = named
                  /\ Goto(s, pc)
                  /\ UNCHANGED <<sess, want, handed>>
               \/ setEmptyFindResult(s)
               \/ /\ Return(s)
                  /\ UNCHANGED <<sess, want, handed>>
    BY <1>8 DEF Compare
  <2>2. /\ UNCHANGED <<service, moved>> /\ list \in {cached, service}
        /\ cached' \in {cached, service} /\ cached' \in Lists /\ fresh' \in BOOLEAN
    BY <1>a, <2>1, GetSignersFacts
  <2>3. CASE SignerAt(list, slot) = named /\ Goto(s, pc) /\ UNCHANGED <<sess, want, handed>>
    <3>1. ASSUME ~moved PROVE At(service, slot, named)
      <4>1. slot \in Slots /\ service \in Lists /\ named # NoSigner
        BY <1>a, <1>b, SearchAssumption DEF SessionRecs, ListsType
      <4>2. list = service \/ Prefix(list, service)
        BY <1>a, <2>2, <3>1 DEF PlaceInv
      <4>3. SignerAt(service, slot) = named
        BY <2>3, <4>1, <4>2, PrefixAt
      <4> QED
        BY <4>3 DEF At
    <3>2. ~moved => At(service, slot, call[s].template.label)
      BY <1>8, <3>1
    <3> QED
      BY <1>7, <1>8, <2>2, <2>3, <3>2
  <2>4. CASE setEmptyFindResult(s)
    BY <1>5, <1>8, <2>2, <2>4
  <2>5. CASE Return(s) /\ UNCHANGED <<sess, want, handed>>
    BY <1>6, <1>8, <2>2, <2>5
  <2> QED
    BY <2>1, <2>3, <2>4, <2>5
<1>9. ASSUME MatchLabel(s) PROVE SInv'
  <2>1. call[s].pc = "label" /\ UNCHANGED keys
        /\ call[s].template.label \in Signers \cup {NoSigner}
    BY <1>9, <1>b DEF MatchLabel, Calls, Templates
  <2>2. CASE call[s].template.label = NoSigner /\ Skip(s, "subject")
    BY <1>7, <1>c, <2>1, <2>2 DEF Skip, list_vars, At
  <2>3. CASE /\ call[s].template.label # NoSigner
             /\ Compare(s, call[s].template.label, "subject")
    BY <1>8, <2>1, <2>3
  <2> QED
    BY <1>9, <2>2, <2>3 DEF MatchLabel
<1>10. ASSUME MatchSubject(s) PROVE SInv'
  <2>1. call[s].pc = "subject" /\ UNCHANGED keys
        /\ call[s].template.subject \in Signers \cup {NoSigner}
    BY <1>10, <1>b DEF MatchSubject, Calls, Templates
  <2>2. ~moved => At(service, sess[s].slotID, call[s].template.label)
    BY <1>a, <2>1 DEF PlaceOK
  <2>3. CASE call[s].template.subject = NoSigner /\ Skip(s, "results")
    BY <1>7, <1>c, <2>1, <2>2, <2>3 DEF Skip, list_vars
  <2>4. CASE /\ call[s].template.subject # NoSigner
             /\ Compare(s, call[s].template.subject, "results")
    BY <1>8, <2>1, <2>2, <2>4
  <2> QED
    BY <1>10, <2>3, <2>4 DEF MatchSubject
<1>11. ASSUME NoCertificate(s) PROVE SInv'
  <2>1. PICK list \in Lists : getSigners(list)
    BY <1>11 DEF NoCertificate
  <2> QED
    BY <1>5, <1>11, <1>a, <2>1, GetSignersFacts DEF NoCertificate
<1>12. ASSUME ListFails(s) PROVE SInv'
  BY <1>6, <1>12, <1>c DEF ListFails, list_vars
<1>13. ASSUME StoreResults(s) PROVE SInv'
  <2> DEFINE class == call[s].template.class
             slot == sess[s].slotID
             results == ByClass(class, slot)
             wanted == {o \in Objects : o.slot = slot /\ class \in {"any", o.type}}
  <2>1. class \in Types \cup {"any", "other"} /\ slot \in Slots
    BY <1>b DEF Calls, Templates, SessionRecs
  <2>2. /\ results \in SeqOf(Objects, 3) /\ IsInjective(results)
        /\ Range(results) = wanted
        /\ \A i \in 1..Len(results) : results[i].slot = slot
    BY <2>1, ByClassFacts
  <2>3. ~moved => At(service, slot, call[s].template.label)
    BY <1>13, <1>a DEF StoreResults, PlaceOK
  <2>4. /\ Results(s, results, wanted) /\ UNCHANGED <<list_vars, keys>>
        /\ wanted \in SUBSET Objects
    BY <1>13 DEF StoreResults
  <2> HIDE DEF results, wanted
  <2> QED
    BY <1>4, <1>c, <2>2, <2>3, <2>4 DEF list_vars
<1>14. ASSUME NEW max \in MaxFinds, FindObjects(s, max) PROVE SInv'
  <2> DEFINE b == Batch(sess[s], max)
             pos == sess[s].findPos
             n == pos + Len(b)
             r == [sess[s] EXCEPT !.findPos = @ + Len(b)]
             new == {[slot |-> o.slot, as |-> sess[s].findLabel] :
                        o \in {q \in Range(b) : q.type = "private"}}
  <2>1. /\ call[s] = NoCall /\ sess[s].findActive /\ max \in Nat
        /\ pos <= Len(sess[s].findResults)
    BY <1>14, <1>a, SearchAssumption DEF FindObjects, SearchOK
  <2>2. /\ b \in Seq(Objects) /\ n \in 0..3 /\ n <= Len(sess[s].findResults)
        /\ SubSeq(sess[s].findResults, 1, pos) \o b = SubSeq(sess[s].findResults, 1, n)
        /\ \A i \in 1..Len(b) : /\ pos + i \in 1..Len(sess[s].findResults)
                                 /\ b[i] = sess[s].findResults[pos + i]
    BY <1>b, <2>1, BatchFacts
  <2> HIDE DEF b
  <2>3. /\ r \in SessionRecs /\ r.findPos = n /\ r.findActive = sess[s].findActive
        /\ r.findResults = sess[s].findResults /\ r.findLabel = sess[s].findLabel
        /\ r.open = sess[s].open /\ r.slotID = sess[s].slotID
        /\ r.signActive = sess[s].signActive /\ r.signAs = sess[s].signAs
        /\ r.signKeyIndex = sess[s].signKeyIndex
    BY <1>b, <2>2 DEF SessionRecs
  <2>4. /\ sess' = [sess EXCEPT ![s] = r] /\ handed' = [handed EXCEPT ![s] = @ \o b]
        /\ keys' = keys \cup new /\ UNCHANGED <<list_vars, call, want>>
    BY <1>14, <1>a DEF FindObjects, Found, Domains, b
  <2>5. ASSUME NEW o \in Range(b)
        PROVE  o \in Objects /\ (~moved => At(service, o.slot, sess[s].findLabel))
    <3>1. PICK i \in 1..Len(b) : o = b[i]
      BY <2>2, RangeEquality
    <3>2. o \in Objects
      BY <2>2, <3>1, ElementOfSeq
    <3> QED
      BY <1>a, <2>1, <2>2, <3>1, <3>2 DEF PlaceOK
  <2>6. \A key \in new : /\ key \in [slot : Slots, as : Signers \cup {NoSigner}]
                         /\ ~moved => At(service, key.slot, key.as)
    <3>1. sess[s].findLabel \in Signers \cup {NoSigner}
      BY <1>b DEF SessionRecs
    <3> QED
      BY <2>5, <3>1 DEF Objects
  <2> HIDE DEF r, new, n
  <2>7. OnlySession(s) /\ sess'[s] = r /\ handed'[s] = handed[s] \o b
    BY <1>a, <1>c, <2>4 DEF OnlySession, Domains, list_vars
  <2>8. handed[s] = SubSeq(sess[s].findResults, 1, pos) /\ handed[s] \in Seq(Objects)
    BY <1>a, <2>1 DEF SearchOK, SessionType
  <2>9. handed'[s] = SubSeq(sess[s].findResults, 1, n) /\ handed'[s] \in Seq(Objects)
    BY <2>2, <2>7, <2>8, ConcatProperties
  <2>10. SessionType(s)' /\ CallOK(s)' /\ SearchOK(s)'
    BY <1>a, <2>2, <2>3, <2>4, <2>7, <2>9 DEF SessionType, CallOK, SearchOK
  <2>11. ~moved => PlaceOK(s)'
    BY <1>a, <2>3, <2>4, <2>7 DEF PlaceOK, list_vars
  <2> QED
    BY <1>c, <2>4, <2>6, <2>7, <2>10, <2>11, SessionStep
<1>15. ASSUME FindObjectsFinal(s) PROVE SInv'
  <2> DEFINE r == [sess[s] EXCEPT !.findActive = FALSE, !.findResults = <<>>,
                                  !.findPos = 0, !.findLabel = NoSigner]
  <2>1. /\ r \in SessionRecs /\ ~r.findActive /\ r.open = sess[s].open
        /\ r.slotID = sess[s].slotID
        /\ r.signActive = sess[s].signActive /\ r.signAs = sess[s].signAs
        /\ r.signKeyIndex = sess[s].signKeyIndex
    <3>1. 0 \in 0..3 /\ NoSigner \in Signers \cup {NoSigner}
      OBVIOUS
    <3>2. r \in SessionRecs
      BY <1>b, <3>1, NoResults DEF SessionRecs
    <3>3. ~r.findActive
      BY <1>b DEF SessionRecs
    <3>4. r.open = sess[s].open /\ r.slotID = sess[s].slotID
      BY <1>b DEF SessionRecs
    <3>5. r.signActive = sess[s].signActive /\ r.signAs = sess[s].signAs
      BY <1>b DEF SessionRecs
    <3>6. r.signKeyIndex = sess[s].signKeyIndex
      BY <1>b DEF SessionRecs
    <3> HIDE DEF r
    <3> QED
      BY <3>2, <3>3, <3>4, <3>5, <3>6
  <2>2. /\ sess' = [sess EXCEPT ![s] = r] /\ UNCHANGED <<list_vars, call, keys>>
        /\ want' = [want EXCEPT ![s] = {}] /\ handed' = [handed EXCEPT ![s] = <<>>]
    BY <1>15 DEF FindObjectsFinal
  <2> HIDE DEF r
  <2>3. OnlySession(s) /\ sess'[s] = r /\ want'[s] = {} /\ handed'[s] = <<>>
    BY <1>a, <1>c, <2>2 DEF OnlySession, Domains, list_vars
  <2>4. SessionType(s)' /\ CallOK(s)' /\ SearchOK(s)'
    BY <1>a, <2>1, <2>2, <2>3 DEF SessionType, CallOK, SearchOK
  <2>5. ~moved => PlaceOK(s)'
    BY <1>a, <2>1, <2>2, <2>3 DEF PlaceOK, list_vars
  <2> QED
    BY <1>c, <2>2, <2>3, <2>4, <2>5, SessionStep
<1>16. ASSUME NEW key \in keys, SignInit(s, key) PROVE SInv'
  <2> DEFINE r == [sess[s] EXCEPT !.signActive = TRUE, !.signKeyIndex = key.slot,
                                  !.signAs = key.as]
  <2>1. /\ r \in SessionRecs /\ r.open = sess[s].open /\ r.slotID = sess[s].slotID
        /\ r.findActive = sess[s].findActive /\ r.findResults = sess[s].findResults
        /\ r.findPos = sess[s].findPos /\ r.findLabel = sess[s].findLabel
        /\ r.signActive /\ r.signAs = key.as /\ r.signKeyIndex = key.slot
    BY <1>b, <1>c DEF SessionRecs
  <2>2. /\ sess' = [sess EXCEPT ![s] = r] /\ UNCHANGED <<list_vars, call, want, handed, keys>>
        /\ sess[s].open /\ call[s].pc = "idle"
    BY <1>16, RecordFacts DEF SignInit
  <2> HIDE DEF r
  <2>3. OnlySession(s) /\ sess'[s] = r
    BY <1>a, <1>c, <2>2 DEF OnlySession, Domains, list_vars
  <2>4. SessionType(s)' /\ CallOK(s)' /\ SearchOK(s)'
    BY <1>a, <2>1, <2>2, <2>3 DEF SessionType, CallOK, SearchOK
  <2>5. ~moved => At(service, key.slot, key.as)
    BY <1>a DEF PlaceInv
  <2>6. ~moved => PlaceOK(s)'
    BY <1>a, <2>1, <2>2, <2>3, <2>5 DEF PlaceOK, list_vars
  <2> QED
    BY <1>c, <2>2, <2>3, <2>4, <2>6, SessionStep
<1>17. ASSUME Ended(s), \/ UNCHANGED call /\ call[s] = NoCall
                        \/ Return(s),
              UNCHANGED <<service, moved, want, handed, keys>>,
              cached' \in {cached, service}, cached' \in Lists, fresh' \in BOOLEAN
       PROVE SInv'
  <2> DEFINE r == [sess[s] EXCEPT !.signActive = FALSE, !.signKeyIndex = 0,
                                  !.signAs = NoSigner]
  <2>1. /\ r \in SessionRecs /\ r.open = sess[s].open /\ r.slotID = sess[s].slotID
        /\ r.findActive = sess[s].findActive /\ r.findResults = sess[s].findResults
        /\ r.findPos = sess[s].findPos /\ r.findLabel = sess[s].findLabel
        /\ ~r.signActive
    <3>1. 0 \in Slots /\ NoSigner \in Signers \cup {NoSigner}
      BY SearchAssumption DEF Slots
    <3>2. r \in SessionRecs
      BY <1>b, <3>1 DEF SessionRecs
    <3>3. ~r.signActive
      BY <1>b DEF SessionRecs
    <3>4. r.open = sess[s].open /\ r.slotID = sess[s].slotID
      BY <1>b DEF SessionRecs
    <3>5. r.findActive = sess[s].findActive /\ r.findResults = sess[s].findResults
      BY <1>b DEF SessionRecs
    <3>6. r.findPos = sess[s].findPos /\ r.findLabel = sess[s].findLabel
      BY <1>b DEF SessionRecs
    <3> HIDE DEF r
    <3> QED
      BY <3>2, <3>3, <3>4, <3>5, <3>6
  <2>2. sess' = [sess EXCEPT ![s] = r]
    BY <1>17 DEF Ended
  <2> HIDE DEF r
  <2>3. OnlySession(s) /\ sess'[s] = r /\ call'[s] = NoCall
    BY <1>17, <1>a, <2>2 DEF OnlySession, Domains, Return
  <2>4. SessionType(s)' /\ CallOK(s)' /\ SearchOK(s)'
    BY <1>17, <1>a, <2>1, <2>3, RecordFacts DEF SessionType, CallOK, SearchOK
  <2>5. ~moved => PlaceOK(s)'
    BY <1>17, <1>a, <2>1, <2>3, RecordFacts DEF PlaceOK
  <2> QED
    BY <1>17, <1>c, <2>3, <2>4, <2>5, SessionStep
<1>18. ASSUME Sign(s) PROVE SInv'
  <2> DEFINE slot == sess[s].signKeyIndex
  <2>1. PICK list \in Lists :
            /\ getSigners(list)
            /\ \/ /\ SignerAt(list, slot) # NoSigner
                  /\ call' = [call EXCEPT ![s] = [NoCall EXCEPT !.pc = "signed",
                                                    !.signer = SignerAt(list, slot)]]
                  /\ UNCHANGED sess
               \/ Ended(s) /\ UNCHANGED call
    BY <1>18 DEF Sign
  <2>2. /\ UNCHANGED <<service, moved>> /\ list \in {cached, service}
        /\ cached' \in {cached, service} /\ cached' \in Lists /\ fresh' \in BOOLEAN
        /\ UNCHANGED <<want, handed, keys>> /\ call[s] = NoCall /\ sess[s].signActive
    BY <1>18, <1>a, <2>1, GetSignersFacts DEF Sign
  <2>3. CASE Ended(s) /\ UNCHANGED call
    BY <1>17, <2>2, <2>3
  <2>4. CASE /\ SignerAt(list, slot) # NoSigner
             /\ call' = [call EXCEPT ![s] = [NoCall EXCEPT !.pc = "signed",
                                               !.signer = SignerAt(list, slot)]]
             /\ UNCHANGED sess
    <3> DEFINE c == [NoCall EXCEPT !.pc = "signed", !.signer = SignerAt(list, slot)]
    <3>1. slot \in Slots /\ SignerAt(list, slot) \in Signers
      BY <1>b, <2>4, SignerAtFacts DEF SessionRecs
    <3>2. c \in Calls /\ c.pc = "signed" /\ c.signer = SignerAt(list, slot)
      BY <3>1, RecordFacts DEF Calls
    <3> HIDE DEF c
    <3>3. OnlySession(s) /\ call'[s] = c
      BY <1>a, <2>2, <2>4 DEF OnlySession, Domains, c
    <3>4. SessionType(s)' /\ CallOK(s)' /\ SearchOK(s)'
      BY <1>a, <2>2, <2>4, <3>2, <3>3 DEF SessionType, CallOK, SearchOK
    <3>5. ASSUME ~moved PROVE PlaceOK(s)'
      <4>1. list = service \/ Prefix(list, service)
        BY <1>a, <2>2, <3>5 DEF PlaceInv
      <4>2. SignerAt(service, slot) = SignerAt(list, slot)
        BY <1>a, <2>4, <3>1, <4>1, PrefixAt DEF ListsType
      <4>3. At(service, slot, sess[s].signAs)
        BY <1>a, <2>2, <3>5 DEF PlaceOK
      <4> QED
        BY <1>a, <2>2, <2>4, <3>2, <3>3, <3>5, <4>2, <4>3 DEF PlaceOK, At
    <3> QED
      BY <1>c, <2>2, <3>3, <3>4, <3>5, SessionStep
  <2> QED
    BY <2>1, <2>3, <2>4
<1>19. ASSUME SignReturns(s) PROVE SInv'
  BY <1>17, <1>19, <1>c DEF SignReturns, list_vars
<1> QED
  BY <1>1, <1>2, <1>3, <1>9, <1>10, <1>11, <1>12, <1>13, <1>14, <1>15, <1>16, <1>18,
     <1>19 DEF Step

-----------------------------------------------------------------------------
(* Steps of the service and of the clock.                                  *)

\* A change of the service's list that leaves every signer in its place, or is
\* recorded in moved, preserves the invariant.
LEMMA ServiceStep ==
    ASSUME SInv, UNCHANGED <<cached, sess, call, want, handed, keys>>,
           fresh' \in BOOLEAN, moved' \in BOOLEAN, service' \in Lists,
           ~moved' => /\ ~moved
                      /\ Prefix(cached, service')
                      /\ \A slot \in Slots : SignerAt(service, slot) # NoSigner =>
                            SignerAt(service', slot) = SignerAt(service, slot)
    PROVE  SInv'
<1> USE DEF SInv
<1>1. SearchInv'
  BY DEF SearchInv, ListsType, Domains, SessionType, CallOK, SearchOK
<1>2. ASSUME ~moved' PROVE PlaceInv'
  <2>1. PlaceInv /\ Prefix(cached, service')
    BY <1>2
  <2>2. ASSUME NEW slot \in Slots, NEW signer, At(service, slot, signer)
        PROVE  At(service', slot, signer)
    BY <1>2, <2>2 DEF At
  <2>3. \A key \in keys : At(service', key.slot, key.as)
    BY <2>1, <2>2 DEF PlaceInv, SearchInv, ListsType
  <2>4. ASSUME NEW s \in Sessions PROVE PlaceOK(s)'
    <3>1. sess[s] \in SessionRecs /\ PlaceOK(s)
      BY <2>1 DEF SearchInv, SessionType, PlaceInv
    <3>2. sess[s].slotID \in Slots /\ sess[s].signKeyIndex \in Slots
      BY <3>1 DEF SessionRecs
    <3>3. \A i \in 1..Len(sess[s].findResults) : sess[s].findResults[i].slot \in Slots
      <4>1. sess[s].findResults \in SeqOf(Objects, 3)
        BY <3>1 DEF SessionRecs
      <4> QED
        BY <4>1, ResultFacts DEF Objects
    <3> QED
      BY <2>2, <3>1, <3>2, <3>3 DEF PlaceOK
  <2> QED
    BY <2>1, <2>3, <2>4 DEF PlaceInv
<1> QED
  BY <1>1, <1>2

\* The service's list of signers and the expiry of the cached one.
LEMMA ServicePreserves ==
    ASSUME SInv, \/ \E signer \in Signers :
                       AddSigner(signer) \/ AddSignerFirst(signer) \/ RemoveSigner(signer)
                 \/ Expire
    PROVE  SInv'
<1>a. /\ service \in Lists /\ cached \in Lists /\ fresh \in BOOLEAN /\ moved \in BOOLEAN
      /\ ~moved => Prefix(cached, service)
  BY DEF SInv, SearchInv, ListsType, PlaceInv
<1>b. /\ service \in Seq(Signers) /\ Len(service) \in Nat /\ Len(service) <= MaxSlots
      /\ \A i, j \in 1..Len(service) : service[i] = service[j] => i = j
      /\ Range(service) = {service[i] : i \in 1..Len(service)}
      /\ Len(cached) \in Nat /\ MaxSlots \in Nat
  BY <1>a, ListFacts, RangeEquality, SearchAssumption
<1>1. ASSUME NEW signer \in Signers, AddSigner(signer) PROVE SInv'
  <2>1. /\ service' \in Seq(Signers) /\ Len(service') = Len(service) + 1
        /\ \A i \in 1..Len(service) : service'[i] = service[i]
        /\ service'[Len(service) + 1] = signer
    BY <1>1, <1>b, AppendProperties DEF AddSigner
  <2>2. Len(service) < MaxSlots /\ \A i \in 1..Len(service) : service[i] # signer
    BY <1>1, <1>b DEF AddSigner
  <2>3. service' \in Lists
    <3>1. \A i, j \in 1..Len(service') : service'[i] = service'[j] => i = j
      BY <1>b, <2>1, <2>2
    <3> QED
      BY <1>b, <2>1, <2>2, <3>1, ListFacts
  <2>4. Prefix(service, service')
    BY <1>b, <2>1 DEF Prefix
  <2>5. \A slot \in Slots : SignerAt(service, slot) # NoSigner =>
            SignerAt(service', slot) = SignerAt(service, slot)
    BY <1>a, <2>3, <2>4, PrefixAt
  <2>6. ~moved => Prefix(cached, service')
    BY <1>a, <1>b, <2>1 DEF Prefix
  <2> QED
    BY <1>1, <1>a, <2>3, <2>5, <2>6, ServiceStep DEF AddSigner
<1>2. ASSUME NEW signer \in Signers, AddSignerFirst(signer) PROVE SInv'
  <2>1. /\ service' \in Seq(Signers) /\ Len(service') = Len(service) + 1
        /\ service'[1] = signer
        /\ \A i \in 2..(Len(service) + 1) : service'[i] = service[i - 1]
    <3> DEFINE q == <<signer>>
    <3>1. q \in Seq(Signers) /\ Len(q) = 1 /\ q[1] = signer
      OBVIOUS
    <3> HIDE DEF q
    <3>2. service' = q \o service
      BY <1>2 DEF AddSignerFirst, q
    <3>3. /\ q \o service \in Seq(Signers) /\ Len(q \o service) = Len(q) + Len(service)
          /\ \A i \in 1..(Len(q) + Len(service)) :
               (q \o service)[i] = IF i <= Len(q) THEN q[i] ELSE service[i - Len(q)]
      BY <1>b, <3>1, ConcatProperties
    <3>4. ASSUME NEW i \in 2..(Len(service) + 1) PROVE service'[i] = service[i - 1]
      <4>1. i \in 1..(1 + Len(service)) /\ ~(i <= 1)
        BY <1>b, <3>4
      <4> QED
        BY <1>b, <3>1, <3>2, <3>3, <4>1
    <3>5. service'[1] = signer
      <4>1. 1 \in 1..(1 + Len(service)) /\ 1 <= 1
        BY <1>b
      <4> QED
        BY <1>b, <3>1, <3>2, <3>3, <4>1
    <3> QED
      BY <1>b, <3>1, <3>2, <3>3, <3>4, <3>5
  <2>2. Len(service) < MaxSlots /\ \A i \in 1..Len(service) : service[i] # signer
    BY <1>2, <1>b DEF AddSignerFirst
  <2>3. service' \in Lists
    <3>1. ASSUME NEW i \in 1..Len(service'), NEW j \in 1..Len(service'),
                 service'[i] = service'[j]
          PROVE  i = j
      <4>1. i \in Nat /\ j \in Nat /\ i <= Len(service) + 1 /\ j <= Len(service) + 1
            /\ i >= 1 /\ j >= 1
        BY <1>b, <2>1
      <4>2. CASE i = 1 /\ j = 1
        BY <4>2
      <4>3. CASE i = 1 /\ j # 1
        <5>1. j \in 2..(Len(service) + 1) /\ j - 1 \in 1..Len(service)
          BY <1>b, <4>1, <4>3
        <5> QED
          BY <2>1, <2>2, <3>1, <4>3, <5>1
      <4>4. CASE i # 1 /\ j = 1
        <5>1. i \in 2..(Len(service) + 1) /\ i - 1 \in 1..Len(service)
          BY <1>b, <4>1, <4>4
        <5> QED
          BY <2>1, <2>2, <3>1, <4>4, <5>1
      <4>5. CASE i # 1 /\ j # 1
        <5>1. /\ i \in 2..(Len(service) + 1) /\ i - 1 \in 1..Len(service)
              /\ j \in 2..(Len(service) + 1) /\ j - 1 \in 1..Len(service)
          BY <1>b, <4>1, <4>5
        <5>2. i - 1 = j - 1
          BY <1>b, <2>1, <3>1, <5>1
        <5> QED
          BY <4>1, <5>2
      <4> QED
        BY <4>2, <4>3, <4>4, <4>5
    <3> QED
      BY <1>b, <2>1, <2>2, <3>1, ListFacts
  <2>4. ASSUME ~moved'
        PROVE  /\ ~moved
               /\ Prefix(cached, service')
               /\ \A slot \in Slots : SignerAt(service, slot) = NoSigner
    <3>1. ~moved /\ service = <<>>
      BY <1>2, <2>4 DEF AddSignerFirst
    <3>2. Len(service) = 0 /\ Len(cached) = 0
      BY <1>a, <1>b, <3>1 DEF Prefix
    <3>3. Prefix(cached, service')
      BY <2>1, <3>2 DEF Prefix
    <3>4. \A slot \in Slots : SignerAt(service, slot) = NoSigner
      BY <3>2, SearchAssumption DEF SignerAt, Slots
    <3> QED
      BY <3>1, <3>3, <3>4
  <2>5. moved' \in BOOLEAN
    BY <1>2 DEF AddSignerFirst
  <2> QED
    BY <1>2, <1>a, <2>3, <2>4, <2>5, ServiceStep DEF AddSignerFirst
<1>3. ASSUME NEW signer \in Signers, RemoveSigner(signer) PROVE SInv'
  <2>1. PICK i \in 1..Len(service) : service' = RemoveAt(service, i)
    BY <1>3, <1>b DEF RemoveSigner
  <2> DEFINE p == SubSeq(service, 1, i - 1)
             q == SubSeq(service, i + 1, Len(service))
             n == Len(service)
  <2>2. \A j \in 1..Len(service) : service[j] \in Signers
    BY <1>b, ElementOfSeq
  <2>3. /\ p \in Seq(Signers) /\ Len(p) = i - 1
        /\ \A j \in 1..(i - 1) : p[j] = service[j]
    <3>1. /\ p \in Seq(Signers)
          /\ Len(p) = (IF 1 <= i - 1 THEN i - 1 - 1 + 1 ELSE 0)
          /\ \A j \in 1..(i - 1 - 1 + 1) : p[j] = service[1 + j - 1]
      <4>1. \A j \in 1..(i - 1) : service[j] \in Signers
        BY <1>b, <2>2
      <4> QED
        BY <4>1, SubSeqProperties
    <3> HIDE DEF p
    <3> QED
      BY <3>1
  <2>4. /\ q \in Seq(Signers) /\ Len(q) = n - i
        /\ \A j \in 1..(n - i) : q[j] = service[i + j]
    <3>1. /\ q \in Seq(Signers)
          /\ Len(q) = (IF i + 1 <= n THEN n - (i + 1) + 1 ELSE 0)
          /\ \A j \in 1..(n - (i + 1) + 1) : q[j] = service[i + 1 + j - 1]
      <4>1. \A j \in (i + 1)..n : service[j] \in Signers
        BY <1>b, <2>2
      <4> QED
        BY <1>b, <4>1, SubSeqProperties
    <3> HIDE DEF q
    <3> QED
      BY <1>b, <3>1
  <2>5. service' = p \o q
    BY <2>1 DEF RemoveAt
  <2> HIDE DEF p, q
  <2>6. /\ service' \in Seq(Signers) /\ Len(service') = n - 1
        /\ \A j \in 1..(n - 1) :
             service'[j] = IF j <= i - 1 THEN service[j] ELSE service[j + 1]
    <3>1. /\ p \o q \in Seq(Signers) /\ Len(p \o q) = Len(p) + Len(q)
          /\ \A j \in 1..(Len(p) + Len(q)) :
               (p \o q)[j] = IF j <= Len(p) THEN p[j] ELSE q[j - Len(p)]
      BY <2>3, <2>4, ConcatProperties
    <3>2. ASSUME NEW j \in 1..(n - 1)
          PROVE  service'[j] = IF j <= i - 1 THEN service[j] ELSE service[j + 1]
      <4>1. j \in 1..(Len(p) + Len(q)) /\ j \in Nat /\ Len(p) = i - 1
        BY <1>b, <2>3, <2>4, <3>2
      <4>2. CASE j <= i - 1
        <5>1. j \in 1..(i - 1)
          BY <4>1, <4>2
        <5> QED
          BY <2>3, <2>5, <3>1, <4>1, <4>2, <5>1
      <4>3. CASE ~(j <= i - 1)
        <5>1. j - (i - 1) \in 1..(n - i) /\ i + (j - (i - 1)) = j + 1
          BY <1>b, <3>2, <4>1, <4>3
        <5>2. q[j - (i - 1)] = service[i + (j - (i - 1))]
          BY <2>4, <5>1
        <5> QED
          BY <2>5, <3>1, <4>1, <4>3, <5>1, <5>2
      <4> QED
        BY <4>2, <4>3
    <3> QED
      BY <1>b, <2>3, <2>4, <2>5, <3>1, <3>2
  <2>7. service' \in Lists
    <3>1. ASSUME NEW j \in 1..Len(service'), NEW k \in 1..Len(service'),
                 service'[j] = service'[k]
          PROVE  j = k
      BY <1>b, <2>6, <3>1
    <3>2. service' \in Seq(Signers) /\ Len(service') <= MaxSlots
      BY <1>b, <2>6
    <3>3. \A j, k \in 1..Len(service') : service'[j] = service'[k] => j = k
      BY <3>1
    <3> HIDE DEF n
    <3> QED
      BY <3>2, <3>3, ListFacts
  <2> QED
    BY <1>3, <1>a, <2>7, ServiceStep DEF RemoveSigner
<1>4. ASSUME Expire PROVE SInv'
  BY <1>4, <1>a, ServiceStep DEF Expire
<1> QED
  BY <1>1, <1>2, <1>3, <1>4

-----------------------------------------------------------------------------
\* No session is open and no list is cached initially.
LEMMA InitSInv == Init => SInv
<1> SUFFICES ASSUME Init PROVE SInv
  OBVIOUS
<1>1. /\ service \in Lists /\ cached = <<>> /\ fresh = FALSE /\ keys = {} /\ moved = FALSE
      /\ sess = [s \in Sessions |-> Closed] /\ call = [s \in Sessions |-> NoCall]
      /\ want = [s \in Sessions |-> {}] /\ handed = [s \in Sessions |-> <<>>]
  BY DEF Init
<1>2. Len(cached) = 0 /\ cached \in Lists
  <2>1. cached \in Seq(Signers) /\ Len(cached) = 0 /\ Len(cached) <= MaxSlots
    BY <1>1, SearchAssumption
  <2>2. \A i, j \in 1..Len(cached) : cached[i] = cached[j] => i = j
    BY <2>1
  <2> QED
    BY <2>1, <2>2, ListFacts
<1>3. ListsType /\ Domains
  BY <1>1, <1>2 DEF ListsType, Domains
<1>4. ASSUME NEW s \in Sessions
      PROVE  SessionType(s) /\ CallOK(s) /\ SearchOK(s) /\ PlaceOK(s)
  BY <1>1, RecordFacts DEF SessionType, CallOK, SearchOK, PlaceOK
<1>5. Prefix(cached, service)
  BY <1>1, <1>2, ListFacts DEF Prefix
<1> QED
  BY <1>1, <1>3, <1>4, <1>5 DEF SInv, SearchInv, PlaceInv

\* The inductive invariant holds in every reachable state.
THEOREM SearchInvariant == Spec => []SInv
<1>1. SInv /\ [Next]_vars => SInv'
  <2> SUFFICES ASSUME SInv, [Next]_vars PROVE SInv'
    OBVIOUS
  <2>1. CASE UNCHANGED vars
    <3>1. SearchInv'
      BY <2>1 DEF vars, SInv, SearchInv, ListsType, Domains, SessionType, CallOK, SearchOK
    <3>2. ~moved' => PlaceInv'
      BY <2>1 DEF vars, SInv, PlaceInv, PlaceOK, Prefix, At, SignerAt
    <3> QED
      BY <3>1, <3>2 DEF SInv
  <2> QED
    BY <2>1, StepPreserves, ServicePreserves DEF Next
<1> QED
  BY <1>1, InitSInv, PTL DEF Spec

\* In every reachable state each variable has its type: findPos stays within
\* the results, and handles name slots of the longest list.
THEOREM SearchTypes == Spec => []TypeOK
<1>1. SInv => TypeOK
  <2> SUFFICES ASSUME SInv PROVE TypeOK
    OBVIOUS
  <2>1. ListsType /\ Domains /\ \A s \in Sessions : SessionType(s)
    BY DEF SInv, SearchInv
  <2>2. sess \in [Sessions -> SessionRecs] /\ call \in [Sessions -> Calls]
    BY <2>1 DEF Domains, SessionType
  <2>3. want \in [Sessions -> SUBSET Objects]
    BY <2>1 DEF Domains, SessionType
  <2>4. \A s \in Sessions : Range(handed[s]) \subseteq Objects
    BY <2>1, RangeOfSeq DEF SessionType
  <2> QED
    BY <2>1, <2>2, <2>3, <2>4 DEF TypeOK, ListsType
<1> QED
  BY <1>1, SearchInvariant, PTL

\* For any sizes of batches and any sequence of searches, C_FindObjects returns
\* each object the template asks for once and no other, and all of them before
\* it says that there are no more.
THEOREM MatchesOnce == Spec => []EachMatchOnce
<1>1. SInv => EachMatchOnce
  <2> SUFFICES ASSUME SInv, NEW s \in Sessions, sess[s].findActive
               PROVE  /\ IsInjective(handed[s])
                      /\ Range(handed[s]) \subseteq want[s]
                      /\ sess[s].findPos >= Len(sess[s].findResults) =>
                           Range(handed[s]) = want[s]
    BY DEF EachMatchOnce
  <2> DEFINE q == sess[s].findResults
             pos == sess[s].findPos
  <2>1. /\ IsInjective(q) /\ Range(q) = want[s] /\ pos <= Len(q)
        /\ handed[s] = SubSeq(q, 1, pos) /\ sess[s] \in SessionRecs
    BY DEF SInv, SearchInv, SearchOK, SessionType
  <2>2. q \in Seq(Objects) /\ pos \in Nat /\ Len(q) \in Nat
    <3>1. q \in SeqOf(Objects, 3) /\ pos \in 0..3
      BY <2>1 DEF SessionRecs
    <3> QED
      BY <3>1, ResultFacts
  <2> HIDE DEF q, pos
  <2>3. /\ handed[s] \in Seq(Objects) /\ Len(handed[s]) = pos
        /\ \A i \in 1..pos : handed[s][i] = q[i]
    <3>1. \A i \in 1..pos : q[i] \in Objects
      BY <2>1, <2>2, ElementOfSeq
    <3>2. /\ SubSeq(q, 1, pos) \in Seq(Objects)
          /\ Len(SubSeq(q, 1, pos)) = (IF 1 <= pos THEN pos - 1 + 1 ELSE 0)
          /\ \A i \in 1..(pos - 1 + 1) : SubSeq(q, 1, pos)[i] = q[1 + i - 1]
      BY <2>2, <3>1, SubSeqProperties
    <3> QED
      BY <2>1, <2>2, <3>2
  <2>4. IsInjective(handed[s])
    BY <2>1, <2>2, <2>3 DEF IsInjective
  <2>5. /\ Range(handed[s]) = {handed[s][i] : i \in 1..pos}
        /\ Range(q) = {q[i] : i \in 1..Len(q)}
    BY <2>2, <2>3, RangeEquality
  <2>6. Range(handed[s]) \subseteq Range(q)
    BY <2>1, <2>2, <2>3, <2>5
  <2>7. pos >= Len(q) => Range(handed[s]) = Range(q)
    BY <2>1, <2>2, <2>3, <2>5
  <2> QED
    BY <2>1, <2>4, <2>6, <2>7 DEF q, pos
<1> QED
  BY <1>1, SearchInvariant, PTL

\* A private key found under the name of a signer signs as that signer, in any
\* session and over cached, expired and renewed lists, as long as the service
\* lists new signers after the others.
THEOREM KeepsItsPlace == Spec => []KeySignsAsFoundInPlace
<1>1. SInv => KeySignsAsFoundInPlace
  BY DEF SInv, PlaceInv, PlaceOK, KeySignsAsFoundInPlace, KeySignsAsFound
<1> QED
  BY <1>1, SearchInvariant, PTL
=============================================================================
