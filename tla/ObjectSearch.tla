----------------------------- MODULE ObjectSearch -----------------------------
(***************************************************************************)
(* How an application gets from a name to a signature: C_FindObjectsInit,  *)
(* C_FindObjects, C_FindObjectsFinal, then C_SignInit and C_Sign with the  *)
(* handle it found (main.go, backend.go, slots.go).                        *)
(*                                                                         *)
(* A slot is a position in the list of signers, and an object handle is an *)
(* object type and a slot.  Nothing keeps the signer itself: every         *)
(* function looks the position up again in whatever list getSigners gives  *)
(* it then, which is the cached list or a new one.  So a call is cut at    *)
(* each look-up, and the service may change its list in between.  Fetching *)
(* and caching a list is one step here; SignerCaches has the rest of it.   *)
(* A session is used by one thread at a time.  Calls that return an error  *)
(* before changing anything are stuttering steps.                          *)
(***************************************************************************)
EXTENDS Integers, Sequences, SequencesExt

CONSTANTS
    Sessions,
    Signers,
    NoSigner,
    MaxFinds,     \* values of ulMaxObjectCount
    MaxSlots      \* bound: length of the list of signers

ASSUME SearchAssumption ==
    /\ NoSigner \notin Signers
    /\ MaxFinds \subseteq Nat
    /\ MaxSlots \in Nat \ {0}

Types == {"private", "public", "certificate"}
Lists == {list \in SeqOf(Signers, MaxSlots) : IsInjective(list)}
Slots == 0..(MaxSlots - 1)

Object(type, slot) == [type |-> type, slot |-> slot]
Objects == [type : Types, slot : Slots]

\* label stands for the CKA_LABEL and CKA_ID of a template, subject for its
\* CKA_SUBJECT: the signer they name.  class is "any" without CKA_CLASS,
\* "other" for a class the module has no objects of.
Templates == [class : Types \cup {"any", "other"},
              label : Signers \cup {NoSigner}, subject : Signers \cup {NoSigner}]
AnyObject == [class |-> "any", label |-> NoSigner, subject |-> NoSigner]

VARIABLES
    service,    \* the signers, in the order ListSigners returns them
    cached,     \* signerCache: the list
    fresh,      \* signerCache: there is a list and it has not expired
    sess,       \* per session: the search and signing fields of its struct
    call,       \* per session: the call in progress
    \* history
    want,       \* per session: the objects the search asks for
    handed,     \* per session: the handles C_FindObjects returned so far
    keys,       \* private keys the application knows, and the name it asked for
    moved       \* a signer has changed its place in the service's list

vars == <<service, cached, fresh, sess, call, want, handed, keys, moved>>
list_vars == <<service, cached, fresh, moved>>

SessionRecs ==
    [open : BOOLEAN, slotID : Slots,
     findActive : BOOLEAN, findResults : SeqOf(Objects, 3), findPos : 0..3,
     findLabel : Signers \cup {NoSigner},
     signActive : BOOLEAN, signKeyIndex : Slots, signAs : Signers \cup {NoSigner}]

\* findLabel and signAs are history: the name behind a search, behind a key.
Closed ==
    [open |-> FALSE, slotID |-> 0,
     findActive |-> FALSE, findResults |-> <<>>, findPos |-> 0, findLabel |-> NoSigner,
     signActive |-> FALSE, signKeyIndex |-> 0, signAs |-> NoSigner]

(***************************************************************************)
(* pc of a session: idle, or in FindObjectsInit about to check the label,  *)
(* the subject, or to store the results; signed: Sign has an answer, made  *)
(* by signer.                                                              *)
(***************************************************************************)
Calls == [pc : {"idle", "label", "subject", "results", "signed"},
          template : Templates, signer : Signers \cup {NoSigner}]
NoCall == [pc |-> "idle", template |-> AnyObject, signer |-> NoSigner]

Init ==
    /\ service \in Lists
    /\ cached = <<>>
    /\ fresh = FALSE
    /\ sess = [s \in Sessions |-> Closed]
    /\ call = [s \in Sessions |-> NoCall]
    /\ want = [s \in Sessions |-> {}]
    /\ handed = [s \in Sessions |-> <<>>]
    /\ keys = {}
    /\ moved = FALSE

\* getSigners returns list.
getSigners(list) ==
    \/ fresh /\ list = cached /\ UNCHANGED list_vars
    \/ /\ ~fresh /\ list = service
       /\ cached' = service /\ fresh' = TRUE
       /\ UNCHANGED <<service, moved>>

\* getSignerBySlot: the signer at a position, none beyond the end.
SignerAt(list, slot) == IF slot < Len(list) THEN list[slot + 1] ELSE NoSigner

Goto(s, pc) == call' = [call EXCEPT ![s].pc = pc]
Return(s) == call' = [call EXCEPT ![s] = NoCall]

-----------------------------------------------------------------------------
OpenSession(s, slot) ==
    /\ ~sess[s].open
    /\ \E list \in Lists : getSigners(list) /\ SignerAt(list, slot) # NoSigner
    /\ sess' = [sess EXCEPT ![s] = [Closed EXCEPT !.open = TRUE, !.slotID = slot]]
    /\ UNCHANGED <<call, want, handed, keys>>

\* The application keeps the handles it has found.
CloseSession(s) ==
    /\ sess[s].open
    /\ call[s] = NoCall
    /\ sess' = [sess EXCEPT ![s] = Closed]
    /\ want' = [want EXCEPT ![s] = {}]
    /\ handed' = [handed EXCEPT ![s] = <<>>]
    /\ UNCHANGED <<list_vars, call, keys>>

FindObjectsInit(s, template) ==
    /\ sess[s].open
    /\ call[s] = NoCall
    /\ ~sess[s].findActive
    /\ call' = [call EXCEPT ![s] = [NoCall EXCEPT !.pc = "label", !.template = template]]
    /\ UNCHANGED <<list_vars, sess, want, handed, keys>>

\* The search becomes active with these results and the call returns.
Results(s, results, wanted) ==
    /\ sess' = [sess EXCEPT ![s].findActive = TRUE, ![s].findResults = results,
                            ![s].findPos = 0, ![s].findLabel = call[s].template.label]
    /\ want' = [want EXCEPT ![s] = wanted]
    /\ handed' = [handed EXCEPT ![s] = <<>>]
    /\ Return(s)

setEmptyFindResult(s) == Results(s, <<>>, {})

\* The slot's signer is compared with what the template names: the search goes
\* on at pc, ends with no objects, or fails because the slot is gone.
Compare(s, named, pc) ==
    \E list \in Lists :
        LET signer == SignerAt(list, sess[s].slotID) IN
        /\ getSigners(list)
        /\ \/ /\ signer = named
              /\ Goto(s, pc)
              /\ UNCHANGED <<sess, want, handed>>
           \/ /\ signer \notin {named, NoSigner}
              /\ setEmptyFindResult(s)
           \/ /\ signer = NoSigner
              /\ Return(s)
              /\ UNCHANGED <<sess, want, handed>>

Skip(s, pc) == Goto(s, pc) /\ UNCHANGED <<list_vars, sess, want, handed>>

\* Mutant: the label of the template is not looked at.
MatchLabelIgnored(s) ==
    /\ call[s].pc = "label"
    /\ Skip(s, "subject")
    /\ UNCHANGED keys

MatchLabel(s) ==
    /\ call[s].pc = "label"
    /\ \/ call[s].template.label = NoSigner /\ Skip(s, "subject")
       \/ call[s].template.label # NoSigner
          /\ Compare(s, call[s].template.label, "subject")
    /\ UNCHANGED keys

MatchSubject(s) ==
    /\ call[s].pc = "subject"
    /\ \/ call[s].template.subject = NoSigner /\ Skip(s, "results")
       \/ call[s].template.subject # NoSigner
          /\ Compare(s, call[s].template.subject, "results")
    /\ UNCHANGED keys

\* The certificate cannot be had or parsed: the search finds nothing.
NoCertificate(s) ==
    /\ call[s].pc = "subject"
    /\ call[s].template.subject # NoSigner
    /\ \E list \in Lists :
          getSigners(list) /\ SignerAt(list, sess[s].slotID) # NoSigner
    /\ setEmptyFindResult(s)
    /\ UNCHANGED keys

\* The list of signers cannot be fetched.
ListFails(s) ==
    /\ \/ call[s].pc = "label" /\ call[s].template.label # NoSigner
       \/ call[s].pc = "subject" /\ call[s].template.subject # NoSigner
    /\ ~fresh
    /\ Return(s)
    /\ UNCHANGED <<list_vars, sess, want, handed, keys>>

\* The handles of the requested class, or all three of the slot.
ByClass(class, slot) ==
    CASE class \in Types  -> <<Object(class, slot)>>
      [] class = "other"  -> <<>>
      [] class = "any"    -> <<Object("private", slot), Object("public", slot),
                               Object("certificate", slot)>>

StoreResults(s) ==
    LET class == call[s].template.class
        slot == sess[s].slotID
    IN
    /\ call[s].pc = "results"
    /\ Results(s, ByClass(class, slot),
               {o \in Objects : o.slot = slot /\ class \in {"any", o.type}})
    /\ UNCHANGED <<list_vars, keys>>

\* What C_FindObjects returns for max.
Batch(r, max) ==
    SubSeq(r.findResults, r.findPos + 1, Min({r.findPos + max, Len(r.findResults)}))

Found(s, batch) ==
    /\ handed' = [handed EXCEPT ![s] = @ \o batch]
    /\ keys' = keys \cup {[slot |-> o.slot, as |-> sess[s].findLabel] :
                             o \in {p \in Range(batch) : p.type = "private"}}

\* Mutant: the position moves on by max.
FindObjectsSkips(s, max) ==
    /\ call[s] = NoCall
    /\ sess[s].findActive
    /\ sess[s].findPos < Len(sess[s].findResults)
    /\ Found(s, Batch(sess[s], max))
    /\ sess' = [sess EXCEPT ![s].findPos = @ + max]
    /\ UNCHANGED <<list_vars, call, want>>

\* Mutant: the position stays where it is.
FindObjectsRepeats(s, max) ==
    /\ call[s] = NoCall
    /\ sess[s].findActive
    /\ Len(handed[s]) < 4
    /\ Found(s, Batch(sess[s], max))
    /\ UNCHANGED <<list_vars, sess, call, want>>

\* At the end, and for max = 0, no handle is returned and nothing changes.
FindObjects(s, max) ==
    /\ call[s] = NoCall
    /\ sess[s].findActive
    /\ Batch(sess[s], max) # <<>>
    /\ Found(s, Batch(sess[s], max))
    /\ sess' = [sess EXCEPT ![s].findPos = @ + Len(Batch(sess[s], max))]
    /\ UNCHANGED <<list_vars, call, want>>

FindObjectsFinal(s) ==
    /\ sess[s].open
    /\ call[s] = NoCall
    /\ sess' = [sess EXCEPT ![s].findActive = FALSE, ![s].findResults = <<>>,
                            ![s].findPos = 0, ![s].findLabel = NoSigner]
    /\ want' = [want EXCEPT ![s] = {}]
    /\ handed' = [handed EXCEPT ![s] = <<>>]
    /\ UNCHANGED <<list_vars, call, keys>>

-----------------------------------------------------------------------------
(* A signing operation with a key that was found, in any session.          *)

\* In a session that is logged in.
SignInit(s, key) ==
    /\ sess[s].open
    /\ call[s] = NoCall
    /\ ~sess[s].signActive
    /\ sess' = [sess EXCEPT ![s].signActive = TRUE, ![s].signKeyIndex = key.slot,
                            ![s].signAs = key.as]
    /\ UNCHANGED <<list_vars, call, want, handed, keys>>

Ended(s) == sess' = [sess EXCEPT ![s].signActive = FALSE, ![s].signKeyIndex = 0,
                                 ![s].signAs = NoSigner]

\* signInternal: the signer is looked up now.
Sign(s) ==
    /\ call[s] = NoCall
    /\ sess[s].signActive
    /\ \E list \in Lists :
        LET signer == SignerAt(list, sess[s].signKeyIndex) IN
        /\ getSigners(list)
        /\ \/ /\ signer # NoSigner
              /\ call' = [call EXCEPT ![s] = [NoCall EXCEPT !.pc = "signed", !.signer = signer]]
              /\ UNCHANGED sess
           \/ /\ signer = NoSigner
              /\ Ended(s)
              /\ UNCHANGED call
    /\ UNCHANGED <<want, handed, keys>>

SignReturns(s) ==
    /\ call[s].pc = "signed"
    /\ Ended(s)
    /\ Return(s)
    /\ UNCHANGED <<list_vars, want, handed, keys>>

-----------------------------------------------------------------------------
(* The service and the clock.                                              *)

\* A signer is created, or the identity becomes a member of one; the new
\* signer is listed last.
AddSigner(signer) ==
    /\ signer \notin Range(service)
    /\ Len(service) < MaxSlots
    /\ service' = Append(service, signer)
    /\ UNCHANGED <<cached, fresh, sess, call, want, handed, keys, moved>>

\* The new signer is listed first.
AddSignerFirst(signer) ==
    /\ signer \notin Range(service)
    /\ Len(service) < MaxSlots
    /\ service' = <<signer>> \o service
    /\ moved' = (moved \/ service # <<>>)
    /\ UNCHANGED <<cached, fresh, sess, call, want, handed, keys>>

\* A signer is deleted, or the identity is no longer a member of it.
RemoveSigner(signer) ==
    /\ \E i \in DOMAIN service : /\ service[i] = signer
                                 /\ service' = RemoveAt(service, i)
    /\ moved' = TRUE
    /\ UNCHANGED <<cached, fresh, sess, call, want, handed, keys>>

Expire ==
    /\ fresh
    /\ fresh' = FALSE
    /\ UNCHANGED <<service, cached, sess, call, want, handed, keys, moved>>

Step(s) ==
    \/ \E slot \in Slots : OpenSession(s, slot)
    \/ CloseSession(s)
    \/ \E template \in Templates : FindObjectsInit(s, template)
    \/ MatchLabel(s) \/ MatchSubject(s) \/ NoCertificate(s) \/ ListFails(s)
    \/ StoreResults(s)
    \/ \E max \in MaxFinds : FindObjects(s, max)
    \/ FindObjectsFinal(s)
    \/ \E key \in keys : SignInit(s, key)
    \/ Sign(s) \/ SignReturns(s)

Next ==
    \/ \E s \in Sessions : Step(s)
    \/ \E signer \in Signers :
         AddSigner(signer) \/ AddSignerFirst(signer) \/ RemoveSigner(signer)
    \/ Expire

Spec == Init /\ [][Next]_vars

-----------------------------------------------------------------------------
(* Properties.                                                             *)

\* Every variable has its type; findPos never passes the end of the results.
TypeOK ==
    /\ service \in Lists /\ cached \in Lists /\ fresh \in BOOLEAN
    /\ sess \in [Sessions -> SessionRecs]
    /\ call \in [Sessions -> Calls]
    /\ want \in [Sessions -> SUBSET Objects]
    /\ \A s \in Sessions : Range(handed[s]) \subseteq Objects
    /\ moved \in BOOLEAN
    /\ keys \subseteq [slot : Slots, as : Signers \cup {NoSigner}]

\* Whatever batches the application asks for, and however searches follow each
\* other, C_FindObjects returns each object the template asks for once and no
\* other, and has returned all of them when it says that there are no more.
EachMatchOnce ==
    \A s \in Sessions : sess[s].findActive =>
        /\ IsInjective(handed[s])
        /\ Range(handed[s]) \subseteq want[s]
        /\ sess[s].findPos >= Len(sess[s].findResults) => Range(handed[s]) = want[s]

\* A tool names its key by the signer, "pkcs11:object=your-signer-name" or the
\* alias that "must match the Signer name in Infisical exactly" (README.md:293
\* and 283): a private key found under the name of a signer signs as that
\* signer, in whatever session and however much later it is used.
KeySignsAsFound ==
    \A s \in Sessions :
        call[s].pc = "signed" /\ sess[s].signAs # NoSigner =>
            call[s].signer = sess[s].signAs

\* What positions give: KeySignsAsFound as long as the service only ever lists
\* new signers after the others, over cached, expired and renewed lists.
KeySignsAsFoundInPlace == ~moved => KeySignsAsFound
=============================================================================
