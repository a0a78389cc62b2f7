------------------------------ MODULE MCSlotUse ------------------------------
(* A small instance of SlotUse for TLC.                                    *)
EXTENDS SlotUse

Key(type, bits, lacks) == [type |-> type, bits |-> bits, lacks |-> lacks]
SignerOf(id, key, listed_, label, cert) ==
    [id |-> id, key |-> key, listed |-> listed_, label |-> label, cert |-> cert]

\* a, before and after it is rekeyed; b, whose algorithm the list does not name and
\* whose HSM does no PSS.
A1 == SignerOf("a", Key("RSA", 2048, {}), TRUE, 1, 2)
A2 == SignerOf("a", Key("EC", 521, {}), TRUE, 1, 1)
B  == SignerOf("b", Key("RSA", 3072, {"PSS"}), FALSE, 2, 1)

MCSignerLists == {<<>>, <<A1>>, <<A2>>, <<B, A1>>}
==============================================================================
