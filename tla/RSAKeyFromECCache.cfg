\* One reader is enough: what is the RSA reader served when the signer is rekeyed?
CONSTANTS
    Threads = {t1}
    SignerTTL = 0
    CertTTL = 1
    Latency = 1
SPECIFICATION Spec
INVARIANT RSAReadGivesRSA
