----------------------- MODULE MCSigningCertificates -----------------------
EXTENDS SigningCertificates, TLC

\* One list that keeps the issuer entitlement, and one, with a duplicate, that
\* drops it.
MCRequests == {<<"PID_Provider">>, <<"Service_Provider", "Service_Provider">>}
Symmetry == Permutations(Certs) \cup Permutations(Workers)
=============================================================================
