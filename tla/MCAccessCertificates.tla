------------------------ MODULE MCAccessCertificates ------------------------
EXTENDS AccessCertificates, TLC

\* Entities, certificates and workers are interchangeable.
Symmetry == Permutations(Entities) \cup Permutations(Certs) \cup Permutations(Workers)
=============================================================================
