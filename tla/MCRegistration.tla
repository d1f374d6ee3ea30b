--------------------------- MODULE MCRegistration ---------------------------
EXTENDS Registration, TLC

\* One inline an administrator may enter: it breaks the symmetry of entities.
CONSTANTS e1, e2, e3
OneInline == {<<e1, e2>>}
Symmetry == Permutations(Legal) \cup Permutations(Workers)
=============================================================================
