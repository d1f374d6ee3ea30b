SPECIFICATION Spec
CONSTANTS
    Entities = {e1}
    Certs = {c1, c2, c3}
    Workers = {w1, w2}
    NoEntity = NoEntity
    NoCert = NoCert
    FormStatuses = {"suspended", "revoked"}
    Deletable = {e1}
    CAFailures = TRUE
    Crashes = TRUE
SYMMETRY Symmetry
INVARIANTS TypeOK NotedIsRevokedAtCA HasCurrent RowsBelongToRegistered IInv
PROPERTIES LedgerSpec
\* every entity may have been deleted: nothing is left to do
CHECK_DEADLOCK FALSE
