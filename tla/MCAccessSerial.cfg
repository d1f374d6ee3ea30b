SPECIFICATION FairSpec
CONSTANTS
    Entities = {e1, e2}
    Certs = {c1, c2}
    Workers = {w1}
    NoEntity = NoEntity
    NoCert = NoCert
    FormStatuses = {"pending", "active", "suspended", "revoked"}
    Deletable = {e1, e2}
    CAFailures = FALSE
    Crashes = FALSE
INVARIANTS SuspensionRevokes OneCurrent ReasonInSync SerialInv
PROPERTIES SuspensionCompletes
CHECK_DEADLOCK FALSE
