SPECIFICATION Spec
CONSTANTS
    Entities = {e1}
    Certs = {c1, c2}
    Workers = {w1}
    NoEntity = NoEntity
    NoCert = NoCert
    FormStatuses = {"active", "suspended"}
    Deletable = {}
    CAFailures = FALSE
    Crashes = FALSE
INVARIANTS AllRevokedOnSuspension
