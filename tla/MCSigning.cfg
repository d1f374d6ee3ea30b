CONSTANTS
    Entities = {e1}
    Entitlements = {"PID_Provider", "Service_Provider"}
    Issuers = {"PID_Provider"}
    Certs = {c1, c2, c3}
    Workers = {w1, w2}
    NoEntity = NoEntity
    NoCert = NoCert
    NoType = NoType
    Requests <- MCRequests
    FormStatuses = {"active", "revoked"}
    AdminRows = {"active", "inactive"}
    Deletable = {e1}
    CrashAt = {"validated", "storing", "revoking", "loaded"}
SPECIFICATION Spec
SYMMETRY Symmetry
INVARIANTS
    SigningTypeOK
    OneCurrentSigning
    HasCurrentSigning
    CurrentNotRevoked
    SigningInv
    EntitledWhenQuiet
CHECK_DEADLOCK FALSE
