CONSTANTS
    Entities = {e1}
    Entitlements = {"PID_Provider", "PUB_EAA_Provider"}
    Issuers = {"PID_Provider", "PUB_EAA_Provider"}
    Lists = {"PID_Provider", "PUB_EAA_Provider"}
    Certs = {c1, c2}
    Workers = {w1}
    NoEntity = NoEntity
    NoCert = NoCert
    NoType = NoType
    Requests <- BothIssuers
    FormStatuses = {"active", "revoked"}
    AdminRows = {}
    Deletable = {}
    CrashAt = {"storing", "revoking", "clearing", "granting"}
SPECIFICATION LoteFairSpec
INVARIANTS
    LoteTypeOK
PROPERTIES
    RevokedNeverRelisted
    ProvidersGetListed
    UntrustedLeaveLists
