CONSTANTS
    Entities = {e1}
    Entitlements = {"PUB_EAA_Provider"}
    Issuers = {"PUB_EAA_Provider"}
    Lists = {"PUB_EAA_Provider"}
    Certs = {c1}
    Workers = {w1}
    NoEntity = NoEntity
    NoCert = NoCert
    NoType = NoType
    Requests <- PubEAAOnly
    FormStatuses = {"revoked"}
    AdminRows = {}
    Deletable = {}
    CrashAt = {}
SPECIFICATION LoteFairSpec
PROPERTY WithdrawnIsPermanent
