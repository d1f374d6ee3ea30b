SPECIFICATION Spec
CONSTANTS
    u1 = u1
    u2 = u2
    u3 = u3
    k1 = k1
    k2 = k2
    k3 = k3
    l1 = l1
    l2 = l2
    Entities = {1, 2}
    Uses = {u1, u2, u3}
    Policies = {k1, k2, k3}
    Legals = {l1, l2}
    Workers = {w1, w2}
    Issuers = {x1, x2}
    Unused = Unused
    Deleted = Deleted
    Nothing = Nothing
    Missing = Missing
    Langs = {"en"}
    Uris = {"x", "y"}
    LastDay = 2
    MaxWrites = 3
    EntityRows <- MCEntityRows
    IdentifiersOf <- MCIdentifiersOf
    Credentials <- MCCredentials
    Bodies <- MCBodies
    Criteria <- MCCriteria
    Start <- MCStart
    LegalRows <- MCLegalRows
    EntitlementLists <- MCEntitlementLists
    UseForms <- MCUseForms
    Requests <- MCRequests
SYMMETRY Symmetry
CHECK_DEADLOCK FALSE
INVARIANTS
    RelyingTypeOK
    UseHasParts
    PolicyRowsBounded
    QualifiedConsistent
    OneKindOfPerson
PROPERTY RevokedNotConfirmed
