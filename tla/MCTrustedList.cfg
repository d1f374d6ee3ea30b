CONSTANTS
    p1 = p1
    p2 = p2
    p3 = p3
    v1 = v1
    v2 = v2
    c1 = c1
    e1 = e1
    e2 = e2
    e3 = e3
    Schemes = {1, 2}
    Providers = {p1, p2, p3}
    Services = {v1, v2}
    Certs = {c1}
    Entities = {e1, e2, e3}
    Workers = {w1}
    Unused = Unused
    Deleted = Deleted
    Nothing = Nothing
    Pems = {"good", "other", "bad"}
    Malformed = {"bad"}
    Breaking = {"other"}
    AddressOf <- MCAddressOf
    Start <- MCStart
    SchemeForms <- MCForms
    DetailForms <- MCDetailForms
    PartForms <- MCPartForms
    ProviderOrders <- MCProviderOrders
    ServiceOrders <- MCServiceOrders
    Directories <- MCDirectories
    MaxWrites = 2
SPECIFICATION Spec
INVARIANTS
    TslTypeOK
    IdentityMatchesPem
    NamelessHasCause
    EveryRowPublished
    RoundTrip
PROPERTIES
    PublishedSpec
    EligibleGetsListed
CHECK_DEADLOCK FALSE
