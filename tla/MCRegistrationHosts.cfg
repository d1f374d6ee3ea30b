CONSTANTS
    e1 = e1
    e2 = e2
    e3 = e3
    Entities = {e1, e2}
    Legal = {l1, l2}
    Identifiers = {i1, i2}
    Hosts = {h1}
    Workers = {w1}
    NoEntity = NoEntity
    NoLegal = NoLegal
    NoIdentifier = NoIdentifier
    NoHost = NoHost
    FormHosts = {h1}
    FreeHosts = {h1}
    AdminUses = {}
    CrashAt = {}
SPECIFICATION Spec
INVARIANT HostOfOneLegalEntity
CHECK_DEADLOCK FALSE
