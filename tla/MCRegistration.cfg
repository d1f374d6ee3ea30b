CONSTANTS
    e1 = e1
    e2 = e2
    e3 = e3
    Entities = {e1, e2, e3}
    Legal = {l1, l2}
    Identifiers = {i1}
    Hosts = {h1}
    Workers = {w1, w2}
    NoEntity = NoEntity
    NoLegal = NoLegal
    NoIdentifier = NoIdentifier
    NoHost = NoHost
    FormHosts = {h1}
    FreeHosts = {h1}
    AdminUses <- OneInline
    CrashAt = {"form", "posting"}
SPECIFICATION Spec
SYMMETRY Symmetry
INVARIANTS
    RegTypeOK
    UsesAcyclic
    EntitiesFindable
    RegInv
CHECK_DEADLOCK FALSE
