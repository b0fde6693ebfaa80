\* Two requests at a time over the keys of a super and another administrator; the
\* database fails, the insert of an audit row does not.
CONSTANTS
    None = None
    h1 = h1
    h2 = h2
    k1 = k1
    k2 = k2
    a1 = a1
    a2 = a2
    Handlers = {h1, h2}
    Keys = {k1, k2}
    Admins = {a1, a2}
    Supers = {a1}
    Names = {n1}
    Requested = {"login", "createKey", "revokeKey", "tenant",
                 "revokeCredential", "jetstream", "monitor"}
    DbFails = TRUE
    AuditFails = FALSE

SPECIFICATION Spec
VIEW WithoutUsed
SYMMETRY Symmetry

INVARIANTS
    TypeOK
    ToldOnce

PROPERTIES
    RegistrySpec
    SpentForGood
    CreatorOrSuperRevokes
    
