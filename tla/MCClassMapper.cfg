CONSTANTS
    NoName = NoName
    l1 = l1
    l2 = l2
    r1 = r1
    r2 = r2
    m1 = m1
    m2 = m2
    Locals  = {l1, l2}
    Remotes = {r1, r2}
    Mappers = {m1, m2}
    Batches <- MCBatches
    MaxSets = 2
SPECIFICATION Spec
INVARIANTS
    TypeOK
    TablesHoldRegistrations
    BiDirectionalIfOneToOne
PROPERTY CallsKeepTheirMappings
