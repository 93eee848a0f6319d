CONSTANTS
    top = top
    p = p
    q = q
    empty = empty
    dflt = dflt
    foo = foo
    bar = bar
    bad = bad
    raw = raw
    Klass = Klass
    Plain = Plain
    Thing = Thing
    Hash = Hash
    NaN = NaN
    NoName = NoName
    EmptyString = empty
    DefaultName = dflt
    HashClass = Hash
    HashLike = {Hash}
    Loadable = {Klass}
    Unencodable = {bad}
    MaxMessages = 2
    Objects <- MCObjects
    Blobs = {raw}
    Strings <- MCStrings
    ByteSize <- MCByteSize
    Mappings <- MCMappings
    Setters <- MCSetters
    Refuses <- MCRefuses
    Heaps <- MCHeaps
    Roots <- MCRoots
SPECIFICATION Spec
CHECK_DEADLOCK FALSE
INVARIANTS
    TypeOK
    CachesDense
    StaleOnlyAfterFailure
    StringTableIsStream
    LosesOnlySealed
PROPERTIES
    IndicesNeverChange
    Terminates
