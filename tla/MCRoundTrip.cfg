CONSTANTS
    top = top
    p = p
    q = q
    empty = empty
    dflt = dflt
    preset = preset
    foo = foo
    bar = bar
    raw = raw
    Thing = Thing
    Unmapped = Unmapped
    Klass = Klass
    Plain = Plain
    Hash = Hash
    NaN = NaN
    NoName = NoName
    EmptyString = empty
    DefaultName = dflt
    HashClass = Hash
    HashLike = {Hash}
    Loadable = {Klass}
    Unencodable = {}
    MaxMessages = 2
    Objects <- MCObjects
    Strings <- MCStrings
    ByteSize <- MCByteSize
    Setters <- MCSetters
    Refuses <- MCRefuses
    WriterMappings <- MCMappings
    ReaderMappings <- MCMappings
    Heaps <- MCHeaps
    Roots <- MCRoots
SPECIFICATION Spec
CHECK_DEADLOCK FALSE
INVARIANTS
    LeavesOnlyTheLast
PROPERTIES
    ImplementsTransfer
    EverythingArrives
