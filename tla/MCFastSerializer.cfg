CONSTANTS
    top = top
    p = p
    q = q
    empty = empty
    dflt = dflt
    foo = foo
    bar = bar
    bad = bad
    nul = nul
    coll = coll
    Klass = Klass
    Plain = Plain
    Thing = Thing
    Hash = Hash
    NoName = NoName
    EmptyString = empty
    DefaultName = dflt
    CollectionName = coll
    Unencodable = {bad}
    UseArrayCollection = TRUE
    MaxUint16 = 1
    MaxMessages = 2
    MaxEndless = 20
    Objects <- MCObjects
    Strings <- MCStrings
    ByteSize <- MCByteSize
    CString <- MCCString
    AsClassNames <- MCAsClassNames
    Heaps <- MCHeaps
    Calls <- MCCalls
    OutsideCalls <- MCOutsideCalls
SPECIFICATION Spec
CHECK_DEADLOCK FALSE
INVARIANTS
    TypeOK
    OwnIndices
    StaleOnlyAfterFailure
    CrashesOnlyOutsideOrAcross
PROPERTIES
    IndicesNeverChange
    Terminates
