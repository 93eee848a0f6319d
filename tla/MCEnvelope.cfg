CONSTANTS
    top = top
    p = p
    q = q
    empty = empty
    dflt = dflt
    foo = foo
    bar = bar
    bad = bad
    nul = nul
    long = long
    coll = coll
    Thing = Thing
    Flex = Flex
    Klass = Klass
    Msg = Msg
    Hash = Hash
    NoName = NoName
    NoSource = NoSource
    EmptyString = empty
    DefaultName = dflt
    CollectionName = coll
    HashClass = Hash
    Unencodable = {bad}
    HashClasses = {}
    LoadableClasses = {Msg}
    AbstractMessages = {Msg}
    UseArrayCollection = FALSE
    MaxUint16 = 65535
    MaxData = 4
    Objects <- MCObjects
    Strings <- MCStrings
    ByteSize <- MCByteSize
    CString <- MCCString
    AsClassNames <- MCAsClassNames
    RubyClasses <- MCRubyClasses
    Externals <- MCExternals
    Heaps <- MCHeaps
    Envelopes <- MCEnvelopes
SPECIFICATION Spec
CHECK_DEADLOCK FALSE
INVARIANTS
    FailsExactlyWhenCut
PROPERTIES
    ImplementsTransfer
    EverythingArrives
