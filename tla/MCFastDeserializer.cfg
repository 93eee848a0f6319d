CONSTANTS
    empty = empty
    foo = foo
    bar = bar
    asdf = asdf
    raw = raw
    coll = coll
    ASClass = ASClass
    Ext = Ext
    Mapped = Mapped
    Tab = Tab
    Gone = Gone
    Klass = Klass
    ExtKlass = ExtKlass
    HashKlass = HashKlass
    Missing = Missing
    Hash = Hash
    NaN = NaN
    BeyondTime = {NaN}
    NoName = NoName
    NoSource = NoSource
    EmptyString = empty
    CollectionName = coll
    HashClass = Hash
    HashClasses = {HashKlass}
    LoadableClasses = {Klass, ExtKlass, HashKlass}
    MaxUint16 = 65535
    MaxCalls = 3
    Strings <- MCStrings
    ByteSize <- MCByteSize
    CString <- MCCString
    RubyClasses <- MCRubyClasses
    Externals <- MCExternals
    Sources <- MCSources
    LaterSources <- MCLater
SPECIFICATION Spec
CHECK_DEADLOCK FALSE
INVARIANTS
    TypeOK
    StopsAtMessages
    OnlyCutsAndMappingsFail
PROPERTY
    Terminates
