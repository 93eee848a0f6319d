CONSTANTS
    empty = empty
    bar = bar
    foo = foo
    asdf = asdf
    raw = raw
    proc = proc
    infinity = infinity
    ASClass = ASClass
    Gone = Gone
    Klass = Klass
    Missing = Missing
    Hash = Hash
    NaN = NaN
    Infinities = {infinity}
    NoName = NoName
    EmptyString = empty
    HashClass = Hash
    HashLike = {Hash}
    Loadable = {Klass}
    MaxCalls = 1
    Strings <- MCStrings
    ByteSize <- MCByteSize
    Mappings <- MCMappings
    Setters <- MCSetters
    Refuses <- MCRefuses
    Sources <- MCSources
SPECIFICATION Spec
CHECK_DEADLOCK FALSE
PROPERTY RaisesAMFErrors
