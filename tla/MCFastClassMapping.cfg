SPECIFICATION Spec
CONSTANTS
    m1 = m1
    NoName = NoName
    AsNames <- MCAsNames
    RubyNames <- MCRubyNames
    Loaded <- MCLoaded
    Classes <- MCClasses
    Getters <- MCGetters
    Mappers <- MCMappers
    AsDefaults <- MCAsDefaults
    RubyDefaults <- MCRubyDefaults
    Strays <- MCStrays
    MaxSets = 2
    MaxChanges = 2
INVARIANTS
    TypeOK
    LoadedNamespacesStayWhole
    PropsExactUnlessChanged
