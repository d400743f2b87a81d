SPECIFICATION FuzzingSpec
CONSTANTS
    WordSize = 4
    ByteSize = 2
    Spread = 1
    Elements = {"a", "b"}
    Null = null
    ArrayMaxSize = 4
    StringMaxSize = 3
    KnownValues <- KnownStrings
    StringBound = 5
    Absent = absent
    Throws = throws
    Types <- GeneratedTypes
    TypesOf <- MethodTypes
    MaxGeneration = 6
    RestoreMaxTrial = 2
    CanonicalName <- NamesOfTypes
    Assignable <- Fitting
    Lineage <- Superclasses
    Declared <- DeclaredMethods
    MethodNames = {"feed"}
    MaxArguments = 1
    MaxLookups = 3
    NoMethod = nomethod
    NotAsked = notasked
    ServiceNames = {"activity", "flinger"}
    InJava = {"activity"}
    MaxLives = 2
    MaxStubs = 2
    NoBinder = nobinder
    NoInfo = noinfo
    ClassNames = {"Parcel", "Bundle", "Uri"}
    Worlds <- GivenWorlds
    Primitive = "int"
    ArraySize = 2
    StackSize = 4
INVARIANTS
    GTypeOK
    ChildrenFromParents
    ParametersRepaired
    KeepsFuzzing
    NotOfItself
    LookupsFresh
    DescriptionsTell
PROPERTIES
    FuzzingEnds
    DeathsHeard
CHECK_DEADLOCK FALSE
