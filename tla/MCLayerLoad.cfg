SPECIFICATION LayerSpec
CONSTANTS
    NumExperts = 2
    Remote = Remote
    NotAsked = NotAsked
    Global <- MCGlobal
    LocalOf <- MCLocalOf
    Offset <- MCOffset
    Cases <- MCCases
    Units <- MCUnits
INVARIANTS
    RequiredIsUva
    ServesOwn
    AcceptedIsComplete
    OutputInPlace
    RoutedToFormat
PROPERTIES
    RejectsOnlyBad
CHECK_DEADLOCK FALSE
