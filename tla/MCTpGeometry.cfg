SPECIFICATION Spec
CONSTANT Cases <- MCCases
INVARIANTS
    RanksDisjoint
    RanksCover
    TilesUnderScales
    BlocksWhole
    CreatedIsLoadable
CHECK_DEADLOCK FALSE
