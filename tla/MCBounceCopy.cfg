SPECIFICATION BounceSpec
CONSTANTS
    small = small
    large = large
    other = other
    Datas <- MCDatas
    SizeOf <- MCSizeOf
    Dsts = {d1, d2}
    Garbage = Garbage
INVARIANTS
    LoadedArrives
PROPERTIES
    ImplementsCopyQueue
