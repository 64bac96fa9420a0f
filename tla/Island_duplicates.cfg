SPECIFICATION Spec
CONSTANTS
    RatioNum = 81
    RatioDen = 100
    GeoTol = 6
    MinPairs = 3
    Features <- MCFeatures
    Place <- MCPlace
    Desc <- MCDesc
    Offsets <- MCOffsets
    Width = 100
    Height = 80
    Jitter = 4
    MinPoints = 8
    MergeMinPairs = 6
    MergeDedup = 3
    Stages = 2
INVARIANTS
    OnePointPerFeature
