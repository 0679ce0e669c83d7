\* Three names, two images and three slots; the process may die once.
CONSTANTS
    a = a
    b = b
    c = c
    x = x
    y = y
    garbage = garbage
    ImgIds = {a, b, c}
    EmptyId = EmptyId
    Images = {x, y}
    NonImages = {garbage}
    NoImage = NoImage
    Torn = Torn
    Resized = {"thumb"}
    MaxFiles = 3
    VersionModulus = 2
    MaxContents = 2
    MaxFaults = 0
    MaxCrashes = 1
SPECIFICATION Spec
INVARIANTS
    StoredOnce
    FileFollowsMemory
    CountersTellTruth
    OnlyFirstSlotShadows
SYMMETRY Symmetry
