\* Two names, two images and two slots; the process may die twice.
CONSTANTS
    a = a
    b = b
    c = c
    x = x
    y = y
    garbage = garbage
    ImgIds = {a, b}
    EmptyId = EmptyId
    Images = {x, y}
    NonImages = {garbage}
    NoImage = NoImage
    Torn = Torn
    Resized = {"thumb"}
    MaxFiles = 2
    VersionModulus = 2
    MaxContents = 3
    MaxFaults = 0
    MaxCrashes = 2
SPECIFICATION Spec
INVARIANTS
    TypeOK
    UniqueIds
    ContentsMatch
    CountDrift
PROPERTIES
    IsImageDatabase
SYMMETRY Symmetry
