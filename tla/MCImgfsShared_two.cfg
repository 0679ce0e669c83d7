\* Two processes on one file, with no discipline between them.
CONSTANTS
    a = a
    b = b
    x = x
    y = y
    p1 = p1
    p2 = p2
    Procs = {p1, p2}
    ImgIds = {a, b}
    EmptyId = EmptyId
    Images = {x, y}
    NonImages = {}
    NoImage = NoImage
    Torn = Torn
    Resized = {"thumb"}
    MaxFiles = 2
    VersionModulus = 1
    MaxContents = 3
    MaxCrashes = 1
    MaxChanges = 3
SPECIFICATION Spec
INVARIANTS
    TypeOK
    OffsetsInFile
    StoreIsSound
    StaleReadsAreTrue
PROPERTIES
    OnlyDeletesRemove
SYMMETRY Symmetry
CHECK_DEADLOCK FALSE
