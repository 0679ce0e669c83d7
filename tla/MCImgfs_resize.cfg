\* A resolution made on demand is not in the file.
CONSTANTS
    a = a
    b = b
    c = c
    x = x
    y = y
    garbage = garbage
    ImgIds = {a, b}
    EmptyId = EmptyId
    Images = {x, y}
    NonImages = {garbage}
    NoImage = NoImage
    Torn = Torn
    Resized = {"thumb"}
    MaxFiles = 2
    VersionModulus = 2
    MaxContents = 3
    MaxFaults = 0
    MaxCrashes = 0
SPECIFICATION Spec
INVARIANTS
    ResizeIsStored
SYMMETRY Symmetry
