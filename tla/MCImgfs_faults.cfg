\* Three flushes, large writes or resizes may fail, also in do_delete and also
\* after another call left its entry in the buffer; the process may die once.
CONSTANTS
    a = a
    b = b
    c = c
    x = x
    y = y
    garbage = garbage
    ImgIds = {a, b}
    EmptyId = EmptyId
    Images = {x}
    NonImages = {}
    NoImage = NoImage
    Torn = Torn
    Resized = {"thumb"}
    MaxFiles = 2
    VersionModulus = 2
    MaxContents = 2
    MaxFaults = 3
    MaxCrashes = 1
SPECIFICATION Spec
INVARIANTS
    TypeOK
    
SYMMETRY Symmetry
