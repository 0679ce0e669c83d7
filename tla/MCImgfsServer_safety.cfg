\* Two connections, two identifiers and both signals.
CONSTANTS
    a = a
    b = b
    x = x
    w1 = w1
    w2 = w2
    SIGINT = SIGINT
    SIGTERM = SIGTERM
    ImgIds = {a, b}
    EmptyId = EmptyId
    Images = {x}
    NonImages = {}
    NoImage = NoImage
    Resolutions = {"orig"}
    Workers = {w1, w2}
    Signals = {SIGINT, SIGTERM}
SPECIFICATION Spec
INVARIANTS
    TypeOK
    AnswersOwnRequest
    ClosedIsDurable
PROPERTIES
    CallsOneAtATime
    CloseWaits
SYMMETRY Symmetry
CHECK_DEADLOCK FALSE
