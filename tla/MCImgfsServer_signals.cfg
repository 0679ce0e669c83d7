\* The handler of a signal interrupts that of another.
CONSTANTS
    a = a
    b = b
    x = x
    w1 = w1
    w2 = w2
    SIGINT = SIGINT
    SIGTERM = SIGTERM
    ImgIds = {a}
    EmptyId = EmptyId
    Images = {x}
    NonImages = {}
    NoImage = NoImage
    Resolutions = {"orig"}
    Workers = {w1, w2}
    Signals = {SIGINT, SIGTERM}
SPECIFICATION Spec
PROPERTIES
    SignalStops
CHECK_DEADLOCK FALSE
