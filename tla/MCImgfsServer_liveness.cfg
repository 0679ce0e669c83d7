\* Two connections and one signal.
CONSTANTS
    a = a
    b = b
    x = x
    w1 = w1
    w2 = w2
    SIGINT = SIGINT
    SIGTERM = SIGTERM
    ImgIds = {a}
    EmptyId = EmptyId
    Images = {x}
    NonImages = {}
    NoImage = NoImage
    Resolutions = {"orig"}
    Workers = {w1, w2}
    Signals = {SIGTERM}
SPECIFICATION Spec
PROPERTIES
    SomeCallEnds
    SignalStops
CHECK_DEADLOCK FALSE
