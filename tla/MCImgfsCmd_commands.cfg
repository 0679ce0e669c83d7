\* One command after another, on four files.
CONSTANTS
    x = x
    bad = bad
    CommandLines <- AllCommandLines
    Names <- AllNames
    Copies = {"x.jpg"}
    Numbers <- AllNumbers
    UINT16_MAX = 65535
    UINT32_MAX = 69999
    ImgIds = {"a", ""}
    EmptyId = EmptyId
    Images = {x}
    NonImages = {bad}
    NoImage = NoImage
    Resolutions = {"orig", "thumb"}
SPECIFICATION Spec
INVARIANTS
    ExitTellsTruth
    FailureKeepsFiles
    ConfigInBounds
PROPERTIES
    OnlyAskedForIsRemoved
