\* Every shape of one request.
CONSTANTS
    x = x
    bad = bad
    Requests <- AllRequests
    MaxHeaders = 2
    Stores <- AllStores
    ImgIds <- AllIds
    EmptyId = EmptyId
    Images = {x}
    NonImages = {bad}
    NoImage = NoImage
    Resolutions = {"orig", "small", "thumb"}
    Garbled <- GarbledName
    Padded = {x, bad}
SPECIFICATION Spec
INVARIANTS
    ParsedIsSent
    CallIsAsked
    AskedIsServed
    
    ReplyTellsTruth
CHECK_DEADLOCK FALSE
