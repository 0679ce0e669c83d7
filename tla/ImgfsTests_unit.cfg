\* The unit tests of the store.
CONSTANTS
    ImgIds = {"pic", "pic1", "pic2", "pic3", "pic42"}
    EmptyId = ""
    Images = {"papillon", "coquelicots", "brouillard", "foret"}
    NonImages = {"zeros"}
    NoImage = "none"
    Torn = Torn
    Resized = {"thumb", "small"}
    MaxFiles = 3
    VersionModulus = 65536
    MaxContents = 6
    MaxFaults = 0
    MaxCrashes = 0
SPECIFICATION SpecTests
INVARIANTS
    TestsPass
