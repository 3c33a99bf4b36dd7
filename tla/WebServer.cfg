SPECIFICATION WebFairSpec
CONSTANTS
    old = old
    Works = {old, new}
    Factory = old
    Crashes = {bad}
    NoImage = NoImage
    MaxTimeouts = 2
    MaxChunks = 2
    MaxReboots = 2
    MaxLosses = 1
    LOG_LINES = 2
    Lines = {l1, l2}
    Writers = {w1, w2}
    Page = Page
    NoLine = NoLine
    Nobody = Nobody
INVARIANTS TypeOK FallbackWorks PageShowsLastLines
PROPERTIES ImplementsUpdateService ComesUpAgain RebootHappens UploadEnds
