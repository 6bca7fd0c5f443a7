\* Shell and the thread end; nothing happens after that.
CHECK_DEADLOCK FALSE
SPECIFICATION FairSpec
CONSTANTS
    Letters = {"x"}
    EOL = "eol"
    MAX_COMMAND_LINE_LEN = 4
    NoLoginTimeout = 1
    NoTransferTimeout = 2
    Names = {".h", "a", "b", "long"}
    Listings <- SomeListings
    Hidden = {".h"}
    TooLongNames = {"long"}
    LineLen = 2
    BufferSize = 3
CONSTRAINT ListingApart
INVARIANTS
    TypeOK
    LinesAsSent
    ListingWhole
PROPERTIES
    TimedOutWhenQuiet
    SelectEnds
