CONSTANTS
    NumPaths = 2
    Contents = {"small", "large", "bomb"}
    BlocksOf <- MCBlocks
    Inputs <- MCInputs
    Traits <- MCTraits
    Extension <- MCExtension
    Probe <- MCProbe
    EarlierRaw <- MCRaw
    NumWorkers = 2
    MapReplies <- MCReplies
    MaxMishaps = 1
    MaxRuns = 2
    Target = 2
    SectionChunks = 1
    CardLimit = 2
    Texts = {"thin"}
    Weak = {"thin"}
    Critics = 1
    ReviewCalls = 2
SPECIFICATION BSpec
INVARIANTS SuccessBacked WorkKept BundleFaithful
CHECK_DEADLOCK FALSE
