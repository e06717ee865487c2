SPECIFICATION FairSpec
CONSTANTS
    Workers = {"worker"}
    Pollers = {"poller"}
    NChunks = 1
    Sizes <- OneOrNone
    MaxRetries = 1
    Concurrency = 1
    Providers = {"openai", "off"}
    Disabled = {"off"}
    Usual = "openai"
    NoProvider = NoProvider
    EventLimit = 1
PROPERTY
    ChunksSettle
CHECK_DEADLOCK FALSE
