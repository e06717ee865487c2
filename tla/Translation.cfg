SPECIFICATION Spec
CONSTANTS
    Workers = {"worker"}
    Pollers = {"poller"}
    NChunks = 2
    Sizes <- Two
    MaxRetries = 1
    Concurrency = 2
    Providers = {"openai", "off"}
    Disabled = {"off"}
    Usual = "openai"
    NoProvider = NoProvider
    EventLimit = 1
INVARIANTS
    TransTypeOK
    SoleTranslator
    DoneMeansTranslated
    ChunkRecoverable
PROPERTIES
    DoneStays
CHECK_DEADLOCK FALSE
