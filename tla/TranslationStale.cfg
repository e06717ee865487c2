SPECIFICATION Spec
CONSTANTS
    Workers = {"worker"}
    Pollers = {"poller"}
    NChunks = 2
    Sizes <- Two
    MaxRetries = 0
    Concurrency = 1
    Providers = {"openai"}
    Disabled = {}
    Usual = "openai"
    NoProvider = NoProvider
    EventLimit = 0
INVARIANT
    AllDoneIsShown
CHECK_DEADLOCK FALSE
