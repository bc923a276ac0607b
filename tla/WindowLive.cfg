SPECIFICATION FairSpec
CONSTANTS
    None = None
    Sources = {"here", "there"}
    Pipelines = {"names", "tags"}
    Consents = {"tags"}
    Scopes = {"all", "some"}
    All = "all"
    OpsPerJob = 1
    MaxInputs = 2
    MaxFaults = 1
PROPERTIES
    JobsAreSeen
    CatchesUp
