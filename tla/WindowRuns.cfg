SPECIFICATION Spec
CONSTANTS
    None = None
    Sources = {"here", "there"}
    Pipelines = {"names", "tags"}
    Consents = {"tags"}
    Scopes = {"all", "some"}
    All = "all"
    OpsPerJob = 1
    MaxInputs = 3
    MaxFaults = 0
PROPERTIES
    RunIsAsAgreed
