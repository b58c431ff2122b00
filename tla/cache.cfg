CONSTANTS
    Provider = "headscale"
    Editing = TRUE
    Requests = {r1}
    Values = {v1}
    Changing = {}
    MaxSaves = 2
    Poll = 2
    CallTime = 1
    None = None
SPECIFICATION Spec
INVARIANTS HealthyMeansRecent StaleMeansFailure ConfirmedSavesAreShown
