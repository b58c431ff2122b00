CONSTANTS
    Provider = "headscale"
    Editing = FALSE
    Requests = {}
    Values = {v1, v2}
    Changing = {"policy"}
    MaxSaves = 0
    Poll = 1
    CallTime = 1
    None = None
SPECIFICATION FairSpec
PROPERTY ChangesArrive
