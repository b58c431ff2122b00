CONSTANTS
    Providers = {"tailscale", "npm"}
    Callers = {c1, c2}
    MaxTokens = 3
    None = None
SPECIFICATION FairSpec
INVARIANTS
    RefusalHasACause
    RenewalsCoalesce
PROPERTIES
    TokenMovesForward
    CallsEnd
