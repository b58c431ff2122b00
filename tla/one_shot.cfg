\* suggest-hostnames from its input to the file, or one probe of a service.
SPECIFICATION Spec
CONSTANTS
    Providers = {"headscale", "tailscale"}
    Tailnets <- MCTailnets
    References = {r1, r2, r3, l1, l2, l3}
    r1 = r1
    r2 = r2
    r3 = r3
    l1 = l1
    l2 = l2
    l3 = l3
    Tags = {tag}
    tag = tag
    RawNames = {"nas", "NAS", "tv", "wiki", "cam", "bare", "apex"}
    None = None
    Malformed = Malformed
    Canonical <- MCCanonical
    Feeds <- MCFeeds
    Proxies <- MCProxies
    Overrides <- MCOverrides
    MaxRecords = 2
    MaxFields = 6
    MaxCandidates = 3
    MaxHosts = 6
    MaxDomains = 6
    MaxSuffixes = 4
    MaxEdges = 5
    MaxEntries = 2
    Commands = {a, b}
    Nobody = Nobody
    Foreign = Foreign
    Absent = Absent
    Invalid = Invalid
    Addresses = {0, 1, 2, 3, 4, 5, 6}
    Dangerous = {0, 5}
    Broadcast = 6
    Documents <- MCDocuments
    Guarded <- MCGuarded
    Backends <- MCBackends
    Zones <- MCZones
    Statuses = {200, 300, 401, 403, 404}
INVARIANTS
    InventoryIsTrue
    SuggestionsAreUnambiguous
    CreatedProposalStays
    OnlyVettedSocketsAreDialled
    ReportIsJustified
PROPERTY OthersFilesStay
CHECK_DEADLOCK FALSE
