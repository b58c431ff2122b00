CONSTANTS
    Hosts = {h1, h2, h3}
    Workers = {w1, w2}
    Pools = {1, 2}
    Outcomes = {"unreachable", "unknown"}
    Configs = {{h1, h2}, {h1}}
    Interval = 1
    Timeout = 1
    Retry = 1
    None = None
SPECIFICATION FairSpec
INVARIANTS KnownIsRecent StaleMeansFailure
PROPERTIES NoResultIsLost PollingGoesOn RemovedHostsVanish BrokenFileLapses
