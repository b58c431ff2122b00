CONSTANTS
    i1 = i1
    i2 = i2
    e1 = e1
    o1 = o1
    t1 = t1
    t2 = t2
    Procs = {p1}
    Clients = {c1, c2}
    Ids = {i1, i2}
    Edits = {e1}
    Orgs = {o1}
    Targets = {t1}
    Catalogs <- MCShown
    SlowTabs = {}
    Keys = {k1, k2, k3}
    None = None
    InitialFiles <- MCInitial
    OperatorFiles = {}
    LiveOperator = FALSE
SPECIFICATION HistorySpec
SYMMETRY Symmetry
INVARIANT AnyInterveningEditConflicts
