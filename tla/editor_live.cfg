CONSTANTS
    i1 = i1
    i2 = i2
    e1 = e1
    o1 = o1
    t1 = t1
    t2 = t2
    Procs = {p1, p2}
    Clients = {c1}
    Ids = {i1}
    Edits = {e1}
    Orgs = {o1}
    Targets = {t1, t2}
    Catalogs <- MCCatalogs
    SlowTabs = {c1}
    Keys = {k1, k2, k3}
    None = None
    InitialFiles <- MCInitial
    OperatorFiles <- MCOperator
    LiveOperator = TRUE
SPECIFICATION HistorySpec
SYMMETRY Symmetry
INVARIANTS OneWriter RevokedSaveNeverLands
PROPERTY FinishedHandEditSurvives
