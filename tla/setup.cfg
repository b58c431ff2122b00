\* Commands, hands and power losses on one environment file.
SPECIFICATION Spec
CONSTANTS
    Wizards = {w}
    Editors = {e}
    Observer = o
    cidr1 = cidr1
    cidr2 = cidr2
    Sources = {cidr1, cidr2}
    Lists = {list}
    n1 = n1
    Notes = {n1, n2}
    Files <- MCFiles
    None = None
    Absent = Absent
    Broken = Broken
    Torn = Torn
    MaxStarts = 2
    MaxEdits = 2
    r1 = r1
    r2 = r2
    r3 = r3
    Requests = {r1, r2, r3}
    Malformed = {r3}
    Source <- MCSource
INVARIANTS
    TypeOK
    WholeFile
    TrustedWasObserved
PROPERTY OwnKeysOnly
CHECK_DEADLOCK FALSE
