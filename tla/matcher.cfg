\* One answer for one snapshot, and the one the policy gives.
SPECIFICATION Spec
CONSTANTS
    Kind <- MCKind
    Covers <- MCCovers
    Short <- MCShort
    Tailnet <- MCTailnet
    Documents <- MCDocuments
    Inventories <- MCInventories
    Providers = {"headscale", "tailscale"}
    Logins = {"ann@x", "bob@x", "ann", None}
    None = None
INVARIANTS
    TypeOK
    CardsMatchPolicy
    OneSectionPerCategory
    MachinesMatchPolicy
    CheckIsNotBypassed
PROPERTY AnswersAgree
