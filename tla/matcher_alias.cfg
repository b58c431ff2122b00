\* Host aliases never match a human request, says the documentation.
SPECIFICATION Spec
CONSTANTS
    Kind <- MCKind
    Covers <- MCCovers
    Short <- MCShort
    Tailnet <- MCTailnet
    Documents <- ClashingDocuments
    Inventories <- MCInventories
    Providers = {"headscale"}
    Logins = {"ann@x", "ann@"}
    None = None
INVARIANT HostAliasesAreNotPeople
